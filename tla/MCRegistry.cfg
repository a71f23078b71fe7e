\* Two processes that retrain and roll back, a crash anywhere, and results that
\* move the evaluation window.
CONSTANTS
  None = None
  Proc = {p1, p2}
  Targets = {"1x2", "handicap"}
  LastWindow = 1
  Profiles <- MCProfiles
  Margin = 0
  MaxTime = 2
  MaxModels = 3
  MaxEvents = 1
SPECIFICATION Spec
CHECK_DEADLOCK FALSE
SYMMETRY ProcSymmetry
INVARIANTS
  RegistryInv
PROPERTIES
  OneChampionKept
  RollbackReversible
  ReplacedByABetter
