\* Six matches of three teams over two seasons; windows of one to three matches.
CONSTANTS
  None = None
  Match = {1, 2, 3, 4, 5, 6}
  Team = {"a", "b", "c"}
  Fixtures <- MCFixtures
  Lines <- MCLines
  MaxTime = 4
  SeasonLength = 2
  FormWindow = 2
  StrengthWindow = 3
  H2HWindow = 1
  StatsWindow = 1
  StatsAfter = 1
  StatsLead = 1
  Lookahead = 2
  MinRows = 3
  MinTrainRows = 1
  EvalPart = 2
  CalibrationPart = 4
SPECIFICATION Spec
CHECK_DEADLOCK FALSE
INVARIANTS
  TrainingInv
  SplitsAreBlind
  ChampionIsBlindToEval
