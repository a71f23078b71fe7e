\* A prediction of each of two matches, one to a run of the job, so that one without a
\* price keeps the other waiting; a kickoff moves, quotes are readable or not, results gain
\* and lose their confirmation.
CONSTANTS
  None = None
  Match = {"m1", "m2"}
  Count = 2
  MatchOf <- MCMatchOf
  Scores <- MCScores
  MaxTime = 2
  Kickoffs = {0, 1}
  MaxFlight = 2
  Limit = 1
  MaxStores = 1
  MaxMoves = 1
  MaxResults = 2
  MaxFailures = 1
SPECIFICATION FairSpec
CHECK_DEADLOCK FALSE
INVARIANTS
  ClvInv
PROPERTIES
  RecordsAreFinal
  PricedIsRecorded
  LabelArrives
