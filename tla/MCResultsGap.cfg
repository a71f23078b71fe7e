\* The backfill commits while football-data is being asked.
CONSTANTS
  None = None
  Match = {m1}
  ScoresOf <- MCBothScores
  MaxTime = 4
  Kickoffs = {0}
  HkjcLookback = 2
  FallbackAfter = 1
  FallbackLookback = 4
  ReviewAfter = 2
  MaxCorrections = 0
  MaxBackfills = 1
  MaxFailures = 1
SPECIFICATION Spec
CHECK_DEADLOCK FALSE
PROPERTIES
  FallbackOnlyFillsGaps
