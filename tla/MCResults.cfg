\* Two matches, the backfill beside the job, which keeps running through failures;
\* sources that disagree but are not corrected.
CONSTANTS
  None = None
  Match = {m1, m2}
  ScoresOf <- MCScores
  MaxTime = 2
  Kickoffs = {0}
  HkjcLookback = 2
  FallbackAfter = 0
  FallbackLookback = 2
  ReviewAfter = 1
  MaxCorrections = 0
  MaxBackfills = 1
  MaxFailures = 1
SPECIFICATION FairSpec
CHECK_DEADLOCK FALSE
INVARIANTS
  ResultsInv
PROPERTIES
  HkjcRowStays
  UnresolvedIsFlagged
  HkjcResultArrives
