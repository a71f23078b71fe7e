\* Buckets of two time units, a kickoff aligned with them and one that is not; the match
\* is in the backfilled history, or not yet; a fetch or a job may fail.  A first job meets
\* the last capture, or a match that is unplayed long enough to be compacted and is moved
\* between the two transactions; in a second all rows have passed retention.
CONSTANTS
  None = None
  MaxTime = 18
  Kickoffs = {4, 5}
  Inplays <- MCNotInplay
  Width = 2
  Lead = 2
  Keep = 3
  Age = 3
  Retention = 14
  Period = 9
  MaxFlight = 1
  MaxLate = 4
  MaxStores = 4
  MaxMoves = 1
  MaxFailures = 1
  Backfilled = TRUE
SPECIFICATION FairSpec
CHECK_DEADLOCK FALSE
INVARIANTS
  OddsInv
PROPERTIES
  DeletionsSpareAnchors
  FinalLookupsFrozen
  CaptureNeverLosesClose
  EventuallyCompacted
