\* Both jobs, or one of them twice, with a retry each; among them one failed
\* transaction, stop or reset.
CONSTANTS
  Gone = Gone
  NoOwner = NoOwner
  Caller <- MCCallers
  Throttle = 2
  MaxRetries = 1
  BackoffBase = 1
  BackoffCap = 2
  MaxFires = 2
  MaxMishaps = 1
SPECIFICATION FairSpec
CHECK_DEADLOCK FALSE
INVARIANTS
  JobsInv
PROPERTIES
  Throttled
  JobsEnd
