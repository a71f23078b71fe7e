\* The scheduled job alone, on a handicap market whose main line moves between a
\* level and a quarter line: two champions' versions, results corrected or losing
\* their confirmation, a match moved or called off; predictions are made at most
\* Lead before kickoff, as in the settings.
CONSTANTS
  NoLine = NoLine
  None = None
  Match = {m1}
  Version = {v1, v2}
  Proc = {p1}
  Targets = {"handicap"}
  MaxTime = 3
  Lead = 1
  Lookahead = 1
  Width = 2
  Kickoffs = {2, 3}
  SyncTimes = {0, 1, 2}
  HadBooks <- MCNone
  HdcBooks <- MCTwoHdcBooks
  Beliefs1x2 <- MCOneBelief1x2
  BeliefsHdc <- MCBeliefsHdc
  Rows <- MCThreeRows
  InitialBankroll = 10000
  BankBound = 1000000
  MaxMoves = 1
  MaxCrashes = 1
  KellyNum = 1
  KellyDen = 2
  CapNum = 1
  CapDen = 20
  MinStake = 10
  EdgeThreshold = 2
  ExecBuffer = 3
SPECIFICATION Spec
CHECK_DEADLOCK FALSE
INVARIANTS
  StakeWithinLimits
  BatchTermsAreReal
  IdempotentWhenQuiet
  SettledByConfirmedResult
PROPERTIES
  ImplementsBettingBook
