\* The command `ledger` beside the scheduled job, through crashes: what survives
\* their race.
CONSTANTS
  NoLine = NoLine
  None = None
  Match = {m1}
  Version = {v1}
  Proc = {p1, p2}
  Targets = {"1x2"}
  MaxTime = 2
  Lead = 0
  Lookahead = 1
  Width = 1
  Kickoffs = {1}
  SyncTimes = {0}
  HadBooks <- MCOneHadBook
  HdcBooks <- MCNone
  Beliefs1x2 <- MCOneBelief1x2
  BeliefsHdc <- MCBeliefsHdc
  Rows <- MCFallbackRows
  InitialBankroll = 10000
  BankBound = 1000000
  MaxMoves = 0
  MaxCrashes = 1
  KellyNum = 1
  KellyDen = 2
  CapNum = 1
  CapDen = 20
  MinStake = 10
  EdgeThreshold = 2
  ExecBuffer = 3
SPECIFICATION FairSpec
CHECK_DEADLOCK FALSE
INVARIANTS
  LedgerInv
PROPERTIES
  OneBetForever
  SettledNeverTouched
  ConfirmedBetsSettle
  ValueBetsArePlaced
