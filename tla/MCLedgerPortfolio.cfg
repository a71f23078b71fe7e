\* Two matches whose bets overlap in time, at a cap of half the bankroll and full
\* Kelly: a batch of two may stake everything.
CONSTANTS
  NoLine = NoLine
  None = None
  Match = {m1, m2}
  Version = {v1}
  Proc = {p1}
  Targets = {"1x2"}
  MaxTime = 3
  Lead = 0
  Lookahead = 1
  Width = 1
  Kickoffs = {1, 3}
  SyncTimes = {0, 2}
  HadBooks <- MCOneHadBook
  HdcBooks <- MCNone
  Beliefs1x2 <- MCSureBelief
  BeliefsHdc <- MCBeliefsHdc
  Rows <- MCWinOrLose
  InitialBankroll = 10000
  BankBound = 1000000
  MaxMoves = 0
  MaxCrashes = 0
  KellyNum = 1
  KellyDen = 1
  CapNum = 1
  CapDen = 2
  MinStake = 10
  EdgeThreshold = 2
  ExecBuffer = 3
SPECIFICATION Spec
CHECK_DEADLOCK FALSE
SYMMETRY MatchSymmetry
INVARIANTS
  Solvent
PROPERTIES
  EquityCurveIsFinal
