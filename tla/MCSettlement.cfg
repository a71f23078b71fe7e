\* Every line from -2 to +2 goals, scores to 4-4; prices that stay, shorten,
\* lengthen or are missing, and a bankroll too small for a bet.
CONSTANTS
  NoLine = NoLine
  Nothing = Nothing
  Waiting = Waiting
  Unreported = Unreported
  MaxGoals = 4
  HandicapLines <- MCLines
  OddsSet = {115, 185, 219}
  Stakes = {10, 11}
  Priors <- MCPriors
  Prices = {Nothing, 165, 185, 219, 330}
  Closes = {Nothing, 185}
  Probs = {35, 55, 62}
  Banks = {10000, 1500}
  KellyNum = 1
  KellyDen = 2
  CapNum = 1
  CapDen = 20
  MinStake = 10
  EdgeThreshold = 2
  ExecBuffer = 3
SPECIFICATION BacktestSpec
CHECK_DEADLOCK FALSE
INVARIANTS
  SettlementInv
  BacktestSeesTheLedger
