SPECIFICATION MCSpec
CONSTANTS
  pairX = pairX
  pairY = pairY
  Pairs = {pairX, pairY}
  Signals <- MCSignals
  AccountTypes = {"paper", "live"}
  DryRunFlags = {FALSE}
  InitialBalance = 1000
  Prices = {96, 100, 109}
  StartPrice = 100
  Spread = 1
  Leverage = 10
  AllocationPct = 100
  StopLossPct = 5
  TakeProfitPct = 8
  LiquidationLevel = 100
  MarginBuffer = 0
  DriftFloor = 20
  CoolDown = 0
  ExternalSums = {100}
  MaxOpens = 2
  MaxMoves = 1
  MaxTicks = 1
  MaxIncidents = 1
  MaxSkips = 1
  live1 = live1
  live2 = live2
  fresh = fresh
  Ids = {live1, live2, fresh}
  Handlers = {h1, h2}
  Exchanges = {"gmo_fx", "bitflyer_cfd"}
  Catalog = {"s"}
  LeverageCap <- MCCap
  MinInitialBalance = 2
  LevelConfigs <- MCConfigs
  InitialAccounts <- MCAccounts
  Requests <- MCRequests
  MaxRequests = 3
  MaxSignals = 1
  MaxRestarts = 1
INVARIANTS BooksMatchExchange SizedSurvivesStop AnswerIsTrue AccountsAreSound
PROPERTIES MonitorActs DriftVerdict
CHECK_DEADLOCK FALSE
