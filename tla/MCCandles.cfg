SPECIFICATION MCSpec
CONSTANTS
  Kinds = {"bitflyer", "gmo", "oanda"}
  Primary = 2
  H1 = 4
  DrainCap = 2
  HistoryCap = 2
  BackoffCap = 4
  MaxTime = 5
  MaxFaults = 2
  PerBar = 2
  EntryChannel = 1
  ExitChannel = 1
  HistoryLen = 2
  CandleShapes <- MCCandleShapes
  StopDistance = 1
  MaxCandles = 6
  MaxAgain = 1
INVARIANTS MarketDataIsTrue StrategySeesThePast
PROPERTIES SilentReplaced
CHECK_DEADLOCK FALSE
