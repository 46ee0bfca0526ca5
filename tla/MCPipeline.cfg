SPECIFICATION FairSpec
CONSTANTS
  Feeds = {bitflyer, oanda}
  OandaFeeds = {oanda}
  Slots = {s1, s2}
  DisabledSlots = {s2}
  PriceCap = 1
  MonitorCap = 1
  SignalCap = 1
  ExitCap = 1
  TradeCap = 1
  MaxEvents = 2
  MayPanic = {"engine", "executor"}
INVARIANTS CleanShutdown
CHECK_DEADLOCK FALSE
PROPERTIES MonitorsSeeTheStream DrainTerminates
