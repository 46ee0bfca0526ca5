SPECIFICATION FairFeeSpec
CONSTANTS
  t1 = t1
  t2 = t2
  PaperTrades = {t1}
  TicksPerHour = 2
  HoursPerDay = 1
  MaxCatchUp = 2
  MaxHours = 3
  MaxFaults = 2
INVARIANT FeesAreExact
PROPERTY JobsCatchUp
CHECK_DEADLOCK FALSE
