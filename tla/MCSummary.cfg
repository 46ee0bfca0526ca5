SPECIFICATION MCSpec
CONSTANTS
  t1 = t1
  t2 = t2
  Trades = {t1, t2}
  Backfill = 2
  Capacity = 1
  MaxDay = 3
  MaxDbFails = 1
  MaxRestarts = 1
  Strategies <- MCStrategies
  Sundays = {2}
  LastDay = 3
  MaxFailures = 1
  MaxStarts = 1
INVARIANTS
  SummariesSound
  SundayAccounted
PROPERTY ClosedIsCounted
CHECK_DEADLOCK FALSE
