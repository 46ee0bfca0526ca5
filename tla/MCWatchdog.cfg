SPECIFICATION MCSpec
CONSTANTS
  CheckInterval = 1
  SuspendGap = 2
  StaleAfter = 3
  RealertInterval = 4
  MaxLag = 1
  MaxBack = 1
  MaxSuspends = 1
  Old = 7
  Attempts = 2
  InitialSecs = 1
  SendTimeout = 1
  RoundSecs = 2
  RealertSecs = 7
  MaxTime = 12
  MaxAlerts = 3
  MaxFailures = 4
INVARIANTS
  OutageReported
  AlertsInOrder
PROPERTIES
  AlertIsReal
  AlarmEnds
CHECK_DEADLOCK FALSE
