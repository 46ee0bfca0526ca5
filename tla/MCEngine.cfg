SPECIFICATION MCSpec
CONSTANTS
  Frames = {1, 2}
  Day = 2
  Spread = 1
  Shapes <- MCShapes
  MaxBars = 5
  MaxTime = 4
  Warmups = {0, 1}
  Calls <- MCCalls
  StopOffset = 2
  Theta = 6
  Period = 2
  BarMax = 2
  RunMax = 4
  MaxKeys = 1
  Parts = 3
  ReplayShapes <- MCReplayShapes
  MaxReplay = 4
  InitialBalance = 20
  PricePerUnit = 2
  SpreadAmount = 1
  StopPct = 2
  TakePct = 2
INVARIANTS AnswersFromThePast TradesExplainPositions ReportAddsUp BacktestIsHonest RunIsBounded
CHECK_DEADLOCK FALSE
