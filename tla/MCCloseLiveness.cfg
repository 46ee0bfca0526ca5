SPECIFICATION FairSpec
CONSTANTS
  m1 = m1
  m2 = m2
  sd = sd
  Closers = {m1, m2, sd}
  StopDetector = sd
  Modes = {"paper", "bitflyer", "gmo"}
  SuspendModes = {FALSE}
  Qty = 2
  Margin = 5
  PnLs <- MCPnLs
  MaxCost = 0
  MaxFees = 1
  MaxApiFails = 2
  MaxDbFails = 0
  MaxRestarts = 1
PROPERTIES
  StopFillRecorded
  ClosingEnds
CHECK_DEADLOCK FALSE
