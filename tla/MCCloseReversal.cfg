SPECIFICATION Spec
CONSTANTS
  m1 = m1
  m2 = m2
  sd = sd
  Closers = {m1, sd}
  StopDetector = sd
  Modes = {"bitflyer"}
  SuspendModes = {FALSE}
  Qty = 1
  Margin = 5
  PnLs <- MCPnLs
  MaxCost = 0
  MaxFees = 0
  MaxApiFails = 1
  MaxDbFails = 0
  MaxRestarts = 0
INVARIANT NeverReverses
CHECK_DEADLOCK FALSE
