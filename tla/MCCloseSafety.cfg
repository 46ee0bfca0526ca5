SPECIFICATION Spec
CONSTANTS
  m1 = m1
  m2 = m2
  sd = sd
  Closers = {m1, sd}
  StopDetector = sd
  Modes = {"paper", "bitflyer", "gmo"}
  SuspendModes = {TRUE, FALSE}
  Qty = 2
  Margin = 5
  PnLs <- MCPnLs
  MaxCost = 1
  MaxFees = 1
  MaxApiFails = 2
  MaxDbFails = 1
  MaxRestarts = 2
INVARIANTS
  MoneySettledOnce
  StopAndMarketExclusive
  ClosedIsCovered
  ReversalIsAccounted
PROPERTY ImplementsLifecycle
CHECK_DEADLOCK FALSE
