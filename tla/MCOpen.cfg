SPECIFICATION MCSpec
CONSTANTS
  Modes = {"paper", "bitflyer", "gmo"}
  Qty = 2
  MaxAttempts = 2
  MaxApiFails = 1
  MaxDbFails = 1
  MaxUnlocks = 1
  MaxSwitches = 2
  MaxRestarts = 1
  Clients = {"bitflyer", "gmo", "oanda"}
  Size = 2
  Skews <- MCSkews
  Margin = 1
  ForeignTimes <- MCForeignTimes
  MaxResolveTries = 3
  MaxRequestFails = 1
INVARIANTS
  NoSilentOrphan
  EntriesRespectAccount
  ClientAnswersTrue
CHECK_DEADLOCK FALSE
