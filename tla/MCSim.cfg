SPECIFICATION Spec
CONSTANTS
  Workers = {w1, w2}
  Specs <- MCSpecs
  Tolerance = 1
  MaxRuns = 3
  Keys = {"a", "b", "c"}
  Uses <- MCUses
  Bytes <- MCBytes
  Budget = 3
  MaxFaults = 2
  LastDate = 2
  OpenTimes = {0}
  Attempts = 2
  MaxCommands = 2
INVARIANTS CompletedIsWhole CacheAccounted RangeWhole
PROPERTIES CommandEnds
CHECK_DEADLOCK FALSE
