CONSTANTS
  MaxTimers = 2
  Intervals = {2}
  TickLengths = {0, 1}
  Callbacks = {f}
  None = None
  MaxId = 3
  MaxTime = 2
SPECIFICATION FairSpec
INVARIANTS Sound ChargedOnce
PROPERTIES TicksEnd
