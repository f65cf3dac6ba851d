SPECIFICATION Spec
CONSTANTS
  Slots = 3
  Packets = {p, q}
  MaxFrames = 6
  MaxSends = 1
  MaxLoads = 2
INVARIANT RingSound
PROPERTY ImplementsQueue
CHECK_DEADLOCK FALSE
