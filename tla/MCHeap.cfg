CONSTANTS
  Clients = {c1, c2}
  Requests <- MCRequests
  HeapStart = 32
  HeapSize = 136
  WordSize = 256
SPECIFICATION Spec
INVARIANT Sound
PROPERTIES Stable ImplementsPromise
