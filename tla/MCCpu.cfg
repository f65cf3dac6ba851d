SPECIFICATION Spec
CONSTANTS
  Byte = 16
  Paragraph = 16
  MemSize = 4096
  VgaFirst = 2560
  VgaLast = 2815
  IntBits = 12
  MaxSteps = 40
  MaxRepeats = 10
  Dollar = 7
  MaxText = 5
  Service <- MCService
  Images <- MCImages
INVARIANTS Computes CodesAreTrue
PROPERTIES Stops Contained
