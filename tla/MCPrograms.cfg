SPECIFICATION ProgramsSpec
CONSTANTS
  HeapStart = 8
  HeapSize = 220
  WordSize = 4096
  Disk <- MCDisk
  Typed <- MCTyped
  Sizes = {40}
  Returns = {3}
  LoadArea = {200, 201, 202, 203}
  Byte = 16
  Paragraph = 4
  RmSize = 32
  PspSize = 8
  PspSeg = 2
  PspParagraphs = 2
  PspBytes <- MCPsp
  RelocSize = 4
INVARIANTS ProgramsTypeOK TakenBack ImageFaithful NeverRefused
PROPERTY StartsFromItsFile
