SPECIFICATION Spec
CONSTANTS
  Names <- MCNames
  Paths <- MCPaths
  CdPaths <- MCCdPaths
  NewNames <- MCNewNames
  ProgramCds <- MCProgramCds
  WithExt <- MCWithExt
  Images <- MCImages
  Disks = {"absent", "blank", "fat"}
  DriverSlots = 2
  MaxDirs = 2
  MaxDepth = 2
INVARIANTS StateSound 
PROPERTIES CdLeads FoundIsRun
VIEW WithoutAsked
