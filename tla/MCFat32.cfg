CONSTANTS
  Names <- MCNames
  StoredName <- MCStoredName
  Data <- MCData
  SlotCount = 2
  SectorsPerCluster = 2
  LastCluster = 7
  SectorCount = 10
  FatPerSector = 4
  WordsPerSlot = 2
  Disks <- HostDisks
  Requests <- TreeRequests
  MaxFaults = 1
SPECIFICATION Spec
INVARIANTS TreeSound FatsAgree SuccessIsTrue
PROPERTIES BystandersKept LeaksOnlyOnFailure
