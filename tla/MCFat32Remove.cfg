CONSTANTS
  Names <- MCNames
  StoredName <- MCStoredName
  Data <- MCData
  SlotCount = 2
  SectorsPerCluster = 2
  LastCluster = 7
  SectorCount = 10
  FatPerSector = 4
  WordsPerSlot = 2
  Disks <- FilesDisk
  Requests <- RemoveRequests
  MaxFaults = 1
SPECIFICATION FairSpec
INVARIANT SurvivesRemove
PROPERTIES CallsReturn
