SPECIFICATION FormatSpec
CONSTANTS
  DriveSectors <- MCDrives
  Ram = "A"
  EntriesPerSector = 4
  RamReserved = 4
  FatfsTotal = 64
  FatfsReserved = 8
  FatfsSpc = 2
  Backup = 6
INVARIANTS FormattedUsable
