CONSTANTS
  Entries <- TwoProcesses
  NoGroup = "none"
  ShrinkBy = 50
  Capacity = 8
  MaxEntries = 3
  MaxBusy = 0
  MaxArchives = 2
  Hazards = {}
SPECIFICATION Spec
INVARIANTS
  ArchiveReadable
CHECK_DEADLOCK FALSE
