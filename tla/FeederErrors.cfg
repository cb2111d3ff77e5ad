CONSTANTS
  Entries <- ReusedPid
  NoGroup = "none"
  ShrinkBy = 75
  Capacity = 8
  MaxEntries = 3
  MaxBusy = 0
  MaxArchives = 2
  Hazards = {"error", "crash", "unlink"}
SPECIFICATION Spec
INVARIANTS
  FeederInv
  IdleIsDurable
PROPERTIES
  RollbackKeepsEntries
  EntryHandled
CHECK_DEADLOCK FALSE
