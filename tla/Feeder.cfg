CONSTANTS
  Entries <- TwoProcesses
  NoGroup = "none"
  ShrinkBy = 50
  Capacity = 11
  MaxEntries = 3
  MaxBusy = 1
  MaxArchives = 2
  Hazards = {"crash", "nuke", "busy"}
SPECIFICATION Spec
INVARIANTS Attributed RefsResolve
PROPERTIES ArchivedBeforeDeleted
CHECK_DEADLOCK FALSE
