SPECIFICATION Spec
CONSTANTS
  Programs = {"traced", "tracegui", "trace2xml", "upgrade", "downgrade"}
  Does <- MCDoes
  Implemented = {6, 8}
  InitialFiles <- MCInitialFiles
  CheckOptions = FALSE
  MaxStarts = 1
INVARIANTS FileInv
PROPERTIES CreatedOnce StartsEnd
CHECK_DEADLOCK FALSE
