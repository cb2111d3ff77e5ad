CONSTANTS
  TracePoints <- MCTracePoints
  Wild = {"*"}
  Files <- MCFiles
  Names = {"p", "r"}
  MaxEdits = 3
SPECIFICATION Spec
INVARIANTS EditorInv
PROPERTIES  EditsArrive UneditedKept
CHECK_DEADLOCK FALSE
