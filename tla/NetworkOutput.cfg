CONSTANTS
  MsgLen = 2
  MaxMessages = 3
  MaxOutputs = 2
  Peer = {"refuse", "break", "stall"}
  EventThreadCloses = TRUE
SPECIFICATION Spec
INVARIANTS NetworkInv FlushedOnClose
PROPERTIES ImplementsLogStream CallsReturn Delivered
CHECK_DEADLOCK FALSE
