CONSTANTS
  HaveInotify = TRUE
  Second = 2
  PollTimeout = 4
  Timeouts = {1, 2, 3}
  MaxFirings = 2
  MaxCalls = 3
  MaxChanges = 2
  Spaced = TRUE
SPECIFICATION Spec
INVARIANTS EventInv
PROPERTIES RepeatsUntilRemoved ChangesAreReported CallsReturn
CHECK_DEADLOCK FALSE
