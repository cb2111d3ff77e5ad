SPECIFICATION Spec
CONSTANTS
  Beautified = FALSE
  Clients = {"c1", "c2"}
  Items <- MCItems
  GUIs = {"g1", "g2"}
  ChunkSizes = {19, 60}
  MaxStored = 1
  MaxConnects = 1
  MaxNukes = 2
  Hazards = {"die", "split", "fail"}
INVARIANTS EntriesComeThrough GUIsInStep
PROPERTIES LimitsOfSender RequestsAnswered
CHECK_DEADLOCK FALSE
