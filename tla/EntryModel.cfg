SPECIFICATION Spec
CONSTANTS
  Kinds <- MCKinds
  NoKey = "none"
  ProcessRow <- MCProcessRow
  Texts <- MCTexts
  Pids <- AnyProcess
  FirstDatabase <- EmptyDatabase
  OtherDatabases <- NoDatabase
  Keeps = {0}
  PageSize = 1
  MaxStored = 2
  MaxRemovals = 1
  MaxOpened = 1
INVARIANTS ModelInv SettledShowsAll
PROPERTIES FrozenIsQuiet ArrivalsShown
CHECK_DEADLOCK FALSE
