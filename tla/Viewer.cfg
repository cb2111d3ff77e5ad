SPECIFICATION Spec
CONSTANTS
  ColumnNames <- MCColumnNames
  Files = {"f1", "f2", "f3"}
  Readable = {"f1", "f2"}
  Ports = {1, 2}
  Applications = {1, 2}
  StorageChoices <- MCChoices
  FirstSettings <- MCFirstSettings
  External <- MCExternal
  MaxEvents = 2
  MaxRequests = 2
  MaxAttempts = 2
  MaxSessions = 2
INVARIANTS FollowsSettings ListsApplications
PROPERTIES ClearAnswered
CHECK_DEADLOCK FALSE
