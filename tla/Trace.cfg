CONSTANTS
  Threads = {t1, t2}
  p1 = p1  p2 = p2
  TracePoints = {p1, p2}
  Addresses = {a1, a2, a3, a4}
  Files <- MCFiles
  NoFile = NoFile
  Null = Null
  ReusesAddresses = FALSE
  MaxReloads = 1
  MaxVisits = 2
SPECIFICATION Spec
CHECK_DEADLOCK FALSE
INVARIANTS OutputInv DecisionMatches
PROPERTIES VisitsReturn
