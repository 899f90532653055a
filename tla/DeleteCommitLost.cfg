CONSTANTS
  p1 = p1  a = a
  Procs = {p1}
  Deleters = {p1}
  Faults = {"cancel"}
  Items = {a}
  Generated = {}
  Work <- WorkOne
  DeleterOf <- OwnDeleter
  TrashPath <- NoTrash
  Crashes = FALSE
SPECIFICATION DelSpec
CHECK_DEADLOCK FALSE
INVARIANTS GoneOnlyWithRow
