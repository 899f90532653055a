CONSTANTS
  p1 = p1  p2 = p2  p3 = p3  a = a  b = b  c = c
  Procs <- MCProcs
  Faults = {"cancel", "panic", "db"}
  Items = {a, b, c}
  Generated = {b, c}
  Work <- WorkShared
  Deleters <- MCProcs
  DeleterOf <- OwnDeleter
  TrashPath <- TrashFirst
  Crashes = FALSE
SPECIFICATION PartsSpec
CHECK_DEADLOCK FALSE
INVARIANTS
  ConnectionGivenBack
  NothingLostOnError
  FilesFollowRows
PROPERTIES
  ImplementsContract
  EveryCallReturns
  MarksResolve
