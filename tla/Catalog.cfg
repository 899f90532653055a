CONSTANTS
  t1 = t1 t2 = t2 t3 = t3
  g1 = g1 g2 = g2 g3 = g3 g4 = g4
  n1 = n1 n2 = n2 n3 = n3
  p1 = p1 p2 = p2 f1 = f1 f2 = f2 f3 = f3
  TagIds = {t1, t2, t3}
  Names = {n1, n2, n3}
  NoName = NoName
  TagChanges <- SomeChanges
  BulkChanges <- SomeBulkChanges
  BulkTags <- TwoTags
  GroupIds = {g1, g2, g3, g4}
  GroupLists <- ShortLists
  BulkGroups <- TwoGroups
  GroupChanges <- SomeGroupChanges
  BulkGroupChanges <- SomeBulkGroupChanges
  LastIndex = 5
  MaxRelations = 3
  Procs <- Callers
  Deleters <- Callers
  Faults = {"panic"}
  Items = {f1, f2, f3}
  Generated = {f2, f3}
  Work <- WorkShared
  DeleterOf <- OwnDeleter
  TrashPath <- TrashSecond
  Crashes = TRUE
SPECIFICATION CatalogSpec
CHECK_DEADLOCK FALSE
CONSTRAINT ReorderedAreSubGroups
SYMMETRY Symmetric
INVARIANTS NamesUnique GroupsAcyclic ReordersAsAsked GoneOnlyWithRow
PROPERTIES CyclesNeedBothSides
