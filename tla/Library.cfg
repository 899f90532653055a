CONSTANTS
  p1 = p1  p2 = p2  p3 = p3  a = a  b = b
  Nothing = Nothing
  Paths = {p1, p2, p3}
  Contents = {a, b}
  FirstDisk <- TwoCopies
  FileIds = {1, 2, 3}
  SceneIds = {1, 2, 3, 4}
  MaxChanges = 2
  Locks = {l1, l2, l3}
  Cancels = {d1}
  Nil = Nil
  \* Two clients, or one that plays two scenes.
  Keys = {k1, k2}
  MaxSessions = 2
SPECIFICATION PartsSpec
CHECK_DEADLOCK FALSE
INVARIANTS TablesAgree ChangesShow ListHoldsTheHeld SessionsSavedOnce
PROPERTIES
  MovedIsNotNew NoSecondScene RescansSettle CleanIsExact SceneLeavesWithLastFile
  TwoReadersAreCancelled
