CONSTANTS
  d = d  f1 = f1  f2 = f2  f3 = f3  c1 = c1  t1 = t1  t2 = t2  t3 = t3
  Files = {f1, f2, f3}
  Folders = {d}
  Captions = {c1}
  Tree <- SmallTree
  Tasks = {t1, t2, t3}
  FollowUps <- SmallFollowUps
  VideoOf <- CaptionOfFirst
  FileQueueSize = 1
  QueueSize = 1
  Processes = 2
SPECIFICATION Spec
CHECK_DEADLOCK FALSE
INVARIANTS CaptionsMatched
