CONSTANTS
  Locks = {l1, l2, l3}
  Cancels = {d1}
  Nil = Nil
SPECIFICATION LockSpec
CHECK_DEADLOCK FALSE
PROPERTY CancelCancelsAll
