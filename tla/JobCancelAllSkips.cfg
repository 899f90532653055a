SPECIFICATION Spec
CONSTANTS
  MaxJobs = 3
  MaxGraveyard = 1
  MaxUpdates = 0
  Subs = {}
  ChanCap = 1
  Calls = {"CancelAll"}
PROPERTY CancelAllCancelsAll
CHECK_DEADLOCK FALSE
