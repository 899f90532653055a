SPECIFICATION Spec
CONSTANTS
  MaxJobs = 2
  MaxGraveyard = 2
  MaxUpdates = 2
  Subs = {s1}
  ChanCap = 1
  Calls = {"Start", "Stop"}
INVARIANTS NoLostUpdate
PROPERTIES RemovedIsFinal EndsAsItWent RemovedToldOnce NoUpdateAfterRemoval
CHECK_DEADLOCK FALSE
