SPECIFICATION FairSpec
CONSTANTS
  MaxJobs = 3
  MaxGraveyard = 1
  MaxUpdates = 0
  Subs = {}
  ChanCap = 1
  Calls = {"CancelAll"}
INVARIANTS WaitsOnlyWhenIdle
PROPERTIES ImplementsLifecycle EveryJobLeaves
CHECK_DEADLOCK FALSE
