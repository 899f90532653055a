CONSTANTS
  Requests = {r1, r2}
  Procs = {p1, p2}
  Nobody = Nobody
  LastSeg = 1
  Gap = 1
  Buffer = 2
  FaultCases <- LeaveOrFail
SPECIFICATION FairSpec
CHECK_DEADLOCK FALSE
INVARIANTS ServedWhole OneTranscode ShutdownCleans
PROPERTIES EveryRequestEnds TranscodeStops
