CONSTANTS
  CdcWorkers = {"w"}
  Keys = {"k", "l"}
  EventKey <- MCEventKey
  MaxEvent = 3
  MaxBatch = 1
  PoisonThreshold = 3
  MaxTroubles <- FailuresOnly
SPECIFICATION CdcSpec
INVARIANTS FailedIsNotCommitted
CHECK_DEADLOCK FALSE
