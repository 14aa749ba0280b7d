CONSTANTS
  Workers = {w1, w2}
  Rows = {1, 2, 3}
  NumChunks = 2
  StageRows <- CleanStage
  Keyed = TRUE
  Degree = 2
  Late = FALSE
  Delayed = FALSE
  MaxRetries = 1
  MaxFaults = 1
  MaxRestarts = 2
  CdcWorkers = {"v", "w"}
  Keys = {"k", "l"}
  EventKey <- MCEventKey
  MaxEvent = 3
  MaxBatch = 2
  PoisonThreshold = 2
  MaxTroubles <- MCMaxTroubles
SPECIFICATION MCSpec
INVARIANTS BaselineAndCdcTypeOK PublishedIsStage CommittedIsApplied CaughtUpIsCommitted
PROPERTIES BaselineEnds
CHECK_DEADLOCK FALSE
