CONSTANTS
  Workers = {w1, w2}
  Rows = {1, 2}
  NumChunks = 2
  StageRows <- CleanStage
  Keyed = TRUE
  Degree = 2
  Late = FALSE
  Delayed = TRUE
  MaxRetries = 1
  MaxFaults = 0
  MaxRestarts = 0
SPECIFICATION Safety
INVARIANTS PublishedIsStage
