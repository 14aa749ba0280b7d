CONSTANTS
  Workers = {w1, w2}
  Rows = {1, 2, 3}
  NumChunks = 2
  StageRows <- RepeatedStage
  Keyed = TRUE
  Degree = 2
  Late = FALSE
  Delayed = FALSE
  MaxRetries = 1
  MaxFaults = 0
  MaxRestarts = 0
SPECIFICATION Safety
INVARIANTS DoneIsPresent
