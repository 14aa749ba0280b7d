CONSTANTS
  Workers = {w1, w2}
  NumChunks = 2
  Batches = 2
  Limit = 2
  Late = TRUE
  MaxRetries = 1
  MaxDeaths = 0
  MaxAsked = 0
SPECIFICATION Safety
INVARIANT NoChunkStranded
