\* No worker overruns; with deaths, retries and retry-chunks.
CONSTANTS
  Workers = {w1, w2}
  NumChunks = 2
  Batches = 1
  Limit = 1
  Late = FALSE
  MaxRetries = 1
  MaxDeaths = 1
  MaxAsked = 1
SPECIFICATION Spec
ACTION_CONSTRAINT OneTrouble
INVARIANTS LoadedIsPresent OneLoaderPerChunk DoneCounterExact
PROPERTIES DoneIsFinal LoadEnds ImplementsTableLoad
