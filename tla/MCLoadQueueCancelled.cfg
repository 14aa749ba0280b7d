CONSTANTS
  None = None
  Migrations = {m1}
  Cdc = {}
  Staged = {}
  Empty = {}
  Kicked = FALSE
  CdcLimit = 1
  NumThreads = 2
  MaxFaults = 0
  MaxCancels = 1
  MaxRestarts = 0
  MaxPauses = 0
  MaxTrouble = 1
SPECIFICATION Safety
PROPERTIES CancelledIsFinal
