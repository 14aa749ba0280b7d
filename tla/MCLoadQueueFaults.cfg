CONSTANTS
  None = None
  Migrations = {m1}
  Cdc = {m1}
  Staged = {}
  Empty = {}
  Kicked = TRUE
  CdcLimit = 1
  NumThreads = 2
  MaxFaults = 1
  MaxCancels = 1
  MaxRestarts = 1
  MaxPauses = 1
  MaxTrouble = 2
SPECIFICATION Spec
ACTION_CONSTRAINT WithinBound
PROPERTIES CancelAnswered
