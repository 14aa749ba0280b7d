CONSTANTS
  None = None
  Migrations = {m1, m2}
  Cdc = {}
  Staged = {m1}
  Empty = {}
  Kicked = FALSE
  CdcLimit = 1
  NumThreads = 3
  MaxFaults = 0
  MaxCancels = 1
  MaxRestarts = 0
  MaxPauses = 0
  MaxTrouble = 1
SPECIFICATION Spec
PROPERTIES InTurn TurnComes
