SPECIFICATION ConsoleSpec
CONSTANTS
  Urls = {"a", "b"}
  NoUrl = "null"
  Polled = TRUE
  MaxEvents = 1
  MaxVersion = 1
  MaxWire = 2
  MaxSwitch = 2
  Mig = {"a", "b"}
  FirstRows <- MCFirstRows
  Moves <- MCMoves
  Filters = {"all"}
  Concurrency = 1
  MaxLoad = 2
  MaxClick = 1
  MaxFault = 1
INVARIANTS ConsoleTypeOK ForeignOnlyWhileLoading
PROPERTIES NeverGoesBack QuerySettles RefusedOnlyIfStale BulkComesBack
