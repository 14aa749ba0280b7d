SPECIFICATION PanelsSpec
CONSTANTS
  Migs = {"a", "b"}
  FirstRecs <- MCFirstRecs
  RecMoves <- MCRecMoves
  MaxPost = 1
  MaxAsk = 1
  Tabs = {"t"}
  Replaceable = {"v"}
  Heavy = {"m"}
  MaxMig = 2
  MaxJob = 2
  MaxPosts = 1
  MaxReload = 2
  WizTables = {"t", "u"}
  WizInfos <- MCWizInfos
  MaxChange = 1
  Catalogue <- MCCatalogue
  MaxSend = 1
  PackTables <- MCPackTables
  MaxCardAsk = 1
  MaxCompare = 1
  MaxOrder = 1
  MaxElsewhere = 1
  Contents <- MCContents
  Workers = {"v", "w"}
  MaxTask = 2
  MaxRetries = 1
  MaxFaults = 1
  MaxUser = 1
  MaxLists = 1
  DrawerTypes = {"TABLE", "MVIEW", "VIEW", "PACKAGE", "FUNCTION", "TYPE", "TRIGGER", "INDEX", "JOB", "SEQUENCE", "DBLINK"}
  MaxOpen = 2
  MaxClick = 1
  MaxDdl = 1
  PrepSchemas = {"A", "B"}
  PrepTables = {"t", "u"}
  SourceCols <- MCSourceCols
  FirstTargets <- MCFirstTargets
  Concurrency = 1
  MaxPrep = 4
  Triggers = {"x"}
  MaxRowClick = 2
  MaxRowAsk = 1
  MaxRowJob = 2
  Services = {"s", "t"}
  MaxSettings = 3
  MaxConfigAsk = 1
  MaxSavedElse = 1
  MaxStateFaults = 1
  SchemaPairs = {"A", "B"}
  MaxLoad = 2
  CatPairs = {"A", "B"}
  CatObjects <- MCCatObjects
  FirstCatalogs <- MCFirstCatalogs
  MaxCatClick = 4
  MaxSnapshots = 2
  MaxCatTrouble = 1
INVARIANTS PanelsTypeOK SentAsShown DataLossAsked TriggersOnlyByJob
  VerdictIsTrue NeverStranded DiffIsDrawn ResultIsShown RowsSettle
PROPERTIES  IncludeListAsShown EffectRespectsPanel
ACTION_CONSTRAINT WithinBound
CHECK_DEADLOCK FALSE
