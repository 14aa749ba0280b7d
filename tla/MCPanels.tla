------------------------------- MODULE MCPanels -------------------------------
(* The panels of the console whose properties are safety properties, for TLC: *)
(* one of them is open in a behaviour (screen), the others stay as they        *)
(* begin.  The dashboard is three of them: its tables, the dialog of its DDL   *)
(* pack, and the jobs of that pack.                                            *)
EXTENDS MigrationDetailView, DashboardView, TableWizard, SourceBrowser, CdcPackCard,
        DataCompare, ObjectDrawer, TargetPrep, PackRow, ConsoleSettings, SnapshotBanner, CatalogPage

VARIABLE screen

panelsVars == <<screen, detailVars, dashVars, wizVars, browserVars, cardVars,
                compareVars, drawerVars, prepVars, rowVars, settingsVars, bannerVars, catVars>>

-----------------------------------------------------------------------------
(* The instance.                                                             *)

Rec(p, c) == [phase |-> p, paused |-> FALSE, error |-> "none", cdc |-> c]
MCFirstRecs == {[a |-> Rec("COMPLETED", FALSE), b |-> Rec("STEADY_STATE", TRUE)],
                [a |-> Rec("DATA_MISMATCH", FALSE), b |-> Rec("BASELINE_LOADING", FALSE)]}
MCRecMoves == {<<"BASELINE_LOADING", "FAILED">>}

Info(key, uk, cols, supp) == [key |-> key, uk |-> uk, cols |-> cols, supp |-> supp]
WithUk == Info("uk", {"x"}, {"x"}, "yes")
MCWizInfos == {WithUk, Info("none", {}, {"x"}, "yes"), Info("none", {}, {"y"}, "yes"), Info("pk", {}, {"x"}, "no")}

MCCatalogue == [A |-> {"t", "u"}, B |-> {"u", "v"}]
MCPackTables == [g |-> {"t"}, h |-> {}]

MCContents == {[source |-> 1, target |-> 1], [source |-> 1, target |-> 0], [source |-> 0, target |-> 0]}

MCSourceCols == [A |-> [t |-> {"k", "x"}, u |-> {"k"}], B |-> [t |-> {"k"}, u |-> {}]]
MCFirstTargets == {[A |-> [t |-> {"k"}, u |-> {"k", "y"}], B |-> [t |-> {}, u |-> {}]]}

MCCatObjects == [t |-> "TABLE", v |-> "VIEW", m |-> "MATERIALIZED VIEW", c |-> "PACKAGE", s |-> "SEQUENCE"]
MCFirstCatalogs == {[A |-> [t |-> "MISSING", v |-> "MATCH", m |-> "DIFF", c |-> "DIFF", s |-> "DIFF"],
                     B |-> [t |-> "DIFF", v |-> "EXTRA", m |-> "MATCH", c |-> "MISSING", s |-> "EXTRA"]]}

\* What a panel that is not open begins as: one of the states its Init allows.
DetailParked == /\ rec = [a |-> Rec("COMPLETED", FALSE), b |-> Rec("STEADY_STATE", TRUE)] /\ sel = "a"
                /\ job = [m \in Migs |-> "none"]
DashParked == real = [d \in Ddl |-> "missing"]
WizParked == /\ source = [t \in WizTables |-> WithUk] /\ mode = "historical" /\ seen.st = "loading"
             /\ smGroup = "none" /\ packTables = [g \in WizPacks |-> {}]
BrowserParked == createEnabled
CompareParked == content.source = 0 /\ mig.phase = "FAILED"
DrawerParked == object = [type |-> "TABLE", at |-> BothSides, invalid |-> {}, differs |-> {}] /\ rowId = "ddl"
PrepParked == chosen.src = "A"
RowParked == rowPhase = "NEW"
SettingsParked == tokenOk /\ tab = "s"

\* To keep the instance small: of the DDL objects the one that holds data differs and the other is missing;
\* the jobs are the former's; no table of a CDC pack is at work yet; two equal tables
\* are compared from the page only; the drawer's table differs in its columns or in everything;
\* the wizard's tables have no primary key yet, the second a unique one, and it is the only one a pack may
\* hold (one of the two packs at most, at work in the other, and none when there is nothing to capture);
\* of the settings one service is stored; the banner and the catalog begin with the same pair.
WizSmall == /\ source["u"] = WithUk /\ source["t"].cols = {"x"}
            /\ packTables["own"] \subseteq {"u"} /\ packTables["other"] \subseteq {"u"}
            /\ "u" \notin packTables["own"] \cap packTables["other"] /\ activeCdc["other"] = packTables["other"]
            /\ (mode = "historical" => \A g \in WizPacks : packTables[g] = {}) /\ source["t"].key # "pk"
            /\ (seen.id = "other" => mode = "cdc" /\ packTables["other"] # {})
DashSmall == \A d \in Ddl : real[d] = (IF d \in Heavy THEN "differs" ELSE "missing")
CardSmall == working = [g \in Packs |-> {}]
CompareSmall == content.target = 1 => mig.phase = "FAILED"
SettingsSmall == \A x \in Services : stored[x].filled = (x = "s")
BannerSmall == pair = "A"
CatSmall == catPair = "A"
DrawerSmall == object.type = "TABLE" => object.differs \subseteq ColumnAspects \/ object.differs = Compared("TABLE")

-----------------------------------------------------------------------------
PanelsInit ==
  /\ screen \in {"detail", "tables", "ddl", "jobs", "wizard", "browser", "card", "compare", "drawer", "prep",
                "row", "settings", "banner", "catalog"}
  /\ DetailInit /\ (screen # "detail" => DetailParked)
  /\ DashInit /\ (screen \notin {"tables", "ddl", "jobs"} => DashParked)
  /\ (screen \in {"ddl", "jobs"} => DashSmall)
  /\ WizInit /\ WizSmall /\ (screen # "wizard" => WizParked)
  /\ BrowserInit /\ (screen # "browser" => BrowserParked)
  /\ CardInit /\ CardSmall
  /\ CompareInit /\ CompareSmall /\ (screen # "compare" => CompareParked)
  /\ DrawerInit /\ DrawerSmall /\ (screen # "drawer" => DrawerParked)
  /\ PrepInit /\ (screen # "prep" => PrepParked)
  /\ RowInit /\ (screen # "row" => RowParked)
  /\ SettingsInit /\ SettingsSmall /\ (screen # "settings" => SettingsParked)
  /\ BannerInit /\ BannerSmall
  /\ CatInit /\ CatSmall

DetailStep ==
  /\ screen = "detail" /\ DetailNext
  /\ UNCHANGED <<screen, dashVars, wizVars, browserVars, cardVars, compareVars,
                 drawerVars, prepVars, rowVars, settingsVars, bannerVars, catVars>>
DashStep ==
  /\ \/ screen = "tables" /\ (PageNext \/ RequestsNext \/ TablesNext)
     \/ screen = "ddl" /\ (PageNext \/ RequestsNext \/ DdlNext)
     \/ screen = "jobs" /\ (RequestsNext \/ LandDdlJobs \/ (\E d \in Heavy : OtherAddsDdl(d)) \/ JobsNext)
  /\ UNCHANGED <<screen, detailVars, wizVars, browserVars, cardVars, compareVars,
                 drawerVars, prepVars, rowVars, settingsVars, bannerVars, catVars>>
WizStep ==
  /\ screen = "wizard" /\ WizNext
  /\ UNCHANGED <<screen, detailVars, dashVars, browserVars, cardVars, compareVars,
                 drawerVars, prepVars, rowVars, settingsVars, bannerVars, catVars>>
BrowserStep ==
  /\ screen = "browser" /\ BrowserNext
  /\ UNCHANGED <<screen, detailVars, dashVars, wizVars, cardVars, compareVars,
                 drawerVars, prepVars, rowVars, settingsVars, bannerVars, catVars>>
CardStep ==
  /\ screen = "card" /\ CardNext
  /\ UNCHANGED <<screen, detailVars, dashVars, wizVars, browserVars, compareVars,
                 drawerVars, prepVars, rowVars, settingsVars, bannerVars, catVars>>
CompareStep ==
  /\ screen = "compare" /\ CompareNext
  /\ UNCHANGED <<screen, detailVars, dashVars, wizVars, browserVars, cardVars,
                 drawerVars, prepVars, rowVars, settingsVars, bannerVars, catVars>>
DrawerStep ==
  /\ screen = "drawer" /\ DrawerNext
  /\ UNCHANGED <<screen, detailVars, dashVars, wizVars, browserVars, cardVars,
                 compareVars, prepVars, rowVars, settingsVars, bannerVars, catVars>>
PrepStep ==
  /\ screen = "prep" /\ PrepNext
  /\ UNCHANGED <<screen, detailVars, dashVars, wizVars, browserVars, cardVars,
                 compareVars, drawerVars, rowVars, settingsVars, bannerVars, catVars>>
RowStep ==
  /\ screen = "row" /\ RowNext
  /\ UNCHANGED <<screen, detailVars, dashVars, wizVars, browserVars, cardVars,
                 compareVars, drawerVars, prepVars, settingsVars, bannerVars, catVars>>
SettingsStep ==
  /\ screen = "settings" /\ SettingsNext
  /\ UNCHANGED <<screen, detailVars, dashVars, wizVars, browserVars, cardVars,
                 compareVars, drawerVars, prepVars, rowVars, bannerVars, catVars>>
BannerStep ==
  /\ screen = "banner" /\ BannerNext
  /\ UNCHANGED <<screen, detailVars, dashVars, wizVars, browserVars, cardVars,
                 compareVars, drawerVars, prepVars, rowVars, settingsVars, catVars>>
CatalogStep ==
  /\ screen = "catalog" /\ CatNext
  /\ UNCHANGED <<screen, detailVars, dashVars, wizVars, browserVars, cardVars,
                 compareVars, drawerVars, prepVars, rowVars, settingsVars, bannerVars>>

PanelsNext == \/ DetailStep \/ DashStep \/ WizStep \/ BrowserStep \/ CardStep \/ CompareStep
              \/ DrawerStep \/ PrepStep \/ RowStep \/ SettingsStep \/ BannerStep \/ CatalogStep
\* Where several kinds of trouble multiply, each is met alone and with another; of the wizard's tables
\* the first may be altered.
WithinBound ==
  /\ begun' + Len(ddlJobs') <= 3
  /\ settingsActs' + savedElse' + stateFaults' <= 3
  /\ source'["u"] = source["u"]

PanelsSpec == PanelsInit /\ [][PanelsNext]_panelsVars

\* The type invariants of the panels, of the one that is open.
PanelsTypeOK ==
  CASE screen = "detail"  -> DetailTypeOK
    [] screen = "wizard"  -> WizTypeOK
    [] screen = "browser" -> BrowserTypeOK
    [] screen = "card"    -> CardTypeOK
    [] screen = "compare" -> CompareTypeOK
    [] screen = "drawer"  -> DrawerTypeOK
    [] screen = "prep"    -> PrepTypeOK
    [] screen = "row"     -> RowTypeOK
    [] screen = "settings" -> SettingsTypeOK
    [] screen = "banner"  -> BannerTypeOK
    [] screen = "catalog" -> CatTypeOK
    [] OTHER              -> DashTypeOK

\* Nothing is lost in silence.  No object that holds data is dropped and created again unasked: the box
\* of the dashboard's dialog was ticked by hand for it, or the drawer's question said that the data would
\* be lost.  And no stored secret is replaced by the mask the settings show, unless it was erased before.
DataLossAsked == DropsOnlyWhatWasAsked /\ DataLossConfirmed /\ MaskIsNoSecret

\* What was changed is on the screen afterwards: the jobs of the DDL pack in the dashboard, the sync of
\* the columns in the drawer, the snapshot that was loaded in the banner, what became of an object in the
\* list of the catalog.
ResultIsShown == RefreshedWhenFinished /\ SyncIsShown /\ SnapshotIsShown /\ CatalogIsShown

\* A request names what the panel showed when it was sent: the bar of the list counts the migrations that
\* are sent, and a request names only tables of the schema, or of the CDC pack, that it is sent for.
SentAsShown == BarCountsWhatIsSent /\ SentBelongsToSchema /\ RemovesOwnTable
=============================================================================
