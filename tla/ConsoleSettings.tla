--------------------------- MODULE ConsoleSettings ---------------------------
(***************************************************************************)
(* The connection settings (components/SettingsModal.tsx) and their server *)
(* (routes/config.py).  The server never sends a stored secret: it sends a *)
(* mask, and puts the stored secret back where a saved configuration still *)
(* has the mask.  The dialog asks for all configurations when it opens and *)
(* again at every change of the token, whatever has been typed meanwhile,  *)
(* and saves the whole form of one tab.  When the State DB fails the       *)
(* coordinator says nothing and goes on with what it remembers of the      *)
(* configurations saved since it was started.  Of a configuration the      *)
(* model keeps the secret and whether the rest of it is filled in.         *)
(***************************************************************************)
EXTENDS Naturals, FiniteSets

CONSTANTS
  Services,        \* the tabs with a test button (the Oracle connections)
  MaxSettings,     \* bound: what the operator does in the dialog
  MaxConfigAsk,    \* bound: requests for the configurations under way
  MaxSavedElse,    \* bound: saves of other operators
  MaxStateFaults   \* bound: failures of the State DB, and restarts of the coordinator

ASSUME SettingsAssumption == MaxConfigAsk \in Nat

VARIABLES
  stored,          \* service_configs: service -> configuration
  memory,          \* _mem_configs: what the coordinator remembers
  erased,          \* history: services of which a form with an empty secret was saved
  blind,           \* history: services of which a form was saved or tested while the State DB failed
  savedElse,       \* how often another operator saved
  stateFaults,
  opened,          \* the dialog is open
  tokenOk,         \* configToken is the server's
  tab,             \* activeTab
  forms,           \* configs: service -> configuration as the form shows it
  configAsks,      \* requests for the configurations under way, each with its answer
  saving,          \* the save under way, or NothingSent
  saved,           \* the check mark of a save
  testing,         \* the test under way, or NothingSent
  testResult,      \* of which service, and with which secret; or NoTest
  settingsErr,     \* an error is shown
  settingsActs

keptVars == <<stored, memory, erased, blind>>
settingsServer == <<keptVars, savedElse, stateFaults>>
settingsPage == <<opened, tokenOk, tab, forms, configAsks, saving, saved, testing, testResult, settingsErr>>
settingsVars == <<settingsServer, settingsPage, settingsActs>>

NoSecret == "unset"                                   \* the empty text
Blank == [secret |-> NoSecret, filled |-> FALSE]           \* ORACLE_DEFAULT
Mask == "mask"
NothingSent == [service |-> "none", st |-> "none"]
NoTest == [service |-> "none", secret |-> NoSecret]
NotServed == [st |-> "asked"]

SettingsTypeOK ==
  /\ \A s \in Services : /\ stored[s].secret \in {NoSecret, "old", "typed", "other", Mask}
                         /\ memory[s].secret \in {NoSecret, "old", "typed", "other", Mask}
                         /\ forms[s].secret \in {NoSecret, "typed", Mask}
                         /\ {stored[s].filled, memory[s].filled, forms[s].filled} \subseteq BOOLEAN
  /\ tab \in Services /\ saving.service \in Services \cup {"none"} /\ testResult.service \in Services \cup {"none"}
  /\ Cardinality(configAsks) <= MaxConfigAsk /\ {opened, tokenOk, saved, settingsErr} \subseteq BOOLEAN

-----------------------------------------------------------------------------
(* The server.                                                             *)

Masked(c) == IF c.secret = NoSecret THEN c ELSE [c EXCEPT !.secret = Mask]
\* load_configs: whoever asks is not told where they are from.
LoadedConfigs(read) == IF read THEN stored ELSE memory
Fails(fails) == IF fails THEN stateFaults < MaxStateFaults /\ stateFaults' = stateFaults + 1 ELSE UNCHANGED stateFaults

\* _resolve_secret_placeholders: the form always has the key.
Resolved(s, body, read) ==
  LET secret == LoadedConfigs(read)[s].secret
  IN IF body.secret = Mask /\ secret # NoSecret THEN [body EXCEPT !.secret = secret] ELSE body

ServeConfigs(a) ==
  /\ a \in configAsks /\ a.answer = NotServed
  /\ \E read \in BOOLEAN :
       /\ ~ read => a.ok
       /\ Fails(~ read)
       /\ configAsks' = (configAsks \ {a}) \cup
            {[a EXCEPT !.answer = IF a.ok THEN [st |-> "ok", all |-> [s \in Services |-> Masked(LoadedConfigs(read)[s])]]
                                          ELSE [st |-> "refused"]]}
  /\ UNCHANGED <<keptVars, savedElse, opened, tokenOk, tab, forms, saving, saved, testing, testResult, settingsErr, settingsActs>>

\* save_config: into the memory first; a failure to write is not told.
Store(s, body) ==
  \E read, written \in BOOLEAN :
    /\ Fails(~ (read /\ written))
    /\ memory' = [memory EXCEPT ![s] = Resolved(s, body, read)]
    /\ stored' = IF written THEN [stored EXCEPT ![s] = Resolved(s, body, read)] ELSE stored
    /\ erased' = erased \cup {x \in {s} : body.secret = NoSecret}
    /\ blind' = blind \cup {x \in {s} : ~ (read /\ written)}

ServeSave ==
  /\ saving.st = "sent"
  /\ IF saving.ok THEN Store(saving.service, saving.body) /\ saving' = [saving EXCEPT !.st = "ok"]
                  ELSE UNCHANGED <<keptVars, stateFaults>> /\ saving' = [saving EXCEPT !.st = "refused"]
  /\ UNCHANGED <<savedElse, opened, tokenOk, tab, forms, configAsks, saved, testing, testResult, settingsErr, settingsActs>>

\* test_config_route: the configuration is tried and not kept.
TryOut(s, body) ==
  \E read \in BOOLEAN :
    /\ Fails(~ read)
    /\ testing' = [service |-> s, body |-> Resolved(s, body, read), ok |-> TRUE, st |-> "ok"]
    /\ blind' = blind \cup {x \in {s} : ~ read}

ServeTest ==
  /\ testing.st = "sent"
  /\ IF testing.ok THEN TryOut(testing.service, testing.body)
                   ELSE UNCHANGED <<blind, stateFaults>> /\ testing' = [testing EXCEPT !.st = "refused"]
  /\ UNCHANGED <<stored, memory, erased, savedElse, opened, tokenOk, tab, forms, configAsks, saving, saved, testResult,
                 settingsErr, settingsActs>>

\* Another operator saves a form of his own: with the mask, a new secret, or none.
SavesElsewhere ==
  /\ savedElse < MaxSavedElse /\ savedElse' = savedElse + 1
  /\ \E s \in Services, sec \in {NoSecret, "other", Mask} :
       /\ sec = Mask => \E read \in BOOLEAN : LoadedConfigs(read)[s].secret # NoSecret
       /\ Store(s, [secret |-> sec, filled |-> sec # NoSecret])
  /\ UNCHANGED <<settingsPage, settingsActs>>

\* The coordinator forgets, and what it was about to serve breaks.
CutOff(o) == IF o.st = "sent" THEN [o EXCEPT !.st = "refused"] ELSE o
RestartForgets ==
  /\ Fails(TRUE)
  /\ memory' = [s \in Services |-> Blank]
  /\ saving' = CutOff(saving) /\ testing' = CutOff(testing)
  /\ configAsks' = {IF a.answer = NotServed THEN [a EXCEPT !.answer = [st |-> "refused"]] ELSE a : a \in configAsks}
  /\ UNCHANGED <<stored, erased, blind, savedElse, opened, tokenOk, tab, forms, saved, testResult, settingsErr, settingsActs>>

-----------------------------------------------------------------------------
(* The dialog.                                                             *)

Act == opened /\ settingsActs < MaxSettings /\ settingsActs' = settingsActs + 1

\* The effect on configToken: requests under way go on.
AskConfigs(ok) ==
  configAsks' = IF Cardinality(configAsks) < MaxConfigAsk
                  THEN configAsks \cup {[ok |-> ok, answer |-> NotServed]} ELSE configAsks

OpenSettings ==
  /\ ~opened /\ opened' = TRUE /\ tab' \in Services /\ forms' = [s \in Services |-> Blank]
  /\ saving' = NothingSent /\ testing' = NothingSent /\ saved' = FALSE /\ testResult' = NoTest /\ settingsErr' = FALSE
  /\ AskConfigs(tokenOk)
  /\ UNCHANGED <<settingsServer, tokenOk, settingsActs>>

\* The overlay or the cross: the answers are nobody's any more; a save under way is served all the
\* same, here before the dialog closes.
CloseSettings ==
  /\ Act /\ saving.st # "sent" /\ opened' = FALSE /\ configAsks' = {}
  /\ UNCHANGED <<settingsServer, tokenOk, tab, forms, saving, saved, testing, testResult, settingsErr>>

TypeToken ==
  /\ Act /\ \E ok \in BOOLEAN : tokenOk' = ok /\ AskConfigs(ok)
  /\ UNCHANGED <<settingsServer, opened, tab, forms, saving, saved, testing, testResult, settingsErr>>

\* Every answer replaces every form; a refusal leaves them as they are.
LandConfigs(a) ==
  /\ a \in configAsks /\ a.answer # NotServed /\ configAsks' = configAsks \ {a}
  /\ IF a.answer.st = "ok" THEN forms' = a.answer.all /\ settingsErr' = FALSE
                           ELSE settingsErr' = TRUE /\ UNCHANGED forms
  /\ UNCHANGED <<settingsServer, opened, tokenOk, tab, saving, saved, testing, testResult, settingsActs>>

ChooseTab(s) ==
  /\ Act /\ s # tab /\ tab' = s /\ testResult' = NoTest
  /\ UNCHANGED <<settingsServer, opened, tokenOk, forms, configAsks, saving, saved, testing, settingsErr>>

SetOracle ==
  /\ Act /\ \/ \E sec \in {NoSecret, "typed"} : forms' = [forms EXCEPT ![tab].secret = sec]
            \/ forms' = [forms EXCEPT ![tab].filled = TRUE]
  /\ UNCHANGED <<settingsServer, opened, tokenOk, tab, configAsks, saving, saved, testing, testResult, settingsErr>>

FormSent == [service |-> tab, body |-> forms[tab], ok |-> tokenOk, st |-> "sent"]

\* saveActive: the form of the tab as it is, loaded or not.
SaveActive ==
  /\ Act /\ saving = NothingSent /\ saving' = FormSent /\ settingsErr' = FALSE /\ testResult' = NoTest
  /\ UNCHANGED <<settingsServer, opened, tokenOk, tab, forms, configAsks, saved, testing>>
SaveAnswered ==
  /\ opened /\ saving.st \in {"ok", "refused"} /\ saving' = NothingSent
  /\ saved' = (saved \/ saving.st = "ok") /\ settingsErr' = (settingsErr \/ saving.st = "refused")
  /\ UNCHANGED <<settingsServer, opened, tokenOk, tab, forms, configAsks, testing, testResult, settingsActs>>
SavedExpires ==
  /\ saved /\ saved' = FALSE
  /\ UNCHANGED <<settingsServer, opened, tokenOk, tab, forms, configAsks, saving, testing, testResult, settingsErr, settingsActs>>

\* testConnection: the result is shown under whichever tab is chosen when it comes.
TestConnection ==
  /\ Act /\ testing = NothingSent /\ testing' = FormSent /\ testResult' = NoTest
  /\ UNCHANGED <<settingsServer, opened, tokenOk, tab, forms, configAsks, saving, saved, settingsErr>>
TestAnswered ==
  /\ opened /\ testing.st \in {"ok", "refused"} /\ testing' = NothingSent
  /\ testResult' = [service |-> testing.service, secret |-> IF testing.st = "ok" THEN testing.body.secret ELSE NoSecret]
  /\ UNCHANGED <<settingsServer, opened, tokenOk, tab, forms, configAsks, saving, saved, settingsErr, settingsActs>>

-----------------------------------------------------------------------------
SettingsInit ==
  /\ stored \in [Services -> {Blank, [secret |-> "old", filled |-> TRUE]}] /\ erased = {} /\ savedElse = 0
  /\ memory = [s \in Services |-> Blank] /\ blind = {} /\ stateFaults = 0
  /\ opened = FALSE /\ tokenOk \in BOOLEAN /\ tab \in Services /\ forms = [s \in Services |-> Blank]
  /\ configAsks = {} /\ saving = NothingSent /\ saved = FALSE /\ testing = NothingSent /\ testResult = NoTest
  /\ settingsErr = FALSE /\ settingsActs = 0

SettingsNext ==
  \/ OpenSettings \/ CloseSettings \/ TypeToken \/ SetOracle \/ SaveActive \/ SaveAnswered \/ SavedExpires
  \/ TestConnection \/ TestAnswered \/ ServeSave \/ ServeTest \/ SavesElsewhere \/ RestartForgets
  \/ \E a \in configAsks : ServeConfigs(a) \/ LandConfigs(a)
  \/ \E s \in Services : ChooseTab(s)

SettingsSpec == SettingsInit /\ [][SettingsNext]_settingsVars

-----------------------------------------------------------------------------
\* Whatever order the forms are loaded, changed and saved in, by how many operators, from whatever the
\* State DB or the coordinator had: the mask is stored or remembered in the place of a secret, or tried
\* as one, only for a service that somebody has saved with an empty secret, or of which a form was saved
\* or tested while the State DB failed.
Excused == erased \cup blind
MaskIsNoSecret ==
  /\ \A s \in Services : Mask \in {stored[s].secret, memory[s].secret} => s \in Excused
  /\ testResult.secret = Mask => testResult.service \in Excused
=============================================================================
