------------------------------- MODULE Settings ------------------------------
(***************************************************************************)
(* The console's settings (internal/tui/tab_config.go,                     *)
(* settings_workspace.go) under the root model that shows, refreshes and   *)
(* quits them (app.go, navigation.go): a draft of the configuration edited *)
(* in place, in a picker or connection editor whose result comes as a      *)
(* message, or confirmed in the security section; saves that run in        *)
(* goroutines; ticks that reload an idle draft.                            *)
(***************************************************************************)
EXTENDS Naturals, FiniteSets

CONSTANTS
  MaxEdits,       \* bound: edits the user makes
  MaxChildren,    \* bound: pickers and connection editors opened
  MaxAnswers      \* bound: answers these give

ASSUME SettingsAssumption == MaxEdits \in Nat /\ MaxChildren \in Nat /\ MaxAnswers \in Nat

VARIABLES
  form,           \* the fields of configTab
  desk,           \* the root model: what is shown and who has the keys
  service,        \* the configuration of Service, and whether it awaits its first save
  file,           \* the configuration on disk
  writers,        \* SaveConfig goroutines
  news,           \* results on their way to Update
  given           \* the edits made, those the user gave up, and those that were chosen
                  \* but still on their way when the user left

settingsVars == <<form, desk, service, file, writers, news, given>>

\* A configuration is the set of edits it contains.
NoChild == 0
Sections == {"models", "connections", "security", "runtime"}

\* profile and resetAll: a confirmation is awaited.
NewForm(setup) ==
  [draft |-> {}, dirty |-> setup, saving |-> FALSE, editing |-> FALSE, child |-> NoChild,
   opened |-> 0, answers |-> 0, pending |-> {}, section |-> "models", sidebar |-> FALSE,
   row |-> "profile", profile |-> FALSE, resetAll |-> FALSE]

SettingsInit ==
  /\ service \in [cfg : {{}}, setup : BOOLEAN]
  /\ form = NewForm(service.setup)
  /\ desk = [tab |-> "settings", bar |-> FALSE, confirm |-> FALSE,
             quitSaving |-> FALSE, gone |-> FALSE]
  /\ file = {}
  /\ writers = {}
  /\ news = {}
  /\ given = [made |-> {}, up |-> {}, aloft |-> {}]

FormBecomes(f) == form' = f /\ UNCHANGED <<desk, service, file, writers, news, given>>
DeskBecomes(d) == desk' = d /\ UNCHANGED <<form, service, file, writers, news, given>>
HasNext == Cardinality(given.made) < MaxEdits
NextEdit == Cardinality(given.made) + 1

\* The step makes one more edit, of the form f.
Makes(f) ==
  /\ HasNext
  /\ form' = f
  /\ given' = [given EXCEPT !.made = @ \cup {NextEdit}]
  /\ UNCHANGED <<desk, service, file, writers, news>>

GivesUp(f, edits) ==
  /\ form' = f
  /\ given' = [given EXCEPT !.up = @ \cup edits]
  /\ UNCHANGED <<desk, service, file, writers>>

\* The process ends with its goroutines and messages; the file stays.
Leaves(g) ==
  /\ desk' = [desk EXCEPT !.gone = TRUE]
  /\ form' = NewForm(FALSE) /\ writers' = {} /\ news' = {}
  /\ given' = g
  /\ UNCHANGED <<service, file>>

-----------------------------------------------------------------------------
\* Ticks and activation.

\* Variant: only an open editor keeps the draft.
Undrafted == ~form.editing /\ form.child = NoChild /\ form.section # "security" /\ ~form.saving

Untouched == ~form.dirty /\ Undrafted

\* Refreshes call Init on the active tab: an idle draft is read anew.
ReloadedForm == IF Untouched THEN [form EXCEPT !.draft = service.cfg, !.dirty = @ \/ service.setup] ELSE form

Tick == desk.tab = "settings" /\ FormBecomes(ReloadedForm)

-----------------------------------------------------------------------------
\* Keys of the settings.

AnswersKey ==
  /\ desk.tab = "settings" /\ ~form.saving
  /\ ~desk.bar /\ ~desk.confirm

Resting == AnswersKey /\ ~form.editing /\ form.child = NoChild
Content == Resting /\ ~form.sidebar

BeginEdit == Content /\ form.section = "runtime" /\ FormBecomes([form EXCEPT !.editing = TRUE])

TypeEdit ==
  /\ AnswersKey /\ form.editing
  /\ Makes([form EXCEPT !.pending = @ \cup {NextEdit}])

KeepEdit ==
  /\ AnswersKey /\ form.editing
  /\ FormBecomes([form EXCEPT !.editing = FALSE, !.dirty = TRUE, !.pending = {},
                              !.draft = @ \cup form.pending])

CancelEdit ==
  /\ AnswersKey /\ form.editing
  /\ GivesUp([form EXCEPT !.editing = FALSE, !.pending = {}], form.pending)
  /\ UNCHANGED news

\* A toggle, a choice, a security control set or reset, a connection removed.
EditInPlace ==
  /\ Content
  /\ form.section \in {"runtime", "connections"} \/ (form.section = "security" /\ form.row = "control")
  /\ \E armed \in {FALSE, form.resetAll} :
       Makes([form EXCEPT !.draft = @ \cup {NextEdit}, !.dirty = TRUE, !.resetAll = armed])

OpenChild ==
  /\ Content /\ form.section \in {"models", "connections"} /\ form.opened < MaxChildren
  /\ FormBecomes([form EXCEPT !.child = form.opened + 1, !.opened = @ + 1])

InChild == AnswersKey /\ form.child # NoChild

\* Another connection, an exact model ID, a field of a connection.
TypeInChild == InChild /\ Makes([form EXCEPT !.pending = @ \cup {NextEdit}])

\* Esc in a field, or the old connection again: the child is as it was before.
LeaveField ==
  /\ InChild
  /\ \E edits \in SUBSET form.pending : GivesUp([form EXCEPT !.pending = @ \ edits], edits)
  /\ UNCHANGED news

\* Enter and Esc answer with a message that names the child and carries what was
\* edited in it; until the message comes the child still takes keys.
Answer(cancelled, edits) ==
  /\ InChild /\ form.answers < MaxAnswers
  /\ form' = [form EXCEPT !.answers = @ + 1]
  /\ news' = news \cup {[type |-> "child", id |-> form.child, ok |-> ~cancelled,
                         edits |-> IF cancelled THEN {} ELSE edits]}

ChildAnswers(cancelled) ==
  Answer(cancelled, form.pending) /\ UNCHANGED <<desk, service, file, writers, given>>

\* Enter on a row of the picker: only the message carries the choice, so that
\* Dirty does not tell of it.
ChooseRow ==
  /\ form.section = "models" /\ HasNext
  /\ Answer(FALSE, form.pending \cup {NextEdit})
  /\ given' = [given EXCEPT !.made = @ \cup {NextEdit}]
  /\ UNCHANGED <<desk, service, file, writers>>

\* The edits that the messages of the open child bring.
OnTheirWay == UNION {m.edits : m \in {n \in news : n.type = "child" /\ n.ok /\ n.id = form.child}}

\* The first message closes the child; what the user did there since, and the
\* messages that follow, are dropped.
ChildResult(m) ==
  /\ m.type = "child"
  /\ IF m.id # form.child THEN GivesUp(form, {})
     ELSE LET closed == [form EXCEPT !.child = NoChild, !.pending = {}]
              all    == form.pending \cup OnTheirWay
          IN  IF m.ok THEN GivesUp([closed EXCEPT !.draft = @ \cup m.edits,
                                                  !.dirty = @ \/ m.edits # {}], all \ m.edits)
              ELSE GivesUp(closed, all)

\* Security: a profile is chosen on the first row and applied by a second
\* key, all overrides are cleared by a second R.
InSecurity == Content /\ form.section = "security"
Unconfirmed(f) == [f EXCEPT !.profile = FALSE, !.resetAll = FALSE]

ChooseProfile == InSecurity /\ form.row = "profile" /\ FormBecomes([form EXCEPT !.profile = TRUE])

ApplyProfile ==
  /\ InSecurity /\ form.row = "profile" /\ form.profile
  /\ Makes([form EXCEPT !.draft = @ \cup {NextEdit}, !.dirty = TRUE, !.profile = FALSE])

AskResetAll == InSecurity /\ ~form.resetAll /\ FormBecomes([form EXCEPT !.resetAll = TRUE])

ApplyResetAll ==
  /\ InSecurity /\ form.resetAll
  /\ Makes([form EXCEPT !.draft = @ \cup {NextEdit}, !.dirty = TRUE, !.resetAll = FALSE])

MoveRow ==
  InSecurity /\ \E r \in {"profile", "control"} : FormBecomes(Unconfirmed([form EXCEPT !.row = r]))

CancelConfirmation ==
  InSecurity /\ (form.profile \/ form.resetAll) /\ FormBecomes(Unconfirmed(form))

SetSection(s) == Unconfirmed([form EXCEPT !.section = s])

ChangeSection == Resting /\ \E s \in Sections : FormBecomes(SetSection(s))

ToggleSidebar ==
  /\ Resting
  /\ FormBecomes(IF form.sidebar THEN [form EXCEPT !.sidebar = FALSE]
                 ELSE Unconfirmed([form EXCEPT !.sidebar = TRUE]))

ResetDraft ==
  /\ Content /\ form.section # "security"
  /\ GivesUp([form EXCEPT !.draft = service.cfg, !.dirty = FALSE], form.draft \ service.cfg)
  /\ UNCHANGED news

SaveSettings ==
  /\ Content
  /\ form' = [form EXCEPT !.saving = TRUE]
  /\ writers' = writers \cup {[by |-> "saved", cfg |-> form.draft, step |-> "write"]}
  /\ UNCHANGED <<desk, service, file, news, given>>

-----------------------------------------------------------------------------
\* SaveConfig.

Result(w, ok) ==
  /\ writers' = writers \ {w}
  /\ news' = news \cup {[type |-> w.by, id |-> NoChild, ok |-> ok, edits |-> {}]}

\* An invalid configuration, or the disk, refuses; the old file stays.
WriteFails(w) == w.step = "write" /\ Result(w, FALSE) /\ UNCHANGED <<form, desk, service, file, given>>

FileRenamed(w) ==
  /\ w.step = "write"
  /\ file' = w.cfg
  /\ writers' = (writers \ {w}) \cup {[w EXCEPT !.step = "publish"]}
  /\ UNCHANGED <<form, desk, service, news, given>>

ConfigPublished(w) ==
  /\ w.step = "publish"
  /\ service' = [cfg |-> w.cfg, setup |-> FALSE]
  /\ Result(w, TRUE)
  /\ UNCHANGED <<form, desk, file, given>>

Writer(w) == WriteFails(w) \/ FileRenamed(w) \/ ConfigPublished(w)

Saved(m) ==
  IF m.ok THEN [form EXCEPT !.saving = FALSE, !.dirty = FALSE, !.draft = service.cfg]
  ELSE [form EXCEPT !.saving = FALSE]

SavedArrives(m) == m.type = "saved" /\ form' = Saved(m) /\ UNCHANGED <<desk, service, file, writers, given>>

QuitSavedArrives(m) ==
  /\ m.type = "quit"
  /\ IF m.ok THEN Leaves(given)
     ELSE /\ desk' = [desk EXCEPT !.quitSaving = FALSE]
          /\ given' = [given EXCEPT !.aloft = {}]
          /\ UNCHANGED <<form, service, file, writers>>

\* One message is handled; the others wait.
Delivered(m) ==
  /\ ChildResult(m) \/ SavedArrives(m) \/ QuitSavedArrives(m)
  /\ ~desk'.gone => news' = news \ {m}

-----------------------------------------------------------------------------
\* The root model.

\* Nested surfaces get the first Esc.
EscapeIsTheirs ==
  desk.tab = "settings" /\ (form.editing \/ form.child # NoChild \/ form.profile \/ form.resetAll)

Consuming ==
  desk.tab = "settings"
    /\ (form.editing \/ form.child # NoChild \/ (form.section = "security" /\ ~form.sidebar))

FocusBar == ~desk.confirm /\ ~desk.bar /\ ~EscapeIsTheirs /\ DeskBecomes([desk EXCEPT !.bar = TRUE])
FocusContent == ~desk.confirm /\ desk.bar /\ DeskBecomes([desk EXCEPT !.bar = FALSE])

\* From the bar, the switcher, the history or by a click: a tab that was not
\* shown is initialised; only the bar's own keys keep the focus there.  The open
\* switcher and the help page only hold back the keys.
SwitchTab(tab, bar) ==
  /\ ~desk.confirm
  /\ bar => desk.bar
  /\ desk' = [desk EXCEPT !.tab = tab, !.bar = bar]
  /\ form' = IF tab = "settings" /\ desk.tab # tab THEN ReloadedForm ELSE form
  /\ UNCHANGED <<service, file, writers, news, given>>

\* hasPendingEdit.
AsksToSave == form.dirty \/ form.pending # {}

Quit ==
  /\ ~desk.confirm /\ (desk.bar \/ ~Consuming)
  /\ IF AsksToSave THEN DeskBecomes([desk EXCEPT !.confirm = TRUE])
     ELSE Leaves([given EXCEPT !.aloft = OnTheirWay])

Asked == desk.confirm /\ ~desk.quitSaving
StayHere == Asked /\ DeskBecomes([desk EXCEPT !.confirm = FALSE])

\* d in the question, or ctrl+c at any time.
DiscardAll == Leaves([given EXCEPT !.up = given.made])

\* An open editor is shown instead of saved over.
SaveAndQuit ==
  /\ Asked
  /\ IF form.pending # {}
     THEN /\ desk' = [desk EXCEPT !.confirm = FALSE, !.bar = FALSE, !.tab = "settings"]
          /\ UNCHANGED <<writers, given>>
     ELSE /\ desk' = [desk EXCEPT !.quitSaving = TRUE]
          /\ given' = [given EXCEPT !.aloft = OnTheirWay]
          /\ writers' = writers \cup {[by |-> "quit", cfg |-> form.draft, step |-> "write"]}
  /\ UNCHANGED <<form, service, file, news>>

RootStep ==
  \/ FocusBar \/ FocusContent
  \/ \E tab \in {"settings", "other"}, bar \in BOOLEAN : SwitchTab(tab, bar)
  \/ Quit \/ StayHere \/ DiscardAll \/ SaveAndQuit

FormKey ==
  \/ BeginEdit \/ TypeEdit \/ KeepEdit \/ CancelEdit \/ EditInPlace \/ OpenChild \/ TypeInChild
  \/ LeaveField \/ ChooseRow
  \/ \E cancelled \in BOOLEAN : ChildAnswers(cancelled)
  \/ ChooseProfile \/ ApplyProfile \/ AskResetAll \/ ApplyResetAll \/ MoveRow
  \/ CancelConfirmation \/ ChangeSection \/ ToggleSidebar \/ ResetDraft \/ SaveSettings

SettingsNext ==
  /\ ~desk.gone
  /\ \/ Tick \/ FormKey \/ RootStep
     \/ \E w \in writers : Writer(w)
     \/ \E m \in news : Delivered(m)

SettingsSpec == SettingsInit /\ [][SettingsNext]_settingsVars

-----------------------------------------------------------------------------
\* Properties.

Configs == SUBSET (1 .. MaxEdits)

Forms ==
  [draft : Configs, dirty : BOOLEAN, saving : BOOLEAN, editing : BOOLEAN,
   child : 0 .. MaxChildren, opened : 0 .. MaxChildren, answers : 0 .. MaxAnswers,
   pending : Configs, section : Sections, sidebar : BOOLEAN, row : {"profile", "control"},
   profile : BOOLEAN, resetAll : BOOLEAN]
Desks ==
  [tab : {"settings", "other"}, bar : BOOLEAN, confirm : BOOLEAN,
   quitSaving : BOOLEAN, gone : BOOLEAN]
Saves == [by : {"saved", "quit"}, cfg : Configs, step : {"write", "publish"}]
Results == [type : {"child", "saved", "quit"}, id : 0 .. MaxChildren, ok : BOOLEAN, edits : Configs]

SettingsTypeOK ==
  /\ form \in Forms /\ desk \in Desks
  /\ service \in [cfg : Configs, setup : BOOLEAN] /\ file \in Configs
  /\ writers \subseteq Saves /\ news \subseteq Results
  /\ given \in [made : Configs, up : Configs, aloft : Configs]

\* No edit is lost unless the user gave it up by a reset, a cancellation, a discard
\* or by keys in a picker or editor that had been answered: neither a tick, a switch
\* of tabs, a late message nor the end of a save replaces it, and when the console
\* is left each edit is in the file, so that an open editor, a draft, a failed save
\* or one still under way keep it from closing.  Only a choice whose message was
\* under way when the user quit, or saved and quit, may miss the file
\* (configTab.Init, configSavedMsg, updateModelChildren, Picker.Dirty, app.go: Quit,
\* quitSavedMsg).
EditsKept ==
  given.made \subseteq
    given.up \cup (IF desk.gone THEN file \cup given.aloft
                   ELSE form.draft \cup form.pending \cup OnTheirWay)
=============================================================================
