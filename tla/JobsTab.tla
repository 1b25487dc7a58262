------------------------------- MODULE JobsTab -------------------------------
(***************************************************************************)
(* The console's jobs (internal/tui/tab_jobs.go, the job operations of     *)
(* internal/tui/service.go): a list that is reloaded under the user's      *)
(* cursor, a dialog that deletes the selected job, a job's run history and *)
(* the draft of a new job.  Reads and operations run in goroutines of      *)
(* their own; their messages arrive in any order, while the scheduler and  *)
(* the command line change the same store.                                 *)
(***************************************************************************)
EXTENDS Naturals, Sequences, SequencesExt, FiniteSets

CONSTANTS
  MaxJobs,        \* bound: drafts are begun while there have been fewer jobs
  FirstJobs,      \* the jobs in the store at first
  MaxPending,     \* bound: operations and messages on their way when another starts
  MaxMoves        \* bound: runs, pauses and resumptions, visits from Overview, steps
                  \* of other processes

VARIABLES
  jtab,           \* the fields of jobsTab
  cabinet,        \* the stored jobs in the order of ListScheduledJobs: when they run next
  made,           \* of which draft a job was made
  doing,          \* operations whose goroutine has not reached the store
  post,           \* messages on their way to Update
  moves

\* Jobs are numbered from one.
ASSUME JobsAssumption == Len(FirstJobs) \in Nat /\ ToSet(FirstJobs) = 1 .. Len(FirstJobs)

jobsVars == <<jtab, cabinet, made, doing, post, moves>>

NoJobId == 0
NoDraft == 0

\* subject is the job a dialog or a history was opened for, until a list without it arrived.
NewJobsTab ==
  [list |-> <<>>, cursor |-> 1, mode |-> "list", focus |-> NoJobId, subject |-> NoJobId, detail |-> NoJobId,
   runsOf |-> NoJobId, draft |-> NoDraft, step |-> "field", creating |-> FALSE]

JobsInit ==
  /\ jtab = NewJobsTab
  /\ cabinet = FirstJobs
  /\ made = [j \in ToSet(FirstJobs) |-> NoDraft]
  /\ doing = {}
  /\ post = {}
  /\ moves = 0

Selected(t) == IF t.cursor <= Len(t.list) THEN t.list[t.cursor] ELSE NoJobId
Moves == moves < MaxMoves /\ moves' = moves + 1
MayStart == Cardinality(doing) + Cardinality(post) < MaxPending

TabBecomes(t) == jtab' = t /\ UNCHANGED <<cabinet, made, doing, post, moves>>
Starts(t, op) ==
  /\ MayStart
  /\ jtab' = t
  /\ doing' = doing \cup {op}
  /\ UNCHANGED <<cabinet, made, post>>

-----------------------------------------------------------------------------
\* Messages.

\* The selected job stays selected while it is listed.
Followed(t, list) ==
  IF Selected(t) \in ToSet(list) /\ t.list # <<>>
  THEN CHOOSE i \in DOMAIN list : list[i] = Selected(t)
  ELSE IF t.cursor > Len(list) /\ list # <<>> THEN Len(list) ELSE t.cursor

OpenJob(t, j) == [t EXCEPT !.mode = "detail", !.detail = j, !.subject = j]

Listed(t, m) ==
  [t EXCEPT !.list = m.list, !.cursor = Followed(t, m.list), !.focus = NoJobId,
            !.subject = IF @ \in ToSet(m.list) THEN @ ELSE NoJobId]

\* A list is read: after an operation, every five seconds while the tab is
\* shown, or on request.
ReadList ==
  /\ MayStart
  /\ post' = post \cup {[type |-> "list", list |-> cabinet]}
  /\ UNCHANGED <<jtab, cabinet, made, doing, moves>>

\* A job that Overview asked for is opened when the list has it.
ListArrives(m) ==
  /\ m.type = "list"
  /\ LET t == Listed(jtab, m) IN
     IF jtab.focus \in ToSet(m.list)
     THEN /\ jtab' = OpenJob([t EXCEPT !.cursor = CHOOSE i \in DOMAIN m.list : m.list[i] = jtab.focus],
                             jtab.focus)
          /\ doing' = doing \cup {[op |-> "runs", job |-> jtab.focus]}
     ELSE jtab' = t /\ UNCHANGED doing
  /\ UNCHANGED <<cabinet, made, moves>>

OwnRuns(t, m) == t.detail \in {NoJobId, m.job}

RunsArrive(m) ==
  /\ m.type = "runs"
  /\ jtab' = IF OwnRuns(jtab, m) THEN [jtab EXCEPT !.runsOf = m.job, !.detail = m.job] ELSE jtab
  /\ UNCHANGED <<cabinet, made, doing, moves>>

\* A failed creation reopens the wizard, a successful one ends the draft.
ActionArrives(m) ==
  /\ m.type = "action"
  /\ jtab' = IF ~m.created THEN jtab
             ELSE IF m.ok THEN [jtab EXCEPT !.creating = FALSE, !.mode = "list", !.draft = NoDraft]
             ELSE [jtab EXCEPT !.creating = FALSE, !.mode = "create"]
  /\ UNCHANGED <<cabinet, made, doing, moves>>

JobMessage(m) == (ListArrives(m) \/ RunsArrive(m) \/ ActionArrives(m)) /\ post' = post \ {m}

-----------------------------------------------------------------------------
\* Operations reach the store.

Outcome(created, ok) == {[type |-> "action", created |-> created, ok |-> ok]}
Without(j) == SelectSeq(cabinet, LAMBDA k : k # j)

\* A job that runs, is paused or is resumed gets another next time, or none.
Moved(j) == IF j \in ToSet(cabinet) THEN {InsertAt(Without(j), i, j) : i \in DOMAIN cabinet} ELSE {cabinet}

\* The store, or the schedule that has passed meanwhile, refuses.
JobOpFails(o) ==
  /\ o.op \in {"create", "delete", "enable", "run"}
  /\ post' = post \cup Outcome(o.op = "create", FALSE)
  /\ UNCHANGED <<cabinet, made>>

JobCreated(o) ==
  /\ o.op = "create"
  /\ LET j == Cardinality(DOMAIN made) + 1 IN
     /\ made' = [k \in DOMAIN made \cup {j} |-> IF k = j THEN o.job ELSE made[k]]
     /\ cabinet' = <<j>> \o cabinet
  /\ post' = post \cup Outcome(TRUE, TRUE)

JobDeleted(o) ==
  /\ o.op = "delete"
  /\ cabinet' = Without(o.job)
  /\ post' = post \cup Outcome(FALSE, TRUE)
  /\ UNCHANGED made

\* To pause or resume a job that is no longer stored fails.
JobEnabled(o) ==
  /\ o.op = "enable" /\ o.job \in ToSet(cabinet)
  /\ cabinet' \in Moved(o.job)
  /\ post' = post \cup Outcome(FALSE, TRUE)
  /\ UNCHANGED made

JobRan(o) ==
  /\ o.op = "run"
  /\ cabinet' \in Moved(o.job)
  /\ post' = post \cup Outcome(FALSE, TRUE)
  /\ UNCHANGED made

RunsRead(o) ==
  /\ o.op = "runs"
  /\ post' = post \cup {[type |-> "runs", job |-> o.job]}
  /\ UNCHANGED <<cabinet, made>>

JobOperation(o) ==
  /\ JobOpFails(o) \/ JobCreated(o) \/ JobDeleted(o) \/ JobEnabled(o) \/ JobRan(o) \/ RunsRead(o)
  /\ doing' = doing \ {o}
  /\ UNCHANGED <<jtab, moves>>

\* The scheduler and the command line.
OtherProcess(j) ==
  /\ Moves
  /\ cabinet' \in {Without(j)} \cup Moved(j)
  /\ UNCHANGED <<jtab, made, doing, post>>

-----------------------------------------------------------------------------
\* Keys.

InList == jtab.mode = "list"
Holds == InList /\ jtab.list # <<>>

MoveCursor == Holds /\ \E i \in DOMAIN jtab.list : TabBecomes([jtab EXCEPT !.cursor = i])

OpenSelected ==
  /\ Holds
  /\ Starts(OpenJob(jtab, Selected(jtab)), [op |-> "runs", job |-> Selected(jtab)]) /\ UNCHANGED moves

AskDelete == Holds /\ TabBecomes([jtab EXCEPT !.mode = "delete", !.subject = Selected(jtab)])

RunSelected == Holds /\ Starts(jtab, [op |-> "run", job |-> Selected(jtab)]) /\ Moves

\* Pauses a job that is listed as enabled, resumes another.
PauseSelected == Holds /\ Starts(jtab, [op |-> "enable", job |-> Selected(jtab)]) /\ Moves

LeaveDialog ==
  /\ jtab.mode \in {"detail", "delete"}
  /\ TabBecomes([jtab EXCEPT !.mode = "list", !.runsOf = IF jtab.mode = "detail" THEN NoJobId ELSE @])

ConfirmDelete ==
  /\ jtab.mode = "delete" /\ jtab.list # <<>>
  /\ Starts([jtab EXCEPT !.mode = "list"], [op |-> "delete", job |-> Selected(jtab)]) /\ UNCHANGED moves

\* Overview leads to a job: the next list opens it.
FocusJob(j) ==
  /\ Moves
  /\ jtab' = [jtab EXCEPT !.focus = j]
  /\ UNCHANGED <<cabinet, made, doing, post>>

\* n, or the switcher from any view unless the draft is being saved; a draft
\* is continued where it was left.
NewJob ==
  /\ InList \/ ~jtab.creating
  /\ jtab.draft = NoDraft => Cardinality(DOMAIN made) < MaxJobs
  /\ TabBecomes(IF jtab.draft # NoDraft THEN [jtab EXCEPT !.mode = "create"]
                ELSE [jtab EXCEPT !.mode = "create", !.draft = Cardinality(DOMAIN made) + 1,
                                  !.step = "field"])

\* Variant: keys are answered while the job is saved.
AnswersKeys == jtab.mode = "create"

Edits == jtab.mode = "create" /\ ~jtab.creating

\* From the last field to the review, and back; the fields and what they hold
\* are left out.
ReviewDraft == Edits /\ jtab.step = "field" /\ TabBecomes([jtab EXCEPT !.step = "confirm"])

BackToField == Edits /\ jtab.step = "confirm" /\ TabBecomes([jtab EXCEPT !.step = "field"])

CloseDraft == Edits /\ TabBecomes([jtab EXCEPT !.mode = "list"])

\* A time that has passed since it was typed leads back to its field instead.
ConfirmDraft ==
  /\ Edits /\ jtab.step = "confirm"
  /\ Starts([jtab EXCEPT !.creating = TRUE], [op |-> "create", job |-> jtab.draft]) /\ UNCHANGED moves

JobsKey ==
  \/ MoveCursor \/ OpenSelected \/ AskDelete \/ RunSelected \/ PauseSelected \/ LeaveDialog
  \/ ConfirmDelete \/ NewJob \/ ReviewDraft \/ BackToField \/ CloseDraft
  \/ ConfirmDraft
  \/ \E j \in ToSet(cabinet) : FocusJob(j)

JobsNext ==
  \/ JobsKey
  \/ ReadList
  \/ \E m \in post : JobMessage(m)
  \/ \E o \in doing : JobOperation(o)
  \/ \E j \in ToSet(cabinet) : OtherProcess(j)

JobsSpec == JobsInit /\ [][JobsNext]_jobsVars

-----------------------------------------------------------------------------
\* Properties.

JobsTypeOK ==
  /\ jtab.cursor \in 1..(MaxJobs + 1) /\ ToSet(jtab.list) \subseteq DOMAIN made
  /\ jtab.list # <<>> => jtab.cursor \in DOMAIN jtab.list
  /\ jtab.mode \in {"list", "detail", "create", "delete"}
  /\ jtab.creating => jtab.draft # NoDraft

\* A draft is given up only for the job made of it, and it made one: failures,
\* other dialogs and the switcher keep it, and confirming twice makes no second
\* job (jobActionMsg, updateCreate, initCreateInputs).
DraftBecomesOneJob ==
  [][jtab.draft # NoDraft /\ jtab'.draft # jtab.draft
       => Cardinality({j \in DOMAIN made' : made'[j] = jtab.draft}) = 1]_jobsVars
=============================================================================
