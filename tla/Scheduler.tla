------------------------------ MODULE Scheduler ------------------------------
(***************************************************************************)
(* Scheduled jobs (scheduler/service.go, state/store_scheduler.go): rows   *)
(* of one SQLite table that daemons poll, claim for a lease and run, while *)
(* other processes edit, pause, remove and approve them.  A statement on   *)
(* the table is atomic; a call is several statements, and what it read in  *)
(* one of them may be stale in the next.                                   *)
(*                                                                         *)
(* A caller is a goroutine that performs one call at a time; callers of    *)
(* one process share its claim owner and die together.  Time is not        *)
(* counted: a next run is due once it has elapsed, and a lease is live     *)
(* until it expires.                                                       *)
(***************************************************************************)
EXTENDS Naturals, FiniteSets

CONSTANTS
  Jobs,           \* identifiers of scheduled jobs
  Defs,           \* what an operator edits: prompt and schedule
  Kind,           \* [Defs -> Kinds], the schedule kind of a definition
  Callers,        \* goroutines that use the scheduler
  Owner,          \* [Callers -> owner], the claim owner of the caller's process
  Role,           \* [Callers -> SUBSET Calls], the calls each caller makes
  Initial,        \* [Jobs -> definition, or NoRow for a job not created yet]
  NoRow,          \* the row of a job that does not exist
  Nobody,         \* the owner of an unclaimed job
  Gone,           \* the owner of a claim whose process died; owners are random
  NoJob,          \* the job of an idle caller
  MaxWorks,       \* bound: pending blocked work of one job
  MaxFaults,      \* bound: crashes and failing statements
  MaxLapses       \* bound: leases that run out although their holder lives

Kinds == {"at", "every", "cron"}
Calls == {"due", "now", "create", "update", "pause", "resume", "remove", "approve"}

ASSUME SortsAssumption ==
  /\ Kind \in [Defs -> Kinds]
  /\ Role \in [Callers -> SUBSET Calls]
  /\ \A x \in Callers : Owner[x] \notin {Nobody, Gone}
  /\ Nobody # Gone
  /\ NoJob \notin Jobs /\ NoRow \notin Defs
  /\ Initial \in [Jobs -> Defs \cup {NoRow}]
ASSUME BoundsAssumption ==
  MaxWorks \in Nat /\ MaxFaults \in Nat /\ MaxLapses \in Nat

Owners == {Owner[x] : x \in Callers}
Row == [def : Defs, enabled : BOOLEAN, next : {"none", "later", "due"}, blocked : BOOLEAN,
        claim : Owners \cup {Nobody, Gone}, lease : {"none", "live", "expired"}]

VARIABLES
  row,            \* [Jobs -> Row or NoRow], the table scheduled_jobs
  pending,        \* [Jobs -> Nat], blocked work of the job that awaits approval
  passed,         \* one-shot definitions whose instant has passed
  created,        \* jobs that have been created; an identifier is used once
  pc,             \* per caller: next step of its call
  job,            \* per caller: the job it is at
  copy,           \* per caller: the row it read, as it will write it back
  todo,           \* per caller: due jobs it is about to claim
  queue,          \* per caller: claimed jobs it has not run yet
  manual,         \* per caller: whether it runs the job on demand
  outcome,        \* per caller: what the run of its job came to
  faults, lapses, \* faults and lapsed leases so far
  starts          \* [Jobs -> Nat], history: scheduled runs begun of a one-shot

table   == <<row, pending, passed, created>>
local   == <<pc, job, copy, todo, queue, manual, outcome>>
budgets == <<faults, lapses>>
vars    == <<table, local, budgets, starts>>

-----------------------------------------------------------------------------
\* Rows.

Exists(j) == row[j] # NoRow
Due(j) == Exists(j) /\ row[j].enabled /\ ~row[j].blocked /\ row[j].next = "due"

\* What a fresh NextRun yields: an instant that has passed has no next run.
NextRun(d) == IF Kind[d] = "at" /\ d \in passed THEN "none" ELSE "later"

Unclaimed(r) == [r EXCEPT !.claim = Nobody, !.lease = "none"]
ClaimedBy(r, w) == [r EXCEPT !.claim = w, !.lease = "live"]

\* Variant: an expired claim is never given up.
FreeForever(j) == row[j].claim = Nobody

\* A job may be claimed if nobody holds it or its lease has run out.
Free(j) == row[j].claim = Nobody \/ row[j].lease = "expired"

Idle(x) ==
  /\ pc' = [pc EXCEPT ![x] = "idle"]
  /\ job' = [job EXCEPT ![x] = NoJob]
  /\ copy' = [copy EXCEPT ![x] = NoRow]
  /\ UNCHANGED <<todo, queue, manual, outcome>>

May(x, call) == pc[x] = "idle" /\ call \in Role[x]
Fault == faults < MaxFaults /\ faults' = faults + 1 /\ UNCHANGED lapses

-----------------------------------------------------------------------------
\* RunDue and RunNow: claim, run, write back.

\* List the due jobs that can be claimed.
RunDue(x) ==
  /\ May(x, "due")
  /\ \E j \in Jobs : Due(j) /\ Free(j)
  /\ todo' = [todo EXCEPT ![x] = {j \in Jobs : Due(j) /\ Free(j)}]
  /\ pc' = [pc EXCEPT ![x] = "claim"]
  /\ UNCHANGED <<table, job, copy, queue, manual, outcome, budgets, starts>>

\* Claim them one by one; another worker may have taken one since.
ClaimDue(x) ==
  /\ pc[x] = "claim"
  /\ \E j \in todo[x] :
       /\ todo' = [todo EXCEPT ![x] = @ \ {j}]
       /\ \/ Due(j) /\ Free(j)
             /\ row' = [row EXCEPT ![j] = ClaimedBy(@, Owner[x])]
             /\ queue' = [queue EXCEPT ![x] = @ \cup {j}]
          \/ ~(Due(j) /\ Free(j)) /\ UNCHANGED <<row, queue>>
  /\ UNCHANGED <<pending, passed, created, pc, job, copy, manual, outcome, budgets, starts>>

ClaimEnd(x) ==
  /\ pc[x] = "claim" /\ todo[x] = {}
  /\ pc' = [pc EXCEPT ![x] = "queue"]
  /\ UNCHANGED <<table, job, copy, todo, queue, manual, outcome, budgets, starts>>

\* A failing statement abandons the claims made so far.
ClaimFail(x) ==
  /\ pc[x] = "claim"
  /\ Fault
  /\ todo' = [todo EXCEPT ![x] = {}]
  /\ queue' = [queue EXCEPT ![x] = {}]
  /\ pc' = [pc EXCEPT ![x] = "idle"]
  /\ UNCHANGED <<table, job, copy, manual, outcome, starts>>

\* A manual run claims its job whether it is due, paused or blocked, and again
\* when its own process holds the claim.
RunNow(x, j) ==
  /\ May(x, "now") /\ Exists(j)
  /\ Free(j) \/ row[j].claim = Owner[x]
  /\ row' = [row EXCEPT ![j] = ClaimedBy(@, Owner[x])]
  /\ queue' = [queue EXCEPT ![x] = {j}]
  /\ manual' = [manual EXCEPT ![x] = TRUE]
  /\ pc' = [pc EXCEPT ![x] = "queue"]
  /\ UNCHANGED <<pending, passed, created, job, copy, todo, outcome, budgets, starts>>

\* Start the heartbeat of the next claimed job and read its row; the agent runs
\* unless the job is gone.  The claim itself is not looked at.
BeginRun(x) ==
  /\ pc[x] = "queue"
  /\ \E j \in queue[x] :
       /\ queue' = [queue EXCEPT ![x] = @ \ {j}]
       /\ \/ Exists(j)
             /\ pc' = [pc EXCEPT ![x] = "run"]
             /\ job' = [job EXCEPT ![x] = j]
             /\ copy' = [copy EXCEPT ![x] = row[j]]
             /\ starts' = IF manual[x] \/ Kind[row[j].def] # "at" THEN starts
                          ELSE [starts EXCEPT ![j] = @ + 1]
          \/ ~Exists(j) /\ UNCHANGED <<pc, job, copy, starts>>
  /\ UNCHANGED <<table, todo, manual, outcome, budgets>>

RunsEnd(x) ==
  /\ pc[x] = "queue" /\ queue[x] = {}
  /\ pc' = [pc EXCEPT ![x] = "idle"]
  /\ manual' = [manual EXCEPT ![x] = FALSE]
  /\ UNCHANGED <<table, job, copy, todo, queue, outcome, budgets, starts>>

\* The agent stops at an action that needs approval, and saves it.
RunBlocks(x) ==
  /\ pc[x] = "run" /\ pending[job[x]] < MaxWorks
  /\ pending' = [pending EXCEPT ![job[x]] = @ + 1]
  /\ outcome' = [outcome EXCEPT ![x] = "blocked"]
  /\ pc' = [pc EXCEPT ![x] = "record"]
  /\ UNCHANGED <<row, passed, created, job, copy, todo, queue, manual, budgets, starts>>

\* Variant: the claim is released before the row is written.
RunEndsReleased(x) ==
  /\ pc[x] = "run"
  /\ \E s \in {"ok", "error"} : outcome' = [outcome EXCEPT ![x] = s]
  /\ pc' = [pc EXCEPT ![x] = "record"]
  /\ row' = IF Exists(job[x]) THEN [row EXCEPT ![job[x]] = Unclaimed(@)] ELSE row
  /\ UNCHANGED <<pending, passed, created, job, copy, todo, queue, manual, budgets, starts>>

RunEnds(x) ==
  /\ pc[x] = "run"
  /\ \E s \in {"ok", "error"} : outcome' = [outcome EXCEPT ![x] = s]
  /\ pc' = [pc EXCEPT ![x] = "record"]
  /\ UNCHANGED <<table, job, copy, todo, queue, manual, budgets, starts>>

\* The row a finished run writes: the one it read before the run, with the
\* result and, unless it was manual, the next run.
\* Variant: a failed run forgets that the job is blocked.
BlockingLast(r, s) == [r EXCEPT !.blocked = (s = "blocked")]
Blocking(r, s) == [r EXCEPT !.blocked = (s = "blocked") \/ (s = "error" /\ @)]
\* Variant: a one-shot job stays enabled for its instant.
ScheduleKept(r) == {r}
Schedule(r) ==
  CASE Kind[r.def] = "at"    -> {[r EXCEPT !.enabled = FALSE, !.next = "none"]}
    [] Kind[r.def] = "every" -> {[r EXCEPT !.next = "later"]}
    \* a cron expression may have no match within a year
    [] Kind[r.def] = "cron"  -> {[r EXCEPT !.next = "later"],
                                 [r EXCEPT !.enabled = FALSE, !.next = "none"]}
Finished(x) ==
  LET r == Unclaimed(Blocking(copy[x], outcome[x]))
  IN  IF manual[x] THEN {r} ELSE Schedule(r)

\* Record the run and write the whole row.
SaveRun(x) ==
  /\ pc[x] = "record"
  /\ \E r \in Finished(x) : row' = [row EXCEPT ![job[x]] = r]
  /\ pc' = [pc EXCEPT ![x] = "release"]
  /\ UNCHANGED <<pending, passed, created, job, copy, todo, queue, manual, outcome, budgets, starts>>

SaveFail(x) ==
  /\ pc[x] = "record"
  /\ Fault
  /\ pc' = [pc EXCEPT ![x] = "release"]
  /\ UNCHANGED <<table, job, copy, todo, queue, manual, outcome, starts>>

\* The deferred release, and on to the next claimed job.
Release(x) ==
  /\ pc[x] = "release"
  /\ row' = IF Exists(job[x]) /\ row[job[x]].claim = Owner[x]
            THEN [row EXCEPT ![job[x]] = Unclaimed(@)] ELSE row
  /\ pc' = [pc EXCEPT ![x] = "queue"]
  /\ job' = [job EXCEPT ![x] = NoJob]
  /\ copy' = [copy EXCEPT ![x] = NoRow]
  /\ outcome' = [outcome EXCEPT ![x] = "none"]
  /\ UNCHANGED <<pending, passed, created, todo, queue, manual, budgets, starts>>

\* The heartbeat extends a claim its owner still has, even an expired one.
Beating(x) == pc[x] \in {"run", "record", "release"}
Heartbeat(x) ==
  /\ Beating(x) /\ Exists(job[x])
  /\ row[job[x]].claim = Owner[x] /\ row[job[x]].lease = "expired"
  /\ row' = [row EXCEPT ![job[x]] = ClaimedBy(@, Owner[x])]
  /\ UNCHANGED <<pending, passed, created, local, budgets, starts>>

-----------------------------------------------------------------------------
\* Edits read a row, change it and write all of it back.

Read(x, j, r) ==
  /\ copy' = [copy EXCEPT ![x] = r]
  /\ job' = [job EXCEPT ![x] = j]
  /\ pc' = [pc EXCEPT ![x] = "edit"]
  /\ UNCHANGED <<table, todo, queue, manual, outcome, budgets, starts>>

Update(x, j) ==
  /\ May(x, "update") /\ Exists(j)
  /\ \E d \in Defs : Read(x, j, [row[j] EXCEPT !.def = d, !.next = NextRun(d)])

Pause(x, j) ==
  /\ May(x, "pause") /\ Exists(j)
  /\ Read(x, j, [row[j] EXCEPT !.enabled = FALSE, !.next = "none"])

Resume(x, j) ==
  /\ May(x, "resume") /\ Exists(j)
  /\ Read(x, j, [row[j] EXCEPT !.enabled = TRUE, !.next = NextRun(row[j].def)])

SaveEdit(x) ==
  /\ pc[x] = "edit"
  /\ row' = [row EXCEPT ![job[x]] = copy[x]]
  /\ Idle(x)
  /\ UNCHANGED <<pending, passed, created, budgets, starts>>

\* A new job is one insert; a one-shot instant in the past has no next run.
NewRow(d) ==
  [def |-> d, enabled |-> TRUE, next |-> NextRun(d), blocked |-> FALSE,
   claim |-> Nobody, lease |-> "none"]
Create(x, j) ==
  /\ May(x, "create") /\ j \notin created
  /\ \E d \in Defs : row' = [row EXCEPT ![j] = NewRow(d)]
  /\ created' = created \cup {j}
  /\ UNCHANGED <<pending, passed, local, budgets, starts>>

Remove(x, j) ==
  /\ May(x, "remove") /\ Exists(j)
  /\ row' = [row EXCEPT ![j] = NoRow]
  /\ UNCHANGED <<pending, passed, created, local, budgets, starts>>

\* An approval resolves the blocked work, and unblocks the job in a second
\* statement.
Approve(x, j) ==
  /\ May(x, "approve") /\ pending[j] > 0
  /\ pending' = [pending EXCEPT ![j] = @ - 1]
  /\ job' = [job EXCEPT ![x] = j]
  /\ pc' = [pc EXCEPT ![x] = "unblock"]
  /\ UNCHANGED <<row, passed, created, copy, todo, queue, manual, outcome, budgets, starts>>

Unblock(x) ==
  /\ pc[x] = "unblock"
  /\ row' = IF Exists(job[x]) THEN [row EXCEPT ![job[x]].blocked = FALSE] ELSE row
  /\ Idle(x)
  /\ UNCHANGED <<pending, passed, created, budgets, starts>>

-----------------------------------------------------------------------------
\* Time and failures.

\* A next run becomes due; that of a one-shot when its instant passes.
Elapse(j) ==
  /\ Exists(j) /\ row[j].next = "later"
  /\ row' = [row EXCEPT ![j].next = "due"]
  /\ passed' = IF Kind[row[j].def] = "at" THEN passed \cup {row[j].def} ELSE passed
  /\ UNCHANGED <<pending, created, local, budgets, starts>>

\* Whether a live caller relies on the claim.
Relied(j) ==
  \E x \in Callers : row[j].claim = Owner[x] /\ (j \in queue[x] \/ (Beating(x) /\ job[x] = j))

\* A lease runs out: freely once its holder is gone; under a live holder only
\* while the job waits behind a long run or no heartbeat gets through.
Expire(j) ==
  /\ Exists(j) /\ row[j].lease = "live"
  /\ IF Relied(j) THEN lapses < MaxLapses /\ lapses' = lapses + 1 ELSE UNCHANGED lapses
  /\ row' = [row EXCEPT ![j].lease = "expired"]
  /\ UNCHANGED <<pending, passed, created, local, faults, starts>>

\* A process dies, and every caller in it.  Another one takes its place, with a
\* claim owner of its own.
Disowned(r, w) == IF r # NoRow /\ r.claim = w THEN [r EXCEPT !.claim = Gone] ELSE r
Crash(w) ==
  /\ \E x \in Callers : Owner[x] = w /\ pc[x] # "idle"
  /\ Fault
  /\ LET dead == {x \in Callers : Owner[x] = w}
         Cleared(f, v) == [x \in Callers |-> IF x \in dead THEN v ELSE f[x]]
     IN  /\ pc' = Cleared(pc, "idle") /\ job' = Cleared(job, NoJob)
         /\ copy' = [x \in Callers |-> IF x \in dead THEN NoRow ELSE Disowned(copy[x], w)]
         /\ outcome' = Cleared(outcome, "none")
         /\ todo' = Cleared(todo, {}) /\ queue' = Cleared(queue, {})
         /\ manual' = Cleared(manual, FALSE)
  /\ row' = [j \in Jobs |-> Disowned(row[j], w)]
  /\ UNCHANGED <<pending, passed, created, starts>>

-----------------------------------------------------------------------------
\* The specification.

Init ==
  /\ passed = {}
  /\ row = [j \in Jobs |-> IF Initial[j] = NoRow THEN NoRow ELSE NewRow(Initial[j])]
  /\ pending = [j \in Jobs |-> 0]
  /\ created = {j \in Jobs : Initial[j] # NoRow}
  /\ pc = [x \in Callers |-> "idle"]
  /\ job = [x \in Callers |-> NoJob]
  /\ copy = [x \in Callers |-> NoRow]
  /\ todo = [x \in Callers |-> {}]
  /\ queue = [x \in Callers |-> {}]
  /\ manual = [x \in Callers |-> FALSE]
  /\ outcome = [x \in Callers |-> "none"]
  /\ faults = 0 /\ lapses = 0
  /\ starts = [j \in Jobs |-> 0]

\* A call that has begun goes on.
Continue(x) ==
  \/ ClaimDue(x) \/ ClaimEnd(x) \/ BeginRun(x) \/ RunsEnd(x)
  \/ RunBlocks(x) \/ RunEnds(x) \/ SaveRun(x) \/ Release(x)
  \/ SaveEdit(x) \/ Unblock(x)
Fail(x) == ClaimFail(x) \/ SaveFail(x)
Call(x, j) ==
  \/ RunNow(x, j) \/ Update(x, j) \/ Pause(x, j) \/ Resume(x, j)
  \/ Create(x, j) \/ Remove(x, j) \/ Approve(x, j)

Next ==
  \/ \E x \in Callers : RunDue(x) \/ Continue(x) \/ Fail(x) \/ Heartbeat(x)
  \/ \E x \in Callers, j \in Jobs : Call(x, j)
  \/ \E j \in Jobs : Elapse(j) \/ Expire(j)
  \/ \E w \in Owners : Crash(w)

Spec == Init /\ [][Next]_vars

\* Every variable keeps its type; the type invariant of this module.
TypeOK ==
  /\ row \in [Jobs -> Row \cup {NoRow}]
  /\ pending \in [Jobs -> 0..MaxWorks]
  /\ passed \subseteq Defs /\ created \subseteq Jobs
  /\ pc \in [Callers -> {"idle", "claim", "queue", "run", "record", "release", "edit", "unblock"}]
  /\ job \in [Callers -> Jobs \cup {NoJob}]
  /\ copy \in [Callers -> Row \cup {NoRow}]
  /\ todo \in [Callers -> SUBSET Jobs] /\ queue \in [Callers -> SUBSET Jobs]
  /\ manual \in [Callers -> BOOLEAN]
  /\ outcome \in [Callers -> {"none", "ok", "error", "blocked"}]
  /\ faults \in 0..MaxFaults /\ lapses \in 0..MaxLapses
  /\ starts \in [Jobs -> Nat]
  /\ \A j \in Jobs : Exists(j) => (row[j].claim = Nobody <=> row[j].lease = "none")

-----------------------------------------------------------------------------
\* Safety.

Runs(x, j) == pc[x] \in {"run", "record"} /\ job[x] = j

\* "An active claim excludes other workers" (docs/scheduled-jobs-and-cron.md:135):
\* two processes never run the same job at once, unless a lease lapsed.
ActiveClaimExcludes ==
  lapses = 0 => \A x, y \in Callers, j \in Jobs :
    Runs(x, j) /\ Runs(y, j) => Owner[x] = Owner[y]

\* A one-shot job is started once by the schedule, and once more at most for
\* each crash or failing statement (service.go:267-277), as long as no lease lapses:
\* one that does lets a manual run write back the row as it was before the
\* scheduled one, over and over.
RepeatsAccounted ==
  lapses = 0 => \A j \in Jobs : starts[j] <= 1 + faults

\* Whoever reads the row of a blocked job, to run or to edit it, writes the block
\* back; so it is cleared by an approval, by a run that succeeded, or by a copy
\* read before the job was blocked, and by nothing else, whoever runs, pauses,
\* resumes and updates in between.  The last case is why the promise of
\* docs/scheduled-jobs-and-cron.md:102-103, "Pausing/resuming alone does not clear
\* a blocked approval", holds only of a call that began after the block: edits
\* save the columns they read (service.go:135-158).
TakesUp(x, j) == job[x] # j /\ job'[x] = j /\ pc'[x] \in {"run", "edit"}
MayUnblock(x, j) ==
  /\ job[x] = j
  /\ \/ pc[x] = "unblock"
     \/ pc[x] = "record" /\ outcome[x] = "ok"
     \/ pc[x] \in {"record", "edit"} /\ ~copy[x].blocked
BlockStands ==
  [][\A j \in Jobs : Exists(j) /\ row[j].blocked =>
       /\ \A x \in Callers : TakesUp(x, j) => copy'[x].blocked
       /\ row'[j] # NoRow /\ ~row'[j].blocked => \E x \in Callers : MayUnblock(x, j)]_vars

-----------------------------------------------------------------------------
\* Liveness.

\* Callers carry on, but for the run of a job itself, which may never return;
\* daemons keep polling, and an unattended lease runs out.
Fairness ==
  /\ \A x \in Callers : WF_vars(pc[x] # "run" /\ Continue(x)) /\ WF_vars(RunDue(x))
  /\ \A j \in Jobs : WF_vars(~Relied(j) /\ Expire(j))
FairSpec == Spec /\ Fairness

\* A due job is run, or ceases to be due by an edit, whatever crashed while it was
\* claimed ("expired claims can be reclaimed after interruption",
\* docs/scheduled-jobs-and-cron.md:135-136); unless a run that never returns holds up
\* the jobs claimed behind it.
DueJobRuns ==
  \A j \in Jobs : Due(j) ~>
    ~Due(j) \/ \E x \in Callers : Runs(x, j) \/ [](pc[x] = "run")
=============================================================================
