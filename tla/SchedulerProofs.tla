--------------------------- MODULE SchedulerProofs ---------------------------
(***************************************************************************)
(* Scheduler, for any number of jobs, callers, definitions, faults and     *)
(* lapses of a lease.                                                      *)
(*                                                                         *)
(* TypeInv adds to the types what a caller has read before each of its     *)
(* steps (Steady).  ClaimInv says that whoever holds a job is named in its *)
(* row while no lease lapsed (Claimed), that only one caller holds it      *)
(* (Excluded), and that nobody holds a job that was never created (Known). *)
(* RepeatInv accounts for every start: a one-time job that may start once  *)
(* more (Startable) has a start in hand, and faults alone give one back    *)
(* (Paid).                                                                 *)
(*                                                                         *)
(* ClaimsExclude and StartsArePaid hold under two hypotheses that name     *)
(* their own limits, NobodyEdits and OneRunEach: where they fail, a job    *)
(* can run twice without any lapse.  BlocksStand needs neither.            *)
(***************************************************************************)
EXTENDS Scheduler, TLAPS

\* A row whose lease and claim agree.
Sound(r) == r \in Row /\ (r.claim = Nobody <=> r.lease = "none")

\* The steps that hold claims, and what each step has read before it.
Claiming == {"claim", "queue", "run", "record", "release"}
Steady(x) ==
  /\ queue[x] # {} => pc[x] \in Claiming
  /\ Beating(x) \/ pc[x] = "edit" => job[x] \in Jobs /\ Sound(copy[x])
  /\ Beating(x) => job[x] \notin queue[x]
  /\ pc[x] = "unblock" => job[x] \in Jobs
  /\ pc[x] = "record" => outcome[x] # "none"

TypeInv == TypeOK /\ \A x \in Callers : Steady(x)

\* A row is only as good as its last writer: an edit writes back the claim that it
\* read, and two runs in one process share a claim.  Exclusion is what remains
\* when neither happens.
NobodyEdits == \A x \in Callers : Role[x] \cap {"update", "pause", "resume"} = {}
OneRunEach  == \A x, y \in Callers : Owner[x] = Owner[y] => x = y

\* The jobs a caller has claimed and has neither written back nor given up.
Holds(x, j) == j \in queue[x] \/ Runs(x, j)

\* An identifier is used once: a job that was removed under whoever holds or edits
\* it is not created again.
Edits(x, j) == pc[x] = "edit" /\ job[x] = j
Known == \A j \in Jobs : Exists(j) \/ (\E x \in Callers : Holds(x, j) \/ Edits(x, j)) => j \in created

\* A job that is held is claimed under a live lease, and the row its holder will
\* write back is blocked if the one in the table is.
Claimed ==
  \A x \in Callers, j \in Jobs : Holds(x, j) /\ Exists(j) =>
    /\ row[j].claim = Owner[x] /\ row[j].lease = "live"
    /\ Runs(x, j) /\ row[j].blocked => copy[x].blocked

Excluded == \A x, y \in Callers, j \in Jobs : Holds(x, j) /\ Holds(y, j) => x = y

ClaimInv ==
  /\ TypeInv
  /\ \A x \in Callers : pc[x] # "edit"
  /\ Known
  /\ lapses = 0 => Claimed /\ Excluded

\* A one-shot row that the schedule may start, and whether the job will have one:
\* while it runs, the row that counts is the one its run writes back, and a run
\* of the schedule writes back a disabled one.
Armed(r) == Kind[r.def] = "at" /\ r.enabled
Startable(j) ==
  \/ Exists(j) /\ Armed(row[j]) /\ \A x \in Callers : ~Runs(x, j)
  \/ \E x \in Callers : Runs(x, j) /\ manual[x] /\ Armed(copy[x])

\* What the schedule has started is paid for, and so is the start to come.
Paid(j) ==
  /\ starts[j] <= 1 + faults
  /\ Startable(j) => starts[j] <= faults
  /\ j \notin created => starts[j] = 0
  /\ \A x \in Callers : j \in queue[x] /\ ~manual[x] /\ Exists(j) => row[j].enabled

RepeatInv == lapses = 0 => \A j \in Jobs : Paid(j)

-----------------------------------------------------------------------------
\* Facts about rows.

LEMMA ChangedRow ==
  ASSUME NEW r, Sound(r)
  PROVE  /\ \A n \in {"none", "later", "due"} :
              /\ Sound([r EXCEPT !.next = n])
              /\ \A e \in BOOLEAN : Sound([r EXCEPT !.enabled = e, !.next = n])
              /\ \A d \in Defs : Sound([r EXCEPT !.def = d, !.next = n])
         /\ \A b \in BOOLEAN : Sound([r EXCEPT !.blocked = b])
BY DEF Sound, Row

LEMMA ExpiredRow ==
  ASSUME NEW r, Sound(r), r.lease = "live"
  PROVE  Sound([r EXCEPT !.lease = "expired"])
BY DEF Sound, Row

LEMMA ClaimedRow ==
  ASSUME NEW r, Sound(r)
  PROVE  /\ Sound(Unclaimed(r))
         /\ \A x \in Callers : Sound(ClaimedBy(r, Owner[x]))
BY SortsAssumption DEF Sound, Row, Unclaimed, ClaimedBy, Owners

LEMMA DisownedRow ==
  ASSUME NEW r, Sound(r), NEW w \in Owners
  PROVE  Sound(Disowned(r, w))
BY SortsAssumption DEF Sound, Row, Disowned, Owners

LEMMA NextOf ==
  ASSUME NEW d
  PROVE  NextRun(d) \in {"none", "later", "due"}
BY DEF NextRun

LEMMA FreshRow ==
  ASSUME NEW d \in Defs
  PROVE  Sound(NewRow(d)) 
BY NextOf, SortsAssumption DEF NewRow, Sound, Row

LEMMA BlockedRow ==
  ASSUME NEW r, Sound(r), NEW s
  PROVE  Sound(Blocking(r, s))
<1> DEFINE b == (s = "blocked") \/ (s = "error" /\ r.blocked)
<1>1. b \in BOOLEAN
  OBVIOUS
<1>2. Blocking(r, s) = [r EXCEPT !.blocked = b]
  BY DEF Blocking
<1> HIDE DEF b
<1> QED
  BY <1>1, <1>2, ChangedRow

LEMMA FinishedRow ==
  ASSUME NEW x \in Callers, Sound(copy[x]), NEW r \in Finished(x)
  PROVE  Sound(r)
<1> DEFINE q == Unclaimed(Blocking(copy[x], outcome[x]))
<1>1. Sound(q)
  BY BlockedRow, ClaimedRow
<1>2. CASE manual[x]
  BY <1>1, <1>2 DEF Finished
<1>3. CASE ~manual[x]
  <2> HIDE DEF q
  <2>1. r \in Schedule(q)
    BY <1>3 DEF Finished, q
  <2>2. Kind[q.def] \in Kinds /\ q.def \in Defs
    BY <1>1, SortsAssumption DEF Sound, Row
  <2>3. r \in {[q EXCEPT !.enabled = FALSE, !.next = "none"], [q EXCEPT !.next = "later"]}
    BY <2>1, <2>2 DEF Schedule, Kinds
  <2> QED
    BY ZenonT(60), <1>1, <2>2, <2>3, ChangedRow
<1> QED
  BY <1>2, <1>3

-----------------------------------------------------------------------------
\* The types and what each step has read are inductive.

LEMMA TypeInit == Init => TypeInv
<1> SUFFICES ASSUME Init PROVE TypeInv
  OBVIOUS
<1>1. \A j \in Jobs : row[j] = NoRow \/ Sound(row[j])
  BY FreshRow, SortsAssumption DEF Init
<1>2. TypeOK
  BY <1>1, FreshRow, SortsAssumption, BoundsAssumption DEF Init, TypeOK, Sound, Exists
<1> QED
  BY <1>2 DEF Init, TypeInv, Steady, Beating

\* A step of one caller that leaves the others alone.
LEMMA OthersSteady ==
  ASSUME TypeInv, NEW x \in Callers, Steady(x)',
         \A y \in Callers : y # x =>
           /\ pc'[y] = pc[y] /\ job'[y] = job[y] /\ copy'[y] = copy[y]
           /\ queue'[y] = queue[y] /\ outcome'[y] = outcome[y]
  PROVE  \A y \in Callers : Steady(y)'
BY DEF TypeInv, Steady, Beating

\* A new row of one job.
LEMMA RowsTyped ==
  ASSUME TypeOK, NEW j \in Jobs, NEW r, r = NoRow \/ Sound(r), row' = [row EXCEPT ![j] = r]
  PROVE  /\ row' \in [Jobs -> Row \cup {NoRow}]
         /\ \A k \in Jobs : Exists(k)' => (row'[k].claim = Nobody <=> row'[k].lease = "none")
BY DEF TypeOK, Sound, Exists

LEMMA ExistingRow ==
  ASSUME TypeOK, NEW j \in Jobs, Exists(j)
  PROVE  Sound(row[j])
BY DEF TypeOK, Sound, Exists

\* Every step of a caller keeps the types, and what its next step relies on.
LEMMA CallerKeepsType ==
  ASSUME TypeInv, NEW x \in Callers, RunDue(x) \/ Continue(x) \/ Fail(x) \/ Heartbeat(x)
  PROVE  TypeInv'
<1> USE BoundsAssumption DEF table, local, budgets
<1> DEFINE Frame(v) == \A y \in Callers : y # x => v'[y] = v[y]
<1>t. TypeOK /\ Steady(x)
  BY DEF TypeInv
<1>s. SUFFICES TypeOK' /\ (Steady(x))' /\ Frame(pc) /\ Frame(job) /\ Frame(copy) /\ Frame(queue) /\ Frame(outcome)
  BY OthersSteady DEF TypeInv
<1>1. CASE RunDue(x)
  BY <1>t, <1>1 DEF RunDue, TypeOK, Exists, May, Steady, Beating, Claiming
<1>2. CASE ClaimDue(x)
  <2>1. PICK j \in todo[x] :
          /\ todo' = [todo EXCEPT ![x] = @ \ {j}]
          /\ \/ Due(j) /\ Free(j)
                /\ row' = [row EXCEPT ![j] = ClaimedBy(@, Owner[x])]
                /\ queue' = [queue EXCEPT ![x] = @ \cup {j}]
             \/ ~(Due(j) /\ Free(j)) /\ UNCHANGED <<row, queue>>
    BY <1>2 DEF ClaimDue
  <2>2. j \in Jobs
    BY <1>t DEF TypeOK
  <2>3. /\ row' \in [Jobs -> Row \cup {NoRow}]
        /\ \A k \in Jobs : Exists(k)' => (row'[k].claim = Nobody <=> row'[k].lease = "none")
    <3>1. CASE row' = [row EXCEPT ![j] = ClaimedBy(@, Owner[x])] /\ Due(j)
      <4>1. Sound(ClaimedBy(row[j], Owner[x]))
        BY <1>t, <2>2, <3>1, ExistingRow, ClaimedRow DEF Due
      <4>2. row' = [row EXCEPT ![j] = ClaimedBy(row[j], Owner[x])]
        BY <3>1
      <4> QED
        BY <1>t, <2>2, <4>1, <4>2, RowsTyped
    <3>2. CASE UNCHANGED row
      BY <1>t, <3>2 DEF TypeOK, Exists
    <3> QED
      BY <2>1, <3>1, <3>2
  <2> QED
    BY <1>t, <1>2, <2>1, <2>2, <2>3 DEF ClaimDue, TypeOK, Steady, Beating, Claiming
<1>3. CASE ClaimEnd(x)
  BY <1>t, <1>3 DEF ClaimEnd, TypeOK, Exists, Steady, Beating, Claiming
<1>4. CASE ClaimFail(x)
  BY <1>t, <1>4 DEF ClaimFail, Fault, TypeOK, Exists, Steady, Beating, Claiming
<1>5. CASE BeginRun(x)
  <2>1. PICK j \in queue[x] :
          /\ queue' = [queue EXCEPT ![x] = @ \ {j}]
          /\ \/ Exists(j)
                /\ pc' = [pc EXCEPT ![x] = "run"]
                /\ job' = [job EXCEPT ![x] = j]
                /\ copy' = [copy EXCEPT ![x] = row[j]]
                /\ starts' = IF manual[x] \/ Kind[row[j].def] # "at" THEN starts
                             ELSE [starts EXCEPT ![j] = @ + 1]
             \/ ~Exists(j) /\ UNCHANGED <<pc, job, copy, starts>>
    BY <1>5 DEF BeginRun
  <2>2. j \in Jobs
    BY <1>t DEF TypeOK
  <2>3. Exists(j) => Sound(row[j])
    BY <1>t, <2>2, ExistingRow
  <2>4. starts' \in [Jobs -> Nat]
    BY <1>t, <2>1, <2>2 DEF TypeOK
  <2>5. copy' \in [Callers -> Row \cup {NoRow}]
    BY <1>t, <2>1, <2>3 DEF TypeOK, Sound
  <2>6. /\ job' \in [Callers -> Jobs \cup {NoJob}]
        /\ pc' \in [Callers -> {"idle", "claim", "queue", "run", "record", "release", "edit", "unblock"}]
        /\ queue' \in [Callers -> SUBSET Jobs]
    BY <1>t, <2>1, <2>2 DEF TypeOK
  <2>7. TypeOK'
    BY <1>t, <1>5, <2>4, <2>5, <2>6 DEF BeginRun, TypeOK, Exists
  <2> QED
    BY <1>t, <1>5, <2>1, <2>2, <2>3, <2>7 DEF BeginRun, TypeOK, Steady, Beating, Claiming
<1>6. CASE RunsEnd(x)
  BY <1>t, <1>6 DEF RunsEnd, TypeOK, Exists, Steady, Beating, Claiming
<1>7. CASE RunBlocks(x)
  BY <1>t, <1>7 DEF RunBlocks, TypeOK, Exists, Steady, Beating, Claiming
<1>8. CASE RunEnds(x)
  BY <1>t, <1>8 DEF RunEnds, TypeOK, Exists, Steady, Beating, Claiming
<1>9. CASE SaveRun(x)
  <2>1. PICK r \in Finished(x) : row' = [row EXCEPT ![job[x]] = r]
    BY <1>9 DEF SaveRun
  <2>2. job[x] \in Jobs /\ Sound(r)
    BY <1>t, <1>9, FinishedRow DEF SaveRun, Steady, Beating
  <2>3. /\ row' \in [Jobs -> Row \cup {NoRow}]
        /\ \A k \in Jobs : Exists(k)' => (row'[k].claim = Nobody <=> row'[k].lease = "none")
    BY <1>t, <2>1, <2>2, RowsTyped
  <2> QED
    BY <1>t, <1>9, <2>3 DEF SaveRun, TypeOK, Steady, Beating, Claiming
<1>10. CASE SaveFail(x)
  BY <1>t, <1>10 DEF SaveFail, Fault, TypeOK, Exists, Steady, Beating, Claiming
<1>11. CASE Release(x)
  <2>1. job[x] \in Jobs
    BY <1>t, <1>11 DEF Release, Steady, Beating
  <2>2. /\ row' \in [Jobs -> Row \cup {NoRow}]
        /\ \A k \in Jobs : Exists(k)' => (row'[k].claim = Nobody <=> row'[k].lease = "none")
    <3>1. CASE Exists(job[x]) /\ row' = [row EXCEPT ![job[x]] = Unclaimed(row[job[x]])]
      BY <1>t, <2>1, <3>1, ExistingRow, ClaimedRow, RowsTyped
    <3>2. CASE UNCHANGED row
      BY <1>t, <3>2 DEF TypeOK, Exists
    <3> QED
      BY <1>11, <3>1, <3>2 DEF Release
  <2> QED
    BY <1>t, <1>11, <2>2 DEF Release, TypeOK, Steady, Beating, Claiming
<1>12. CASE Heartbeat(x)
  <2>1. job[x] \in Jobs /\ Exists(job[x])
    BY <1>t, <1>12 DEF Heartbeat, Steady
  <2>2. row' = [row EXCEPT ![job[x]] = ClaimedBy(row[job[x]], Owner[x])]
    BY <1>12 DEF Heartbeat
  <2>3. /\ row' \in [Jobs -> Row \cup {NoRow}]
        /\ \A k \in Jobs : Exists(k)' => (row'[k].claim = Nobody <=> row'[k].lease = "none")
    BY <1>t, <2>1, <2>2, ExistingRow, ClaimedRow, RowsTyped
  <2> QED
    BY <1>t, <1>12, <2>3 DEF Heartbeat, TypeOK, Steady, Beating
<1>13. CASE SaveEdit(x)
  <2>1. job[x] \in Jobs /\ Sound(copy[x])
    BY <1>t, <1>13 DEF SaveEdit, Steady
  <2>2. /\ row' \in [Jobs -> Row \cup {NoRow}]
        /\ \A k \in Jobs : Exists(k)' => (row'[k].claim = Nobody <=> row'[k].lease = "none")
    BY <1>t, <1>13, <2>1, RowsTyped DEF SaveEdit
  <2> QED
    BY <1>t, <1>13, <2>2 DEF SaveEdit, Idle, TypeOK, Steady, Beating, Claiming
<1>14. CASE Unblock(x)
  <2>1. job[x] \in Jobs
    BY <1>t, <1>14 DEF Unblock, Steady
  <2>2. /\ row' \in [Jobs -> Row \cup {NoRow}]
        /\ \A k \in Jobs : Exists(k)' => (row'[k].claim = Nobody <=> row'[k].lease = "none")
    <3>1. CASE Exists(job[x]) /\ row' = [row EXCEPT ![job[x]] = [row[job[x]] EXCEPT !.blocked = FALSE]]
      BY <1>t, <2>1, <3>1, ExistingRow, ChangedRow, RowsTyped
    <3>2. CASE UNCHANGED row
      BY <1>t, <3>2 DEF TypeOK, Exists
    <3> QED
      BY <1>14, <3>1, <3>2 DEF Unblock
  <2> QED
    BY <1>t, <1>14, <2>2 DEF Unblock, Idle, TypeOK, Steady, Beating, Claiming
<1> QED
  BY <1>1, <1>2, <1>3, <1>4, <1>5, <1>6, <1>7, <1>8, <1>9, <1>10, <1>11, <1>12, <1>13, <1>14
     DEF Continue, Fail

\* A call that edits, creates, removes or approves a job, or claims it by hand.
LEMMA CallKeepsType ==
  ASSUME TypeInv, NEW x \in Callers, NEW j \in Jobs, Call(x, j)
  PROVE  TypeInv'
<1> USE BoundsAssumption DEF table, local, budgets
<1> DEFINE Frame(v) == \A y \in Callers : y # x => v'[y] = v[y]
           RowsOK == /\ row' \in [Jobs -> Row \cup {NoRow}]
                     /\ \A k \in Jobs : Exists(k)' => (row'[k].claim = Nobody <=> row'[k].lease = "none")
<1>t. TypeOK /\ Steady(x)
  BY DEF TypeInv
<1>s. SUFFICES TypeOK' /\ (Steady(x))' /\ Frame(pc) /\ Frame(job) /\ Frame(copy) /\ Frame(queue) /\ Frame(outcome)
  BY OthersSteady DEF TypeInv
<1>e. ASSUME NEW r, Read(x, j, r), Sound(r), pc[x] = "idle"
      PROVE  TypeOK' /\ (Steady(x))' /\ Frame(pc) /\ Frame(job) /\ Frame(copy) /\ Frame(queue) /\ Frame(outcome)
  <2>1. r \in Row
    BY <1>e DEF Sound
  <2>2. TypeOK'
    BY <1>t, <1>e, <2>1 DEF Read, TypeOK, Exists
  <2> QED
    BY <1>t, <1>e, <2>2 DEF Read, TypeOK, Steady, Beating, Claiming
<1>1. CASE RunNow(x, j)
  <2>1. RowsOK
    BY <1>t, <1>1, ExistingRow, ClaimedRow, RowsTyped DEF RunNow
  <2> HIDE DEF RowsOK
  <2>2. TypeOK'
    BY <1>t, <1>1, <2>1 DEF RunNow, TypeOK, RowsOK
  <2> QED
    BY <1>t, <1>1, <2>2 DEF RunNow, May, TypeOK, Steady, Beating, Claiming
<1>2. CASE Update(x, j)
  <2>1. PICK d \in Defs : Read(x, j, [row[j] EXCEPT !.def = d, !.next = NextRun(d)])
    BY <1>2 DEF Update
  <2>2. Sound([row[j] EXCEPT !.def = d, !.next = NextRun(d)])
    BY <1>t, <1>2, ExistingRow, ChangedRow, NextOf DEF Update
  <2> QED
    BY <1>e, <1>2, <2>1, <2>2 DEF Update, May
<1>3. CASE Pause(x, j)
  <2>1. Sound([row[j] EXCEPT !.enabled = FALSE, !.next = "none"])
    BY <1>t, <1>3, ExistingRow, ChangedRow DEF Pause
  <2> QED
    BY <1>e, <1>3, <2>1 DEF Pause, May
<1>4. CASE Resume(x, j)
  <2>1. Sound([row[j] EXCEPT !.enabled = TRUE, !.next = NextRun(row[j].def)])
    BY <1>t, <1>4, ExistingRow, ChangedRow, NextOf DEF Resume
  <2> QED
    BY <1>e, <1>4, <2>1 DEF Resume, May
<1>5. CASE Create(x, j)
  <2>1. RowsOK
    BY <1>t, <1>5, FreshRow, RowsTyped DEF Create
  <2> HIDE DEF RowsOK
  <2> QED
    BY <1>t, <1>5, <2>1 DEF Create, TypeOK, RowsOK, Steady, Beating
<1>6. CASE Remove(x, j)
  <2>1. RowsOK
    BY <1>t, <1>6, RowsTyped DEF Remove
  <2> HIDE DEF RowsOK
  <2> QED
    BY <1>t, <1>6, <2>1 DEF Remove, TypeOK, RowsOK, Steady, Beating
<1>7. CASE Approve(x, j)
  <2>1. pending' \in [Jobs -> 0..MaxWorks]
    BY <1>t, <1>7 DEF Approve, TypeOK
  <2> QED
    BY <1>t, <1>7, <2>1 DEF Approve, May, TypeOK, Exists, Steady, Beating, Claiming
<1> QED
  BY <1>1, <1>2, <1>3, <1>4, <1>5, <1>6, <1>7 DEF Call

\* Time passes, a lease runs out, a process dies.
LEMMA OutsideKeepsType ==
  ASSUME TypeInv, (\E j \in Jobs : Elapse(j) \/ Expire(j)) \/ (\E w \in Owners : Crash(w))
  PROVE  TypeInv'
<1> USE BoundsAssumption DEF table, local, budgets
<1> DEFINE RowsOK == /\ row' \in [Jobs -> Row \cup {NoRow}]
                     /\ \A k \in Jobs : Exists(k)' => (row'[k].claim = Nobody <=> row'[k].lease = "none")
<1>t. TypeOK /\ \A x \in Callers : Steady(x)
  BY DEF TypeInv
<1>1. ASSUME NEW j \in Jobs, Elapse(j) PROVE TypeInv'
  <2>1. row' = [row EXCEPT ![j] = [row[j] EXCEPT !.next = "due"]]
    BY <1>1 DEF Elapse
  <2>2. RowsOK
    BY <1>t, <1>1, <2>1, ExistingRow, ChangedRow, RowsTyped DEF Elapse
  <2>3. passed' \subseteq Defs
    BY <1>t, <1>1 DEF Elapse, TypeOK, Exists, Row
  <2> HIDE DEF RowsOK
  <2> QED
    BY <1>t, <1>1, <2>2, <2>3 DEF Elapse, TypeInv, TypeOK, RowsOK, Steady, Beating
<1>2. ASSUME NEW j \in Jobs, Expire(j) PROVE TypeInv'
  <2>1. row' = [row EXCEPT ![j] = [row[j] EXCEPT !.lease = "expired"]]
    BY <1>2 DEF Expire
  <2>2. RowsOK
    BY <1>t, <1>2, <2>1, ExistingRow, ExpiredRow, RowsTyped DEF Expire
  <2>3. lapses' \in 0..MaxLapses
    BY <1>t, <1>2 DEF Expire, TypeOK
  <2> HIDE DEF RowsOK
  <2> QED
    BY <1>t, <1>2, <2>2, <2>3 DEF Expire, TypeInv, TypeOK, RowsOK, Steady, Beating
<1>3. ASSUME NEW w \in Owners, Crash(w) PROVE TypeInv'
  <2> DEFINE dead == {x \in Callers : Owner[x] = w}
  <2>1. ASSUME NEW r, r = NoRow \/ Sound(r)
        PROVE  Disowned(r, w) = NoRow \/ Sound(Disowned(r, w))
    BY <2>1, DisownedRow DEF Disowned
  <2>2. RowsOK
    <3>1. row' = [j \in Jobs |-> Disowned(row[j], w)]
      BY <1>3 DEF Crash
    <3>2. \A j \in Jobs : row'[j] = NoRow \/ Sound(row'[j])
      BY <1>t, <2>1, <3>1, ExistingRow DEF Exists
    <3> QED
      BY <3>1, <3>2 DEF Sound, Exists
  <2> HIDE DEF RowsOK
  <2>3. /\ pc' = [x \in Callers |-> IF x \in dead THEN "idle" ELSE pc[x]]
        /\ job' = [x \in Callers |-> IF x \in dead THEN NoJob ELSE job[x]]
        /\ copy' = [x \in Callers |-> IF x \in dead THEN NoRow ELSE Disowned(copy[x], w)]
        /\ outcome' = [x \in Callers |-> IF x \in dead THEN "none" ELSE outcome[x]]
        /\ todo' = [x \in Callers |-> IF x \in dead THEN {} ELSE todo[x]]
        /\ queue' = [x \in Callers |-> IF x \in dead THEN {} ELSE queue[x]]
        /\ manual' = [x \in Callers |-> IF x \in dead THEN FALSE ELSE manual[x]]
        /\ faults' \in 0..MaxFaults
        /\ UNCHANGED <<pending, passed, created, starts, lapses>>
    BY <1>t, <1>3 DEF Crash, Fault, TypeOK
  <2>4. copy' \in [Callers -> Row \cup {NoRow}]
    <3>1. ASSUME NEW r \in Row PROVE Disowned(r, w) \in Row
      BY <3>1 DEF Disowned, Row
    <3>2. Disowned(NoRow, w) = NoRow
      BY DEF Disowned
    <3> QED
      BY <1>t, <2>3, <3>1, <3>2 DEF TypeOK
  <2>5. TypeOK'
    BY <1>t, <2>2, <2>3, <2>4 DEF TypeOK, RowsOK
  <2>6. ASSUME NEW x \in Callers PROVE Steady(x)'
    <3>1. CASE x \in dead
      BY <2>3, <3>1 DEF Steady, Beating
    <3>2. CASE x \notin dead
      <4>1. Sound(copy[x]) => Sound(copy'[x])
        BY <2>3, <3>2, DisownedRow
      <4> QED
        BY <1>t, <2>3, <3>2, <4>1 DEF Steady, Beating
    <3> QED
      BY <3>1, <3>2
  <2> QED
    BY <2>5, <2>6 DEF TypeInv
<1> QED
  BY <1>1, <1>2, <1>3

LEMMA TypeStep == TypeInv /\ [Next]_vars => TypeInv'
<1> SUFFICES ASSUME TypeInv, [Next]_vars PROVE TypeInv'
  OBVIOUS
<1>1. CASE Next
  BY <1>1, CallerKeepsType, CallKeepsType, OutsideKeepsType DEF Next
<1>2. CASE UNCHANGED vars
  BY <1>2 DEF vars, table, local, budgets, TypeInv, TypeOK, Exists, Steady, Beating
<1> QED
  BY <1>1, <1>2

LEMMA TypeInvariant == Spec => []TypeInv
BY TypeInit, TypeStep, PTL DEF Spec

\* Rows, claims and what the callers remember keep their types, and a row has
\* a lease exactly when it is claimed, whatever calls overlap or die.
THEOREM TypeCorrect == Spec => []TypeOK
<1>1. TypeInv => TypeOK
  BY DEF TypeInv
<1> QED
  BY <1>1, TypeInvariant, PTL

-----------------------------------------------------------------------------
\* A live claim excludes.

LEMMA ClaimInit == Init => ClaimInv
BY TypeInit DEF Init, ClaimInv, Known, Claimed, Excluded, Holds, Edits, Runs, Exists

\* Nothing is claimed anew, and no row that is held changes hands.
LEMMA HoldersStand ==
  ASSUME ClaimInv, lapses = 0,
         \A x \in Callers, j \in Jobs : Holds(x, j)' =>
           /\ Holds(x, j)
           /\ Exists(j)' => /\ Exists(j)
                            /\ row'[j].claim = row[j].claim /\ row'[j].lease = row[j].lease
                            /\ row'[j].blocked => row[j].blocked
           /\ Runs(x, j)' => Runs(x, j) /\ copy'[x] = copy[x]
  PROVE  Claimed' /\ Excluded'
BY DEF ClaimInv, Claimed, Excluded

\* The same of one caller: it is the one that moves.
LEMMA MoverStands ==
  ASSUME ClaimInv, lapses = 0, NEW x \in Callers,
         \A y \in Callers : y # x =>
           pc'[y] = pc[y] /\ job'[y] = job[y] /\ copy'[y] = copy[y] /\ queue'[y] = queue[y],
         \A j \in Jobs : Holds(x, j)' =>
           Holds(x, j) /\ (Runs(x, j)' => Runs(x, j) /\ copy'[x] = copy[x]),
         \A y \in Callers, j \in Jobs : Holds(y, j) /\ Holds(y, j)' /\ Exists(j)' =>
           /\ Exists(j)
           /\ row'[j].claim = row[j].claim /\ row'[j].lease = row[j].lease
           /\ row'[j].blocked => row[j].blocked
  PROVE  Claimed' /\ Excluded'
<1>1. \A y \in Callers, j \in Jobs : y # x =>
        (Holds(y, j)' <=> Holds(y, j)) /\ (Runs(y, j)' <=> Runs(y, j)) /\ copy'[y] = copy[y]
  BY DEF Holds, Runs
<1> QED
  BY <1>1, HoldersStand

LEMMA CallerKeepsClaims ==
  ASSUME ClaimInv, lapses = 0, OneRunEach, NEW x \in Callers,
         RunDue(x) \/ Continue(x) \/ Fail(x) \/ Heartbeat(x)
  PROVE  Claimed' /\ Excluded'
<1> USE DEF table, local, budgets
<1>t. TypeOK /\ Steady(x) /\ Claimed /\ Excluded /\ pc[x] # "edit"
  BY DEF ClaimInv, TypeInv
<1>1. CASE RunDue(x)
  BY <1>t, <1>1, MoverStands DEF RunDue, May, TypeOK, Holds, Runs, Exists
<1>2. CASE ClaimDue(x)
  <2>1. PICK j \in todo[x] :
          \/ Due(j) /\ Free(j)
             /\ row' = [row EXCEPT ![j] = ClaimedBy(@, Owner[x])]
             /\ queue' = [queue EXCEPT ![x] = @ \cup {j}]
          \/ UNCHANGED <<row, queue>>
    BY <1>2 DEF ClaimDue
  <2>2. j \in Jobs
    BY <1>t DEF TypeOK
  <2>3. CASE UNCHANGED <<row, queue>>
    BY <1>t, <1>2, <2>3, MoverStands DEF ClaimDue, TypeOK, Holds, Runs, Exists
  <2>4. CASE /\ Due(j) /\ Free(j)
             /\ row' = [row EXCEPT ![j] = ClaimedBy(@, Owner[x])]
             /\ queue' = [queue EXCEPT ![x] = @ \cup {j}]
    <3>1. \A y \in Callers : ~Holds(y, j)
      BY <1>t, <2>2, <2>4, SortsAssumption DEF Claimed, Due, Free
    <3>2. \A y \in Callers, k \in Jobs : Runs(y, k)' <=> Runs(y, k)
      BY <1>2 DEF ClaimDue, Runs
    <3>3. \A y \in Callers, k \in Jobs : Holds(y, k)' <=> Holds(y, k) \/ (y = x /\ k = j)
      BY <1>t, <2>4, <3>2 DEF TypeOK, Holds
    <3>4. Excluded'
      BY <1>t, <3>1, <3>3 DEF Excluded
    <3>5. \A k \in Jobs : k # j => row'[k] = row[k] /\ (Exists(k)' <=> Exists(k))
      BY <1>t, <2>4 DEF TypeOK, Exists
    <3>6. row'[j].claim = Owner[x] /\ row'[j].lease = "live"
      BY <1>t, <2>2, <2>4, ExistingRow DEF TypeOK, Due, ClaimedBy, Sound, Row
    <3>7. ASSUME NEW y \in Callers, NEW k \in Jobs, Holds(y, k)', Exists(k)'
          PROVE  /\ row'[k].claim = Owner[y] /\ row'[k].lease = "live"
                 /\ Runs(y, k)' /\ row'[k].blocked => copy'[y].blocked
      <4>1. CASE k = j
        BY <3>1, <3>2, <3>3, <3>6, <3>7, <4>1 DEF Holds
      <4>2. CASE k # j
        <5>1. copy' = copy
          BY <1>2 DEF ClaimDue
        <5> QED
          BY <1>t, <3>2, <3>3, <3>5, <3>7, <4>2, <5>1 DEF Claimed
      <4> QED
        BY <4>1, <4>2
    <3> QED
      BY <3>4, <3>7 DEF Claimed
  <2> QED
    BY <2>1, <2>3, <2>4
<1>3. CASE ClaimEnd(x)
  BY <1>t, <1>3, MoverStands DEF ClaimEnd, TypeOK, Holds, Runs, Exists
<1>4. CASE ClaimFail(x)
  BY <1>t, <1>4, MoverStands DEF ClaimFail, TypeOK, Holds, Runs, Exists
<1>5. CASE BeginRun(x)
  <2>1. PICK j \in queue[x] :
          /\ queue' = [queue EXCEPT ![x] = @ \ {j}]
          /\ \/ Exists(j)
                /\ pc' = [pc EXCEPT ![x] = "run"]
                /\ job' = [job EXCEPT ![x] = j]
                /\ copy' = [copy EXCEPT ![x] = row[j]]
             \/ ~Exists(j) /\ UNCHANGED <<pc, job, copy>>
    BY <1>5 DEF BeginRun
  <2>2. j \in Jobs /\ row' = row /\ pc[x] = "queue"
    BY <1>t, <1>5 DEF TypeOK, BeginRun
  <2>3. CASE ~Exists(j) /\ UNCHANGED <<pc, job, copy>>
    BY <1>t, <2>1, <2>2, <2>3, MoverStands DEF TypeOK, Holds, Runs, Exists
  <2>4. CASE /\ Exists(j)
             /\ pc' = [pc EXCEPT ![x] = "run"]
             /\ job' = [job EXCEPT ![x] = j]
             /\ copy' = [copy EXCEPT ![x] = row[j]]
    <3>1. \A y \in Callers, k \in Jobs : Holds(y, k)' => Holds(y, k)
      BY <1>t, <2>1, <2>2, <2>4 DEF TypeOK, Holds, Runs
    <3>2. \A y \in Callers, k \in Jobs :
            Runs(y, k)' => (Runs(y, k) /\ copy'[y] = copy[y]) \/ copy'[y] = row[k]
      BY <1>t, <2>4 DEF TypeOK, Runs
    <3> QED
      BY <1>t, <2>2, <3>1, <3>2 DEF Claimed, Excluded, Exists
  <2> QED
    BY <2>1, <2>3, <2>4
<1>6. CASE RunsEnd(x)
  BY <1>t, <1>6, MoverStands DEF RunsEnd, TypeOK, Holds, Runs, Exists
<1>7. CASE RunBlocks(x)
  BY <1>t, <1>7, MoverStands DEF RunBlocks, TypeOK, Holds, Runs, Exists
<1>8. CASE RunEnds(x)
  BY <1>t, <1>8, MoverStands DEF RunEnds, TypeOK, Holds, Runs, Exists
<1>9. CASE SaveRun(x)
  <2>1. PICK r \in Finished(x) : row' = [row EXCEPT ![job[x]] = r]
    BY <1>9 DEF SaveRun
  <2>2. Runs(x, job[x]) /\ job[x] \in Jobs /\ job[x] \notin queue[x]
    BY <1>t, <1>9 DEF SaveRun, Steady, Beating, Runs
  <2>3. \A y \in Callers : Holds(y, job[x]) => y = x
    BY <1>t, <2>2 DEF Excluded, Holds
  <2>4. \A k \in Jobs : k = job[x] => ~Holds(x, k)'
    BY <1>t, <1>9, <2>2 DEF SaveRun, TypeOK, Holds, Runs
  <2>5. \A k \in Jobs : k # job[x] => row'[k] = row[k]
    BY <1>t, <2>1 DEF TypeOK
  <2>6. \A k \in Jobs : Holds(x, k)' => Holds(x, k) /\ ~Runs(x, k)'
    BY <1>t, <1>9 DEF SaveRun, TypeOK, Holds, Runs
  <2>7. \A y \in Callers : y # x =>
          pc'[y] = pc[y] /\ job'[y] = job[y] /\ copy'[y] = copy[y] /\ queue'[y] = queue[y]
    BY <1>9 DEF SaveRun
  <2>8. \A y \in Callers, k \in Jobs : Holds(y, k) /\ Holds(y, k)' => row'[k] = row[k]
    BY <2>3, <2>4, <2>5
  <2> QED
    BY <2>6, <2>7, <2>8, MoverStands DEF Exists
<1>10. CASE SaveFail(x)
  BY <1>t, <1>10, MoverStands DEF SaveFail, TypeOK, Holds, Runs, Exists
<1>11. CASE Release(x)
  <2>1. job[x] \in Jobs /\ job[x] \notin queue[x]
    BY <1>t, <1>11 DEF Release, Steady, Beating
  <2>2. \A k \in Jobs : ~Runs(x, k) /\ ~Runs(x, k)'
    BY <1>t, <1>11 DEF Release, TypeOK, Runs
  <2>3. \A y \in Callers, k \in Jobs : Holds(y, k) => row'[k] = row[k]
    BY <1>t, <1>11, <2>1, <2>2 DEF Release, TypeOK, Claimed, Holds, OneRunEach
  <2>4. \A k \in Jobs : Holds(x, k)' => Holds(x, k)
    BY <1>11, <2>2 DEF Release, Holds
  <2>5. \A y \in Callers : y # x =>
          pc'[y] = pc[y] /\ job'[y] = job[y] /\ copy'[y] = copy[y] /\ queue'[y] = queue[y]
    BY <1>11 DEF Release
  <2> QED
    BY <2>2, <2>3, <2>4, <2>5, MoverStands DEF Exists
<1>12. CASE Heartbeat(x)
  <2>1. \A y \in Callers, k \in Jobs : Holds(y, k) /\ Exists(k) => row[k].lease # "expired"
    BY <1>t DEF Claimed
  <2>2. \A y \in Callers, k \in Jobs : Holds(y, k) => row'[k] = row[k]
    BY <1>t, <1>12, <2>1 DEF Heartbeat, TypeOK, Exists
  <2> QED
    BY <1>12, <2>2, MoverStands DEF Heartbeat, Holds, Runs, Exists
<1>13. CASE SaveEdit(x)
  BY <1>t, <1>13 DEF SaveEdit
<1>14. CASE Unblock(x)
  <2>1. job[x] \in Jobs
    BY <1>t, <1>14 DEF Unblock, Steady
  <2>2. \A k \in Jobs : Exists(k)' => Exists(k)
    BY <1>t, <1>14, <2>1 DEF Unblock, TypeOK, Exists
  <2>3. \A k \in Jobs : Exists(k) => /\ row'[k].claim = row[k].claim /\ row'[k].lease = row[k].lease
                                     /\ row'[k].blocked => row[k].blocked
    BY <1>t, <1>14, <2>1, ExistingRow DEF Unblock, TypeOK, Sound, Row
  <2>4. \A y \in Callers : y # x =>
          pc'[y] = pc[y] /\ job'[y] = job[y] /\ copy'[y] = copy[y] /\ queue'[y] = queue[y]
    BY <1>14 DEF Unblock, Idle
  <2>5. \A k \in Jobs : Holds(x, k)' => Holds(x, k) /\ ~Runs(x, k)'
    BY <1>t, <1>14 DEF Unblock, Idle, TypeOK, Holds, Runs
  <2> QED
    BY <2>2, <2>3, <2>4, <2>5, MoverStands
<1> QED
  BY <1>1, <1>2, <1>3, <1>4, <1>5, <1>6, <1>7, <1>8, <1>9, <1>10, <1>11, <1>12, <1>13, <1>14
     DEF Continue, Fail

LEMMA CallKeepsClaims ==
  ASSUME ClaimInv, lapses = 0, OneRunEach, NobodyEdits, NEW x \in Callers, NEW j \in Jobs, Call(x, j)
  PROVE  Claimed' /\ Excluded'
<1> USE DEF table, local, budgets
<1>t. TypeOK /\ Steady(x) /\ Claimed /\ Excluded /\ Known
  BY DEF ClaimInv, TypeInv
<1>1. CASE RunNow(x, j)
  <2>0. pc[x] = "idle" /\ queue[x] = {} /\ Exists(j)
    BY <1>t, <1>1 DEF RunNow, May, Steady, Claiming
  <2>1. \A y \in Callers : ~Holds(y, j)
    BY <1>t, <1>1, <2>0, SortsAssumption DEF RunNow, Claimed, Free, OneRunEach, Holds, Runs
  <2>2. \A y \in Callers, k \in Jobs : Runs(y, k)' <=> Runs(y, k)
    BY <1>t, <1>1, <2>0 DEF RunNow, TypeOK, Runs
  <2>3. \A y \in Callers, k \in Jobs : Holds(y, k)' <=> Holds(y, k) \/ (y = x /\ k = j)
    BY <1>t, <1>1, <2>0, <2>2 DEF RunNow, TypeOK, Holds
  <2>4. Excluded'
    BY <1>t, <2>1, <2>3 DEF Excluded
  <2>5. \A k \in Jobs : k # j => row'[k] = row[k] /\ (Exists(k)' <=> Exists(k))
    BY <1>t, <1>1 DEF RunNow, TypeOK, Exists
  <2>6. row'[j].claim = Owner[x] /\ row'[j].lease = "live"
    BY <1>t, <1>1, <2>0, ExistingRow DEF RunNow, TypeOK, ClaimedBy, Sound, Row
  <2>7. ASSUME NEW y \in Callers, NEW k \in Jobs, Holds(y, k)', Exists(k)'
        PROVE  /\ row'[k].claim = Owner[y] /\ row'[k].lease = "live"
               /\ Runs(y, k)' /\ row'[k].blocked => copy'[y].blocked
    <3>1. CASE k = j
      BY <2>1, <2>2, <2>3, <2>6, <2>7, <3>1 DEF Holds
    <3>2. CASE k # j
      <4>1. copy' = copy
        BY <1>1 DEF RunNow
      <4> QED
        BY <1>t, <2>2, <2>3, <2>5, <2>7, <3>2, <4>1 DEF Claimed
    <3> QED
      BY <3>1, <3>2
  <2> QED
    BY <2>4, <2>7 DEF Claimed
<1>2. CASE Update(x, j) \/ Pause(x, j) \/ Resume(x, j)
  BY <1>2 DEF Update, Pause, Resume, May, NobodyEdits
<1>3. CASE Create(x, j)
  <2>1. \A y \in Callers : ~Holds(y, j)
    BY <1>t, <1>3 DEF Create, Known
  <2>2. \A k \in Jobs : k # j => row'[k] = row[k]
    BY <1>t, <1>3 DEF Create, TypeOK
  <2> QED
    BY <1>3, <2>1, <2>2, HoldersStand DEF Create, Holds, Runs, Exists
<1>4. CASE Remove(x, j)
  <2>1. \A k \in Jobs : Exists(k)' => row'[k] = row[k]
    BY <1>t, <1>4 DEF Remove, TypeOK, Exists
  <2> QED
    BY <1>4, <2>1, HoldersStand DEF Remove, Holds, Runs, Exists
<1>5. CASE Approve(x, j)
  BY <1>t, <1>5, MoverStands DEF Approve, May, TypeOK, Holds, Runs, Exists
<1> QED
  BY <1>1, <1>2, <1>3, <1>4, <1>5 DEF Call

LEMMA OutsideKeepsClaims ==
  ASSUME ClaimInv, lapses' = 0,
         (\E j \in Jobs : Elapse(j) \/ Expire(j)) \/ (\E w \in Owners : Crash(w))
  PROVE  Claimed' /\ Excluded'
<1> USE DEF table, local, budgets
<1>1. ASSUME NEW j \in Jobs, Elapse(j) PROVE Claimed' /\ Excluded'
  <2>t. TypeOK /\ lapses = 0
    BY <1>1 DEF ClaimInv, TypeInv, Elapse
  <2>1. \A k \in Jobs : Exists(k)' => Exists(k)
    BY <2>t, <1>1 DEF Elapse, TypeOK, Exists
  <2>2. \A k \in Jobs : Exists(k) => /\ row'[k].claim = row[k].claim /\ row'[k].lease = row[k].lease
                                     /\ row'[k].blocked => row[k].blocked
    BY <2>t, <1>1, ExistingRow DEF Elapse, TypeOK, Sound, Row
  <2> QED
    BY <1>1, <2>t, <2>1, <2>2, HoldersStand DEF Elapse, Holds, Runs
<1>2. ASSUME NEW j \in Jobs, Expire(j) PROVE Claimed' /\ Excluded'
  <2>t. TypeOK /\ lapses = 0 /\ Claimed
    BY <1>2 DEF ClaimInv, TypeInv, TypeOK, Expire
  <2>1. ~Relied(j) /\ Exists(j)
    BY <1>2, <2>t DEF Expire
  <2>2. \A y \in Callers : ~Holds(y, j)
    BY <2>t, <2>1 DEF Relied, Claimed, Holds, Runs, Beating
  <2>3. \A k \in Jobs : k # j => row'[k] = row[k]
    BY <2>t, <1>2 DEF Expire, TypeOK
  <2> QED
    BY <1>2, <2>t, <2>2, <2>3, HoldersStand DEF Expire, Holds, Runs, Exists
<1>3. ASSUME NEW w \in Owners, Crash(w) PROVE Claimed' /\ Excluded'
  <2>t. TypeOK /\ lapses = 0 /\ Claimed
    BY <1>3 DEF ClaimInv, TypeInv, Crash, Fault
  <2>1. \A x \in Callers : IF Owner[x] = w
          THEN pc'[x] = "idle" /\ queue'[x] = {}
          ELSE pc'[x] = pc[x] /\ queue'[x] = queue[x] /\ job'[x] = job[x] /\ copy'[x] = Disowned(copy[x], w)
    BY <1>3 DEF Crash
  <2>2. \A j \in Jobs : row'[j] = Disowned(row[j], w)
    BY <1>3 DEF Crash
  <2>3. ASSUME NEW x \in Callers, NEW j \in Jobs, Holds(x, j)'
        PROVE  Holds(x, j) /\ Owner[x] # w /\ (Runs(x, j)' => Runs(x, j))
    BY <2>1, <2>3 DEF Holds, Runs
  <2>4. Excluded'
    BY <2>t, <2>3 DEF ClaimInv, Excluded
  <2>5. ASSUME NEW x \in Callers, NEW j \in Jobs, Holds(x, j)', Exists(j)'
        PROVE  /\ row'[j].claim = Owner[x] /\ row'[j].lease = "live"
               /\ Runs(x, j)' /\ row'[j].blocked => copy'[x].blocked
    <3>1. Exists(j)
      BY <2>2, <2>5 DEF Exists, Disowned
    <3>2. row'[j] = row[j] /\ row[j].claim = Owner[x] /\ row[j].lease = "live"
      BY <2>t, <2>2, <2>3, <2>5, <3>1 DEF Claimed, Disowned
    <3>3. ASSUME Runs(x, j)', row[j].blocked PROVE copy'[x].blocked
      <4>1. Runs(x, j) /\ copy[x].blocked /\ Sound(copy[x])
        BY <2>t, <2>3, <2>5, <3>1, <3>3 DEF Claimed, ClaimInv, TypeInv, Steady, Beating, Runs
      <4>2. copy'[x] = Disowned(copy[x], w)
        BY <2>1, <2>3, <2>5
      <4> QED
        BY <4>1, <4>2 DEF Disowned, Sound, Row
    <3> QED
      BY <3>2, <3>3
  <2> QED
    BY <2>4, <2>5 DEF Claimed
<1> QED
  BY <1>1, <1>2, <1>3

\* Nothing is held, edited or in the table that was not created.
LEMMA KeepsKnown ==
  ASSUME TypeInv, Known, Next
  PROVE  Known'
<1> USE DEF table, local, budgets
<1>t. TypeOK /\ Known /\ \A x \in Callers : Steady(x)
  BY DEF TypeInv
<1>s. ASSUME created \subseteq created',
             \A j \in Jobs : Exists(j)' =>
               \/ Exists(j) \/ j \in created'
               \/ \E x \in Callers : Holds(x, j) \/ Edits(x, j),
             \A x \in Callers, j \in Jobs :
               Holds(x, j)' \/ Edits(x, j)' => Holds(x, j) \/ Edits(x, j) \/ Exists(j)
      PROVE  Known'
  BY <1>t, <1>s DEF Known
<1>1. ASSUME NEW x \in Callers, RunDue(x) \/ ClaimEnd(x) \/ ClaimFail(x) \/ RunsEnd(x)
                                \/ RunBlocks(x) \/ RunEnds(x) \/ SaveFail(x)
      PROVE  Known'
  <2>1. created' = created /\ row' = row
    BY <1>1 DEF RunDue, ClaimEnd, ClaimFail, RunsEnd, RunBlocks, RunEnds, SaveFail
  <2>2. \A y \in Callers, j \in Jobs : Holds(y, j)' \/ Edits(y, j)' => Holds(y, j) \/ Edits(y, j)
    BY <1>t, <1>1 DEF RunDue, ClaimEnd, ClaimFail, RunsEnd, RunBlocks, RunEnds, SaveFail, May, TypeOK, Holds, Edits, Runs
  <2> QED
    BY <1>s, <2>1, <2>2 DEF Exists
<1>2. ASSUME NEW x \in Callers, ClaimDue(x) PROVE Known'
  <2>1. PICK j \in todo[x] :
          \/ Due(j) /\ Free(j)
             /\ row' = [row EXCEPT ![j] = ClaimedBy(@, Owner[x])]
             /\ queue' = [queue EXCEPT ![x] = @ \cup {j}]
          \/ UNCHANGED <<row, queue>>
    BY <1>2 DEF ClaimDue
  <2>2. \A k \in Jobs : Exists(k)' => Exists(k)
    BY <1>t, <2>1 DEF Due, TypeOK, Exists
  <2>3. \A y \in Callers, k \in Jobs : Holds(y, k)' \/ Edits(y, k)' =>
           Holds(y, k) \/ Edits(y, k) \/ Exists(k)
    BY <1>t, <1>2, <2>1 DEF ClaimDue, TypeOK, Due, Holds, Edits, Runs
  <2> QED
    BY <1>2, <1>s, <2>2, <2>3 DEF ClaimDue
<1>3. ASSUME NEW x \in Callers, BeginRun(x) PROVE Known'
  <2>1. row' = row /\ created' = created
    BY <1>3 DEF BeginRun
  <2>2. \A y \in Callers, k \in Jobs : Holds(y, k)' \/ Edits(y, k)' => Holds(y, k) \/ Edits(y, k)
    BY <1>t, <1>3 DEF BeginRun, TypeOK, Holds, Edits, Runs
  <2> QED
    BY <1>s, <2>1, <2>2 DEF Exists
<1>4. ASSUME NEW x \in Callers, SaveRun(x) PROVE Known'
  <2>1. PICK r \in Finished(x) : row' = [row EXCEPT ![job[x]] = r]
    BY <1>4 DEF SaveRun
  <2>2. \A k \in Jobs : Exists(k)' => Exists(k) \/ Holds(x, k)
    BY <1>t, <1>4, <2>1 DEF SaveRun, TypeOK, Exists, Holds, Edits, Runs
  <2>3. \A y \in Callers, k \in Jobs : Holds(y, k)' \/ Edits(y, k)' => Holds(y, k) \/ Edits(y, k)
    BY <1>t, <1>4 DEF SaveRun, TypeOK, Holds, Edits, Runs
  <2> QED
    BY <1>4, <1>s, <2>2, <2>3 DEF SaveRun
<1>5. ASSUME NEW x \in Callers, Release(x) \/ Heartbeat(x) \/ Unblock(x) PROVE Known'
  <2>1. \A k \in Jobs : Exists(k)' => Exists(k)
    BY <1>t, <1>5 DEF Release, Heartbeat, Unblock, TypeOK, Exists
  <2>2. \A y \in Callers, k \in Jobs : Holds(y, k)' \/ Edits(y, k)' => Holds(y, k) \/ Edits(y, k)
    BY <1>t, <1>5 DEF Release, Heartbeat, Unblock, Idle, TypeOK, Holds, Edits, Runs
  <2>3. created' = created
    BY <1>5 DEF Release, Heartbeat, Unblock
  <2> QED
    BY <1>s, <2>1, <2>2, <2>3
<1>6. ASSUME NEW x \in Callers, SaveEdit(x) PROVE Known'
  <2>1. \A k \in Jobs : Exists(k)' => Exists(k) \/ Edits(x, k)
    BY <1>t, <1>6 DEF SaveEdit, TypeOK, Exists, Edits
  <2>2. \A y \in Callers, k \in Jobs : Holds(y, k)' \/ Edits(y, k)' => Holds(y, k) \/ Edits(y, k)
    BY <1>t, <1>6 DEF SaveEdit, Idle, TypeOK, Holds, Edits, Runs
  <2>3. created' = created
    BY <1>6 DEF SaveEdit
  <2> QED
    BY <1>s, <2>1, <2>2, <2>3
<1>7. ASSUME NEW x \in Callers, NEW j \in Jobs, Call(x, j) PROVE Known'
  <2>1. created \subseteq created'
    BY <1>7 DEF Call, RunNow, Update, Pause, Resume, Read, Create, Remove, Approve
  <2>2. \A k \in Jobs : Exists(k)' => Exists(k) \/ k \in created'
    BY <1>t, <1>7 DEF Call, RunNow, Update, Pause, Resume, Read, Create, Remove, Approve, TypeOK, Exists
  <2>3. \A y \in Callers, k \in Jobs : Holds(y, k)' \/ Edits(y, k)' =>
           Holds(y, k) \/ Edits(y, k) \/ Exists(k)
    <3>1. CASE RunNow(x, j)
      BY <1>t, <3>1 DEF RunNow, TypeOK, Holds, Edits, Runs
    <3>2. CASE Exists(j) /\ \E r : Read(x, j, r)
      BY <1>t, <3>2 DEF Read, TypeOK, Holds, Edits, Runs
    <3>3. CASE Create(x, j) \/ Remove(x, j)
      BY <3>3 DEF Create, Remove, Holds, Edits, Runs
    <3>4. CASE Approve(x, j)
      BY <1>t, <3>4 DEF Approve, TypeOK, Holds, Edits, Runs
    <3> QED
      BY <1>7, <3>1, <3>2, <3>3, <3>4 DEF Call, Update, Pause, Resume
  <2> QED
    BY <1>s, <2>1, <2>2, <2>3
<1>8. ASSUME NEW j \in Jobs, Elapse(j) \/ Expire(j) PROVE Known'
  <2>1. \A k \in Jobs : Exists(k)' => Exists(k)
    BY <1>t, <1>8 DEF Elapse, Expire, TypeOK, Exists
  <2> QED
    BY <1>8, <1>s, <2>1 DEF Elapse, Expire, Holds, Edits, Runs
<1>9. ASSUME NEW w \in Owners, Crash(w) PROVE Known'
  <2>1. \A k \in Jobs : Exists(k)' => Exists(k)
    BY <1>9 DEF Crash, Disowned, Exists
  <2>2. \A y \in Callers, k \in Jobs : Holds(y, k)' \/ Edits(y, k)' => Holds(y, k) \/ Edits(y, k)
    BY <1>9 DEF Crash, Holds, Edits, Runs
  <2>3. created' = created
    BY <1>9 DEF Crash
  <2> QED
    BY <1>s, <2>1, <2>2, <2>3
<1> QED
  BY <1>1, <1>2, <1>3, <1>4, <1>5, <1>6, <1>7, <1>8, <1>9 DEF Next, Continue, Fail

LEMMA ClaimStep ==
  ASSUME NobodyEdits, OneRunEach
  PROVE  ClaimInv /\ [Next]_vars => ClaimInv'
<1> USE DEF table, local, budgets
<1> SUFFICES ASSUME ClaimInv, [Next]_vars PROVE ClaimInv'
  OBVIOUS
<1>1. CASE Next
  <2>1. TypeInv'
    BY TypeStep DEF ClaimInv
  <2>2. \A x \in Callers : pc'[x] # "edit"
    <3>t. TypeOK /\ \A x \in Callers : pc[x] # "edit"
      BY DEF ClaimInv, TypeInv
    <3>1. ASSUME NEW x \in Callers, RunDue(x) \/ Continue(x) \/ Fail(x) \/ Heartbeat(x)
          PROVE  \A y \in Callers : pc'[y] # "edit"
      BY <3>t, <3>1 DEF RunDue, Continue, Fail, Heartbeat, ClaimDue, ClaimEnd, ClaimFail, BeginRun, RunsEnd,
         RunBlocks, RunEnds, SaveRun, SaveFail, Release, SaveEdit, Unblock, Idle, TypeOK
    <3>2. ASSUME NEW x \in Callers, NEW j \in Jobs, Call(x, j)
          PROVE  \A y \in Callers : pc'[y] # "edit"
      BY <3>t, <3>2 DEF Call, RunNow, Update, Pause, Resume, Create, Remove, Approve, May, NobodyEdits, TypeOK
    <3>3. ASSUME NEW w \in Owners, Crash(w)
          PROVE  \A y \in Callers : pc'[y] # "edit"
      BY <3>t, <3>3 DEF Crash
    <3>4. ASSUME NEW j \in Jobs, Elapse(j) \/ Expire(j)
          PROVE  \A y \in Callers : pc'[y] # "edit"
      BY <3>t, <3>4 DEF Elapse, Expire
    <3> QED
      BY <1>1, <3>1, <3>2, <3>3, <3>4 DEF Next
  <2>3. Known'
    BY <1>1, KeepsKnown DEF ClaimInv
  <2>4. lapses' = 0 => Claimed' /\ Excluded'
    <3>1. lapses' = 0 => lapses = 0
      <4>1. lapses \in Nat /\ \A j \in Jobs : Expire(j) => lapses' \in {lapses, lapses + 1}
        BY BoundsAssumption DEF ClaimInv, TypeInv, TypeOK, Expire
      <4>2. lapses' = lapses \/ \E j \in Jobs : Expire(j)
        BY ZenonT(60), <1>1 DEF Next, RunDue, Continue, Fail, Heartbeat, ClaimDue, ClaimEnd, ClaimFail, BeginRun, RunsEnd,
           RunBlocks, RunEnds, SaveRun, SaveFail, Release, SaveEdit, Unblock, Call, RunNow, Update, Pause, Resume,
           Read, Create, Remove, Approve, Crash, Elapse, Fault
      <4> QED
        BY <4>1, <4>2
    <3> QED
      BY <1>1, <3>1, CallerKeepsClaims, CallKeepsClaims, OutsideKeepsClaims DEF Next
  <2> QED
    BY <2>1, <2>2, <2>3, <2>4 DEF ClaimInv
<1>2. CASE UNCHANGED vars
  <2>1. TypeInv'
    BY TypeStep DEF ClaimInv
  <2> QED
    BY <1>2, <2>1 DEF vars, ClaimInv, Known, Claimed, Excluded, Holds, Edits, Runs, Exists
<1> QED
  BY <1>1, <1>2

LEMMA ClaimInvariant ==
  ASSUME NobodyEdits, OneRunEach
  PROVE  Spec => []ClaimInv
<1>1. ClaimInv /\ [Next]_vars => ClaimInv'
  BY ClaimStep
<1> QED
  BY <1>1, ClaimInit, PTL DEF Spec

\* Two processes never run the same job at once while no lease lapses, nobody
\* edits the row of a job and no process runs a job twice at a time: whatever
\* daemons, manual runs, approvals, removals, failing statements and crashes there are.
THEOREM ClaimsExclude ==
  ASSUME NobodyEdits, OneRunEach
  PROVE  Spec => []ActiveClaimExcludes
<1>1. ClaimInv => ActiveClaimExcludes
  BY DEF ClaimInv, ActiveClaimExcludes, Excluded, Holds
<1> QED
  BY <1>1, ClaimInvariant, PTL

\* Nothing is in the table or edited that was not created, whoever edits.
KnownInv == TypeInv /\ Known

LEMMA KnownInvariant == Spec => []KnownInv
<1>1. Init => KnownInv
  BY TypeInit DEF Init, KnownInv, Known, Holds, Edits, Runs, Exists
<1>2. KnownInv /\ [Next]_vars => KnownInv'
  <2> SUFFICES ASSUME KnownInv, [Next]_vars PROVE KnownInv'
    OBVIOUS
  <2>1. CASE Next
    BY <2>1, TypeStep, KeepsKnown DEF KnownInv
  <2>2. CASE UNCHANGED vars
    BY <2>2, TypeStep DEF KnownInv, vars, table, local, Known, Holds, Edits, Runs, Exists
  <2> QED
    BY <2>1, <2>2
<1> QED
  BY <1>1, <1>2, PTL DEF Spec

\* A finished run writes a row that is not blocked only if it succeeded or read the
\* row before the job was blocked.
LEMMA FinishedUnblocked ==
  ASSUME TypeInv, NEW x \in Callers, pc[x] = "record", NEW r \in Finished(x), ~r.blocked
  PROVE  outcome[x] = "ok" \/ ~copy[x].blocked
<1>1. Sound(copy[x]) /\ outcome[x] \in {"ok", "error", "blocked"}
  BY DEF TypeInv, TypeOK, Steady, Beating
<1> DEFINE q == Unclaimed(Blocking(copy[x], outcome[x]))
<1>2. q.blocked = ((outcome[x] = "blocked") \/ (outcome[x] = "error" /\ copy[x].blocked)) /\ Sound(q)
  BY ZenonT(60), <1>1, BlockedRow, ClaimedRow DEF Unclaimed, Blocking, Sound, Row
<1> HIDE DEF q
<1>3. r = q \/ r = [q EXCEPT !.enabled = FALSE, !.next = "none"] \/ r = [q EXCEPT !.next = "later"]
  <2>1. CASE manual[x]
    BY <2>1 DEF Finished, q
  <2>2. CASE ~manual[x]
    <3>1. r \in Schedule(q)
      BY <2>2 DEF Finished, q
    <3>2. Kind[q.def] \in Kinds
      BY <1>2, SortsAssumption DEF Sound, Row
    <3> QED
      BY <3>1, <3>2 DEF Schedule, Kinds
  <2> QED
    BY <2>1, <2>2
<1>4. r.blocked = q.blocked
  BY <1>2, <1>3 DEF Sound, Row
<1> QED
  BY <1>1, <1>2, <1>4

\* A step unblocks a job only as an approval, as a run that succeeded, or with a
\* copy read before the block.
LEMMA BlockStep ==
  ASSUME KnownInv, Next, NEW j \in Jobs,
         Exists(j), row[j].blocked, row'[j] # NoRow, ~row'[j].blocked
  PROVE  \E x \in Callers : MayUnblock(x, j)
<1> USE DEF table, local, budgets
<1>t. TypeInv /\ TypeOK /\ Known /\ Sound(row[j]) /\ \A x \in Callers : Steady(x)
  BY ExistingRow DEF KnownInv, TypeInv
<1>1. ASSUME NEW x \in Callers, SaveRun(x)
      PROVE  MayUnblock(x, j)
  <2>1. PICK r \in Finished(x) : row' = [row EXCEPT ![job[x]] = r]
    BY <1>1 DEF SaveRun
  <2>2. job[x] = j /\ ~r.blocked
    BY <1>t, <2>1 DEF TypeOK
  <2> QED
    BY <1>t, <1>1, <2>2, FinishedUnblocked DEF SaveRun, MayUnblock
<1>2. ASSUME NEW x \in Callers, SaveEdit(x) \/ Unblock(x)
      PROVE  MayUnblock(x, j)
  BY <1>t, <1>2 DEF SaveEdit, Unblock, TypeOK, MayUnblock
<1>4. ASSUME NEW x \in Callers, ClaimDue(x) \/ Release(x) \/ Heartbeat(x) PROVE FALSE
  <2>1. CASE ClaimDue(x)
    <3>1. PICK k \in todo[x] : row' \in {row, [row EXCEPT ![k] = ClaimedBy(row[k], Owner[x])]}
      BY <2>1 DEF ClaimDue
    <3>2. row'[j] \in {row[j], ClaimedBy(row[j], Owner[x])}
      BY <1>t, <3>1 DEF TypeOK
    <3>3. ClaimedBy(row[j], Owner[x]).blocked = row[j].blocked
      BY <1>t DEF ClaimedBy, Sound, Row
    <3> QED
      BY <3>2, <3>3
  <2>2. CASE Release(x)
    BY <1>t, <1>4, <2>2 DEF Release, Unclaimed, TypeOK, Sound, Row
  <2>3. CASE Heartbeat(x)
    BY <1>t, <1>4, <2>3 DEF Heartbeat, ClaimedBy, TypeOK, Sound, Row
  <2> QED
    BY <1>4, <2>1, <2>2, <2>3
<1>5. ASSUME NEW x \in Callers, RunDue(x) \/ ClaimEnd(x) \/ BeginRun(x) \/ RunsEnd(x) \/ RunBlocks(x)
                                \/ RunEnds(x) \/ Fail(x)
      PROVE  FALSE
  BY <1>t, <1>5 DEF RunDue, ClaimEnd, BeginRun, RunsEnd, RunBlocks, RunEnds, Fail, ClaimFail, SaveFail
<1>6. ASSUME NEW x \in Callers, NEW k \in Jobs, Call(x, k) PROVE FALSE
  <2>1. CASE RunNow(x, k)
    BY <1>t, <2>1 DEF RunNow, ClaimedBy, TypeOK, Sound, Row
  <2>2. CASE Create(x, k)
    BY <1>t, <2>2 DEF Create, Known, TypeOK
  <2>3. CASE Remove(x, k)
    BY <1>t, <2>3 DEF Remove, TypeOK
  <2>4. CASE Update(x, k) \/ Pause(x, k) \/ Resume(x, k) \/ Approve(x, k)
    BY <1>t, <2>4 DEF Update, Pause, Resume, Read, Approve
  <2> QED
    BY <1>6, <2>1, <2>2, <2>3, <2>4 DEF Call
<1>7. ASSUME NEW k \in Jobs, Elapse(k) \/ Expire(k) PROVE FALSE
  BY <1>t, <1>7 DEF Elapse, Expire, TypeOK, Sound, Row
<1>8. ASSUME NEW w \in Owners, Crash(w) PROVE FALSE
  BY <1>t, <1>8 DEF Crash, Disowned, Sound, Row
<1> QED
  BY <1>1, <1>2, <1>4, <1>5, <1>6, <1>7, <1>8 DEF Next, Continue

\* Whoever reads a blocked row, to run or to edit it, reads that it is blocked.
LEMMA TakenUpBlocked ==
  ASSUME KnownInv, Next, NEW j \in Jobs, Exists(j), row[j].blocked,
         NEW x \in Callers, TakesUp(x, j)
  PROVE  copy'[x].blocked
<1> USE DEF table, local, budgets, TakesUp
<1>t. TypeOK /\ Sound(row[j])
  BY ExistingRow DEF KnownInv, TypeInv
<1>1. ASSUME NEW y \in Callers, RunDue(y) \/ Fail(y) \/ Heartbeat(y) PROVE copy'[x].blocked
  BY <1>1 DEF RunDue, Fail, ClaimFail, SaveFail, Heartbeat
<1>2. ASSUME NEW y \in Callers, Continue(y) PROVE copy'[x].blocked
  <2>1. CASE BeginRun(y)
    BY <1>t, <2>1 DEF BeginRun, TypeOK
  <2>2. CASE Release(y) \/ SaveEdit(y) \/ Unblock(y)
    BY <1>t, <2>2 DEF Release, SaveEdit, Unblock, Idle, TypeOK
  <2>3. CASE ClaimDue(y) \/ ClaimEnd(y) \/ RunsEnd(y) \/ RunBlocks(y) \/ RunEnds(y) \/ SaveRun(y)
    BY <2>3 DEF ClaimDue, ClaimEnd, RunsEnd, RunBlocks, RunEnds, SaveRun
  <2> QED
    BY <1>2, <2>1, <2>2, <2>3 DEF Continue
<1>3. ASSUME NEW y \in Callers, NEW k \in Jobs, Call(y, k) PROVE copy'[x].blocked
  <2>1. ASSUME NEW r, Read(y, k, r), r.blocked = row[k].blocked PROVE copy'[x].blocked
    BY <1>t, <2>1 DEF Read, TypeOK
  <2>2. CASE Update(y, k) \/ Pause(y, k) \/ Resume(y, k)
    <3>1. Exists(k) /\ Sound(row[k])
      BY <1>t, <2>2, ExistingRow DEF Update, Pause, Resume
    <3>2. CASE Update(y, k)
      <4>1. PICK d \in Defs : Read(y, k, [row[k] EXCEPT !.def = d, !.next = NextRun(d)])
        BY <3>2 DEF Update
      <4>2. [row[k] EXCEPT !.def = d, !.next = NextRun(d)].blocked = row[k].blocked
        BY <3>1 DEF Sound, Row
      <4> QED
        BY <2>1, <4>1, <4>2
    <3>3. CASE Pause(y, k)
      <4>1. [row[k] EXCEPT !.enabled = FALSE, !.next = "none"].blocked = row[k].blocked
        BY <3>1 DEF Sound, Row
      <4> QED
        BY <2>1, <3>3, <4>1 DEF Pause
    <3>4. CASE Resume(y, k)
      <4>1. [row[k] EXCEPT !.enabled = TRUE, !.next = NextRun(row[k].def)].blocked = row[k].blocked
        BY <3>1 DEF Sound, Row
      <4> QED
        BY <2>1, <3>4, <4>1 DEF Resume
    <3> QED
      BY <2>2, <3>2, <3>3, <3>4
  <2>3. CASE RunNow(y, k) \/ Create(y, k) \/ Remove(y, k)
    BY <2>3 DEF RunNow, Create, Remove
  <2>4. CASE Approve(y, k)
    BY <1>t, <2>4 DEF Approve, TypeOK
  <2> QED
    BY <1>3, <2>2, <2>3, <2>4 DEF Call
<1>4. ASSUME NEW k \in Jobs, Elapse(k) \/ Expire(k) PROVE copy'[x].blocked
  BY <1>4 DEF Elapse, Expire
<1>5. ASSUME NEW w \in Owners, Crash(w) PROVE copy'[x].blocked
  BY <1>5 DEF Crash
<1> QED
  BY <1>1, <1>2, <1>3, <1>4, <1>5 DEF Next

\* Whatever daemons, manual runs, edits, approvals, removals, failing statements,
\* crashes and lapsed leases there are, who reads a blocked row writes the block
\* back, and a blocked job is unblocked by an approval, a run that succeeded, or a
\* copy read before it was blocked (service.go:135-158 and 267-277).
THEOREM BlocksStand == Spec => BlockStands
<1>1. KnownInv /\ [Next]_vars =>
        [\A j \in Jobs : Exists(j) /\ row[j].blocked =>
           /\ \A x \in Callers : TakesUp(x, j) => copy'[x].blocked
           /\ row'[j] # NoRow /\ ~row'[j].blocked => \E x \in Callers : MayUnblock(x, j)]_vars
  BY BlockStep, TakenUpBlocked
<1> QED
  BY <1>1, KnownInvariant, PTL DEF Spec, BlockStands

-----------------------------------------------------------------------------
\* Repetitions are paid for.

LEMMA RepeatInit == Init => RepeatInv
BY SortsAssumption DEF Init, RepeatInv, Paid, Startable, Runs, Exists

\* A step that starts nothing and makes nothing startable.
LEMMA SameArms ==
  ASSUME NEW j \in Jobs, Paid(j), starts'[j] = starts[j], faults' = faults, created \subseteq created',
         Exists(j)' => Exists(j) /\ (Armed(row'[j]) => Armed(row[j])) /\ (row[j].enabled => row'[j].enabled),
         \A x \in Callers : /\ Runs(x, j)' <=> Runs(x, j)
                            /\ Runs(x, j) => manual'[x] = manual[x] /\ copy'[x] = copy[x],
         \A x \in Callers : j \in queue'[x] /\ ~manual'[x] => (j \in queue[x] /\ ~manual[x]) \/ row'[j].enabled
  PROVE  Paid(j)'
<1>1. Startable(j)' => Startable(j)
  BY DEF Startable
<1> QED
  BY <1>1 DEF Paid

\* A fault pays for the next start.
LEMMA FaultPays ==
  ASSUME NEW j \in Jobs, Paid(j), TypeOK, Fault, starts' = starts, created' = created,
         \A x \in Callers : j \in queue'[x] /\ ~manual'[x] => j \in queue[x] /\ ~manual[x],
         Exists(j)' => Exists(j) /\ (row[j].enabled => row'[j].enabled)
  PROVE  Paid(j)'
<1>1. faults \in Nat /\ faults' = faults + 1 /\ starts[j] \in Nat
  BY BoundsAssumption DEF TypeOK, Fault
<1> QED
  BY <1>1 DEF Paid

\* Claims, blocks and next runs leave the definition of a row and whether it is enabled alone.
LEMMA ArmsOfRow ==
  ASSUME NEW r, Sound(r)
  PROVE  /\ (Unclaimed(r)).enabled = r.enabled /\ (Unclaimed(r)).def = r.def
         /\ \A w : (ClaimedBy(r, w)).enabled = r.enabled /\ (ClaimedBy(r, w)).def = r.def
         /\ \A w : (Disowned(r, w)).enabled = r.enabled /\ (Disowned(r, w)).def = r.def
         /\ \A s : (Blocking(r, s)).enabled = r.enabled /\ (Blocking(r, s)).def = r.def
         /\ \A v : [r EXCEPT !.blocked = v].enabled = r.enabled /\ [r EXCEPT !.blocked = v].def = r.def
         /\ \A v : [r EXCEPT !.next = v].enabled = r.enabled /\ [r EXCEPT !.next = v].def = r.def
         /\ \A v : [r EXCEPT !.lease = v].enabled = r.enabled /\ [r EXCEPT !.lease = v].def = r.def
BY DEF Sound, Row, Unclaimed, ClaimedBy, Disowned, Blocking

\* A run of the schedule writes back a row that the schedule will not start again.
LEMMA FinishedArms ==
  ASSUME NEW x \in Callers, Sound(copy[x]), NEW r \in Finished(x), Armed(r)
  PROVE  manual[x] /\ Armed(copy[x])
<1> DEFINE q == Unclaimed(Blocking(copy[x], outcome[x]))
<1>1. Sound(q) /\ q.enabled = copy[x].enabled /\ q.def = copy[x].def
  BY BlockedRow, ClaimedRow, ArmsOfRow
<1>2. CASE manual[x]
  BY <1>1, <1>2 DEF Finished, Armed
<1>3. CASE ~manual[x]
  <2> HIDE DEF q
  <2>1. r \in Schedule(q)
    BY <1>3 DEF Finished, q
  <2>2. Kind[q.def] \in Kinds
    BY <1>1, SortsAssumption DEF Sound, Row
  <2>3. r.def = q.def /\ (Kind[q.def] = "at" => ~r.enabled)
    BY <1>1, <2>1, <2>2 DEF Schedule, Kinds, Sound, Row
  <2> QED
    BY <2>3 DEF Armed
<1> QED
  BY <1>2, <1>3

LEMMA CallerPays ==
  ASSUME ClaimInv, lapses = 0, NEW x \in Callers, RunDue(x) \/ Continue(x) \/ Fail(x) \/ Heartbeat(x),
         \A j \in Jobs : Paid(j)
  PROVE  \A j \in Jobs : Paid(j)'
<1> USE DEF table, local, budgets
<1>t. TypeOK /\ Steady(x) /\ Claimed /\ Excluded /\ Known /\ pc[x] # "edit"
  BY DEF ClaimInv, TypeInv
<1>1. CASE RunDue(x) \/ ClaimEnd(x) \/ RunBlocks(x) \/ RunEnds(x) \/ RunsEnd(x)
  BY <1>t, <1>1, SameArms DEF RunDue, May, ClaimEnd, RunBlocks, RunEnds, RunsEnd, TypeOK, Runs, Exists
<1>2. CASE ClaimFail(x) \/ SaveFail(x)
  BY <1>t, <1>2, FaultPays DEF ClaimFail, SaveFail, Fault, TypeOK, Exists
<1>3. CASE ClaimDue(x)
  <2>1. PICK k \in todo[x] :
          \/ Due(k) /\ Free(k)
             /\ row' = [row EXCEPT ![k] = ClaimedBy(row[k], Owner[x])]
             /\ queue' = [queue EXCEPT ![x] = @ \cup {k}]
          \/ UNCHANGED <<row, queue>>
    BY <1>3 DEF ClaimDue
  <2> SUFFICES ASSUME NEW j \in Jobs PROVE Paid(j)'
    OBVIOUS
  <2>2. Exists(j)' => Exists(j) /\ row'[j].enabled = row[j].enabled /\ row'[j].def = row[j].def
    BY <1>t, <2>1, ExistingRow, ArmsOfRow DEF TypeOK, Due, Exists
  <2>3. \A y \in Callers : j \in queue'[y] => j \in queue[y] \/ (k = j /\ Due(j) /\ row'[j] = ClaimedBy(row[j], Owner[x]))
    BY <1>t, <2>1 DEF TypeOK
  <2>4. Due(j) => (ClaimedBy(row[j], Owner[x])).enabled
    BY <1>t, ExistingRow, ArmsOfRow DEF Due
  <2> QED
    BY <1>3, <2>2, <2>3, <2>4, SameArms DEF ClaimDue, Armed, Runs
<1>4. CASE BeginRun(x)
  <2>1. PICK k \in queue[x] :
          /\ queue' = [queue EXCEPT ![x] = @ \ {k}]
          /\ \/ Exists(k)
                /\ pc' = [pc EXCEPT ![x] = "run"]
                /\ job' = [job EXCEPT ![x] = k]
                /\ copy' = [copy EXCEPT ![x] = row[k]]
                /\ starts' = IF manual[x] \/ Kind[row[k].def] # "at" THEN starts
                             ELSE [starts EXCEPT ![k] = @ + 1]
             \/ ~Exists(k) /\ UNCHANGED <<pc, job, copy, starts>>
    BY <1>4 DEF BeginRun
  <2>2. k \in Jobs /\ row' = row /\ pc[x] = "queue" /\ UNCHANGED <<created, faults, manual>>
    BY <1>t, <1>4 DEF TypeOK, BeginRun
  <2>3. \A j \in Jobs, y \in Callers : j \in queue'[y] => j \in queue[y]
    BY <1>t, <2>1 DEF TypeOK
  <2>4. CASE ~Exists(k) /\ UNCHANGED <<pc, job, copy, starts>>
    BY <2>2, <2>3, <2>4, SameArms DEF Runs, Exists
  <2>5. CASE /\ Exists(k)
             /\ pc' = [pc EXCEPT ![x] = "run"]
             /\ job' = [job EXCEPT ![x] = k]
             /\ copy' = [copy EXCEPT ![x] = row[k]]
             /\ starts' = IF manual[x] \/ Kind[row[k].def] # "at" THEN starts
                          ELSE [starts EXCEPT ![k] = @ + 1]
    <3>1. ASSUME NEW j \in Jobs, j # k PROVE Paid(j)'
      <4>1. \A y \in Callers : (Runs(y, j)' <=> Runs(y, j)) /\ (Runs(y, j) => copy'[y] = copy[y])
        BY <1>t, <2>2, <2>5, <3>1 DEF TypeOK, Runs
      <4>2. starts'[j] = starts[j]
        BY <1>t, <2>5, <3>1 DEF TypeOK
      <4> QED
        BY <2>2, <2>3, <4>1, <4>2, SameArms DEF Exists
    <3>2. Paid(k)'
      <4>1. \A y \in Callers : ~Runs(y, k) /\ (Runs(y, k)' => y = x)
        BY <1>t, <2>1, <2>2, <2>5 DEF TypeOK, Excluded, Holds, Runs
      <4>2. Runs(x, k)' /\ copy'[x] = row[k]
        BY <1>t, <2>5 DEF TypeOK, Runs
      <4>3. Startable(k)' => Startable(k) /\ manual[x]
        BY <2>2, <2>5, <4>1, <4>2 DEF Startable
      <4>4. k \in created /\ starts[k] \in Nat /\ faults \in Nat
        BY <1>t, <2>2, <2>5, BoundsAssumption DEF Known, TypeOK
      <4>5. ~manual[x] /\ Kind[row[k].def] = "at" => Startable(k)
        BY <2>1, <2>2, <2>5, <4>1 DEF Paid, Startable, Armed
      <4>6. starts'[k] = IF manual[x] \/ Kind[row[k].def] # "at" THEN starts[k] ELSE starts[k] + 1
        BY <1>t, <2>2, <2>5 DEF TypeOK
      <4> QED
        BY <2>2, <2>3, <4>3, <4>4, <4>5, <4>6 DEF Paid, Exists
    <3> QED
      BY <3>1, <3>2
  <2> QED
    BY <2>1, <2>4, <2>5
<1>5. CASE SaveRun(x)
  <2>1. PICK r \in Finished(x) : row' = [row EXCEPT ![job[x]] = r]
    BY <1>5 DEF SaveRun
  <2>2. job[x] \in Jobs /\ job[x] \notin queue[x] /\ Sound(copy[x])
    BY <1>t, <1>5 DEF SaveRun, Steady, Beating
  <2>3. ASSUME NEW j \in Jobs, j # job[x] PROVE Paid(j)'
    <3>1. row'[j] = row[j]
      BY <1>t, <2>1, <2>3 DEF TypeOK
    <3>2. \A y \in Callers : Runs(y, j)' <=> Runs(y, j)
      BY <1>t, <1>5, <2>3 DEF SaveRun, TypeOK, Runs
    <3> QED
      BY <1>5, <3>1, <3>2, SameArms DEF SaveRun, Exists
  <2>4. ASSUME NEW j \in Jobs, j = job[x] PROVE Paid(j)'
    <3>1. Runs(x, j) /\ ~Runs(x, j)' /\ row'[j] = r
      BY <1>t, <1>5, <2>1, <2>4 DEF SaveRun, TypeOK, Runs
    <3>2. \A y \in Callers : Holds(y, j) => y = x
      BY <1>t, <3>1 DEF Excluded, Holds
    <3>3. \A y \in Callers : ~Runs(y, j)' /\ j \notin queue'[y]
      BY <1>t, <1>5, <2>2, <2>4, <3>1, <3>2 DEF SaveRun, Holds, Runs
    <3>4. Startable(j)' => Startable(j)
      BY <2>2, <3>1, <3>3, FinishedArms DEF Startable
    <3> QED
      BY <1>5, <3>3, <3>4 DEF SaveRun, Paid
  <2> QED
    BY <2>3, <2>4
<1>6. CASE Release(x) \/ Heartbeat(x) \/ Unblock(x)
  <2> SUFFICES ASSUME NEW j \in Jobs PROVE Paid(j)'
    OBVIOUS
  <2>0. Exists(j)' => Exists(j)
    BY <1>t, <1>6 DEF Release, Heartbeat, Unblock, TypeOK, Exists
  <2>1. Exists(j) => row'[j] \in {row[j], Unclaimed(row[j]), ClaimedBy(row[j], Owner[x]), [row[j] EXCEPT !.blocked = FALSE]}
    BY <1>t, <1>6 DEF Release, Heartbeat, Unblock, TypeOK
  <2>2. Exists(j) => row'[j].enabled = row[j].enabled /\ row'[j].def = row[j].def
    <3>1. ASSUME Exists(j) PROVE Sound(row[j])
      BY <1>t, <3>1, ExistingRow
    <3> QED
      BY <2>1, <3>1 DEF Sound, Row, Unclaimed, ClaimedBy
  <2>3. \A y \in Callers : (Runs(y, j)' <=> Runs(y, j)) /\ (Runs(y, j) => copy'[y] = copy[y])
    BY <1>t, <1>6 DEF Release, Heartbeat, Unblock, Idle, TypeOK, Runs
  <2>4. UNCHANGED <<starts, faults, created, manual, queue>>
    BY <1>6 DEF Release, Heartbeat, Unblock, Idle
  <2> QED
    BY <2>0, <2>2, <2>3, <2>4, SameArms DEF Armed
<1> QED
  BY <1>t, <1>1, <1>2, <1>3, <1>4, <1>5, <1>6 DEF Continue, Fail, SaveEdit

LEMMA RepeatStep ==
  ASSUME NobodyEdits, OneRunEach, ClaimInv, RepeatInv, Next
  PROVE  RepeatInv'
<1> USE DEF table, local, budgets
<1>t. TypeOK /\ Known /\ \A x \in Callers : Steady(x)
  BY DEF ClaimInv, TypeInv
<1>l. lapses' = 0 => lapses = 0
  <2>1. lapses \in Nat /\ \A j \in Jobs : Expire(j) => lapses' \in {lapses, lapses + 1}
    BY <1>t, BoundsAssumption DEF TypeOK, Expire
  <2>2. lapses' = lapses \/ \E j \in Jobs : Expire(j)
    BY ZenonT(60) DEF Next, RunDue, Continue, Fail, Heartbeat, ClaimDue, ClaimEnd, ClaimFail, BeginRun, RunsEnd,
       RunBlocks, RunEnds, SaveRun, SaveFail, Release, SaveEdit, Unblock, Call, RunNow, Update, Pause, Resume,
       Read, Create, Remove, Approve, Crash, Elapse, Fault
  <2> QED
    BY <2>1, <2>2
<1> SUFFICES ASSUME lapses' = 0, lapses = 0, \A j \in Jobs : Paid(j), NEW j \in Jobs
             PROVE  Paid(j)'
  BY <1>l DEF RepeatInv
<1>1. ASSUME NEW x \in Callers, NEW k \in Jobs, Call(x, k) PROVE Paid(j)'
  <2>1. CASE RunNow(x, k)
    <3>1. Exists(j)' => Exists(j) /\ row'[j].enabled = row[j].enabled /\ row'[j].def = row[j].def
      BY <1>t, <2>1, ExistingRow, ArmsOfRow DEF RunNow, TypeOK, Exists
    <3>2. \A y \in Callers : (Runs(y, j)' <=> Runs(y, j)) /\ (Runs(y, j) => manual'[y] = manual[y])
      BY <1>t, <2>1 DEF RunNow, May, TypeOK, Runs
    <3>3. \A y \in Callers : j \in queue'[y] /\ ~manual'[y] => j \in queue[y] /\ ~manual[y]
      BY <1>t, <2>1 DEF RunNow, TypeOK
    <3> QED
      BY <2>1, <3>1, <3>2, <3>3, SameArms DEF RunNow, Armed
  <2>2. CASE Update(x, k) \/ Pause(x, k) \/ Resume(x, k)
    BY <2>2 DEF Update, Pause, Resume, May, NobodyEdits
  <2>3. CASE Create(x, k)
    <3>1. CASE j = k
      <4>1. starts[j] = 0 /\ faults \in Nat /\ \A y \in Callers : ~Holds(y, j)
        BY <1>t, <2>3, <3>1, BoundsAssumption DEF Create, Known, TypeOK, Paid
      <4> QED
        BY <1>t, <2>3, <3>1, <4>1 DEF Create, Paid, Holds
    <3>2. CASE j # k
      BY <1>t, <2>3, <3>2, SameArms DEF Create, TypeOK, Exists, Runs
    <3> QED
      BY <3>1, <3>2
  <2>4. CASE Remove(x, k)
    <3>1. Exists(j)' => row'[j] = row[j]
      BY <1>t, <2>4 DEF Remove, TypeOK, Exists
    <3> QED
      BY <2>4, <3>1, SameArms DEF Remove, Exists, Runs
  <2>5. CASE Approve(x, k)
    BY <1>t, <2>5, SameArms DEF Approve, May, TypeOK, Exists, Runs
  <2> QED
    BY <1>1, <2>1, <2>2, <2>3, <2>4, <2>5 DEF Call
<1>2. ASSUME NEW k \in Jobs, Elapse(k) \/ Expire(k) PROVE Paid(j)'
  <2>0. Exists(j)' => Exists(j)
    BY <1>t, <1>2 DEF Elapse, Expire, TypeOK, Exists
  <2>1. Exists(j) => row'[j] \in {row[j], [row[j] EXCEPT !.next = "due"], [row[j] EXCEPT !.lease = "expired"]}
    BY <1>t, <1>2 DEF Elapse, Expire, TypeOK
  <2>2. Exists(j) => row'[j].enabled = row[j].enabled /\ row'[j].def = row[j].def
    <3>1. ASSUME Exists(j) PROVE Sound(row[j])
      BY <1>t, <3>1, ExistingRow
    <3> QED
      BY <2>1, <3>1 DEF Sound, Row, Unclaimed, ClaimedBy
  <2>3. UNCHANGED <<starts, faults, created, local>>
    BY <1>2 DEF Elapse, Expire
  <2> QED
    BY <2>0, <2>2, <2>3, SameArms DEF Armed, Runs
<1>3. ASSUME NEW w \in Owners, Crash(w) PROVE Paid(j)'
  <2>1. Exists(j)' => Exists(j) /\ row'[j].enabled = row[j].enabled
    BY <1>t, <1>3, ExistingRow, ArmsOfRow DEF Crash, Disowned, Exists
  <2>2. \A y \in Callers : j \in queue'[y] => j \in queue[y] /\ manual'[y] = manual[y]
    BY <1>3 DEF Crash
  <2>3. Fault /\ UNCHANGED <<starts, created>>
    BY <1>3 DEF Crash
  <2> QED
    BY <1>t, <2>1, <2>2, <2>3, FaultPays
<1> QED
  BY <1>1, <1>2, <1>3, CallerPays DEF Next

\* The schedule starts a one-shot job once, and once more at most for each crash
\* or failing statement (service.go:267-277), while no lease lapses, nobody edits
\* and no process runs a job twice at a time: whoever else runs the job by hand,
\* removes it or approves it meanwhile.
THEOREM StartsArePaid ==
  ASSUME NobodyEdits, OneRunEach
  PROVE  Spec => []RepeatsAccounted
<1>1. ClaimInv /\ RepeatInv /\ [Next]_vars => RepeatInv'
  <2>1. CASE UNCHANGED vars
    BY <2>1 DEF vars, table, local, budgets, RepeatInv, Paid, Startable, Runs, Exists
  <2> QED
    BY <2>1, RepeatStep
<1>2. RepeatInv => RepeatsAccounted
  BY DEF RepeatInv, Paid, RepeatsAccounted
<1> QED
  BY <1>1, <1>2, RepeatInit, ClaimInvariant, PTL DEF Spec

=============================================================================
