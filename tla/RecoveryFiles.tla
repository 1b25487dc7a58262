---------------------------- MODULE RecoveryFiles ----------------------------
(***************************************************************************)
(* File operations of the recovery executor (recovery/engine.go): prepare, *)
(* apply, recover and reconcile, run by processes that serialize on the    *)
(* flock of one state directory, journal every stage in SQLite, and may    *)
(* die between any two durable effects.  Programs that do not take the     *)
(* lock write the same files.                                              *)
(*                                                                         *)
(* An executor process performs one call at a time.  Each step below is    *)
(* one durable effect or one observation of a file, so that a crash or a   *)
(* foreign write can come between any two of them.  A call that refuses    *)
(* before it wrote anything (digest, policy, expiry, budgets, capacity, a  *)
(* busy lock) leaves the state as it was and is no step at all.            *)
(***************************************************************************)
EXTENDS Naturals, Sequences, FiniteSets

CONSTANTS
  Ops,            \* identifiers of recovery operations
  Paths,          \* target files under the operator's recovery roots
  Content,        \* bytes of a file, with the mode and owner restored with them
  Ids,            \* file identities: device, inode and modification time
  Original,       \* [Paths -> File], the target files at the start
  Request,        \* [Ops -> Seq(Change)], the reviewed changes of each operation
  Executors,      \* processes that open the engine
  Models,         \* the executors driven by a model's recovery_manage tool
  MaxRepair,      \* ceiling of model-triggered repairs of one operation
  Absent,         \* content of a file that does not exist
  Torn,           \* content of an artifact that is incomplete or altered
  Nobody,         \* the holder of a free lock
  NoOp,           \* the operation of an idle executor
  TornWrites,     \* whether a crash can leave an incomplete restore staging file
  MaxFaults,      \* bound: crashes, I/O errors and cancellations
  MaxForeign      \* bound: foreign writes and damaged artifacts

Change == [path : Paths, action : {"replace", "create", "delete"}, content : Content]

ASSUME SortsAssumption ==
  /\ Absent \notin Content /\ Torn \notin Content /\ Absent # Torn
  /\ Nobody \notin Executors /\ NoOp \notin Ops
  /\ Models \subseteq Executors
  /\ Ids \subseteq Nat \ {0}
ASSUME BoundsAssumption ==
  /\ MaxRepair \in Nat /\ MaxFaults \in Nat /\ MaxForeign \in Nat
  /\ TornWrites \in BOOLEAN
\* Prepare refuses an empty request and one that names a path twice.
ASSUME RequestAssumption ==
  /\ Request \in [Ops -> Seq(Change)]
  /\ \A o \in Ops :
       /\ Request[o] # <<>>
       /\ \A i, j \in 1..Len(Request[o]) :
            Request[o][i].path = Request[o][j].path => i = j

File == [content : Content \cup {Absent}, id : Ids \cup {0}]
NoFile == [content |-> Absent, id |-> 0]

\* Distinct files have distinct identities.
ASSUME OriginalAssumption ==
  /\ Original \in [Paths -> File]
  /\ \A p, q \in Paths :
       /\ Original[p].content = Absent <=> Original[p].id = 0
       /\ Original[p].id = Original[q].id /\ Original[p].id # 0 => p = q

VARIABLES
  file,           \* [Paths -> File], the target files
  quarantine,     \* [Ops -> [Paths -> File]], the "original" kept by a deletion
  backup,         \* [Ops -> [Paths -> Artifact]], the NNNN.before artifacts
  candidate,      \* [Ops -> [Paths -> Artifact]], the NNNN.after artifacts
  staged,         \* [Ops -> [Paths -> Artifact]], the .restore staging files
  status,         \* [Ops -> Status], the journal
  before,         \* [Ops -> [Paths -> File]], the Before fingerprints of the plan
  attempts,       \* [Ops -> Nat], durable model_repair_attempt checks
  lock,           \* the process holding executor.lock, or Nobody
  pc, op, at,     \* per executor: next step, its operation, its entry index
  failed,         \* per executor: whether an entry could not be restored
  ticket,         \* per executor: the repair attempt it reserved, 0 for none
  faults, foreign,\* faults and foreign writes so far
  raced,          \* history: paths written since the lock holder last read them
  damaged,        \* history: artifacts altered from outside, as <<op, path>>
  touched,        \* history: operations that changed a target file
  spent           \* [Ops -> SUBSET Nat], history: attempts dispatched by a model

files     == <<file, quarantine>>
assets    == <<backup, candidate, staged>>
journal   == <<status, before, attempts>>
local     == <<pc, op, at, failed, ticket, lock>>
budgets   == <<faults, foreign>>
ghosts    == <<raced, damaged, touched, spent>>
vars      == <<files, assets, journal, local, budgets, ghosts>>

-----------------------------------------------------------------------------
\* Fingerprints and entries.

J == INSTANCE RecoveryJournal WITH Ops <- Ops, status <- status, touched <- touched

Artifact == Content \cup {Absent, Torn}
Exists(f) == f.content # Absent

\* Whether a file is the wanted one, by content or down to its identity.
Matches(actual, want, identity) ==
  /\ actual.content = want.content
  /\ identity /\ Exists(want) => actual.id = want.id

\* The fingerprint a change leaves behind; its identity is not known in advance.
After(c) == [content |-> IF c.action = "delete" THEN Absent ELSE c.content, id |-> 0]

\* The entry an executor is at, its change, path and original.
More(x)   == at[x] \in 1..Len(Request[op[x]])
Entry(x)  == Request[op[x]][at[x]]
Path(x)   == Entry(x).path
Before(x) == before[op[x]][Path(x)]

IsBefore(x, identity) == Matches(file[Path(x)], Before(x), identity)
IsAfter(x) == Matches(file[Path(x)], After(Entry(x)), FALSE)

BackupWhole(x)    == Exists(Before(x)) => backup[op[x]][Path(x)] = Before(x).content
CandidateWhole(x) == Exists(After(Entry(x))) => candidate[op[x]][Path(x)] = Entry(x).content
Quarantined(x)    == quarantine[op[x]][Path(x)]

\* An identity that no file has and no plan remembers: the smallest unused one.
UsedIds ==
  {file[p].id : p \in Paths}
  \cup {quarantine[o][p].id : o \in Ops, p \in Paths}
  \cup {before[o][p].id : o \in Ops, p \in Paths}
FreshIds == {i \in Ids \ UsedIds : \A j \in Ids \ UsedIds : i <= j}

-----------------------------------------------------------------------------
\* Control of an executor.

\* Variant: a call goes on although another process holds executor.lock.
EnterUnlocked(x, o, step, i) ==
  /\ lock' = x
  /\ pc' = [pc EXCEPT ![x] = step]
  /\ op' = [op EXCEPT ![x] = o]
  /\ at' = [at EXCEPT ![x] = i]
  /\ UNCHANGED failed

\* x, idle, takes executor.lock for a call on o that continues at step.
Enter(x, o, step, i) ==
  /\ lock = Nobody
  /\ lock' = x
  /\ pc' = [pc EXCEPT ![x] = step]
  /\ op' = [op EXCEPT ![x] = o]
  /\ at' = [at EXCEPT ![x] = i]
  /\ UNCHANGED failed

\* The call of x returns, or its process dies: its memory and its lock are gone.
Leave(x) ==
  /\ pc' = [pc EXCEPT ![x] = "idle"]
  /\ op' = [op EXCEPT ![x] = NoOp]
  /\ at' = [at EXCEPT ![x] = 0]
  /\ failed' = [failed EXCEPT ![x] = FALSE]
  /\ ticket' = [ticket EXCEPT ![x] = 0]
  /\ lock' = IF lock = x THEN Nobody ELSE lock

\* x continues at step with entry i.
Goto(x, step, i) ==
  /\ pc' = [pc EXCEPT ![x] = step]
  /\ at' = [at EXCEPT ![x] = i]
  /\ UNCHANGED <<op, ticket, lock>>

Save(o, s) == status' = [status EXCEPT ![o] = s] /\ UNCHANGED <<before, attempts>>

\* x reads its path: what was written there before is no race any more.
Observe(x) == raced' = raced \ {Path(x)} /\ UNCHANGED <<damaged, touched, spent>>

Fault == faults < MaxFaults /\ faults' = faults + 1 /\ UNCHANGED foreign

\* A call ends by recording a status and changes nothing else.
Conclude(x, s) ==
  /\ Save(op[x], s)
  /\ Leave(x)
  /\ UNCHANGED <<files, assets, ghosts>>

-----------------------------------------------------------------------------
\* Prepare.

PrepareBegin(x, o) ==
  /\ pc[x] = "idle" /\ status[o] = "none"
  /\ Enter(x, o, "scan", 1)
  /\ UNCHANGED <<files, assets, journal, ticket, budgets, ghosts>>

\* Read one file: create needs a missing one, replace and delete an existing one.
PrepareScan(x) ==
  /\ pc[x] = "scan" /\ More(x)
  /\ Observe(x)
  /\ \/ /\ (Entry(x).action = "create") # Exists(file[Path(x)])
        /\ before' = [before EXCEPT ![op[x]][Path(x)] = file[Path(x)]]
        /\ Goto(x, "scan", at[x] + 1)
        /\ UNCHANGED failed
     \/ /\ (Entry(x).action = "create") = Exists(file[Path(x)])
        /\ Leave(x)
        /\ UNCHANGED before
  /\ UNCHANGED <<files, assets, status, attempts, budgets>>

PrepareJournal(x) ==
  /\ pc[x] = "scan" /\ ~More(x)
  /\ Save(op[x], "preparing")
  /\ Goto(x, "backup", 1)
  /\ UNCHANGED <<files, assets, failed, budgets, ghosts>>

\* Preserve the original and the candidate of one entry.
PrepareBackup(x) ==
  /\ pc[x] = "backup" /\ More(x)
  /\ backup' = [backup EXCEPT ![op[x]][Path(x)] = Before(x).content]
  /\ candidate' = [candidate EXCEPT ![op[x]][Path(x)] = After(Entry(x)).content]
  /\ Goto(x, "backup", at[x] + 1)
  /\ UNCHANGED <<files, staged, journal, failed, budgets, ghosts>>

PrepareFail(x) ==
  /\ pc[x] = "backup" /\ More(x)
  /\ Fault
  /\ Conclude(x, "preparation_failed")

\* Variant: ready is recorded before the last artifacts are written.
PrepareReadyEarly(x) ==
  /\ pc[x] = "backup"
  /\ Conclude(x, "ready")
  /\ UNCHANGED budgets

PrepareReady(x) ==
  /\ pc[x] = "backup" /\ ~More(x)
  /\ Conclude(x, "ready")
  /\ UNCHANGED budgets

-----------------------------------------------------------------------------
\* Apply.

\* Only a ready operation is applied; every other status is refused.
ApplyBegin(x, o) ==
  /\ pc[x] = "idle" /\ status[o] = "ready"
  /\ Enter(x, o, "check", 1)
  /\ UNCHANGED <<files, assets, journal, ticket, budgets, ghosts>>

\* Before anything is written every original and every artifact is verified.
ApplyCheck(x) ==
  /\ pc[x] = "check" /\ More(x)
  /\ Observe(x)
  /\ \/ /\ IsBefore(x, TRUE) /\ BackupWhole(x) /\ CandidateWhole(x)
        /\ Goto(x, "check", at[x] + 1)
        /\ UNCHANGED failed
     \/ /\ ~(IsBefore(x, TRUE) /\ BackupWhole(x) /\ CandidateWhole(x))
        /\ Leave(x)
  /\ UNCHANGED <<files, assets, journal, budgets>>

ApplyJournal(x) ==
  /\ pc[x] = "check" /\ ~More(x)
  /\ Save(op[x], "applying")
  /\ Goto(x, "apply", 1)
  /\ UNCHANGED <<files, assets, failed, budgets, ghosts>>

CanStage(x) ==
  /\ IsBefore(x, TRUE)
  /\ IF Entry(x).action = "delete" THEN ~Exists(Quarantined(x)) ELSE CandidateWhole(x)

\* applyEntry up to its last check: a candidate is staged beside the target.
ApplyStage(x) ==
  /\ pc[x] = "apply" /\ More(x) /\ CanStage(x)
  /\ Observe(x)
  /\ Goto(x, IF Entry(x).action = "delete" THEN "replace" ELSE "recheck", at[x])
  /\ UNCHANGED <<files, assets, journal, failed, budgets>>

\* Variant: the original is not compared again after staging.
ApplyRecheckSkipped(x) ==
  /\ pc[x] = "recheck"
  /\ Observe(x)
  /\ Goto(x, "replace", at[x])
  /\ UNCHANGED <<files, assets, journal, failed, budgets>>

ApplyRecheck(x) ==
  /\ pc[x] = "recheck" /\ IsBefore(x, TRUE)
  /\ Observe(x)
  /\ Goto(x, "replace", at[x])
  /\ UNCHANGED <<files, assets, journal, failed, budgets>>

\* Rename the staged candidate over the target, or the target into quarantine;
\* a directory that cannot be synced afterwards is an error all the same.
ApplyReplace(x) ==
  /\ pc[x] = "replace"
  /\ \/ /\ Entry(x).action # "delete"
        /\ \E i \in FreshIds :
             file' = [file EXCEPT ![Path(x)] = [content |-> Entry(x).content, id |-> i]]
        /\ UNCHANGED quarantine
     \/ /\ Entry(x).action = "delete" /\ Exists(file[Path(x)])
        /\ quarantine' = [quarantine EXCEPT ![op[x]][Path(x)] = file[Path(x)]]
        /\ file' = [file EXCEPT ![Path(x)] = NoFile]
  /\ touched' = touched \cup {op[x]}
  /\ \/ Goto(x, "apply", at[x] + 1) /\ UNCHANGED budgets
     \/ Goto(x, "unsynced", at[x]) /\ Fault
  /\ UNCHANGED <<assets, journal, failed, raced, damaged, spent>>

\* A changed original, a used quarantine, an altered candidate, a replacement
\* not known to be durable or an output that does not verify leaves the outcome
\* unknown.
ApplyConflict(x) ==
  /\ \/ pc[x] = "apply" /\ More(x) /\ ~CanStage(x)
     \/ pc[x] = "recheck" /\ ~IsBefore(x, TRUE)
     \/ pc[x] = "replace" /\ Entry(x).action = "delete" /\ ~Exists(file[Path(x)])
     \/ pc[x] = "unsynced"
     \/ pc[x] = "verify" /\ More(x) /\ ~IsAfter(x)
  /\ Conclude(x, "outcome_unknown")
  /\ UNCHANGED budgets

\* So does an I/O error, or a cancelled caller.
ApplyError(x) ==
  /\ pc[x] \in {"apply", "recheck", "replace", "verify"} /\ More(x)
  /\ Fault
  /\ Conclude(x, "outcome_unknown")

ApplyInstalled(x) ==
  /\ pc[x] = "apply" /\ ~More(x)
  /\ Save(op[x], "verifying")
  /\ Goto(x, "verify", 1)
  /\ UNCHANGED <<files, assets, failed, budgets, ghosts>>

ApplyVerify(x) ==
  /\ pc[x] = "verify" /\ More(x) /\ IsAfter(x)
  /\ Observe(x)
  /\ Goto(x, "verify", at[x] + 1)
  /\ UNCHANGED <<files, assets, journal, failed, budgets>>

ApplyCommit(x) ==
  /\ pc[x] = "verify" /\ ~More(x)
  /\ Conclude(x, "committed")
  /\ UNCHANGED budgets

-----------------------------------------------------------------------------
\* Recover.

\* The model's tool reserves a durable attempt before it dispatches a repair;
\* a recovered operation costs none.
Reserve(x, o) ==
  /\ x \in Models /\ pc[x] = "idle" /\ lock = Nobody /\ status[o] # "none"
  /\ \/ /\ status[o] = "recovered"
        /\ UNCHANGED <<attempts, ticket>>
     \/ /\ status[o] # "recovered" /\ attempts[o] < MaxRepair
        /\ attempts' = [attempts EXCEPT ![o] = @ + 1]
        /\ ticket' = [ticket EXCEPT ![x] = attempts[o] + 1]
  /\ pc' = [pc EXCEPT ![x] = "reserved"]
  /\ op' = [op EXCEPT ![x] = o]
  /\ UNCHANGED <<files, assets, status, before, at, failed, lock, budgets, ghosts>>

\* Variant: the tool dispatches without having reserved.
MayRecoverUnreserved(x, o) == pc[x] = "idle" \/ (pc[x] = "reserved" /\ op[x] = o)

\* The operator's CLI calls Recover directly, the model only after Reserve.
MayRecover(x, o) ==
  IF x \in Models THEN pc[x] = "reserved" /\ op[x] = o ELSE pc[x] = "idle"

Dispatch(x, o) ==
  /\ spent' = [spent EXCEPT ![o] = IF x \in Models THEN @ \cup {ticket[x]} ELSE @]
  /\ UNCHANGED <<raced, damaged, touched>>

\* The call after a reservation finds the lock busy or nothing to recover.
RecoverRefused(x) ==
  /\ pc[x] = "reserved"
  /\ lock # Nobody \/ status[op[x]] \notin J!Restorable \cup {"ready"}
  /\ Leave(x)
  /\ UNCHANGED <<files, assets, journal, budgets, ghosts>>

CancelBegin(x, o) ==
  /\ MayRecover(x, o) /\ status[o] = "ready"
  /\ Enter(x, o, "cancel", 1)
  /\ Dispatch(x, o)
  /\ UNCHANGED <<files, assets, journal, ticket, budgets>>

\* Variant: a plan is cancelled without verifying its originals.
CancelCheckSkipped(x) ==
  /\ pc[x] = "cancel" /\ More(x)
  /\ Observe(x)
  /\ Goto(x, "cancel", at[x] + 1)
  /\ UNCHANGED <<files, assets, journal, failed, budgets>>

\* A prepared plan becomes terminal only over unchanged originals.
CancelCheck(x) ==
  /\ pc[x] = "cancel" /\ More(x)
  /\ Observe(x)
  /\ \/ IsBefore(x, TRUE) /\ Goto(x, "cancel", at[x] + 1) /\ UNCHANGED failed
     \/ ~IsBefore(x, TRUE) /\ Leave(x)
  /\ UNCHANGED <<files, assets, journal, budgets>>

CancelEnd(x) ==
  /\ pc[x] = "cancel" /\ ~More(x)
  /\ Conclude(x, "recovered")
  /\ UNCHANGED budgets

RestoreBegin(x, o) ==
  /\ MayRecover(x, o) /\ status[o] \in J!Restorable
  /\ Enter(x, o, "restore", Len(Request[o]))
  /\ Save(o, "rolling_back")
  /\ Dispatch(x, o)
  /\ UNCHANGED <<files, assets, ticket, budgets>>

\* A deletion left its original in the quarantine.
ReturnsQuarantine(x) == Entry(x).action = "delete" /\ Exists(Quarantined(x))

\* What restoreEntry finds: only the operation's own output may be undone, from
\* an intact backup, by way of the quarantine or of a staging file.
MayRestore(x) ==
  /\ ~IsBefore(x, FALSE) /\ IsAfter(x) /\ BackupWhole(x)
  /\ ReturnsQuarantine(x) => Matches(Quarantined(x), Before(x), TRUE)
NeedsStaging(x) == Exists(Before(x)) /\ ~ReturnsQuarantine(x)
\* Variant: a staging file of an earlier attempt is never reused.
StagingFreeOnce(x) == staged[op[x]][Path(x)] = Absent
\* No staging file is in the way, or an earlier attempt left a whole one.
StagingFree(x) == staged[op[x]][Path(x)] \in {Absent, Before(x).content}

\* Entries are restored in reverse order; one that cannot be is remembered.
NextEntry(x, ok) ==
  /\ Goto(x, "restore", at[x] - 1)
  /\ failed' = [failed EXCEPT ![x] = @ \/ ~ok]

RestoreSkip(x) ==
  /\ pc[x] = "restore" /\ More(x) /\ IsBefore(x, FALSE)
  /\ NextEntry(x, TRUE)
  /\ Observe(x)
  /\ UNCHANGED <<files, assets, journal, budgets>>

RestoreConflict(x) ==
  /\ \/ /\ pc[x] = "restore" /\ More(x) /\ ~IsBefore(x, FALSE)
        /\ MayRestore(x) => NeedsStaging(x) /\ ~StagingFree(x)
     \/ pc[x] = "restage" /\ ~IsAfter(x)
     \/ pc[x] = "remove" /\ ~Exists(file[Path(x)])
  /\ NextEntry(x, FALSE)
  /\ UNCHANGED <<files, assets, journal, budgets, ghosts>>

\* The entry may be restored in place: by unlinking what was created, or by
\* moving the quarantined file back.
RestoreDirect(x) ==
  /\ pc[x] = "restore" /\ More(x) /\ MayRestore(x) /\ ~NeedsStaging(x)
  /\ Observe(x)
  /\ Goto(x, IF Exists(Before(x)) THEN "return" ELSE "remove", at[x])
  /\ UNCHANGED <<files, assets, journal, failed, budgets>>

\* The backup is copied to a staging file, unless an earlier attempt left it.
RestoreStage(x) ==
  /\ pc[x] = "restore" /\ More(x) /\ MayRestore(x) /\ NeedsStaging(x) /\ StagingFree(x)
  /\ staged' = [staged EXCEPT ![op[x]][Path(x)] = Before(x).content]
  /\ Observe(x)
  /\ Goto(x, "restage", at[x])
  /\ UNCHANGED <<files, backup, candidate, journal, failed, budgets>>

RestoreRecheck(x) ==
  /\ pc[x] = "restage" /\ IsAfter(x)
  /\ Observe(x)
  /\ Goto(x, "reinstall", at[x])
  /\ UNCHANGED <<files, assets, journal, failed, budgets>>

\* The change to the target; a failing directory sync reports an error after it.
RestoreReplace(x) ==
  /\ \/ /\ pc[x] = "remove" /\ Exists(file[Path(x)])
        /\ file' = [file EXCEPT ![Path(x)] = NoFile]
        /\ UNCHANGED <<quarantine, staged>>
     \/ /\ pc[x] = "return" /\ Exists(Quarantined(x))
        /\ file' = [file EXCEPT ![Path(x)] = Quarantined(x)]
        /\ quarantine' = [quarantine EXCEPT ![op[x]][Path(x)] = NoFile]
        /\ UNCHANGED staged
     \/ /\ pc[x] = "reinstall"
        /\ \E i \in FreshIds :
             file' = [file EXCEPT ![Path(x)] =
                        [content |-> staged[op[x]][Path(x)], id |-> i]]
        /\ staged' = [staged EXCEPT ![op[x]][Path(x)] = Absent]
        /\ UNCHANGED quarantine
  /\ touched' = touched \cup {op[x]}
  /\ \/ NextEntry(x, TRUE) /\ UNCHANGED budgets
     \/ NextEntry(x, FALSE) /\ Fault
  /\ UNCHANGED <<backup, candidate, journal, raced, damaged, spent>>

RestoreError(x) ==
  /\ pc[x] \in {"restore", "restage", "remove", "return", "reinstall"} /\ More(x)
  /\ Fault
  /\ NextEntry(x, FALSE)
  /\ UNCHANGED <<files, assets, journal, ghosts>>

\* All entries were tried, or the caller was cancelled before the next one.
RestoreGiveUp(x) ==
  /\ pc[x] = "restore"
  /\ \/ ~More(x) /\ failed[x] /\ UNCHANGED budgets
     \/ More(x) /\ Fault
  /\ Conclude(x, "recovery_failed")

RestoreEnd(x) ==
  /\ pc[x] = "restore" /\ ~More(x) /\ ~failed[x]
  /\ Goto(x, "confirm", 1)
  /\ UNCHANGED <<files, assets, journal, failed, budgets, ghosts>>

ConfirmEntry(x) ==
  /\ pc[x] = "confirm" /\ More(x) /\ IsBefore(x, FALSE)
  /\ Observe(x)
  /\ Goto(x, "confirm", at[x] + 1)
  /\ UNCHANGED <<files, assets, journal, failed, budgets>>

ConfirmConflict(x) ==
  /\ pc[x] = "confirm" /\ More(x)
  /\ \/ ~IsBefore(x, FALSE) /\ UNCHANGED budgets
     \/ Fault
  /\ Conclude(x, "recovery_failed")

ConfirmEnd(x) ==
  /\ pc[x] = "confirm" /\ ~More(x)
  /\ Conclude(x, "recovered")
  /\ UNCHANGED budgets

-----------------------------------------------------------------------------
\* Reconcile marks interrupted execution and touches no target file.

\* Variant: interrupted application is offered for application again.
InterruptedRetried(s) ==
  IF s = "preparing" THEN "preparation_failed"
  ELSE IF s \in J!InFlight THEN "ready" ELSE s

Interrupted(s) ==
  IF s = "preparing" THEN "preparation_failed"
  ELSE IF s \in J!InFlight THEN "outcome_unknown" ELSE s

Reconcile(x, o) ==
  /\ pc[x] = "idle" /\ lock = Nobody
  /\ Interrupted(status[o]) # status[o]
  /\ Save(o, Interrupted(status[o]))
  /\ UNCHANGED <<files, assets, local, budgets, ghosts>>

-----------------------------------------------------------------------------
\* The environment.

\* The process dies, or a journal write fails and the call returns as it stands.
\* A write of an artifact or of a staging file may be cut short.
Crash(x) ==
  /\ pc[x] # "idle"
  /\ Fault
  /\ Leave(x)
  /\ \/ UNCHANGED assets
     \/ /\ pc[x] = "backup" /\ More(x)
        /\ \/ /\ Exists(Before(x))
              /\ backup' = [backup EXCEPT ![op[x]][Path(x)] = Torn]
              /\ UNCHANGED candidate
           \/ /\ Exists(After(Entry(x)))
              /\ backup' = [backup EXCEPT ![op[x]][Path(x)] = Before(x).content]
              /\ candidate' = [candidate EXCEPT ![op[x]][Path(x)] = Torn]
        /\ UNCHANGED staged
     \/ /\ TornWrites /\ pc[x] = "restore" /\ More(x)
        /\ MayRestore(x) /\ NeedsStaging(x) /\ staged[op[x]][Path(x)] = Absent
        /\ staged' = [staged EXCEPT ![op[x]][Path(x)] = Torn]
        /\ UNCHANGED <<backup, candidate>>
  /\ UNCHANGED <<files, journal, ghosts>>

ForeignBudget == foreign < MaxForeign /\ foreign' = foreign + 1 /\ UNCHANGED faults

\* A program that does not take the lock writes, replaces or deletes a file.
ForeignWrite(p) ==
  /\ ForeignBudget
  /\ \/ \E c \in Content, i \in FreshIds :
          file' = [file EXCEPT ![p] = [content |-> c, id |-> i]]
     \/ Exists(file[p]) /\ file' = [file EXCEPT ![p] = NoFile]
  /\ raced' = raced \cup {p}
  /\ UNCHANGED <<quarantine, assets, journal, local, damaged, touched, spent>>

\* A program that had a deleted file open writes to it in the quarantine.
ForeignLateWrite(o, p) ==
  /\ ForeignBudget
  /\ Exists(quarantine[o][p])
  /\ \E c \in Content, i \in FreshIds :
       quarantine' = [quarantine EXCEPT ![o][p] = [content |-> c, id |-> i]]
  /\ UNCHANGED <<file, assets, journal, local, ghosts>>

\* A backup or a candidate is altered or lost.
Damage(o, p) ==
  /\ ForeignBudget
  /\ \/ backup[o][p] # Absent /\ backup' = [backup EXCEPT ![o][p] = Torn] /\ UNCHANGED candidate
     \/ candidate[o][p] # Absent /\ candidate' = [candidate EXCEPT ![o][p] = Torn] /\ UNCHANGED backup
  /\ damaged' = damaged \cup {<<o, p>>}
  /\ UNCHANGED <<files, staged, journal, local, raced, touched, spent>>

-----------------------------------------------------------------------------
\* The specification.

Init ==
  /\ file = Original
  /\ quarantine = [o \in Ops |-> [p \in Paths |-> NoFile]]
  /\ backup = [o \in Ops |-> [p \in Paths |-> Absent]]
  /\ candidate = backup /\ staged = backup
  /\ status = [o \in Ops |-> "none"]
  /\ before = quarantine
  /\ attempts = [o \in Ops |-> 0]
  /\ lock = Nobody
  /\ pc = [x \in Executors |-> "idle"]
  /\ op = [x \in Executors |-> NoOp]
  /\ at = [x \in Executors |-> 0]
  /\ failed = [x \in Executors |-> FALSE]
  /\ ticket = [x \in Executors |-> 0]
  /\ faults = 0 /\ foreign = 0
  /\ raced = {} /\ damaged = {} /\ touched = {}
  /\ spent = [o \in Ops |-> {}]

Prepare(x) ==
  \/ PrepareScan(x) \/ PrepareJournal(x) \/ PrepareBackup(x)
  \/ PrepareFail(x) \/ PrepareReady(x)
Apply(x) ==
  \/ ApplyCheck(x) \/ ApplyJournal(x) \/ ApplyStage(x) \/ ApplyRecheck(x)
  \/ ApplyReplace(x) \/ ApplyConflict(x) \/ ApplyError(x)
  \/ ApplyInstalled(x) \/ ApplyVerify(x) \/ ApplyCommit(x)
Recover(x) ==
  \/ RecoverRefused(x) \/ CancelCheck(x) \/ CancelEnd(x)
  \/ RestoreSkip(x) \/ RestoreConflict(x) \/ RestoreDirect(x) \/ RestoreStage(x)
  \/ RestoreRecheck(x) \/ RestoreReplace(x) \/ RestoreError(x)
  \/ RestoreGiveUp(x) \/ RestoreEnd(x)
  \/ ConfirmEntry(x) \/ ConfirmConflict(x) \/ ConfirmEnd(x)
Call(x, o) ==
  \/ PrepareBegin(x, o) \/ ApplyBegin(x, o) \/ Reserve(x, o)
  \/ CancelBegin(x, o) \/ RestoreBegin(x, o) \/ Reconcile(x, o)
Environment ==
  \/ \E p \in Paths : ForeignWrite(p)
  \/ \E o \in Ops, p \in Paths : ForeignLateWrite(o, p) \/ Damage(o, p)

\* Every prepared operation is settled and no executor is at work.
Settled ==
  /\ \A x \in Executors : pc[x] = "idle"
  /\ \A o \in Ops : status[o] \in {"recovered", "preparation_failed"}
  /\ UNCHANGED vars

Next ==
  \/ \E x \in Executors : Prepare(x) \/ Apply(x) \/ Recover(x) \/ Crash(x)
  \/ \E x \in Executors, o \in Ops : Call(x, o)
  \/ Environment
  \/ Settled

Spec == Init /\ [][Next]_vars

-----------------------------------------------------------------------------
\* Types.

Steps == {"idle", "scan", "backup", "check", "apply", "recheck", "replace", "unsynced",
          "verify", "reserved", "cancel", "restore", "restage", "remove", "return", "reinstall",
          "confirm"}

FilesTyped ==
  /\ file \in [Paths -> File]
  /\ quarantine \in [Ops -> [Paths -> File]]
AssetsTyped ==
  /\ backup \in [Ops -> [Paths -> Artifact]]
  /\ candidate \in [Ops -> [Paths -> Artifact]]
  /\ staged \in [Ops -> [Paths -> Artifact]]
JournalTyped ==
  /\ status \in [Ops -> J!Status]
  /\ before \in [Ops -> [Paths -> File]]
  /\ attempts \in [Ops -> 0..MaxRepair]
LocalTyped ==
  /\ pc \in [Executors -> Steps]
  /\ op \in [Executors -> Ops \cup {NoOp}]
  /\ at \in [Executors -> Nat]
  /\ failed \in [Executors -> BOOLEAN]
  /\ ticket \in [Executors -> 0..MaxRepair]
  /\ lock \in Executors \cup {Nobody}
BudgetsTyped == faults \in 0..MaxFaults /\ foreign \in 0..MaxForeign
GhostsTyped ==
  /\ raced \subseteq Paths /\ damaged \subseteq Ops \X Paths /\ touched \subseteq Ops
  /\ spent \in [Ops -> SUBSET (0..MaxRepair)]

\* Every variable keeps its type; the type invariant of this module.
TypeOK ==
  /\ FilesTyped /\ AssetsTyped /\ JournalTyped
  /\ LocalTyped /\ BudgetsTyped /\ GhostsTyped

-----------------------------------------------------------------------------
\* Safety.

Changes(o) == {Request[o][i] : i \in 1..Len(Request[o])}

\* A target file changes by an executor's hand only while the journal already
\* says so, and what the change destroys is what the operation recorded: the
\* very file that was prepared when applying, the operation's own output when
\* restoring.  The exception the code has is a foreign write that falls between
\* the last check and the rename (engine.go:643-685 and 800-861; "detected
\* conflicting files remain untouched", docs/recovery.md:163-164).
DestroysOnlyReviewed ==
  [][\A p \in Paths : file'[p] # file[p] /\ foreign' = foreign =>
       \E x \in Executors : lock = x /\ \E c \in Changes(op[x]) :
         /\ c.path = p
         /\ status[op[x]] \in {"applying", "rolling_back"}
         /\ \/ p \in raced
            \/ /\ status[op[x]] = "applying"
               /\ Matches(file[p], before[op[x]][p], TRUE)
            \/ /\ status[op[x]] = "rolling_back"
               /\ Matches(file[p], After(c), FALSE)]_vars

\* "committed" is recorded only over verified outputs and "recovered" only over
\* verified originals, of every entry at once, unless a foreign write came after
\* the entry was read (engine.go:532-558, 710-731 and 785-797).
OutcomeVerified ==
  [][\A o \in Ops : \A c \in Changes(o) :
       status'[o] # status[o] /\ c.path \notin raced =>
         /\ status'[o] = "committed" => Matches(file[c.path], After(c), FALSE)
         /\ status'[o] = "recovered" => Matches(file[c.path], before[o][c.path], FALSE)]_vars

\* From the moment an operation is ready its originals and candidates are whole
\* on disk, whatever crashed while they were written (engine.go:346-378).
ReadyArtifactsWhole ==
  \A o \in Ops : status[o] \notin {"none", "preparing", "preparation_failed"} =>
    \A c \in Changes(o) : <<o, c.path>> \notin damaged =>
      /\ Exists(before[o][c.path]) => backup[o][c.path] = before[o][c.path].content
      /\ Exists(After(c)) => candidate[o][c.path] = c.content

\* A model dispatches at most MaxRepair repairs of an operation, each under an
\* attempt recorded before it and used once, through crashes, refusals and
\* several models (repair_budget.go:13-48, tools/recovery.go:153-157).
RepairBudget ==
  /\ \A o \in Ops : spent[o] \subseteq 1..MaxRepair
  /\ \A x \in Models : pc[x] = "reserved" /\ ticket[x] # 0 =>
       /\ ticket[x] \notin spent[op[x]]
       /\ \A y \in Models : pc[y] = "reserved" /\ op[y] = op[x] /\ ticket[y] = ticket[x] => x = y

\* Every step of a call that is neither idle nor waiting between a reservation
\* and its repair runs under the lock, with the journal at the status that step
\* belongs to; no other process moved it meanwhile (engine.go:161-172).
Intent(s) ==
  CASE s = "scan" -> {"none"}
    [] s = "backup" -> {"preparing"}
    [] s \in {"check", "cancel"} -> {"ready"}
    [] s \in {"apply", "recheck", "replace", "unsynced"} -> {"applying"}
    [] s = "verify" -> {"verifying"}
    [] s \in {"restore", "restage", "remove", "return", "reinstall", "confirm"} -> {"rolling_back"}
    [] OTHER -> J!Status
JournalledIntent ==
  \A x \in Executors :
    /\ pc[x] \notin {"idle", "reserved"} => lock = x /\ op[x] \in Ops
    /\ pc[x] # "idle" => status[op[x]] \in Intent(pc[x])

\* The executor implements the lifecycle the journal promises: in particular an
\* operation whose status says it was not applied has changed nothing, and one
\* that is recovered is never applied, restored or reopened again
\* (engine.go:468-473, 697-725 and 865-881).
ImplementsJournal == J!Spec

-----------------------------------------------------------------------------
\* Liveness.

\* A call that has begun is carried on unless it crashes, and an operator keeps
\* asking for the recovery of an operation whose application did not finish.
NeedsRecovery(o) == status[o] \in J!Restorable \ {"committed"}
OperatorRecovers(o) ==
  NeedsRecovery(o) /\ \E x \in Executors \ Models : RestoreBegin(x, o)
Fairness ==
  /\ \A x \in Executors : WF_vars(Prepare(x) \/ Apply(x) \/ Recover(x))
  /\ \A o \in Ops : SF_vars(OperatorRecovers(o))
FairSpec == Spec /\ Fairness

\* An application that began ends committed, or the originals come back, however
\* it was interrupted ("A fresh process can recover partially applied
\* operations", docs/recovery.md:172-173).
InterruptedRecovers ==
  \A o \in Ops : NeedsRecovery(o) ~> status[o] \in {"committed", "recovered"}
=============================================================================
