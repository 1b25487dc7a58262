---------------------------- MODULE WorkbenchProofs ---------------------------
(***************************************************************************)
(* What holds of the snapshot adapter, of the console's jobs, of its       *)
(* settings and of its chat, for any numbers of operations, trees, jobs,   *)
(* edits, messages, conversations, and any capacity of the event channel.  *)
(*                                                                         *)
(* SnapInv adds to the types that no subvolume is at two places and what   *)
(* the operation under the lock has found before each of its steps;        *)
(* JobsInv that one creation is under way at most and that a draft nobody  *)
(* waits for was made no job; SettingsInv that one save of each kind is    *)
(* under way at most, that the form stays as it was saved until the result *)
(* arrives, but for choices on their way, and where draft, service and     *)
(* file agree; ChatInv that one turn runs at a time, that an approval      *)
(* event under way is the only one of an approval nobody has seen, and     *)
(* what an answer under way says of the turns.                             *)
(***************************************************************************)
EXTENDS Snapshot, JobsTab, Settings, ChatTab, WellFoundedInduction, FiniteSetTheorems, TLAPS

-----------------------------------------------------------------------------
\* Snapshots.

\* Every subvolume is at one place: at the path or the artifact of one operation.
OnePlace ==
  /\ \A o \in SnapOps : store[o] # live
  /\ \A o, p \in SnapOps : store[o] = store[p] /\ store[o] # NoTree => o = p

\* A restore depends on the checkpoint it was prepared from.
Bound ==
  \A o \in Restores : snap[o].status # "none" =>
    snap[o].from \in Checkpoints /\ snap[o].clone \in Subvolumes /\ tree[snap[o].clone] # NoTree

AsReviewed(c) ==
  /\ store[c] # NoTree /\ tree[store[c]].ro
  /\ InventoryOf(store[c]) = snap[c].desired
  /\ snap[c].receipt = store[c]

\* What the operation under the lock has found before each of its steps.
Underway ==
  run # NoTree =>
    /\ tree[run.h] # NoTree
    /\ snap[run.op].status # "none"
    /\ run.at = "native" => store[run.op] = NoTree
    /\ run.at = "inventory" => run.op \in Checkpoints /\ store[run.op] # NoTree
    /\ run.at \in {"exchange", "swap"} => run.op \in Restores /\ store[run.op] # NoTree
    /\ run.at = "swap" => live = snap[run.op].source
    /\ run.at \in {"exchanged", "verify"} => run.op \in Restores
    /\ run.at = "finish" /\ run.op \in Checkpoints => AsReviewed(run.op)

CheckpointsStand == \A c \in Checkpoints : snap[c].status = "committed" => AsReviewed(c)

SnapInv == SnapTypeOK /\ OnePlace /\ Bound /\ Underway /\ CheckpointsStand

-----------------------------------------------------------------------------
\* Jobs.

NoJobOf(d) == \A j \in DOMAIN made : made[j] # d
OneJobOf(d) == \E j \in DOMAIN made : made[j] = d /\ \A k \in DOMAIN made : made[k] = d => k = j

\* Drafts and jobs are numbered alike: a draft is the job it would be now, or a
\* later one, so that a new draft was never made a job.
Numbered ==
  /\ Cardinality(DOMAIN made) \in Nat /\ DOMAIN made = 1 .. Cardinality(DOMAIN made)
  /\ \A j \in DOMAIN made : made[j] \in Nat /\ made[j] <= j
  /\ jtab.draft \in 0 .. Cardinality(DOMAIN made) + 1

Drafted ==
  /\ {"list", "mode", "draft", "creating"} \subseteq DOMAIN jtab
  /\ jtab.creating \in BOOLEAN
  /\ jtab.creating \/ jtab.mode = "create" => jtab.draft # NoDraft
  /\ jtab.draft # NoDraft /\ ~jtab.creating => NoJobOf(jtab.draft)

\* One creation is under way at most: an operation or its outcome.
OneCreation ==
  /\ \A o \in doing :
       /\ o = [op |-> o.op, job |-> o.job]
       /\ o.op = "create" => jtab.creating /\ o.job = jtab.draft /\ NoJobOf(jtab.draft)
  /\ \A m \in post : m.type = "action" =>
       /\ m = [type |-> "action", created |-> m.created, ok |-> m.ok]
       /\ m.created \in BOOLEAN /\ m.ok \in BOOLEAN
       /\ m.created =>
            /\ jtab.creating /\ \A o \in doing : o.op # "create"
            /\ IF m.ok THEN OneJobOf(jtab.draft) ELSE NoJobOf(jtab.draft)
            /\ \A n \in post : n.type = "action" /\ n.created => n.ok = m.ok

JobsInv == Numbered /\ Drafted /\ OneCreation

-----------------------------------------------------------------------------
\* Settings.

\* While a save is under way nothing but its result changes the draft, or a choice
\* that was on its way when the user saved and quit: the form is closed to keys and
\* editors, or the question on leaving is.
Closed ==
  /\ form.saving => ~form.editing /\ form.child = NoChild
  /\ desk.quitSaving => desk.confirm /\ form.pending = {} /\ OnTheirWay \subseteq given.aloft

Awaited(by) == IF by = "saved" THEN form.saving ELSE desk.quitSaving

\* The choices that may have come to the draft since it was saved.
Late == IF form.dirty /\ ~form.saving /\ desk.quitSaving THEN given.aloft ELSE {}
Drafts(cfg) == cfg \subseteq form.draft /\ form.draft \subseteq cfg \cup Late

\* A save of each kind is awaited by who began it, and there is one at most: a
\* goroutine or its result.
OneSave ==
  /\ \A w \in writers : Drafts(w.cfg) /\ Awaited(w.by)
  /\ \A m \in news : IF m.type = "child" THEN m.id # NoChild ELSE Awaited(m.type)
  /\ \A v, w \in writers : v.by = w.by => v = w
  /\ \A m, n \in news : m.type # "child" /\ m.type = n.type => m = n
  /\ \A w \in writers, m \in news : m.type # w.by

\* Where the draft, the service and the file agree.
Agreed ==
  /\ ~form.dirty => form.draft = service.cfg
  /\ file = service.cfg \/ \E w \in writers : w.step = "publish" /\ file = w.cfg
  /\ \A w \in writers : w.step = "publish" => file = w.cfg
  /\ \A m \in news : m.type # "child" /\ m.ok => Drafts(service.cfg) /\ Drafts(file)

SettingsInv == SettingsTypeOK /\ EditsKept /\ (~desk.gone => Closed /\ OneSave /\ Agreed)

-----------------------------------------------------------------------------
\* Proofs about snapshots.

ExecutorStep(o) ==
  \/ o \in Checkpoints /\ (PrepareSnapshot(o) \/ Inventory(o))
  \/ o \in Restores /\ ((\E c \in Checkpoints : PrepareSnapshotRestore(o, c))
                        \/ MayExchange(o) \/ Exchange(o) \/ Verifying(o) \/ Verify(o))
  \/ RunSnapshot(o) \/ MayClone(o) \/ Clone(o) \/ SnapFinish(o) \/ SnapFail(o) \/ SnapDie(o)

LEMMA SnapActs ==
  SnapNext => ForeignWrite \/ \E o \in SnapOps : ExecutorStep(o)
<1>1. ASSUME NEW o \in Checkpoints, PrepareSnapshot(o) \/ Inventory(o)
      PROVE  \E p \in SnapOps : ExecutorStep(p)
  BY <1>1, Zenon DEF ExecutorStep, SnapOps
<1>2. ASSUME NEW o \in Restores,
             \/ \E c \in Checkpoints : PrepareSnapshotRestore(o, c)
             \/ MayExchange(o) \/ Exchange(o) \/ Verifying(o) \/ Verify(o)
      PROVE  \E p \in SnapOps : ExecutorStep(p)
  BY <1>2, Zenon DEF ExecutorStep, SnapOps
<1>3. ASSUME NEW o \in SnapOps,
             RunSnapshot(o) \/ MayClone(o) \/ Clone(o) \/ SnapFinish(o) \/ SnapFail(o) \/ SnapDie(o)
      PROVE  \E p \in SnapOps : ExecutorStep(p)
  BY <1>3, Zenon DEF ExecutorStep
<1> QED
  BY <1>1, <1>2, <1>3, Zenon DEF SnapNext

LEMMA SnapStarts ==
  SnapInit => SnapInv
<1> SUFFICES ASSUME SnapInit PROVE SnapInv
  OBVIOUS
<1>1. PICK v \in Versions : v = CHOOSE w \in Versions : TRUE
  BY SnapAssumption
<1>2. tree \in [Subvolumes -> Trees \cup {NoTree}] /\ tree[live] # NoTree /\ live \in Subvolumes
  <2>1. PICK r \in Trees : r = [parent |-> NoTree, version |-> v, ro |-> FALSE]
    BY DEF Trees
  <2>2. tree = [s \in Subvolumes |-> IF s = FirstTree THEN r ELSE NoTree]
    BY <1>1, <2>1 DEF SnapInit
  <2> QED
    BY <2>2, SnapAssumption DEF SnapInit
<1>3. NoRow \in SnapRow
  BY DEF NoRow, SnapRow, SnapStatus
<1>4. SnapTypeOK
  BY <1>2, <1>3, SnapAssumption DEF SnapInit, SnapTypeOK
<1>5. \A o \in SnapOps : snap[o].status = "none"
  BY DEF SnapInit, NoRow
<1> QED
  BY <1>4, <1>5, SnapAssumption
     DEF SnapInit, SnapInv, OnePlace, Bound, Underway, CheckpointsStand, SnapOps

\* A tree is what a clone makes of a tree.
LEMMA CloneIsATree ==
  ASSUME SnapInv, NEW o \in SnapOps, AtStep(o, "native"),
         o \in Restores => snap[o].clone \in Subvolumes /\ tree[snap[o].clone] # NoTree
  PROVE  [parent |-> Cloned(o), version |-> InventoryOf(Cloned(o)), ro |-> o \in Checkpoints] \in Trees
<1>1. Cloned(o) \in Subvolumes /\ tree[Cloned(o)] # NoTree
  BY SnapAssumption DEF SnapInv, SnapTypeOK, Underway, AtStep, Cloned, SnapOps
<1>2. PICK s \in Subvolumes : s = Cloned(o)
  BY <1>1
<1>3. tree[s] \in Trees
  BY <1>1, <1>2 DEF SnapInv, SnapTypeOK
<1> QED
  BY <1>2, <1>3 DEF InventoryOf, Trees

LEMMA SnapTypesKept ==
  ASSUME SnapInv, SnapNext
  PROVE  SnapTypeOK'
<1>t. SnapTypeOK
  BY DEF SnapInv
<1>1. CASE ForeignWrite
  BY <1>t, <1>1, SnapAssumption DEF ForeignWrite, SnapTypeOK, Trees
<1>2. ASSUME NEW o \in SnapOps, ExecutorStep(o) PROVE SnapTypeOK'
  <2>1. CASE PrepareSnapshot(o)
    <3>1. tree[live] \in Trees
      BY <1>t DEF SnapTypeOK
    <3>2. InventoryOf(live) \in Versions
      BY <3>1 DEF InventoryOf, Trees
    <3>3. PICK v \in Versions : v = InventoryOf(live)
      BY <3>2
    <3> QED
      BY <1>t, <2>1, <3>3, SnapAssumption DEF PrepareSnapshot, SnapTypeOK, SnapRow, SnapStatus, NoRow
  <2>2. ASSUME NEW c \in Checkpoints, PrepareSnapshotRestore(o, c) PROVE SnapTypeOK'
    <3>1. tree[live] \in Trees
      BY <1>t DEF SnapTypeOK
    <3>2. InventoryOf(live) \in Versions
      BY <3>1 DEF InventoryOf, Trees
    <3>3. PICK v \in Versions : v = InventoryOf(live)
      BY <3>2
    <3> QED
      BY <1>t, <2>2, <3>3, SnapAssumption
         DEF PrepareSnapshotRestore, ReceiptHolds, SnapTypeOK, SnapRow, SnapStatus, SnapOps, NoRow
  <2>3. CASE RunSnapshot(o)
    BY ZenonT(60), <1>t, <2>3 DEF RunSnapshot, SnapTypeOK, SnapRow, SnapStatus, SnapSteps
  <2>4. CASE MayClone(o)
    BY <1>t, <2>4 DEF MayClone, AtStep, GoTo, SnapTypeOK, SnapSteps
  <2>5. CASE Clone(o)
    <3>1. o \in Restores => snap[o].clone \in Subvolumes /\ tree[snap[o].clone] # NoTree
      BY <2>5 DEF SnapInv, Bound, Underway, Clone, AtStep
    <3>2. PICK r \in Trees : r = [parent |-> Cloned(o), version |-> InventoryOf(Cloned(o)), ro |-> o \in Checkpoints]
      BY <2>5, <3>1, CloneIsATree DEF Clone
    <3> QED
      BY <1>t, <2>5, <3>2, SnapAssumption DEF Clone, AtStep, GoTo, SnapTypeOK, SnapSteps
  <2>6. CASE Inventory(o)
    BY <1>t, <2>6 DEF Inventory, AtStep, GoTo, SnapTypeOK, SnapRow, SnapSteps
  <2>7. CASE MayExchange(o)
    BY <1>t, <2>7 DEF MayExchange, AtStep, GoTo, SnapTypeOK, SnapSteps
  <2>8. CASE Exchange(o)
    BY <1>t, <2>8, SnapAssumption
       DEF Exchange, ExchangeTrees, AtStep, GoTo, SnapTypeOK, SnapSteps, SnapInv, Underway
  <2>9. CASE Verifying(o)
    BY <1>t, <2>9 DEF Verifying, AtStep, GoTo, SnapTypeOK, SnapRow, SnapStatus, SnapSteps
  <2>10. CASE Verify(o)
    BY <1>t, <2>10 DEF Verify, AtStep, GoTo, SnapTypeOK, SnapSteps
  <2>11. CASE SnapFinish(o)
    BY <1>t, <2>11 DEF SnapFinish, SnapTypeOK, SnapRow, SnapStatus
  <2>12. CASE SnapFail(o)
    BY <1>t, <2>12 DEF SnapFail, SnapTypeOK, SnapRow, SnapStatus
  <2>13. CASE SnapDie(o)
    BY <1>t, <2>13, SnapAssumption DEF SnapDie, SnapTypeOK
  <2> QED
    BY <1>2, <2>1, <2>2, <2>3, <2>4, <2>5, <2>6, <2>7, <2>8, <2>9, <2>10, <2>11, <2>12, <2>13 DEF ExecutorStep
<1> QED
  BY <1>1, <1>2, SnapActs

LEMMA OnePlaceKept ==
  ASSUME SnapInv, SnapNext
  PROVE  OnePlace'
<1>t. SnapTypeOK /\ OnePlace
  BY DEF SnapInv
<1>1. CASE UNCHANGED <<store, live>>
  BY <1>t, <1>1 DEF OnePlace
<1>2. ASSUME NEW o \in SnapOps, Clone(o) PROVE OnePlace'
  <2>1. store[o] = NoTree
    BY <1>2 DEF SnapInv, Underway, Clone, AtStep
  <2> QED
    BY <1>t, <1>2, <2>1 DEF Clone, SnapTypeOK, OnePlace
<1>3. ASSUME NEW o \in SnapOps, Exchange(o) PROVE OnePlace'
  <2>1. store[o] # NoTree
    BY <1>3 DEF SnapInv, Underway, Exchange, AtStep
  <2> QED
    BY <1>t, <1>3, <2>1, SnapAssumption DEF Exchange, ExchangeTrees, SnapTypeOK, OnePlace
<1>4. ASSUME NEW o \in SnapOps, ExecutorStep(o)
      PROVE  Clone(o) \/ Exchange(o) \/ UNCHANGED <<store, live>>
  BY <1>4 DEF ExecutorStep, PrepareSnapshot, PrepareSnapshotRestore, RunSnapshot, MayClone, Inventory,
              MayExchange, Verifying, Verify, SnapFinish, SnapFail, SnapDie
<1>5. ForeignWrite => UNCHANGED <<store, live>>
  BY DEF ForeignWrite
<1> QED
  BY <1>1, <1>2, <1>3, <1>4, <1>5, SnapActs

\* No tree is ever removed, and a read-only one never changes.
LEMMA TreesStay ==
  ASSUME SnapInv, SnapNext, NEW s \in Subvolumes, tree[s] # NoTree
  PROVE  tree'[s] # NoTree /\ (tree[s].ro => tree'[s] = tree[s])
<1>t. SnapTypeOK /\ SnapTypeOK'
  BY SnapTypesKept DEF SnapInv
<1>1. CASE ForeignWrite
  BY <1>t, <1>1, SnapAssumption DEF ForeignWrite, SnapTypeOK, Trees
<1>2. ASSUME NEW o \in SnapOps, Clone(o) PROVE tree'[s] = tree[s]
  BY <1>t, <1>2 DEF Clone, SnapTypeOK
<1>3. ASSUME NEW o \in SnapOps, ExecutorStep(o)
      PROVE  Clone(o) \/ UNCHANGED tree
  BY <1>3 DEF ExecutorStep, PrepareSnapshot, PrepareSnapshotRestore, RunSnapshot, MayClone, Inventory,
              MayExchange, Exchange, Verifying, Verify, SnapFinish, SnapFail, SnapDie
<1> QED
  BY <1>1, <1>2, <1>3, SnapActs

LEMMA BoundKept ==
  ASSUME SnapInv, SnapNext
  PROVE  Bound'
<1>t. SnapTypeOK /\ Bound
  BY DEF SnapInv
<1>1. ASSUME NEW o \in Restores, snap'[o].status # "none",
             snap[o].status # "none", snap'[o].from = snap[o].from, snap'[o].clone = snap[o].clone
      PROVE  snap'[o].from \in Checkpoints /\ snap'[o].clone \in Subvolumes /\ tree'[snap'[o].clone] # NoTree
  BY <1>t, <1>1, TreesStay DEF Bound
<1>2. ASSUME NEW o \in Restores, NEW c \in Checkpoints, PrepareSnapshotRestore(o, c)
      PROVE  snap'[o].from \in Checkpoints /\ snap'[o].clone \in Subvolumes /\ tree'[snap'[o].clone] # NoTree
  <2>1. snap'[o].from = c /\ snap'[o].clone = store[c]
    BY <1>t, <1>2 DEF PrepareSnapshotRestore, SnapTypeOK, NoRow, SnapOps
  <2> QED
    BY <1>t, <1>2, <2>1 DEF PrepareSnapshotRestore, ReceiptHolds, SnapTypeOK, SnapOps
<1>3. ASSUME NEW o \in SnapOps, ExecutorStep(o), NEW p \in Restores, snap'[p].status # "none"
      PROVE  \/ snap[p].status # "none" /\ snap'[p].from = snap[p].from /\ snap'[p].clone = snap[p].clone
             \/ o = p /\ \E c \in Checkpoints : PrepareSnapshotRestore(o, c)
  <2>u. CASE UNCHANGED snap
    BY <1>3, <2>u
  <2>1. CASE o \in Checkpoints /\ PrepareSnapshot(o)
    BY <1>t, <1>3, <2>1, SnapAssumption DEF PrepareSnapshot, SnapTypeOK, SnapOps
  <2>2. ASSUME NEW c \in Checkpoints, PrepareSnapshotRestore(o, c), o # p
        PROVE  snap'[p] = snap[p]
    BY <1>t, <2>2 DEF PrepareSnapshotRestore, SnapTypeOK, SnapOps
  <2>3. CASE RunSnapshot(o)
    BY <1>t, <1>3, <2>3 DEF RunSnapshot, SnapTypeOK, SnapRow, SnapOps
  <2>4. CASE Inventory(o)
    BY <1>t, <1>3, <2>4 DEF Inventory, SnapTypeOK, SnapRow, SnapOps
  <2>5. CASE Verifying(o) \/ SnapFinish(o) \/ SnapFail(o)
    <3>1. snap[o].status # "none"
      BY <2>5 DEF SnapInv, Underway, Verifying, SnapFinish, SnapFail, AtStep
    <3> QED
      BY <1>t, <1>3, <2>5, <3>1 DEF Verifying, SnapFinish, SnapFail, SnapTypeOK, SnapRow, SnapOps
  <2>6. MayClone(o) \/ Clone(o) \/ MayExchange(o) \/ Exchange(o) \/ Verify(o) \/ SnapDie(o) => UNCHANGED snap
    BY DEF MayClone, Clone, MayExchange, Exchange, Verify, SnapDie
  <2> QED
    BY <1>3, <2>u, <2>1, <2>2, <2>3, <2>4, <2>5, <2>6 DEF ExecutorStep
<1>4. ASSUME ForeignWrite, NEW p \in Restores, snap'[p].status # "none"
      PROVE  snap[p].status # "none" /\ snap'[p].from = snap[p].from /\ snap'[p].clone = snap[p].clone
  BY <1>4 DEF ForeignWrite
<1>5. ASSUME NEW p \in Restores, snap'[p].status # "none"
      PROVE  snap'[p].from \in Checkpoints /\ snap'[p].clone \in Subvolumes /\ tree'[snap'[p].clone] # NoTree
  <2>1. CASE ForeignWrite
    BY <1>1, <1>4, <1>5, <2>1
  <2>2. ASSUME NEW o \in SnapOps, ExecutorStep(o)
        PROVE  snap'[p].from \in Checkpoints /\ snap'[p].clone \in Subvolumes /\ tree'[snap'[p].clone] # NoTree
    BY <1>1, <1>2, <1>3, <1>5, <2>2
  <2> QED
    BY <2>1, <2>2, SnapActs
<1> QED
  BY <1>5 DEF Bound

\* What a step does to the rows.
LEMMA RowsMove ==
  ASSUME SnapInv, SnapNext, NEW p \in SnapOps, snap[p].status # "none"
  PROVE  /\ snap'[p].status # "none"
         /\ snap'[p].source = snap[p].source /\ snap'[p].desired = snap[p].desired
         /\ snap'[p].receipt = snap[p].receipt \/ snap'[p].receipt = store[p]
         /\ snap'[p].status = "committed" /\ snap[p].status # "committed" => p \in Checkpoints /\ SnapFinish(p)
<1>t. SnapTypeOK
  BY DEF SnapInv
<1>u. CASE UNCHANGED snap
  BY <1>u
<1>1. ASSUME NEW o \in SnapOps, RunSnapshot(o) \/ Verifying(o) \/ SnapFail(o), snap'[p] # snap[p]
      PROVE  /\ snap'[p].status \notin {"none", "committed"}
             /\ snap'[p].source = snap[p].source /\ snap'[p].desired = snap[p].desired
             /\ snap'[p].receipt = snap[p].receipt
  BY <1>t, <1>1 DEF RunSnapshot, Verifying, SnapFail, SnapTypeOK, SnapRow
<1>2. ASSUME NEW o \in SnapOps, SnapFinish(o), snap'[p] # snap[p]
      PROVE  /\ snap'[p].status # "none" /\ o = p
             /\ snap'[p].status = "committed" => p \in Checkpoints
             /\ snap'[p].source = snap[p].source /\ snap'[p].desired = snap[p].desired
             /\ snap'[p].receipt = snap[p].receipt
  BY <1>t, <1>2 DEF SnapFinish, SnapTypeOK, SnapRow
<1>3. ASSUME NEW o \in SnapOps, Inventory(o), snap'[p] # snap[p]
      PROVE  /\ snap'[p].status = snap[p].status
             /\ snap'[p].source = snap[p].source /\ snap'[p].desired = snap[p].desired
             /\ snap'[p].receipt = store[p]
  BY <1>t, <1>3 DEF Inventory, SnapTypeOK, SnapRow
<1>4. ASSUME NEW o \in SnapOps,
             PrepareSnapshot(o) \/ \E c \in Checkpoints : PrepareSnapshotRestore(o, c)
      PROVE  snap'[p] = snap[p]
  BY <1>t, <1>4 DEF PrepareSnapshot, PrepareSnapshotRestore, SnapTypeOK
<1>5. ASSUME NEW o \in SnapOps, MayClone(o) \/ Clone(o) \/ MayExchange(o) \/ Exchange(o) \/ Verify(o) \/ SnapDie(o)
      PROVE  UNCHANGED snap
  BY <1>5 DEF MayClone, Clone, MayExchange, Exchange, Verify, SnapDie
<1>6. ForeignWrite => UNCHANGED snap
  BY DEF ForeignWrite
<1>7. CASE snap'[p] = snap[p]
  BY <1>7
<1>8. ASSUME NEW o \in SnapOps, ExecutorStep(o), snap'[p] # snap[p]
      PROVE  RunSnapshot(o) \/ Verifying(o) \/ SnapFail(o) \/ SnapFinish(o) \/ Inventory(o)
  BY <1>4, <1>5, <1>8 DEF ExecutorStep
<1> QED
  BY <1>1, <1>2, <1>3, <1>6, <1>7, <1>8, SnapActs

LEMMA PreparedFirst ==
  ASSUME SnapInv, SnapNext, NEW p \in SnapOps, snap[p].status = "none"
  PROVE  snap'[p].status # "committed"
<1>t. SnapTypeOK
  BY DEF SnapInv
<1>1. ASSUME NEW o \in SnapOps, RunSnapshot(o) \/ Verifying(o) \/ SnapFail(o) \/ Inventory(o)
      PROVE  snap'[p].status # "committed"
  BY <1>t, <1>1 DEF RunSnapshot, Verifying, SnapFail, Inventory, SnapTypeOK, SnapRow
<1>2. ASSUME NEW o \in SnapOps, SnapFinish(o)
      PROVE  snap'[p].status # "committed"
  <2>1. o # p
    BY <1>2 DEF SnapFinish, AtStep, SnapInv, Underway
  <2> QED
    BY <1>t, <1>2, <2>1 DEF SnapFinish, SnapTypeOK
<1>3. ASSUME NEW o \in SnapOps, PrepareSnapshot(o) \/ \E c \in Checkpoints : PrepareSnapshotRestore(o, c)
      PROVE  snap'[p].status # "committed"
  BY ZenonT(60), <1>t, <1>3 DEF PrepareSnapshot, PrepareSnapshotRestore, SnapTypeOK, NoRow
<1>4. ASSUME NEW o \in SnapOps, MayClone(o) \/ Clone(o) \/ MayExchange(o) \/ Exchange(o) \/ Verify(o) \/ SnapDie(o)
      PROVE  UNCHANGED snap
  BY <1>4 DEF MayClone, Clone, MayExchange, Exchange, Verify, SnapDie
<1>5. ForeignWrite => UNCHANGED snap
  BY DEF ForeignWrite
<1>6. ASSUME NEW o \in SnapOps, ExecutorStep(o) PROVE snap'[p].status # "committed"
  BY <1>1, <1>2, <1>3, <1>4, <1>6 DEF ExecutorStep
<1> QED
  BY <1>5, <1>6, SnapActs

\* Which trees change places.
LEMMA PlacesMove ==
  ASSUME SnapInv, SnapNext, NEW p \in SnapOps
  PROVE  \/ store'[p] = store[p]
         \/ Clone(p) /\ store[p] = NoTree /\ store'[p] # NoTree
         \/ p \in Restores /\ Exchange(p) /\ store[p] # NoTree /\ store'[p] = live /\ live' = store[p]
<1>t. SnapTypeOK
  BY DEF SnapInv
<1>1. ASSUME NEW o \in SnapOps, Clone(o), store'[p] # store[p]
      PROVE  o = p /\ store[p] = NoTree /\ store'[p] # NoTree
  BY <1>t, <1>1, SnapAssumption DEF Clone, AtStep, SnapTypeOK, SnapInv, Underway
<1>2. ASSUME NEW o \in SnapOps, Exchange(o), store'[p] # store[p]
      PROVE  o = p /\ p \in Restores /\ store[p] # NoTree /\ store'[p] = live /\ live' = store[p]
  BY <1>t, <1>2 DEF Exchange, ExchangeTrees, AtStep, SnapTypeOK, SnapInv, Underway
<1>4. ASSUME NEW o \in SnapOps, ExecutorStep(o)
      PROVE  Clone(o) \/ Exchange(o) \/ UNCHANGED <<store, live>>
  BY <1>4 DEF ExecutorStep, PrepareSnapshot, PrepareSnapshotRestore, RunSnapshot, MayClone, Inventory,
              MayExchange, Verifying, Verify, SnapFinish, SnapFail, SnapDie
<1>5. ForeignWrite => UNCHANGED <<store, live>>
  BY DEF ForeignWrite
<1> QED
  BY <1>1, <1>2, <1>4, <1>5, SnapActs

LEMMA ReviewStands ==
  ASSUME SnapInv, SnapNext, NEW c \in Checkpoints, snap[c].status # "none", AsReviewed(c)
  PROVE  AsReviewed(c)'
<1>1. c \in SnapOps /\ c \notin Restores
  BY SnapAssumption DEF SnapOps
<1>2. store'[c] = store[c]
  BY <1>1, PlacesMove DEF AsReviewed
<1>3. PICK s \in Subvolumes : s = store[c]
  BY <1>1, SnapAssumption DEF SnapInv, SnapTypeOK, AsReviewed
<1>4. tree[s] # NoTree
  BY <1>1, <1>3 DEF SnapInv, SnapTypeOK, AsReviewed
<1>5. tree'[s] = tree[s]
  BY <1>3, <1>4, TreesStay DEF AsReviewed
<1>6. snap'[c].desired = snap[c].desired /\ snap'[c].receipt \in {snap[c].receipt, store[c]}
  BY <1>1, RowsMove
<1> QED
  BY <1>2, <1>3, <1>5, <1>6 DEF AsReviewed, InventoryOf

LEMMA CheckpointsKept ==
  ASSUME SnapInv, SnapNext
  PROVE  CheckpointsStand'
<1>1. ASSUME NEW c \in Checkpoints, snap'[c].status = "committed" PROVE AsReviewed(c)'
  <2>1. c \in SnapOps
    BY DEF SnapOps
  <2>2. snap[c].status # "none"
    <3>1. ASSUME snap[c].status = "none" PROVE FALSE
      BY <1>1, <2>1, <3>1, PreparedFirst
    <3> QED
      BY <3>1
  <2>3. AsReviewed(c)
    <3>1. CASE snap[c].status = "committed"
      BY <3>1 DEF SnapInv, CheckpointsStand
    <3>2. CASE SnapFinish(c)
      BY <3>2 DEF SnapInv, Underway, SnapFinish, AtStep
    <3> QED
      BY <1>1, <2>1, <2>2, <3>1, <3>2, RowsMove
  <2> QED
    BY <2>2, <2>3, ReviewStands
<1> QED
  BY <1>1 DEF CheckpointsStand

LEMMA UnderwayKept ==
  ASSUME SnapInv, SnapNext
  PROVE  Underway'
<1>t. SnapTypeOK /\ SnapTypeOK' /\ Underway
  BY SnapTypesKept DEF SnapInv
<1>f. CASE ForeignWrite
  <2>1. UNCHANGED <<live, store, snap, run>>
    BY <1>f DEF ForeignWrite
  <2>2. ASSUME run # NoTree PROVE tree'[run.h] # NoTree
    BY <1>t, <2>2, TreesStay DEF Underway, SnapTypeOK
  <2>3. ASSUME run # NoTree, run.op \in Checkpoints, AsReviewed(run.op) PROVE AsReviewed(run.op)'
    <3>1. snap[run.op].status # "none"
      BY <1>t, <2>3 DEF Underway
    <3>2. PICK c \in Checkpoints : c = run.op
      BY <2>3
    <3>3. AsReviewed(c)'
      BY <2>3, <3>1, <3>2, ReviewStands
    <3> QED
      BY <2>1, <3>2, <3>3 DEF AsReviewed, InventoryOf
  <2> QED
    BY <1>t, <2>1, <2>2, <2>3 DEF Underway
<1>1. ASSUME NEW o \in SnapOps, ExecutorStep(o) PROVE Underway'
  <2>1. CASE run' = NoTree
    BY <2>1 DEF Underway
  <2>2. CASE RunSnapshot(o)
    <3>1. run' = [op |-> o, at |-> "clone", h |-> live] /\ tree'[live] # NoTree /\ snap'[o].status = "applying"
      BY <1>t, <2>2 DEF RunSnapshot, SnapTypeOK, SnapRow
    <3> QED
      BY <3>1 DEF Underway
  <2>3. ASSUME NEW s \in SnapSteps, AtStep(o, s),
               NEW next \in SnapSteps, GoTo(o, next),
               next = "native" => store'[o] = NoTree,
               next = "inventory" => o \in Checkpoints /\ store'[o] # NoTree,
               next \in {"exchange", "swap"} => o \in Restores /\ store'[o] # NoTree,
               next = "swap" => live' = snap'[o].source,
               next \in {"exchanged", "verify"} => o \in Restores,
               next = "finish" /\ o \in Checkpoints => AsReviewed(o)'
        PROVE  Underway'
    <3>1. run' = [op |-> o, at |-> next, h |-> run.h] /\ run # NoTree /\ run.op = o /\ run.h \in Subvolumes
      BY <1>t, <2>3 DEF GoTo, AtStep, SnapTypeOK
    <3>2. tree'[run.h] # NoTree
      BY <1>t, <3>1, TreesStay DEF Underway
    <3>3. snap'[o].status # "none"
      BY <1>t, <3>1, RowsMove DEF Underway
    <3>4. o \in Checkpoints /\ next = "finish" => AsReviewed(run.op)'
      BY <2>3, <3>1 DEF AsReviewed, InventoryOf
    <3> QED
      BY <2>3, <3>1, <3>2, <3>3, <3>4 DEF Underway
  <2>4. CASE MayClone(o)
    <3>1. UNCHANGED <<tree, live, store, snap>> /\ AtStep(o, "clone")
      BY <2>4 DEF MayClone
    <3>2. CASE store[o] = NoTree /\ GoTo(o, "native")
      BY <2>3, <3>1, <3>2 DEF SnapSteps
    <3>3. CASE store[o] # NoTree /\ o \in Checkpoints /\ GoTo(o, "inventory")
      BY <2>3, <3>1, <3>3 DEF SnapSteps
    <3>4. CASE store[o] # NoTree /\ o \in Restores /\ GoTo(o, "exchange")
      BY <2>3, <3>1, <3>4 DEF SnapSteps
    <3> QED
      BY <2>4, <3>2, <3>3, <3>4 DEF MayClone, SnapOps
  <2>5. CASE Clone(o)
    BY <2>3, <2>5 DEF Clone, SnapSteps
  <2>6. CASE o \in Checkpoints /\ Inventory(o)
    <3>1. store[o] # NoTree
      BY <1>t, <2>6 DEF Inventory, AtStep, Underway
    <3>2. AsReviewed(o)'
      BY <1>t, <2>6, <3>1 DEF Inventory, AsReviewed, InventoryOf, SnapTypeOK, SnapRow
    <3> QED
      BY <2>3, <2>6, <3>2 DEF Inventory, SnapSteps
  <2>7. CASE o \in Restores /\ MayExchange(o)
    <3>1. UNCHANGED <<tree, live, store, snap>> /\ AtStep(o, "exchange") /\ store[o] # NoTree
      BY <1>t, <2>7 DEF MayExchange, AtStep, Underway
    <3>2. CASE MatchingSource(o) /\ GoTo(o, "swap")
      BY <2>3, <2>7, <3>1, <3>2 DEF SnapSteps, MatchingSource
    <3>3. CASE GoTo(o, "exchanged")
      BY <2>3, <2>7, <3>1, <3>3 DEF SnapSteps
    <3> QED
      BY <2>7, <3>2, <3>3 DEF MayExchange
  <2>8. CASE o \in Restores /\ Exchange(o)
    BY <2>3, <2>8 DEF Exchange, SnapSteps
  <2>9. CASE o \in Restores /\ Verifying(o)
    BY <2>3, <2>9 DEF Verifying, SnapSteps
  <2>10. CASE o \in Restores /\ Verify(o)
    <3>1. o \notin Checkpoints
      BY <2>10, SnapAssumption
    <3> QED
      BY <2>3, <2>10, <3>1 DEF Verify, SnapSteps
  <2>11. SnapFinish(o) \/ SnapFail(o) \/ SnapDie(o) => run' = NoTree
    BY DEF SnapFinish, SnapFail, SnapDie
  <2>12. PrepareSnapshot(o) \/ (\E c \in Checkpoints : PrepareSnapshotRestore(o, c)) => run' = NoTree
    BY DEF PrepareSnapshot, PrepareSnapshotRestore
  <2> QED
    BY <1>1, <2>1, <2>2, <2>4, <2>5, <2>6, <2>7, <2>8, <2>9, <2>10, <2>11, <2>12 DEF ExecutorStep
<1> QED
  BY <1>f, <1>1, SnapActs

LEMMA SnapInductive ==
  SnapSpec => []SnapInv
<1>1. ASSUME SnapInv, [SnapNext]_snapVars PROVE SnapInv'
  <2>1. CASE SnapNext
    BY <1>1, <2>1, SnapTypesKept, OnePlaceKept, BoundKept, UnderwayKept, CheckpointsKept DEF SnapInv
  <2>2. CASE UNCHANGED snapVars
    BY <1>1, <2>2 DEF snapVars, SnapInv, SnapTypeOK, OnePlace, Bound, Underway, CheckpointsStand, AsReviewed, InventoryOf
  <2> QED
    BY <1>1, <2>1, <2>2
<1> QED
  BY <1>1, SnapStarts, PTL DEF SnapSpec

\* Types of the trees, the store and the journal rows of snapshot operations.
THEOREM SnapTypeCorrect == SnapSpec => []SnapTypeOK
<1>1. SnapInv => SnapTypeOK
  BY DEF SnapInv
<1> QED
  BY <1>1, SnapInductive, PTL

\* A committed checkpoint has the contents that were reviewed: the executor compares
\* the clone, which nobody can write to, not the source, which others may have written
\* to before it was cloned (createCheckpoint), and its record names that very clone.
THEOREM CheckpointsAreReviewed == SnapSpec => []CheckpointIsReviewed
<1>1. SnapInv => CheckpointIsReviewed
  BY DEF SnapInv, CheckpointsStand, AsReviewed, CheckpointIsReviewed
<1> QED
  BY <1>1, SnapInductive, PTL

\* No tree that was ever reachable stops being reachable, and the tree a restore
\* displaced is not made live again by resuming it: the exchange is reached only
\* from the reviewed live tree, and no subvolume is at two places (executeSnapshot,
\* nativeExchange).
THEOREM RestoresStand == SnapSpec => RestoreStands
<1>1. ASSUME SnapInv, [SnapNext]_snapVars
      PROVE  [/\ {live} \cup {store[o] : o \in SnapOps} \subseteq
                   {NoTree, live'} \cup {store'[o] : o \in SnapOps}
              /\ \A o \in Restores : store[o] = snap[o].source /\ store[o] # NoTree => store'[o] = store[o]]_snapVars
  <2>1. CASE SnapNext
    <3>1. ASSUME NEW o \in SnapOps
          PROVE  store[o] \in {NoTree, live'} \cup {store'[p] : p \in SnapOps}
      BY <1>1, <2>1, <3>1, PlacesMove
    <3>2. live \in {NoTree, live'} \cup {store'[p] : p \in SnapOps}
      <4>1. ASSUME NEW o \in SnapOps, Exchange(o) PROVE store'[o] = live
        BY <1>1, <4>1 DEF Exchange, ExchangeTrees, SnapInv, SnapTypeOK
      <4>2. ASSUME NEW o \in SnapOps, ExecutorStep(o) PROVE Exchange(o) \/ UNCHANGED live
        BY <4>2 DEF ExecutorStep, PrepareSnapshot, PrepareSnapshotRestore, RunSnapshot, MayClone, Clone,
                    Inventory, MayExchange, Verifying, Verify, SnapFinish, SnapFail, SnapDie
      <4>3. ForeignWrite => UNCHANGED live
        BY DEF ForeignWrite
      <4> QED
        BY <2>1, <4>1, <4>2, <4>3, SnapActs
    <3>3. ASSUME NEW o \in Restores, store[o] = snap[o].source, store[o] # NoTree
          PROVE  store'[o] = store[o]
      <4>1. o \in SnapOps
        BY DEF SnapOps
      <4>2. ~Exchange(o)
        BY <1>1, <3>3, <4>1 DEF Exchange, AtStep, SnapInv, Underway, OnePlace
      <4> QED
        BY <1>1, <2>1, <3>3, <4>1, <4>2, PlacesMove
    <3> QED
      BY <3>1, <3>2, <3>3
  <2>2. CASE UNCHANGED snapVars
    BY <2>2
  <2> QED
    BY <1>1, <2>1, <2>2
<1> QED
  BY <1>1, SnapInductive, PTL DEF SnapSpec, RestoreStands

-----------------------------------------------------------------------------
\* Proofs about jobs.

\* What most steps are: neither the draft nor a creation is concerned.
Unmoved ==
  /\ DOMAIN jtab' = DOMAIN jtab
  /\ jtab'.draft = jtab.draft /\ jtab'.creating = jtab.creating
  /\ jtab'.mode = "create" => jtab.mode = "create" \/ jtab.draft # NoDraft
  /\ made' = made
  /\ \A o \in doing' \ doing : o = [op |-> o.op, job |-> o.job] /\ o.op # "create"
  /\ \A m \in post' \ post : m.type = "action" =>
       m = [type |-> "action", created |-> FALSE, ok |-> m.ok] /\ m.ok \in BOOLEAN

LEMMA UnmovedKeeps ==
  ASSUME JobsInv, Unmoved
  PROVE  JobsInv'
<1>1. Numbered'
  BY DEF JobsInv, Unmoved, Numbered
<1>2. Drafted'
  BY DEF JobsInv, Unmoved, Drafted, NoJobOf
<1>3. OneCreation'
  <2>1. ASSUME NEW o \in doing'
        PROVE  /\ o = [op |-> o.op, job |-> o.job]
               /\ o.op = "create" => jtab'.creating /\ o.job = jtab'.draft /\ NoJobOf(jtab.draft)'
    BY <2>1 DEF JobsInv, Unmoved, OneCreation, NoJobOf
  <2>2. ASSUME NEW m \in post', m.type = "action", m \in post
        PROVE  /\ m = [type |-> "action", created |-> m.created, ok |-> m.ok]
               /\ m.created \in BOOLEAN /\ m.ok \in BOOLEAN
               /\ m.created =>
                    /\ jtab'.creating /\ \A o \in doing' : o.op # "create"
                    /\ IF m.ok THEN OneJobOf(jtab.draft)' ELSE NoJobOf(jtab.draft)'
                    /\ \A n \in post' : n.type = "action" /\ n.created => n.ok = m.ok
    <3>1. \A n \in post' : n.type = "action" /\ n.created => n \in post
      BY DEF Unmoved
    <3> QED
      BY <2>2, <3>1 DEF JobsInv, Unmoved, OneCreation, NoJobOf, OneJobOf
  <2>3. ASSUME NEW m \in post', m.type = "action", m \notin post
        PROVE  /\ m = [type |-> "action", created |-> m.created, ok |-> m.ok]
               /\ m.created = FALSE /\ m.ok \in BOOLEAN
    BY <2>3 DEF Unmoved
  <2> QED
    BY <2>1, <2>2, <2>3 DEF OneCreation
<1> QED
  BY <1>1, <1>2, <1>3 DEF JobsInv

LEMMA JobsStart ==
  JobsInit => JobsInv
<1> SUFFICES ASSUME JobsInit PROVE JobsInv
  OBVIOUS
<1>1. PICK n \in Nat : n = Len(FirstJobs)
  BY JobsAssumption
<1>2. DOMAIN made = 1 .. n /\ \A j \in DOMAIN made : made[j] = NoDraft
  BY <1>1, JobsAssumption DEF JobsInit
<1>3. Cardinality(DOMAIN made) = n
  BY <1>2, FS_Interval
<1> QED
  BY <1>2, <1>3 DEF JobsInit, NewJobsTab, JobsInv, Numbered, Drafted, OneCreation, NoDraft

LEMMA QuietMessages ==
  ASSUME JobsInv, NEW m \in post, JobMessage(m), ~(m.type = "action" /\ m.created)
  PROVE  Unmoved
<1>1. CASE ListArrives(m)
  <2>1. DOMAIN jtab' = DOMAIN jtab /\ jtab'.draft = jtab.draft /\ jtab'.creating = jtab.creating
        /\ jtab'.mode \in {jtab.mode, "detail"}
    BY <1>1 DEF ListArrives, Listed, OpenJob, JobsInv, Drafted
  <2>2. \A o \in doing' \ doing : o = [op |-> "runs", job |-> jtab.focus]
    BY <1>1 DEF ListArrives
  <2> QED
    BY <1>1, <2>1, <2>2 DEF ListArrives, JobMessage, Unmoved
<1>2. CASE RunsArrive(m)
  BY <1>2 DEF RunsArrive, JobMessage, Unmoved, JobsInv, Drafted
<1>3. CASE ActionArrives(m)
  BY <1>3 DEF ActionArrives, JobMessage, Unmoved
<1> QED
  BY <1>1, <1>2, <1>3 DEF JobMessage

\* The fields of an outcome.
LEMMA OutcomeFields ==
  ASSUME NEW c \in BOOLEAN, NEW k \in BOOLEAN, NEW m, m = [type |-> "action", created |-> c, ok |-> k]
  PROVE  /\ m.created = c /\ m.ok = k
         /\ m = [type |-> "action", created |-> m.created, ok |-> m.ok]
<1>1. m.created = c
  OBVIOUS
<1>2. m.ok = k
  OBVIOUS
<1> QED
  BY <1>1, <1>2

LEMMA UnmovedOperations ==
  ASSUME JobsInv, NEW o \in doing, JobOperation(o), o.op # "create"
  PROVE  Unmoved
<1>1. JobOpFails(o) \/ JobDeleted(o) \/ JobEnabled(o) \/ JobRan(o) \/ RunsRead(o)
  BY DEF JobOperation, JobCreated
<1>2. made' = made /\ jtab' = jtab /\ doing' \subseteq doing
  BY <1>1 DEF JobOperation, JobOpFails, JobDeleted, JobEnabled, JobRan, RunsRead
<1>3. \A m \in post' \ post : m.type = "action" =>
        m = [type |-> "action", created |-> FALSE, ok |-> m.ok] /\ m.ok \in BOOLEAN
  <2>1. ASSUME NEW m \in post' \ post, m.type = "action"
        PROVE  \E k \in BOOLEAN : m = [type |-> "action", created |-> FALSE, ok |-> k]
    <3>1. CASE JobOpFails(o)
      <4>1. (o.op = "create") = FALSE
        OBVIOUS
      <4>2. m = [type |-> "action", created |-> FALSE, ok |-> FALSE]
        BY <2>1, <3>1, <4>1 DEF JobOpFails, Outcome
      <4> QED
        BY <4>2
    <3>2. CASE JobDeleted(o) \/ JobEnabled(o) \/ JobRan(o)
      <4>1. m = [type |-> "action", created |-> FALSE, ok |-> TRUE]
        BY <2>1, <3>2 DEF JobDeleted, JobEnabled, JobRan, Outcome
      <4> QED
        BY <4>1
    <3>3. CASE RunsRead(o)
      BY <2>1, <3>3 DEF RunsRead
    <3> QED
      BY <1>1, <3>1, <3>2, <3>3
  <2>2. ASSUME NEW m \in post' \ post, m.type = "action"
        PROVE  m = [type |-> "action", created |-> FALSE, ok |-> m.ok] /\ m.ok \in BOOLEAN
    <3>1. PICK k \in BOOLEAN : m = [type |-> "action", created |-> FALSE, ok |-> k]
      BY <2>1, <2>2
    <3>2. m.ok = k
      BY <3>1
    <3> QED
      BY <3>1, <3>2
  <2> QED
    BY <2>2
<1> QED
  BY <1>2, <1>3 DEF Unmoved, JobsInv, Drafted

LEMMA QuietKeys ==
  ASSUME JobsInv, JobsKey, ~ConfirmDraft, ~(NewJob /\ jtab.draft = NoDraft)
  PROVE  Unmoved
<1> USE DEF Unmoved, TabBecomes, Starts
<1>t. {"list", "mode", "draft", "creating"} \subseteq DOMAIN jtab
  BY DEF JobsInv, Drafted
<1>1. CASE MoveCursor
  BY <1>t, <1>1 DEF MoveCursor
<1>2. CASE OpenSelected
  BY <1>t, <1>2 DEF OpenSelected, OpenJob
<1>3. CASE AskDelete
  BY <1>t, <1>3 DEF AskDelete
<1>4. CASE RunSelected
  BY <1>t, <1>4 DEF RunSelected
<1>5. CASE PauseSelected
  BY <1>t, <1>5 DEF PauseSelected
<1>6. CASE LeaveDialog
  BY <1>t, <1>6 DEF LeaveDialog
<1>7. CASE ConfirmDelete
  BY <1>t, <1>7 DEF ConfirmDelete
<1>8. CASE NewJob /\ jtab.draft # NoDraft
  BY <1>t, <1>8 DEF NewJob
<1>9. CASE ReviewDraft
  BY <1>t, <1>9 DEF ReviewDraft
<1>10. CASE BackToField
  BY <1>t, <1>10 DEF BackToField
<1>11. CASE CloseDraft
  BY <1>t, <1>11 DEF CloseDraft
<1>12. CASE \E j : FocusJob(j)
  BY <1>t, <1>12 DEF FocusJob
<1> QED
  BY <1>1, <1>2, <1>3, <1>4, <1>5, <1>6, <1>7, <1>8, <1>9, <1>10, <1>11, <1>12, Zenon DEF JobsKey

LEMMA DraftBegins ==
  ASSUME JobsInv, NewJob, jtab.draft = NoDraft
  PROVE  JobsInv'
<1> DEFINE n == Cardinality(DOMAIN made)
<1>1. n \in Nat /\ DOMAIN made = 1 .. n /\ ~jtab.creating
  BY DEF JobsInv, Numbered, Drafted
<1>2. /\ jtab' = [jtab EXCEPT !.mode = "create", !.draft = n + 1, !.step = "field"]
      /\ UNCHANGED <<cabinet, made, doing, post, moves>>
  BY DEF NewJob, TabBecomes
<1>3. /\ {"list", "mode", "draft", "creating"} \subseteq DOMAIN jtab'
      /\ jtab'.draft = n + 1 /\ jtab'.creating = jtab.creating /\ jtab'.mode = "create"
  BY <1>2 DEF JobsInv, Drafted
<1>4. \A j \in DOMAIN made : made[j] # n + 1
  BY <1>1 DEF JobsInv, Numbered
<1>5. Numbered'
  BY <1>1, <1>2, <1>3 DEF JobsInv, Numbered
<1>6. Drafted'
  BY <1>1, <1>2, <1>3, <1>4 DEF JobsInv, Drafted, NoJobOf, NoDraft
<1>7. OneCreation'
  BY <1>1, <1>2 DEF JobsInv, OneCreation
<1> QED
  BY <1>5, <1>6, <1>7 DEF JobsInv

LEMMA CreationBegins ==
  ASSUME JobsInv, ConfirmDraft
  PROVE  JobsInv'
<1>1. /\ ~jtab.creating /\ jtab.mode = "create"
      /\ jtab' = [jtab EXCEPT !.creating = TRUE]
      /\ doing' = doing \cup {[op |-> "create", job |-> jtab.draft]}
      /\ made' = made /\ post' = post
  BY DEF ConfirmDraft, Edits, Starts
<1>2. /\ {"list", "mode", "draft", "creating"} \subseteq DOMAIN jtab'
      /\ jtab'.draft = jtab.draft /\ jtab'.creating = TRUE /\ jtab'.mode = jtab.mode
      /\ jtab.draft # NoDraft /\ NoJobOf(jtab.draft)
  BY <1>1 DEF JobsInv, Drafted
<1>3. Numbered'
  BY <1>1, <1>2 DEF JobsInv, Numbered
<1>4. Drafted'
  BY <1>1, <1>2 DEF Drafted
<1>5. OneCreation'
  BY <1>1, <1>2 DEF JobsInv, OneCreation, NoJobOf
<1> QED
  BY <1>3, <1>4, <1>5 DEF JobsInv

\* The creation under way ends, with the outcome on its way.
LEMMA CreationEnds ==
  ASSUME JobsInv, NEW o \in doing, o.op = "create", JobOperation(o)
  PROVE  JobsInv'
<1>1. jtab.creating /\ o.job = jtab.draft /\ NoJobOf(jtab.draft) /\ jtab' = jtab
  BY DEF JobsInv, OneCreation, JobOperation
<1>2. doing' = doing \ {o} /\ \A p \in doing' : p.op # "create"
  BY <1>1 DEF JobsInv, OneCreation, JobOperation
<1>3. \A m \in post : m.type = "action" => m.created = FALSE
  BY DEF JobsInv, OneCreation
<1>4. PICK ok \in BOOLEAN : post' = post \cup {[type |-> "action", created |-> TRUE, ok |-> ok]}
                            /\ IF ok THEN JobCreated(o) ELSE made' = made
  <2>1. CASE JobOpFails(o)
    <3>1. (o.op = "create") = TRUE
      OBVIOUS
    <3> QED
      BY <2>1, <3>1 DEF JobOpFails, Outcome
  <2>2. CASE JobCreated(o)
    BY <2>2 DEF JobCreated, Outcome
  <2> QED
    BY <2>1, <2>2 DEF JobOperation, JobDeleted, JobEnabled, JobRan, RunsRead
<1>5. Numbered' /\ IF ok THEN OneJobOf(jtab.draft)' ELSE NoJobOf(jtab.draft)'
  <2>1. CASE ~ok
    BY <1>1, <1>4, <2>1 DEF JobsInv, Numbered, NoJobOf
  <2>2. CASE ok
    <3> DEFINE n == Cardinality(DOMAIN made)
    <3>1. n \in Nat /\ DOMAIN made = 1 .. n /\ jtab.draft \in 0 .. n + 1
      BY DEF JobsInv, Numbered
    <3>2. made' = [k \in DOMAIN made \cup {n + 1} |-> IF k = n + 1 THEN o.job ELSE made[k]]
      BY <1>4, <2>2 DEF JobCreated
    <3>3. DOMAIN made' = 1 .. n + 1
      BY <3>1, <3>2
    <3>4. Cardinality(DOMAIN made') = n + 1
      BY <3>1, <3>3, FS_Interval
    <3>5. made'[n + 1] = jtab.draft /\ \A k \in 1 .. n : made'[k] = made[k]
      BY <1>1, <3>1, <3>2
    <3>6. Numbered'
      BY <1>1, <3>1, <3>3, <3>4, <3>5 DEF JobsInv, Numbered
    <3>7. OneJobOf(jtab.draft)'
      BY SMTT(30), <1>1, <3>1, <3>3, <3>5 DEF OneJobOf, NoJobOf
    <3> QED
      BY <2>2, <3>6, <3>7
  <2> QED
    BY <2>1, <2>2
<1>6. Drafted'
  BY <1>1 DEF JobsInv, Drafted
<1>7. OneCreation'
  <2>1. \A p \in doing' : p = [op |-> p.op, job |-> p.job]
    BY <1>2 DEF JobsInv, OneCreation
  <2>2. ASSUME NEW m \in post', m.type = "action"
        PROVE  /\ m = [type |-> "action", created |-> m.created, ok |-> m.ok]
               /\ m.created \in BOOLEAN /\ m.ok \in BOOLEAN
               /\ m.created => m.ok = ok
    <3>1. CASE m \in post
      BY <1>3, <2>2, <3>1 DEF JobsInv, OneCreation
    <3>2. CASE m = [type |-> "action", created |-> TRUE, ok |-> ok]
      BY <3>2, OutcomeFields
    <3> QED
      BY <1>4, <3>1, <3>2
  <2> QED
    BY <1>1, <1>2, <1>5, <2>1, <2>2 DEF OneCreation
<1> QED
  BY <1>5, <1>6, <1>7 DEF JobsInv

LEMMA CreationSettles ==
  ASSUME JobsInv, NEW m \in post, m.type = "action", m.created, JobMessage(m)
  PROVE  JobsInv' /\ (jtab'.draft # jtab.draft => m.ok)
<1>1. /\ m.ok \in BOOLEAN /\ jtab.creating /\ \A o \in doing : o.op # "create"
      /\ \A k \in post : k.type = "action" /\ k.created => k = m
      /\ ~m.ok => NoJobOf(jtab.draft)
  BY DEF JobsInv, OneCreation
<1>2. ActionArrives(m) /\ post' = post \ {m} /\ made' = made /\ doing' = doing
  BY DEF JobMessage, ListArrives, RunsArrive, ActionArrives
<1>3. jtab' = IF m.ok THEN [jtab EXCEPT !.creating = FALSE, !.mode = "list", !.draft = NoDraft]
              ELSE [jtab EXCEPT !.creating = FALSE, !.mode = "create"]
  BY <1>2 DEF ActionArrives
<1>4. /\ {"list", "mode", "draft", "creating"} \subseteq DOMAIN jtab'
      /\ jtab'.creating = FALSE /\ jtab'.mode = (IF m.ok THEN "list" ELSE "create")
      /\ jtab'.draft = IF m.ok THEN NoDraft ELSE jtab.draft
  BY <1>1, <1>3 DEF JobsInv, Drafted
<1>5. Numbered'
  BY <1>2, <1>4 DEF JobsInv, Numbered, NoDraft
<1>6. Drafted'
  BY <1>1, <1>2, <1>4 DEF JobsInv, Drafted, NoJobOf, NoDraft
<1>7. OneCreation'
  BY <1>1, <1>2 DEF JobsInv, OneCreation
<1> QED
  BY <1>1, <1>4, <1>5, <1>6, <1>7 DEF JobsInv

\* A step keeps the invariant, and ends a draft only with the outcome of its creation.
LEMMA JobsStep ==
  ASSUME JobsInv, [JobsNext]_jobsVars
  PROVE  /\ JobsInv'
         /\ jtab.draft # NoDraft /\ jtab'.draft # jtab.draft => made' = made /\ OneJobOf(jtab.draft)
<1>q. CASE Unmoved
  BY <1>q, UnmovedKeeps DEF Unmoved
<1>1. CASE JobsKey
  <2>1. CASE ConfirmDraft
    <3>1. jtab'.draft = jtab.draft
      BY <2>1 DEF ConfirmDraft, Starts, JobsInv, Drafted
    <3> QED
      BY <2>1, <3>1, CreationBegins
  <2>2. CASE NewJob /\ jtab.draft = NoDraft
    BY <2>2, DraftBegins
  <2> QED
    BY <1>1, <1>q, <2>1, <2>2, QuietKeys
<1>2. CASE ReadList
  BY <1>2, <1>q DEF ReadList, Unmoved
<1>3. ASSUME NEW m \in post, JobMessage(m)
      PROVE  JobsInv' /\ (jtab.draft # NoDraft /\ jtab'.draft # jtab.draft => made' = made /\ OneJobOf(jtab.draft))
  <2>1. CASE m.type = "action" /\ m.created
    <3>1. JobsInv' /\ (jtab'.draft # jtab.draft => m.ok)
      BY <1>3, <2>1, CreationSettles
    <3>2. m.ok => OneJobOf(jtab.draft)
      BY <1>3, <2>1 DEF JobsInv, OneCreation
    <3>3. made' = made
      BY <1>3 DEF JobMessage, ListArrives, RunsArrive, ActionArrives
    <3> QED
      BY <3>1, <3>2, <3>3
  <2> QED
    BY <1>3, <1>q, <2>1, QuietMessages
<1>4. ASSUME NEW o \in doing, JobOperation(o)
      PROVE  JobsInv' /\ jtab' = jtab
  <2>1. jtab' = jtab
    BY <1>4 DEF JobOperation
  <2>2. CASE o.op = "create"
    BY <1>4, <2>1, <2>2, CreationEnds
  <2> QED
    BY <1>4, <1>q, <2>1, <2>2, UnmovedOperations, UnmovedKeeps
<1>5. CASE \E j : OtherProcess(j)
  BY <1>5, <1>q DEF OtherProcess, Unmoved
<1>6. CASE UNCHANGED jobsVars
  <2>1. Unmoved
    BY <1>6 DEF jobsVars, Unmoved
  <2> QED
    BY <1>q, <2>1
<1> QED
  BY <1>1, <1>2, <1>3, <1>4, <1>5, <1>6 DEF JobsNext

\* A draft is given up only for the one job made of it: whatever fails, whichever
\* dialogs, lists and messages come in between, and however often it is confirmed,
\* a second creation cannot begin before the outcome of the first has arrived
\* (updateCreate, jobActionMsg, initCreateInputs).
THEOREM DraftsBecomeOneJob == JobsSpec => DraftBecomesOneJob
<1>1. ASSUME JobsInv, [JobsNext]_jobsVars
      PROVE  [jtab.draft # NoDraft /\ jtab'.draft # jtab.draft
                => Cardinality({j \in DOMAIN made' : made'[j] = jtab.draft}) = 1]_jobsVars
  <2>1. ASSUME jtab.draft # NoDraft, jtab'.draft # jtab.draft
        PROVE  Cardinality({j \in DOMAIN made' : made'[j] = jtab.draft}) = 1
    <3>1. made' = made /\ OneJobOf(jtab.draft)
      BY <1>1, <2>1, JobsStep
    <3>2. PICK j \in DOMAIN made : made[j] = jtab.draft /\ \A k \in DOMAIN made : made[k] = jtab.draft => k = j
      BY <3>1 DEF OneJobOf
    <3>3. {k \in DOMAIN made' : made'[k] = jtab.draft} = {j}
      BY <3>1, <3>2
    <3> QED
      BY <3>3, FS_Singleton
  <2> QED
    BY <2>1
<1>2. JobsSpec => []JobsInv
  BY JobsStart, JobsStep, PTL DEF JobsSpec
<1> QED
  BY <1>1, <1>2, PTL DEF JobsSpec, DraftBecomesOneJob

-----------------------------------------------------------------------------
\* Proofs about settings.

LEMMA NextEditIsOne ==
  ASSUME SettingsTypeOK, HasNext
  PROVE  NextEdit \in 1 .. MaxEdits
<1>1. IsFiniteSet(given.made)
  <2>1. IsFiniteSet(1 .. MaxEdits)
    BY SettingsAssumption, FS_Interval
  <2> QED
    BY <2>1, FS_Subset DEF SettingsTypeOK, Configs
<1>2. Cardinality(given.made) \in Nat
  BY <1>1, FS_CardinalityType
<1> QED
  BY <1>2, SettingsAssumption DEF HasNext, NextEdit

LEMMA MakesTypes ==
  ASSUME SettingsTypeOK, NEW f, Makes(f),
         NextEdit \in 1 .. MaxEdits => f \in Forms
  PROVE  SettingsTypeOK'
<1>1. NextEdit \in 1 .. MaxEdits
  BY NextEditIsOne DEF Makes
<1>2. PICK e \in 1 .. MaxEdits : e = NextEdit
  BY <1>1
<1>3. given' \in [made : Configs, up : Configs, aloft : Configs]
  BY <1>2 DEF Makes, SettingsTypeOK, Configs
<1> QED
  BY <1>1, <1>3 DEF Makes, SettingsTypeOK

LEMMA ResultIsOne ==
  ASSUME SettingsTypeOK, NEW w \in writers, NEW ok \in BOOLEAN
  PROVE  [type |-> w.by, id |-> NoChild, ok |-> ok, edits |-> {}] \in Results
BY SettingsAssumption DEF SettingsTypeOK, Saves, Results, NoChild, Configs

LEMMA KeysType ==
  ASSUME SettingsTypeOK, FormKey
  PROVE  SettingsTypeOK'
<1> USE DEF FormBecomes
<1>1. CASE BeginEdit
  BY <1>1 DEF BeginEdit, SettingsTypeOK, Forms
<1>2. CASE TypeEdit
  BY <1>2, MakesTypes DEF TypeEdit, SettingsTypeOK, Forms, Configs
<1>3. CASE KeepEdit
  BY <1>3 DEF KeepEdit, SettingsTypeOK, Forms, Configs
<1>4. CASE CancelEdit
  BY <1>4 DEF CancelEdit, GivesUp, SettingsTypeOK, Forms, Configs
<1>5. CASE EditInPlace
  BY <1>5, MakesTypes DEF EditInPlace, SettingsTypeOK, Forms, Configs
<1>6. CASE OpenChild
  <2>1. form.opened + 1 \in 0 .. MaxChildren
    BY <1>6, SettingsAssumption DEF OpenChild, SettingsTypeOK, Forms
  <2>2. PICK c \in 0 .. MaxChildren : c = form.opened + 1
    BY <2>1
  <2>3. form' = [form EXCEPT !.child = c, !.opened = c]
    BY <1>6, <2>2 DEF OpenChild
  <2>4. form' \in Forms
    BY <2>3 DEF SettingsTypeOK, Forms
  <2> QED
    BY <1>6, <2>4 DEF OpenChild, SettingsTypeOK
<1>7. CASE TypeInChild
  BY <1>7, MakesTypes DEF TypeInChild, SettingsTypeOK, Forms, Configs
<1>19. CASE LeaveField
  <2>1. PICK edits \in SUBSET form.pending : GivesUp([form EXCEPT !.pending = form.pending \ edits], edits)
    BY <1>19 DEF LeaveField, SettingsTypeOK, Forms
  <2>2. form' \in Forms
    BY <2>1 DEF GivesUp, SettingsTypeOK, Forms, Configs
  <2>3. given' \in [made : Configs, up : Configs, aloft : Configs]
    BY <2>1 DEF GivesUp, SettingsTypeOK, Forms, Configs
  <2> QED
    BY <1>19, <2>1, <2>2, <2>3 DEF LeaveField, GivesUp, SettingsTypeOK
<1>a. ASSUME NEW cancelled \in BOOLEAN, NEW edits \in Configs, Answer(cancelled, edits)
      PROVE  form' \in Forms /\ news' \subseteq Results
  <2>0. PICK ok \in BOOLEAN : ok = ~cancelled
    OBVIOUS
  <2>1. PICK e \in Configs : e = IF cancelled THEN {} ELSE edits
    BY DEF Configs
  <2>2. PICK m \in Results : m = [type |-> "child", id |-> form.child, ok |-> ok, edits |-> e]
    BY DEF SettingsTypeOK, Forms, Results
  <2>3. PICK a \in 0 .. MaxAnswers : a = form.answers + 1
    BY <1>a, SettingsAssumption DEF Answer, SettingsTypeOK, Forms
  <2>4. form' = [form EXCEPT !.answers = a] /\ news' = news \cup {m}
    BY <1>a, <2>0, <2>1, <2>2, <2>3 DEF Answer
  <2> QED
    BY <2>4 DEF SettingsTypeOK, Forms
<1>8. ASSUME NEW cancelled \in BOOLEAN, ChildAnswers(cancelled) PROVE SettingsTypeOK'
  <2>1. form.pending \in Configs
    BY DEF SettingsTypeOK, Forms
  <2> QED
    BY <1>8, <1>a, <2>1 DEF ChildAnswers, SettingsTypeOK
<1>20. CASE ChooseRow
  <2>1. NextEdit \in 1 .. MaxEdits
    BY <1>20, NextEditIsOne DEF ChooseRow
  <2>2. PICK c \in 1 .. MaxEdits : c = NextEdit
    BY <2>1
  <2>3. form.pending \cup {c} \in Configs
    BY DEF SettingsTypeOK, Forms, Configs
  <2>4. form' \in Forms /\ news' \subseteq Results
    BY <1>20, <1>a, <2>2, <2>3 DEF ChooseRow
  <2>5. given' \in [made : Configs, up : Configs, aloft : Configs]
    BY <1>20, <2>2 DEF ChooseRow, SettingsTypeOK, Configs
  <2> QED
    BY <1>20, <2>4, <2>5 DEF ChooseRow, SettingsTypeOK
<1>9. CASE ChooseProfile
  BY <1>9 DEF ChooseProfile, SettingsTypeOK, Forms
<1>10. CASE ApplyProfile
  BY <1>10, MakesTypes DEF ApplyProfile, SettingsTypeOK, Forms, Configs
<1>11. CASE AskResetAll
  BY <1>11 DEF AskResetAll, SettingsTypeOK, Forms
<1>12. CASE ApplyResetAll
  BY <1>12, MakesTypes DEF ApplyResetAll, SettingsTypeOK, Forms, Configs
<1>13. CASE MoveRow
  BY ZenonT(60), <1>13 DEF MoveRow, Unconfirmed, SettingsTypeOK, Forms
<1>14. CASE CancelConfirmation
  BY <1>14 DEF CancelConfirmation, Unconfirmed, SettingsTypeOK, Forms
<1>15. CASE ChangeSection
  BY ZenonT(60), <1>15 DEF ChangeSection, SetSection, Unconfirmed, SettingsTypeOK, Forms
<1>16. CASE ToggleSidebar
  BY <1>16 DEF ToggleSidebar, Unconfirmed, SettingsTypeOK, Forms
<1>17. CASE ResetDraft
  BY <1>17 DEF ResetDraft, GivesUp, SettingsTypeOK, Forms, Configs
<1>18. CASE SaveSettings
  <2>1. PICK w \in Saves : w = [by |-> "saved", cfg |-> form.draft, step |-> "write"]
    BY DEF SettingsTypeOK, Forms, Saves
  <2>2. form' \in Forms
    BY <1>18 DEF SaveSettings, SettingsTypeOK, Forms
  <2> QED
    BY <1>18, <2>1, <2>2 DEF SaveSettings, SettingsTypeOK
<1> QED
  BY <1>1, <1>2, <1>3, <1>4, <1>5, <1>6, <1>7, <1>8, <1>9, <1>10, <1>11, <1>12, <1>13, <1>14, <1>15,
     <1>16, <1>17, <1>18, <1>19, <1>20 DEF FormKey

LEMMA NewFormType == NewForm(FALSE) \in Forms /\ NewForm(TRUE) \in Forms
BY SettingsAssumption DEF NewForm, Forms, Configs, Sections, NoChild

LEMMA LeavesTypes ==
  ASSUME SettingsTypeOK, NEW g \in [made : Configs, up : Configs, aloft : Configs], Leaves(g)
  PROVE  SettingsTypeOK'
BY NewFormType DEF Leaves, SettingsTypeOK, Desks

LEMMA OnTheirWayType ==
  ASSUME SettingsTypeOK
  PROVE  OnTheirWay \in Configs
BY DEF OnTheirWay, SettingsTypeOK, Results, Configs

LEMMA SettingsTypesKept ==
  ASSUME SettingsTypeOK, SettingsNext
  PROVE  SettingsTypeOK'
<1> USE DEF FormBecomes, DeskBecomes
<1>r. ReloadedForm \in Forms
  BY DEF ReloadedForm, SettingsTypeOK, Forms
<1>g. ~desk.gone
  BY DEF SettingsNext
<1>1. CASE Tick
  BY <1>r, <1>1 DEF Tick, SettingsTypeOK
<1>2. CASE RootStep
  <2>1. ASSUME NEW to \in {"settings", "other"}, NEW bar \in BOOLEAN, SwitchTab(to, bar) PROVE SettingsTypeOK'
    BY <1>r, <2>1 DEF SwitchTab, SettingsTypeOK, Desks
  <2>2. CASE FocusBar \/ FocusContent \/ StayHere \/ (Quit /\ AsksToSave)
    BY ZenonT(60), <2>2 DEF FocusBar, FocusContent, Quit, StayHere, SettingsTypeOK, Desks
  <2>5. CASE Quit /\ ~AsksToSave
    <3>1. PICK w \in Configs : w = OnTheirWay
      BY OnTheirWayType
    <3>2. [given EXCEPT !.aloft = w] \in [made : Configs, up : Configs, aloft : Configs]
      BY DEF SettingsTypeOK
    <3> QED
      BY <2>5, <3>1, <3>2, LeavesTypes DEF Quit
  <2>3. CASE DiscardAll
    <3>1. [given EXCEPT !.up = given.made] \in [made : Configs, up : Configs, aloft : Configs]
      BY DEF SettingsTypeOK
    <3> QED
      BY <2>3, <3>1, LeavesTypes DEF DiscardAll
  <2>4. CASE SaveAndQuit
    <3>1. PICK w \in Saves : w = [by |-> "quit", cfg |-> form.draft, step |-> "write"]
      BY DEF SettingsTypeOK, Forms, Saves
    <3>2. desk' \in Desks
      BY ZenonT(60), <2>4 DEF SaveAndQuit, SettingsTypeOK, Desks
    <3>3. PICK c \in Configs : c = OnTheirWay
      BY OnTheirWayType
    <3>4. given' \in [made : Configs, up : Configs, aloft : Configs]
      BY <2>4, <3>3 DEF SaveAndQuit, SettingsTypeOK
    <3> QED
      BY <2>4, <3>1, <3>2, <3>4 DEF SaveAndQuit, SettingsTypeOK
  <2> QED
    BY <1>2, <2>1, <2>2, <2>3, <2>4, <2>5 DEF RootStep
<1>3. ASSUME NEW w \in writers, Writer(w) PROVE SettingsTypeOK'
  <2>1. CASE WriteFails(w)
    BY <1>3, <2>1, ResultIsOne DEF WriteFails, Result, SettingsTypeOK
  <2>2. CASE FileRenamed(w)
    BY <1>3, <2>2 DEF FileRenamed, SettingsTypeOK, Saves
  <2>3. CASE ConfigPublished(w)
    <3>1. w.cfg \in Configs
      BY <1>3 DEF SettingsTypeOK, Saves
    <3>2. PICK c \in Configs : c = w.cfg
      BY <3>1
    <3> QED
      BY <1>3, <2>3, <3>2, ResultIsOne DEF ConfigPublished, Result, SettingsTypeOK
  <2> QED
    BY <1>3, <2>1, <2>2, <2>3 DEF Writer
<1>4. ASSUME NEW m \in news, Delivered(m) PROVE SettingsTypeOK'
  <2>0. m \in Results /\ news \ {m} \subseteq Results
    BY <1>4 DEF SettingsTypeOK
  <2>1. CASE ChildResult(m)
    <3>1. PICK all \in Configs : all = form.pending \cup OnTheirWay
      BY OnTheirWayType DEF SettingsTypeOK, Forms, Configs
    <3>2. form' \in Forms
      <4>1. NoChild \in 0 .. MaxChildren
        BY SettingsAssumption DEF NoChild
      <4>2. PICK c \in Forms : c = [form EXCEPT !.child = NoChild, !.pending = {}]
        BY <4>1 DEF SettingsTypeOK, Forms, Configs
      <4>3. PICK e \in Configs : e = form.draft \cup m.edits
        BY <2>0 DEF SettingsTypeOK, Forms, Results, Configs
      <4>4. PICK d \in BOOLEAN : d = (form.dirty \/ m.edits # {})
        BY DEF SettingsTypeOK, Forms
      <4>5. c.draft = form.draft /\ c.dirty = form.dirty
        BY <4>2 DEF SettingsTypeOK, Forms
      <4>6. [c EXCEPT !.draft = e, !.dirty = d] \in Forms
        BY DEF Forms
      <4>7. form' \in {form, c, [c EXCEPT !.draft = e, !.dirty = d]}
        BY <2>1, <4>2, <4>3, <4>4, <4>5 DEF ChildResult, GivesUp
      <4> QED
        BY <4>2, <4>6, <4>7 DEF SettingsTypeOK
    <3>3. given' \in [made : Configs, up : Configs, aloft : Configs]
      <4>1. PICK e \in Configs : given' = [given EXCEPT !.up = given.up \cup e]
        BY <2>1, <3>1 DEF ChildResult, GivesUp, Configs
      <4> QED
        BY <4>1 DEF SettingsTypeOK, Configs
    <3> QED
      BY <1>4, <1>g, <2>0, <2>1, <3>2, <3>3 DEF Delivered, ChildResult, GivesUp, SettingsTypeOK, Desks
  <2>2. CASE SavedArrives(m)
    BY <1>4, <1>g, <2>0, <2>2 DEF Delivered, SavedArrives, Saved, SettingsTypeOK, Forms, Desks
  <2>3. CASE QuitSavedArrives(m) /\ m.ok
    BY <2>3, LeavesTypes DEF QuitSavedArrives, SettingsTypeOK
  <2>4. CASE QuitSavedArrives(m) /\ ~m.ok
    <3>1. desk' = [desk EXCEPT !.quitSaving = FALSE] /\ given' = [given EXCEPT !.aloft = {}]
            /\ UNCHANGED <<form, service, file, writers>>
      BY <2>4 DEF QuitSavedArrives
    <3>2. desk' \in Desks /\ given' \in [made : Configs, up : Configs, aloft : Configs]
      BY ZenonT(60), <3>1 DEF SettingsTypeOK, Desks, Configs
    <3>3. news' \subseteq Results
      BY <1>4, <1>g, <2>0, <3>1 DEF Delivered, SettingsTypeOK, Desks
    <3> QED
      BY <3>1, <3>2, <3>3 DEF SettingsTypeOK
  <2> QED
    BY <1>4, <2>1, <2>2, <2>3, <2>4 DEF Delivered
<1> QED
  BY <1>1, <1>2, <1>3, <1>4, KeysType DEF SettingsNext

\* A step of the root model, a tick or a late answer: what is awaited stays, and the
\* draft only gains choices that were on their way.
Calm ==
  /\ UNCHANGED <<service, file, writers>>
  /\ \A m \in news' : m \in news \/ (m.type = "child" /\ m.id # NoChild)
  /\ form'.saving = form.saving /\ (form.dirty => form'.dirty)
  /\ desk'.quitSaving = desk.quitSaving /\ given'.aloft = given.aloft
  /\ form.draft \subseteq form'.draft /\ form'.draft \subseteq form.draft \cup Late'
  /\ form'.draft = form.draft \/ form'.dirty

LEMMA CalmKeeps ==
  ASSUME SettingsInv, ~desk.gone, SettingsTypeOK', Calm, Closed', EditsKept'
  PROVE  SettingsInv'
<1>0. OneSave /\ Agreed
  BY DEF SettingsInv
<1>1. \A by \in {"saved", "quit"} : Awaited(by)' = Awaited(by)
  BY DEF Awaited, Calm
<1>2. /\ \A w \in writers : w.by \in {"saved", "quit"}
      /\ \A m \in news : m.type # "child" => m.type \in {"saved", "quit"}
  BY DEF SettingsInv, SettingsTypeOK, Saves, Results
<1>3. \A cfg : Drafts(cfg) => Drafts(cfg)'
  <2>1. Late \subseteq Late'
    BY DEF Late, Calm
  <2> QED
    BY <2>1 DEF Drafts, Calm
<1>4. OneSave'
  BY <1>0, <1>1, <1>2, <1>3 DEF OneSave, Calm
<1>5. Agreed'
  <2>1. ~form'.dirty => form'.draft = service'.cfg
    BY <1>0 DEF Agreed, Calm
  <2>2. \A m \in news' : m.type # "child" /\ m.ok => Drafts(service.cfg)' /\ Drafts(file)'
    BY <1>0, <1>3 DEF Agreed, Calm
  <2> QED
    BY <1>0, <2>1, <2>2 DEF Agreed, Calm
<1> QED
  BY <1>4, <1>5 DEF SettingsInv

\* What is on its way to the open child, when the same messages name it.
LEMMA SameWay ==
  ASSUME form'.child = form.child,
         \A m : m.type = "child" /\ m.id = form.child => (m \in news' <=> m \in news)
  PROVE  OnTheirWay' = OnTheirWay
BY DEF OnTheirWay

LEMMA OnTheirWayGrows ==
  ASSUME SettingsInv, ~desk.gone, news \subseteq news',
         form'.child = form.child \/ form.child = NoChild
  PROVE  OnTheirWay \subseteq OnTheirWay'
<1>1. CASE form'.child = form.child
  BY <1>1 DEF OnTheirWay
<1>2. CASE form.child = NoChild
  BY <1>2 DEF OnTheirWay, SettingsInv, OneSave
<1> QED
  BY <1>1, <1>2

\* The process ends.
LEMMA LeavingKeeps ==
  ASSUME SettingsInv, NEW g, Leaves(g), SettingsTypeOK', EditsKept'
  PROVE  SettingsInv'
BY DEF SettingsInv, Leaves, SettingsTypeOK, Desks

Idle == ~form.saving /\ ~desk.quitSaving

LEMMA IdleMeansAgreed ==
  ASSUME SettingsInv, ~desk.gone, Idle
  PROVE  writers = {} /\ file = service.cfg /\ \A m \in news : m.type = "child" /\ m.id # NoChild
<1>1. ASSUME NEW w \in writers PROVE FALSE
  BY DEF SettingsInv, SettingsTypeOK, Saves, OneSave, Awaited, Idle
<1>2. \A m \in news : m.type = "child" /\ m.id # NoChild
  BY DEF SettingsInv, SettingsTypeOK, Results, OneSave, Awaited, Idle
<1> QED
  BY <1>1, <1>2 DEF SettingsInv, Agreed

\* A key: nothing is awaited and none of it is begun.
LEMMA IdleKeeps ==
  ASSUME SettingsInv, ~desk.gone, Idle, SettingsTypeOK', UNCHANGED <<desk, service, file, writers>>,
         \A m \in news' : m \in news \/ (m.type = "child" /\ m.id # NoChild),
         ~form'.saving, ~form'.dirty => form'.draft = service.cfg, EditsKept'
  PROVE  SettingsInv'
<1>1. writers' = {} /\ file' = service'.cfg /\ \A m \in news' : m.type = "child" /\ m.id # NoChild
  BY IdleMeansAgreed
<1>2. Closed'
  BY DEF Closed, Idle
<1>3. OneSave'
  BY <1>1 DEF OneSave
<1>4. Agreed'
  BY <1>1 DEF Agreed
<1> QED
  BY <1>2, <1>3, <1>4 DEF SettingsInv

LEMMA KeysKeep ==
  ASSUME SettingsInv, ~desk.gone, FormKey, ~SaveSettings
  PROVE  SettingsInv'
<1> USE DEF FormBecomes
<1>t. SettingsTypeOK /\ SettingsTypeOK' /\ form \in Forms
  BY KeysType DEF SettingsInv, SettingsTypeOK
<1>i. AnswersKey => Idle
  BY DEF AnswersKey, Idle, SettingsInv, Closed
<1>d. ~form.dirty => form.draft = service.cfg
  BY DEF SettingsInv, Agreed
<1>k. given.made \subseteq given.up \cup form.draft \cup form.pending \cup OnTheirWay
  BY DEF SettingsInv, EditsKept
<1>w. news \subseteq news' /\ (form'.child = form.child \/ form.child = NoChild) => OnTheirWay \subseteq OnTheirWay'
  BY OnTheirWayGrows
<1>f. ASSUME AnswersKey, UNCHANGED <<desk, service, file, writers, given>>, news \subseteq news',
             \A m \in news' : m \in news \/ (m.type = "child" /\ m.id # NoChild),
             form'.saving = form.saving, form'.dirty = form.dirty, form'.draft = form.draft,
             form'.pending = form.pending, form'.child = form.child \/ form.child = NoChild
      PROVE  SettingsInv'
  <2>1. EditsKept'
    BY <1>f, <1>k, <1>w DEF EditsKept
  <2> QED
    BY <1>t, <1>i, <1>d, <1>f, <2>1, IdleKeeps DEF AnswersKey
<1>1. CASE BeginEdit
  BY <1>t, <1>f, <1>1 DEF BeginEdit, Content, Resting, Forms
<1>p. ASSUME AnswersKey, Makes([form EXCEPT !.pending = form.pending \cup {NextEdit}])
      PROVE  SettingsInv'
  <2>1. /\ form'.pending = form.pending \cup {NextEdit} /\ form'.draft = form.draft
        /\ form'.dirty = form.dirty /\ form'.saving = form.saving /\ form'.child = form.child
    BY <1>t, <1>p DEF Makes, Forms
  <2>2. given'.made = given.made \cup {NextEdit} /\ given'.up = given.up
    BY <1>t, <1>p DEF Makes, SettingsTypeOK
  <2>3. EditsKept'
    BY <1>p, <1>k, <1>w, <2>1, <2>2 DEF Makes, EditsKept
  <2> QED
    BY <1>t, <1>i, <1>d, <1>p, <2>1, <2>3, IdleKeeps DEF Makes, AnswersKey
<1>u. ASSUME AnswersKey, NEW edits, GivesUp(form', edits), UNCHANGED news,
             form'.pending = form.pending \ edits, form'.draft = form.draft,
             form'.dirty = form.dirty, form'.saving = form.saving, form'.child = form.child
      PROVE  SettingsInv'
  <2>1. given'.made = given.made /\ given'.up = given.up \cup edits
    BY <1>t, <1>u DEF GivesUp, SettingsTypeOK
  <2>2. EditsKept'
    BY <1>u, <1>k, <1>w, <2>1 DEF GivesUp, EditsKept
  <2> QED
    BY <1>t, <1>i, <1>d, <1>u, <2>2, IdleKeeps DEF GivesUp, AnswersKey
<1>2. CASE TypeEdit
  BY <1>2, <1>p DEF TypeEdit
<1>3. CASE KeepEdit
  <2>1. EditsKept'
    BY <1>t, <1>3, <1>k, <1>w DEF KeepEdit, EditsKept, Forms
  <2> QED
    BY <1>t, <1>i, <1>3, <2>1, IdleKeeps DEF KeepEdit, AnswersKey, Forms
<1>4. CASE CancelEdit
  <2>1. form' = [form EXCEPT !.editing = FALSE, !.pending = {}] /\ GivesUp(form', form.pending)
    BY <1>4 DEF CancelEdit, GivesUp
  <2> QED
    BY <1>t, <1>u, <1>4, <2>1 DEF CancelEdit, Forms
<1>m. ASSUME AnswersKey, NEW f \in Forms, Makes(f), f.draft = form.draft \cup {NextEdit},
             f.dirty, ~f.saving, f.pending = form.pending, f.child = form.child
      PROVE  SettingsInv'
  <2>1. EditsKept'
    BY <1>t, <1>m, <1>k, <1>w DEF Makes, EditsKept, SettingsTypeOK
  <2> QED
    BY <1>t, <1>i, <1>m, <2>1, IdleKeeps DEF Makes
<1>5. CASE EditInPlace
  <2>a. \A armed \in {FALSE, form.resetAll} : armed \in BOOLEAN
    BY <1>t DEF Forms
  <2>1. PICK armed \in BOOLEAN :
          Makes([form EXCEPT !.draft = form.draft \cup {NextEdit}, !.dirty = TRUE, !.resetAll = armed])
    BY <2>a, <1>5 DEF EditInPlace
  <2> QED
    BY <1>t, <1>5, <1>m, <2>1 DEF EditInPlace, Content, Resting, AnswersKey, Makes, SettingsTypeOK, Forms
<1>6. CASE OpenChild
  BY <1>t, <1>f, <1>6 DEF OpenChild, Content, Resting, Forms
<1>7. CASE TypeInChild
  BY <1>7, <1>p DEF TypeInChild, InChild
<1>18. CASE LeaveField
  <2>1. PICK edits \in SUBSET form.pending : GivesUp([form EXCEPT !.pending = form.pending \ edits], edits)
    BY <1>18 DEF LeaveField
  <2>2. form' = [form EXCEPT !.pending = form.pending \ edits] /\ GivesUp(form', edits)
    BY <2>1 DEF GivesUp
  <2> QED
    BY <1>t, <1>u, <1>18, <2>2 DEF LeaveField, InChild, Forms
<1>a. ASSUME NEW cancelled, NEW edits, Answer(cancelled, edits)
      PROVE  /\ AnswersKey /\ news \subseteq news'
             /\ \A m \in news' : m \in news \/ (m.type = "child" /\ m.id # NoChild)
             /\ form'.saving = form.saving /\ form'.dirty = form.dirty /\ form'.draft = form.draft
             /\ form'.pending = form.pending /\ form'.child = form.child
  BY <1>t, <1>a DEF Answer, InChild, Forms
<1>8. ASSUME NEW cancelled \in BOOLEAN, ChildAnswers(cancelled) PROVE SettingsInv'
  BY <1>a, <1>f, <1>8 DEF ChildAnswers
<1>19. CASE ChooseRow
  <2>1. Answer(FALSE, form.pending \cup {NextEdit}) /\ UNCHANGED <<desk, service, file, writers>>
    BY <1>19 DEF ChooseRow
  <2>2. given'.made = given.made \cup {NextEdit} /\ given'.up = given.up
    BY <1>t, <1>19 DEF ChooseRow, SettingsTypeOK
  <2>3. NextEdit \in OnTheirWay'
    <3>1. PICK m : m = [type |-> "child", id |-> form.child, ok |-> TRUE, edits |-> form.pending \cup {NextEdit}]
      OBVIOUS
    <3>2. m \in news' /\ m.type = "child" /\ m.ok /\ m.id = form.child /\ NextEdit \in m.edits
      BY <2>1, <3>1 DEF Answer
    <3>3. form'.child = form.child
      BY <1>a, <2>1
    <3> QED
      BY <3>2, <3>3 DEF OnTheirWay
  <2>4. OnTheirWay \subseteq OnTheirWay'
    BY <1>a, <1>w, <2>1
  <2>5. EditsKept'
    BY <1>a, <1>k, <2>1, <2>2, <2>3, <2>4 DEF EditsKept
  <2> QED
    BY <1>t, <1>a, <1>i, <1>d, <2>1, <2>5, IdleKeeps DEF AnswersKey
<1>9. CASE ChooseProfile
  BY <1>t, <1>f, <1>9 DEF ChooseProfile, InSecurity, Content, Resting, Forms
<1>10. CASE ApplyProfile
  BY <1>t, <1>m, <1>10 DEF ApplyProfile, InSecurity, Content, Resting, AnswersKey, Makes, SettingsTypeOK, Forms
<1>11. CASE AskResetAll
  BY <1>t, <1>f, <1>11 DEF AskResetAll, InSecurity, Content, Resting, Forms
<1>12. CASE ApplyResetAll
  BY <1>t, <1>m, <1>12 DEF ApplyResetAll, InSecurity, Content, Resting, AnswersKey, Makes, SettingsTypeOK, Forms
<1>13. CASE MoveRow
  BY <1>t, <1>f, <1>13 DEF MoveRow, Unconfirmed, InSecurity, Content, Resting, Forms
<1>14. CASE CancelConfirmation
  BY <1>t, <1>f, <1>14 DEF CancelConfirmation, Unconfirmed, InSecurity, Content, Resting, Forms
<1>15. CASE ChangeSection
  BY <1>t, <1>f, <1>15 DEF ChangeSection, SetSection, Unconfirmed, Resting, Forms
<1>16. CASE ToggleSidebar
  BY <1>t, <1>f, <1>16 DEF ToggleSidebar, Unconfirmed, Resting, Forms
<1>17. CASE ResetDraft
  <2>1. given'.made = given.made /\ given'.up = given.up \cup (form.draft \ service.cfg)
    BY <1>t, <1>17 DEF ResetDraft, GivesUp, SettingsTypeOK
  <2>2. form'.draft = service.cfg /\ form'.pending = form.pending /\ form'.child = form.child
    BY <1>t, <1>17 DEF ResetDraft, GivesUp, Forms
  <2>3. EditsKept'
    BY <1>17, <1>k, <1>w, <2>1, <2>2 DEF ResetDraft, GivesUp, EditsKept
  <2> QED
    BY <1>t, <1>i, <1>17, <2>3, IdleKeeps DEF ResetDraft, Content, Resting, GivesUp, AnswersKey, Forms
<1> QED
  BY <1>1, <1>2, <1>3, <1>4, <1>5, <1>6, <1>7, <1>8, <1>9, <1>10, <1>11, <1>12, <1>13, <1>14, <1>15,
     <1>16, <1>17, <1>18, <1>19 DEF FormKey

\* A draft that is read anew was the service's already.
LEMMA ReloadIsCalm ==
  ASSUME SettingsInv, ~desk.gone
  PROVE  /\ ReloadedForm.draft = form.draft /\ ReloadedForm.saving = form.saving
         /\ ReloadedForm.pending = form.pending /\ ReloadedForm.editing = form.editing
         /\ ReloadedForm.child = form.child
         /\ form.dirty => ReloadedForm.dirty
BY DEF SettingsInv, SettingsTypeOK, Forms, Agreed, ReloadedForm, Untouched

LEMMA SaveKeeps ==
  ASSUME SettingsInv, ~desk.gone, SaveSettings
  PROVE  SettingsInv'
<1>1. Idle /\ ~form.editing /\ form.child = NoChild
  BY DEF SaveSettings, Content, Resting, AnswersKey, Idle, SettingsInv, Closed
<1>2. SettingsTypeOK /\ SettingsTypeOK' /\ form \in Forms
  BY KeysType DEF FormKey, SettingsInv, SettingsTypeOK
<1>3. writers = {} /\ file = service.cfg /\ \A m \in news : m.type = "child" /\ m.id # NoChild
  BY <1>1, IdleMeansAgreed
<1>4. PICK w : w = [by |-> "saved", cfg |-> form.draft, step |-> "write"]
  OBVIOUS
<1>5. /\ writers' = {w} /\ w.by = "saved" /\ w.cfg = form.draft /\ w.step = "write"
      /\ form' = [form EXCEPT !.saving = TRUE]
      /\ UNCHANGED <<desk, service, file, news, given>>
  BY <1>3, <1>4 DEF SaveSettings
<1>6. /\ form'.saving /\ form'.draft = form.draft /\ form'.dirty = form.dirty /\ form'.pending = form.pending
      /\ form'.editing = form.editing /\ form'.child = form.child
  BY <1>2, <1>5 DEF Forms
<1>w. OnTheirWay' = OnTheirWay
  BY <1>5, <1>6, SameWay
<1>7. Closed'
  BY <1>1, <1>5, <1>6 DEF Closed, Idle
<1>8. OneSave'
  BY <1>3, <1>5, <1>6 DEF OneSave, Awaited, Drafts
<1>9. Agreed'
  BY <1>3, <1>5, <1>6 DEF SettingsInv, Agreed
<1>10. EditsKept'
  BY <1>5, <1>6, <1>w DEF SettingsInv, EditsKept
<1> QED
  BY <1>2, <1>7, <1>8, <1>9, <1>10 DEF SettingsInv

LEMMA RootKeeps ==
  ASSUME SettingsInv, ~desk.gone, RootStep
  PROVE  SettingsInv'
<1> USE DEF DeskBecomes
<1>t. SettingsTypeOK /\ SettingsTypeOK' /\ form \in Forms /\ desk \in Desks
  BY SettingsTypesKept DEF SettingsNext, SettingsInv, SettingsTypeOK
<1>k. given.made \subseteq given.up \cup form.draft \cup form.pending \cup OnTheirWay
  BY DEF SettingsInv, EditsKept
<1>c. Closed /\ OneSave /\ Agreed
  BY DEF SettingsInv
<1>1. ASSUME NEW to \in {"settings", "other"}, NEW bar \in BOOLEAN, SwitchTab(to, bar) PROVE SettingsInv'
  <2>1. form' = form \/ form' = ReloadedForm
    BY <1>1 DEF SwitchTab
  <2>2. /\ form'.draft = form.draft /\ form'.saving = form.saving /\ form'.pending = form.pending
        /\ form'.editing = form.editing /\ form'.child = form.child /\ (form.dirty => form'.dirty)
    BY <2>1, ReloadIsCalm
  <2>3. /\ desk'.quitSaving = desk.quitSaving /\ desk'.confirm = desk.confirm /\ desk'.gone = desk.gone
        /\ UNCHANGED <<service, file, writers, news, given>>
    BY <1>t, <1>1 DEF SwitchTab, Desks
  <2>w. OnTheirWay' = OnTheirWay
    BY <2>2, <2>3, SameWay
  <2>4. Closed' /\ EditsKept' /\ Calm
    BY <1>c, <1>k, <2>2, <2>3, <2>w DEF Closed, EditsKept, Calm
  <2> QED
    BY <1>t, <2>4, CalmKeeps
<1>2. ASSUME UNCHANGED <<form, service, file, writers, news, given>>,
             desk'.quitSaving = desk.quitSaving, ~desk'.gone, desk.quitSaving => desk'.confirm
      PROVE  SettingsInv'
  <2>w. OnTheirWay' = OnTheirWay
    BY <1>2, SameWay
  <2>1. Closed' /\ EditsKept' /\ Calm
    BY <1>2, <1>k, <1>c, <2>w DEF Closed, EditsKept, Calm
  <2> QED
    BY <1>t, <2>1, CalmKeeps
<1>3. CASE FocusBar \/ FocusContent \/ StayHere
  BY <1>t, <1>2, <1>3, <1>c DEF FocusBar, FocusContent, StayHere, Asked, Desks, Closed
<1>4. CASE Quit
  <2>1. CASE AsksToSave
    BY <1>t, <1>2, <1>4, <2>1 DEF Quit, Desks
  <2>2. CASE ~AsksToSave
    <3>1. PICK g : g = [given EXCEPT !.aloft = OnTheirWay]
      OBVIOUS
    <3>2. Leaves(g)
      BY <1>4, <2>2, <3>1 DEF Quit
    <3>3. form.draft = file /\ form.pending = {}
      BY <1>c, <2>2 DEF AsksToSave, Agreed, OneSave, Drafts, Late
    <3>4. g.made = given.made /\ g.up = given.up /\ g.aloft = OnTheirWay
      BY <1>t, <3>1 DEF SettingsTypeOK
    <3>5. given' = g /\ desk'.gone /\ file' = file
      BY <1>t, <3>2 DEF Leaves, Desks
    <3>6. EditsKept'
      BY <1>k, <3>3, <3>4, <3>5 DEF EditsKept
    <3> QED
      BY <1>t, <3>2, <3>6, LeavingKeeps
  <2> QED
    BY <2>1, <2>2
<1>5. CASE DiscardAll
  <2>1. PICK g : g = [given EXCEPT !.up = given.made]
    OBVIOUS
  <2>2. Leaves(g)
    BY <1>5, <2>1 DEF DiscardAll
  <2>3. g.made = given.made /\ g.up = given.made /\ given' = g
    BY <1>t, <2>1, <2>2 DEF Leaves, SettingsTypeOK
  <2>4. EditsKept'
    BY <2>3 DEF EditsKept
  <2> QED
    BY <1>t, <2>2, <2>4, LeavingKeeps
<1>6. CASE SaveAndQuit /\ form.pending # {}
  <2>1. /\ desk' = [desk EXCEPT !.confirm = FALSE, !.bar = FALSE, !.tab = "settings"]
        /\ UNCHANGED <<form, service, file, writers, news, given>> /\ ~desk.quitSaving
    BY <1>6 DEF SaveAndQuit, Asked
  <2> QED
    BY <1>t, <1>2, <2>1 DEF Desks
<1>7. CASE SaveAndQuit /\ form.pending = {}
  <2>1. PICK w : w = [by |-> "quit", cfg |-> form.draft, step |-> "write"]
    OBVIOUS
  <2>2. /\ writers' = writers \cup {w} /\ w.by = "quit" /\ w.cfg = form.draft /\ w.step = "write"
        /\ desk' = [desk EXCEPT !.quitSaving = TRUE] /\ desk.confirm /\ ~desk.quitSaving
        /\ UNCHANGED <<form, service, file, news>>
    BY <1>7, <2>1 DEF SaveAndQuit, Asked
  <2>3. desk'.quitSaving /\ desk'.confirm /\ desk'.gone = desk.gone
    BY <1>t, <2>2 DEF Desks
  <2>g. given'.aloft = OnTheirWay /\ given'.made = given.made /\ given'.up = given.up
    BY <1>t, <1>7 DEF SaveAndQuit, SettingsTypeOK
  <2>w. OnTheirWay' = OnTheirWay
    BY <2>2, SameWay
  <2>4. \A v \in writers : v.by = "saved"
    BY <1>t, <1>c, <2>2 DEF OneSave, Awaited, SettingsTypeOK, Saves
  <2>5. \A m \in news : m.type # "quit"
    BY <1>c, <2>2 DEF OneSave, Awaited
  <2>6. Closed'
    BY <1>c, <1>7, <2>2, <2>3, <2>g, <2>w DEF Closed
  <2>d. /\ \A cfg : Drafts(cfg) => cfg = form.draft
        /\ \A cfg : cfg = form.draft => Drafts(cfg)'
    BY <2>2 DEF Drafts, Late
  <2>7. OneSave'
    <3>1. \A v \in writers' : Drafts(v.cfg)'
      BY <1>c, <2>2, <2>d DEF OneSave
    <3> QED
      BY <1>c, <2>2, <2>3, <2>4, <2>5, <3>1 DEF OneSave, Awaited
  <2>8. Agreed'
    <3>1. \A m \in news' : m.type # "child" /\ m.ok => Drafts(service.cfg)' /\ Drafts(file)'
      BY <1>c, <2>2, <2>d DEF Agreed
    <3> QED
      BY <1>c, <2>2, <3>1 DEF Agreed
  <2>9. EditsKept'
    BY <1>k, <2>2, <2>3, <2>g, <2>w DEF EditsKept
  <2> QED
    BY <1>t, <2>6, <2>7, <2>8, <2>9 DEF SettingsInv
<1> QED
  BY <1>1, <1>3, <1>4, <1>5, <1>6, <1>7 DEF RootStep

LEMMA WritersKeep ==
  ASSUME SettingsInv, ~desk.gone, NEW w \in writers, Writer(w)
  PROVE  SettingsInv'
<1>t. SettingsTypeOK /\ SettingsTypeOK' /\ w \in Saves
  BY SettingsTypesKept DEF SettingsNext, SettingsInv, SettingsTypeOK
<1>o. Closed /\ OneSave /\ Agreed
  BY DEF SettingsInv
<1>u. UNCHANGED <<form, desk, given>>
  BY DEF Writer, WriteFails, FileRenamed, ConfigPublished
<1>b. w.by \in {"saved", "quit"}
  BY <1>t DEF Saves
<1>n. OnTheirWay' = OnTheirWay
  <2>1. \A m : m.type = "child" => (m \in news' <=> m \in news)
    BY <1>b DEF Writer, WriteFails, FileRenamed, ConfigPublished, Result
  <2> QED
    BY <1>u, <2>1, SameWay
<1>c. Closed' /\ EditsKept'
  BY <1>u, <1>o, <1>n DEF SettingsInv, Closed, EditsKept
<1>a. /\ \A by : Awaited(by)' = Awaited(by)
      /\ \A cfg : Drafts(cfg)' = Drafts(cfg)
  BY <1>u DEF Awaited, Drafts, Late
<1>w. Drafts(w.cfg) /\ Awaited(w.by)
  BY <1>o DEF OneSave
<1>v. ASSUME NEW v \in writers, v # w PROVE v.cfg = w.cfg
  <2>1. form.saving
    BY <1>t, <1>o, <1>v DEF OneSave, Awaited, SettingsTypeOK, Saves
  <2>2. \A cfg : Drafts(cfg) => cfg = form.draft
    BY <2>1 DEF Drafts, Late
  <2>3. Drafts(v.cfg) /\ Drafts(w.cfg)
    BY <1>o, <1>v DEF OneSave
  <2> QED
    BY <2>2, <2>3
<1>1. ASSUME NEW ok \in BOOLEAN, Result(w, ok) PROVE OneSave'
  <2>1. PICK n : n = [type |-> w.by, id |-> NoChild, ok |-> ok, edits |-> {}]
    OBVIOUS
  <2>2. writers' = writers \ {w} /\ news' = news \cup {n} /\ n.type = w.by
    BY <1>1, <2>1 DEF Result
  <2>3. (\A v \in writers : v.by = w.by => v = w) /\ (\A m \in news : m.type # w.by)
    BY <1>o DEF OneSave
  <2> QED
    BY <1>o, <1>a, <1>b, <1>w, <2>2, <2>3 DEF OneSave
<1>2. CASE WriteFails(w)
  <2>1. w.step = "write" /\ Result(w, FALSE) /\ UNCHANGED <<service, file>>
    BY <1>2 DEF WriteFails
  <2>2. PICK n : n = [type |-> w.by, id |-> NoChild, ok |-> FALSE, edits |-> {}]
    OBVIOUS
  <2>3. writers' = writers \ {w} /\ news' = news \cup {n} /\ ~n.ok
    BY <2>1, <2>2 DEF Result
  <2>4. Agreed'
    BY <1>o, <1>u, <1>a, <2>1, <2>3 DEF Agreed
  <2> QED
    BY <1>t, <1>c, <1>1, <2>1, <2>4 DEF SettingsInv
<1>3. CASE FileRenamed(w)
  <2>1. PICK v : v = [w EXCEPT !.step = "publish"]
    OBVIOUS
  <2>2. v.by = w.by /\ v.cfg = w.cfg /\ v.step = "publish"
    BY <1>t, <2>1 DEF Saves
  <2>3. writers' = (writers \ {w}) \cup {v} /\ file' = w.cfg /\ UNCHANGED <<service, news>>
    BY <1>3, <2>1 DEF FileRenamed
  <2>4. \A x \in writers : x.by = w.by => x = w
    BY <1>o DEF OneSave
  <2>5. OneSave'
    BY <1>o, <1>u, <1>a, <1>w, <2>2, <2>3, <2>4 DEF OneSave
  <2>6. Agreed'
    <3>1. \A x \in writers' : x.cfg = w.cfg
      BY <1>v, <2>2, <2>3
    <3>2. \A m \in news' : m.type # "child" /\ m.ok => Drafts(service.cfg)' /\ Drafts(w.cfg)'
      BY <1>o, <1>a, <1>w, <2>3 DEF Agreed
    <3> QED
      BY <1>o, <1>u, <2>2, <2>3, <3>1, <3>2 DEF Agreed
  <2> QED
    BY <1>t, <1>c, <2>5, <2>6 DEF SettingsInv
<1>4. CASE ConfigPublished(w)
  <2>1. w.step = "publish" /\ service' = [cfg |-> w.cfg, setup |-> FALSE] /\ Result(w, TRUE) /\ file' = file
    BY <1>4 DEF ConfigPublished
  <2>2. file = w.cfg /\ service'.cfg = w.cfg
    BY <1>o, <2>1 DEF Agreed
  <2>3. writers' \subseteq writers
    BY <2>1 DEF Result
  <2>4. ~form.dirty => form.draft = w.cfg
    BY <1>w DEF Drafts, Late
  <2>5. Agreed'
    BY <1>o, <1>u, <1>a, <1>w, <2>1, <2>2, <2>3, <2>4 DEF Agreed
  <2> QED
    BY <1>t, <1>c, <1>1, <2>1, <2>5 DEF SettingsInv
<1> QED
  BY <1>2, <1>3, <1>4 DEF Writer

LEMMA DeliveriesKeep ==
  ASSUME SettingsInv, ~desk.gone, NEW m \in news, Delivered(m)
  PROVE  SettingsInv'
<1>t. SettingsTypeOK /\ SettingsTypeOK' /\ form \in Forms /\ desk \in Desks
  BY SettingsTypesKept DEF SettingsNext, SettingsInv, SettingsTypeOK
<1>o. Closed /\ OneSave /\ Agreed
  BY DEF SettingsInv
<1>k. given.made \subseteq given.up \cup form.draft \cup form.pending \cup OnTheirWay
  BY DEF SettingsInv, EditsKept
<1>1. CASE ChildResult(m)
  <2>1. m.type = "child" /\ m.id # NoChild /\ UNCHANGED <<desk, service, file, writers>>
    BY <1>o, <1>1 DEF ChildResult, GivesUp, OneSave
  <2>n. news' = news \ {m}
    BY <2>1 DEF Delivered
  <2>2. CASE m.id # form.child
    <3>1. form' = form /\ given'.made = given.made /\ given'.up = given.up /\ given'.aloft = given.aloft
      BY <1>t, <1>1, <2>2 DEF ChildResult, GivesUp, SettingsTypeOK
    <3>w. OnTheirWay' = OnTheirWay
      BY <2>2, <2>n, <3>1, SameWay
    <3>2. Closed' /\ EditsKept' /\ Calm
      BY <1>o, <1>k, <2>1, <2>n, <3>1, <3>w DEF Closed, EditsKept, Calm
    <3> QED
      BY <1>t, <3>2, CalmKeeps
  <2>3. CASE m.id = form.child
    <3>1. ~form.saving
      BY <1>o, <2>1, <2>3 DEF Closed
    <3>2. PICK closed \in Forms : closed = [form EXCEPT !.child = NoChild, !.pending = {}]
      <4>1. NoChild \in 0 .. MaxChildren
        BY SettingsAssumption DEF NoChild
      <4> QED
        BY <1>t, <4>1 DEF Forms, Configs
    <3>3. /\ closed.draft = form.draft /\ closed.dirty = form.dirty /\ closed.saving = form.saving
          /\ closed.editing = form.editing /\ closed.child = NoChild /\ closed.pending = {}
      BY <1>t, <3>2 DEF Forms
    <3>4. PICK d \in BOOLEAN : d = (form.dirty \/ m.edits # {})
      BY <1>t DEF Forms
    <3>a. PICK all : all = form.pending \cup OnTheirWay
      OBVIOUS
    <3>5. IF m.ok
          THEN /\ form' = [closed EXCEPT !.draft = form.draft \cup m.edits, !.dirty = d]
               /\ given' = [given EXCEPT !.up = given.up \cup (all \ m.edits)]
          ELSE form' = closed /\ given' = [given EXCEPT !.up = given.up \cup all]
      BY <1>1, <2>3, <3>2, <3>3, <3>4, <3>a DEF ChildResult, GivesUp
    <3>6. /\ form'.draft = (IF m.ok THEN form.draft \cup m.edits ELSE form.draft)
          /\ form'.dirty = (IF m.ok THEN d ELSE form.dirty)
          /\ form'.saving = form.saving /\ form'.editing = form.editing /\ form'.child = NoChild
          /\ form'.pending = {}
      BY <3>3, <3>5 DEF Forms
    <3>7. /\ given'.made = given.made /\ given'.aloft = given.aloft
          /\ given'.up = given.up \cup (IF m.ok THEN all \ m.edits ELSE all)
      BY <1>t, <3>5 DEF SettingsTypeOK
    <3>8. EditsKept'
      BY <1>k, <2>1, <3>a, <3>6, <3>7 DEF EditsKept
    <3>9. CASE Idle
      <4>1. ~form'.dirty => form'.draft = service.cfg
        BY <1>o, <3>4, <3>6 DEF Agreed
      <4> QED
        BY <1>t, <2>n, <2>1, <3>1, <3>6, <3>8, <3>9, <4>1, IdleKeeps
    <3>10. CASE desk.quitSaving
      <4>1. m.ok => m.edits \subseteq given.aloft
        <5>1. m.ok => m.edits \subseteq OnTheirWay
          BY <2>1, <2>3 DEF OnTheirWay
        <5> QED
          BY <1>o, <3>10, <5>1 DEF Closed
      <4>2. Closed'
        <5>1. OnTheirWay' = {}
          BY <1>o, <2>n, <3>6 DEF OnTheirWay, OneSave
        <5> QED
          BY <1>o, <2>1, <3>1, <3>6, <5>1 DEF Closed
      <4>3. form.draft \subseteq form'.draft /\ form'.draft \subseteq form.draft \cup Late'
        BY <2>1, <3>1, <3>4, <3>6, <3>7, <3>10, <4>1 DEF Late
      <4>4. form'.draft = form.draft \/ form'.dirty
        BY <3>4, <3>6
      <4>5. form.dirty => form'.dirty
        BY <3>4, <3>6
      <4>6. Calm
        BY <2>n, <2>1, <3>6, <3>7, <4>3, <4>4, <4>5 DEF Calm
      <4> QED
        BY <1>t, <3>8, <4>2, <4>6, CalmKeeps
    <3> QED
      BY <3>1, <3>9, <3>10 DEF Idle
  <2> QED
    BY <2>2, <2>3
<1>2. CASE SavedArrives(m)
  <2>1. /\ m.type = "saved" /\ form' = Saved(m) /\ UNCHANGED <<desk, service, file, writers, given>>
        /\ form.saving
    BY <1>o, <1>2 DEF SavedArrives, OneSave, Awaited
  <2>n. news' = news \ {m}
    BY <2>1 DEF Delivered
  <2>d. /\ \A cfg : Drafts(cfg) => cfg = form.draft
        /\ \A cfg : cfg = form'.draft => Drafts(cfg)'
    BY <2>1 DEF Drafts, Late
  <2>2. /\ \A w \in writers : w.by # "saved"
        /\ \A n \in news' : n.type # "saved"
        /\ m.ok => service.cfg = form.draft /\ file = form.draft
    BY <1>o, <2>n, <2>d, <2>1 DEF OneSave, Agreed
  <2>3. /\ form'.draft = form.draft /\ form'.pending = form.pending /\ form'.saving = FALSE
        /\ form'.editing = form.editing /\ form'.child = form.child
        /\ ~form'.dirty => ~form.dirty \/ m.ok
    BY <1>t, <2>1, <2>2 DEF Saved, Forms
  <2>w. OnTheirWay' = OnTheirWay
    BY <2>1, <2>n, <2>3, SameWay
  <2>4. Closed'
    BY <1>o, <2>1, <2>3, <2>w DEF Closed
  <2>5. OneSave'
    <3>1. \A w \in writers : Drafts(w.cfg)'
      BY <1>o, <2>d, <2>3 DEF OneSave
    <3> QED
      BY <1>o, <2>n, <2>1, <2>2, <2>3, <3>1 DEF OneSave, Awaited
  <2>6. Agreed'
    <3>0. PICK c, f : c = service.cfg /\ f = file /\ service'.cfg = c /\ file' = f
      BY <2>1
    <3>1. ASSUME NEW n \in news', n.type # "child", n.ok PROVE Drafts(service.cfg)' /\ Drafts(file)'
      <4>1. Drafts(c) /\ Drafts(f)
        BY <1>o, <2>n, <3>0, <3>1 DEF Agreed
      <4>2. Drafts(c)' /\ Drafts(f)'
        BY <2>d, <2>3, <4>1
      <4> QED
        BY <3>0, <4>2 DEF Drafts, Late
    <3> QED
      BY <1>o, <2>1, <2>2, <2>3, <3>1 DEF Agreed
  <2>7. EditsKept'
    BY <1>k, <2>1, <2>3, <2>w DEF EditsKept
  <2> QED
    BY <1>t, <2>4, <2>5, <2>6, <2>7 DEF SettingsInv
<1>3. CASE QuitSavedArrives(m) /\ m.ok
  <2>1. Leaves(given) /\ m.type = "quit"
    BY <1>3 DEF QuitSavedArrives
  <2>2. desk.quitSaving
    BY <1>o, <2>1 DEF OneSave, Awaited
  <2>3. Drafts(file)
    BY <1>o, <1>3, <2>1 DEF Agreed
  <2>4. form.draft \subseteq file \cup given.aloft
    BY <2>3 DEF Drafts, Late
  <2>5. form.pending = {} /\ OnTheirWay \subseteq given.aloft
    BY <1>o, <2>2 DEF Closed
  <2>6. desk'.gone /\ file' = file /\ given' = given
    BY <1>t, <2>1 DEF Leaves, Desks
  <2>7. EditsKept'
    BY <1>k, <2>4, <2>5, <2>6 DEF EditsKept
  <2> QED
    BY <1>t, <2>1, <2>7, LeavingKeeps
<1>4. CASE QuitSavedArrives(m) /\ ~m.ok
  <2>1. /\ m.type = "quit" /\ desk' = [desk EXCEPT !.quitSaving = FALSE]
        /\ given' = [given EXCEPT !.aloft = {}]
        /\ UNCHANGED <<form, service, file, writers>> /\ desk.quitSaving
    BY <1>o, <1>4 DEF QuitSavedArrives, OneSave, Awaited
  <2>n. news' = news \ {m}
    BY <1>t, <2>1 DEF Delivered, Desks
  <2>2. desk'.quitSaving = FALSE /\ desk'.gone = desk.gone
    BY <1>t, <2>1 DEF Desks
  <2>g. given'.made = given.made /\ given'.up = given.up
    BY <1>t, <2>1 DEF SettingsTypeOK
  <2>w. OnTheirWay' = OnTheirWay
    BY <2>1, <2>n, SameWay
  <2>3. /\ \A w \in writers : w.by = "saved" /\ form.saving
        /\ \A n \in news' : n.type \in {"child", "saved"} /\ (n.type = "saved" => form.saving)
    BY <1>t, <1>o, <2>n, <2>1 DEF OneSave, Awaited, SettingsTypeOK, Saves, Results
  <2>d. form.saving => \A cfg : Drafts(cfg) => Drafts(cfg)'
    BY <2>1 DEF Drafts, Late
  <2>4. Closed'
    BY <1>o, <2>1, <2>2 DEF Closed
  <2>5. OneSave'
    <3>1. \A w \in writers : Drafts(w.cfg)'
      BY <1>o, <2>3, <2>d DEF OneSave
    <3> QED
      BY <1>o, <2>n, <2>1, <2>3, <3>1 DEF OneSave, Awaited
  <2>6. Agreed'
    <3>0. PICK c, f : c = service.cfg /\ f = file /\ service'.cfg = c /\ file' = f
      BY <2>1
    <3>1. ASSUME NEW n \in news', n.type # "child", n.ok PROVE Drafts(service.cfg)' /\ Drafts(file)'
      <4>1. Drafts(c) /\ Drafts(f) /\ form.saving
        BY <1>o, <2>n, <2>3, <3>0, <3>1 DEF Agreed
      <4>2. Drafts(c)' /\ Drafts(f)'
        BY <2>d, <4>1
      <4> QED
        BY <3>0, <4>2 DEF Drafts, Late
    <3> QED
      BY <1>o, <2>n, <2>1, <3>1 DEF Agreed
  <2>7. EditsKept'
    BY <1>k, <2>1, <2>2, <2>g, <2>w DEF EditsKept
  <2> QED
    BY <1>t, <2>4, <2>5, <2>6, <2>7 DEF SettingsInv
<1> QED
  BY <1>1, <1>2, <1>3, <1>4 DEF Delivered

LEMMA SettingsInductive ==
  SettingsSpec => []SettingsInv
<1>1. SettingsInit => SettingsInv
  <2> SUFFICES ASSUME SettingsInit PROVE SettingsInv
    OBVIOUS
  <2>1. PICK setup \in BOOLEAN : setup = service.setup
    BY DEF SettingsInit
  <2>2. form = NewForm(setup) /\ NoChild \in 0 .. MaxChildren /\ 0 \in 0 .. MaxChildren
    BY <2>1, SettingsAssumption DEF SettingsInit, NoChild
  <2>3. form \in Forms
    BY <2>2, NewFormType
  <2>4. SettingsTypeOK
    BY <2>3 DEF SettingsInit, SettingsTypeOK, Desks, Configs
  <2> QED
    BY <2>2, <2>4 DEF SettingsInit, NewForm, SettingsInv, Closed, OneSave, Agreed, EditsKept
<1>2. ASSUME SettingsInv, [SettingsNext]_settingsVars PROVE SettingsInv'
  <2>1. CASE ~desk.gone /\ Tick
    <3>1. /\ form' = ReloadedForm /\ UNCHANGED <<desk, service, file, writers, news, given>>
      BY <2>1 DEF Tick, FormBecomes
    <3>w. OnTheirWay' = OnTheirWay
      BY <1>2, <2>1, <3>1, ReloadIsCalm, SameWay
    <3>2. Closed' /\ EditsKept' /\ Calm
      BY <1>2, <2>1, <3>1, <3>w, ReloadIsCalm DEF SettingsInv, Closed, EditsKept, Calm
    <3>3. SettingsTypeOK'
      BY <1>2, <2>1, SettingsTypesKept DEF SettingsNext, SettingsInv
    <3> QED
      BY <1>2, <2>1, <3>2, <3>3, CalmKeeps
  <2>2. CASE UNCHANGED settingsVars
    BY <1>2, <2>2
       DEF settingsVars, SettingsInv, SettingsTypeOK, Closed, OneSave, Awaited, Agreed, EditsKept,
           OnTheirWay, Drafts, Late
  <2> QED
    BY <1>2, <2>1, <2>2, KeysKeep, SaveKeeps, RootKeeps, WritersKeep, DeliveriesKeep DEF SettingsNext
<1> QED
  BY <1>1, <1>2, PTL DEF SettingsSpec

\* Types of the form, the root model and the saves under way.
THEOREM SettingsTypeCorrect == SettingsSpec => []SettingsTypeOK
<1>1. SettingsInv => SettingsTypeOK
  BY DEF SettingsInv
<1> QED
  BY <1>1, SettingsInductive, PTL

\* No edit is lost unless the user gave it up, through any number of edits, pickers,
\* ticks, switches, saves that fail or overlap with the save on leaving: a draft that
\* is read anew agrees with the service, and the console closes over a file that is
\* the draft, but for choices whose messages were on their way when the user quit
\* (configTab.Init, configSavedMsg, quitSavedMsg, Picker.Dirty).
THEOREM NoEditIsLost == SettingsSpec => []EditsKept
<1>1. SettingsInv => EditsKept
  BY DEF SettingsInv
<1> QED
  BY <1>1, SettingsInductive, PTL

-----------------------------------------------------------------------------
\* Chat.

\* A command the model runs, or none.
Commands == STRING \cup {"none"}
Statuses == {"", "RUNNING", "APPROVAL REQUIRED", "SUCCEEDED", "FAILED"}

Dialogs == [work : Nat, dismissed : BOOLEAN]
Tabs == [session : Nat, chat : Chats, starting : BOOLEAN, running : BOOLEAN, stopping : BOOLEAN,
         prompt : BOOLEAN, turn : Nat, wait : BOOLEAN, approval : Dialogs, inFlight : BOOLEAN,
         answer : Nat, focus : {"live", "activity"}]
Events == [type : {"approval", "started", "command", "finished", "verify"}, chat : Chats, turn : Nat,
           call : Nat, command : Commands, work : Nat, ok : BOOLEAN]
ToolCalls == [turn : Nat, call : Nat, command : Commands, status : Statuses, from : SUBSET (Nat \X Nat)]
Outcomes == [command : Commands, ok : BOOLEAN]
Turns == [at : {"idle", "begin", "waiting", "thinking", "call", "running"}, turn : Nat, call : Nat,
          command : Commands, work : Nat, outcomes : Seq(Outcomes), cancelled : BOOLEAN,
          signal : BOOLEAN, closed : BOOLEAN]
Readers == [chat : Chats, turn : Nat, held : Events \cup {Unheld}]
Approvings == [chat : Chats, work : Nat, step : {"save", "resume"}]
Arrivals == [type : {"done"}, outcomes : Seq(Outcomes)] \cup [type : {"answer"}, work : Nat, ok : BOOLEAN]
AskedWorks == [chat : Chats, turn : Nat, call : Nat]

ChatTypeOK ==
  /\ tab \in Tabs
  /\ shown \in Seq(ToolCalls)
  /\ channel \in [Chats -> Seq(Events)]
  /\ readers \in Seq(Readers)
  /\ talk \in [Chats -> Turns]
  /\ approving \in SUBSET Approvings
  /\ mail \in SUBSET Arrivals
  /\ work \in Seq(AskedWorks)
  /\ plan \in Plans

\* One turn at a time, of the conversation the tab shows, and its one result.
Turning ==
  /\ tab.session \in {0, tab.chat}
  /\ tab.turn > 0 => tab.session = tab.chat
  /\ tab.running => tab.turn > 0
  /\ tab.starting => tab.session = 0
  /\ \A c \in Chats : talk[c].at # "idle" =>
       /\ c = tab.chat /\ tab.running /\ tab.turn = talk[c].turn
       /\ c + talk[c].turn - 1 \in 1..Len(plan.calls)
  /\ \A m \in mail : m.type = "done" =>
       /\ tab.running /\ talk[tab.chat].at = "idle"
       /\ \A n \in mail : n.type = "done" => n = m

\* Where an event can be under way: in a conversation's channel, or in the hand
\* of a reader (written as conversation 0).
Places ==
  {<<0, i>> : i \in DOMAIN readers} \cup UNION {{<<c, k>> : k \in DOMAIN channel[c]} : c \in Chats}
At(p) == IF p[1] = 0 THEN readers[p[2]].held ELSE channel[p[1]][p[2]]
Approves(p) == p \in Places /\ At(p).type = "approval"
Sent(w) == \E p \in Places : Approves(p) /\ At(p).work = w

IsAsked(w, c, turn, call) == w \in DOMAIN work /\ work[w] = [chat |-> c, turn |-> turn, call |-> call]

\* Nobody has seen that this approval was asked.
Unseen(w) ==
  /\ tab.approval.work # w /\ tab.answer # w
  /\ \A a \in approving : a.work # w
  /\ \A m \in mail : m.type = "answer" => m.work # w

\* An approval event is of an approval that was asked, which nobody has seen,
\* and there is one event of it only.
Sending ==
  /\ \A p \in Places : Approves(p) =>
       IsAsked(At(p).work, At(p).chat, At(p).turn, At(p).call) /\ Unseen(At(p).work)
  /\ \A p, q \in Places : Approves(p) /\ Approves(q) /\ At(p).work = At(q).work => p = q

Current(w) == <<work[w].chat, work[w].turn>> = <<tab.chat, tab.turn>>
Granted(m) == m.type = "answer" /\ m.ok

\* What is answered was asked.  The turn of an approval that was granted goes on.
Answered ==
  /\ tab.approval.work # NoWork =>
       tab.approval.work \in DOMAIN work /\ work[tab.approval.work].chat = tab.chat /\ tab.turn > 0
  /\ tab.answer # NoWork => tab.answer \in DOMAIN work
  /\ \A a \in approving : a.work \in DOMAIN work
  /\ \A m \in mail : m.type = "answer" => m.work \in DOMAIN work
  /\ \A c \in Chats : talk[c].at = "waiting" =>
       /\ talk[c].work \in DOMAIN work
       /\ work[talk[c].work].chat = c /\ work[talk[c].work].turn = talk[c].turn
  /\ \A m \in mail : Granted(m) =>
       /\ m.work = tab.approval.work => tab.running /\ Current(m.work)
       /\ m.work = tab.answer => Current(m.work)
       /\ \A c \in Chats : ~ (talk[c].at = "waiting" /\ talk[c].work = m.work /\ ~talk[c].signal)

Sourced(items, c) == \A i \in DOMAIN items : items[i].from \subseteq {<<c, items[i].turn>>}

\* The first approval of a turn that waits is shown or on its way.
FirstIsSent ==
  \A c \in Chats :
    Waits(c) /\ work[talk[c].work].call # NoCall /\ First(talk[c].work) =>
      tab.approval.work = talk[c].work \/ Sent(talk[c].work)

ChatInv ==
  ChatTypeOK /\ Turning /\ Sending /\ Answered /\ Sourced(shown, tab.chat) /\ FirstIsSent

-----------------------------------------------------------------------------
(* Chat: sequences. *)

\* A set of naturals that is not empty has a least member.
LEMMA Least ==
  ASSUME NEW T \in SUBSET Nat, T # {}
  PROVE  \E m \in T : \A k \in T : m <= k
<1> DEFINE R == {s \in Nat \X Nat : s[1] < s[2]}
<1>1. IsWellFoundedOn(R, Nat)
  BY NatLessThanWellFounded DEF OpToRel
<1>2. \A k, m \in Nat : k < m => <<k, m>> \in R
  OBVIOUS
<1> HIDE DEF R
<1>3. PICK m \in T : \A k \in T : ~ (<<k, m>> \in R)
  BY <1>1, WFMin
<1>4. \A k \in T : ~ (k < m)
  BY <1>2, <1>3
<1> QED
  BY <1>4

\* A set of places of a sequence that is not empty has a last one, and a first one.
LEMMA Extremes ==
  ASSUME NEW n \in Nat, NEW s \in SUBSET (1..n), s # {}
  PROVE  /\ Max(s) \in s /\ \A k \in s : Max(s) >= k
         /\ Min(s) \in s /\ \A k \in s : Min(s) <= k
<1> DEFINE T == {k \in Nat : k <= n /\ n - k \in s}
<1>1. \A k \in s : k \in 1..n /\ n - k \in T /\ n - (n - k) = k
  OBVIOUS
<1>2. T \in SUBSET Nat /\ s \in SUBSET Nat
  OBVIOUS
<1>8. T # {}
  <2>1. PICK k \in s : TRUE
    OBVIOUS
  <2> HIDE DEF T
  <2> QED
    BY <1>1, <2>1
<1>3. PICK m \in T : \A k \in T : m <= k
  <2> HIDE DEF T
  <2> QED
    BY <1>2, <1>8, Least
<1>4. n - m \in s /\ \A k \in s : n - m >= k
  BY <1>1, <1>3
<1>5. Max(s) \in s /\ \A k \in s : Max(s) >= k
  BY <1>4 DEF Max
<1>6. \E m0 \in s : \A k \in s : m0 <= k
  BY <1>2, Least
<1>7. Min(s) \in s /\ \A k \in s : Min(s) <= k
  BY <1>6 DEF Min
<1> QED
  BY <1>5, <1>7

\* Append, by length and place.
LEMMA AppendIs ==
  ASSUME NEW S, NEW s \in Seq(S), NEW e \in S
  PROVE  /\ Append(s, e) \in Seq(S) /\ Len(Append(s, e)) = Len(s) + 1
         /\ \A k \in 1..Len(s) : Append(s, e)[k] = s[k]
         /\ Append(s, e)[Len(s) + 1] = e
  OBVIOUS

\* Tail and Head, by length and place.
LEMMA TailIs ==
  ASSUME NEW S, NEW s \in Seq(S), s # <<>>
  PROVE  /\ Tail(s) \in Seq(S) /\ Len(Tail(s)) = Len(s) - 1 /\ Len(s) > 0
         /\ \A k \in 1..(Len(s) - 1) : Tail(s)[k] = s[k + 1]
         /\ Head(s) = s[1] /\ Head(s) \in S
  OBVIOUS

\* Concatenation, by length and place.
LEMMA ConcatIs ==
  ASSUME NEW S, NEW s \in Seq(S), NEW t \in Seq(S)
  PROVE  /\ s \o t \in Seq(S) /\ Len(s \o t) = Len(s) + Len(t)
         /\ \A k \in 1..Len(s) : (s \o t)[k] = s[k]
         /\ \A k \in 1..Len(t) : (s \o t)[Len(s) + k] = t[k]
  OBVIOUS

\* A sequence without its element at i, by length and place.
LEMMA RemoveAtIs ==
  ASSUME NEW S, NEW s \in Seq(S), NEW i \in DOMAIN s
  PROVE  /\ RemoveAt(s, i) \in Seq(S) /\ Len(RemoveAt(s, i)) = Len(s) - 1
         /\ \A k \in 1..(Len(s) - 1) : RemoveAt(s, i)[k] = s[IF k < i THEN k ELSE k + 1]
<1> DEFINE a == SubSeq(s, 1, i - 1)
           z == SubSeq(s, i + 1, Len(s))
<1>1. i \in 1..Len(s) /\ Len(s) \in Nat
  OBVIOUS
<1>2. a \in Seq(S) /\ Len(a) = i - 1 /\ \A k \in 1..(i - 1) : a[k] = s[k]
  BY <1>1
<1>3. z \in Seq(S) /\ Len(z) = Len(s) - i /\ \A k \in 1..(Len(s) - i) : z[k] = s[k + i]
  BY <1>1
<1>4. RemoveAt(s, i) = a \o z
  BY DEF RemoveAt
<1> HIDE DEF a, z
<1>5. /\ a \o z \in Seq(S) /\ Len(a \o z) = Len(a) + Len(z)
      /\ \A k \in 1..Len(a) : (a \o z)[k] = a[k]
      /\ \A k \in 1..Len(z) : (a \o z)[Len(a) + k] = z[k]
  <2>1. a \in Seq(S) /\ z \in Seq(S)
    BY <1>2, <1>3
  <2> QED
    BY ONLY <2>1, ConcatIs
<1>6. ASSUME NEW k \in 1..(Len(s) - 1) PROVE (a \o z)[k] = s[IF k < i THEN k ELSE k + 1]
  <2>1. CASE k < i
    <3>1. k \in 1..(i - 1)
      BY <2>1, <1>1
    <3> QED
      BY <1>2, <1>5, <2>1, <3>1
  <2>2. CASE ~ (k < i)
    <3> DEFINE l == k - (i - 1)
    <3>1. l \in 1..(Len(s) - i) /\ k = i - 1 + l /\ l + i = k + 1
      BY <1>1, <2>2
    <3> HIDE DEF l
    <3>2. l \in 1..Len(z) /\ k = Len(a) + l
      BY <1>2, <1>3, <3>1
    <3>3. (a \o z)[k] = z[l]
      BY <1>5, <3>2
    <3> QED
      BY <1>3, <2>2, <3>1, <3>3
  <2> QED
    BY <2>1, <2>2
<1>7. Len(a \o z) = Len(s) - 1
  BY <1>1, <1>2, <1>3, <1>5
<1> QED
  BY <1>4, <1>5, <1>6, <1>7

\* A fold of typed steps over the subsets of 1..n, in the order of Max, exists.
Folds1(n, b, F, g) ==
  g = [s \in SUBSET (1..n) |-> IF s = {} THEN b ELSE F[<<Max(s), g[s \ {Max(s)}]>>]]

\* A fold over 1..m-1 gives the one over 1..m.
LEMMA FoldStep ==
  ASSUME NEW b, NEW F, NEW m \in Nat, m # 0, NEW g, Folds1(m - 1, b, F, g)
  PROVE  \E h : Folds1(m, b, F, h)
<1> DEFINE h == [s \in SUBSET (1..m) |-> IF m \in s THEN F[<<m, g[s \ {m}]>>] ELSE g[s]]
<1>1. \A s \in SUBSET (1..(m - 1)) : g[s] = IF s = {} THEN b ELSE F[<<Max(s), g[s \ {Max(s)}]>>]
  BY DEF Folds1
<1>2. \A s \in SUBSET (1..m) : h[s] = IF s = {} THEN b ELSE F[<<Max(s), h[s \ {Max(s)}]>>]
  <2> SUFFICES ASSUME NEW s \in SUBSET (1..m)
               PROVE  h[s] = IF s = {} THEN b ELSE F[<<Max(s), h[s \ {Max(s)}]>>]
    OBVIOUS
  <2>0. \A x : s \ {x} \in SUBSET (1..m)
    OBVIOUS
  <2>1. CASE m \in s
    <3>1. Max(s) \in s /\ \A k \in s : Max(s) >= k
      BY <2>1, Extremes
    <3>2. Max(s) = m
      <4>1. Max(s) \in 1..m /\ Max(s) >= m
        BY <2>1, <3>1
      <4> QED
        BY <4>1
    <3>3. h[s] = F[<<m, g[s \ {m}]>>]
      BY <2>1
    <3>4. h[s \ {m}] = g[s \ {m}]
      BY <2>0
    <3> QED
      BY <2>1, <3>2, <3>3, <3>4
  <2>2. CASE m \notin s
    <3>1. s \in SUBSET (1..(m - 1)) /\ h[s] = g[s]
      BY <2>2
    <3>3. \A x : h[s \ {x}] = g[s \ {x}]
      BY <2>0, <2>2
    <3> HIDE DEF h
    <3> QED
      BY <1>1, <3>1, <3>3
  <2> QED
    BY <2>1, <2>2
<1>3. Folds1(m, b, F, h)
  BY <1>2 DEF Folds1
<1> QED
  BY <1>3

\* The fold exists for every n: the least n without one would follow one that has it.
LEMMA FoldExists ==
  ASSUME NEW b, NEW F, NEW n \in Nat
  PROVE  \E g : Folds1(n, b, F, g)
<1> DEFINE Ex(k) == \E g : Folds1(k, b, F, g)
           T == {k \in Nat : ~Ex(k)}
<1>1. Ex(0)
  <2> DEFINE g == [s \in SUBSET (1..0) |-> b]
  <2>1. \A s \in SUBSET (1..0) : s = {}
    OBVIOUS
  <2>2. Folds1(0, b, F, g)
    BY <2>1 DEF Folds1
  <2> QED
    BY <2>2
<1>2. \A m \in Nat : m # 0 /\ Ex(m - 1) => Ex(m)
  BY FoldStep
<1> HIDE DEF Ex
<1>3. T = {}
  <2> SUFFICES ASSUME T # {} PROVE FALSE
    OBVIOUS
  <2>1. PICK m \in T : \A k \in T : m <= k
    BY Least
  <2>2. m \in Nat /\ m # 0 /\ ~Ex(m)
    BY <1>1, <2>1
  <2>3. m - 1 \in Nat /\ ~ (m <= m - 1)
    BY <2>2
  <2>4. Ex(m - 1)
    BY <2>1, <2>3
  <2> QED
    BY <1>2, <2>2, <2>4
<1>4. Ex(n)
  BY <1>3
<1> QED
  BY <1>4 DEF Ex

\* What a fold goes through, up to n, stays where each step stays.
LEMMA FoldStays ==
  ASSUME NEW S, NEW n \in Nat, NEW g,
         \A s \in SUBSET (1..n) : IF s = {} THEN g[s] \in S
                                  ELSE g[s \ {Max(s)}] \in S => g[s] \in S
  PROVE  \A s \in SUBSET (1..n) : g[s] \in S
<1> DEFINE Ok(k) == \A s \in SUBSET (1..k) : g[s] \in S
           T == {k \in 0..n : ~Ok(k)}
<1>2. Ok(0)
  <2>1. \A s \in SUBSET (1..0) : s = {} /\ s \in SUBSET (1..n)
    OBVIOUS
  <2> QED
    BY <2>1
<1>3. ASSUME NEW m \in 1..n, Ok(m - 1) PROVE Ok(m)
  <2> SUFFICES ASSUME NEW s \in SUBSET (1..m) PROVE g[s] \in S
    OBVIOUS
  <2>0. s \in SUBSET (1..n) /\ m \in Nat
    OBVIOUS
  <2>1. CASE s = {}
    BY <2>0, <2>1
  <2>2. CASE s # {}
    <3>1. Max(s) \in s /\ \A k \in s : Max(s) >= k
      BY <2>0, <2>2, Extremes
    <3>2. s \ {Max(s)} \in SUBSET (1..(m - 1))
      <4>1. ASSUME NEW k \in s, k # Max(s) PROVE k \in 1..(m - 1)
        <5>1. k \in 1..m /\ Max(s) \in 1..m /\ Max(s) >= k
          BY <3>1
        <5> QED
          BY <4>1, <5>1
      <4> QED
        BY <4>1
    <3>3. g[s \ {Max(s)}] \in S
      BY <1>3, <3>2
    <3> HIDE DEF Ok
    <3> QED
      BY <2>0, <2>2, <3>3
  <2> QED
    BY <2>1, <2>2
<1> HIDE DEF Ok
<1>4. T = {}
  <2> SUFFICES ASSUME T # {} PROVE FALSE
    OBVIOUS
  <2>5. T \in SUBSET Nat
    OBVIOUS
  <2>1. PICK m \in T : \A k \in T : m <= k
    <3> HIDE DEF T
    <3> QED
      BY <2>5, Least
  <2>2. m \in 0..n /\ m # 0 /\ ~Ok(m)
    BY <1>2, <2>1
  <2>3. m \in 1..n /\ m - 1 \in 0..n /\ ~ (m <= m - 1)
    BY <2>2
  <2>4. Ok(m - 1)
    BY <2>1, <2>3
  <2> QED
    BY <1>3, <2>2, <2>3, <2>4
<1>5. Ok(n)
  BY <1>4
<1> QED
  BY <1>5 DEF Ok

-----------------------------------------------------------------------------
(* Chat: what a message does to the tab. *)

WithApproval(t, a) == [t EXCEPT !.approval = a]

\* A tab and the tool calls it lists, as events leave them.
Shows(t) ==
  {s \in [tab : Tabs, shown : Seq(ToolCalls)] :
     (\E a \in Dialogs : s.tab = WithApproval(t, a)) /\ Sourced(s.shown, t.chat)}

\* The entry of an event is of the current turn, or new.
LEMMA EntryIs ==
  ASSUME NEW t \in Tabs, NEW items \in Seq(ToolCalls), NEW e \in Events, Sourced(items, t.chat),
         Correlated(t, e), NEW at \in DOMAIN items, items[at].turn = t.turn
  PROVE  LET l == [items EXCEPT ![at].status = StatusAfter(e),
                                ![at].command = IF e.command = "none" THEN @ ELSE e.command,
                                ![at].from = @ \cup {<<e.chat, e.turn>>}]
         IN  l \in Seq(ToolCalls) /\ Sourced(l, t.chat)
<1> DEFINE l == [items EXCEPT ![at].status = StatusAfter(e),
                              ![at].command = IF e.command = "none" THEN @ ELSE e.command,
                              ![at].from = @ \cup {<<e.chat, e.turn>>}]
           x == items[at]
           y == [x EXCEPT !.status = StatusAfter(e),
                          !.command = IF e.command = "none" THEN @ ELSE e.command,
                          !.from = @ \cup {<<e.chat, e.turn>>}]
<1>1. l = [items EXCEPT ![at] = y]
  OBVIOUS
<1>2. x \in ToolCalls /\ e.chat \in Nat /\ e.turn \in Nat /\ e.command \in Commands
  BY ChatAssumption DEF Events, Chats
<1>3. StatusAfter(e) \in Statuses
  BY DEF StatusAfter, Statuses
<1>4. y \in ToolCalls /\ y.turn = x.turn /\ y.from = x.from \cup {<<e.chat, e.turn>>}
  <2> DEFINE f == x.from \cup {<<e.chat, e.turn>>}
             c == IF e.command = "none" THEN x.command ELSE e.command
             s == StatusAfter(e)
  <2>1. f \in SUBSET (Nat \X Nat)
    BY <1>2 DEF ToolCalls
  <2>2. c \in Commands /\ x \in ToolCalls /\ s \in Statuses
    BY <1>2, <1>3 DEF ToolCalls
  <2>3. y = [x EXCEPT !.status = s, !.command = c, !.from = f]
    OBVIOUS
  <2> HIDE DEF x, y, f, c, s
  <2>4. y \in ToolCalls /\ y.turn = x.turn /\ y.from = f
    <3>1. /\ [x EXCEPT !.status = s, !.command = c, !.from = f] \in ToolCalls
          /\ [x EXCEPT !.status = s, !.command = c, !.from = f].turn = x.turn
          /\ [x EXCEPT !.status = s, !.command = c, !.from = f].from = f
      BY ONLY <2>1, <2>2 DEF ToolCalls
    <3> QED
      BY ONLY <2>3, <3>1
  <2> QED
    BY <2>4 DEF f
<1> HIDE DEF y
<1>5. /\ [items EXCEPT ![at] = y] \in Seq(ToolCalls)
      /\ DOMAIN [items EXCEPT ![at] = y] = DOMAIN items
      /\ \A i \in DOMAIN items : [items EXCEPT ![at] = y][i] = IF i = at THEN y ELSE items[i]
  BY <1>4
<1>6. Sourced([items EXCEPT ![at] = y], t.chat)
  BY <1>4, <1>5 DEF Sourced, Correlated
<1> QED
  BY <1>1, <1>5, <1>6

\* An event changes of the tab no more than the approval, to the one it asks for.
LEMMA Applied ==
  ASSUME NEW t \in Tabs, NEW s \in Shows(t), NEW e \in Events
  PROVE  LET r == ApplyRuntimeEvent(s, e)
             asks == Correlated(s.tab, e) /\ e.type = "approval" /\ e.call # NoCall
         IN  /\ r \in Shows(t)
             /\ ~asks => r.tab = s.tab
             /\ asks => r.tab = WithApproval(s.tab, [work |-> e.work, dismissed |-> FALSE])
<1> DEFINE r == ApplyRuntimeEvent(s, e)
<1>0. s.tab \in Tabs /\ s.shown \in Seq(ToolCalls) /\ Sourced(s.shown, t.chat)
      /\ s.tab.chat = t.chat /\ \E a \in Dialogs : s.tab = WithApproval(t, a)
  BY DEF Shows, WithApproval, Tabs
<1>1. CASE ~Correlated(s.tab, e) \/ e.type = "verify" \/ e.call = NoCall
  <2>1. r = s
    BY <1>1 DEF ApplyRuntimeEvent
  <2> QED
    BY <1>1, <2>1
<1>2. CASE ~ (~Correlated(s.tab, e) \/ e.type = "verify" \/ e.call = NoCall)
  <2> DEFINE known == {i \in DOMAIN s.shown : s.shown[i].call = e.call /\ s.shown[i].turn = s.tab.turn}
             items == IF known = {} THEN Append(s.shown, Entry(s.tab, e)) ELSE s.shown
             at == IF known = {} THEN Len(items) ELSE Min(known)
             l == [items EXCEPT ![at].status = StatusAfter(e),
                                ![at].command = IF e.command = "none" THEN @ ELSE e.command,
                                ![at].from = @ \cup {<<e.chat, e.turn>>}]
             u == IF e.type = "approval"
                  THEN [s.tab EXCEPT !.approval = [work |-> e.work, dismissed |-> FALSE]] ELSE s.tab
  <2>1. r = [tab |-> u, shown |-> l]
    BY <1>2 DEF ApplyRuntimeEvent
  <2>2. items \in Seq(ToolCalls) /\ Sourced(items, t.chat) /\ at \in DOMAIN items /\ items[at].turn = s.tab.turn
    <3>1. CASE known = {}
      <4>1. Entry(s.tab, e) \in ToolCalls
        BY <1>0 DEF Entry, ToolCalls, Tabs, Events, Statuses, Commands
      <4>2. /\ Append(s.shown, Entry(s.tab, e)) \in Seq(ToolCalls)
            /\ Len(Append(s.shown, Entry(s.tab, e))) = Len(s.shown) + 1
            /\ \A k \in 1..Len(s.shown) : Append(s.shown, Entry(s.tab, e))[k] = s.shown[k]
            /\ Append(s.shown, Entry(s.tab, e))[Len(s.shown) + 1] = Entry(s.tab, e)
        BY <1>0, <4>1, AppendIs
      <4>3. Entry(s.tab, e).turn = s.tab.turn /\ Entry(s.tab, e).from = {}
        BY DEF Entry
      <4>4. items = Append(s.shown, Entry(s.tab, e)) /\ at = Len(items)
        BY <3>1
      <4> HIDE DEF items, at
      <4>5. Len(s.shown) \in Nat /\ DOMAIN s.shown = 1..Len(s.shown) /\ DOMAIN items = 1..(Len(s.shown) + 1)
        BY <1>0, <4>2, <4>4
      <4>6. ASSUME NEW i \in DOMAIN items PROVE items[i].from \subseteq {<<t.chat, items[i].turn>>}
        <5>1. i \in 1..Len(s.shown) \/ i = Len(s.shown) + 1
          BY <4>5
        <5> QED
          BY <1>0, <4>2, <4>3, <4>4, <4>5, <5>1 DEF Sourced
      <4> QED
        BY <4>2, <4>3, <4>4, <4>5, <4>6 DEF Sourced
    <3>2. CASE known # {}
      <4>1. known \in SUBSET (1..Len(s.shown)) /\ Len(s.shown) \in Nat
        BY <1>0
      <4>2. Min(known) \in known
        <5> HIDE DEF known
        <5> QED
          BY <3>2, <4>1, Extremes
      <4> QED
        BY <1>0, <3>2, <4>2
    <3> QED
      BY <3>1, <3>2
  <2>3. Correlated(s.tab, e)
    BY <1>2
  <2> HIDE DEF at, items
  <2>4. l \in Seq(ToolCalls) /\ Sourced(l, t.chat)
    BY <1>0, <2>2, <2>3, EntryIs
  <2> HIDE DEF l
  <2>5. /\ u \in Tabs /\ \E a \in Dialogs : u = WithApproval(t, a)
        /\ e.type # "approval" => u = s.tab
        /\ e.type = "approval" => u = WithApproval(s.tab, [work |-> e.work, dismissed |-> FALSE])
    <3>1. [work |-> e.work, dismissed |-> FALSE] \in Dialogs
      BY DEF Dialogs, Events
    <3>2. \A a, b \in Dialogs : WithApproval(WithApproval(t, a), b) = WithApproval(t, b)
      BY DEF WithApproval, Tabs
    <3>3. WithApproval(s.tab, [work |-> e.work, dismissed |-> FALSE]) \in Tabs
      BY <1>0, <3>1 DEF WithApproval, Tabs
    <3> QED
      BY <1>0, <3>1, <3>2, <3>3 DEF WithApproval
  <2> HIDE DEF u
  <2>6. r \in Shows(t)
    BY <2>1, <2>4, <2>5 DEF Shows
  <2> QED
    BY <1>2, <2>1, <2>5, <2>6
<1> QED
  BY <1>1, <1>2

\* The same of all the events of a channel.
LEMMA Drained ==
  ASSUME NEW t \in Tabs, NEW b \in Shows(t), NEW seq \in Seq(Events)
  PROVE  FoldLeft(ApplyRuntimeEvent, b, seq) \in Shows(t)
<1> DEFINE n == Len(seq)
           F == [p \in (1..n) \X Shows(t) |-> ApplyRuntimeEvent(p[2], seq[p[1]])]
           iter == CHOOSE g : g = [s \in SUBSET (1..n) |->
                     IF s = {} THEN b ELSE ApplyRuntimeEvent(g[s \ {Max(s)}], seq[Max(s)])]
<1>1. n \in Nat /\ \A k \in 1..n : seq[k] \in Events
  OBVIOUS
<1>2. F \in [(1..n) \X Shows(t) -> Shows(t)]
  <2>1. ASSUME NEW p \in (1..n) \X Shows(t) PROVE ApplyRuntimeEvent(p[2], seq[p[1]]) \in Shows(t)
    BY <1>1, Applied
  <2> QED
    BY <2>1
<1>6. \A k \in 1..n : \A s \in Shows(t) : F[<<k, s>>] = ApplyRuntimeEvent(s, seq[k])
  OBVIOUS
<1>0. DOMAIN seq = 1..n
  OBVIOUS
<1>7. FoldLeft(ApplyRuntimeEvent, b, seq) = iter[1..n]
  BY <1>0 DEF FoldLeft, MapThenFoldSet
<1> HIDE DEF F, n
<1>3. PICK g : Folds1(n, b, F, g)
  BY <1>1, FoldExists
<1>8. \A s \in SUBSET (1..n) : s # {} => Max(s) \in 1..n /\ s \ {Max(s)} \in SUBSET (1..n)
  BY <1>1, Extremes
<1>4. g = [s \in SUBSET (1..n) |->
             IF s = {} THEN b ELSE ApplyRuntimeEvent(g[s \ {Max(s)}], seq[Max(s)])]
  <2>1. \A s \in SUBSET (1..n) : g[s] = IF s = {} THEN b ELSE F[<<Max(s), g[s \ {Max(s)}]>>]
    BY <1>3 DEF Folds1
  <2>2. \A s \in SUBSET (1..n) : g[s] \in Shows(t)
    <3>1. \A s \in SUBSET (1..n) : IF s = {} THEN g[s] \in Shows(t)
                                   ELSE g[s \ {Max(s)}] \in Shows(t) => g[s] \in Shows(t)
      BY <1>2, <1>8, <2>1
    <3> QED
      BY <1>1, <3>1, FoldStays
  <2> QED
    BY <1>3, <1>6, <1>8, <2>2 DEF Folds1
<1>5. iter = [s \in SUBSET (1..n) |->
                IF s = {} THEN b ELSE ApplyRuntimeEvent(iter[s \ {Max(s)}], seq[Max(s)])]
  BY <1>4
<1> HIDE DEF iter
<1>9. \A s \in SUBSET (1..n) : IF s = {} THEN iter[s] \in Shows(t)
                               ELSE iter[s \ {Max(s)}] \in Shows(t) => iter[s] \in Shows(t)
  <2>1. \A s \in SUBSET (1..n) :
          iter[s] = IF s = {} THEN b ELSE ApplyRuntimeEvent(iter[s \ {Max(s)}], seq[Max(s)])
    BY <1>5
  <2> QED
    BY <1>1, <1>8, <2>1, Applied
<1> QED
  BY <1>1, <1>7, <1>9, FoldStays

\* The outcomes of a turn name no other source.
Reconciling(turn, c) ==
  {s \in [shown : Seq(ToolCalls), turn : {turn}, claimed : SUBSET Nat] : Sourced(s.shown, c)}

\* An outcome that is reconciled leaves the sources of the listed calls alone
\* (reconcileToolOutcomes).
LEMMA Reconciled ==
  ASSUME NEW turn \in Nat, NEW c, NEW s \in Reconciling(turn, c), NEW o \in Outcomes
  PROVE  ReconcileOutcome(s, o) \in Reconciling(turn, c)
<1> DEFINE mine == {i \in DOMAIN s.shown \ s.claimed : s.shown[i].turn = s.turn}
           same == {i \in mine : s.shown[i].command = o.command}
           open == {i \in mine : s.shown[i].status = "RUNNING" \/ s.shown[i].command = "none"}
           found == IF same # {} THEN same ELSE open
           new == [turn |-> s.turn, call |-> NoCall, command |-> o.command, status |-> "", from |-> {}]
           items == IF found = {} THEN Append(s.shown, new) ELSE s.shown
           at == IF found = {} THEN Len(items) ELSE Max(found)
           l == [items EXCEPT ![at].status = IF o.ok THEN "SUCCEEDED" ELSE "FAILED",
                              ![at].command = IF @ = "none" THEN o.command ELSE @]
           x == items[at]
           y == [x EXCEPT !.status = IF o.ok THEN "SUCCEEDED" ELSE "FAILED",
                          !.command = IF @ = "none" THEN o.command ELSE @]
<1>1. ReconcileOutcome(s, o) = [s EXCEPT !.claimed = @ \cup {at}, !.shown = l]
  BY DEF ReconcileOutcome
<1>2. /\ s.shown \in Seq(ToolCalls) /\ s.turn = turn /\ s.claimed \in SUBSET Nat /\ Sourced(s.shown, c)
      /\ o.command \in Commands
  BY DEF Reconciling, Outcomes
<1>3. items \in Seq(ToolCalls) /\ Sourced(items, c) /\ at \in DOMAIN items
  <2>1. CASE found = {}
    <3>1. new \in ToolCalls /\ new.from = {}
      BY <1>2 DEF ToolCalls, Statuses, NoCall
    <3>2. items = Append(s.shown, new) /\ at = Len(items)
      BY <2>1
    <3> HIDE DEF items, at, new
    <3>3. /\ items \in Seq(ToolCalls) /\ Len(items) = Len(s.shown) + 1
          /\ \A k \in 1..Len(s.shown) : items[k] = s.shown[k]
          /\ items[Len(s.shown) + 1] = new
      BY <1>2, <3>1, <3>2, AppendIs
    <3>4. Len(s.shown) \in Nat /\ DOMAIN s.shown = 1..Len(s.shown) /\ DOMAIN items = 1..(Len(s.shown) + 1)
      BY <1>2, <3>3
    <3>5. ASSUME NEW i \in DOMAIN items PROVE items[i].from \subseteq {<<c, items[i].turn>>}
      <4>1. i \in 1..Len(s.shown) \/ i = Len(s.shown) + 1
        BY <3>4
      <4> QED
        BY <1>2, <3>1, <3>3, <3>4, <4>1 DEF Sourced
    <3> QED
      BY <3>2, <3>3, <3>4, <3>5 DEF Sourced
  <2>2. CASE found # {}
    <3>1. found \in SUBSET (1..Len(s.shown)) /\ Len(s.shown) \in Nat
      BY <1>2
    <3>2. Max(found) \in found
      <4> HIDE DEF found
      <4> QED
        BY <2>2, <3>1, Extremes
    <3>3. items = s.shown /\ at = Max(found)
      BY <2>2
    <3> HIDE DEF items, at, found
    <3>4. DOMAIN s.shown = 1..Len(s.shown)
      BY <1>2
    <3>5. at \in DOMAIN s.shown
      BY <3>1, <3>2, <3>3, <3>4
    <3> QED
      BY <1>2, <3>3, <3>5
  <2> QED
    BY <2>1, <2>2
<1> HIDE DEF items, at
<1>4. l = [items EXCEPT ![at] = y]
  OBVIOUS
<1> HIDE DEF l
<1>5. x \in ToolCalls
  BY <1>3
<1>6. y \in ToolCalls /\ y.turn = x.turn /\ y.from = x.from
  <2> DEFINE a == IF o.ok THEN "SUCCEEDED" ELSE "FAILED"
             b == IF x.command = "none" THEN o.command ELSE x.command
  <2>1. a \in Statuses /\ b \in Commands
    BY <1>2, <1>5 DEF ToolCalls, Statuses
  <2>2. y = [x EXCEPT !.status = a, !.command = b]
    OBVIOUS
  <2> HIDE DEF x, y, a, b
  <2>3. /\ [x EXCEPT !.status = a, !.command = b] \in ToolCalls
        /\ [x EXCEPT !.status = a, !.command = b].turn = x.turn
        /\ [x EXCEPT !.status = a, !.command = b].from = x.from
    BY ONLY <1>5, <2>1 DEF ToolCalls
  <2> QED
    BY ONLY <2>2, <2>3
<1> HIDE DEF y
<1>7. l \in Seq(ToolCalls) /\ Sourced(l, c)
  BY <1>3, <1>4, <1>6 DEF Sourced
<1>8. at \in Nat
  BY <1>3
<1> HIDE DEF x
<1>9. [s EXCEPT !.claimed = @ \cup {at}, !.shown = l] \in Reconciling(turn, c)
  BY <1>7, <1>8 DEF Reconciling
<1> QED
  BY <1>1, <1>9

\* So do all of a turn's outcomes.
LEMMA AllReconciled ==
  ASSUME NEW turn \in Nat, NEW c, NEW items \in Seq(ToolCalls), Sourced(items, c), NEW seq \in Seq(Outcomes)
  PROVE  /\ ReconcileToolOutcomes(items, turn, seq) \in Seq(ToolCalls)
         /\ Sourced(ReconcileToolOutcomes(items, turn, seq), c)
<1> DEFINE n == Len(seq)
           S == Reconciling(turn, c)
           b == [shown |-> items, turn |-> turn, claimed |-> {}]
           F == [p \in (1..n) \X S |-> ReconcileOutcome(p[2], seq[p[1]])]
           iter == CHOOSE g : g = [s \in SUBSET (1..n) |->
                     IF s = {} THEN b ELSE ReconcileOutcome(g[s \ {Max(s)}], seq[Max(s)])]
<1>1. n \in Nat /\ (\A k \in 1..n : seq[k] \in Outcomes) /\ b \in S
  BY DEF Reconciling
<1>2. F \in [(1..n) \X S -> S]
  <2>1. ASSUME NEW p \in (1..n) \X S PROVE ReconcileOutcome(p[2], seq[p[1]]) \in S
    BY <1>1, Reconciled
  <2> HIDE DEF S
  <2> QED
    BY <2>1
<1>6. \A k \in 1..n : \A s \in S : F[<<k, s>>] = ReconcileOutcome(s, seq[k])
  <2> HIDE DEF S
  <2> QED
    OBVIOUS
<1>0. DOMAIN seq = 1..n
  OBVIOUS
<1>7. ReconcileToolOutcomes(items, turn, seq) = iter[1..n].shown
  BY <1>0 DEF ReconcileToolOutcomes, FoldLeft, MapThenFoldSet
<1>10. \A k \in 1..n : \A s \in S : ReconcileOutcome(s, seq[k]) \in S
  BY <1>1, Reconciled
<1> HIDE DEF F, n, S, b
<1>3. PICK g : Folds1(n, b, F, g)
  BY <1>1, FoldExists
<1>8. \A s \in SUBSET (1..n) : s # {} => Max(s) \in 1..n /\ s \ {Max(s)} \in SUBSET (1..n)
  BY <1>1, Extremes
<1>4. g = [s \in SUBSET (1..n) |->
             IF s = {} THEN b ELSE ReconcileOutcome(g[s \ {Max(s)}], seq[Max(s)])]
  <2>1. \A s \in SUBSET (1..n) : g[s] = IF s = {} THEN b ELSE F[<<Max(s), g[s \ {Max(s)}]>>]
    BY <1>3 DEF Folds1
  <2>2. \A s \in SUBSET (1..n) : g[s] \in S
    <3>1. \A s \in SUBSET (1..n) : IF s = {} THEN g[s] \in S
                                   ELSE g[s \ {Max(s)}] \in S => g[s] \in S
      BY <1>1, <1>2, <1>8, <2>1
    <3> QED
      BY <1>1, <3>1, FoldStays
  <2> QED
    BY <1>3, <1>6, <1>8, <2>2 DEF Folds1
<1>5. iter = [s \in SUBSET (1..n) |->
                IF s = {} THEN b ELSE ReconcileOutcome(iter[s \ {Max(s)}], seq[Max(s)])]
  BY <1>4
<1> HIDE DEF iter
<1>9. \A s \in SUBSET (1..n) : IF s = {} THEN iter[s] \in S
                               ELSE iter[s \ {Max(s)}] \in S => iter[s] \in S
  <2>1. \A s \in SUBSET (1..n) :
          iter[s] = IF s = {} THEN b ELSE ReconcileOutcome(iter[s \ {Max(s)}], seq[Max(s)])
    BY <1>5
  <2> QED
    BY <1>1, <1>8, <1>10, <2>1
<1>11. iter[1..n] \in S
  BY <1>1, <1>9, FoldStays
<1> QED
  BY <1>7, <1>11 DEF S, Reconciling

-----------------------------------------------------------------------------
(* Chat: types. *)

\* Observe drops an event that is not lasting, or appends it, to all or all but the
\* oldest.
LEMMA Observed ==
  ASSUME NEW ch \in Seq(Events), NEW e \in Events
  PROVE  /\ Observe(ch, e) \in Seq(Events)
         /\ \/ Observe(ch, e) = ch /\ e.type \notin Lasting
            \/ \E d \in {0, 1} :
                 /\ Len(Observe(ch, e)) = Len(ch) - d + 1 /\ Len(ch) >= d
                 /\ \A k \in 1..(Len(ch) - d) : Observe(ch, e)[k] = ch[k + d]
                 /\ Observe(ch, e)[Len(ch) - d + 1] = e
<1>1. CASE Len(ch) < Capacity
  <2>1. Observe(ch, e) = Append(ch, e)
    BY <1>1 DEF Observe
  <2>2. /\ Append(ch, e) \in Seq(Events) /\ Len(Append(ch, e)) = Len(ch) - 0 + 1 /\ Len(ch) >= 0
        /\ \A k \in 1..(Len(ch) - 0) : Append(ch, e)[k] = ch[k + 0]
        /\ Append(ch, e)[Len(ch) - 0 + 1] = e
    BY AppendIs
  <2> QED
    BY <2>1, <2>2
<1>2. CASE ~(Len(ch) < Capacity) /\ e.type \in Lasting
  <2>1. Observe(ch, e) = Append(Tail(ch), e)
    BY <1>2 DEF Observe
  <2>2. ch # <<>>
    BY <1>2, ChatAssumption
  <2>3. /\ Tail(ch) \in Seq(Events) /\ Len(Tail(ch)) = Len(ch) - 1 /\ Len(ch) > 0
        /\ \A k \in 1..(Len(ch) - 1) : Tail(ch)[k] = ch[k + 1]
    BY <2>2, TailIs
  <2> DEFINE t == Tail(ch)
  <2> HIDE DEF t
  <2>4. /\ Append(t, e) \in Seq(Events) /\ Len(Append(t, e)) = Len(t) + 1
        /\ \A k \in 1..Len(t) : Append(t, e)[k] = t[k]
        /\ Append(t, e)[Len(t) + 1] = e
    BY <2>3, AppendIs DEF t
  <2>5. /\ Append(t, e) \in Seq(Events) /\ Len(Append(t, e)) = Len(ch) - 1 + 1 /\ Len(ch) >= 1
        /\ \A k \in 1..(Len(ch) - 1) : Append(t, e)[k] = ch[k + 1]
        /\ Append(t, e)[Len(ch) - 1 + 1] = e
    BY <2>3, <2>4 DEF t
  <2> QED
    BY <2>1, <2>5 DEF t
<1>3. CASE ~(Len(ch) < Capacity) /\ e.type \notin Lasting
  BY <1>3 DEF Observe
<1> QED
  BY <1>1, <1>2, <1>3

\* The events a turn sends are events.
LEMMA EventIs ==
  ASSUME ChatTypeOK, NEW c \in Chats, NEW type \in {"approval", "started", "command", "finished", "verify"},
         NEW call \in Nat, NEW command \in Commands, NEW w \in Nat, NEW ok \in BOOLEAN
  PROVE  Event(type, c, call, command, w, ok) \in Events
<1>1. talk[c].turn \in Nat
  BY DEF ChatTypeOK, Turns
<1> QED
  BY <1>1 DEF Event, Events

\* The types of what a turn keeps.
LEMMA TalkIs ==
  ASSUME ChatTypeOK, NEW c \in Chats
  PROVE  /\ talk[c] \in Turns /\ talk[c].turn \in Nat /\ talk[c].call \in Nat /\ talk[c].work \in Nat
         /\ talk[c].command \in Commands /\ talk[c].outcomes \in Seq(Outcomes)
         /\ Len(talk[c].outcomes) \in Nat /\ Len(work) \in Nat
  BY DEF ChatTypeOK, Turns

\* A runtime between two turns, but for its turn and whether it is closed.
LEMMA QuiescentIs ==
  ASSUME NEW n \in Nat, NEW at \in {"idle", "begin"}, NEW closed \in BOOLEAN
  PROVE  /\ [Quiescent EXCEPT !.turn = n, !.closed = closed] \in Turns
         /\ [Quiescent EXCEPT !.at = at, !.turn = n] \in Turns
<1>1. <<>> \in Seq(Outcomes) /\ "none" \in Commands
  BY DEF Commands
<1>2. Quiescent \in Turns
  BY <1>1 DEF Quiescent, Turns, NoWork, NoCall
<1> QED
  BY <1>2 DEF Turns

\* One turn steps: what is emitted is an event, and the runtime stays one.
LEMMA TalkTypes ==
  ASSUME ChatInv, NEW c \in Chats, TurnStep(c), UNCHANGED plan
  PROVE  ChatTypeOK'
<1> USE DEF ChatTypeOK, Goroutine
<1> DEFINE C == channel \in [Chats -> Seq(Events)]
           T == talk \in [Chats -> Turns]
<1>0. ChatTypeOK
  BY DEF ChatInv
<1>1. C /\ T /\ talk[c] \in Turns /\ channel[c] \in Seq(Events)
  BY <1>0
<1>e. ASSUME NEW e \in Events, Emit(c, e) PROVE C'
  BY <1>1, <1>e, Observed DEF Emit
<1>a. ASSUME NEW call \in Nat, NEW command \in Commands, Asks(c, call, command), Goroutine(c), UNCHANGED mail
      PROVE  ChatTypeOK'
  <2>1. Len(work) \in Nat /\ Len(work) + 1 \in Nat /\ talk[c].turn \in Nat
    BY <1>0 DEF Turns
  <2>2. C'
    <3>1. Event("approval", c, call, command, Len(work) + 1, FALSE) \in Events
      <4> DEFINE w == Len(work) + 1
      <4>1. w \in Nat /\ "approval" \in {"approval", "started", "command", "finished", "verify"}
        BY <2>1
      <4> HIDE DEF w
      <4>2. Event("approval", c, call, command, w, FALSE) \in Events
        BY <1>0, <4>1, EventIs
      <4> QED
        BY <4>2 DEF w
    <3> QED
      BY <1>a, <1>e, <3>1 DEF Asks
  <2>3. T'
    <3> DEFINE w == Len(work) + 1
    <3>1. w \in Nat /\ talk' = [talk EXCEPT ![c].at = "waiting", ![c].work = w, ![c].signal = FALSE]
      BY <1>a, <2>1 DEF Asks
    <3> HIDE DEF w
    <3> QED
      BY <1>1, <3>1 DEF Turns
  <2>4. work' \in Seq(AskedWorks)
    <3>1. [chat |-> c, turn |-> talk[c].turn, call |-> call] \in AskedWorks
      BY <1>a, <2>1 DEF AskedWorks
    <3> QED
      BY <1>0, <1>a, <3>1, AppendIs DEF Asks
  <2> QED
    BY <1>0, <1>a, <2>2, <2>3, <2>4
<1>2. CASE CaptureAsks(c)
  BY <1>2, <1>a DEF CaptureAsks, NoCall, Commands
<1>3. CASE StartCall(c)
  <2>1. talk[c].at # "idle" /\ plan \in Plans
    BY <1>0, <1>3 DEF StartCall
  <2> DEFINE call == Len(talk[c].outcomes) + 1
             script == plan.calls[c + talk[c].turn - 1]
  <2>2. script \in Seq(STRING) /\ call \in DOMAIN script /\ call \in Nat
    <3>1. c + talk[c].turn - 1 \in 1..Len(plan.calls)
      BY <2>1 DEF ChatInv, Turning
    <3>2. plan.calls \in Seq(Seq(STRING))
      BY <2>1, ChatAssumption
    <3>3. Len(talk[c].outcomes) \in Nat
      BY <1>1 DEF Turns
    <3> QED
      BY <1>3, <3>1, <3>2, <3>3 DEF StartCall
  <2>3. script[call] \in Commands
    BY <2>2 DEF Commands
  <2>4. Event("started", c, call, "none", NoWork, TRUE) \in Events
    BY <1>0, <2>2, EventIs DEF Commands, NoWork
  <2>5. C'
    BY <1>3, <1>e, <2>4 DEF StartCall
  <2>6. T'
    <3> HIDE DEF script, call
    <3>1. talk' = [talk EXCEPT ![c].at = "call", ![c].call = call, ![c].command = script[call]]
      BY <1>3 DEF StartCall, call, script
    <3> QED
      BY <1>1, <2>2, <2>3, <3>1 DEF Turns
  <2> QED
    BY <1>0, <1>3, <2>5, <2>6 DEF StartCall
<1>4. CASE CallAsks(c)
  <2>1. talk[c].call \in Nat /\ talk[c].command \in Commands
    BY <1>1 DEF Turns
  <2> QED
    BY <1>4, <1>a, <2>1 DEF CallAsks
<1>5. CASE ApprovalResumes(c)
  <2>1. T'
    BY <1>1, <1>5 DEF ApprovalResumes, Turns, NoWork
  <2> QED
    BY <1>0, <1>5, <2>1 DEF ApprovalResumes
<1>6. CASE RunCommand(c)
  <2>1. talk[c].call \in Nat /\ talk[c].command \in Commands
    BY <1>1 DEF Turns
  <2>2. Event("command", c, talk[c].call, talk[c].command, NoWork, TRUE) \in Events
    BY <1>0, <2>1, EventIs DEF NoWork
  <2>3. C'
    BY <1>6, <1>e, <2>2 DEF RunCommand
  <2>4. T'
    BY <1>1, <1>6 DEF RunCommand, Turns
  <2> QED
    BY <1>0, <1>6, <2>3, <2>4 DEF RunCommand
<1>7. ASSUME NEW ok \in BOOLEAN, FinishCall(c, ok) PROVE ChatTypeOK'
  <2>1. talk[c].call \in Nat /\ talk[c].command \in Commands /\ talk[c].outcomes \in Seq(Outcomes)
    BY <1>1 DEF Turns
  <2>2. Event("finished", c, talk[c].call, "none", NoWork, ok) \in Events
    BY <1>0, <2>1, EventIs DEF Commands, NoWork
  <2>3. C'
    BY <1>7, <1>e, <2>2 DEF FinishCall
  <2>4. Append(talk[c].outcomes, [command |-> talk[c].command, ok |-> ok]) \in Seq(Outcomes)
    <3>1. [command |-> talk[c].command, ok |-> ok] \in Outcomes
      BY <2>1 DEF Outcomes
    <3> QED
      BY <2>1, <3>1
  <2>5. T'
    BY <1>1, <1>7, <2>4 DEF FinishCall, Turns, NoWork, NoCall
  <2> QED
    BY <1>0, <1>7, <2>3, <2>5 DEF FinishCall
<1>8. ASSUME NEW verified \in BOOLEAN, TurnEnds(c, verified) PROVE ChatTypeOK'
  <2>1. talk[c].turn \in Nat /\ talk[c].outcomes \in Seq(Outcomes) /\ talk[c].closed \in BOOLEAN
    BY <1>1 DEF Turns
  <2>2. C'
    <3>1. Event("verify", c, NoCall, "none", NoWork, TRUE) \in Events
      BY <1>0, EventIs DEF Commands, NoWork, NoCall
    <3> QED
      BY <1>1, <1>8, <1>e, <3>1 DEF TurnEnds
  <2>3. T'
    <3>1. [Quiescent EXCEPT !.turn = talk[c].turn, !.closed = talk[c].closed] \in Turns
      BY <2>1, QuiescentIs
    <3> QED
      BY <1>1, <1>8, <3>1 DEF TurnEnds
  <2>4. mail' \in SUBSET Arrivals
    BY <1>0, <1>8, <2>1 DEF TurnEnds, Arrivals
  <2> QED
    BY <1>0, <1>8, <2>2, <2>3, <2>4 DEF TurnEnds
<1> QED
  BY <1>2, <1>3, <1>4, <1>5, <1>6, <1>7, <1>8 DEF TurnStep

\* Types after a turn began (beginTurn).
LEMMA BeginTypes ==
  ASSUME ChatInv, NEW t \in Tabs, BeginTurn(t), UNCHANGED plan
  PROVE  ChatTypeOK'
<1>1. ChatTypeOK
  BY DEF ChatInv
<1>2. t.turn \in Nat /\ t.turn + 1 \in Nat /\ t.chat \in Chats
  BY DEF Tabs
<1>3. tab' \in Tabs
  <2> DEFINE n == t.turn + 1
  <2>1. tab' = [t EXCEPT !.turn = n, !.answer = NoWork, !.wait = TRUE, !.running = TRUE,
                         !.stopping = FALSE]
    BY DEF BeginTurn
  <2> HIDE DEF n
  <2>2. n \in Nat
    BY <1>2 DEF n
  <2> QED
    BY <2>1, <2>2 DEF Tabs, NoWork
<1>4. channel' \in [Chats -> Seq(Events)]
  <2>1. <<>> \in Seq(Events)
    OBVIOUS
  <2> QED
    BY <1>1, <2>1 DEF ChatTypeOK, BeginTurn
<1>5. talk' \in [Chats -> Turns]
  <2> DEFINE n == t.turn + 1
  <2>2. n \in Nat /\ talk' = [talk EXCEPT ![t.session] = [Quiescent EXCEPT !.at = "begin", !.turn = n]]
    BY <1>2 DEF BeginTurn
  <2> HIDE DEF n
  <2>3. [Quiescent EXCEPT !.at = "begin", !.turn = n] \in Turns
    BY <2>2, QuiescentIs
  <2> QED
    BY <1>1, <2>2, <2>3 DEF ChatTypeOK
<1>6. readers' \in Seq(Readers)
  <2> DEFINE n == t.turn + 1
  <2>1. n \in Nat /\ readers' = Append(readers, [chat |-> t.chat, turn |-> n, held |-> Unheld])
    BY <1>2 DEF BeginTurn
  <2> HIDE DEF n
  <2>2. [chat |-> t.chat, turn |-> n, held |-> Unheld] \in Readers
    BY <1>2, <2>1 DEF Readers
  <2> QED
    BY <1>1, <2>1, <2>2, AppendIs DEF ChatTypeOK
<1> QED
  BY <1>1, <1>3, <1>4, <1>5, <1>6 DEF ChatTypeOK, BeginTurn

\* A delivered event, and all those of the channel.
LEMMA DeliveredIs ==
  ASSUME ChatInv
  PROVE  /\ [tab |-> tab, shown |-> shown] \in Shows(tab)
         /\ \A s \in Shows(tab) : s.tab \in Tabs /\ s.shown \in Seq(ToolCalls) /\ Sourced(s.shown, tab.chat)
         /\ \A s \in Shows(tab) : \E a \in Dialogs : s.tab = WithApproval(tab, a)
<1>1. tab \in Tabs /\ shown \in Seq(ToolCalls) /\ Sourced(shown, tab.chat)
  BY DEF ChatInv, ChatTypeOK
<1>2. tab.approval \in Dialogs /\ tab = WithApproval(tab, tab.approval)
  BY <1>1 DEF WithApproval, Tabs
<1> QED
  BY <1>1, <1>2 DEF Shows

\* Types after a reader took an event, stopped, or delivered its event.
LEMMA ReaderTypes ==
  ASSUME ChatInv, NEW i \in DOMAIN readers, ReaderTakes(i) \/ ReaderStops(i) \/ DeliverEvent(i), UNCHANGED plan
  PROVE  ChatTypeOK'
<1>1. ChatTypeOK /\ readers[i] \in Readers /\ readers \in Seq(Readers)
  BY DEF ChatInv, ChatTypeOK
<1>2. readers[i].chat \in Chats /\ readers[i].turn \in Nat /\ readers[i].held \in Events \cup {Unheld}
  BY <1>1 DEF Readers
<1>r. RemoveAt(readers, i) \in Seq(Readers)
  BY <1>1, RemoveAtIs
<1>3. CASE ReaderTakes(i)
  <2> DEFINE ch == channel[readers[i].chat]
  <2>1. ch \in Seq(Events) /\ ch # <<>>
    BY <1>1, <1>2, <1>3 DEF ChatTypeOK, ReaderTakes
  <2>2. Tail(ch) \in Seq(Events) /\ Head(ch) \in Events
    BY <2>1, TailIs
  <2>3. readers' = [readers EXCEPT ![i].held = Head(ch)] /\ channel' = [channel EXCEPT ![readers[i].chat] = Tail(ch)]
    BY <1>3 DEF ReaderTakes
  <2> HIDE DEF ch
  <2>4. readers' \in Seq(Readers)
    <3>1. [readers[i] EXCEPT !.held = Head(ch)] \in Readers
      BY <1>1, <2>2 DEF Readers
    <3> QED
      BY <1>1, <2>3, <3>1
  <2>5. channel' \in [Chats -> Seq(Events)]
    BY <1>1, <2>2, <2>3 DEF ChatTypeOK
  <2> QED
    BY <1>1, <1>3, <2>4, <2>5 DEF ChatTypeOK, ReaderTakes
<1>4. CASE ReaderStops(i)
  BY <1>1, <1>4, <1>r DEF ChatTypeOK, ReaderStops
<1>5. CASE DeliverEvent(i)
  <2> DEFINE s == ApplyRuntimeEvent([tab |-> tab, shown |-> shown], readers[i].held)
  <2>1. readers[i].held \in Events /\ tab \in Tabs
    BY <1>1, <1>2, <1>5 DEF DeliverEvent, ChatTypeOK
  <2>2. s \in Shows(tab)
    BY <2>1, DeliveredIs, Applied
  <2>3. tab' = s.tab /\ shown' = s.shown
    BY <1>5 DEF DeliverEvent
  <2> HIDE DEF s
  <2>4. tab' \in Tabs /\ shown' \in Seq(ToolCalls)
    BY <2>2, <2>3, DeliveredIs
  <2>5. readers' \in Seq(Readers)
    <3>1. [chat |-> tab.chat, turn |-> tab.turn, held |-> Unheld] \in Readers
      BY <2>1 DEF Tabs, Readers
    <3> QED
      BY <1>1, <1>5, <1>r, <3>1 DEF DeliverEvent
  <2> QED
    BY <1>1, <1>5, <2>4, <2>5 DEF ChatTypeOK, DeliverEvent
<1> QED
  BY <1>3, <1>4, <1>5

\* Types after a result or an answer was delivered.
LEMMA MessageTypes ==
  ASSUME ChatInv, NEW m \in mail, DeliverDone(m) \/ DeliverAnswer(m), UNCHANGED plan
  PROVE  ChatTypeOK'
<1>1. ChatTypeOK /\ tab \in Tabs /\ m \in Arrivals /\ mail' = mail \ {m}
  BY DEF ChatInv, ChatTypeOK, DeliverDone, DeliverAnswer
<1>2. CASE DeliverDone(m)
  <2> DEFINE b == [tab |-> tab, shown |-> shown]
             s == FoldLeft(ApplyRuntimeEvent, b, channel[tab.chat])
  <2>1. tab.chat \in Chats /\ tab.turn \in Nat /\ channel[tab.chat] \in Seq(Events)
    BY <1>1 DEF Tabs, ChatTypeOK
  <2>2. s \in Shows(tab)
    BY <1>1, <2>1, DeliveredIs, Drained
  <2>3. /\ tab' = [s.tab EXCEPT !.wait = FALSE, !.running = FALSE, !.stopping = FALSE,
                                !.approval = NoDialog, !.inFlight = FALSE]
        /\ shown' = ReconcileToolOutcomes(s.shown, tab.turn, m.outcomes)
        /\ channel' = [channel EXCEPT ![tab.chat] = <<>>]
    BY <1>2 DEF DeliverDone
  <2> HIDE DEF s
  <2>4. m.outcomes \in Seq(Outcomes)
    BY <1>1, <1>2 DEF Arrivals, DeliverDone
  <2>5. shown' \in Seq(ToolCalls)
    BY <2>1, <2>2, <2>3, <2>4, DeliveredIs, AllReconciled
  <2>6. tab' \in Tabs
    <3>1. s.tab \in Tabs /\ NoDialog \in Dialogs
      BY <2>2, DeliveredIs DEF NoDialog, NoWork, Dialogs
    <3> QED
      BY <2>3, <3>1 DEF Tabs
  <2>7. channel' \in [Chats -> Seq(Events)]
    <3>1. <<>> \in Seq(Events)
      OBVIOUS
    <3> QED
      BY <1>1, <2>3, <3>1 DEF ChatTypeOK
  <2> QED
    BY <1>1, <1>2, <2>5, <2>6, <2>7 DEF ChatTypeOK, DeliverDone
<1>3. CASE DeliverAnswer(m)
  <2>1. tab' \in Tabs
    <3>1. NoDialog \in Dialogs
      BY DEF NoDialog, NoWork, Dialogs
    <3> QED
      BY <1>1, <1>3, <3>1 DEF DeliverAnswer, Tabs, NoWork
  <2> QED
    BY <1>1, <1>3, <2>1 DEF ChatTypeOK, DeliverAnswer
<1> QED
  BY <1>2, <1>3

\* Types after a step of an approval's goroutine.
LEMMA AnswerTypes ==
  ASSUME ChatInv, NEW a \in approving, ApprovalStep(a), UNCHANGED plan
  PROVE  ChatTypeOK'
<1>1. ChatTypeOK /\ a \in Approvings
  BY DEF ChatInv, ChatTypeOK
<1>2. a.chat \in Chats /\ a.work \in Nat
  BY <1>1 DEF Approvings
<1>3. ASSUME NEW ok \in BOOLEAN, Answers(a, ok) PROVE approving' \in SUBSET Approvings /\ mail' \in SUBSET Arrivals
  BY <1>1, <1>2, <1>3 DEF Answers, ChatTypeOK, Arrivals
<1>4. CASE ApprovalFails(a)
  BY <1>1, <1>3, <1>4 DEF ApprovalFails, ChatTypeOK
<1>5. CASE GrantSaved(a)
  <2>1. [a EXCEPT !.step = "resume"] \in Approvings
    BY <1>1 DEF Approvings
  <2> QED
    BY <1>1, <1>5, <2>1 DEF GrantSaved, ChatTypeOK
<1>6. CASE ResumesTurn(a)
  <2> DEFINE waits == talk[a.chat].at = "waiting" /\ talk[a.chat].work = a.work /\ ~talk[a.chat].signal
  <2>1. waits \in BOOLEAN /\ Answers(a, waits) /\ talk' = [talk EXCEPT ![a.chat].signal = @ \/ waits]
    BY <1>6 DEF ResumesTurn
  <2> HIDE DEF waits
  <2>2. talk[a.chat] \in Turns /\ talk[a.chat].signal \in BOOLEAN
    BY <1>1, <1>2 DEF ChatTypeOK, Turns
  <2>3. (talk[a.chat].signal \/ waits) \in BOOLEAN
    BY <2>1, <2>2
  <2>4. [talk[a.chat] EXCEPT !.signal = talk[a.chat].signal \/ waits] \in Turns
    <3> DEFINE v == talk[a.chat].signal \/ waits
    <3> HIDE DEF v
    <3>1. v \in BOOLEAN
      BY <2>3 DEF v
    <3>2. [talk[a.chat] EXCEPT !.signal = v] \in Turns
      BY <2>2, <3>1 DEF Turns
    <3> QED
      BY <3>2 DEF v
  <2>5. talk' \in [Chats -> Turns]
    BY <1>1, <2>1, <2>4 DEF ChatTypeOK
  <2> QED
    BY <1>1, <1>3, <1>6, <2>1, <2>5 DEF ResumesTurn, ChatTypeOK
<1> QED
  BY <1>4, <1>5, <1>6 DEF ApprovalStep

\* The tab that takes the next turn when the session is ready.
Ready == [tab EXCEPT !.starting = FALSE, !.session = tab.chat, !.prompt = FALSE]

\* The tab once its session is there.
LEMMA ReadyIs ==
  ASSUME ChatTypeOK
  PROVE  /\ Ready \in Tabs /\ tab \in Tabs /\ tab.chat \in Chats /\ tab.chat \in Nat
         /\ Ready.session = tab.chat /\ Ready.chat = tab.chat /\ Ready.turn = tab.turn
         /\ Ready.approval = tab.approval /\ Ready.answer = tab.answer /\ ~Ready.starting
         /\ Ready.running = tab.running
<1>1. tab \in Tabs /\ tab.chat \in Chats
  BY DEF ChatTypeOK, Tabs
<1>2. tab.chat \in Nat
  BY <1>1, ChatAssumption DEF Chats
<1> QED
  BY <1>1, <1>2 DEF Ready, Tabs

\* Types after a key, and after the start of a session.
LEMMA UserTypes ==
  ASSUME ChatInv, UserStep \/ SessionFails \/ SessionReady, UNCHANGED plan
  PROVE  ChatTypeOK'
<1>1. ChatTypeOK /\ tab \in Tabs
  BY DEF ChatInv, ChatTypeOK
<1> DEFINE Rest == ChatTypeOK /\ tab \in Tabs
<1>2. ASSUME NEW t \in Tabs, Becomes(t) PROVE ChatTypeOK'
  BY <1>1, <1>2 DEF ChatTypeOK, Becomes, world
<1>3. CASE Interrupt
  <2>1. tab' \in Tabs
    BY <1>1, <1>3 DEF Interrupt, Tabs
  <2>2. talk' \in [Chats -> Turns]
    BY <1>1, <1>3 DEF Interrupt, ChatTypeOK, Turns
  <2> QED
    BY <1>1, <1>3, <2>1, <2>2 DEF Interrupt, ChatTypeOK
<1>4. CASE OpenActivity
  <2>1. [tab EXCEPT !.focus = "activity"] \in Tabs
    BY <1>1 DEF Tabs
  <2> QED
    BY <1>2, <1>4, <2>1 DEF OpenActivity
<1>5. CASE BackToLive
  <2>1. [tab EXCEPT !.focus = "live"] \in Tabs
    BY <1>1 DEF Tabs
  <2> QED
    BY <1>2, <1>5, <2>1 DEF BackToLive
<1>6. ASSUME NEW v \in BOOLEAN, Becomes([tab EXCEPT !.approval.dismissed = v]) PROVE ChatTypeOK'
  <2>1. [tab EXCEPT !.approval.dismissed = v] \in Tabs
    BY <1>1 DEF Tabs, Dialogs
  <2> QED
    BY <1>2, <1>6, <2>1
<1>7. CASE DismissDialog \/ ReopenDialog
  BY <1>6, <1>7 DEF DismissDialog, ReopenDialog
<1>8. CASE ApproveDialog
  <2>1. tab.approval.work \in Nat /\ tab.session \in Nat
    BY <1>1 DEF Tabs, Dialogs
  <2>2. tab' \in Tabs
    BY <1>1, <1>8, <2>1 DEF ApproveDialog, Tabs
  <2>3. tab.session \in Chats
    <3>1. tab.turn > 0 /\ tab.session = tab.chat
      BY <1>8 DEF ApproveDialog, DialogOpen, ChatInv, Answered, Turning
    <3> QED
      BY <1>1, <3>1 DEF Tabs
  <2>4. approving' \in SUBSET Approvings
    BY <1>1, <1>8, <2>1, <2>3 DEF ApproveDialog, ChatTypeOK, Approvings
  <2> QED
    BY <1>1, <1>8, <2>2, <2>4 DEF ApproveDialog, ChatTypeOK
<1>9. CASE SendPrompt
  <2>1. [tab EXCEPT !.starting = TRUE, !.prompt = TRUE] \in Tabs
    BY <1>1 DEF Tabs
  <2> QED
    BY <1>1, <1>2, <1>9, <2>1, BeginTypes DEF SendPrompt
<1>10. CASE SendTools
  <2>1. [tab EXCEPT !.starting = TRUE] \in Tabs
    BY <1>1 DEF Tabs
  <2> QED
    BY <1>2, <1>10, <2>1 DEF SendTools
<1>11. CASE StartFreshSession
  <2>1. tab.chat + 1 \in Chats
    BY <1>1, <1>11, ChatAssumption DEF StartFreshSession, Tabs, Chats
  <2>2. tab' \in Tabs
    <3> DEFINE n == tab.chat + 1
    <3>1. tab' = [NewChatTab EXCEPT !.chat = n, !.starting = TRUE]
      BY <1>11 DEF StartFreshSession, FreshTab
    <3> HIDE DEF n
    <3>2. NewChatTab \in Tabs
      BY ChatAssumption DEF NewChatTab, Tabs, Dialogs, NoDialog, NoWork, Chats
    <3>3. n \in Chats
      BY <2>1 DEF n
    <3> QED
      BY <3>1, <3>2, <3>3 DEF Tabs
  <2>3. channel' \in [Chats -> Seq(Events)]
    <3>1. <<>> \in Seq(Events)
      OBVIOUS
    <3> QED
      BY <1>1, <1>11, <3>1 DEF ChatTypeOK, StartFreshSession
  <2>4. talk' \in [Chats -> Turns]
    <3> DEFINE v == tab.session # 0
    <3>1. v \in BOOLEAN /\ talk' = [talk EXCEPT ![tab.chat].closed = v]
      BY <1>11 DEF StartFreshSession
    <3> HIDE DEF v
    <3> QED
      BY <1>1, <3>1 DEF ChatTypeOK, Turns
  <2>5. shown' \in Seq(ToolCalls)
    BY <1>11 DEF StartFreshSession
  <2> QED
    BY <1>1, <1>11, <2>2, <2>3, <2>4, <2>5 DEF ChatTypeOK, StartFreshSession
<1>12. CASE SessionFails
  <2>1. [tab EXCEPT !.starting = FALSE, !.prompt = FALSE] \in Tabs
    BY <1>1 DEF Tabs
  <2> QED
    BY <1>2, <1>12, <2>1 DEF SessionFails, Becomes
<1>13. CASE SessionReady
  <2>1. Ready \in Tabs
    BY <1>1, ReadyIs
  <2>2. CASE tab.prompt
    <3>1. BeginTurn(Ready)
      BY <1>13, <2>2 DEF SessionReady, Ready
    <3> QED
      BY <2>1, <3>1, BeginTypes
  <2>3. CASE ~tab.prompt
    <3>1. Becomes(Ready)
      BY <1>13, <2>3 DEF SessionReady, Ready, Becomes
    <3> QED
      BY <1>2, <2>1, <3>1
  <2> QED
    BY <2>2, <2>3
<1> QED
  BY <1>3, <1>4, <1>5, <1>7, <1>8, <1>9, <1>10, <1>11, <1>12, <1>13 DEF UserStep

-----------------------------------------------------------------------------
(* Chat: the shapes of the steps. *)

\* A step of a turn that asks, and one that does not.
Asking(c) ==
  /\ UNCHANGED mail
  /\ talk'[c].at = "waiting" /\ talk'[c].work = Len(work) + 1
  /\ \E e \in Events :
       /\ e.type = "approval" /\ e.chat = c /\ e.turn = talk[c].turn /\ e.work = Len(work) + 1
       /\ work' = Append(work, [chat |-> c, turn |-> talk[c].turn, call |-> e.call])
       /\ Emit(c, e)

Working(c) ==
  /\ talk'[c].at # "waiting" /\ UNCHANGED work
  /\ UNCHANGED channel \/ \E e \in Events : e.type # "approval" /\ Emit(c, e)
  /\ \/ UNCHANGED mail
     \/ talk'[c].at = "idle" /\ \E os \in Seq(Outcomes) : mail' = mail \cup {[type |-> "done", outcomes |-> os]}

TurnFrame(c) ==
  /\ talk[c].at # "idle" /\ talk'[c].turn = talk[c].turn
  /\ \A d \in Chats : d # c => talk'[d] = talk[d]
  /\ UNCHANGED <<tab, shown, readers, approving>>

\* A step of a turn asks for an approval, or does not wait.
LEMMA TurnShapes ==
  ASSUME ChatInv, NEW c \in Chats, TurnStep(c)
  PROVE  TurnFrame(c) /\ (Asking(c) \/ Working(c))
<1>1. ChatTypeOK
  BY DEF ChatInv
<1>2. /\ talk \in [Chats -> Turns] /\ talk[c] \in Turns /\ talk[c].turn \in Nat /\ talk[c].call \in Nat
      /\ talk[c].command \in Commands /\ talk[c].outcomes \in Seq(Outcomes) /\ Len(work) \in Nat
  BY <1>1, TalkIs DEF ChatTypeOK
<1>a. ASSUME NEW call \in Nat, NEW command \in Commands, Asks(c, call, command), Goroutine(c), UNCHANGED mail,
             talk[c].at # "idle"
      PROVE  TurnFrame(c) /\ Asking(c)
  <2> DEFINE w == Len(work) + 1
             e == Event("approval", c, call, command, w, FALSE)
  <2>1. w \in Nat
    BY <1>2
  <2>2. talk' = [talk EXCEPT ![c].at = "waiting", ![c].work = w, ![c].signal = FALSE]
    BY <1>a DEF Asks
  <2>3. Emit(c, e) /\ work' = Append(work, [chat |-> c, turn |-> talk[c].turn, call |-> call])
    BY <1>a DEF Asks
  <2>4. /\ e.type = "approval" /\ e.chat = c /\ e.turn = talk[c].turn /\ e.work = w /\ e.call = call
    BY DEF Event
  <2> HIDE DEF w
  <2>5. e \in Events
    BY <1>1, <1>a, <2>1, EventIs
  <2> HIDE DEF e
  <2>6. /\ talk'[c].at = "waiting" /\ talk'[c].work = w /\ talk'[c].turn = talk[c].turn
        /\ \A d \in Chats : d # c => talk'[d] = talk[d]
    BY <1>2, <2>1, <2>2 DEF Turns
  <2> QED
    BY <1>a, <2>3, <2>4, <2>5, <2>6 DEF TurnFrame, Asking, Goroutine, w
<1>e. ASSUME NEW type \in {"started", "command", "finished", "verify"}, NEW call \in Nat, NEW command \in Commands,
             NEW ok \in BOOLEAN, Emit(c, Event(type, c, call, command, NoWork, ok))
      PROVE  \E e \in Events : e.type # "approval" /\ Emit(c, e)
  <2> DEFINE e == Event(type, c, call, command, NoWork, ok)
  <2>1. e.type # "approval"
    BY DEF Event
  <2>2. e \in Events
    BY <1>1, EventIs DEF NoWork
  <2> HIDE DEF e
  <2> QED
    BY <1>e, <2>1, <2>2 DEF e
<1>c. "none" \in Commands /\ NoCall \in Nat
  BY DEF Commands, NoCall
<1>3. CASE CaptureAsks(c)
  BY <1>3, <1>a, <1>c DEF CaptureAsks
<1>4. CASE CallAsks(c)
  BY <1>4, <1>a, <1>2 DEF CallAsks
<1>5. CASE StartCall(c)
  <2> DEFINE call == Len(talk[c].outcomes) + 1
             script == plan.calls[c + talk[c].turn - 1]
  <2>1. call \in Nat
    BY <1>2
  <2>2. /\ talk[c].at \in {"begin", "thinking"}
        /\ talk' = [talk EXCEPT ![c].at = "call", ![c].call = call, ![c].command = script[call]]
        /\ Emit(c, Event("started", c, call, "none", NoWork, TRUE))
    BY <1>5 DEF StartCall
  <2> HIDE DEF call, script
  <2>3. \E e \in Events : e.type # "approval" /\ Emit(c, e)
    BY <1>c, <1>e, <2>1, <2>2
  <2>4. /\ talk'[c].at = "call" /\ talk'[c].turn = talk[c].turn
        /\ \A d \in Chats : d # c => talk'[d] = talk[d]
    BY <1>2, <2>2 DEF Turns
  <2> QED
    BY <1>5, <2>2, <2>3, <2>4 DEF StartCall, TurnFrame, Working, Goroutine
<1>6. CASE ApprovalResumes(c)
  <2>1. /\ talk'[c].at \in {"thinking", "call"} /\ talk'[c].turn = talk[c].turn
        /\ \A d \in Chats : d # c => talk'[d] = talk[d]
    BY <1>2, <1>6 DEF ApprovalResumes, Turns
  <2> QED
    BY <1>6, <2>1 DEF ApprovalResumes, TurnFrame, Working, Goroutine
<1>7. CASE RunCommand(c)
  <2>1. /\ talk'[c].at = "running" /\ talk'[c].turn = talk[c].turn
        /\ \A d \in Chats : d # c => talk'[d] = talk[d]
    BY <1>2, <1>7 DEF RunCommand, Turns
  <2>2. \E e \in Events : e.type # "approval" /\ Emit(c, e)
    BY <1>2, <1>7, <1>e DEF RunCommand
  <2> QED
    BY <1>7, <2>1, <2>2 DEF RunCommand, TurnFrame, Working, Goroutine
<1>8. ASSUME NEW ok \in BOOLEAN, FinishCall(c, ok) PROVE TurnFrame(c) /\ Working(c)
  <2> DEFINE os == Append(talk[c].outcomes, [command |-> talk[c].command, ok |-> ok])
  <2>0. talk' = [talk EXCEPT ![c].at = "thinking", ![c].work = NoWork, ![c].call = NoCall,
                             ![c].outcomes = os]
    BY <1>8 DEF FinishCall
  <2> HIDE DEF os
  <2>1. /\ talk'[c].at = "thinking" /\ talk'[c].turn = talk[c].turn
        /\ \A d \in Chats : d # c => talk'[d] = talk[d]
    BY <1>2, <2>0 DEF Turns
  <2>2. \E e \in Events : e.type # "approval" /\ Emit(c, e)
    BY <1>2, <1>8, <1>c, <1>e DEF FinishCall
  <2>3. talk[c].at # "idle"
    BY <1>8 DEF FinishCall, WaitCanceled
  <2> QED
    BY <1>8, <2>1, <2>2, <2>3 DEF FinishCall, TurnFrame, Working, Goroutine
<1>9. ASSUME NEW verified \in BOOLEAN, TurnEnds(c, verified) PROVE TurnFrame(c) /\ Working(c)
  <2>0. talk' = [talk EXCEPT ![c] = [Quiescent EXCEPT !.turn = talk[c].turn, !.closed = talk[c].closed]]
    BY <1>9 DEF TurnEnds
  <2>1. /\ talk'[c].at = "idle" /\ talk'[c].turn = talk[c].turn
        /\ \A d \in Chats : d # c => talk'[d] = talk[d]
    BY <1>2, <2>0 DEF Quiescent
  <2>2. UNCHANGED channel \/ \E e \in Events : e.type # "approval" /\ Emit(c, e)
    BY <1>2, <1>9, <1>c, <1>e DEF TurnEnds
  <2>3. talk[c].at # "idle"
    BY <1>9 DEF TurnEnds, WaitCanceled
  <2> QED
    BY <1>2, <1>9, <2>1, <2>2, <2>3 DEF TurnEnds, TurnFrame, Working, Goroutine
<1> QED
  BY <1>3, <1>4, <1>5, <1>6, <1>7, <1>8, <1>9 DEF TurnStep

\* A key that changes nothing but which view is open, or that starts a session.
Quietly ==
  /\ UNCHANGED <<shown, world>>
  /\ tab'.chat = tab.chat /\ tab'.turn = tab.turn /\ tab'.running = tab.running
  /\ tab'.answer = tab.answer /\ tab'.approval.work = tab.approval.work
  /\ tab'.session \in {0, tab.chat} /\ (tab.turn > 0 => tab'.session = tab.chat)
  /\ tab'.starting => tab'.session = 0

Begins(t) ==
  /\ t \in Tabs /\ MayBegin(t) /\ BeginTurn(t) /\ ~tab.running
  /\ t.session = tab.chat /\ t.chat = tab.chat /\ t.turn = tab.turn
  /\ t.approval = tab.approval /\ ~t.starting

\* What a key or the start of a session does, up to what the invariant does not
\* mention.
LEMMA UserShapes ==
  ASSUME ChatInv, UserStep \/ SessionFails \/ SessionReady
  PROVE  \/ Quietly \/ (\E t : Begins(t))
         \/ Interrupt \/ ApproveDialog \/ StartFreshSession
<1>1. ChatTypeOK /\ tab \in Tabs /\ Turning
  BY DEF ChatInv, ChatTypeOK
<1>2. /\ tab.session \in {0, tab.chat} /\ (tab.turn > 0 => tab.session = tab.chat)
      /\ (tab.running => tab.turn > 0) /\ (tab.starting => tab.session = 0) /\ tab.chat # 0 /\ tab.turn \in Nat
  BY <1>1, ChatAssumption DEF Turning, Tabs, Chats
<1>3. CASE OpenActivity \/ BackToLive
  BY <1>1, <1>2, <1>3 DEF OpenActivity, BackToLive, Becomes, Quietly, Tabs
<1>4. CASE DismissDialog \/ ReopenDialog
  BY <1>1, <1>2, <1>4 DEF DismissDialog, ReopenDialog, Becomes, Quietly, Tabs, Dialogs
<1>5. CASE SendPrompt
  <2>1. CASE tab.session = 0
    BY <1>1, <1>2, <1>5, <2>1 DEF SendPrompt, Becomes, Quietly, Tabs
  <2>2. CASE tab.session # 0
    <3>1. Begins(tab)
      BY <1>1, <1>2, <1>5, <2>2 DEF SendPrompt, Sends, Begins
    <3> QED
      BY <3>1
  <2> QED
    BY <2>1, <2>2
<1>6. CASE SendTools
  BY <1>1, <1>2, <1>6 DEF SendTools, Becomes, Quietly, Tabs
<1>7. CASE SessionFails
  BY <1>1, <1>2, <1>7 DEF SessionFails, Quietly, Tabs
<1>8. CASE SessionReady
  <2>1. CASE tab.prompt
    <3>1. Begins(Ready)
      BY <1>1, <1>2, <1>8, <2>1, ReadyIs DEF SessionReady, Begins, Ready
    <3> QED
      BY <3>1
  <2>2. CASE ~tab.prompt
    BY <1>1, <1>2, <1>8, <2>2 DEF SessionReady, Quietly, Tabs
  <2> QED
    BY <2>1, <2>2
<1> QED
  BY <1>3, <1>4, <1>5, <1>6, <1>7, <1>8 DEF UserStep

\* What a reader's step changes of the tab, and a result.
LEMMA MessageShapes ==
  ASSUME ChatInv
  PROVE  /\ \A i \in DOMAIN readers : DeliverEvent(i) => tab' = WithApproval(tab, tab'.approval) /\ tab'.approval \in Dialogs
         /\ \A m \in mail : DeliverDone(m) =>
              /\ tab' = [tab EXCEPT !.wait = FALSE, !.running = FALSE, !.stopping = FALSE,
                                    !.approval = NoDialog, !.inFlight = FALSE]
              /\ shown' \in Seq(ToolCalls) /\ Sourced(shown', tab.chat)
<1>1. ChatTypeOK /\ tab \in Tabs
  BY DEF ChatInv, ChatTypeOK
<1>2. ASSUME NEW i \in DOMAIN readers, DeliverEvent(i)
      PROVE  tab' = WithApproval(tab, tab'.approval) /\ tab'.approval \in Dialogs
  <2> DEFINE s == ApplyRuntimeEvent([tab |-> tab, shown |-> shown], readers[i].held)
  <2>1. readers[i].held \in Events
    <3>1. readers[i] \in Readers
      BY <1>1 DEF ChatTypeOK
    <3> QED
      BY <1>2, <3>1 DEF DeliverEvent, Readers
  <2>2. s \in Shows(tab) /\ tab' = s.tab
    BY <1>1, <1>2, <2>1, DeliveredIs, Applied DEF DeliverEvent
  <2> HIDE DEF s
  <2>3. PICK a \in Dialogs : tab' = WithApproval(tab, a)
    BY <2>2, DeliveredIs
  <2> QED
    BY <1>1, <2>3 DEF WithApproval, Tabs
<1>3. ASSUME NEW m \in mail, DeliverDone(m)
      PROVE  /\ tab' = [tab EXCEPT !.wait = FALSE, !.running = FALSE, !.stopping = FALSE,
                                    !.approval = NoDialog, !.inFlight = FALSE]
             /\ shown' \in Seq(ToolCalls) /\ Sourced(shown', tab.chat)
  <2> DEFINE b == [tab |-> tab, shown |-> shown]
             s == FoldLeft(ApplyRuntimeEvent, b, channel[tab.chat])
  <2>1. tab.turn \in Nat /\ channel[tab.chat] \in Seq(Events)
    BY <1>1 DEF Tabs, ChatTypeOK
  <2>2. s \in Shows(tab)
    BY <1>1, <2>1, DeliveredIs, Drained
  <2>3. /\ tab' = [s.tab EXCEPT !.wait = FALSE, !.running = FALSE, !.stopping = FALSE,
                                !.approval = NoDialog, !.inFlight = FALSE]
        /\ shown' = ReconcileToolOutcomes(s.shown, tab.turn, m.outcomes)
    BY <1>3 DEF DeliverDone
  <2> HIDE DEF s
  <2>4. m.outcomes \in Seq(Outcomes)
    BY <1>1, <1>3 DEF ChatTypeOK, Arrivals, DeliverDone
  <2>5. shown' \in Seq(ToolCalls) /\ Sourced(shown', tab.chat)
    BY <2>1, <2>2, <2>3, <2>4, DeliveredIs, AllReconciled
  <2>6. PICK a \in Dialogs : s.tab = WithApproval(tab, a)
    BY <2>2, DeliveredIs
  <2>7. tab' = [tab EXCEPT !.wait = FALSE, !.running = FALSE, !.stopping = FALSE,
                           !.approval = NoDialog, !.inFlight = FALSE]
    BY <1>1, <2>3, <2>6 DEF WithApproval, Tabs
  <2> QED
    BY <2>5, <2>7
<1> QED
  BY <1>2, <1>3

\* Cases of a step, for the parts of the invariant.
LEMMA ChatCases ==
  ASSUME ChatInv, ChatNext
  PROVE  \/ \E c \in Chats : TurnFrame(c) /\ (Asking(c) \/ Working(c))
         \/ Quietly \/ (\E t : Begins(t))
         \/ Interrupt \/ ApproveDialog \/ StartFreshSession
         \/ \E m \in mail : DeliverDone(m) \/ DeliverAnswer(m)
         \/ \E i \in DOMAIN readers : ReaderTakes(i) \/ ReaderStops(i) \/ DeliverEvent(i)
         \/ \E a \in approving : ApprovalFails(a) \/ GrantSaved(a) \/ ResumesTurn(a)
  BY TurnShapes, UserShapes DEF ChatNext, ApprovalStep

\* Types after every step.
LEMMA ChatTypes ==
  ASSUME ChatInv, ChatNext
  PROVE  ChatTypeOK'
  BY TalkTypes, ReaderTypes, MessageTypes, AnswerTypes, UserTypes DEF ChatNext

-----------------------------------------------------------------------------
(* Chat: one turn at a time. *)

\* No turn and no result while the tab does not run.
LEMMA AllIdle ==
  ASSUME ChatInv, ~tab.running
  PROVE  /\ \A c \in Chats : talk[c].at = "idle"
         /\ \A m \in mail : m.type # "done"
  BY DEF ChatInv, Turning

\* A turn that goes on is the only one.
LEMMA OneTurns ==
  ASSUME ChatInv, NEW c \in Chats, talk[c].at # "idle"
  PROVE  /\ c = tab.chat /\ tab.running
         /\ \A d \in Chats : d # c => talk[d].at = "idle"
         /\ \A m \in mail : m.type # "done"
  BY DEF ChatInv, Turning

\* One turn at a time, after every step.
LEMMA TurningKept ==
  ASSUME ChatInv, ChatNext, UNCHANGED plan
  PROVE  Turning'
<1> USE DEF Turning
<1>1. ChatTypeOK /\ Turning /\ tab \in Tabs /\ tab.chat \in Chats /\ tab.turn \in Nat
  BY DEF ChatInv, ChatTypeOK, Tabs
<1>2. ASSUME NEW c \in Chats, TurnFrame(c), Asking(c) \/ Working(c) PROVE Turning'
  <2>1. c = tab.chat /\ tab.running /\ (\A d \in Chats : d # c => talk[d].at = "idle")
        /\ \A m \in mail : m.type # "done"
    BY <1>2, OneTurns DEF TurnFrame
  <2>2. \A m \in mail' : m.type = "done" =>
          /\ tab'.running /\ talk'[tab'.chat].at = "idle"
          /\ \A n \in mail' : n.type = "done" => n = m
    BY <1>2, <2>1 DEF TurnFrame, Asking, Working
  <2>3. \A d \in Chats : talk'[d].at # "idle" =>
           /\ d = tab'.chat /\ tab'.running /\ tab'.turn = talk'[d].turn
           /\ d + talk'[d].turn - 1 \in 1..Len(plan'.calls)
    BY <1>1, <1>2, <2>1 DEF TurnFrame
  <2> QED
    BY <1>1, <1>2, <2>2, <2>3 DEF TurnFrame
<1>3. CASE Quietly
  BY <1>1, <1>3 DEF Quietly, world
<1>4. ASSUME NEW t, Begins(t) PROVE Turning'
  <2> DEFINE n == t.turn + 1
  <2>1. (\A c \in Chats : talk[c].at = "idle") /\ \A m \in mail : m.type # "done"
    BY <1>4, AllIdle DEF Begins
  <2>2. /\ tab' = [t EXCEPT !.turn = n, !.answer = NoWork, !.wait = TRUE, !.running = TRUE, !.stopping = FALSE]
        /\ talk' = [talk EXCEPT ![tab.chat] = [Quiescent EXCEPT !.at = "begin", !.turn = n]]
        /\ n \in Nat /\ n > 0 /\ mail' = mail
    BY <1>1, <1>4 DEF Begins, BeginTurn
  <2>3. tab.chat + n - 1 \in 1..Len(plan.calls)
    <3>1. tab.chat + tab.turn <= Len(plan.calls) /\ n = tab.turn + 1
      BY <1>4 DEF Begins, MayBegin
    <3>2. tab.chat \in Nat /\ tab.chat >= 1
      BY <1>1, ChatAssumption DEF Chats
    <3>3. Len(plan.calls) \in Nat
      BY <1>1, ChatAssumption DEF ChatTypeOK
    <3>4. n \in Nat /\ tab.turn \in Nat
      BY <1>1, <3>1
    <3> HIDE DEF n
    <3> QED
      BY ONLY <3>1, <3>2, <3>3, <3>4
  <2> HIDE DEF n
  <2>4. /\ tab'.turn = n /\ tab'.running /\ tab'.chat = tab.chat /\ tab'.session = tab.chat /\ ~tab'.starting
    BY <1>4, <2>2 DEF Begins, Tabs
  <2>5. talk'[tab.chat].turn = n /\ \A c \in Chats : c # tab.chat => talk'[c] = talk[c]
    BY <1>1, <2>2 DEF ChatTypeOK, Quiescent
  <2> QED
    BY <2>1, <2>2, <2>3, <2>4, <2>5
<1>5. CASE Interrupt
  <2>1. /\ tab'.chat = tab.chat /\ tab'.turn = tab.turn /\ tab'.running = tab.running
        /\ tab'.session = tab.session /\ tab'.starting = tab.starting /\ mail' = mail
    BY <1>1, <1>5 DEF Interrupt, Tabs
  <2>2. \A c \in Chats : talk'[c].at = talk[c].at /\ talk'[c].turn = talk[c].turn
    BY <1>1, <1>5 DEF Interrupt, ChatTypeOK, Turns
  <2> QED
    BY <1>1, <2>1, <2>2
<1>6. CASE ApproveDialog
  <2>1. /\ tab'.chat = tab.chat /\ tab'.turn = tab.turn /\ tab'.running = tab.running
        /\ tab'.session = tab.session /\ tab'.starting = tab.starting /\ mail' = mail /\ talk' = talk
    BY <1>1, <1>6 DEF ApproveDialog, Tabs
  <2> QED
    BY <1>1, <2>1
<1>7. CASE StartFreshSession
  <2>1. (\A c \in Chats : talk[c].at = "idle") /\ \A m \in mail : m.type # "done"
    BY <1>7, AllIdle DEF StartFreshSession, Sends
  <2>2. mail' = mail /\ tab'.session = 0 /\ ~tab'.running /\ tab'.turn = 0
    BY <1>7 DEF StartFreshSession, FreshTab, NewChatTab
  <2>3. \A c \in Chats : talk'[c].at = talk[c].at
    BY <1>1, <1>7 DEF StartFreshSession, ChatTypeOK, Turns
  <2> QED
    BY <2>1, <2>2, <2>3
<1>8. ASSUME NEW m \in mail, DeliverDone(m) PROVE Turning'
  <2>1. /\ \A n \in mail' : n.type # "done"
        /\ \A c \in Chats : talk[c].at = "idle"
    BY <1>1, <1>8 DEF DeliverDone
  <2>2. /\ tab'.session = tab.session /\ tab'.turn = tab.turn /\ ~tab'.running /\ tab'.chat = tab.chat
        /\ tab'.starting = tab.starting
    BY <1>1, <1>8, MessageShapes DEF Tabs
  <2> QED
    BY <1>1, <1>8, <2>1, <2>2 DEF DeliverDone
<1>9. ASSUME NEW m \in mail, DeliverAnswer(m) PROVE Turning'
  <2>1. /\ tab'.session = tab.session /\ tab'.turn = tab.turn /\ tab'.running = tab.running
        /\ tab'.chat = tab.chat /\ tab'.starting = tab.starting
    BY <1>1, <1>9 DEF DeliverAnswer, Tabs
  <2> QED
    BY <1>1, <1>9, <2>1 DEF DeliverAnswer
<1>10. ASSUME NEW i \in DOMAIN readers, ReaderTakes(i) \/ ReaderStops(i) PROVE Turning'
  BY <1>1, <1>10 DEF ReaderTakes, ReaderStops
<1>11. ASSUME NEW i \in DOMAIN readers, DeliverEvent(i) PROVE Turning'
  <2>1. /\ tab'.session = tab.session /\ tab'.turn = tab.turn /\ tab'.running = tab.running
        /\ tab'.chat = tab.chat /\ tab'.starting = tab.starting
    BY <1>1, <1>11, MessageShapes DEF WithApproval, Tabs
  <2> QED
    BY <1>1, <1>11, <2>1 DEF DeliverEvent
<1>12. ASSUME NEW a \in approving, ApprovalFails(a) \/ GrantSaved(a) \/ ResumesTurn(a) PROVE Turning'
  <2>1. /\ tab' = tab /\ \A m \in mail' : m.type = "done" <=> m \in mail /\ m.type = "done"
    BY <1>12 DEF ApprovalFails, GrantSaved, ResumesTurn, Answers
  <2>2. \A c \in Chats : talk'[c].at = talk[c].at /\ talk'[c].turn = talk[c].turn
    <3>1. CASE ResumesTurn(a)
      <4> DEFINE v == talk[a.chat].signal \/ (talk[a.chat].at = "waiting" /\ talk[a.chat].work = a.work /\ ~talk[a.chat].signal)
      <4>1. talk' = [talk EXCEPT ![a.chat].signal = v]
        BY <3>1 DEF ResumesTurn
      <4> HIDE DEF v
      <4> QED
        BY <1>1, <4>1 DEF ChatTypeOK, Turns
    <3> QED
      BY <1>12, <3>1 DEF ApprovalFails, GrantSaved
  <2> QED
    BY <1>1, <2>1, <2>2
<1> QED
  BY <1>2, <1>3, <1>4, <1>5, <1>6, <1>7, <1>8, <1>9, <1>10, <1>11, <1>12, ChatCases

-----------------------------------------------------------------------------
(* Chat: the approval events under way. *)

PlacesAre ==
  /\ \A p : p \in Places => \/ \E i \in DOMAIN readers : p = <<0, i>>
                            \/ \E c \in Chats : \E k \in DOMAIN channel[c] : p = <<c, k>>
  /\ \A i \in DOMAIN readers : <<0, i>> \in Places /\ At(<<0, i>>) = readers[i].held
  /\ \A c \in Chats : \A k \in DOMAIN channel[c] : <<c, k>> \in Places /\ At(<<c, k>>) = channel[c][k]
  /\ \A c \in Chats : c \in Nat /\ c # 0
  /\ DOMAIN readers = 1..Len(readers) /\ Len(readers) \in Nat
  /\ \A c \in Chats : DOMAIN channel[c] = 1..Len(channel[c]) /\ Len(channel[c]) \in Nat

\* The places of events, one by one.
LEMMA PlaceIs == ChatTypeOK => PlacesAre
<1> SUFFICES ASSUME ChatTypeOK PROVE PlacesAre
  OBVIOUS
<1>1. \A c \in Chats : c \in Nat /\ c # 0
  BY ChatAssumption DEF Chats
<1>2. \A i \in DOMAIN readers : <<0, i>> \in Places /\ At(<<0, i>>) = readers[i].held
  BY DEF Places, At
<1>3. ASSUME NEW c \in Chats, NEW k \in DOMAIN channel[c]
      PROVE  <<c, k>> \in Places /\ At(<<c, k>>) = channel[c][k]
  <2>1. <<c, k>> \in Places
    BY DEF Places
  <2> QED
    BY <1>1, <2>1 DEF At
<1>4. ASSUME NEW p \in Places
      PROVE  \/ \E i \in DOMAIN readers : p = <<0, i>>
             \/ \E c \in Chats : \E k \in DOMAIN channel[c] : p = <<c, k>>
  BY DEF Places
<1>5. /\ DOMAIN readers = 1..Len(readers) /\ Len(readers) \in Nat
      /\ \A c \in Chats : DOMAIN channel[c] = 1..Len(channel[c]) /\ Len(channel[c]) \in Nat
  BY DEF ChatTypeOK
<1> QED
  BY <1>1, <1>2, <1>3, <1>4, <1>5 DEF PlacesAre

\* Every approval event of the next state was one of this state, from a place
\* of its own, but for a fresh one at q.
LEMMA Carried ==
  ASSUME ChatInv, NEW f, NEW q,
         \A p : Approves(p)' /\ p # q => Approves(f[p]) /\ At(f[p]) = At(p)',
         \A p, r : Approves(p)' /\ Approves(r)' /\ p # q /\ r # q /\ f[p] = f[r] => p = r,
         Approves(q)' => /\ (At(q)').work \notin DOMAIN work
                         /\ IsAsked(At(q).work, At(q).chat, At(q).turn, At(q).call)'
                         /\ Unseen(At(q).work)',
         \A w \in DOMAIN work : w \in DOMAIN work' /\ work'[w] = work[w],
         \A w : Sent(w) /\ Sent(w)' /\ Unseen(w) => Unseen(w)'
  PROVE  Sending'
<1>1. \A p : Approves(p) => /\ IsAsked(At(p).work, At(p).chat, At(p).turn, At(p).call)
                            /\ Unseen(At(p).work) /\ Sent(At(p).work)
  BY DEF ChatInv, Sending, Approves, Sent
<1>2. \A p, r : Approves(p) /\ Approves(r) /\ At(p).work = At(r).work => p = r
  BY DEF ChatInv, Sending, Approves
<1>3. \A p : Approves(p)' => Sent(At(p).work)'
  BY DEF Sent, Approves
<1>4. ASSUME NEW p, Approves(p)', p # q
      PROVE  /\ IsAsked(At(p).work, At(p).chat, At(p).turn, At(p).call)'
             /\ Unseen(At(p).work)' /\ (At(p)').work \in DOMAIN work
             /\ Approves(f[p]) /\ At(f[p]) = At(p)'
  <2>1. Approves(f[p]) /\ At(f[p]) = At(p)'
    BY <1>4
  <2>2. IsAsked(At(f[p]).work, At(f[p]).chat, At(f[p]).turn, At(f[p]).call) /\ Unseen(At(f[p]).work)
        /\ Sent(At(f[p]).work)
    BY <1>1, <2>1
  <2>3. IsAsked((At(p)').work, (At(p)').chat, (At(p)').turn, (At(p)').call) /\ Unseen((At(p)').work)
        /\ Sent((At(p)').work)
    BY <2>1, <2>2
  <2>4. (At(p)').work \in DOMAIN work /\ IsAsked(At(p).work, At(p).chat, At(p).turn, At(p).call)'
    BY <2>3 DEF IsAsked
  <2>5. Sent(At(p).work)'
    BY <1>3, <1>4
  <2>6. Unseen(At(p).work)'
    BY <2>3, <2>5
  <2> QED
    BY <2>1, <2>4, <2>6
<1>5. ASSUME NEW p, NEW r, Approves(p)', Approves(r)', (At(p)').work = (At(r)').work
      PROVE  p = r
  <2>1. CASE p # q /\ r # q
    BY <1>2, <1>4, <1>5, <2>1
  <2>2. CASE p = q /\ r # q
    BY <1>4, <1>5, <2>2
  <2>3. CASE p # q /\ r = q
    BY <1>4, <1>5, <2>3
  <2> QED
    BY <2>1, <2>2, <2>3
<1>6. \A p : Approves(p)' => IsAsked(At(p).work, At(p).chat, At(p).turn, At(p).call)' /\ Unseen(At(p).work)'
  BY <1>4
<1> QED
  BY <1>5, <1>6 DEF Sending

\* No event has come or moved.
LEMMA Fewer ==
  ASSUME ChatInv,
         \A p : Approves(p)' => Approves(p) /\ At(p) = At(p)',
         \A w \in DOMAIN work : w \in DOMAIN work' /\ work'[w] = work[w],
         \A w : Sent(w) /\ Sent(w)' /\ Unseen(w) => Unseen(w)'
  PROVE  Sending'
<1>1. \A p \in Places : Approves(p) => /\ IsAsked(At(p).work, At(p).chat, At(p).turn, At(p).call)
                                       /\ Unseen(At(p).work) /\ Sent(At(p).work)
  BY DEF ChatInv, Sending, Approves, Sent
<1>2. ASSUME NEW p, Approves(p)'
      PROVE  IsAsked(At(p).work, At(p).chat, At(p).turn, At(p).call)' /\ Unseen(At(p).work)'
  <2>1. Approves(p) /\ p \in Places /\ At(p) = At(p)'
    BY <1>2 DEF Approves
  <2>2. Sent(At(p).work)'
    BY <1>2 DEF Sent, Approves
  <2>3. IsAsked((At(p)').work, (At(p)').chat, (At(p)').turn, (At(p)').call) /\ Unseen((At(p)').work)
        /\ Sent((At(p)').work)
    BY <1>1, <2>1
  <2>4. Unseen(At(p).work)'
    BY <2>2, <2>3
  <2> QED
    BY <2>3, <2>4 DEF IsAsked
<1>3. ASSUME NEW p, NEW r, Approves(p)', Approves(r)', (At(p)').work = (At(r)').work
      PROVE  p = r
  BY <1>3 DEF ChatInv, Sending, Approves
<1> QED
  BY <1>2, <1>3 DEF Sending

\* Where the events of the next state were when a conversation emits one.
LEMMA EmitMoves ==
  ASSUME ChatTypeOK, ChatTypeOK', NEW c \in Chats, NEW e \in Events, Emit(c, e), UNCHANGED readers
  PROVE  \E f, q :
           /\ \A p : Approves(p)' /\ p # q => Approves(f[p]) /\ At(f[p]) = At(p)'
           /\ \A p, r : Approves(p)' /\ Approves(r)' /\ p # q /\ r # q /\ f[p] = f[r] => p = r
           /\ q \in Places' => At(q)' = e
           /\ e.type \in Lasting => q \in Places'
<1> DEFINE ch == channel[c]
<1>1. ch \in Seq(Events) /\ channel' = [channel EXCEPT ![c] = Observe(ch, e)] /\ Len(ch) \in Nat
  BY DEF ChatTypeOK, Emit
<1>2. /\ \A d \in Chats : d # c => channel'[d] = channel[d]
      /\ channel'[c] = Observe(ch, e)
  BY <1>1 DEF ChatTypeOK
<1>p. /\ \A p : p \in Places' => \/ \E i \in DOMAIN readers : p = <<0, i>>
                                 \/ \E d \in Chats : \E k \in DOMAIN channel'[d] : p = <<d, k>>
      /\ \A i \in DOMAIN readers : <<0, i>> \in Places' /\ At(<<0, i>>)' = readers[i].held
      /\ \A d \in Chats : \A k \in DOMAIN channel'[d] : <<d, k>> \in Places' /\ At(<<d, k>>)' = channel'[d][k]
      /\ \A d \in Chats : DOMAIN channel'[d] = 1..Len(channel'[d]) /\ Len(channel'[d]) \in Nat
  <2>1. PlacesAre'
    BY PlaceIs, PTL
  <2> QED
    BY <2>1 DEF PlacesAre
<1>o. PlacesAre
  BY PlaceIs
<1>3. CASE Observe(ch, e) = ch /\ e.type \notin Lasting
  <2>1. channel' = channel
    BY <1>1, <1>3 DEF ChatTypeOK
  <2>2. Places' = Places /\ \A p : At(p)' = At(p)
    BY <2>1 DEF Places, At
  <2> DEFINE f == [p \in Places |-> p]
             q == <<0, 0>>
  <2>3. q \notin Places'
    <3>1. 0 \notin DOMAIN readers
      BY <1>o DEF PlacesAre
    <3> QED
      BY <1>p, <3>1, <1>o DEF PlacesAre
  <2>4. /\ \A p : Approves(p)' /\ p # q => Approves(f[p]) /\ At(f[p]) = At(p)'
        /\ \A p, r : Approves(p)' /\ Approves(r)' /\ p # q /\ r # q /\ f[p] = f[r] => p = r
    BY <2>2 DEF Approves
  <2> QED
    BY <1>3, <2>3, <2>4
<1>4. ASSUME NEW d \in {0, 1}, Len(Observe(ch, e)) = Len(ch) - d + 1, Len(ch) >= d,
             \A k \in 1..(Len(ch) - d) : Observe(ch, e)[k] = ch[k + d],
             Observe(ch, e)[Len(ch) - d + 1] = e
      PROVE  \E f, q :
               /\ \A p : Approves(p)' /\ p # q => Approves(f[p]) /\ At(f[p]) = At(p)'
               /\ \A p, r : Approves(p)' /\ Approves(r)' /\ p # q /\ r # q /\ f[p] = f[r] => p = r
               /\ q \in Places' => At(q)' = e
               /\ e.type \in Lasting => q \in Places'
  <2>0. PICK n : n = Len(ch) - d + 1
    OBVIOUS
  <2> DEFINE f == [p \in Places' |-> IF p[1] = c THEN <<c, p[2] + d>> ELSE p]
             q == <<c, n>>
  <2>1. n \in Nat /\ n \in 1..n /\ DOMAIN channel'[c] = 1..n /\ channel'[c][n] = e
    BY <1>1, <1>2, <1>4, <1>p, <2>0
  <2>2. q \in Places' /\ At(q)' = e
    BY <1>p, <2>1
  <2>3. \A i \in DOMAIN readers : f[<<0, i>>] = <<0, i>>
    BY <1>p, <1>o DEF PlacesAre
  <2>4. \A b \in Chats : b # c => \A k \in DOMAIN channel'[b] : f[<<b, k>>] = <<b, k>>
    BY <1>p
  <2>5. \A k \in DOMAIN channel'[c] : f[<<c, k>>] = <<c, k + d>>
    BY <1>p
  <2>6. \A k \in DOMAIN channel'[c] : k # n => k + d \in DOMAIN channel[c] /\ channel'[c][k] = channel[c][k + d]
    <3>1. ASSUME NEW k \in 1..n, k # n PROVE k \in 1..(Len(ch) - d) /\ k + d \in 1..Len(ch)
      BY <1>1, <2>0, <3>1
    <3>2. DOMAIN channel[c] = 1..Len(ch)
      BY <1>o DEF PlacesAre
    <3> QED
      BY <1>2, <1>4, <2>1, <3>1, <3>2
  <2> HIDE DEF f
  <2>7. ASSUME NEW p, Approves(p)', p # q PROVE Approves(f[p]) /\ At(f[p]) = At(p)'
    <3>0. p \in Places' /\ (At(p)').type = "approval"
      BY <2>7 DEF Approves
    <3>1. CASE \E i \in DOMAIN readers : p = <<0, i>>
      BY <1>p, <2>3, <3>0, <3>1, <1>o DEF Approves, PlacesAre
    <3>2. ASSUME NEW b \in Chats, NEW k \in DOMAIN channel'[b], p = <<b, k>>, b # c
          PROVE  Approves(f[p]) /\ At(f[p]) = At(p)'
      <4>1. channel'[b] = channel[b] /\ k \in DOMAIN channel[b]
        BY <1>2, <3>2
      <4>2. p \in Places /\ At(p) = channel[b][k]
        BY <1>o, <3>2, <4>1 DEF PlacesAre
      <4>3. At(p)' = channel[b][k]
        BY <1>p, <3>2, <4>1
      <4>4. f[p] = p
        BY <2>4, <3>2
      <4> QED
        BY <3>0, <4>2, <4>3, <4>4 DEF Approves
    <3>3. ASSUME NEW k \in DOMAIN channel'[c], p = <<c, k>> PROVE Approves(f[p]) /\ At(f[p]) = At(p)'
      <4>1. k # n
        BY <2>7, <3>3
      <4> QED
        BY <1>p, <2>5, <2>6, <3>0, <3>3, <4>1, <1>o DEF Approves, PlacesAre
    <3> QED
      BY <1>p, <3>0, <3>1, <3>2, <3>3
  <2>8. ASSUME NEW p \in Places', NEW r \in Places', f[p] = f[r] PROVE p = r
    <3>1. \A b \in Chats : DOMAIN channel'[b] \subseteq Nat
      BY <1>p
    <3>2. \A i \in DOMAIN readers : \A b \in Chats : \A k : <<0, i>> # <<b, k>>
      BY <1>o DEF PlacesAre
    <3>3. p[1] = f[p][1] /\ r[1] = f[r][1]
      BY <1>p, <2>3, <2>4, <2>5
    <3>4. CASE p[1] = c
      <4>1. PICK k \in DOMAIN channel'[c] : p = <<c, k>>
        BY <1>p, <3>4, <1>o DEF PlacesAre
      <4>2. PICK l \in DOMAIN channel'[c] : r = <<c, l>>
        BY <1>p, <2>8, <3>3, <3>4, <1>o DEF PlacesAre
      <4>3. k + d = l + d
        BY <2>5, <2>8, <4>1, <4>2
      <4> QED
        BY <3>1, <4>1, <4>2, <4>3
    <3>5. CASE p[1] # c
      <4>1. f[p] = p
        BY <1>p, <2>3, <2>4, <3>5
      <4>2. f[r] = r
        BY <1>p, <2>3, <2>4, <2>8, <3>3, <3>5
      <4> QED
        BY <2>8, <4>1, <4>2
    <3> QED
      BY <3>4, <3>5
  <2> HIDE DEF q
  <2> QED
    BY <2>2, <2>7, <2>8 DEF Approves
<1> QED
  BY <1>1, <1>3, <1>4, Observed

\* What a turn does keeps the approval events: a fresh one is of the newest approval.
LEMMA SendingByTurns ==
  ASSUME ChatInv, ChatTypeOK', NEW c \in Chats, TurnFrame(c), Asking(c) \/ Working(c)
  PROVE  Sending'
<1>1. ChatTypeOK /\ Answered /\ UNCHANGED <<tab, readers, approving>>
  BY DEF ChatInv, TurnFrame
<1>2. Len(work) \in Nat /\ DOMAIN work = 1..Len(work)
  BY <1>1 DEF ChatTypeOK
<1>3. CASE Asking(c)
  <2>1. PICK e \in Events :
          /\ e.type = "approval" /\ e.chat = c /\ e.turn = talk[c].turn /\ e.work = Len(work) + 1
          /\ work' = Append(work, [chat |-> c, turn |-> talk[c].turn, call |-> e.call])
          /\ Emit(c, e)
    BY <1>3 DEF Asking
  <2>2. PICK f, q :
           /\ \A p : Approves(p)' /\ p # q => Approves(f[p]) /\ At(f[p]) = At(p)'
           /\ \A p, r : Approves(p)' /\ Approves(r)' /\ p # q /\ r # q /\ f[p] = f[r] => p = r
           /\ q \in Places' => At(q)' = e
    <3>1. Emit(c, e) /\ UNCHANGED readers /\ ChatTypeOK
      BY <1>1, <2>1
    <3> QED
      BY ONLY ChatTypeOK', <3>1, EmitMoves
  <2>3. /\ \A w \in DOMAIN work : w \in DOMAIN work' /\ work'[w] = work[w]
        /\ Len(work) + 1 \in DOMAIN work' /\ Len(work) + 1 \notin DOMAIN work
        /\ work'[Len(work) + 1] = [chat |-> c, turn |-> talk[c].turn, call |-> e.call]
        /\ Len(work) + 1 # NoWork
    <3> DEFINE r == [chat |-> c, turn |-> talk[c].turn, call |-> e.call]
    <3>1. r \in AskedWorks /\ work \in Seq(AskedWorks)
      BY <1>1, TalkIs DEF ChatTypeOK, AskedWorks, Events
    <3> HIDE DEF r
    <3>2. /\ Append(work, r) \in Seq(AskedWorks) /\ Len(Append(work, r)) = Len(work) + 1
          /\ \A k \in 1..Len(work) : Append(work, r)[k] = work[k]
          /\ Append(work, r)[Len(work) + 1] = r
      BY <3>1, AppendIs
    <3>3. work' = Append(work, r)
      BY <2>1 DEF r
    <3>4. /\ DOMAIN work' = 1..(Len(work) + 1)
          /\ \A k \in 1..Len(work) : work'[k] = work[k]
          /\ work'[Len(work) + 1] = r
      BY <3>2, <3>3
    <3> QED
      BY <1>2, <3>4 DEF r, NoWork
  <2>4. mail' = mail
    BY <1>3 DEF Asking
  <2>5. \A w : Unseen(w) => Unseen(w)'
    BY <1>1, <2>4 DEF Unseen
  <2>6. Unseen(Len(work) + 1)
    BY <1>1, <2>3 DEF Unseen, Answered
  <2>7. ASSUME NEW w, w = Len(work) + 1 PROVE Unseen(w)'
    BY <2>5, <2>6, <2>7
  <2>8. ASSUME Approves(q)'
        PROVE  /\ (At(q)').work \notin DOMAIN work
               /\ IsAsked(At(q).work, At(q).chat, At(q).turn, At(q).call)'
               /\ Unseen(At(q).work)'
    <3>1. At(q)' = e
      BY <2>2, <2>8 DEF Approves
    <3> QED
      BY <2>1, <2>3, <2>7, <3>1 DEF IsAsked
  <2>9. \A w \in DOMAIN work : w \in DOMAIN work' /\ work'[w] = work[w]
    BY <2>3
  <2>10. \A w : Sent(w) /\ Sent(w)' /\ Unseen(w) => Unseen(w)'
    BY <2>5
  <2> QED
    BY ONLY ChatInv, <2>2, <2>8, <2>9, <2>10, Carried
<1>4. CASE Working(c)
  <2>1. work' = work /\ \A w : Unseen(w) => Unseen(w)'
    BY <1>1, <1>4 DEF Working, Unseen
  <2>2. CASE UNCHANGED channel
    <3>1. Places' = Places /\ \A p : At(p)' = At(p)
      BY <1>1, <2>2 DEF Places, At
    <3> QED
      BY <2>1, <3>1, Fewer DEF Approves
  <2>3. ASSUME NEW e \in Events, e.type # "approval", Emit(c, e) PROVE Sending'
    <3>1. PICK f, q :
             /\ \A p : Approves(p)' /\ p # q => Approves(f[p]) /\ At(f[p]) = At(p)'
             /\ \A p, r : Approves(p)' /\ Approves(r)' /\ p # q /\ r # q /\ f[p] = f[r] => p = r
             /\ q \in Places' => At(q)' = e
      BY <1>1, <2>3, EmitMoves
    <3>2. ~ Approves(q)'
      BY <2>3, <3>1 DEF Approves
    <3> QED
      BY <2>1, <3>1, <3>2, Carried
  <2> QED
    BY <1>4, <2>2, <2>3 DEF Working
<1> QED
  BY <1>3, <1>4

\* The events of the next state are events of this one, in their places, when
\* the channels and the readers only lose what they hold.
LEMMA Lost ==
  ASSUME ChatTypeOK, ChatTypeOK',
         \A c \in Chats : channel'[c] \in {channel[c], <<>>},
         Len(readers') >= Len(readers),
         \A i \in DOMAIN readers' : readers'[i].held = Unheld
                                    \/ (i \in DOMAIN readers /\ readers'[i].held = readers[i].held)
  PROVE  \A p : Approves(p)' => Approves(p) /\ At(p) = At(p)'
<1>1. PlacesAre
  BY PlaceIs
<1>2. /\ \A p : p \in Places' => \/ \E i \in DOMAIN readers' : p = <<0, i>>
                                 \/ \E d \in Chats : \E k \in DOMAIN channel'[d] : p = <<d, k>>
      /\ \A i \in DOMAIN readers' : <<0, i>> \in Places' /\ At(<<0, i>>)' = readers'[i].held
      /\ \A d \in Chats : \A k \in DOMAIN channel'[d] : <<d, k>> \in Places' /\ At(<<d, k>>)' = channel'[d][k]
  <2>1. PlacesAre'
    BY PlaceIs, PTL
  <2> QED
    BY <2>1 DEF PlacesAre
<1>3. ASSUME NEW p, Approves(p)' PROVE Approves(p) /\ At(p) = At(p)'
  <2>1. p \in Places' /\ (At(p)').type = "approval"
    BY <1>3 DEF Approves
  <2>2. ASSUME NEW i \in DOMAIN readers', p = <<0, i>> PROVE Approves(p) /\ At(p) = At(p)'
    <3>1. readers'[i].held # Unheld
      BY <1>2, <2>1, <2>2 DEF Unheld
    <3>2. i \in DOMAIN readers /\ readers'[i].held = readers[i].held
      BY <3>1
    <3> QED
      BY <1>1, <1>2, <2>1, <2>2, <3>2 DEF Approves, PlacesAre
  <2>3. ASSUME NEW d \in Chats, NEW k \in DOMAIN channel'[d], p = <<d, k>> PROVE Approves(p) /\ At(p) = At(p)'
    <3>1. channel'[d] = channel[d]
      <4>1. channel'[d] # <<>>
        OBVIOUS
      <4> QED
        BY <4>1
    <3> QED
      BY <1>1, <1>2, <2>1, <2>3, <3>1 DEF Approves, PlacesAre
  <2> QED
    BY <1>2, <2>1, <2>2, <2>3
<1> QED
  BY <1>3

\* An approval whose event is under way was asked, and nobody has seen it.
LEMMA SentIsAsked ==
  ASSUME ChatInv, NEW w, Sent(w)
  PROVE  w \in DOMAIN work /\ w # NoWork /\ Unseen(w) /\ w \in Nat
<1>1. w \in DOMAIN work /\ Unseen(w)
  BY DEF ChatInv, Sending, Sent, Approves, IsAsked
<1>2. DOMAIN work = 1..Len(work) /\ Len(work) \in Nat
  BY DEF ChatInv, ChatTypeOK
<1> QED
  BY <1>1, <1>2 DEF NoWork

\* What only takes events away, and answers no approval that was not shown,
\* keeps the approval events.
LEMMA SendingByLoss ==
  ASSUME ChatInv, ChatTypeOK', UNCHANGED work,
         \A c \in Chats : channel'[c] \in {channel[c], <<>>},
         Len(readers') >= Len(readers),
         \A i \in DOMAIN readers' : readers'[i].held = Unheld
                                    \/ (i \in DOMAIN readers /\ readers'[i].held = readers[i].held),
         tab'.approval.work \in {tab.approval.work, NoWork},
         tab'.answer \in {tab.answer, tab.approval.work, NoWork},
         \A a \in approving' : a.work = tab.approval.work \/ \E b \in approving : b.work = a.work,
         \A m \in mail' : m.type = "answer" =>
           m \in mail \/ \E b \in approving : b.work = m.work
  PROVE  Sending'
<1>1. ChatTypeOK
  BY DEF ChatInv
<1>2. \A p : Approves(p)' => Approves(p) /\ At(p) = At(p)'
  BY <1>1, Lost
<1>3. ASSUME NEW w, Sent(w), Unseen(w) PROVE Unseen(w)'
  <2>1. w # NoWork
    BY <1>3, SentIsAsked
  <2> QED
    BY <1>3, <2>1 DEF Unseen
<1>4. \A w \in DOMAIN work : w \in DOMAIN work' /\ work'[w] = work[w]
  OBVIOUS
<1>5. \A w : Sent(w) /\ Sent(w)' /\ Unseen(w) => Unseen(w)'
  BY <1>3
<1> QED
  BY ONLY ChatInv, <1>2, <1>4, <1>5, Fewer

\* Keys, results, answers and approvals only take events away.
LEMMA SendingByTab ==
  ASSUME ChatInv, ChatTypeOK',
         \/ Quietly \/ (\E t : Begins(t))
         \/ Interrupt \/ ApproveDialog \/ StartFreshSession
         \/ \E m \in mail : DeliverDone(m) \/ DeliverAnswer(m)
         \/ \E a \in approving : ApprovalFails(a) \/ GrantSaved(a) \/ ResumesTurn(a)
  PROVE  Sending'
<1>1. ChatTypeOK /\ tab \in Tabs /\ tab.chat \in Chats /\ readers \in Seq(Readers) /\ channel \in [Chats -> Seq(Events)]
  BY DEF ChatInv, ChatTypeOK, Tabs
<1>2. Len(readers) \in Nat /\ Len(readers) >= Len(readers)
  BY <1>1
<1>3. CASE Quietly
  <2>1. UNCHANGED <<work, channel, readers, approving, mail>> /\ tab'.answer = tab.answer
        /\ tab'.approval.work = tab.approval.work
    BY <1>3 DEF Quietly, world
  <2> QED
    BY <1>1, <1>2, <2>1, SendingByLoss
<1>4. ASSUME NEW t, Begins(t) PROVE Sending'
  <2> DEFINE n == t.turn + 1
             r == [chat |-> t.chat, turn |-> n, held |-> Unheld]
  <2>1. /\ tab' = [t EXCEPT !.turn = n, !.answer = NoWork, !.wait = TRUE, !.running = TRUE, !.stopping = FALSE]
        /\ channel' = [channel EXCEPT ![tab.chat] = <<>>]
        /\ readers' = Append(readers, r)
        /\ UNCHANGED <<approving, mail, work>> /\ t \in Tabs /\ t.approval = tab.approval
    BY <1>4 DEF Begins, BeginTurn
  <2>2. r \in Readers /\ r.held = Unheld
    BY <1>4, <1>1 DEF Begins, Readers, Tabs
  <2> HIDE DEF r, n
  <2>3. tab'.answer = NoWork /\ tab'.approval = tab.approval
    BY <2>1 DEF Tabs
  <2>4. \A c \in Chats : channel'[c] \in {channel[c], <<>>}
    BY <1>1, <2>1
  <2>5. /\ Len(readers') = Len(readers) + 1 /\ readers' \in Seq(Readers)
        /\ \A i \in 1..Len(readers) : readers'[i] = readers[i]
        /\ readers'[Len(readers) + 1] = r
    BY <1>1, <2>1, <2>2, AppendIs
  <2>6. \A i \in DOMAIN readers' : readers'[i].held = Unheld
                                    \/ (i \in DOMAIN readers /\ readers'[i].held = readers[i].held)
    <3>1. ASSUME NEW i \in DOMAIN readers' PROVE i \in 1..Len(readers) \/ i = Len(readers) + 1
      BY <1>2, <2>5
    <3>2. \A i \in 1..Len(readers) : i \in DOMAIN readers /\ readers'[i].held = readers[i].held
      BY <1>1, <2>5
    <3>3. readers'[Len(readers) + 1].held = Unheld
      BY <2>2, <2>5
    <3>4. ASSUME NEW i \in DOMAIN readers'
          PROVE  readers'[i].held = Unheld \/ (i \in DOMAIN readers /\ readers'[i].held = readers[i].held)
      <4>1. CASE i = Len(readers) + 1
        BY <3>3, <4>1
      <4> QED
        BY <3>1, <3>2, <4>1
    <3> QED
      BY ONLY <3>4
  <2>7. Len(readers') >= Len(readers)
    BY <1>2, <2>5
  <2> QED
    BY <2>1, <2>3, <2>4, <2>6, <2>7, SendingByLoss
<1>5. CASE Interrupt
  <2>1. UNCHANGED <<work, channel, readers, approving, mail>> /\ tab'.answer = tab.answer
        /\ tab'.approval.work = tab.approval.work
    BY <1>1, <1>5 DEF Interrupt, Tabs
  <2> QED
    BY <1>1, <1>2, <2>1, SendingByLoss
<1>6. CASE ApproveDialog
  <2>1. UNCHANGED <<work, channel, readers, mail>> /\ tab'.answer = tab.approval.work
        /\ tab'.approval.work = tab.approval.work
        /\ approving' = approving \cup {[chat |-> tab.session, work |-> tab.approval.work, step |-> "save"]}
    BY <1>1, <1>6 DEF ApproveDialog, Tabs
  <2> QED
    BY <1>1, <1>2, <2>1, SendingByLoss
<1>7. CASE StartFreshSession
  <2>1. UNCHANGED <<work, readers, mail, approving>> /\ tab'.answer = NoWork
        /\ tab'.approval.work = NoWork
        /\ channel' = [channel EXCEPT ![tab.chat] = <<>>]
    BY <1>7 DEF StartFreshSession, FreshTab, NewChatTab, NoDialog
  <2>2. \A c \in Chats : channel'[c] \in {channel[c], <<>>}
    BY <1>1, <2>1
  <2> QED
    BY <1>1, <1>2, <2>1, <2>2, SendingByLoss
<1>8. ASSUME NEW m \in mail, DeliverDone(m) PROVE Sending'
  <2>1. UNCHANGED <<work, readers, approving>> /\ mail' = mail \ {m}
        /\ channel' = [channel EXCEPT ![tab.chat] = <<>>]
    BY <1>8 DEF DeliverDone
  <2>2. \A c \in Chats : channel'[c] \in {channel[c], <<>>}
    BY <1>1, <2>1
  <2>3. tab'.answer = tab.answer /\ tab'.approval.work = NoWork
    <3>1. tab' = [tab EXCEPT !.wait = FALSE, !.running = FALSE, !.stopping = FALSE,
                             !.approval = NoDialog, !.inFlight = FALSE]
      BY <1>8, MessageShapes
    <3>2. tab'.answer = tab.answer /\ tab'.approval = NoDialog
      BY <1>1, <3>1 DEF Tabs
    <3> QED
      BY <3>2 DEF NoDialog
  <2> QED
    BY <1>1, <1>2, <2>1, <2>2, <2>3, SendingByLoss
<1>9. ASSUME NEW m \in mail, DeliverAnswer(m) PROVE Sending'
  <2>1. UNCHANGED <<work, channel, readers, approving>> /\ mail' = mail \ {m}
    BY <1>9 DEF DeliverAnswer
  <2>2. tab'.answer \in {tab.answer, NoWork} /\ tab'.approval.work \in {tab.approval.work, NoWork}
    BY <1>1, <1>9 DEF DeliverAnswer, Tabs, NoDialog
  <2> QED
    BY <1>1, <1>2, <2>1, <2>2, SendingByLoss
<1>10. ASSUME NEW a \in approving, ApprovalFails(a) \/ GrantSaved(a) \/ ResumesTurn(a) PROVE Sending'
  <2>1. UNCHANGED <<tab, work, channel, readers>>
    BY <1>10 DEF ApprovalFails, GrantSaved, ResumesTurn
  <2>2. /\ \A b \in approving' : \E d \in approving : d.work = b.work
        /\ \A m \in mail' : m.type = "answer" => m \in mail \/ m.work = a.work
    <3>1. [a EXCEPT !.step = "resume"].work = a.work
      BY <1>1 DEF ChatTypeOK, Approvings
    <3>2. \A ok : [type |-> "answer", work |-> a.work, ok |-> ok].work = a.work
      OBVIOUS
    <3>3. CASE GrantSaved(a)
      BY <3>1, <3>3 DEF GrantSaved
    <3>4. CASE \E ok : Answers(a, ok)
      BY <3>2, <3>4 DEF Answers
    <3> QED
      BY <1>10, <3>3, <3>4 DEF ApprovalFails, ResumesTurn
  <2> QED
    BY <1>1, <1>2, <2>1, <2>2, SendingByLoss
<1> QED
  BY <1>3, <1>4, <1>5, <1>6, <1>7, <1>8, <1>9, <1>10

\* What an event that is applied does to the tab.
Dialogues(e) == Correlated(tab, e) /\ e.type = "approval" /\ e.call # NoCall

\* An approval event of the current turn opens its dialog; every other event leaves
\* the tab as it is.
LEMMA EventShapes ==
  ASSUME ChatInv, NEW i \in DOMAIN readers, DeliverEvent(i)
  PROVE  /\ readers[i].held \in Events
         /\ IF Dialogues(readers[i].held)
            THEN /\ tab' = [tab EXCEPT !.approval = tab'.approval]
                 /\ tab'.approval = [work |-> readers[i].held.work, dismissed |-> FALSE]
            ELSE tab' = tab
         /\ Sourced(shown', tab.chat)
<1> DEFINE e == readers[i].held
           b == [tab |-> tab, shown |-> shown]
           s == ApplyRuntimeEvent(b, e)
<1>1. ChatTypeOK /\ tab \in Tabs
  BY DEF ChatInv, ChatTypeOK
<1>2. e \in Events
  <2>1. readers[i] \in Readers
    BY <1>1 DEF ChatTypeOK
  <2> QED
    BY <2>1 DEF DeliverEvent, Readers
<1>3. tab' = s.tab /\ shown' = s.shown
  BY DEF DeliverEvent
<1>4. b \in Shows(tab) /\ b.tab = tab
  BY DeliveredIs
<1> HIDE DEF b, e
<1>5. /\ s \in Shows(tab)
      /\ ~ Dialogues(e) => s.tab = b.tab
      /\ Dialogues(e) => s.tab = WithApproval(b.tab, [work |-> e.work, dismissed |-> FALSE])
  BY <1>1, <1>2, <1>4, Applied DEF Dialogues
<1> HIDE DEF s
<1>6. Sourced(s.shown, tab.chat)
  BY <1>5, DeliveredIs
<1>7. CASE Dialogues(e)
  <2>1. tab' = [tab EXCEPT !.approval = [work |-> e.work, dismissed |-> FALSE]]
    BY <1>3, <1>4, <1>5, <1>7 DEF WithApproval
  <2>2. tab'.approval = [work |-> e.work, dismissed |-> FALSE]
    BY <1>1, <2>1 DEF Tabs
  <2> QED
    BY <1>2, <1>3, <1>6, <1>7, <2>1, <2>2 DEF e
<1> QED
  BY <1>2, <1>3, <1>4, <1>5, <1>6, <1>7 DEF e

\* A reader takes the oldest event of its channel.
LEMMA TakenMoves ==
  ASSUME ChatTypeOK, ChatTypeOK', NEW i \in DOMAIN readers, ReaderTakes(i)
  PROVE  \E f :
           /\ \A p : Approves(p)' => Approves(f[p]) /\ At(f[p]) = At(p)'
           /\ \A p, r : Approves(p)' /\ Approves(r)' /\ f[p] = f[r] => p = r
<1> DEFINE c == readers[i].chat
           ch == channel[c]
           f == [p \in Places' |-> IF p = <<0, i>> THEN <<c, 1>>
                                   ELSE IF p[1] = c THEN <<c, p[2] + 1>> ELSE p]
<1>1. c \in Chats /\ readers \in Seq(Readers) /\ ch \in Seq(Events) /\ channel \in [Chats -> Seq(Events)]
  <2>1. readers[i] \in Readers
    BY DEF ChatTypeOK
  <2>2. c \in Chats
    BY <2>1 DEF Readers
  <2> QED
    BY <2>2 DEF ChatTypeOK
<1>2. ch # <<>> /\ readers' = [readers EXCEPT ![i].held = Head(ch)] /\ channel' = [channel EXCEPT ![c] = Tail(ch)]
  BY DEF ReaderTakes
<1>o. PlacesAre
  BY PlaceIs
<1>p. /\ \A p : p \in Places' => \/ \E j \in DOMAIN readers' : p = <<0, j>>
                                 \/ \E d \in Chats : \E k \in DOMAIN channel'[d] : p = <<d, k>>
      /\ \A j \in DOMAIN readers' : <<0, j>> \in Places' /\ At(<<0, j>>)' = readers'[j].held
      /\ \A d \in Chats : \A k \in DOMAIN channel'[d] : <<d, k>> \in Places' /\ At(<<d, k>>)' = channel'[d][k]
      /\ \A d \in Chats : DOMAIN channel'[d] = 1..Len(channel'[d]) /\ Len(channel'[d]) \in Nat
  <2>1. PlacesAre'
    BY PlaceIs, PTL
  <2> QED
    BY <2>1 DEF PlacesAre
<1>3. /\ Len(Tail(ch)) = Len(ch) - 1 /\ Len(ch) > 0 /\ Len(ch) \in Nat
      /\ \A k \in 1..(Len(ch) - 1) : Tail(ch)[k] = ch[k + 1]
      /\ Head(ch) = ch[1]
  BY <1>1, <1>2, TailIs
<1>4. /\ DOMAIN readers' = DOMAIN readers /\ readers'[i].held = ch[1]
      /\ \A j \in DOMAIN readers : j # i => readers'[j] = readers[j]
      /\ channel'[c] = Tail(ch)
      /\ \A d \in Chats : d # c => channel'[d] = channel[d]
  <2>1. readers[i] \in Readers
    BY <1>1
  <2> QED
    BY <1>1, <1>2, <1>3, <2>1 DEF Readers
<1>5. /\ 1 \in DOMAIN channel[c]
      /\ \A k \in DOMAIN channel'[c] : k + 1 \in DOMAIN channel[c] /\ channel'[c][k] = channel[c][k + 1] /\ k # 0 /\ k \in Nat
  <2>1. \A k \in 1..(Len(ch) - 1) : k + 1 \in 1..Len(ch) /\ k # 0 /\ k \in Nat
    BY <1>3
  <2>2. DOMAIN channel[c] = 1..Len(ch) /\ DOMAIN channel'[c] = 1..(Len(ch) - 1) /\ 1 \in 1..Len(ch)
    BY <1>o, <1>p, <1>1, <1>3, <1>4 DEF PlacesAre
  <2> QED
    BY <1>3, <1>4, <2>1, <2>2
<1>6. c # 0 /\ \A d \in Chats : d # 0
  BY <1>o, <1>1 DEF PlacesAre
<1> HIDE DEF c, ch
<1>7. /\ f[<<0, i>>] = <<c, 1>>
      /\ \A j \in DOMAIN readers : j # i => f[<<0, j>>] = <<0, j>>
      /\ \A k \in DOMAIN channel'[c] : f[<<c, k>>] = <<c, k + 1>>
      /\ \A d \in Chats : d # c => \A k \in DOMAIN channel'[d] : f[<<d, k>>] = <<d, k>>
  <2>1. \A j \in DOMAIN readers : j # i => <<0, j>> # <<0, i>> /\ <<0, j>>[1] # c
    BY <1>6
  <2>2. \A d \in Chats : \A k : <<d, k>> # <<0, i>> /\ <<d, k>>[1] = d /\ <<d, k>>[2] = k
    BY <1>6
  <2> QED
    BY <1>p, <1>1, <1>4, <2>1, <2>2
<1> HIDE DEF f
<1>8. ASSUME NEW p \in Places'
      PROVE  \/ p = <<0, i>>
             \/ \E j \in DOMAIN readers : j # i /\ p = <<0, j>>
             \/ \E k \in DOMAIN channel'[c] : p = <<c, k>>
             \/ \E d \in Chats : d # c /\ \E k \in DOMAIN channel'[d] : p = <<d, k>>
  <2>1. CASE \E j \in DOMAIN readers' : p = <<0, j>>
    BY <1>4, <2>1
  <2>2. CASE \E d \in Chats : \E k \in DOMAIN channel'[d] : p = <<d, k>>
    <3>1. PICK d \in Chats : \E k \in DOMAIN channel'[d] : p = <<d, k>>
      BY <2>2
    <3>2. CASE d = c
      BY <3>1, <3>2
    <3> QED
      BY <3>1, <3>2
  <2> QED
    BY <1>p, <2>1, <2>2
<1>9. ASSUME NEW p, Approves(p)' PROVE Approves(f[p]) /\ At(f[p]) = At(p)'
  <2>1. p \in Places' /\ (At(p)').type = "approval"
    BY <1>9 DEF Approves
  <2>2. f[p] \in Places /\ At(f[p]) = At(p)'
    <3>1. CASE p = <<0, i>>
      <4>1. At(p)' = ch[1] /\ f[p] = <<c, 1>>
        BY <1>p, <1>4, <1>7, <3>1
      <4> QED
        BY <1>o, <1>1, <1>5, <4>1 DEF PlacesAre, ch
    <3>2. ASSUME NEW j \in DOMAIN readers, j # i, p = <<0, j>> PROVE f[p] \in Places /\ At(f[p]) = At(p)'
      <4>1. At(p)' = readers[j].held /\ f[p] = p
        BY <1>p, <1>4, <1>7, <3>2
      <4> QED
        BY <1>o, <3>2, <4>1 DEF PlacesAre
    <3>3. ASSUME NEW k \in DOMAIN channel'[c], p = <<c, k>> PROVE f[p] \in Places /\ At(f[p]) = At(p)'
      <4>1. At(p)' = channel[c][k + 1] /\ k + 1 \in DOMAIN channel[c] /\ f[p] = <<c, k + 1>>
        BY <1>p, <1>1, <1>5, <1>7, <3>3
      <4> QED
        BY <1>o, <1>1, <4>1 DEF PlacesAre
    <3>4. ASSUME NEW d \in Chats, d # c, NEW k \in DOMAIN channel'[d], p = <<d, k>>
          PROVE  f[p] \in Places /\ At(f[p]) = At(p)'
      <4>1. At(p)' = channel[d][k] /\ f[p] = p /\ k \in DOMAIN channel[d]
        <5>1. channel'[d] = channel[d]
          BY <1>4, <3>4
        <5>2. At(p)' = channel'[d][k]
          BY <1>p, <3>4
        <5> QED
          BY <1>7, <3>4, <5>1, <5>2
      <4> QED
        BY <1>o, <3>4, <4>1 DEF PlacesAre
    <3> QED
      BY <1>8, <2>1, <3>1, <3>2, <3>3, <3>4
  <2> QED
    BY <2>1, <2>2 DEF Approves
<1>10. ASSUME NEW p \in Places', NEW r \in Places', f[p] = f[r] PROVE p = r
  <2>1. CASE p = <<0, i>>
    BY <1>5, <1>6, <1>7, <1>8, <1>10, <2>1
  <2>2. ASSUME NEW j \in DOMAIN readers, j # i, p = <<0, j>> PROVE p = r
    BY <1>5, <1>6, <1>7, <1>8, <1>10, <2>2
  <2>3. ASSUME NEW k \in DOMAIN channel'[c], p = <<c, k>> PROVE p = r
    <3>1. f[p] = <<c, k + 1>> /\ k + 1 # 1
      BY <1>5, <1>7, <2>3
    <3>2. ASSUME NEW l \in DOMAIN channel'[c], r = <<c, l>> PROVE p = r
      <4>2. f[r] = <<c, l + 1>>
        BY <1>7, <3>2
      <4>3. <<c, k + 1>> = <<c, l + 1>>
        BY <1>10, <3>1, <4>2
      <4>4. k \in Nat /\ l \in Nat
        BY <1>5
      <4>1. k = l
        BY ONLY <4>3, <4>4
      <4> QED
        BY <2>3, <3>2, <4>1
    <3>6. \A x, y, u, v : <<x, y>> = <<u, v>> => x = u /\ y = v
      OBVIOUS
    <3>3. CASE r = <<0, i>>
      <4>1. f[r] = <<c, 1>>
        BY <1>7, <3>3
      <4>2. <<c, k + 1>> = <<c, 1>>
        BY <1>10, <3>1, <4>1
      <4> QED
        BY ONLY <3>1, <3>6, <4>2
    <3>4. ASSUME NEW j \in DOMAIN readers, j # i, r = <<0, j>> PROVE p = r
      <4>1. <<c, k + 1>> = <<0, j>>
        BY <1>7, <1>10, <3>1, <3>4
      <4> QED
        BY ONLY <1>6, <3>6, <4>1
    <3>5. ASSUME NEW d \in Chats, d # c, NEW l \in DOMAIN channel'[d], r = <<d, l>> PROVE p = r
      <4>1. <<c, k + 1>> = <<d, l>>
        BY <1>7, <1>10, <3>1, <3>5
      <4> QED
        BY ONLY <3>5, <3>6, <4>1
    <3> QED
      BY <1>8, <3>2, <3>3, <3>4, <3>5
  <2>4. ASSUME NEW d \in Chats, d # c, NEW k \in DOMAIN channel'[d], p = <<d, k>> PROVE p = r
    BY <1>5, <1>6, <1>7, <1>8, <1>10, <2>4
  <2> QED
    BY <1>8, <2>1, <2>2, <2>3, <2>4
<1> QED
  BY <1>9, <1>10 DEF Approves

\* A reader that goes, or waits again, leaves the other events.
LEMMA HandOpens ==
  ASSUME ChatTypeOK, ChatTypeOK', NEW i \in DOMAIN readers, UNCHANGED channel,
         \/ readers' = RemoveAt(readers, i)
         \/ /\ DOMAIN readers' = DOMAIN readers /\ readers'[i].held = Unheld
            /\ \A j \in DOMAIN readers : j # i => readers'[j] = readers[j]
  PROVE  \E f :
           /\ \A p : Approves(p)' => Approves(f[p]) /\ At(f[p]) = At(p)' /\ f[p] # <<0, i>>
           /\ \A p, r : Approves(p)' /\ Approves(r)' /\ f[p] = f[r] => p = r
<1>1. readers \in Seq(Readers)
  BY DEF ChatTypeOK
<1>o. PlacesAre
  BY PlaceIs
<1>p. /\ \A p : p \in Places' => \/ \E j \in DOMAIN readers' : p = <<0, j>>
                                 \/ \E d \in Chats : \E k \in DOMAIN channel[d] : p = <<d, k>>
      /\ \A j \in DOMAIN readers' : <<0, j>> \in Places' /\ At(<<0, j>>)' = readers'[j].held
      /\ \A d \in Chats : \A k \in DOMAIN channel[d] : <<d, k>> \in Places' /\ At(<<d, k>>)' = channel[d][k]
      /\ DOMAIN readers' = 1..Len(readers') /\ Len(readers') \in Nat
  <2>1. PlacesAre'
    BY PlaceIs, PTL
  <2> QED
    BY <2>1 DEF PlacesAre
<1>2. PICK h : /\ \A j \in DOMAIN readers' : readers'[j].held # Unheld =>
                    h[j] \in DOMAIN readers /\ readers'[j] = readers[h[j]] /\ h[j] # i
               /\ \A j, k \in DOMAIN readers' : h[j] = h[k] => j = k
  <2>1. CASE readers' = RemoveAt(readers, i)
    <3> DEFINE h == [j \in DOMAIN readers' |-> IF j < i THEN j ELSE j + 1]
    <3>1. /\ Len(readers') = Len(readers) - 1 /\ readers' \in Seq(Readers)
          /\ \A k \in 1..(Len(readers) - 1) : readers'[k] = readers[IF k < i THEN k ELSE k + 1]
      BY <1>1, <2>1, RemoveAtIs
    <3>2. i \in 1..Len(readers) /\ Len(readers) \in Nat /\ DOMAIN readers = 1..Len(readers)
      BY <1>1
    <3>3. DOMAIN readers' = 1..(Len(readers) - 1)
      BY <3>1, <3>2
    <3>4. \A j \in DOMAIN readers' : h[j] \in DOMAIN readers /\ readers'[j] = readers[h[j]] /\ h[j] # i
      BY <3>1, <3>2, <3>3
    <3>5. \A j, k \in DOMAIN readers' : h[j] = h[k] => j = k
      <4>1. \A j, k \in Nat : (IF j < i THEN j ELSE j + 1) = (IF k < i THEN k ELSE k + 1) => j = k
        BY <3>2
      <4>3. \A j \in DOMAIN readers' : h[j] = IF j < i THEN j ELSE j + 1
        OBVIOUS
      <4>4. \A j \in DOMAIN readers' : j \in Nat
        BY <3>3
      <4>2. \A j \in DOMAIN readers' : j \in Nat /\ (h[j] = IF j < i THEN j ELSE j + 1)
        BY <4>3, <4>4
      <4> HIDE DEF h
      <4> QED
        BY ONLY <4>1, <4>2
    <3> QED
      BY <3>4, <3>5
  <2>2. CASE /\ DOMAIN readers' = DOMAIN readers /\ readers'[i].held = Unheld
             /\ \A j \in DOMAIN readers : j # i => readers'[j] = readers[j]
    <3> DEFINE h == [j \in DOMAIN readers' |-> j]
    <3>1. \A j \in DOMAIN readers' : readers'[j].held # Unheld =>
            h[j] \in DOMAIN readers /\ readers'[j] = readers[h[j]] /\ h[j] # i
      BY <2>2
    <3> QED
      BY <3>1
  <2> QED
    BY <2>1, <2>2
<1> DEFINE f == [p \in Places' |-> IF p[1] = 0 THEN <<0, h[p[2]]>> ELSE p]
<1>3. \A x, y, u, v : <<x, y>> = <<u, v>> => x = u /\ y = v
  OBVIOUS
<1>4. /\ \A j \in DOMAIN readers' : f[<<0, j>>] = <<0, h[j]>>
      /\ \A d \in Chats : \A k \in DOMAIN channel[d] : f[<<d, k>>] = <<d, k>>
  BY <1>o, <1>p DEF PlacesAre
<1> HIDE DEF f
<1>5. ASSUME NEW p, Approves(p)' PROVE Approves(f[p]) /\ At(f[p]) = At(p)' /\ f[p] # <<0, i>>
  <2>1. p \in Places' /\ (At(p)').type = "approval"
    BY <1>5 DEF Approves
  <2>2. f[p] \in Places /\ At(f[p]) = At(p)' /\ f[p] # <<0, i>>
    <3>1. ASSUME NEW j \in DOMAIN readers', p = <<0, j>>
          PROVE  f[p] \in Places /\ At(f[p]) = At(p)' /\ f[p] # <<0, i>>
      <4>1. At(p)' = readers'[j].held /\ f[p] = <<0, h[j]>>
        BY <1>p, <1>4, <3>1
      <4>2. readers'[j].held # Unheld
        BY <2>1, <4>1 DEF Unheld
      <4>3. h[j] \in DOMAIN readers /\ readers'[j] = readers[h[j]] /\ h[j] # i
        BY <1>2, <4>2
      <4> QED
        BY <1>o, <1>3, <4>1, <4>3 DEF PlacesAre
    <3>2. ASSUME NEW d \in Chats, NEW k \in DOMAIN channel[d], p = <<d, k>>
          PROVE  f[p] \in Places /\ At(f[p]) = At(p)' /\ f[p] # <<0, i>>
      <4>1. At(p)' = channel[d][k] /\ f[p] = <<d, k>> /\ d # 0
        BY <1>o, <1>p, <1>4, <3>2 DEF PlacesAre
      <4> QED
        BY <1>o, <1>3, <4>1 DEF PlacesAre
    <3> QED
      BY <1>p, <2>1, <3>1, <3>2
  <2> QED
    BY <2>1, <2>2 DEF Approves
<1>6. ASSUME NEW p \in Places', NEW r \in Places', f[p] = f[r] PROVE p = r
  <2>1. ASSUME NEW j \in DOMAIN readers', p = <<0, j>> PROVE p = r
    <3>1. ASSUME NEW k \in DOMAIN readers', r = <<0, k>> PROVE p = r
      <4>1. <<0, h[j]>> = <<0, h[k]>>
        BY <1>4, <1>6, <2>1, <3>1
      <4>2. h[j] = h[k]
        BY ONLY <1>3, <4>1
      <4> QED
        BY <1>2, <2>1, <3>1, <4>2
    <3>2. ASSUME NEW d \in Chats, NEW k \in DOMAIN channel[d], r = <<d, k>> PROVE p = r
      <4>1. <<0, h[j]>> = <<d, k>> /\ d # 0
        BY <1>o, <1>4, <1>6, <2>1, <3>2 DEF PlacesAre
      <4> QED
        BY ONLY <1>3, <4>1
    <3> QED
      BY <1>p, <3>1, <3>2
  <2>2. ASSUME NEW d \in Chats, NEW k \in DOMAIN channel[d], p = <<d, k>> PROVE p = r
    <3>1. ASSUME NEW j \in DOMAIN readers', r = <<0, j>> PROVE p = r
      <4>1. <<0, h[j]>> = <<d, k>> /\ d # 0
        BY <1>o, <1>4, <1>6, <2>2, <3>1 DEF PlacesAre
      <4> QED
        BY ONLY <1>3, <4>1
    <3>2. ASSUME NEW b \in Chats, NEW l \in DOMAIN channel[b], r = <<b, l>> PROVE p = r
      BY <1>4, <1>6, <2>2, <3>2
    <3> QED
      BY <1>p, <3>1, <3>2
  <2> QED
    BY <1>p, <2>1, <2>2
<1> QED
  BY <1>5, <1>6 DEF Approves

\* A reader moves an event; the dialog an event opens is of an approval no other
\* event is of.
LEMMA SendingByReaders ==
  ASSUME ChatInv, ChatTypeOK', NEW i \in DOMAIN readers, ReaderTakes(i) \/ ReaderStops(i) \/ DeliverEvent(i)
  PROVE  Sending'
<1>1. ChatTypeOK /\ tab \in Tabs /\ readers \in Seq(Readers) /\ UNCHANGED <<work, approving, mail>>
  BY DEF ChatInv, ChatTypeOK, ReaderTakes, ReaderStops, DeliverEvent
<1>2. \A w \in DOMAIN work : w \in DOMAIN work' /\ work'[w] = work[w]
  BY <1>1
<1> DEFINE q == <<0, 0>>
<1>q. ~ Approves(q)'
  <2>1. q \notin Places'
    <3>1. PlacesAre'
      BY PlaceIs, PTL
    <3>2. \A p : p \in Places' => \/ \E j \in DOMAIN readers' : p = <<0, j>>
                                  \/ \E c \in Chats : \E k \in DOMAIN channel'[c] : p = <<c, k>>
      BY <3>1 DEF PlacesAre
    <3>3. 0 \notin DOMAIN readers' /\ 0 \notin Chats
      BY <3>1, ChatAssumption DEF PlacesAre, Chats
    <3> QED
      BY <3>2, <3>3
  <2> QED
    BY <2>1 DEF Approves
<1> HIDE DEF q
<1>3. ASSUME NEW f,
             \A p : Approves(p)' => Approves(f[p]) /\ At(f[p]) = At(p)',
             \A p, r : Approves(p)' /\ Approves(r)' /\ f[p] = f[r] => p = r,
             \A w : Sent(w) /\ Sent(w)' /\ Unseen(w) => Unseen(w)'
      PROVE  Sending'
  BY ONLY ChatInv, <1>2, <1>3, <1>q, Carried
<1>4. ASSUME UNCHANGED tab PROVE \A w : Sent(w) /\ Sent(w)' /\ Unseen(w) => Unseen(w)'
  BY <1>1, <1>4 DEF Unseen
<1>5. CASE ReaderTakes(i)
  <2>1. PICK f :
           /\ \A p : Approves(p)' => Approves(f[p]) /\ At(f[p]) = At(p)'
           /\ \A p, r : Approves(p)' /\ Approves(r)' /\ f[p] = f[r] => p = r
    BY ONLY ChatTypeOK', <1>1, <1>5, TakenMoves
  <2>2. UNCHANGED tab
    BY <1>5 DEF ReaderTakes
  <2> QED
    BY <1>3, <1>4, <2>1, <2>2
<1>6. CASE ReaderStops(i)
  <2>1. UNCHANGED tab /\ UNCHANGED channel /\ readers' = RemoveAt(readers, i)
    BY <1>6 DEF ReaderStops
  <2>2. PICK f :
           /\ \A p : Approves(p)' => Approves(f[p]) /\ At(f[p]) = At(p)' /\ f[p] # <<0, i>>
           /\ \A p, r : Approves(p)' /\ Approves(r)' /\ f[p] = f[r] => p = r
    BY ONLY ChatTypeOK', <1>1, <2>1, HandOpens
  <2> QED
    BY <1>3, <1>4, <2>1, <2>2
<1>7. CASE DeliverEvent(i)
  <2> DEFINE e == readers[i].held
  <2>1. /\ UNCHANGED channel
        /\ \/ readers' = RemoveAt(readers, i)
           \/ /\ DOMAIN readers' = DOMAIN readers /\ readers'[i].held = Unheld
              /\ \A j \in DOMAIN readers : j # i => readers'[j] = readers[j]
    BY <1>1, <1>7 DEF DeliverEvent
  <2>2. PICK f :
           /\ \A p : Approves(p)' => Approves(f[p]) /\ At(f[p]) = At(p)' /\ f[p] # <<0, i>>
           /\ \A p, r : Approves(p)' /\ Approves(r)' /\ f[p] = f[r] => p = r
    BY ONLY ChatTypeOK', <1>1, <2>1, HandOpens
  <2>3. ASSUME NEW w, Sent(w), Sent(w)', Unseen(w) PROVE Unseen(w)'
    <3>1. CASE Dialogues(e)
      <4>0. /\ tab' = [tab EXCEPT !.approval = tab'.approval]
            /\ tab'.approval = [work |-> readers[i].held.work, dismissed |-> FALSE]
        BY <1>7, <3>1, EventShapes
      <4>1. tab' = [tab EXCEPT !.approval = tab'.approval] /\ tab'.approval.work = e.work
        BY <4>0
      <4>2. tab'.answer = tab.answer
        BY <1>1, <4>1 DEF Tabs
      <4>3. <<0, i>> \in Places /\ At(<<0, i>>) = e
        BY <1>1, PlaceIs DEF PlacesAre
      <4>4. Approves(<<0, i>>) /\ At(<<0, i>>).work = e.work
        BY <3>1, <4>3 DEF Approves, Dialogues
      <4>5. PICK p : Approves(p)' /\ (At(p)').work = w
        BY <2>3 DEF Sent, Approves
      <4>6. Approves(f[p]) /\ At(f[p]).work = w /\ f[p] # <<0, i>>
        BY <2>2, <4>5
      <4>7. w # e.work
        BY <4>4, <4>6 DEF ChatInv, Sending, Approves
      <4> QED
        BY <1>1, <2>3, <4>1, <4>2, <4>7 DEF Unseen
    <3>2. CASE ~ Dialogues(e)
      <4>1. UNCHANGED tab
        BY <1>7, <3>2, EventShapes
      <4> QED
        BY <1>4, <2>3, <4>1
    <3> QED
      BY <3>1, <3>2
  <2> QED
    BY <1>3, <2>2, <2>3
<1> QED
  BY <1>5, <1>6, <1>7

\* The approval events after every step.
LEMMA SendingKept ==
  ASSUME ChatInv, ChatNext, ChatTypeOK'
  PROVE  Sending'
  BY ChatCases, SendingByTurns, SendingByTab, SendingByReaders

-----------------------------------------------------------------------------
(* Chat: what was answered. *)

\* An approval is numbered from one, and a granted one was asked.
LEMMA AnsweredWorks ==
  ASSUME ChatInv
  PROVE  /\ NoWork \notin DOMAIN work
         /\ \A m \in mail : Granted(m) => m.work \in DOMAIN work /\ m.work # NoWork
<1>1. NoWork \notin DOMAIN work
  BY DEF ChatInv, ChatTypeOK, NoWork
<1> QED
  BY <1>1 DEF ChatInv, Answered, Granted

\* What keeps the turn, and answers nothing that was not shown.
LEMMA AnsweredStays ==
  ASSUME ChatInv,
         \A w \in DOMAIN work : w \in DOMAIN work' /\ work'[w] = work[w],
         tab'.chat = tab.chat, tab'.turn = tab.turn,
         tab'.running = tab.running \/ tab'.approval.work = NoWork,
         tab'.approval.work \in {tab.approval.work, NoWork},
         tab'.answer \in {tab.answer, tab.approval.work, NoWork},
         \A a \in approving' : a.work \in DOMAIN work,
         \A m \in mail' : \/ m \in mail
                          \/ ~ Granted(m) /\ (m.type = "answer" => m.work \in DOMAIN work),
         \A c \in Chats : talk'[c].at = "waiting" =>
           /\ talk[c].at = "waiting" /\ talk'[c].work = talk[c].work /\ talk'[c].turn = talk[c].turn
           /\ talk'[c].signal = talk[c].signal
  PROVE  Answered'
<1>1. Answered /\ NoWork \notin DOMAIN work
  BY AnsweredWorks DEF ChatInv
<1>2. \A w \in DOMAIN work : Current(w) => Current(w)'
  BY DEF Current
<1>3. tab'.approval.work # NoWork =>
        tab'.approval.work \in DOMAIN work' /\ work'[tab'.approval.work].chat = tab'.chat /\ tab'.turn > 0
  BY <1>1 DEF Answered
<1>4. tab'.answer # NoWork => tab'.answer \in DOMAIN work'
  BY <1>1 DEF Answered
<1>5. /\ \A a \in approving' : a.work \in DOMAIN work'
      /\ \A m \in mail' : m.type = "answer" => m.work \in DOMAIN work'
  BY <1>1 DEF Answered
<1>6. \A c \in Chats : talk'[c].at = "waiting" =>
        /\ talk'[c].work \in DOMAIN work'
        /\ work'[talk'[c].work].chat = c /\ work'[talk'[c].work].turn = talk'[c].turn
  BY <1>1 DEF Answered
<1>7. ASSUME NEW m \in mail', Granted(m)
      PROVE  /\ m.work = tab'.approval.work => tab'.running /\ Current(m.work)'
             /\ m.work = tab'.answer => Current(m.work)'
             /\ \A c \in Chats : ~ (talk'[c].at = "waiting" /\ talk'[c].work = m.work /\ ~talk'[c].signal)
  <2>1. m \in mail /\ m.work \in DOMAIN work /\ m.work # NoWork
    BY <1>7, AnsweredWorks
  <2>2. m.work = tab'.approval.work => tab'.running /\ Current(m.work)'
    BY <1>1, <1>2, <1>7, <2>1 DEF Answered
  <2>3. m.work = tab'.answer => Current(m.work)'
    BY <1>1, <1>2, <1>7, <2>1 DEF Answered
  <2>4. \A c \in Chats : ~ (talk'[c].at = "waiting" /\ talk'[c].work = m.work /\ ~talk'[c].signal)
    BY <1>1, <1>7, <2>1 DEF Answered
  <2> QED
    BY <2>2, <2>3, <2>4
<1> QED
  BY <1>3, <1>4, <1>5, <1>6, <1>7 DEF Answered, Granted

\* A turn that goes on leaves the answers alone; the approval it asks for is new.
LEMMA AnsweredByTurns ==
  ASSUME ChatInv, NEW c \in Chats, TurnFrame(c), Asking(c) \/ Working(c)
  PROVE  Answered'
<1>1. /\ ChatTypeOK /\ Answered /\ tab' = tab /\ approving' = approving
      /\ talk'[c].turn = talk[c].turn /\ \A d \in Chats : d # c => talk'[d] = talk[d]
  BY DEF ChatInv, TurnFrame
<1>2. CASE Working(c)
  <2>1. work' = work /\ talk'[c].at # "waiting" /\ \A m \in mail' : m \in mail \/ m.type = "done"
    BY <1>2 DEF Working
  <2>2. \A m \in mail' : m \in mail \/ (~ Granted(m) /\ (m.type = "answer" => m.work \in DOMAIN work))
    BY <2>1 DEF Granted
  <2>3. \A d \in Chats : talk'[d].at = "waiting" =>
           /\ talk[d].at = "waiting" /\ talk'[d].work = talk[d].work /\ talk'[d].turn = talk[d].turn
           /\ talk'[d].signal = talk[d].signal
    BY <1>1, <2>1
  <2>4. \A a \in approving' : a.work \in DOMAIN work
    BY <1>1 DEF Answered
  <2> QED
    BY <1>1, <2>1, <2>2, <2>3, <2>4, AnsweredStays
<1>3. CASE Asking(c)
  <2>1. PICK x \in Nat : work' = Append(work, [chat |-> c, turn |-> talk[c].turn, call |-> x])
    BY <1>3 DEF Asking, Events
  <2>2. mail' = mail /\ talk'[c].work = Len(work) + 1
    BY <1>3 DEF Asking
  <2>3. /\ DOMAIN work = 1..Len(work) /\ Len(work) \in Nat
        /\ DOMAIN work' = 1..(Len(work) + 1)
        /\ \A w \in DOMAIN work : work'[w] = work[w]
        /\ work'[Len(work) + 1].chat = c /\ work'[Len(work) + 1].turn = talk[c].turn
    <3> DEFINE r == [chat |-> c, turn |-> talk[c].turn, call |-> x]
    <3>1. r \in AskedWorks /\ work \in Seq(AskedWorks) /\ r.chat = c /\ r.turn = talk[c].turn
      BY <1>1, TalkIs DEF ChatTypeOK, AskedWorks
    <3>2. work' = Append(work, r)
      BY <2>1
    <3> HIDE DEF r
    <3>3. /\ Append(work, r) \in Seq(AskedWorks) /\ Len(Append(work, r)) = Len(work) + 1
          /\ \A k \in 1..Len(work) : Append(work, r)[k] = work[k]
          /\ Append(work, r)[Len(work) + 1] = r
      BY <3>1, AppendIs
    <3>4. DOMAIN Append(work, r) = 1..Len(Append(work, r)) /\ DOMAIN work = 1..Len(work) /\ Len(work) \in Nat
      BY <3>1, <3>3
    <3> QED
      BY <3>1, <3>2, <3>3, <3>4
  <2>4. /\ \A w \in DOMAIN work : w \in DOMAIN work' /\ work'[w] = work[w] /\ w # Len(work) + 1
        /\ Len(work) + 1 \in DOMAIN work'
    BY <2>3
  <2>5. \A w \in DOMAIN work : Current(w) => Current(w)'
    BY <1>1, <2>4 DEF Current
  <2>6. /\ tab'.approval.work # NoWork =>
             tab'.approval.work \in DOMAIN work' /\ work'[tab'.approval.work].chat = tab'.chat /\ tab'.turn > 0
        /\ tab'.answer # NoWork => tab'.answer \in DOMAIN work'
        /\ \A a \in approving' : a.work \in DOMAIN work'
        /\ \A m \in mail' : m.type = "answer" => m.work \in DOMAIN work'
    BY <1>1, <2>2, <2>4 DEF Answered
  <2>7. \A d \in Chats : talk'[d].at = "waiting" =>
        /\ talk'[d].work \in DOMAIN work'
        /\ work'[talk'[d].work].chat = d /\ work'[talk'[d].work].turn = talk'[d].turn
    BY <1>1, <2>2, <2>3, <2>4 DEF Answered
  <2>8. ASSUME NEW m \in mail', Granted(m)
        PROVE  /\ m.work = tab'.approval.work => tab'.running /\ Current(m.work)'
               /\ m.work = tab'.answer => Current(m.work)'
               /\ \A d \in Chats : ~ (talk'[d].at = "waiting" /\ talk'[d].work = m.work /\ ~talk'[d].signal)
    <3>1. m \in mail /\ m.work \in DOMAIN work
      BY <2>2, <2>8, AnsweredWorks
    <3> QED
      BY <1>1, <2>2, <2>4, <2>5, <2>8, <3>1 DEF Answered
  <2> QED
    BY <2>6, <2>7, <2>8 DEF Answered, Granted
<1> QED
  BY <1>2, <1>3

\* A turn begins, or a session, only after the granted approvals of the last one were
\* answered or dropped.
LEMMA AnsweredByTab ==
  ASSUME ChatInv,
         \/ Quietly \/ (\E t : Begins(t))
         \/ Interrupt \/ ApproveDialog \/ StartFreshSession
         \/ \E m \in mail : DeliverDone(m) \/ DeliverAnswer(m)
  PROVE  Answered'
<1>1. ChatTypeOK /\ Answered /\ Turning /\ tab \in Tabs /\ tab.chat \in Chats /\ talk \in [Chats -> Turns]
  BY DEF ChatInv, ChatTypeOK, Tabs
<1>2. \A a \in approving : a.work \in DOMAIN work
  BY <1>1 DEF Answered
<1>3. CASE Quietly
  <2>1. /\ UNCHANGED <<work, talk, approving, mail>> /\ tab'.answer = tab.answer
        /\ tab'.approval.work = tab.approval.work
        /\ tab'.chat = tab.chat /\ tab'.turn = tab.turn /\ tab'.running = tab.running
    BY <1>3 DEF Quietly, world
  <2> QED
    BY <1>2, <2>1, AnsweredStays
<1>4. ASSUME NEW t, Begins(t) PROVE Answered'
  <2>0. PICK n \in Nat : n = t.turn + 1 /\ n > 0
    BY <1>4 DEF Begins, Tabs
  <2>1. /\ tab' = [t EXCEPT !.turn = n, !.answer = NoWork, !.wait = TRUE, !.running = TRUE, !.stopping = FALSE]
        /\ talk' = [talk EXCEPT ![tab.chat] = [Quiescent EXCEPT !.at = "begin", !.turn = n]]
        /\ UNCHANGED <<approving, mail, work>> /\ t \in Tabs /\ t.approval = tab.approval /\ t.chat = tab.chat
        /\ ~tab.running
    BY <1>4, <2>0 DEF Begins, BeginTurn
  <2>2. tab'.answer = NoWork /\ tab'.approval = tab.approval /\ tab'.chat = tab.chat /\ tab'.turn = n
    BY <2>1 DEF Tabs
  <2>3. \A c \in Chats : talk'[c].at # "waiting"
    <3>1. \A c \in Chats : talk[c].at = "idle"
      BY <2>1, AllIdle
    <3> QED
      BY <1>1, <2>1, <3>1 DEF Quiescent
  <2>4. \A m \in mail : Granted(m) => m.work # tab.approval.work /\ m.work # NoWork
    BY <1>1, <2>1, AnsweredWorks DEF Answered
  <2> QED
    BY <1>1, <2>0, <2>1, <2>2, <2>3, <2>4 DEF Answered
<1>5. CASE Interrupt
  <2>1. UNCHANGED <<work, approving, mail>> /\ tab'.answer = tab.answer
        /\ tab'.approval.work = tab.approval.work
        /\ tab'.chat = tab.chat /\ tab'.turn = tab.turn /\ tab'.running = tab.running
    BY <1>1, <1>5 DEF Interrupt, Tabs
  <2>2. \A c \in Chats : /\ talk'[c].at = talk[c].at /\ talk'[c].work = talk[c].work
                         /\ talk'[c].turn = talk[c].turn /\ talk'[c].signal = talk[c].signal
    BY <1>1, <1>5 DEF Interrupt, Turns
  <2> QED
    BY <1>2, <2>1, <2>2, AnsweredStays
<1>6. CASE ApproveDialog
  <2>1. UNCHANGED <<work, mail, talk>> /\ tab'.answer = tab.approval.work
        /\ tab'.approval.work = tab.approval.work
        /\ tab'.chat = tab.chat /\ tab'.turn = tab.turn /\ tab'.running = tab.running
        /\ approving' = approving \cup {[chat |-> tab.session, work |-> tab.approval.work, step |-> "save"]}
        /\ tab.approval.work # NoWork
    BY <1>1, <1>6 DEF ApproveDialog, Tabs, DialogOpen
  <2>2. tab.approval.work \in DOMAIN work
    BY <1>1, <2>1 DEF Answered
  <2>3. \A a \in approving' : a.work \in DOMAIN work
    BY <1>2, <2>1, <2>2
  <2> QED
    BY <2>1, <2>3, AnsweredStays
<1>7. CASE StartFreshSession
  <2>1. UNCHANGED <<work, mail, approving>> /\ tab'.answer = NoWork
        /\ tab'.approval.work = NoWork
        /\ talk' = [talk EXCEPT ![tab.chat].closed = tab.session # 0]
    BY <1>7 DEF StartFreshSession, FreshTab, NewChatTab, NoDialog
  <2>2. \A c \in Chats : talk'[c].at # "waiting"
    <3>1. \A c \in Chats : talk[c].at = "idle"
      BY <1>7, AllIdle DEF StartFreshSession, Sends
    <3> QED
      BY <1>1, <2>1, <3>1 DEF Turns
  <2>3. \A m \in mail : Granted(m) => m.work # NoWork
    BY AnsweredWorks
  <2> QED
    BY <1>1, <2>1, <2>2, <2>3 DEF Answered
<1>8. ASSUME NEW m \in mail, DeliverDone(m) PROVE Answered'
  <2>1. UNCHANGED <<work, talk, approving>> /\ mail' = mail \ {m}
    BY <1>8 DEF DeliverDone
  <2>2. /\ tab'.answer = tab.answer /\ tab'.approval.work = NoWork
        /\ tab'.chat = tab.chat /\ tab'.turn = tab.turn
    <3>1. tab' = [tab EXCEPT !.wait = FALSE, !.running = FALSE, !.stopping = FALSE,
                             !.approval = NoDialog, !.inFlight = FALSE]
      BY <1>8, MessageShapes
    <3>2. tab'.answer = tab.answer /\ tab'.approval = NoDialog /\ tab'.chat = tab.chat /\ tab'.turn = tab.turn
      BY <1>1, <3>1 DEF Tabs
    <3> QED
      BY <3>2 DEF NoDialog
  <2> QED
    BY <1>2, <2>1, <2>2, AnsweredStays
<1>9. ASSUME NEW m \in mail, DeliverAnswer(m) PROVE Answered'
  <2>1. UNCHANGED <<work, talk, approving>> /\ mail' = mail \ {m}
    BY <1>9 DEF DeliverAnswer
  <2>2. /\ tab'.answer \in {tab.answer, NoWork} /\ tab'.approval.work \in {tab.approval.work, NoWork}
        /\ tab'.chat = tab.chat /\ tab'.turn = tab.turn /\ tab'.running = tab.running
    BY <1>1, <1>9 DEF DeliverAnswer, Tabs, NoDialog
  <2> QED
    BY <1>2, <2>1, <2>2, AnsweredStays
<1> QED
  BY <1>3, <1>4, <1>5, <1>6, <1>7, <1>8, <1>9

\* The dialog an event opens is of an approval that nobody has granted.
LEMMA AnsweredByReaders ==
  ASSUME ChatInv, NEW i \in DOMAIN readers, ReaderTakes(i) \/ ReaderStops(i) \/ DeliverEvent(i)
  PROVE  Answered'
<1>1. ChatTypeOK /\ Answered /\ Turning /\ tab \in Tabs /\ UNCHANGED <<talk, work, approving, mail>>
  BY DEF ChatInv, ChatTypeOK, ReaderTakes, ReaderStops, DeliverEvent
<1>2. \A a \in approving : a.work \in DOMAIN work
  BY <1>1 DEF Answered
<1>3. CASE UNCHANGED tab
  BY <1>1, <1>2, <1>3, AnsweredStays
<1>4. CASE DeliverEvent(i) /\ Dialogues(readers[i].held)
  <2> DEFINE e == readers[i].held
  <2>1. /\ tab' = [tab EXCEPT !.approval = tab'.approval]
        /\ tab'.approval = [work |-> readers[i].held.work, dismissed |-> FALSE]
    BY <1>4, EventShapes
  <2>2. /\ tab'.approval.work = e.work /\ tab'.answer = tab.answer /\ tab'.chat = tab.chat
        /\ tab'.turn = tab.turn /\ tab'.running = tab.running
    BY <1>1, <2>1 DEF Tabs
  <2>3. <<0, i>> \in Places /\ At(<<0, i>>) = e
    BY <1>1, PlaceIs DEF PlacesAre
  <2>4. IsAsked(e.work, e.chat, e.turn, e.call) /\ Unseen(e.work)
    BY <1>4, <2>3 DEF ChatInv, Sending, Approves, Dialogues
  <2>5. e.work \in DOMAIN work /\ work[e.work].chat = tab.chat /\ tab.turn > 0
    BY <1>4, <2>4 DEF IsAsked, Dialogues, Correlated
  <2>6. \A m \in mail : Granted(m) => m.work # e.work
    BY <2>4 DEF Unseen, Granted
  <2> HIDE DEF e
  <2>7. \A w : Current(w)' <=> Current(w)
    BY <1>1, <2>2 DEF Current
  <2>8. /\ tab'.approval.work # NoWork =>
             tab'.approval.work \in DOMAIN work' /\ work'[tab'.approval.work].chat = tab'.chat /\ tab'.turn > 0
        /\ tab'.answer # NoWork => tab'.answer \in DOMAIN work'
    BY <1>1, <2>2, <2>5 DEF Answered
  <2>9. \A m \in mail' : Granted(m) =>
         /\ m.work = tab'.approval.work => tab'.running /\ Current(m.work)'
         /\ m.work = tab'.answer => Current(m.work)'
         /\ \A c \in Chats : ~ (talk'[c].at = "waiting" /\ talk'[c].work = m.work /\ ~talk'[c].signal)
    BY <1>1, <2>2, <2>6, <2>7 DEF Answered
  <2> QED
    BY <1>1, <2>8, <2>9 DEF Answered, Granted
<1>5. CASE DeliverEvent(i) /\ ~ Dialogues(readers[i].held)
  BY <1>3, <1>5, EventShapes
<1>6. CASE ReaderTakes(i) \/ ReaderStops(i)
  BY <1>3, <1>6 DEF ReaderTakes, ReaderStops
<1> QED
  BY <1>4, <1>5, <1>6

\* An approval is granted while its turn waits, that is the current one.
LEMMA AnsweredByApprovals ==
  ASSUME ChatInv, NEW a \in approving, ApprovalFails(a) \/ GrantSaved(a) \/ ResumesTurn(a)
  PROVE  Answered'
<1>1. ChatTypeOK /\ Answered /\ Turning /\ UNCHANGED <<tab, work>> /\ a \in Approvings /\ talk \in [Chats -> Turns]
  BY DEF ChatInv, ChatTypeOK, ApprovalFails, GrantSaved, ResumesTurn
<1>2. \A b \in approving : b.work \in DOMAIN work
  BY <1>1 DEF Answered
<1>3. CASE ApprovalFails(a)
  <2> DEFINE r == [type |-> "answer", work |-> a.work, ok |-> FALSE]
  <2>1. ~ Granted(r) /\ r.work = a.work
    BY DEF Granted
  <2>2. mail' = mail \cup {r} /\ talk' = talk /\ approving' \subseteq approving
    BY <1>3 DEF ApprovalFails, Answers
  <2> HIDE DEF r
  <2> QED
    BY <1>1, <1>2, <2>1, <2>2, AnsweredStays
<1>4. CASE GrantSaved(a)
  <2>1. [a EXCEPT !.step = "resume"].work = a.work
    BY <1>1 DEF Approvings
  <2>2. mail' = mail /\ talk' = talk /\ \A b \in approving' : b.work \in DOMAIN work
    BY <1>2, <1>4, <2>1 DEF GrantSaved
  <2> QED
    BY <1>1, <2>2, AnsweredStays
<1>5. CASE ResumesTurn(a)
  <2> DEFINE waits == talk[a.chat].at = "waiting" /\ talk[a.chat].work = a.work /\ ~talk[a.chat].signal
             r == [type |-> "answer", work |-> a.work, ok |-> waits]
  <2>1. /\ mail' = mail \cup {r} /\ approving' \subseteq approving
        /\ talk' = [talk EXCEPT ![a.chat].signal = @ \/ waits]
    BY <1>5 DEF ResumesTurn, Answers
  <2>2. a.chat \in Chats /\ r.work = a.work /\ (Granted(r) => waits)
    BY <1>1 DEF Approvings, Granted
  <2>3. /\ \A c \in Chats : /\ talk'[c].at = talk[c].at /\ talk'[c].work = talk[c].work
                            /\ talk'[c].turn = talk[c].turn
        /\ \A c \in Chats : c # a.chat => talk'[c] = talk[c]
    BY <1>1, <2>1 DEF Turns
  <2>4. CASE ~waits
    <3>1. \A c \in Chats : talk'[c] = talk[c]
      BY <1>1, <2>1, <2>4 DEF Turns
    <3> HIDE DEF r, waits
    <3> QED
      BY <1>1, <1>2, <2>1, <2>2, <2>4, <3>1, AnsweredStays
  <2>5. CASE waits
    <3>1. /\ tab.running /\ a.chat = tab.chat /\ tab.turn = talk[a.chat].turn
          /\ \A c \in Chats : c # a.chat => talk[c].at = "idle"
      BY <1>1, <2>2, <2>5, OneTurns DEF Turning
    <3>2. a.work \in DOMAIN work /\ Current(a.work)
      BY <1>1, <2>2, <2>5, <3>1 DEF Answered, Current
    <3>3. talk'[a.chat].signal
      BY <1>1, <2>1, <2>2, <2>5 DEF Turns
    <3>4. \A c \in Chats : ~ (talk'[c].at = "waiting" /\ ~talk'[c].signal)
      BY <2>3, <3>1, <3>3
    <3> HIDE DEF r, waits
    <3>5. \A w : Current(w)' <=> Current(w)
      BY <1>1 DEF Current
    <3>6. ASSUME NEW m \in mail', Granted(m)
          PROVE  /\ m.work = tab'.approval.work => tab'.running /\ Current(m.work)'
                 /\ m.work = tab'.answer => Current(m.work)'
                 /\ \A c \in Chats : ~ (talk'[c].at = "waiting" /\ talk'[c].work = m.work /\ ~talk'[c].signal)
      BY <1>1, <2>1, <2>2, <3>1, <3>2, <3>4, <3>5, <3>6 DEF Answered
    <3>7. \A m \in mail' : m.type = "answer" => m.work \in DOMAIN work'
      BY <1>1, <2>1, <2>2, <3>2 DEF Answered
    <3> QED
      BY <1>1, <2>1, <2>3, <3>6, <3>7 DEF Answered, Granted
  <2> QED
    BY <2>4, <2>5
<1> QED
  BY <1>3, <1>4, <1>5

\* The answers after every step.
LEMMA AnsweredKept ==
  ASSUME ChatInv, ChatNext
  PROVE  Answered'
  BY ChatCases, AnsweredByTurns, AnsweredByTab, AnsweredByReaders, AnsweredByApprovals

-----------------------------------------------------------------------------
(* Chat: what is shown. *)

\* The sources of the listed calls after every step.
LEMMA SourcedKept ==
  ASSUME ChatInv, ChatNext
  PROVE  Sourced(shown, tab.chat)'
<1>1. ChatTypeOK /\ tab \in Tabs /\ Sourced(shown, tab.chat)
  BY DEF ChatInv, ChatTypeOK
<1>2. CASE shown' = shown /\ tab'.chat = tab.chat
  BY <1>1, <1>2 DEF Sourced
<1>3. ASSUME NEW c \in Chats, TurnFrame(c) PROVE Sourced(shown, tab.chat)'
  BY <1>2, <1>3 DEF TurnFrame
<1>4. CASE Quietly
  BY <1>2, <1>4 DEF Quietly
<1>5. ASSUME NEW t, Begins(t) PROVE Sourced(shown, tab.chat)'
  <2>1. tab'.chat = t.chat /\ t.chat = tab.chat /\ shown' = shown
    BY <1>5 DEF Begins, BeginTurn, Tabs
  <2> QED
    BY <1>2, <2>1
<1>6. CASE Interrupt \/ ApproveDialog
  BY <1>1, <1>2, <1>6 DEF Interrupt, ApproveDialog, Tabs
<1>7. CASE StartFreshSession
  BY <1>7 DEF StartFreshSession, Sourced
<1>8. ASSUME NEW m \in mail, DeliverDone(m) PROVE Sourced(shown, tab.chat)'
  <2>1. /\ tab' = [tab EXCEPT !.wait = FALSE, !.running = FALSE, !.stopping = FALSE,
                              !.approval = NoDialog, !.inFlight = FALSE]
        /\ Sourced(shown', tab.chat)
    BY <1>8, MessageShapes
  <2>2. tab'.chat = tab.chat
    BY <1>1, <2>1 DEF Tabs
  <2> QED
    BY <2>1, <2>2
<1>9. ASSUME NEW m \in mail, DeliverAnswer(m) PROVE Sourced(shown, tab.chat)'
  BY <1>1, <1>2, <1>9 DEF DeliverAnswer, Tabs
<1>10. ASSUME NEW i \in DOMAIN readers, ReaderTakes(i) \/ ReaderStops(i) PROVE Sourced(shown, tab.chat)'
  BY <1>2, <1>10 DEF ReaderTakes, ReaderStops
<1>11. ASSUME NEW i \in DOMAIN readers, DeliverEvent(i) PROVE Sourced(shown, tab.chat)'
  <2>1. Sourced(shown', tab.chat)
    BY <1>11, EventShapes
  <2>2. tab' = WithApproval(tab, tab'.approval)
    BY <1>11, MessageShapes
  <2>3. tab'.chat = tab.chat
    BY <1>1, <2>2 DEF WithApproval, Tabs
  <2> QED
    BY <2>1, <2>3
<1>12. ASSUME NEW a \in approving, ApprovalFails(a) \/ GrantSaved(a) \/ ResumesTurn(a)
       PROVE  Sourced(shown, tab.chat)'
  BY <1>2, <1>12 DEF ApprovalFails, GrantSaved, ResumesTurn
<1> QED
  BY <1>3, <1>4, <1>5, <1>6, <1>7, <1>8, <1>9, <1>10, <1>11, <1>12, ChatCases

\* An event that a reader takes is still under way.
LEMMA TakenIsSent ==
  ASSUME ChatTypeOK, ChatTypeOK', NEW i \in DOMAIN readers, ReaderTakes(i), NEW w, Sent(w)
  PROVE  Sent(w)'
<1>0. PICK c, ch : c = readers[i].chat /\ ch = channel[c]
  OBVIOUS
<1>1. c \in Chats /\ readers \in Seq(Readers) /\ ch \in Seq(Events) /\ channel \in [Chats -> Seq(Events)]
      /\ readers[i] \in Readers /\ ch = channel[c]
  <2>1. readers[i] \in Readers
    BY DEF ChatTypeOK
  <2>2. c \in Chats
    BY <1>0, <2>1 DEF Readers
  <2> QED
    BY <1>0, <2>1, <2>2 DEF ChatTypeOK
<1>2. /\ ch # <<>> /\ readers[i].held = Unheld
      /\ readers' = [readers EXCEPT ![i].held = Head(ch)] /\ channel' = [channel EXCEPT ![c] = Tail(ch)]
  BY <1>0 DEF ReaderTakes
<1>3. /\ Len(Tail(ch)) = Len(ch) - 1 /\ Len(ch) > 0 /\ Len(ch) \in Nat
      /\ \A k \in 1..(Len(ch) - 1) : Tail(ch)[k] = ch[k + 1]
      /\ Head(ch) = ch[1] /\ Tail(ch) \in Seq(Events)
  BY <1>1, <1>2, TailIs
<1>4. /\ DOMAIN readers' = DOMAIN readers /\ readers'[i].held = ch[1]
      /\ \A j \in DOMAIN readers : j # i => readers'[j] = readers[j]
      /\ channel'[c] = Tail(ch)
      /\ \A d \in Chats : d # c => channel'[d] = channel[d]
  BY <1>1, <1>2, <1>3 DEF Readers
<1>o. PlacesAre
  BY PlaceIs
<1>p. /\ \A j \in DOMAIN readers' : <<0, j>> \in Places' /\ At(<<0, j>>)' = readers'[j].held
      /\ \A d \in Chats : \A k \in DOMAIN channel'[d] : <<d, k>> \in Places' /\ At(<<d, k>>)' = channel'[d][k]
  <2>1. PlacesAre'
    BY PlaceIs, PTL
  <2> QED
    BY <2>1 DEF PlacesAre
<1>5. PICK p \in Places : At(p).type = "approval" /\ At(p).work = w
  BY DEF Sent, Approves
<1>6. ASSUME NEW r \in Places', At(r)' = At(p) PROVE Sent(w)'
  BY <1>5, <1>6 DEF Sent, Approves
<1>7. ASSUME NEW j \in DOMAIN readers, p = <<0, j>> PROVE Sent(w)'
  <2>1. At(p) = readers[j].held
    BY <1>o, <1>7 DEF PlacesAre
  <2>2. j # i
    BY <1>2, <1>5, <2>1 DEF Unheld
  <2>3. <<0, j>> \in Places' /\ At(<<0, j>>)' = readers[j].held
    BY <1>4, <1>p, <2>2
  <2> QED
    BY <1>6, <2>1, <2>3
<1>8. ASSUME NEW d \in Chats, NEW k \in DOMAIN channel[d], p = <<d, k>> PROVE Sent(w)'
  <2>1. At(p) = channel[d][k]
    BY <1>o, <1>8 DEF PlacesAre
  <2>2. CASE d # c
    <3>1. channel'[d] = channel[d]
      BY <1>4, <2>2
    <3>2. <<d, k>> \in Places' /\ At(<<d, k>>)' = channel[d][k]
      BY <1>p, <3>1
    <3> QED
      BY <1>6, <2>1, <3>2
  <2>3. CASE d = c /\ k = 1
    <3>1. <<0, i>> \in Places' /\ At(<<0, i>>)' = ch[1]
      BY <1>4, <1>p
    <3> QED
      BY <1>1, <1>6, <2>1, <2>3, <3>1
  <2>4. CASE d = c /\ k # 1
    <3>1. k \in 1..Len(ch)
      BY <1>1, <1>o, <2>4 DEF PlacesAre
    <3>2. PICK l \in 1..(Len(ch) - 1) : k = l + 1
      <4>1. k - 1 \in 1..(Len(ch) - 1) /\ k = (k - 1) + 1
        BY <1>3, <2>4, <3>1
      <4> QED
        BY <4>1
    <3>3. l \in DOMAIN channel'[c] /\ channel'[c][l] = ch[k]
      BY <1>3, <1>4, <3>2
    <3>4. <<c, l>> \in Places' /\ At(<<c, l>>)' = ch[k]
      BY <1>1, <1>p, <3>3
    <3> QED
      BY <1>1, <1>6, <2>1, <2>4, <3>4
  <2> QED
    BY <2>2, <2>3, <2>4
<1> QED
  BY <1>o, <1>7, <1>8 DEF PlacesAre

\* The events that are not in the hand that opens are still under way.
LEMMA OthersAreSent ==
  ASSUME ChatTypeOK, ChatTypeOK', NEW i \in DOMAIN readers, UNCHANGED channel,
         \/ readers' = RemoveAt(readers, i)
         \/ /\ DOMAIN readers' = DOMAIN readers /\ readers'[i].held = Unheld
            /\ \A j \in DOMAIN readers : j # i => readers'[j] = readers[j],
         NEW p, Approves(p), p # <<0, i>>, NEW w, w = At(p).work
  PROVE  Sent(w)'
<1>1. readers \in Seq(Readers)
  BY DEF ChatTypeOK
<1>o. PlacesAre
  BY PlaceIs
<1>p. /\ \A j \in DOMAIN readers' : <<0, j>> \in Places' /\ At(<<0, j>>)' = readers'[j].held
      /\ \A d \in Chats : \A k \in DOMAIN channel[d] : <<d, k>> \in Places' /\ At(<<d, k>>)' = channel[d][k]
  <2>1. PlacesAre'
    BY PlaceIs, PTL
  <2> QED
    BY <2>1 DEF PlacesAre
<1>2. \A j \in DOMAIN readers : j # i => \E k \in DOMAIN readers' : readers'[k] = readers[j]
  <2>1. CASE readers' = RemoveAt(readers, i)
    <3>1. /\ Len(readers') = Len(readers) - 1 /\ readers' \in Seq(Readers)
          /\ \A k \in 1..(Len(readers) - 1) : readers'[k] = readers[IF k < i THEN k ELSE k + 1]
      BY <1>1, <2>1, RemoveAtIs
    <3>2. i \in 1..Len(readers) /\ Len(readers) \in Nat /\ DOMAIN readers = 1..Len(readers)
      BY <1>1
    <3>3. DOMAIN readers' = 1..(Len(readers) - 1)
      BY <3>1, <3>2
    <3>4. ASSUME NEW j \in DOMAIN readers, j # i PROVE \E k \in DOMAIN readers' : readers'[k] = readers[j]
      <4>1. PICK k \in 1..(Len(readers) - 1) : j = IF k < i THEN k ELSE k + 1
        <5>1. CASE j < i
          <6>1. j \in 1..(Len(readers) - 1) /\ j = IF j < i THEN j ELSE j + 1
            BY <3>2, <5>1
          <6> QED
            BY <6>1
        <5>2. CASE ~ (j < i)
          <6>1. j - 1 \in 1..(Len(readers) - 1) /\ j = IF j - 1 < i THEN j - 1 ELSE (j - 1) + 1
            BY <3>2, <3>4, <5>2
          <6> QED
            BY <6>1
        <5> QED
          BY <5>1, <5>2
      <4> QED
        BY <3>1, <3>3, <4>1
    <3> QED
      BY <3>4
  <2>2. CASE /\ DOMAIN readers' = DOMAIN readers /\ readers'[i].held = Unheld
             /\ \A j \in DOMAIN readers : j # i => readers'[j] = readers[j]
    BY <2>2
  <2> QED
    BY <2>1, <2>2
<1>3. ASSUME NEW r \in Places', At(r)' = At(p) PROVE Sent(w)'
  BY <1>3 DEF Sent, Approves
<1>4. ASSUME NEW j \in DOMAIN readers, p = <<0, j>> PROVE Sent(w)'
  <2>1. j # i /\ At(p) = readers[j].held
    BY <1>o, <1>4 DEF PlacesAre
  <2>2. PICK k \in DOMAIN readers' : readers'[k] = readers[j]
    BY <1>2, <2>1
  <2> QED
    BY <1>3, <1>p, <2>1, <2>2
<1>5. ASSUME NEW d \in Chats, NEW k \in DOMAIN channel[d], p = <<d, k>> PROVE Sent(w)'
  <2>1. At(p) = channel[d][k]
    BY <1>o, <1>5 DEF PlacesAre
  <2> QED
    BY <1>3, <1>p, <1>5, <2>1
<1> QED
  BY <1>o, <1>4, <1>5 DEF PlacesAre, Approves

FirstWaits(c, w) == Waits(c) /\ w = talk[c].work /\ work[w].call # NoCall /\ First(w)

\* What wakes nobody, asks nothing, and keeps the dialog and the events of the
\* approvals that are waited for.
LEMMA FirstStays ==
  ASSUME ChatInv, UNCHANGED work,
         \A c \in Chats : Waits(c)' => Waits(c) /\ talk'[c].work = talk[c].work,
         \A c \in Chats : \A w : FirstWaits(c, w) =>
           /\ tab.approval.work = w => tab'.approval.work = w \/ Sent(w)'
           /\ Sent(w) => tab'.approval.work = w \/ Sent(w)'
  PROVE  FirstIsSent'
<1> SUFFICES ASSUME NEW c \in Chats, NEW w, w = talk'[c].work, Waits(c)', work'[w].call # NoCall, First(w)'
             PROVE  tab'.approval.work = w \/ Sent(w)'
  BY DEF FirstIsSent
<1>1. FirstWaits(c, w)
  BY DEF FirstWaits, First
<1>2. tab.approval.work = w \/ Sent(w)
  BY <1>1 DEF FirstWaits, ChatInv, FirstIsSent
<1> QED
  BY <1>1, <1>2

\* An approval that is waited for is of the turn that is shown.
LEMMA WaitsNow ==
  ASSUME ChatInv, NEW c \in Chats, NEW w, FirstWaits(c, w)
  PROVE  /\ w \in DOMAIN work /\ work[w].chat = c /\ work[w].turn = tab.turn /\ c = tab.chat /\ Current(w)
         /\ tab.turn > 0 /\ tab.running
         /\ \A v \in DOMAIN work : v # w => ~ Current(v)
         /\ \A m \in mail : Granted(m) => m.work # w
<1>1. talk[c].at = "waiting" /\ w = talk[c].work /\ ~talk[c].signal /\ First(w)
  BY DEF FirstWaits, Waits
<1>2. c = tab.chat /\ tab.running /\ tab.turn = talk[c].turn /\ tab.turn > 0
  BY <1>1 DEF ChatInv, Turning
<1>3. w \in DOMAIN work /\ work[w].chat = c /\ work[w].turn = tab.turn
  BY <1>1, <1>2 DEF ChatInv, Answered
<1>4. \A m \in mail : Granted(m) => m.work # w
  BY <1>1 DEF ChatInv, Answered
<1> QED
  BY <1>1, <1>2, <1>3, <1>4 DEF Current, First

\* A turn that asks sends the approval's event; it does not wait otherwise.
LEMMA FirstByTurns ==
  ASSUME ChatInv, ChatTypeOK', NEW c \in Chats, TurnFrame(c), Asking(c) \/ Working(c)
  PROVE  FirstIsSent'
<1>1. ChatTypeOK /\ UNCHANGED readers
  BY DEF ChatInv, TurnFrame
<1>2. \A d \in Chats : d # c => talk'[d].at = "idle"
  BY OneTurns DEF TurnFrame
<1>3. CASE Working(c)
  <2>1. \A d \in Chats : talk'[d].at # "waiting"
    BY <1>2, <1>3 DEF Working
  <2> QED
    BY <2>1 DEF FirstIsSent, Waits
<1>4. CASE Asking(c)
  <2>1. PICK e \in Events : e.type = "approval" /\ e.work = Len(work) + 1 /\ Emit(c, e)
    BY <1>4 DEF Asking
  <2>2. PICK q : q \in Places' /\ At(q)' = e
    <3>1. Emit(c, e) /\ e.type \in Lasting
      BY <2>1 DEF Lasting
    <3>2. \E f, q :
           /\ \A p : Approves(p)' /\ p # q => Approves(f[p]) /\ At(f[p]) = At(p)'
           /\ \A p, r : Approves(p)' /\ Approves(r)' /\ p # q /\ r # q /\ f[p] = f[r] => p = r
           /\ q \in Places' => At(q)' = e
           /\ e.type \in Lasting => q \in Places'
      BY ONLY ChatTypeOK', <1>1, <3>1, EmitMoves
    <3> QED
      BY <3>1, <3>2
  <2>3. PICK w : w = Len(work) + 1
    OBVIOUS
  <2>4. Sent(w)' /\ talk'[c].work = w
    BY <1>4, <2>1, <2>2, <2>3 DEF Sent, Approves, Asking
  <2>5. ASSUME NEW d \in Chats, Waits(d)' PROVE Sent(talk[d].work)'
    <3>1. d = c
      BY <1>2, <2>5 DEF Waits
    <3>2. PICK v : v = talk'[d].work
      OBVIOUS
    <3>3. v = w
      BY <2>4, <3>1, <3>2
    <3>4. Sent(v)'
      BY <2>4, <3>3
    <3> QED
      BY <3>2, <3>4 DEF Sent, Approves
  <2> QED
    BY <2>5 DEF FirstIsSent
<1> QED
  BY <1>3, <1>4

\* Keys and messages close the dialog of the approval that is waited for only when
\* its turn stops waiting.
LEMMA FirstByTab ==
  ASSUME ChatInv, ChatTypeOK',
         \/ Quietly \/ (\E t : Begins(t))
         \/ Interrupt \/ ApproveDialog \/ StartFreshSession
         \/ \E m \in mail : DeliverDone(m) \/ DeliverAnswer(m)
         \/ \E a \in approving : ApprovalFails(a) \/ GrantSaved(a) \/ ResumesTurn(a)
  PROVE  FirstIsSent'
<1>1. ChatTypeOK /\ Turning /\ Answered /\ tab \in Tabs /\ tab.chat \in Chats /\ talk \in [Chats -> Turns]
  BY DEF ChatInv, ChatTypeOK, Tabs
<1>2. ASSUME \A c \in Chats : talk'[c].at # "waiting" PROVE FirstIsSent'
  BY <1>2 DEF FirstIsSent, Waits
<1>3. ASSUME UNCHANGED <<channel, readers>> PROVE \A w : Sent(w) => Sent(w)'
  BY <1>3 DEF Sent, Approves, Places, At
<1>4. ASSUME UNCHANGED <<channel, readers, work>>, tab'.approval.work = tab.approval.work,
             \A c \in Chats : Waits(c)' => Waits(c) /\ talk'[c].work = talk[c].work
      PROVE  FirstIsSent'
  BY <1>3, <1>4, FirstStays
<1>5. CASE Quietly
  <2>1. UNCHANGED <<channel, readers, work, talk>> /\ tab'.approval.work = tab.approval.work
    BY <1>5 DEF Quietly, world
  <2> QED
    BY <1>4, <2>1 DEF Waits
<1>6. ASSUME NEW t, Begins(t) PROVE FirstIsSent'
  <2>1. \A c \in Chats : talk[c].at = "idle"
    BY <1>6, AllIdle DEF Begins
  <2>2. PICK n : n = t.turn + 1
    OBVIOUS
  <2>3. talk' = [talk EXCEPT ![tab.chat] = [Quiescent EXCEPT !.at = "begin", !.turn = n]]
    BY <1>6, <2>2 DEF Begins, BeginTurn
  <2> QED
    BY <1>1, <1>2, <2>1, <2>3 DEF Quiescent
<1>7. CASE Interrupt
  <2>1. UNCHANGED <<channel, readers, work>> /\ tab'.approval.work = tab.approval.work
    BY <1>1, <1>7 DEF Interrupt, Tabs
  <2>2. talk' = [talk EXCEPT ![tab.session].cancelled = TRUE]
    BY <1>7 DEF Interrupt
  <2>3. \A c \in Chats : Waits(c)' => Waits(c) /\ talk'[c].work = talk[c].work
    BY <1>1, <2>2 DEF Waits, Turns
  <2> QED
    BY <1>4, <2>1, <2>3
<1>8. CASE ApproveDialog
  <2>1. UNCHANGED <<channel, readers, work, talk>> /\ tab'.approval.work = tab.approval.work
    BY <1>1, <1>8 DEF ApproveDialog, Tabs
  <2> QED
    BY <1>4, <2>1 DEF Waits
<1>9. CASE StartFreshSession
  <2>1. \A c \in Chats : talk[c].at = "idle"
    BY <1>9, AllIdle DEF StartFreshSession, Sends
  <2>2. talk' = [talk EXCEPT ![tab.chat].closed = tab.session # 0]
    BY <1>9 DEF StartFreshSession
  <2> QED
    BY <1>1, <1>2, <2>1, <2>2 DEF Turns
<1>10. ASSUME NEW m \in mail, DeliverDone(m) PROVE FirstIsSent'
  <2>1. talk' = talk /\ \A c \in Chats : talk[c].at # "waiting"
    BY <1>1, <1>10 DEF DeliverDone, Turning
  <2> QED
    BY <1>2, <2>1
<1>11. ASSUME NEW m \in mail, DeliverAnswer(m) PROVE FirstIsSent'
  <2>1. UNCHANGED <<channel, readers, work, talk>>
    BY <1>11 DEF DeliverAnswer
  <2>2. ASSUME NEW c \in Chats, NEW w, FirstWaits(c, w), tab.approval.work = w PROVE tab'.approval.work = w
    <3>1. \A n \in mail : Granted(n) => n.work # w
      BY <2>2, WaitsNow
    <3>2. \A v \in DOMAIN work : v # w => ~ Current(v)
      BY <2>2, WaitsNow
    <3>3. m.type = "answer" /\ m.work \in DOMAIN work
      BY <1>1, <1>11 DEF DeliverAnswer, Answered
    <3>4. CASE m.work \notin {tab.answer, tab.approval.work}
      BY <1>11, <2>2, <3>4 DEF DeliverAnswer
    <3>5. CASE m.work \in {tab.answer, tab.approval.work} /\ m.ok
      <4>1. Granted(m) /\ m.work = tab.answer
        BY <2>2, <3>1, <3>3, <3>5 DEF Granted
      <4>2. Current(m.work)
        BY <1>1, <4>1 DEF Answered
      <4> QED
        BY <3>1, <3>2, <3>3, <4>1, <4>2
    <3>6. CASE m.work \in {tab.answer, tab.approval.work} /\ ~m.ok
      <4>1. tab' = [tab EXCEPT !.answer = NoWork, !.inFlight = FALSE]
        <5>1. tab' = [tab EXCEPT !.answer = NoWork, !.inFlight = FALSE, !.approval = @]
          BY <1>11, <3>6 DEF DeliverAnswer
        <5> QED
          BY <1>1, <5>1 DEF Tabs
      <4> QED
        BY <1>1, <2>2, <4>1 DEF Tabs
    <3> QED
      BY <3>4, <3>5, <3>6
  <2>3. \A c \in Chats : Waits(c)' => Waits(c) /\ talk'[c].work = talk[c].work
    BY <2>1 DEF Waits
  <2>4. \A w : Sent(w) => Sent(w)'
    BY <1>3, <2>1
  <2> QED
    BY <2>1, <2>2, <2>3, <2>4, FirstStays
<1>12. ASSUME NEW a \in approving, ApprovalFails(a) \/ GrantSaved(a) \/ ResumesTurn(a) PROVE FirstIsSent'
  <2>1. UNCHANGED <<tab, channel, readers, work>>
    BY <1>12 DEF ApprovalFails, GrantSaved, ResumesTurn
  <2>2. \A c \in Chats : Waits(c)' => Waits(c) /\ talk'[c].work = talk[c].work
    <3>1. CASE UNCHANGED talk
      BY <3>1 DEF Waits
    <3>2. CASE ResumesTurn(a)
      <4> DEFINE v == talk[a.chat].signal \/ (talk[a.chat].at = "waiting" /\ talk[a.chat].work = a.work /\ ~talk[a.chat].signal)
      <4>1. talk' = [talk EXCEPT ![a.chat].signal = v]
        BY <3>2 DEF ResumesTurn
      <4>2. v \in BOOLEAN /\ (talk[a.chat].signal => v)
        OBVIOUS
      <4> HIDE DEF v
      <4> QED
        BY <1>1, <4>1, <4>2 DEF Waits, Turns
    <3> QED
      BY <1>12, <3>1, <3>2 DEF ApprovalFails, GrantSaved
  <2> QED
    BY <1>4, <2>1, <2>2
<1> QED
  BY <1>5, <1>6, <1>7, <1>8, <1>9, <1>10, <1>11, <1>12

\* An event of the approval that is waited for stays under way until it opens the
\* dialog.
LEMMA FirstByReaders ==
  ASSUME ChatInv, ChatTypeOK', NEW i \in DOMAIN readers, ReaderTakes(i) \/ ReaderStops(i) \/ DeliverEvent(i)
  PROVE  FirstIsSent'
<1>1. ChatTypeOK /\ tab \in Tabs /\ readers \in Seq(Readers) /\ UNCHANGED <<work, talk>>
  BY DEF ChatInv, ChatTypeOK, ReaderTakes, ReaderStops, DeliverEvent
<1>2. \A c \in Chats : Waits(c)' => Waits(c) /\ talk'[c].work = talk[c].work
  BY <1>1 DEF Waits
<1>3. CASE ReaderTakes(i)
  <2>1. \A w : Sent(w) => Sent(w)'
    BY <1>1, <1>3, TakenIsSent
  <2>2. tab' = tab
    BY <1>3 DEF ReaderTakes
  <2> QED
    BY <1>1, <1>2, <2>1, <2>2, FirstStays
<1>o. <<0, i>> \in Places /\ At(<<0, i>>) = readers[i].held
  BY <1>1, PlaceIs DEF PlacesAre
<1>4. ASSUME ReaderStops(i) \/ DeliverEvent(i), NEW p, Approves(p), p # <<0, i>>, NEW w, w = At(p).work
      PROVE  Sent(w)'
  <2>1. /\ UNCHANGED channel
        /\ \/ readers' = RemoveAt(readers, i)
           \/ /\ DOMAIN readers' = DOMAIN readers /\ readers'[i].held = Unheld
              /\ \A j \in DOMAIN readers : j # i => readers'[j] = readers[j]
    BY <1>1, <1>4 DEF ReaderStops, DeliverEvent
  <2> QED
    BY <1>1, <1>4, <2>1, OthersAreSent
<1>5. CASE ReaderStops(i)
  <2>1. \A w : Sent(w) => Sent(w)'
    <3>1. ~ Approves(<<0, i>>)
      BY <1>5, <1>o DEF ReaderStops, Approves, Unheld
    <3> QED
      BY <1>4, <1>5, <3>1 DEF Sent
  <2>2. tab' = tab
    BY <1>5 DEF ReaderStops
  <2> QED
    BY <1>1, <1>2, <2>1, <2>2, FirstStays
<1>6. CASE DeliverEvent(i)
  <2>0. PICK e : e = readers[i].held
    OBVIOUS
  <2>1. /\ e \in Events
        /\ Dialogues(e) => tab'.approval = [work |-> e.work, dismissed |-> FALSE]
        /\ ~ Dialogues(e) => tab' = tab
    BY <1>6, <2>0, EventShapes
  <2>2. e.type = "approval" => IsAsked(e.work, e.chat, e.turn, e.call) /\ Unseen(e.work)
    BY <1>o, <2>0 DEF ChatInv, Sending, Approves
  <2>3. ASSUME NEW c \in Chats, NEW w, FirstWaits(c, w), tab.approval.work = w PROVE tab'.approval.work = w
    <3>1. \A v \in DOMAIN work : v # w => ~ Current(v)
      BY <2>3, WaitsNow
    <3>2. ~ Dialogues(e)
      <4>1. SUFFICES ASSUME Dialogues(e) PROVE FALSE
        OBVIOUS
      <4>2. e.work \in DOMAIN work /\ Current(e.work) /\ e.work # tab.approval.work
        BY <2>2, <4>1 DEF Dialogues, Correlated, IsAsked, Unseen, Current
      <4> QED
        BY <2>3, <3>1, <4>2
    <3> QED
      BY <2>1, <2>3, <3>2
  <2>4. ASSUME NEW c \in Chats, NEW w, FirstWaits(c, w), Sent(w) PROVE tab'.approval.work = w \/ Sent(w)'
    <3>1. PICK p : Approves(p) /\ At(p).work = w
      BY <2>4 DEF Sent
    <3>2. CASE p # <<0, i>>
      BY <1>4, <1>6, <3>1, <3>2
    <3>3. CASE p = <<0, i>>
      <4>1. e.type = "approval" /\ e.work = w
        BY <1>o, <2>0, <3>1, <3>3 DEF Approves
      <4>2. work[w] = [chat |-> e.chat, turn |-> e.turn, call |-> e.call]
        BY <2>2, <4>1 DEF IsAsked
      <4>3. /\ work[w].chat = c /\ work[w].turn = tab.turn /\ c = tab.chat /\ tab.turn > 0
            /\ work[w].call # NoCall
        BY <2>4, WaitsNow DEF FirstWaits
      <4>4. Dialogues(e)
        BY <4>1, <4>2, <4>3 DEF Dialogues, Correlated
      <4> QED
        BY <2>1, <4>1, <4>4
    <3> QED
      BY <3>2, <3>3
  <2> QED
    BY <1>1, <1>2, <2>3, <2>4, FirstStays
<1> QED
  BY <1>3, <1>5, <1>6

\* The first approval of a turn that waits, after every step.
LEMMA FirstKept ==
  ASSUME ChatInv, ChatNext, ChatTypeOK'
  PROVE  FirstIsSent'
  BY ChatCases, FirstByTurns, FirstByTab, FirstByReaders

\* The invariant at first.
LEMMA ChatStarts ==
  ChatInit => ChatInv
<1> SUFFICES ASSUME ChatInit PROVE ChatInv
  OBVIOUS
<1>1. 1 \in Chats
  BY ChatAssumption DEF Chats
<1>2. NewChatTab \in Tabs
  BY <1>1 DEF NewChatTab, Tabs, Dialogs, NoDialog, NoWork
<1>3. Quiescent \in Turns
  BY DEF Quiescent, Turns, Commands, NoCall, NoWork
<1>4. ChatTypeOK
  BY <1>2, <1>3 DEF ChatInit, ChatTypeOK
<1>5. Turning
  BY <1>1, <1>3 DEF ChatInit, Turning, NewChatTab, Quiescent
<1>6. \A p : ~ Approves(p)
  <2>1. PlacesAre
    BY <1>4, PlaceIs
  <2>2. DOMAIN readers = {} /\ \A c \in Chats : DOMAIN channel[c] = {}
    BY DEF ChatInit
  <2> QED
    BY <2>1, <2>2 DEF PlacesAre, Approves
<1>7. Sending
  BY <1>6 DEF Sending
<1>8. Answered
  BY DEF ChatInit, Answered, NewChatTab, NoDialog, Quiescent
<1>9. FirstIsSent
  BY DEF ChatInit, FirstIsSent, Waits, Quiescent
<1>10. Sourced(shown, tab.chat)
  BY DEF ChatInit, Sourced
<1> QED
  BY <1>4, <1>5, <1>7, <1>8, <1>9, <1>10 DEF ChatInv

\* The invariant after every step.
LEMMA ChatKeeps ==
  ChatInv /\ [ChatNext]_chatVars => ChatInv'
<1> SUFFICES ASSUME ChatInv, [ChatNext]_chatVars PROVE ChatInv'
  OBVIOUS
<1>1. CASE ChatNext
  <2>1. ChatTypeOK' /\ Turning'
    BY <1>1, ChatTypes, TurningKept DEF ChatNext
  <2> QED
    BY <1>1, <2>1, SendingKept, AnsweredKept, SourcedKept, FirstKept DEF ChatInv
<1>2. CASE UNCHANGED chatVars
  <2>1. ChatTypeOK' /\ Turning' /\ Sourced(shown, tab.chat)'
    BY <1>2 DEF chatVars, ChatInv, ChatTypeOK, Turning, Sourced
  <2>2. Sending' /\ FirstIsSent'
    BY <1>2 DEF chatVars, ChatInv, Sending, FirstIsSent, Sent, Approves, Places, At, IsAsked, Unseen,
                Waits, First
  <2>3. Answered'
    BY <1>2 DEF chatVars, ChatInv, Answered, Granted, Current
  <2> QED
    BY <2>1, <2>2, <2>3 DEF ChatInv
<1> QED
  BY <1>1, <1>2

\* The invariant always.
LEMMA ChatAlways ==
  ChatSpec => []ChatInv
  BY ChatStarts, ChatKeeps, PTL DEF ChatSpec

\* The tab's fields, the listed calls, the channels, the readers and the messages
\* on their way keep their types whatever order the goroutines' messages arrive
\* in, and no key or message reads an outcome, a call or an approval that is not
\* there (tab_chat.go, cmd/tui.go).
THEOREM ChatTypeCorrect == ChatSpec => []ChatTypeOK
<1>1. ChatInv => ChatTypeOK
  BY DEF ChatInv
<1> QED
  BY <1>1, ChatAlways, PTL

\* Nothing of a conversation that was left, or of a turn that ended, is shown:
\* startFreshSession forgets the approval and the listed calls, applyRuntimeEvent
\* drops what is not of the current turn, and chatApprovalDoneMsg can only take the
\* dialog away.
THEOREM WhatIsShownIsCurrent == ChatSpec => []ShownIsCurrent
<1>1. ChatInv => ShownIsCurrent
  BY DEF ChatInv, Answered, Sourced, ShownIsCurrent
<1> QED
  BY <1>1, ChatAlways, PTL

\* The first approval of a turn reaches the user for every capacity of the event
\* channel: Observe makes room for an approval event, the turn that waits sends
\* nothing that could push it out, applyRuntimeEvent accepts it whichever reader
\* brings it, and no answer to another approval closes its dialog (Observe,
\* applyRuntimeEvent, chatApprovalDoneMsg).
THEOREM FirstWaitsAreShown == ChatSpec => []FirstWaitIsShown
<1>1. ASSUME ChatInv PROVE FirstWaitIsShown
  <2> SUFFICES ASSUME NEW c \in Chats, Quiet, Waits(c), work[talk[c].work].call # NoCall, First(talk[c].work)
               PROVE  tab.approval.work = talk[c].work
    BY DEF FirstWaitIsShown
  <2>1. tab.approval.work = talk[c].work \/ Sent(talk[c].work)
    BY <1>1 DEF ChatInv, FirstIsSent
  <2>2. ~ Sent(talk[c].work)
    <3>1. PlacesAre
      BY <1>1, PlaceIs DEF ChatInv
    <3>2. /\ \A i \in DOMAIN readers : readers[i].held = Unheld
          /\ \A d \in Chats : DOMAIN channel[d] = {}
      BY DEF Quiet
    <3>3. \A p : ~ Approves(p)
      BY <3>1, <3>2 DEF PlacesAre, Approves, Unheld
    <3> QED
      BY <3>3 DEF Sent
  <2> QED
    BY <2>1, <2>2
<1> QED
  BY <1>1, ChatAlways, PTL
=============================================================================
