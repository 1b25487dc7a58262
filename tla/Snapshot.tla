------------------------------- MODULE Snapshot ------------------------------
(***************************************************************************)
(* Native Btrfs checkpoints and their restoration (recovery/snapshot.go).  *)
(* A checkpoint clones the live subvolume read-only into the store; a       *)
(* restore clones the checkpoint writable and exchanges it with the live    *)
(* subvolume in one namespace operation, so that the displaced tree stays   *)
(* in the store.  Every call runs under executor.lock and may die between   *)
(* any two steps; RecoverSnapshot resumes an interrupted action.  Other     *)
(* programs write to writable trees at any time.                            *)
(***************************************************************************)
EXTENDS Naturals, FiniteSets

CONSTANTS
  Checkpoints,      \* operations that create a checkpoint
  Restores,         \* operations that restore one
  Subvolumes,       \* identities (UUIDs) the filesystem may give out
  FirstTree,        \* the subvolume that is live at the start
  Versions,         \* contents a tree may have, as its inventory tells them apart
  NoTree,
  MaxWrites,        \* bound on writes of other programs
  MaxDeaths         \* bound on deaths of the executor

SnapOps == Checkpoints \cup Restores
Trees == [parent : Subvolumes \cup {NoTree}, version : Versions, ro : BOOLEAN]

ASSUME SnapAssumption ==
  /\ Checkpoints \cap Restores = {}
  /\ FirstTree \in Subvolumes /\ Versions # {}
  /\ NoTree \notin Subvolumes /\ NoTree \notin Trees
  /\ MaxWrites \in Nat /\ MaxDeaths \in Nat

VARIABLES
  tree,             \* [Subvolumes -> [parent, version, ro], or NoTree when unused]
  live,             \* the subvolume at the configured path
  store,            \* [SnapOps -> Subvolumes \cup {NoTree}]: the artifact of the operation
  snap,             \* [SnapOps -> journal row: status, plan, receipt]
  run,              \* the operation under the lock and its next step, or NoTree
  writes, deaths

snapVars == <<tree, live, store, snap, run, writes, deaths>>

SnapStatus == {"none", "ready", "applying", "verifying", "committed", "recovered", "outcome_unknown"}
SnapSteps == {"clone", "native", "inventory", "exchange", "swap", "exchanged", "verify", "finish"}
SnapRow ==
  [status : SnapStatus, source : Subvolumes \cup {NoTree}, before : Versions \cup {NoTree},
   from : Checkpoints \cup {NoTree}, clone : Subvolumes \cup {NoTree},
   desired : Versions \cup {NoTree}, receipt : Subvolumes \cup {NoTree}]

SnapTypeOK ==
  /\ tree \in [Subvolumes -> Trees \cup {NoTree}]
  /\ live \in Subvolumes /\ tree[live] # NoTree
  /\ store \in [SnapOps -> Subvolumes \cup {NoTree}]
  /\ \A o \in SnapOps : store[o] # NoTree => tree[store[o]] # NoTree
  /\ snap \in [SnapOps -> SnapRow]
  /\ run \in {NoTree} \cup [op : SnapOps, at : SnapSteps, h : Subvolumes]
  /\ writes \in 0 .. MaxWrites /\ deaths \in 0 .. MaxDeaths

NoRow ==
  [status |-> "none", source |-> NoTree, before |-> NoTree, from |-> NoTree, clone |-> NoTree,
   desired |-> NoTree, receipt |-> NoTree]

SnapInit ==
  /\ tree = [s \in Subvolumes |-> IF s = FirstTree
               THEN [parent |-> NoTree, version |-> CHOOSE v \in Versions : TRUE, ro |-> FALSE]
               ELSE NoTree]
  /\ live = FirstTree
  /\ store = [o \in SnapOps |-> NoTree]
  /\ snap = [o \in SnapOps |-> NoRow]
  /\ run = NoTree
  /\ writes = 0 /\ deaths = 0

-----------------------------------------------------------------------------
\* Preparation reads the live tree and binds what it saw.

\* snapshotInventory: what the walk of a tree finds, entry by entry.
InventoryOf(s) == tree[s].version

\* snapshotHandles opens the live tree, which must be writable, and the store beside it.
HandlesOpen == ~tree[live].ro

PrepareSnapshot(o) ==
  /\ run = NoTree /\ HandlesOpen /\ snap[o].status = "none"
  /\ snap' = [snap EXCEPT ![o] = [NoRow EXCEPT !.status = "ready", !.source = live,
                                             !.before = InventoryOf(live), !.desired = InventoryOf(live)]]
  /\ UNCHANGED <<tree, live, store, run, writes, deaths>>

\* The recorded identity of the checkpoint is still that of its artifact.
ReceiptHolds(c) ==
  /\ store[c] # NoTree /\ snap[c].receipt = store[c]
  /\ tree[store[c]].ro /\ tree[store[c]].parent = snap[c].source
  /\ InventoryOf(store[c]) = snap[c].desired

PrepareSnapshotRestore(o, c) ==
  /\ run = NoTree /\ HandlesOpen /\ snap[o].status = "none"
  /\ snap[c].status = "committed" /\ ReceiptHolds(c)
  /\ snap' = [snap EXCEPT ![o] = [NoRow EXCEPT !.status = "ready", !.source = live,
                                             !.before = InventoryOf(live), !.from = c,
                                             !.clone = store[c], !.desired = snap[c].desired]]
  /\ UNCHANGED <<tree, live, store, run, writes, deaths>>

-----------------------------------------------------------------------------
\* Execution.

\* matchingSnapshotSource: the live tree is the one that was reviewed.
MatchingSource(o) == live = snap[o].source /\ InventoryOf(live) = snap[o].before

AtStep(o, s) == run # NoTree /\ run.op = o /\ run.at = s

GoTo(o, s) == run' = [op |-> o, at |-> s, h |-> run.h]

\* Applying is recorded, then the adapter runs; h is the live identity the handles
\* were opened on.  Only an interrupted or failed action is resumed.
RunSnapshot(o) ==
  /\ run = NoTree /\ HandlesOpen
  /\ \/ snap[o].status = "ready" /\ MatchingSource(o)
     \/ snap[o].status \in {"outcome_unknown", "applying", "verifying"}
  /\ snap' = [snap EXCEPT ![o].status = "applying"]
  /\ run' = [op |-> o, at |-> "clone", h |-> live]
  /\ UNCHANGED <<tree, live, store, writes, deaths>>

\* The tree the operation clones: the reviewed source, or the checkpoint.
Cloned(o) == IF o \in Checkpoints THEN run.h ELSE snap[o].clone

\* The checkpoint a restore depends on is still the one that was reviewed.
CheckpointHolds(o) ==
  o \in Restores => LET s == store[snap[o].from] IN
    s = snap[o].clone /\ tree[s].ro /\ InventoryOf(s) = snap[o].desired

\* The artifact exists already, or the source still matches and can be cloned.
MayClone(o) ==
  /\ AtStep(o, "clone") /\ CheckpointHolds(o)
  /\ \/ store[o] # NoTree /\ GoTo(o, IF o \in Checkpoints THEN "inventory" ELSE "exchange")
     \/ store[o] = NoTree /\ MatchingSource(o) /\ GoTo(o, "native")
  /\ UNCHANGED <<tree, live, store, snap, writes, deaths>>

\* nativeSnapshot of the handle that was opened; the artifact is then opened again.
Clone(o) ==
  /\ AtStep(o, "native")
  /\ \E s \in Subvolumes :
       /\ tree[s] = NoTree
       /\ tree' = [tree EXCEPT ![s] = [parent |-> Cloned(o), version |-> InventoryOf(Cloned(o)),
                                      ro |-> o \in Checkpoints]]
       /\ store' = [store EXCEPT ![o] = s]
  /\ GoTo(o, "clone")
  /\ UNCHANGED <<live, snap, writes, deaths>>

\* Variant: the clone is trusted to have the contents the review saw.
InventoryTrusted(o) ==
  /\ AtStep(o, "inventory")
  /\ snap' = [snap EXCEPT ![o].receipt = store[o]]
  /\ GoTo(o, "finish")
  /\ UNCHANGED <<tree, live, store, writes, deaths>>

\* createCheckpoint: identity and contents of the clone, then its receipt.
Inventory(o) ==
  /\ AtStep(o, "inventory")
  /\ tree[store[o]].ro /\ tree[store[o]].parent = snap[o].source
  /\ InventoryOf(store[o]) = snap[o].desired
  /\ snap[o].receipt \in {NoTree, store[o]}
  /\ snap' = [snap EXCEPT ![o].receipt = store[o]]
  /\ GoTo(o, "finish")
  /\ UNCHANGED <<tree, live, store, writes, deaths>>

\* nativeExchange: the live tree and the artifact change places.
ExchangeTrees(o) ==
  /\ live' = store[o]
  /\ store' = [store EXCEPT ![o] = live]

\* Variant: a resumed restore does not ask which tree is live.
MayExchangeAgain(o) ==
  /\ AtStep(o, "exchange")
  /\ ~tree[store[o]].ro
  /\ GoTo(o, "swap")
  /\ UNCHANGED <<tree, live, store, snap, writes, deaths>>

\* The exchange happens once: a resumed restore whose tree is live goes on to verify.
MayExchange(o) ==
  /\ AtStep(o, "exchange")
  /\ ~tree[store[o]].ro
  /\ \/ /\ run.h = snap[o].source
        /\ tree[store[o]].parent = snap[o].clone /\ InventoryOf(store[o]) = snap[o].desired
        /\ MatchingSource(o)
        /\ GoTo(o, "swap")
     \/ /\ run.h # snap[o].source
        /\ store[o] = snap[o].source /\ tree[run.h].parent = snap[o].clone
        /\ GoTo(o, "exchanged")
  /\ UNCHANGED <<tree, live, store, snap, writes, deaths>>

Exchange(o) ==
  /\ AtStep(o, "swap")
  /\ ExchangeTrees(o)
  /\ GoTo(o, "exchanged")
  /\ UNCHANGED <<tree, snap, writes, deaths>>

Verifying(o) ==
  /\ AtStep(o, "exchanged")
  /\ snap' = [snap EXCEPT ![o].status = "verifying"]
  /\ GoTo(o, "verify")
  /\ UNCHANGED <<tree, live, store, writes, deaths>>

\* Identity and contents of the live and of the displaced tree.
Verify(o) ==
  /\ AtStep(o, "verify")
  /\ tree[live].parent = snap[o].clone /\ InventoryOf(live) = snap[o].desired
  /\ store[o] = snap[o].source /\ InventoryOf(store[o]) = snap[o].before
  /\ GoTo(o, "finish")
  /\ UNCHANGED <<tree, live, store, snap, writes, deaths>>

SnapFinish(o) ==
  /\ AtStep(o, "finish")
  /\ snap' = [snap EXCEPT ![o].status = IF o \in Checkpoints THEN "committed" ELSE "recovered"]
  /\ run' = NoTree
  /\ UNCHANGED <<tree, live, store, writes, deaths>>

\* Any check or native call may fail; what was done is kept for inspection.
SnapFail(o) ==
  /\ run # NoTree /\ run.op = o
  /\ snap' = [snap EXCEPT ![o].status = "outcome_unknown"]
  /\ run' = NoTree
  /\ UNCHANGED <<tree, live, store, writes, deaths>>

\* The executor dies, with whatever the journal says.
SnapDie(o) ==
  /\ run # NoTree /\ run.op = o /\ deaths < MaxDeaths
  /\ run' = NoTree /\ deaths' = deaths + 1
  /\ UNCHANGED <<tree, live, store, snap, writes>>

\* Another program writes to a writable tree, also to a displaced one it holds open.
ForeignWrite ==
  /\ writes < MaxWrites /\ writes' = writes + 1
  /\ \E s \in Subvolumes, v \in Versions :
       /\ tree[s] # NoTree /\ ~tree[s].ro
       /\ tree' = [tree EXCEPT ![s].version = v]
  /\ UNCHANGED <<live, store, snap, run, deaths>>

SnapNext ==
  \/ \E o \in Checkpoints : PrepareSnapshot(o) \/ Inventory(o)
  \/ \E o \in Restores : (\E c \in Checkpoints : PrepareSnapshotRestore(o, c))
                         \/ MayExchange(o) \/ Exchange(o) \/ Verifying(o) \/ Verify(o)
  \/ \E o \in SnapOps : RunSnapshot(o) \/ MayClone(o) \/ Clone(o) \/ SnapFinish(o) \/ SnapFail(o) \/ SnapDie(o)
  \/ ForeignWrite

SnapSpec == SnapInit /\ [][SnapNext]_snapVars

-----------------------------------------------------------------------------
\* What an operator who restores a subvolume relies on.

\* A committed checkpoint has the contents that were reviewed, although other
\* programs wrote between the review, the last check and the clone.
CheckpointIsReviewed ==
  \A c \in Checkpoints : snap[c].status = "committed" =>
    /\ tree[store[c]].ro
    /\ InventoryOf(store[c]) = snap[c].desired
    /\ snap[c].receipt = store[c]

\* "Atomic namespace exchange retains the entire old tree": no tree that was ever
\* reachable, at the path or in the store, stops being reachable, and a restore,
\* resumed any number of times, never makes the tree it displaced live again.
RestoreStands ==
  [][/\ {live} \cup {store[o] : o \in SnapOps} \subseteq
          {NoTree, live'} \cup {store'[o] : o \in SnapOps}
     /\ \A o \in Restores : store[o] = snap[o].source /\ store[o] # NoTree => store'[o] = store[o]]_snapVars
=============================================================================
