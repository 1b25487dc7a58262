-------------------------------- MODULE Fleet --------------------------------
(***************************************************************************)
(* The fleet controller (recovery/fleet.go): a batch of operations, each   *)
(* already prepared on its own host, is applied host after host over SSH,  *)
(* inspected, and restored in reverse order.                               *)
(*                                                                         *)
(* The hosts' journals are RecoveryJournal's status and touched; a host     *)
(* moves an operation along that graph when a command reaches it, or when   *)
(* its own operator restores it.  The controller's row of a batch is in     *)
(* `batch'; one call at a time holds executor.lock and works on its own     *)
(* copy of the row (mem) until it saves it.  The controller may die, or a   *)
(* save may fail, between any two steps; a command may be delivered long    *)
(* after its session was given up.                                         *)
(***************************************************************************)
EXTENDS RecoveryJournal, Naturals, Sequences, FiniteSetsExt, SequencesExt

CONSTANTS
  Batches,          \* identifiers of batches
  HostOf,           \* [Ops -> hosts]: expected_target of the operation's host
  Impact,           \* [Ops -> Nat]: files, bytes and services of the operation
  MaxImpact,        \* the operator's aggregate limit
  MaxRepairAttempts,\* repair commands per entry
  Plans,            \* the references a request to prepare may name
  None

ASSUME FleetAssumption == Plans \subseteq Seq(Ops) /\ MaxRepairAttempts \in Nat

VARIABLES
  batch,            \* [Batches -> row of recovery_batches, or None]
  claim,            \* [Ops -> Batches \cup {None}]: recovery_batch_claims
  call,             \* the call that holds the lock, or None
  wire,             \* commands on their way to a host
  sent              \* [Ops -> [apply, recover : Nat]]: commands ever sent (history)

fleetVars == <<status, touched, batch, claim, call, wire, sent>>

BatchStatus == {"ready", "applying", "committed", "outcome_unknown", "rollout_stopped",
                "rolling_back", "recovered", "recovery_failed"}

Kinds == {"apply", "recover", "reconcile"}

\* What the row of a batch says of one host, the row, and a call under way.
Outcome == [dispatched : BOOLEAN, state : Status, repairs : 0 .. MaxRepairAttempts]
FleetRow ==
  UNION {[status : BatchStatus, ops : {ops}, out : [DOMAIN ops -> Outcome]] : ops \in Plans}
FleetCall ==
  [b : Batches, kind : Kinds, mem : FleetRow, i : Nat, at : {"inspect", "send", "await"},
   bad : BOOLEAN]

ASSUME NoneAssumption == None \notin Batches \cup FleetRow \cup FleetCall

FleetTypeOK ==
  /\ status \in [Ops -> Status] /\ touched \subseteq Ops
  /\ batch \in [Batches -> FleetRow \cup {None}]
  /\ claim \in [Ops -> Batches \cup {None}]
  /\ call \in FleetCall \cup {None}
  /\ wire \subseteq Ops \X {"apply", "recover"} \X (0 .. MaxRepairAttempts)
  /\ sent \in [Ops -> [apply : Nat, recover : Nat]]

FleetInit ==
  /\ Init
  /\ batch = [b \in Batches |-> None]
  /\ claim = [o \in Ops |-> None]
  /\ call = None
  /\ wire = {}
  /\ sent = [o \in Ops |-> [apply |-> 0, recover |-> 0]]

-----------------------------------------------------------------------------
\* Preparation of a batch.

\* The aggregate impact is within the limits, and no machine occurs twice.
WithinLimits(ops) ==
  /\ MapThenSumSet(LAMBDA i : Impact[ops[i]], DOMAIN ops) <= MaxImpact
  /\ IsInjective([i \in DOMAIN ops |-> HostOf[ops[i]]])

\* The claims are inserted with the row; a claim is a primary key.
Claims(b, ops) ==
  /\ \A o \in ToSet(ops) : claim[o] = None
  /\ claim' = [o \in Ops |-> IF o \in ToSet(ops) THEN b ELSE claim[o]]

PrepareBatch(b, ops) ==
  /\ call = None /\ batch[b] = None
  /\ \A o \in ToSet(ops) : status[o] = "ready"
  /\ WithinLimits(ops)
  /\ Claims(b, ops)
  /\ batch' = [batch EXCEPT ![b] =
       [status |-> "ready", ops |-> ops,
        out |-> [i \in DOMAIN ops |-> [dispatched |-> FALSE, state |-> "ready", repairs |-> 0]]]]
  /\ UNCHANGED <<status, touched, call, wire, sent>>

-----------------------------------------------------------------------------
\* Calls.  mem is the FleetBatch in memory, i the entry at hand.

Row == call.mem
Op == Row.ops[call.i]
Out == Row.out[call.i]

\* The row with a new outcome of the entry at hand.
WithOut(o) == [Row EXCEPT !.out[call.i] = o]

Saved(row, s) == batch' = [batch EXCEPT ![call.b] = [row EXCEPT !.status = s]]

\* saveBatch as the last thing a call does.
Finish(row, s) == Saved(row, s) /\ call' = None

\* The call goes on, with this row in memory.
Go(row, i, at) == call' = [call EXCEPT !.mem = row, !.i = i, !.at = at]

\* Variant: a batch that stopped may be applied again.
ApplicableAgain(b) == batch[b].status \in {"ready", "applying", "rollout_stopped", "outcome_unknown"}

\* "a dispatched batch cannot be applied again; inspect/reconcile/recover"
Applicable(b) == batch[b].status = "ready"

\* The last thing that happens before the first host is asked; the inspection of
\* every host before the first dispatch is the guard.  Policy, limits and age of
\* the manifest (currentFleetPlan) can only refuse the call.
BeginApply(b) ==
  /\ Applicable(b)
  /\ \A o \in ToSet(batch[b].ops) : status[o] = "ready"
  /\ call' = [b |-> b, kind |-> "apply", mem |-> batch[b], i |-> 1, at |-> "inspect", bad |-> FALSE]

BeginRecover(b) ==
  /\ batch[b].status \notin {"ready", "recovered"}
  /\ call' = [b |-> b, kind |-> "recover", mem |-> batch[b], i |-> Len(batch[b].ops),
              at |-> "inspect", bad |-> FALSE]

BeginReconcile(b) ==
  /\ batch[b].status # "ready"
  /\ call' = [b |-> b, kind |-> "reconcile", mem |-> batch[b], i |-> 1, at |-> "inspect", bad |-> FALSE]

\* The operator's CLI and the model's tool enter the same three calls.
Begin(b) ==
  /\ call = None /\ batch[b] # None
  /\ BeginApply(b) \/ BeginRecover(b) \/ BeginReconcile(b)
  /\ UNCHANGED <<status, touched, batch, claim, wire, sent>>

In(kind, at) == call # None /\ call.kind = kind /\ call.at = at /\ call.i \in DOMAIN Row.ops

Unmoved == UNCHANGED <<status, touched, claim, wire, sent>>

\* --- ApplyBatch

\* The entry is inspected again, and its dispatch is recorded before it is sent.
Dispatch ==
  /\ In("apply", "inspect")
  /\ status[Op] = "ready"
  /\ LET row == WithOut([Out EXCEPT !.dispatched = TRUE, !.state = "outcome_unknown"])
     IN  Saved(row, "applying") /\ Go(row, call.i, "send")
  /\ Unmoved

\* The inspection fails, or the operation is no longer ready.
ApplyStopped ==
  /\ In("apply", "inspect")
  /\ Finish(Row, "rollout_stopped")
  /\ Unmoved

\* The typed command is sent over the pinned transport.
Send ==
  /\ call # None /\ call.at = "send"
  /\ LET kind == call.kind IN
       /\ wire' = wire \cup {<<Op, kind, Out.repairs>>}
       /\ sent' = [sent EXCEPT ![Op][kind] = @ + 1]
  /\ Go(Row, call.i, "await")
  /\ UNCHANGED <<status, touched, batch, claim>>

\* The command is over at the host, and its answer says how the operation stands.
Answered == <<Op, call.kind, Out.repairs>> \notin wire /\ status[Op] \notin InFlight

\* "target did not commit; later hosts untouched"
ApplyAnswer ==
  /\ In("apply", "await") /\ Answered
  /\ LET row == WithOut([Out EXCEPT !.state = status[Op]])
     IN  CASE status[Op] # "committed" -> Finish(row, "rollout_stopped")
           [] status[Op] = "committed" /\ call.i < Len(Row.ops) ->
                Saved(row, "applying") /\ Go(row, call.i + 1, "inspect")
           [] OTHER -> Finish(row, "committed")
  /\ Unmoved

\* The session fails, times out, or answers something else; the command may run yet.
ApplyLost ==
  /\ In("apply", "await")
  /\ Finish(Row, "outcome_unknown")
  /\ Unmoved

\* --- RecoverBatch

\* The entry needs no repair: it was not dispatched, or its host says recovered.
Skip ==
  /\ In("recover", "inspect")
  /\ \/ ~Out.dispatched /\ Go(Row, call.i - 1, "inspect")
     \/ Out.dispatched /\ status[Op] = "recovered"
        /\ Go(WithOut([Out EXCEPT !.state = "recovered"]), call.i - 1, "inspect")
  /\ UNCHANGED batch /\ Unmoved

\* A repair is counted and recorded before it is sent.
Repair ==
  /\ In("recover", "inspect")
  /\ Out.dispatched /\ status[Op] # "recovered" /\ Out.repairs < MaxRepairAttempts
  /\ LET row == WithOut([Out EXCEPT !.state = "outcome_unknown", !.repairs = @ + 1])
     IN  Saved(row, "rolling_back") /\ Go(row, call.i, "send")
  /\ Unmoved

RepairsExhausted ==
  /\ In("recover", "inspect")
  /\ Out.dispatched /\ status[Op] # "recovered" /\ Out.repairs >= MaxRepairAttempts
  /\ Finish(Row, "recovery_failed")
  /\ Unmoved

\* The inspection or the repair has no answer.
RecoverLost ==
  /\ (In("recover", "inspect") /\ Out.dispatched) \/ In("recover", "await")
  /\ Finish(Row, "outcome_unknown")
  /\ Unmoved

RepairAnswer ==
  /\ In("recover", "await") /\ Answered
  /\ LET row == WithOut([Out EXCEPT !.state = status[Op]])
     IN  IF status[Op] # "recovered" THEN Finish(row, "recovery_failed")
         ELSE Saved(row, "rolling_back") /\ Go(row, call.i - 1, "inspect")
  /\ Unmoved

RecoverDone ==
  /\ call # None /\ call.kind = "recover" /\ call.i = 0
  /\ Finish(Row, "recovered")
  /\ Unmoved

\* --- ReconcileBatch

\* Variant: ready after a dispatch counts as not applied.
ObservedAsRestored(o) == IF status[o] = "ready" THEN "recovered" ELSE status[o]

\* "Ready after dispatch is still an unknown outcome."
Observed(o) == IF status[o] = "ready" THEN "outcome_unknown" ELSE status[o]

\* One entry is inspected; an undispatched one is passed over.
Look ==
  /\ In("reconcile", "inspect")
  /\ \/ ~Out.dispatched /\ Go(Row, call.i + 1, "inspect")
     \/ Out.dispatched /\ Go(WithOut([Out EXCEPT !.state = Observed(Op)]), call.i + 1, "inspect")
  /\ UNCHANGED batch /\ Unmoved

LookFails ==
  /\ In("reconcile", "inspect") /\ Out.dispatched
  /\ call' = [call EXCEPT !.mem = WithOut([Out EXCEPT !.state = "outcome_unknown"]),
                          !.i = @ + 1, !.bad = TRUE]
  /\ UNCHANGED batch /\ Unmoved

Conclude ==
  /\ call # None /\ call.kind = "reconcile" /\ call.i > Len(Row.ops)
  /\ LET out == ToSet(Row.out) IN
       Finish(Row,
         CASE call.bad -> "outcome_unknown"
           [] ~call.bad /\ \A e \in out : e.dispatched /\ e.state = "committed" -> "committed"
           [] ~call.bad /\ \A e \in out : e.dispatched => e.state = "recovered" -> "recovered"
           [] OTHER -> "rollout_stopped")
  /\ Unmoved

\* The controller dies, or the call returns because a save failed.
ControllerDies ==
  /\ call # None
  /\ call' = None
  /\ UNCHANGED batch /\ Unmoved

-----------------------------------------------------------------------------
\* The hosts.

HostVars == UNCHANGED <<batch, claim, call, sent>>

\* A prepared operation is started by an apply command, by nothing else.
Deliver(o) ==
  \E c \in wire : c[1] = o /\ wire' = wire \ {c} /\
    CASE c[2] = "apply" -> \E s \in {"validating", "applying"} : Record(o, s)
      [] c[2] = "recover" /\ status[o] = "ready" -> Cancel(o)
      [] OTHER -> Record(o, "rolling_back")

\* The executor refuses: the operation is not ready any more, or is over.
Refuse(o) ==
  /\ \E c \in wire :
       /\ c[1] = o /\ wire' = wire \ {c}
       /\ IF c[2] = "apply" THEN status[o] # "ready"
                            ELSE status[o] # "ready" /\ status[o] \in BeforeApplication \cup {"recovered"}
  /\ UNCHANGED <<status, touched>>

\* The host's own planner prepares operations, its executor works on, its
\* operator restores or cancels.
HostWorks(o) ==
  /\ \/ \E s \in {"preparing", "ready", "preparation_failed"} : Record(o, s)
     \/ status[o] \in InFlight /\ \E s \in Status : Record(o, s)
     \/ Record(o, "rolling_back")
     \/ Cancel(o)
     \/ Restored(o)
     \/ Change(o)
  /\ UNCHANGED wire

FleetNext ==
  \/ \E b \in Batches : (\E ops \in Plans : PrepareBatch(b, ops)) \/ Begin(b)
  \/ Dispatch \/ ApplyStopped \/ Send \/ ApplyAnswer \/ ApplyLost
  \/ Skip \/ Repair \/ RepairsExhausted \/ RecoverLost \/ RepairAnswer \/ RecoverDone
  \/ Look \/ LookFails \/ Conclude \/ ControllerDies
  \/ \E o \in Ops : (Deliver(o) \/ Refuse(o) \/ HostWorks(o)) /\ HostVars

FleetSpec == FleetInit /\ [][FleetNext]_fleetVars

-----------------------------------------------------------------------------
\* What the operator of a fleet may rely on.

\* The position of o in the batch that claimed it.
EntryOf(o) == LET b == claim[o] IN
  IF b = None THEN [dispatched |-> FALSE, repairs |-> 0]
  ELSE batch[b].out[CHOOSE i \in DOMAIN batch[b].ops : batch[b].ops[i] = o]

\* "A dispatched batch can never be applied again, including after a controller
\* crash", and every repair ever sent was paid from the entry's stored budget.
CommandsAccounted ==
  \A o \in Ops : /\ sent[o].apply <= 1
                 /\ sent[o].recover <= EntryOf(o).repairs
                 /\ EntryOf(o).repairs <= MaxRepairAttempts

\* What the stored row says of its hosts is so, however late the commands run and
\* wherever the controller died: an operation it does not call dispatched was never
\* started ("later hosts untouched"); when an entry was dispatched, or the batch is
\* called committed, the apply of each earlier entry is behind; and in a batch that is
\* called recovered every dispatched operation is over for good, an apply that is
\* still on the wire included (ApplyBatch, ReconcileBatch, RecoverBatch).
BatchIsTrue ==
  /\ \A o \in Ops : ~EntryOf(o).dispatched =>
       o \notin touched /\ status[o] \in BeforeApplication \cup {"recovered"}
  /\ \A b \in Batches : batch[b] # None =>
       \A i, j \in DOMAIN batch[b].ops :
         /\ (i < j /\ batch[b].out[j].dispatched) \/ batch[b].status = "committed" =>
              /\ status[batch[b].ops[i]] \notin BeforeApplication
              /\ <<batch[b].ops[i], "apply", 0>> \notin wire
         /\ batch[b].status = "recovered" /\ batch[b].out[i].dispatched =>
              status[batch[b].ops[i]] = "recovered"
=============================================================================
