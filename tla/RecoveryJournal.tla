--------------------------- MODULE RecoveryJournal ---------------------------
(***************************************************************************)
(* The promise the recovery journal makes to its readers (the operator's   *)
(* CLI, the model's recovery tool, a fleet controller), whatever adapter    *)
(* executes the operation: the status recorded in the state database       *)
(* follows one graph, and the status alone tells whether the operation may *)
(* already have changed the machine.                                       *)
(*                                                                         *)
(*   none -> preparing -> ready -> applying -> verifying -> committed       *)
(*               |          |          \           |            |          *)
(*     preparation_failed   |           outcome_unknown         |          *)
(*                          |                 |                 |          *)
(*                          +--> recovered <- rolling_back <----+          *)
(*                                              |    ^                     *)
(*                                         recovery_failed                 *)
(*                                                                         *)
(* The detailed executors are shown to implement this specification.       *)
(***************************************************************************)

CONSTANT Ops        \* identifiers of recovery operations

VARIABLES
  status,           \* [Ops -> Status]: the status column of recovery_operations
  touched           \* the operations that have changed a target object

vars == <<status, touched>>

\* "none" stands for an operation that has no journal row yet; ssh_armed and
\* awaiting_confirmation belong to the guarded SSH protocol and are left to it.
Status == {"none", "preparing", "ready", "preparation_failed",
           "validating", "validation_failed",
           "applying", "verifying", "committed", "outcome_unknown",
           "rolling_back", "recovered", "recovery_failed"}

\* Statuses under which a reader may conclude that nothing was changed.
BeforeApplication == {"none", "preparing", "ready", "preparation_failed",
                      "validating", "validation_failed"}

\* Statuses whose operation is being, or was being, executed.
InFlight == {"validating", "applying", "verifying", "rolling_back"}

\* Statuses from which restoration may start.
Restorable == InFlight \cup {"committed", "outcome_unknown", "recovery_failed"}

\* The edges of the lifecycle other than the ones that reach "recovered".
Moves ==
  {<<"none", "preparing">>, <<"preparing", "ready">>,
   <<"preparing", "preparation_failed">>, <<"ready", "validating">>,
   <<"validating", "validation_failed">>, <<"ready", "applying">>,
   <<"validating", "applying">>, <<"applying", "verifying">>,
   <<"applying", "outcome_unknown">>, <<"verifying", "committed">>,
   <<"verifying", "outcome_unknown">>, <<"validating", "outcome_unknown">>,
   <<"rolling_back", "outcome_unknown">>, <<"rolling_back", "recovery_failed">>}
  \cup {<<s, "rolling_back">> : s \in Restorable}

Init ==
  /\ status = [o \in Ops |-> "none"]
  /\ touched = {}

\* The journal records the next status of o.
Record(o, s) ==
  /\ <<status[o], s>> \in Moves
  /\ status' = [status EXCEPT ![o] = s]
  /\ UNCHANGED touched

\* A prepared operation is made terminal without ever having been applied.
Cancel(o) ==
  /\ status[o] = "ready"
  /\ o \notin touched
  /\ status' = [status EXCEPT ![o] = "recovered"]
  /\ UNCHANGED touched

\* Restoration is complete.
Restored(o) ==
  /\ status[o] = "rolling_back"
  /\ status' = [status EXCEPT ![o] = "recovered"]
  /\ UNCHANGED touched

\* A target object changes, always under a journalled intention to change it.
Change(o) ==
  /\ status[o] \in {"applying", "rolling_back"}
  /\ touched' = touched \cup {o}
  /\ UNCHANGED status

Next ==
  \E o \in Ops :
    \/ \E s \in Status : Record(o, s)
    \/ Cancel(o)
    \/ Restored(o)
    \/ Change(o)

Spec == Init /\ [][Next]_vars

-----------------------------------------------------------------------------
\* What a reader of the journal may rely on.

\* A status of BeforeApplication is proof that no target object was changed:
\* recovery of such an operation is refused as unnecessary (engine.go:756-758).
UnappliedIsUntouched ==
  \A o \in Ops : status[o] \in BeforeApplication => o \notin touched

\* "recovered" is final: nothing is applied, restored or changed for the operation
\* any more, also not by a call that was under way (engine.go:727-729, 731-734).
RecoveredIsFinal ==
  [][\A o \in Ops : status[o] = "recovered" =>
       /\ status'[o] = "recovered"
       /\ o \in touched' => o \in touched]_vars
=============================================================================
