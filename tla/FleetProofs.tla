----------------------------- MODULE FleetProofs -----------------------------
(***************************************************************************)
(* The recovery journal and the fleet controller, for any operations,      *)
(* batches, hosts, plans, limits and number of repair attempts.            *)
(*                                                                         *)
(* What a reader may conclude from a status is an invariant of the journal *)
(* alone (JournalInv).  For the controller FleetInv adds, to the types:    *)
(* Started (an apply that has not arrived did nothing), Owned (rows and    *)
(* claims belong together, which keeps two batches off one operation),     *)
(* RowIsTrue of each stored row, and CallIsTrue, how far the copy of the   *)
(* call that holds the lock may be ahead of the row it is about to save:   *)
(* whatever a crash or a failed save loses is not yet told to a host.      *)
(* What they say of a host stays true whatever it does (MovesForward,      *)
(* CallStands), so that each step of the controller is looked at alone     *)
(* (NextIsTrue), and FleetSpec implements the journal's Spec.              *)
(***************************************************************************)
EXTENDS Fleet, TLAPS

-----------------------------------------------------------------------------
\* The journal: what a reader may conclude from a status.

JournalInv ==
  /\ status \in [Ops -> Status]
  /\ touched \subseteq Ops
  /\ UnappliedIsUntouched

LEMMA JournalInit == Init => JournalInv
BY DEF Init, JournalInv, Status, UnappliedIsUntouched

LEMMA JournalStep == JournalInv /\ [Next]_vars => JournalInv'
<1> SUFFICES ASSUME JournalInv, [Next]_vars PROVE JournalInv'
  OBVIOUS
<1> USE DEF JournalInv, UnappliedIsUntouched, BeforeApplication
<1>1. ASSUME NEW o \in Ops, NEW s \in Status, Record(o, s) PROVE JournalInv'
  <2>1. s \in BeforeApplication => status[o] \in BeforeApplication
    BY <1>1 DEF Record, Moves, Restorable, InFlight
  <2> QED
    BY <1>1, <2>1 DEF Record
<1>2. ASSUME NEW o \in Ops, Cancel(o) \/ Restored(o) PROVE JournalInv'
  BY <1>2 DEF Cancel, Restored, Status
<1>3. ASSUME NEW o \in Ops, Change(o) PROVE JournalInv'
  BY <1>3 DEF Change
<1>4. CASE UNCHANGED vars
  BY <1>4 DEF vars
<1> QED
  BY <1>1, <1>2, <1>3, <1>4 DEF Next

LEMMA JournalInductive == Spec => []JournalInv
BY JournalInit, JournalStep, PTL DEF Spec

\* An operation whose status is one of BeforeApplication has changed nothing.
THEOREM StatusProvesUntouched == Spec => []UnappliedIsUntouched
<1>1. JournalInv => UnappliedIsUntouched
  BY DEF JournalInv
<1> QED
  BY <1>1, JournalInductive, PTL

\* No step leaves "recovered" or changes the machine for a recovered operation.
THEOREM RecoveredStays == Spec => RecoveredIsFinal
<1>1. JournalInv /\ [Next]_vars =>
        [\A o \in Ops : status[o] = "recovered" =>
            /\ status'[o] = "recovered"
            /\ o \in touched' => o \in touched]_vars
  <2> SUFFICES ASSUME JournalInv, Next, NEW p \in Ops, status[p] = "recovered"
               PROVE  status'[p] = "recovered" /\ (p \in touched' => p \in touched)
    BY DEF vars
  <2>1. ASSUME NEW o \in Ops, NEW s \in Status, Record(o, s)
        PROVE  status'[p] = "recovered" /\ (p \in touched' => p \in touched)
    BY <2>1 DEF Record, Moves, Restorable, InFlight, JournalInv
  <2>2. ASSUME NEW o \in Ops, Cancel(o) \/ Restored(o) \/ Change(o)
        PROVE  status'[p] = "recovered" /\ (p \in touched' => p \in touched)
    BY <2>2 DEF Cancel, Restored, Change, JournalInv
  <2> QED
    BY <2>1, <2>2 DEF Next
<1> QED
  BY <1>1, JournalInductive, PTL DEF Spec, RecoveredIsFinal

-----------------------------------------------------------------------------
\* The controller: the parts of its inductive invariant.

\* The statuses of an operation that no command has started.
NotStarted == {"none", "preparing", "ready", "preparation_failed", "recovered"}

\* An apply that has not been sent, or has not arrived, has done nothing.
Started ==
  /\ \A o \in Ops : sent[o].apply = 0 \/ <<o, "apply", 0>> \in wire =>
       o \notin touched /\ status[o] \in NotStarted
  /\ \A c \in wire : c[2] = "apply" => c[3] = 0 /\ sent[c[1]].apply = 1

\* A row and its claims belong together.
Owned ==
  /\ \A b \in Batches : batch[b] # None =>
       \A i \in DOMAIN batch[b].ops :
         /\ claim[batch[b].ops[i]] = b
         /\ \A j \in DOMAIN batch[b].ops : batch[b].ops[i] = batch[b].ops[j] => i = j
  /\ \A o \in Ops :
       IF claim[o] = None THEN sent[o] = [apply |-> 0, recover |-> 0]
       ELSE batch[claim[o]] # None /\ \E i \in DOMAIN batch[claim[o]].ops : batch[claim[o]].ops[i] = o

\* The apply of o has been executed.
Behind(o) ==
  sent[o].apply = 1 /\ <<o, "apply", 0>> \notin wire /\ status[o] \notin BeforeApplication

\* An outcome, in a stored row or in memory, as far as it binds the host.
TrueOf(o, e) ==
  /\ sent[o].apply <= 1 /\ (~e.dispatched => sent[o].apply = 0)
  /\ sent[o].recover <= e.repairs
  /\ e.state = "committed" => Behind(o)
  /\ e.state = "recovered" => status[o] = "recovered"

RowIsTrue(row) ==
  /\ \A i \in DOMAIN row.ops : TrueOf(row.ops[i], row.out[i])
  /\ row.status = "ready" =>
       \A i \in DOMAIN row.ops : ~row.out[i].dispatched /\ row.out[i].repairs = 0
  /\ row.status = "committed" => \A i \in DOMAIN row.ops : Behind(row.ops[i])
  /\ row.status = "recovered" =>
       \A i \in DOMAIN row.ops : row.out[i].dispatched => status[row.ops[i]] = "recovered"
  /\ \A i, j \in DOMAIN row.ops : i < j /\ row.out[j].dispatched => Behind(row.ops[i])

\* What a call may rely on between two of its steps.
CallIsTrue ==
  LET stored == batch[call.b] row == call.mem n == call.i IN
  /\ stored # None /\ stored.ops = row.ops
  /\ \A k \in DOMAIN row.ops :
       /\ row.out[k].dispatched = stored.out[k].dispatched
       /\ row.out[k].repairs = stored.out[k].repairs
       /\ TrueOf(row.ops[k], row.out[k])
  /\ call.at # "inspect" => n \in DOMAIN row.ops /\ call.kind # "reconcile"
  /\ call.kind = "apply" =>
       /\ stored.status \in {"ready", "applying"}
       /\ \A k \in DOMAIN row.ops :
            /\ row.out[k].repairs = 0
            /\ k < n => Behind(row.ops[k])
            /\ k > n \/ (k = n /\ call.at = "inspect") => ~row.out[k].dispatched
       /\ call.at = "send" => sent[row.ops[n]].apply = 0
       /\ call.at # "inspect" => row.out[n].dispatched
  /\ call.kind = "recover" =>
       /\ \A k \in DOMAIN row.ops : k > n /\ row.out[k].dispatched => status[row.ops[k]] = "recovered"
       /\ call.at = "send" => sent[row.ops[n]].recover < row.out[n].repairs

FleetInv ==
  /\ FleetTypeOK /\ Started /\ Owned
  /\ \A b \in Batches : batch[b] # None => RowIsTrue(batch[b])
  /\ call # None => CallIsTrue
-----------------------------------------------------------------------------
\* Facts about rows and calls.

LEMMA RowShape ==
  ASSUME NEW r \in FleetRow
  PROVE  /\ r.status \in BatchStatus /\ r.ops \in Plans /\ r.ops \in Seq(Ops)
         /\ Len(r.ops) \in Nat /\ DOMAIN r.ops = 1 .. Len(r.ops)
         /\ \A i \in DOMAIN r.ops : r.ops[i] \in Ops /\ r.out[i] \in Outcome
         /\ r.out \in [DOMAIN r.ops -> Outcome]
<1>1. PICK ops \in Plans : r \in [status : BatchStatus, ops : {ops}, out : [DOMAIN ops -> Outcome]]
  BY DEF FleetRow
<1>2. r.ops = ops /\ r.status \in BatchStatus /\ r.out \in [DOMAIN ops -> Outcome]
  BY <1>1
<1>3. ops \in Seq(Ops)
  BY FleetAssumption
<1> QED
  BY <1>2, <1>3

LEMMA RowMade ==
  ASSUME NEW ops \in Plans, NEW out \in [DOMAIN ops -> Outcome], NEW s \in BatchStatus
  PROVE  [status |-> s, ops |-> ops, out |-> out] \in FleetRow
BY DEF FleetRow

LEMMA RowRestated ==
  ASSUME NEW r \in FleetRow, NEW s \in BatchStatus
  PROVE  /\ [r EXCEPT !.status = s] \in FleetRow
         /\ [r EXCEPT !.status = s].status = s
         /\ [r EXCEPT !.status = s].ops = r.ops /\ [r EXCEPT !.status = s].out = r.out
<1>1. PICK ops \in Plans : r \in [status : BatchStatus, ops : {ops}, out : [DOMAIN ops -> Outcome]]
  BY DEF FleetRow
<1>2. [r EXCEPT !.status = s] \in [status : BatchStatus, ops : {ops}, out : [DOMAIN ops -> Outcome]]
  BY <1>1
<1> QED
  BY <1>1, <1>2 DEF FleetRow

LEMMA RowUpdated ==
  ASSUME NEW r \in FleetRow, NEW i \in DOMAIN r.ops, NEW e \in Outcome
  PROVE  /\ [r EXCEPT !.out[i] = e] \in FleetRow
         /\ [r EXCEPT !.out[i] = e].ops = r.ops
         /\ [r EXCEPT !.out[i] = e].out = [r.out EXCEPT ![i] = e]
<1>1. PICK ops \in Plans : r \in [status : BatchStatus, ops : {ops}, out : [DOMAIN ops -> Outcome]]
  BY DEF FleetRow
<1>2. [r EXCEPT !.out[i] = e] \in [status : BatchStatus, ops : {ops}, out : [DOMAIN ops -> Outcome]]
  BY <1>1
<1> QED
  BY <1>1, <1>2 DEF FleetRow

-----------------------------------------------------------------------------
\* The hosts.

\* What was executed stays executed, and "recovered" is final.
Later ==
  \A o \in Ops : /\ Behind(o) => Behind(o)'
                 /\ status[o] = "recovered" => status'[o] = "recovered"

LEMMA CallStands ==
  ASSUME FleetTypeOK, call # None, CallIsTrue, Later, UNCHANGED <<sent, batch, call>>
  PROVE  CallIsTrue'
<1>1. call.mem \in FleetRow
  BY DEF FleetTypeOK, FleetCall
<1>2. \A k \in DOMAIN call.mem.ops : call.mem.ops[k] \in Ops
  BY <1>1, RowShape
<1> QED
  BY <1>1, <1>2 DEF CallIsTrue, TrueOf, Later

\* An edge of the lifecycle does not lead back to before the application.
LEMMA MovesForward ==
  ASSUME NEW s, NEW t, <<s, t>> \in Moves
  PROVE  /\ t \in Status
         /\ s \notin BeforeApplication => t \notin BeforeApplication
         /\ s # "recovered"
         /\ t # "ready" \/ s = "preparing"
         /\ t \in {"validating", "applying"} => s \in {"ready", "validating"}
         /\ s \in NotStarted /\ t \notin NotStarted => s = "ready" /\ t \in {"validating", "applying"}
         /\ t # "rolling_back" \/ s \in Restorable
BY DEF Moves, Status, BeforeApplication, Restorable, InFlight, NotStarted

LEMMA HostStep ==
  ASSUME FleetInv, NEW o \in Ops, Deliver(o) \/ Refuse(o) \/ HostWorks(o), HostVars
  PROVE  FleetInv'
<1>t. FleetTypeOK /\ Started
  BY DEF FleetInv
<1>0. batch' = batch /\ claim' = claim /\ call' = call /\ sent' = sent
  BY DEF HostVars
\* The operation moves along an edge, is cancelled or restored, changes, or stands.
<1>1. /\ wire' \subseteq wire
      /\ \/ (\E s \in Status : Record(o, s)) \/ Cancel(o) \/ Restored(o) \/ Change(o)
         \/ UNCHANGED <<status, touched>>
      /\ status[o] \in NotStarted /\ (o \in touched' \ touched \/ status'[o] \notin NotStarted) =>
           \E c \in wire : c[1] = o /\ c[2] = "apply" /\ wire' = wire \ {c}
  <2>1. CASE Deliver(o)
    <3>1. PICK c \in wire : /\ c[1] = o /\ wire' = wire \ {c}
                            /\ CASE c[2] = "apply" -> \E s \in {"validating", "applying"} : Record(o, s)
                                 [] c[2] = "recover" /\ status[o] = "ready" -> Cancel(o)
                                 [] OTHER -> Record(o, "rolling_back")
      BY <2>1 DEF Deliver
    <3>2. CASE c[2] = "apply"
      BY <3>1, <3>2 DEF Status
    <3>3. CASE c[2] # "apply" /\ status[o] = "ready" /\ Cancel(o)
      BY <1>t, <3>1, <3>3 DEF Cancel, NotStarted, FleetTypeOK
    <3>4. CASE Record(o, "rolling_back")
      <4>1. status[o] \notin NotStarted
        BY <3>4, MovesForward DEF Record, NotStarted, Restorable, InFlight
      <4> QED
        BY <3>1, <3>4, <4>1 DEF Status
    <3>5. c[2] \in {"apply", "recover"}
      BY <1>t, <3>1 DEF FleetTypeOK
    <3> QED
      BY <3>1, <3>2, <3>3, <3>4, <3>5
  <2>2. CASE Refuse(o)
    BY <2>2 DEF Refuse
  <2>3. CASE HostWorks(o)
    <3>1. CASE \E s \in {"preparing", "ready", "preparation_failed"} : Record(o, s)
      BY <1>t, <2>3, <3>1 DEF HostWorks, Record, NotStarted, Status, FleetTypeOK
    <3>2. CASE status[o] \in InFlight /\ \E s \in Status : Record(o, s)
      BY <2>3, <3>2 DEF HostWorks, InFlight, NotStarted
    <3>3. CASE Record(o, "rolling_back")
      <4>1. status[o] \notin NotStarted
        BY <3>3, MovesForward DEF Record, NotStarted, Restorable, InFlight
      <4> QED
        BY <2>3, <3>3, <4>1 DEF HostWorks, Status
    <3>4. CASE Cancel(o) \/ Restored(o)
      BY <1>t, <2>3, <3>4 DEF HostWorks, Cancel, Restored, NotStarted, FleetTypeOK
    <3>5. CASE Change(o)
      BY <2>3, <3>5 DEF HostWorks, Change, NotStarted
    <3> QED
      BY <2>3, <3>1, <3>2, <3>3, <3>4, <3>5 DEF HostWorks
  <2> QED
    BY <2>1, <2>2, <2>3
<1>2. /\ status' \in [Ops -> Status] /\ touched' \subseteq Ops
      /\ \A p \in Ops : p # o => status'[p] = status[p] /\ (p \in touched' <=> p \in touched)
      /\ status[o] \notin BeforeApplication => status'[o] \notin BeforeApplication
      /\ status[o] = "recovered" => status'[o] = "recovered"
  <2>1. ASSUME NEW s \in Status, Record(o, s)
        PROVE  /\ status' \in [Ops -> Status] /\ touched' \subseteq Ops
               /\ \A p \in Ops : p # o => status'[p] = status[p] /\ (p \in touched' <=> p \in touched)
               /\ status[o] \notin BeforeApplication => status'[o] \notin BeforeApplication
               /\ status[o] = "recovered" => status'[o] = "recovered"
    BY <1>t, <2>1, MovesForward DEF Record, FleetTypeOK
  <2>2. CASE Cancel(o) \/ Restored(o)
    BY <1>t, <2>2 DEF Cancel, Restored, FleetTypeOK, Status, BeforeApplication
  <2>3. CASE Change(o)
    BY <1>t, <2>3 DEF Change, FleetTypeOK
  <2> QED
    BY <1>t, <1>1, <2>1, <2>2, <2>3 DEF FleetTypeOK
<1>3. FleetTypeOK'
  BY <1>t, <1>0, <1>1, <1>2 DEF FleetTypeOK
<1>4. Later
  BY <1>0, <1>1, <1>2 DEF Later, Behind
<1>5. Started'
  <2>1. ASSUME NEW c \in wire', c[2] = "apply" PROVE c[3] = 0 /\ sent'[c[1]].apply = 1
    BY <1>t, <1>0, <1>1, <2>1 DEF Started
  <2>2. ASSUME NEW p \in Ops, sent'[p].apply = 0 \/ <<p, "apply", 0>> \in wire'
        PROVE  p \notin touched' /\ status'[p] \in NotStarted
    <3>1. p \notin touched /\ status[p] \in NotStarted
      BY <1>t, <1>0, <1>1, <2>2 DEF Started
    <3>2. CASE p # o
      BY <1>2, <3>1, <3>2
    <3>3. CASE p = o
      <4>1. SUFFICES ASSUME NEW c \in wire, c[1] = o, c[2] = "apply", wire' = wire \ {c} PROVE FALSE
        BY <1>1, <3>1, <3>3
      <4>2. c = <<o, "apply", 0>> /\ sent[o].apply = 1
        BY <1>t, <4>1 DEF Started, FleetTypeOK
      <4> QED
        BY <1>0, <2>2, <3>3, <4>1, <4>2
    <3> QED
      BY <3>2, <3>3
  <2> QED
    BY <2>1, <2>2 DEF Started
<1>6. \A b \in Batches : batch'[b] # None => RowIsTrue(batch[b])'
  <2> SUFFICES ASSUME NEW b \in Batches, batch[b] # None PROVE RowIsTrue(batch[b])'
    BY <1>0
  <2>1. batch[b] \in FleetRow /\ RowIsTrue(batch[b])
    BY <1>t DEF FleetInv, FleetTypeOK
  <2>2. \A i \in DOMAIN batch[b].ops : batch[b].ops[i] \in Ops
    BY <2>1, RowShape
  <2> QED
    BY <1>0, <1>4, <2>1, <2>2 DEF RowIsTrue, TrueOf, Later
<1>7. Owned'
  BY <1>0 DEF FleetInv, Owned
<1>8. call' # None => CallIsTrue'
  BY <1>t, <1>0, <1>4, CallStands DEF FleetInv
<1> QED
  BY <1>3, <1>5, <1>6, <1>7, <1>8 DEF FleetInv

-----------------------------------------------------------------------------
\* The controller prepares a batch, and begins a call.

LEMMA PrepareStep ==
  ASSUME FleetInv, NEW b \in Batches, NEW ops \in Plans, PrepareBatch(b, ops)
  PROVE  FleetInv'
<1> DEFINE fresh == [status |-> "ready", ops |-> ops,
                     out |-> [i \in DOMAIN ops |-> [dispatched |-> FALSE, state |-> "ready", repairs |-> 0]]]
<1>t. FleetTypeOK /\ Started /\ Owned
  BY DEF FleetInv
<1>0. /\ batch' = [batch EXCEPT ![b] = fresh] /\ batch[b] = None /\ call = None
      /\ UNCHANGED <<status, touched, call, wire, sent>>
      /\ claim' = [o \in Ops |-> IF \E i \in DOMAIN ops : ops[i] = o THEN b ELSE claim[o]]
      /\ \A i \in DOMAIN ops : claim[ops[i]] = None
  BY DEF PrepareBatch, Claims, ToSet
<1>1. \A i \in DOMAIN ops : ops[i] \in Ops
  BY FleetAssumption
<1>2. \A i, j \in DOMAIN ops : ops[i] = ops[j] => i = j
  BY DEF PrepareBatch, WithinLimits, IsInjective
<1>3. fresh \in FleetRow /\ fresh # None
  <2>1. [i \in DOMAIN ops |-> [dispatched |-> FALSE, state |-> "ready", repairs |-> 0]] \in [DOMAIN ops -> Outcome]
    BY FleetAssumption DEF Outcome, Status
  <2>2. fresh \in FleetRow
    BY <2>1, RowMade DEF BatchStatus
  <2> QED
    BY <2>2, NoneAssumption
<1>4. /\ fresh.ops = ops /\ fresh.status = "ready"
      /\ \A i \in DOMAIN ops : fresh.out[i] = [dispatched |-> FALSE, state |-> "ready", repairs |-> 0]
  OBVIOUS
<1> HIDE DEF fresh
<1>5. FleetTypeOK'
  BY <1>t, <1>0, <1>3 DEF FleetTypeOK
<1>6. Started'
  BY <1>t, <1>0 DEF Started
<1>7. \A c \in Batches : batch'[c] = IF c = b THEN fresh ELSE batch[c]
  BY <1>t, <1>0 DEF FleetTypeOK
<1>8. Owned'
  <2>1. ASSUME NEW c \in Batches, batch'[c] # None, NEW i \in DOMAIN batch'[c].ops
        PROVE  /\ claim'[batch'[c].ops[i]] = c
               /\ \A j \in DOMAIN batch'[c].ops : batch'[c].ops[i] = batch'[c].ops[j] => i = j
    <3>1. CASE c = b
      BY <1>0, <1>1, <1>2, <1>4, <1>7, <2>1, <3>1
    <3>2. CASE c # b
      <4>1. batch'[c] = batch[c] /\ batch[c].ops[i] \in Ops /\ claim[batch[c].ops[i]] = c
        BY <1>t, <1>7, <2>1, <3>2, RowShape DEF FleetTypeOK, Owned
      <4>2. c # None
        BY NoneAssumption
      <4>3. claim'[batch[c].ops[i]] = c
        BY <1>0, <4>1, <4>2
      <4> QED
        BY <1>t, <2>1, <4>1, <4>3 DEF Owned
    <3> QED
      BY <3>1, <3>2
  <2>2. ASSUME NEW o \in Ops
        PROVE  IF claim'[o] = None THEN sent'[o] = [apply |-> 0, recover |-> 0]
               ELSE batch'[claim'[o]] # None /\ \E i \in DOMAIN batch'[claim'[o]].ops : batch'[claim'[o]].ops[i] = o
    <3>1. CASE \E i \in DOMAIN ops : ops[i] = o
      <4>1. claim'[o] = b /\ b # None /\ batch'[b] = fresh
        BY <1>0, <1>7, <3>1, NoneAssumption
      <4> QED
        BY <1>3, <1>4, <3>1, <4>1
    <3>2. CASE ~ \E i \in DOMAIN ops : ops[i] = o
      <4>1. claim'[o] = claim[o]
        BY <1>0, <3>2
      <4>2. CASE claim[o] = None
        BY <1>t, <1>0, <4>1, <4>2 DEF Owned
      <4>3. CASE claim[o] # None
        <5>1. claim[o] \in Batches /\ batch[claim[o]] # None
          BY <1>t, <4>3 DEF FleetTypeOK, Owned
        <5>2. batch'[claim[o]] = batch[claim[o]]
          BY <1>0, <1>7, <5>1
        <5> QED
          BY <1>t, <4>1, <4>3, <5>2 DEF Owned
      <4> QED
        BY <4>2, <4>3
    <3> QED
      BY <3>1, <3>2
  <2> QED
    BY <2>1, <2>2 DEF Owned
<1>9. ASSUME NEW c \in Batches, batch'[c] # None PROVE RowIsTrue(batch[c])'
  <2>1. CASE c = b
    <3>1. \A i \in DOMAIN ops : sent[ops[i]] = [apply |-> 0, recover |-> 0]
      BY <1>t, <1>0, <1>1 DEF Owned
    <3> QED
      BY <1>0, <1>4, <1>7, <2>1, <3>1 DEF RowIsTrue, TrueOf, Behind
  <2>2. CASE c # b
    <3>1. batch'[c] = batch[c] /\ RowIsTrue(batch[c])
      BY <1>7, <1>9, <2>2 DEF FleetInv
    <3> QED
      BY <1>0, <3>1 DEF RowIsTrue, TrueOf, Behind
  <2> QED
    BY <2>1, <2>2
<1> QED
  BY <1>0, <1>5, <1>6, <1>8, <1>9 DEF FleetInv

LEMMA BeginStep ==
  ASSUME FleetInv, NEW b \in Batches, Begin(b)
  PROVE  FleetInv'
<1>t. FleetTypeOK /\ Started /\ Owned
  BY DEF FleetInv
<1>0. batch[b] \in FleetRow /\ RowIsTrue(batch[b]) /\ batch[b] # None /\ UNCHANGED <<status, touched, batch, claim, wire, sent>>
  BY <1>t DEF Begin, FleetInv, FleetTypeOK
<1>1. /\ Len(batch[b].ops) \in Nat /\ DOMAIN batch[b].ops = 1 .. Len(batch[b].ops)
  BY <1>0, RowShape
<1>2. /\ call' \in FleetCall /\ call'.b = b /\ call'.mem = batch[b] /\ call'.at = "inspect"
      /\ \/ call'.kind = "apply" /\ call'.i = 1 /\ batch[b].status = "ready"
         \/ call'.kind = "recover" /\ call'.i = Len(batch[b].ops)
         \/ call'.kind = "reconcile"
  <2>1. CASE BeginApply(b)
    BY <1>0, <2>1 DEF BeginApply, Applicable, FleetCall, Kinds
  <2>2. CASE BeginRecover(b)
    BY <1>0, <1>1, <2>2 DEF BeginRecover, FleetCall, Kinds
  <2>3. CASE BeginReconcile(b)
    BY <1>0, <2>3 DEF BeginReconcile, FleetCall, Kinds
  <2> QED
    BY <2>1, <2>2, <2>3 DEF Begin
<1>3. FleetTypeOK'
  BY <1>t, <1>0, <1>2 DEF FleetTypeOK
<1>4. CallIsTrue'
  <2>1. \A k \in DOMAIN batch[b].ops : TrueOf(batch[b].ops[k], batch[b].out[k])'
    BY <1>0 DEF RowIsTrue, TrueOf, Behind
  <2>2. CASE call'.kind = "apply" /\ call'.i = 1 /\ batch[b].status = "ready"
    <3>1. \A k \in DOMAIN batch[b].ops : ~batch[b].out[k].dispatched /\ batch[b].out[k].repairs = 0 /\ ~(k < 1)
      BY <1>0, <1>1, <2>2 DEF RowIsTrue
    <3> QED
      BY <1>0, <1>2, <2>1, <2>2, <3>1 DEF CallIsTrue
  <2>3. CASE call'.kind = "recover" /\ call'.i = Len(batch[b].ops)
    <3>1. \A k \in DOMAIN batch[b].ops : ~(k > Len(batch[b].ops))
      BY <1>1
    <3> QED
      BY <1>0, <1>2, <2>1, <2>3, <3>1 DEF CallIsTrue
  <2>4. CASE call'.kind = "reconcile"
    BY <1>0, <1>2, <2>1, <2>4 DEF CallIsTrue
  <2> QED
    BY <1>2, <2>2, <2>3, <2>4
<1>5. ASSUME NEW c \in Batches, batch'[c] # None PROVE RowIsTrue(batch[c])'
  BY ZenonT(60), <1>0, <1>5 DEF FleetInv, RowIsTrue, TrueOf, Behind
<1> QED
  BY <1>t, <1>0, <1>3, <1>4, <1>5 DEF FleetInv, Started, Owned

-----------------------------------------------------------------------------
\* The steps of a call.

\* What a call has in memory.
LEMMA InMemory ==
  ASSUME FleetInv, call # None
  PROVE  /\ call \in FleetCall /\ call.b \in Batches /\ Row \in FleetRow /\ CallIsTrue
         /\ batch[call.b] \in FleetRow /\ RowIsTrue(batch[call.b]) /\ batch[call.b].ops = Row.ops
         /\ call.i \in Nat /\ Len(Row.ops) \in Nat /\ DOMAIN Row.ops = 1 .. Len(Row.ops)
         /\ \A k \in DOMAIN Row.ops : Row.ops[k] \in Ops /\ Row.out[k] \in Outcome
         /\ \A k, n \in DOMAIN Row.ops : Row.ops[k] = Row.ops[n] => k = n
<1>1. call \in FleetCall /\ CallIsTrue
  BY DEF FleetInv, FleetTypeOK
<1>2. call.b \in Batches /\ call.mem \in FleetRow /\ call.i \in Nat
  BY <1>1 DEF FleetCall
<1>3. batch[call.b] \in FleetRow /\ RowIsTrue(batch[call.b]) /\ batch[call.b].ops = Row.ops /\ batch[call.b] # None
  BY <1>1, <1>2 DEF FleetInv, FleetTypeOK, CallIsTrue, Row
<1>4. \A k, n \in DOMAIN Row.ops : Row.ops[k] = Row.ops[n] => k = n
  BY <1>2, <1>3 DEF FleetInv, Owned
<1> QED
  BY <1>1, <1>2, <1>3, <1>4, RowShape DEF Row

\* A step that writes the row of the batch at hand.  What it writes is true of the
\* hosts and of the order of the entries.
LEMMA SavedStep ==
  ASSUME FleetInv, call # None, Unmoved, NEW row \in FleetRow, NEW s \in BatchStatus,
         Saved(row, s), row.ops = Row.ops, s # "ready",
         \A k \in DOMAIN row.ops : TrueOf(row.ops[k], row.out[k]),
         \A k, n \in DOMAIN row.ops : k < n /\ row.out[n].dispatched => Behind(row.ops[k]),
         s = "committed" => \A k \in DOMAIN row.ops : Behind(row.ops[k]),
         s = "recovered" => \A k \in DOMAIN row.ops : row.out[k].dispatched => status[row.ops[k]] = "recovered",
         call' \in FleetCall \cup {None}, call' # None => CallIsTrue'
  PROVE  FleetInv'
<1> DEFINE new == [row EXCEPT !.status = s]
<1>t. FleetTypeOK /\ Started /\ Owned
  BY DEF FleetInv
<1>0. call.b \in Batches /\ batch[call.b].ops = row.ops /\ batch[call.b] # None
  BY InMemory DEF CallIsTrue
<1>1. new \in FleetRow /\ new # None /\ new.status = s /\ new.ops = row.ops /\ new.out = row.out
  BY RowRestated, NoneAssumption
<1>2. \A b \in Batches : batch'[b] = IF b = call.b THEN new ELSE batch[b]
  BY <1>t DEF Saved, FleetTypeOK
<1> HIDE DEF new
<1>3. FleetTypeOK'
  BY <1>t, <1>1, <1>2 DEF Saved, FleetTypeOK, Unmoved, new
<1>4. Started'
  BY <1>t DEF Started, Unmoved
<1>5. \A b \in Batches : /\ batch'[b] # None <=> batch[b] # None
                         /\ batch[b] # None => batch'[b].ops = batch[b].ops
  BY <1>0, <1>1, <1>2
<1>6. Owned'
  <2>1. \A o \in Ops : claim[o] # None => claim[o] \in Batches
    BY <1>t DEF FleetTypeOK
  <2> QED
    BY <1>t, <1>5, <2>1 DEF Owned, Unmoved
<1>7. ASSUME NEW b \in Batches, batch'[b] # None PROVE RowIsTrue(batch[b])'
  <2>1. CASE b = call.b
    BY SMTT(30), <1>1, <1>2, <2>1 DEF RowIsTrue, TrueOf, Behind, Unmoved
  <2>2. CASE b # call.b
    <3>1. batch'[b] = batch[b] /\ RowIsTrue(batch[b])
      BY <1>2, <1>7, <2>2 DEF FleetInv
    <3> QED
      BY <3>1 DEF RowIsTrue, TrueOf, Behind, Unmoved
  <2> QED
    BY <2>1, <2>2
<1> QED
  BY <1>3, <1>4, <1>6, <1>7 DEF FleetInv

\* A step that writes nothing.
LEMMA UnsavedStep ==
  ASSUME FleetInv, Unmoved, batch' = batch, call' \in FleetCall \cup {None}, call' # None => CallIsTrue'
  PROVE  FleetInv'
<1>1. FleetTypeOK' /\ Started' /\ Owned'
  BY DEF FleetInv, FleetTypeOK, Started, Owned, Unmoved
<1>2. ASSUME NEW b \in Batches, batch'[b] # None PROVE RowIsTrue(batch[b])'
  BY <1>2 DEF FleetInv, RowIsTrue, TrueOf, Behind, Unmoved
<1> QED
  BY <1>1, <1>2 DEF FleetInv

\* The call goes on with another row.
LEMMA GoesOn ==
  ASSUME FleetInv, call # None, NEW row \in FleetRow, NEW i \in Nat, NEW at \in {"inspect", "send", "await"},
         Go(row, i, at)
  PROVE  /\ call' \in FleetCall /\ call' # None
         /\ call'.b = call.b /\ call'.kind = call.kind /\ call'.bad = call.bad
         /\ call'.mem = row /\ call'.i = i /\ call'.at = at
<1>1. call \in FleetCall
  BY InMemory
<1>2. call' \in FleetCall
  BY <1>1 DEF Go, FleetCall
<1>3. call' # None
  BY <1>2, NoneAssumption
<1> QED
  BY <1>1, <1>3, <1>2 DEF Go, FleetCall

\* One outcome is replaced by another that is true.
LEMMA OutReplaced ==
  ASSUME FleetInv, call # None, call.i \in DOMAIN Row.ops, NEW e \in Outcome, TrueOf(Op, e)
  PROVE  /\ WithOut(e) \in FleetRow /\ WithOut(e).ops = Row.ops
         /\ \A k \in DOMAIN Row.ops : WithOut(e).out[k] = IF k = call.i THEN e ELSE Row.out[k]
         /\ \A k \in DOMAIN Row.ops : TrueOf(Row.ops[k], WithOut(e).out[k])
<1>1. Row \in FleetRow /\ \A k \in DOMAIN Row.ops : TrueOf(Row.ops[k], Row.out[k])
  BY InMemory DEF CallIsTrue, Row
<1>2. /\ WithOut(e) \in FleetRow /\ WithOut(e).ops = Row.ops
      /\ WithOut(e).out = [Row.out EXCEPT ![call.i] = e]
  BY <1>1, RowUpdated DEF WithOut
<1>3. \A k \in DOMAIN Row.ops : WithOut(e).out[k] = IF k = call.i THEN e ELSE Row.out[k]
  BY <1>1, <1>2, RowShape
<1> QED
  BY <1>1, <1>2, <1>3 DEF Op

\* What an inspection or an answer says of the host is so.
LEMMA AnswerIsTrue ==
  ASSUME FleetInv, call # None, call.i \in DOMAIN Row.ops
  PROVE  /\ Op \in Ops /\ Out \in Outcome /\ status[Op] \in Status /\ TrueOf(Op, Out)
         /\ status[Op] = "committed" => Behind(Op)
         /\ \A s : s = status[Op] \/ s \notin {"committed", "recovered"} => TrueOf(Op, [Out EXCEPT !.state = s])
         /\ \A s \in Status : [Out EXCEPT !.state = s] \in Outcome
<1>1. Op \in Ops /\ Out \in Outcome /\ TrueOf(Op, Out)
  BY InMemory DEF CallIsTrue, Row, Op, Out
<1>2. status[Op] \in Status /\ sent[Op] \in [apply : Nat, recover : Nat]
  BY <1>1 DEF FleetInv, FleetTypeOK
<1>3. status[Op] = "committed" => Behind(Op)
  BY <1>1, <1>2 DEF FleetInv, Started, NotStarted, Behind, BeforeApplication, TrueOf
<1>4. \A s : /\ [Out EXCEPT !.state = s].state = s
             /\ [Out EXCEPT !.state = s].dispatched = Out.dispatched
             /\ [Out EXCEPT !.state = s].repairs = Out.repairs
             /\ s \in Status => [Out EXCEPT !.state = s] \in Outcome
  BY <1>1 DEF Outcome
<1> QED
  BY <1>1, <1>2, <1>3, <1>4 DEF TrueOf

\* The order of the entries in memory is that of the stored row.
LEMMA InOrder ==
  ASSUME FleetInv, call # None
  PROVE  \A k, n \in DOMAIN Row.ops : k < n /\ Row.out[n].dispatched => Behind(Row.ops[k])
BY InMemory DEF CallIsTrue, RowIsTrue, Row

LEMMA FinishStep ==
  ASSUME FleetInv, call # None, Unmoved, NEW s \in BatchStatus, s # "ready", Finish(Row, s),
         s = "committed" => \A k \in DOMAIN Row.ops : Behind(Row.ops[k]),
         s = "recovered" => \A k \in DOMAIN Row.ops : Row.out[k].dispatched => status[Row.ops[k]] = "recovered"
  PROVE  FleetInv'
<1>1. Row \in FleetRow /\ \A k \in DOMAIN Row.ops : TrueOf(Row.ops[k], Row.out[k])
  BY InMemory DEF CallIsTrue, Row
<1> QED
  BY <1>1, InOrder, SavedStep DEF Finish

LEMMA EndsStep ==
  ASSUME FleetInv, ApplyStopped \/ ApplyLost \/ RepairsExhausted \/ RecoverLost \/ RecoverDone
  PROVE  FleetInv'
<1>1. CASE ApplyStopped
  BY <1>1, FinishStep DEF ApplyStopped, In, BatchStatus
<1>2. CASE ApplyLost \/ RecoverLost
  BY <1>2, FinishStep DEF ApplyLost, RecoverLost, In, BatchStatus
<1>3. CASE RepairsExhausted
  BY <1>3, FinishStep DEF RepairsExhausted, In, BatchStatus
<1>4. CASE RecoverDone
  <2>1. \A k \in DOMAIN Row.ops : Row.out[k].dispatched => status[Row.ops[k]] = "recovered"
    BY <1>4, InMemory DEF RecoverDone, CallIsTrue, Row
  <2> QED
    BY <1>4, <2>1, FinishStep DEF RecoverDone, BatchStatus
<1> QED
  BY <1>1, <1>2, <1>3, <1>4

LEMMA ConcludeStep ==
  ASSUME FleetInv, Conclude
  PROVE  FleetInv'
<1>1. /\ \A k \in DOMAIN Row.ops : Row.out[k] \in ToSet(Row.out) /\ TrueOf(Row.ops[k], Row.out[k])
      /\ call # None /\ Unmoved
  <2>1. call # None /\ Unmoved
    BY DEF Conclude
  <2> QED
    BY <2>1, InMemory, RowShape DEF ToSet, CallIsTrue, Row
<1>2. CASE Finish(Row, "outcome_unknown") \/ Finish(Row, "rollout_stopped")
  BY <1>1, <1>2, FinishStep DEF BatchStatus
<1>3. CASE Finish(Row, "committed") /\ \A e \in ToSet(Row.out) : e.dispatched /\ e.state = "committed"
  <2>1. \A k \in DOMAIN Row.ops : Behind(Row.ops[k])
    BY <1>1, <1>3 DEF TrueOf
  <2> QED
    BY <1>1, <1>3, <2>1, FinishStep DEF BatchStatus
<1>4. CASE Finish(Row, "recovered") /\ \A e \in ToSet(Row.out) : e.dispatched => e.state = "recovered"
  <2>1. \A k \in DOMAIN Row.ops : Row.out[k].dispatched => status[Row.ops[k]] = "recovered"
    BY <1>1, <1>4 DEF TrueOf
  <2> QED
    BY <1>1, <1>4, <2>1, FinishStep DEF BatchStatus
<1> QED
  BY <1>2, <1>3, <1>4 DEF Conclude

\* What the next step of a call relies on, with this row, at this entry.
ApplyRelies(row, n, at) ==
  /\ \A k \in DOMAIN row.ops :
       /\ row.out[k].repairs = 0
       /\ k < n => Behind(row.ops[k])
       /\ k > n \/ (k = n /\ at = "inspect") => ~row.out[k].dispatched
  /\ at = "send" => sent[row.ops[n]].apply = 0
  /\ at # "inspect" => row.out[n].dispatched
RecoverRelies(row, n, at) ==
  /\ \A k \in DOMAIN row.ops : k > n /\ row.out[k].dispatched => status[row.ops[k]] = "recovered"
  /\ at = "send" => sent[row.ops[n]].recover < row.out[n].repairs

LEMMA NextIsTrue ==
  ASSUME FleetInv, call # None, Unmoved, NEW row \in FleetRow, row.ops = Row.ops,
         NEW i \in Nat, NEW at \in {"inspect", "send", "await"}, Go(row, i, at),
         \A k \in DOMAIN row.ops : TrueOf(row.ops[k], row.out[k]),
         at # "inspect" => i \in DOMAIN row.ops /\ call.kind # "reconcile",
         call.kind = "apply" => ApplyRelies(row, i, at),
         call.kind = "recover" => RecoverRelies(row, i, at),
         \/ /\ batch' = batch
            /\ \A k \in DOMAIN row.ops : /\ row.out[k].dispatched = Row.out[k].dispatched
                                         /\ row.out[k].repairs = Row.out[k].repairs
         \/ \E s \in BatchStatus : Saved(row, s) /\ (call.kind = "apply" => s = "applying")
  PROVE  call' \in FleetCall \cup {None} /\ CallIsTrue'
<1>1. /\ call' \in FleetCall /\ call'.b = call.b /\ call'.kind = call.kind /\ call'.mem = row /\ call'.i = i /\ call'.at = at
  BY GoesOn
<1>2. call.b \in Batches /\ CallIsTrue /\ batch \in [Batches -> FleetRow \cup {None}]
  BY InMemory DEF FleetInv, FleetTypeOK
<1>3. /\ batch'[call.b] # None /\ batch'[call.b].ops = row.ops
      /\ \A k \in DOMAIN row.ops : /\ row.out[k].dispatched = batch'[call.b].out[k].dispatched
                                   /\ row.out[k].repairs = batch'[call.b].out[k].repairs
      /\ call.kind = "apply" => batch'[call.b].status \in {"ready", "applying"}
  <2>1. CASE batch' = batch /\ \A k \in DOMAIN row.ops : /\ row.out[k].dispatched = Row.out[k].dispatched
                                                         /\ row.out[k].repairs = Row.out[k].repairs
    BY <1>2, <2>1 DEF CallIsTrue, Row
  <2>2. ASSUME NEW s \in BatchStatus, Saved(row, s), call.kind = "apply" => s = "applying"
        PROVE  /\ batch'[call.b] # None /\ batch'[call.b].ops = row.ops
               /\ batch'[call.b].out = row.out /\ batch'[call.b].status = s
    <3>1. batch'[call.b] = [row EXCEPT !.status = s]
      BY <1>2, <2>2 DEF Saved
    <3> QED
      BY <2>2, <3>1, RowRestated, NoneAssumption
  <2> QED
    BY <2>1, <2>2
<1>4. \A k \in DOMAIN row.ops : TrueOf(row.ops[k], row.out[k])'
  BY DEF TrueOf, Behind, Unmoved
<1>5. call.kind = "apply" => ApplyRelies(row, i, at)'
  BY DEF ApplyRelies, Behind, Unmoved
<1>6. call.kind = "recover" => RecoverRelies(row, i, at)'
  BY DEF RecoverRelies, Unmoved
<1> QED
  BY <1>1, <1>3, <1>4, <1>5, <1>6 DEF CallIsTrue, ApplyRelies, RecoverRelies

LEMMA ApplySteps ==
  ASSUME FleetInv, Dispatch \/ ApplyAnswer
  PROVE  FleetInv'
<1>0. call # None /\ call.kind = "apply" /\ call.i \in DOMAIN Row.ops /\ Unmoved
  BY DEF Dispatch, ApplyAnswer, In
<1>1. /\ Row \in FleetRow /\ call.i \in Nat /\ DOMAIN Row.ops = 1 .. Len(Row.ops) /\ Len(Row.ops) \in Nat
      /\ Row.ops[call.i] = Op /\ Row.out[call.i] = Out /\ ApplyRelies(Row, call.i, call.at)
  BY <1>0, InMemory DEF CallIsTrue, ApplyRelies, Row, Op, Out
<1>2. CASE Dispatch
  <2> DEFINE e == [Out EXCEPT !.dispatched = TRUE, !.state = "outcome_unknown"]
             row == WithOut(e)
  <2>1. e \in Outcome /\ TrueOf(Op, e) /\ e.dispatched /\ e.repairs = Out.repairs
    <3>1. Out \in Outcome /\ TrueOf(Op, Out)
      BY <1>0, AnswerIsTrue
    <3>2. e \in Outcome /\ e.dispatched /\ e.repairs = Out.repairs /\ e.state = "outcome_unknown"
      BY <3>1 DEF Outcome, Status
    <3> HIDE DEF e
    <3> QED
      BY <3>1, <3>2 DEF TrueOf
  <2>2. sent[Op].apply = 0 /\ Out.repairs = 0
    BY <1>0, <1>1, <1>2, AnswerIsTrue DEF Dispatch, In, ApplyRelies, TrueOf
  <2>3. Saved(row, "applying") /\ Go(row, call.i, "send")
    BY <1>2 DEF Dispatch
  <2> HIDE DEF e
  <2>4. /\ row \in FleetRow /\ row.ops = Row.ops
        /\ \A k \in DOMAIN Row.ops : row.out[k] = IF k = call.i THEN e ELSE Row.out[k]
        /\ \A k \in DOMAIN row.ops : TrueOf(row.ops[k], row.out[k])
    BY <1>0, <2>1, OutReplaced
  <2> HIDE DEF row
  <2>5. ApplyRelies(row, call.i, "send")
    BY <1>0, <1>1, <2>1, <2>2, <2>4 DEF ApplyRelies
  <2>6. \A k, n \in DOMAIN row.ops : k < n /\ row.out[n].dispatched => Behind(row.ops[k])
    BY <1>0, <1>1, <2>4, InOrder DEF ApplyRelies
  <2>7. call' \in FleetCall \cup {None} /\ CallIsTrue'
    BY <1>0, <1>1, <2>3, <2>4, <2>5, NextIsTrue DEF BatchStatus
  <2> QED
    BY <1>0, <2>3, <2>4, <2>6, <2>7, SavedStep DEF BatchStatus
<1>3. CASE ApplyAnswer
  <2> DEFINE e == [Out EXCEPT !.state = status[Op]]
             row == WithOut(e)
  <2>1. e \in Outcome /\ TrueOf(Op, e) /\ e.dispatched = Out.dispatched /\ e.repairs = Out.repairs
    BY <1>0, AnswerIsTrue DEF Outcome
  <2>2. \/ Finish(row, "rollout_stopped")
        \/ status[Op] = "committed" /\ call.i < Len(Row.ops) /\ Saved(row, "applying") /\ Go(row, call.i + 1, "inspect")
        \/ status[Op] = "committed" /\ ~(call.i < Len(Row.ops)) /\ Finish(row, "committed")
    BY <1>3 DEF ApplyAnswer
  <2> HIDE DEF e
  <2>4. /\ row \in FleetRow /\ row.ops = Row.ops
        /\ \A k \in DOMAIN Row.ops : row.out[k] = IF k = call.i THEN e ELSE Row.out[k]
        /\ \A k \in DOMAIN row.ops : TrueOf(row.ops[k], row.out[k])
    BY <1>0, <2>1, OutReplaced
  <2> HIDE DEF row
  <2>5. \A k \in DOMAIN row.ops : row.out[k].dispatched = Row.out[k].dispatched /\ row.out[k].repairs = Row.out[k].repairs
    BY <1>1, <2>1, <2>4
  <2>6. \A k, n \in DOMAIN row.ops : k < n /\ row.out[n].dispatched => Behind(row.ops[k])
    BY <1>0, <2>4, <2>5, InOrder
  <2>7. \A k \in DOMAIN row.ops : status[Op] = "committed" /\ k <= call.i => Behind(row.ops[k])
    BY <1>0, <1>1, <2>4, AnswerIsTrue DEF ApplyRelies
  <2>8. CASE Finish(row, "rollout_stopped")
    BY <1>0, <2>4, <2>6, <2>8, SavedStep DEF Finish, BatchStatus
  <2>9. CASE status[Op] = "committed" /\ call.i < Len(Row.ops) /\ Saved(row, "applying") /\ Go(row, call.i + 1, "inspect")
    <3>1. ApplyRelies(row, call.i + 1, "inspect")
      BY <1>0, <1>1, <2>4, <2>5, <2>7, <2>9 DEF ApplyRelies
    <3>2. call' \in FleetCall \cup {None} /\ CallIsTrue'
      BY <1>0, <1>1, <2>4, <2>9, <3>1, NextIsTrue DEF BatchStatus
    <3> QED
      BY <1>0, <2>4, <2>6, <2>9, <3>2, SavedStep DEF BatchStatus
  <2>10. CASE status[Op] = "committed" /\ ~(call.i < Len(Row.ops)) /\ Finish(row, "committed")
    <3>1. \A k \in DOMAIN row.ops : Behind(row.ops[k])
      BY <1>1, <2>4, <2>7, <2>10
    <3> QED
      BY <1>0, <2>4, <2>6, <2>10, <3>1, SavedStep DEF Finish, BatchStatus
  <2> QED
    BY <2>2, <2>8, <2>9, <2>10
<1> QED
  BY <1>2, <1>3

LEMMA RecoverSteps ==
  ASSUME FleetInv, Skip \/ Repair \/ RepairAnswer
  PROVE  FleetInv'
<1>0. call # None /\ call.kind = "recover" /\ call.i \in DOMAIN Row.ops /\ Unmoved
  BY DEF Skip, Repair, RepairAnswer, In
<1>1. /\ Row \in FleetRow /\ call.i \in Nat /\ DOMAIN Row.ops = 1 .. Len(Row.ops) /\ Len(Row.ops) \in Nat
      /\ call.i - 1 \in Nat
      /\ Row.ops[call.i] = Op /\ Row.out[call.i] = Out /\ RecoverRelies(Row, call.i, call.at)
      /\ \A k \in DOMAIN Row.ops : TrueOf(Row.ops[k], Row.out[k])
  BY <1>0, InMemory DEF CallIsTrue, RecoverRelies, Row, Op, Out
<1>2. CASE Skip
  <2>1. CASE ~Out.dispatched /\ Go(Row, call.i - 1, "inspect")
    <3>1. RecoverRelies(Row, call.i - 1, "inspect")
      BY <1>1, <2>1 DEF RecoverRelies
    <3>2. call' \in FleetCall \cup {None} /\ CallIsTrue'
      BY <1>0, <1>1, <1>2, <2>1, <3>1, NextIsTrue DEF Skip
    <3> QED
      BY <1>0, <1>2, <3>2, UnsavedStep DEF Skip
  <2>2. CASE status[Op] = "recovered" /\ Go(WithOut([Out EXCEPT !.state = "recovered"]), call.i - 1, "inspect")
    <3> DEFINE e == [Out EXCEPT !.state = "recovered"]
               row == WithOut(e)
    <3>1. e \in Outcome /\ TrueOf(Op, e) /\ e.dispatched = Out.dispatched /\ e.repairs = Out.repairs
      <4>1. Out \in Outcome /\ "recovered" \in Status
        BY <1>0, AnswerIsTrue DEF Status
      <4>2. e.dispatched = Out.dispatched /\ e.repairs = Out.repairs /\ e \in Outcome
        BY <4>1 DEF Outcome
      <4>3. TrueOf(Op, e)
        BY <1>0, <2>2, AnswerIsTrue
      <4> QED
        BY <4>2, <4>3
    <3>2. Go(row, call.i - 1, "inspect")
      BY <2>2
    <3> HIDE DEF e
    <3>3. /\ row \in FleetRow /\ row.ops = Row.ops
          /\ \A k \in DOMAIN Row.ops : row.out[k] = IF k = call.i THEN e ELSE Row.out[k]
          /\ \A k \in DOMAIN row.ops : TrueOf(row.ops[k], row.out[k])
      BY <1>0, <3>1, OutReplaced
    <3> HIDE DEF row
    <3>4. RecoverRelies(row, call.i - 1, "inspect")
      BY SMTT(30), <1>1, <2>2, <3>3 DEF RecoverRelies
    <3>5. call' \in FleetCall \cup {None} /\ CallIsTrue'
      BY <1>0, <1>1, <1>2, <3>1, <3>2, <3>3, <3>4, NextIsTrue DEF Skip
    <3> QED
      BY <1>0, <1>2, <3>5, UnsavedStep DEF Skip
  <2> QED
    BY <1>2, <2>1, <2>2 DEF Skip
<1>3. CASE Repair
  <2> DEFINE e == [Out EXCEPT !.state = "outcome_unknown", !.repairs = @ + 1]
             row == WithOut(e)
  <2>1. /\ e \in Outcome /\ TrueOf(Op, e) /\ e.dispatched = Out.dispatched
        /\ e.repairs = Out.repairs + 1 /\ sent[Op].recover < e.repairs
    <3>1. Op \in Ops /\ Out \in Outcome /\ TrueOf(Op, Out) /\ Out.repairs < MaxRepairAttempts
      BY <1>0, <1>3, AnswerIsTrue DEF Repair
    <3>2. sent[Op].recover \in Nat /\ Out.repairs \in 0 .. MaxRepairAttempts /\ Out.repairs + 1 \in 0 .. MaxRepairAttempts
      BY <3>1, FleetAssumption DEF FleetInv, FleetTypeOK, Outcome
    <3>3. /\ e \in Outcome /\ e.dispatched = Out.dispatched /\ e.repairs = Out.repairs + 1
          /\ e.state = "outcome_unknown"
      BY <3>1, <3>2 DEF Outcome, Status
    <3> HIDE DEF e
    <3> QED
      BY <3>1, <3>2, <3>3 DEF TrueOf
  <2>2. Saved(row, "rolling_back") /\ Go(row, call.i, "send")
    BY <1>3 DEF Repair
  <2> HIDE DEF e
  <2>3. /\ row \in FleetRow /\ row.ops = Row.ops
        /\ \A k \in DOMAIN Row.ops : row.out[k] = IF k = call.i THEN e ELSE Row.out[k]
        /\ \A k \in DOMAIN row.ops : TrueOf(row.ops[k], row.out[k])
    BY <1>0, <2>1, OutReplaced
  <2> HIDE DEF row
  <2>4. RecoverRelies(row, call.i, "send")
    BY <1>0, <1>1, <2>1, <2>3 DEF RecoverRelies
  <2>5. \A k, n \in DOMAIN row.ops : k < n /\ row.out[n].dispatched => Behind(row.ops[k])
    BY <1>0, <1>1, <2>1, <2>3, InOrder
  <2>6. call' \in FleetCall \cup {None} /\ CallIsTrue'
    BY <1>0, <1>1, <2>2, <2>3, <2>4, NextIsTrue DEF BatchStatus
  <2> QED
    BY <1>0, <2>2, <2>3, <2>5, <2>6, SavedStep DEF BatchStatus
<1>4. CASE RepairAnswer
  <2> DEFINE e == [Out EXCEPT !.state = status[Op]]
             row == WithOut(e)
  <2>1. e \in Outcome /\ TrueOf(Op, e) /\ e.dispatched = Out.dispatched /\ e.repairs = Out.repairs
    BY <1>0, AnswerIsTrue DEF Outcome
  <2>2. \/ Finish(row, "recovery_failed")
        \/ status[Op] = "recovered" /\ Saved(row, "rolling_back") /\ Go(row, call.i - 1, "inspect")
    BY <1>4 DEF RepairAnswer
  <2> HIDE DEF e
  <2>3. /\ row \in FleetRow /\ row.ops = Row.ops
        /\ \A k \in DOMAIN Row.ops : row.out[k] = IF k = call.i THEN e ELSE Row.out[k]
        /\ \A k \in DOMAIN row.ops : TrueOf(row.ops[k], row.out[k])
    BY <1>0, <2>1, OutReplaced
  <2> HIDE DEF row
  <2>4. \A k, n \in DOMAIN row.ops : k < n /\ row.out[n].dispatched => Behind(row.ops[k])
    BY <1>0, <1>1, <2>1, <2>3, InOrder
  <2>5. CASE Finish(row, "recovery_failed")
    BY <1>0, <2>3, <2>4, <2>5, SavedStep DEF Finish, BatchStatus
  <2>6. CASE status[Op] = "recovered" /\ Saved(row, "rolling_back") /\ Go(row, call.i - 1, "inspect")
    <3>1. RecoverRelies(row, call.i - 1, "inspect")
      <4>1. ASSUME NEW k \in DOMAIN Row.ops, k > call.i - 1, row.out[k].dispatched
            PROVE  status[Row.ops[k]] = "recovered"
        <5>1. k = call.i \/ k > call.i
          BY <1>1, <4>1
        <5> QED
          BY <1>1, <2>3, <2>6, <4>1, <5>1 DEF RecoverRelies
      <4> QED
        BY <2>3, <4>1 DEF RecoverRelies
    <3>2. call' \in FleetCall \cup {None} /\ CallIsTrue'
      BY <1>0, <1>1, <2>3, <2>6, <3>1, NextIsTrue DEF BatchStatus
    <3> QED
      BY <1>0, <2>3, <2>4, <2>6, <3>2, SavedStep DEF BatchStatus
  <2> QED
    BY <2>2, <2>5, <2>6
<1> QED
  BY <1>2, <1>3, <1>4

LEMMA LookSteps ==
  ASSUME FleetInv, Look \/ LookFails
  PROVE  FleetInv'
<1>0. call # None /\ call.kind = "reconcile" /\ call.i \in DOMAIN Row.ops /\ Unmoved /\ batch' = batch /\ call.at = "inspect"
  BY DEF Look, LookFails, In
<1>1. /\ Row \in FleetRow /\ call.i \in Nat /\ call.i + 1 \in Nat
      /\ \A k \in DOMAIN Row.ops : TrueOf(Row.ops[k], Row.out[k])
      /\ Row.out[call.i] = Out
  BY <1>0, InMemory DEF CallIsTrue, Row, Out
<1>2. ASSUME NEW s \in Status, s = status[Op] \/ s \notin {"committed", "recovered"}
      PROVE  LET row == WithOut([Out EXCEPT !.state = s]) IN
             /\ row \in FleetRow /\ row.ops = Row.ops
             /\ \A k \in DOMAIN row.ops : TrueOf(row.ops[k], row.out[k])
             /\ \A k \in DOMAIN row.ops : /\ row.out[k].dispatched = Row.out[k].dispatched
                                          /\ row.out[k].repairs = Row.out[k].repairs
  <2> DEFINE e == [Out EXCEPT !.state = s]
  <2>1. e \in Outcome /\ TrueOf(Op, e)
    BY <1>0, <1>2, AnswerIsTrue
  <2>2. e.dispatched = Out.dispatched /\ e.repairs = Out.repairs
    BY <1>0, AnswerIsTrue DEF Outcome
  <2> HIDE DEF e
  <2>3. /\ WithOut(e) \in FleetRow /\ WithOut(e).ops = Row.ops
        /\ \A k \in DOMAIN Row.ops : WithOut(e).out[k] = IF k = call.i THEN e ELSE Row.out[k]
        /\ \A k \in DOMAIN Row.ops : TrueOf(Row.ops[k], WithOut(e).out[k])
    BY <1>0, <2>1, OutReplaced
  <2> QED
    BY <1>1, <2>2, <2>3 DEF e
<1>3. CASE Look
  <2>1. CASE Go(Row, call.i + 1, "inspect")
    <3>1. call' \in FleetCall \cup {None} /\ CallIsTrue'
      BY <1>0, <1>1, <2>1, NextIsTrue
    <3> QED
      BY <1>0, <3>1, UnsavedStep
  <2>2. CASE Go(WithOut([Out EXCEPT !.state = Observed(Op)]), call.i + 1, "inspect")
    <3>1. Observed(Op) \in Status /\ (Observed(Op) = status[Op] \/ Observed(Op) \notin {"committed", "recovered"})
      BY <1>0, AnswerIsTrue DEF Observed, Status
    <3> DEFINE row == WithOut([Out EXCEPT !.state = Observed(Op)])
    <3>2. /\ row \in FleetRow /\ row.ops = Row.ops
          /\ \A k \in DOMAIN row.ops : TrueOf(row.ops[k], row.out[k])
          /\ \A k \in DOMAIN row.ops : /\ row.out[k].dispatched = Row.out[k].dispatched
                                       /\ row.out[k].repairs = Row.out[k].repairs
      BY <1>2, <3>1
    <3>3. Go(row, call.i + 1, "inspect")
      BY <2>2
    <3> HIDE DEF row
    <3>4. call' \in FleetCall \cup {None} /\ CallIsTrue'
      BY <1>0, <1>1, <3>2, <3>3, NextIsTrue
    <3> QED
      BY <1>0, <3>4, UnsavedStep
  <2> QED
    BY <1>3, <2>1, <2>2 DEF Look
<1>4. CASE LookFails
  <2> DEFINE row == WithOut([Out EXCEPT !.state = "outcome_unknown"])
  <2>1. /\ row \in FleetRow /\ row.ops = Row.ops
        /\ \A k \in DOMAIN row.ops : TrueOf(row.ops[k], row.out[k])
        /\ \A k \in DOMAIN row.ops : /\ row.out[k].dispatched = Row.out[k].dispatched
                                     /\ row.out[k].repairs = Row.out[k].repairs
    BY <1>2 DEF Status
  <2>2. call' = [call EXCEPT !.mem = row, !.i = @ + 1, !.bad = TRUE]
    BY <1>4 DEF LookFails
  <2> HIDE DEF row
  <2>3. call \in FleetCall /\ CallIsTrue
    BY <1>0, InMemory
  <2>4. /\ call' \in FleetCall /\ call'.b = call.b /\ call'.kind = "reconcile" /\ call'.mem = row /\ call'.at = "inspect"
    BY <1>0, <1>1, <2>1, <2>2, <2>3 DEF FleetCall
  <2>5. (\A k \in DOMAIN call.mem.ops : TrueOf(call.mem.ops[k], call.mem.out[k]))'
    BY <1>0, <2>1, <2>4 DEF TrueOf, Behind, Unmoved
  <2>6. CallIsTrue'
    BY <1>0, <2>1, <2>3, <2>4, <2>5 DEF CallIsTrue, Row
  <2> QED
    BY <1>0, <2>4, <2>6, UnsavedStep
<1> QED
  BY <1>3, <1>4

LEMMA SendStep ==
  ASSUME FleetInv, Send
  PROVE  FleetInv'
<1>t. FleetTypeOK /\ Started /\ Owned
  BY DEF FleetInv
<1>0. /\ call # None /\ call.at = "send" /\ UNCHANGED <<status, touched, batch, claim>>
      /\ wire' = wire \cup {<<Op, call.kind, Out.repairs>>}
      /\ sent' = [sent EXCEPT ![Op][call.kind] = @ + 1]
      /\ Go(Row, call.i, "await")
  BY DEF Send
<1>1. /\ Row \in FleetRow /\ call.i \in DOMAIN Row.ops /\ call.i \in Nat /\ call.b \in Batches
      /\ call.kind \in {"apply", "recover"} /\ CallIsTrue
      /\ batch[call.b] \in FleetRow /\ batch[call.b].ops = Row.ops /\ batch[call.b] # None
  BY <1>0, InMemory DEF CallIsTrue, FleetCall, Kinds
<1>2. Op \in Ops /\ Out \in Outcome /\ TrueOf(Op, Out) /\ Row.ops[call.i] = Op /\ Row.out[call.i] = Out
  BY <1>0, <1>1, AnswerIsTrue DEF Op, Out
<1>3. /\ call.kind = "apply" => sent[Op].apply = 0 /\ Out.dispatched /\ Out.repairs = 0
      /\ call.kind = "recover" => sent[Op].recover < Out.repairs
  BY <1>0, <1>1, <1>2 DEF CallIsTrue, Row
<1>4. /\ sent' \in [Ops -> [apply : Nat, recover : Nat]]
      /\ \A o \in Ops : o # Op => sent'[o] = sent[o]
      /\ sent'[Op].apply = IF call.kind = "apply" THEN sent[Op].apply + 1 ELSE sent[Op].apply
      /\ sent'[Op].recover = IF call.kind = "recover" THEN sent[Op].recover + 1 ELSE sent[Op].recover
  <2>1. sent[Op] \in [apply : Nat, recover : Nat]
    BY <1>t, <1>2 DEF FleetTypeOK
  <2>2. CASE call.kind = "apply"
    <3>1. sent' = [sent EXCEPT ![Op] = [sent[Op] EXCEPT !.apply = sent[Op].apply + 1]]
      BY <1>0, <2>2
    <3> QED
      BY <1>t, <1>2, <2>1, <2>2, <3>1 DEF FleetTypeOK
  <2>3. CASE call.kind = "recover"
    <3>1. sent' = [sent EXCEPT ![Op] = [sent[Op] EXCEPT !.recover = sent[Op].recover + 1]]
      BY <1>0, <2>3
    <3> QED
      BY <1>t, <1>2, <2>1, <2>3, <3>1 DEF FleetTypeOK
  <2> QED
    BY <1>1, <2>2, <2>3
<1>5. /\ call' \in FleetCall /\ call'.b = call.b /\ call'.kind = call.kind /\ call'.mem = Row
      /\ call'.i = call.i /\ call'.at = "await"
  BY <1>0, <1>1, GoesOn
<1>6. FleetTypeOK'
  <2>1. <<Op, call.kind, Out.repairs>> \in Ops \X {"apply", "recover"} \X (0 .. MaxRepairAttempts)
    BY <1>1, <1>2 DEF Outcome
  <2> QED
    BY <1>t, <1>0, <1>4, <1>5, <2>1 DEF FleetTypeOK
<1>7. sent[Op].apply \in Nat /\ sent[Op].recover \in Nat
  BY <1>t, <1>2 DEF FleetTypeOK
<1>8. Started'
  <2>1. ASSUME NEW c \in wire', c[2] = "apply" PROVE c[3] = 0 /\ sent'[c[1]].apply = 1
    <3>1. CASE c = <<Op, call.kind, Out.repairs>>
      BY <1>3, <1>4, <1>7, <2>1, <3>1
    <3>2. CASE c \in wire
      <4>1. c[3] = 0 /\ sent[c[1]].apply = 1 /\ c[1] \in Ops
        BY <1>t, <2>1, <3>2 DEF Started, FleetTypeOK
      <4>2. c[1] = Op => call.kind # "apply"
        BY <1>3, <4>1
      <4> QED
        BY <1>4, <4>1, <4>2
    <3> QED
      BY <1>0, <2>1, <3>1, <3>2
  <2>2. ASSUME NEW p \in Ops, sent'[p].apply = 0 \/ <<p, "apply", 0>> \in wire'
        PROVE  sent[p].apply = 0 \/ <<p, "apply", 0>> \in wire
    <3>1. CASE p = Op /\ call.kind = "apply"
      BY <1>3, <3>1
    <3>2. CASE p # Op \/ call.kind # "apply"
      <4>1. sent'[p].apply = sent[p].apply
        BY <1>4, <3>2
      <4>2. <<p, "apply", 0>> \in wire' => <<p, "apply", 0>> \in wire
        BY <1>0, <3>2
      <4> QED
        BY <2>2, <4>1, <4>2
    <3> QED
      BY <3>1, <3>2
  <2> QED
    BY <1>t, <1>0, <2>1, <2>2 DEF Started
<1>9. ASSUME NEW o \in Ops, Behind(o) PROVE Behind(o)'
  <2>1. o # Op \/ call.kind # "apply"
    BY <1>3, <1>9 DEF Behind
  <2>2. sent'[o].apply = sent[o].apply /\ (<<o, "apply", 0>> \in wire' => <<o, "apply", 0>> \in wire)
    BY <1>0, <1>4, <2>1
  <2> QED
    BY <1>0, <1>9, <2>2 DEF Behind
<1>10. ASSUME NEW o \in Ops, NEW e, TrueOf(o, e), o = Op => e.dispatched = Out.dispatched /\ e.repairs = Out.repairs
       PROVE  TrueOf(o, e)'
  <2>1. CASE o # Op
    BY <1>0, <1>4, <1>9, <1>10, <2>1 DEF TrueOf
  <2>2. CASE o = Op
    <3>1. Out.repairs \in Nat
      BY <1>2, FleetAssumption DEF Outcome
    <3> QED
      BY <1>0, <1>1, <1>3, <1>4, <1>7, <1>9, <1>10, <2>2, <3>1 DEF TrueOf
  <2> QED
    BY <2>1, <2>2
<1>11. Owned'
  <2>1. claim[Op] # None
    BY <1>t, <1>1, <1>2, NoneAssumption DEF Owned
  <2>2. \A o \in Ops : claim[o] = None => sent'[o] = sent[o]
    BY <1>4, <2>1
  <2> QED
    BY <1>t, <1>0, <2>2 DEF Owned
<1>12. ASSUME NEW b \in Batches, batch'[b] # None PROVE RowIsTrue(batch[b])'
  <2>1. batch[b] \in FleetRow /\ RowIsTrue(batch[b]) /\ batch[b] # None
    BY <1>t, <1>0, <1>12 DEF FleetInv, FleetTypeOK
  <2>2. \A i \in DOMAIN batch[b].ops : batch[b].ops[i] \in Ops
    BY <2>1, RowShape
  <2>3. ASSUME NEW i \in DOMAIN batch[b].ops, batch[b].ops[i] = Op
        PROVE  batch[b].out[i].dispatched = Out.dispatched /\ batch[b].out[i].repairs = Out.repairs
    <3>1. b = call.b
      BY <1>t, <1>1, <1>2, <2>1, <2>3 DEF Owned
    <3>2. i = call.i
      BY <1>t, <1>1, <1>2, <2>1, <2>3, <3>1 DEF Owned
    <3> QED
      BY <1>1, <1>2, <3>1, <3>2 DEF CallIsTrue, Row
  <2>4. ASSUME NEW i \in DOMAIN batch[b].ops PROVE TrueOf(batch[b].ops[i], batch[b].out[i])'
    <3>1. PICK o \in Ops : o = batch[b].ops[i]
      BY <2>2
    <3>3. PICK e : e = batch[b].out[i]
      OBVIOUS
    <3>2. TrueOf(o, e)'
      BY <1>10, <2>1, <2>3, <3>1, <3>3 DEF RowIsTrue
    <3> QED
      BY <1>0, <3>1, <3>2, <3>3 DEF TrueOf, Behind
  <2>5. \A i \in DOMAIN batch[b].ops : Behind(batch[b].ops[i]) => Behind(batch[b].ops[i])'
    <3>1. ASSUME NEW i \in DOMAIN batch[b].ops, Behind(batch[b].ops[i]) PROVE Behind(batch[b].ops[i])'
      <4>1. PICK o \in Ops : o = batch[b].ops[i]
        BY <2>2
      <4> QED
        BY <1>0, <1>9, <3>1, <4>1 DEF Behind
    <3> QED
      BY <3>1
  <2> QED
    BY <1>0, <2>1, <2>4, <2>5 DEF RowIsTrue
<1>13. CallIsTrue'
  <2>1. \A k \in DOMAIN Row.ops : Row.ops[k] \in Ops /\ (Row.ops[k] = Op => k = call.i)
    BY <1>0, <1>2, <1>1, InMemory
  <2>2. ASSUME NEW k \in DOMAIN Row.ops PROVE TrueOf(Row.ops[k], Row.out[k])'
    <3>1. PICK o \in Ops : o = Row.ops[k]
      BY <2>1
    <3>3. PICK e : e = Row.out[k]
      OBVIOUS
    <3>2. TrueOf(o, e)'
      BY <1>1, <1>2, <1>10, <2>1, <3>1, <3>3 DEF CallIsTrue, Row
    <3> QED
      BY <1>5, <3>1, <3>2, <3>3 DEF TrueOf, Behind, Row
  <2>3. \A k \in DOMAIN Row.ops : Behind(Row.ops[k]) => Behind(Row.ops[k])'
    <3>1. ASSUME NEW k \in DOMAIN Row.ops, Behind(Row.ops[k]) PROVE Behind(Row.ops[k])'
      <4>1. PICK o \in Ops : o = Row.ops[k]
        BY <2>1
      <4> QED
        BY <1>5, <1>9, <3>1, <4>1 DEF Behind, Row
    <3> QED
      BY <3>1
  <2> QED
    BY <1>0, <1>1, <1>5, <2>2, <2>3 DEF CallIsTrue, Row
<1> QED
  BY <1>6, <1>8, <1>11, <1>12, <1>13 DEF FleetInv

LEMMA FleetInitial == FleetInit => FleetInv
<1> SUFFICES ASSUME FleetInit PROVE FleetInv
  OBVIOUS
<1>1. FleetTypeOK /\ Started
  BY NoneAssumption DEF FleetInit, Init, FleetTypeOK, Started, Status, NotStarted
<1> QED
  BY <1>1 DEF FleetInit, FleetInv, Owned

LEMMA FleetStep == FleetInv /\ [FleetNext]_fleetVars => FleetInv'
<1> SUFFICES ASSUME FleetInv, [FleetNext]_fleetVars PROVE FleetInv'
  OBVIOUS
<1>1. CASE UNCHANGED fleetVars
  BY ZenonT(60), <1>1, UnsavedStep, InMemory DEF fleetVars, Unmoved, FleetInv, FleetTypeOK, CallIsTrue, TrueOf, Behind
<1>2. CASE ControllerDies
  BY <1>2, UnsavedStep DEF ControllerDies
<1>3. CASE FleetNext
  BY <1>2, <1>3, PrepareStep, BeginStep, ApplySteps, RecoverSteps, LookSteps, EndsStep, ConcludeStep, SendStep,
     HostStep DEF FleetNext
<1> QED
  BY <1>1, <1>3

LEMMA FleetInvariant == FleetSpec => []FleetInv
BY FleetInitial, FleetStep, PTL DEF FleetSpec

\* The entry of an operation in the row that claimed it.
LEMMA EntryFound ==
  ASSUME FleetInv, NEW b \in Batches, batch[b] # None, NEW i \in DOMAIN batch[b].ops
  PROVE  EntryOf(batch[b].ops[i]) = batch[b].out[i]
<1>1. claim[batch[b].ops[i]] = b /\ b # None
  BY NoneAssumption DEF FleetInv, Owned
<1> DEFINE n == CHOOSE k \in DOMAIN batch[b].ops : batch[b].ops[k] = batch[b].ops[i]
<1>2. n \in DOMAIN batch[b].ops /\ batch[b].ops[n] = batch[b].ops[i]
  OBVIOUS
<1>3. n = i
  BY <1>2 DEF FleetInv, Owned
<1> QED
  BY <1>1, <1>3 DEF EntryOf

\* An operation is in no batch, and nothing was sent for it, or it has its entry.
LEMMA EntryKnown ==
  ASSUME FleetInv, NEW o \in Ops
  PROVE  \/ sent[o] = [apply |-> 0, recover |-> 0] /\ EntryOf(o) = [dispatched |-> FALSE, repairs |-> 0]
         \/ EntryOf(o) \in Outcome /\ TrueOf(o, EntryOf(o))
<1>1. CASE claim[o] = None
  BY <1>1 DEF FleetInv, Owned, EntryOf
<1>2. CASE claim[o] # None
  <2>1. claim[o] \in Batches /\ batch[claim[o]] # None
    BY <1>2 DEF FleetInv, FleetTypeOK, Owned
  <2>2. PICK i \in DOMAIN batch[claim[o]].ops : batch[claim[o]].ops[i] = o
    BY <1>2 DEF FleetInv, Owned
  <2>3. EntryOf(o) = batch[claim[o]].out[i]
    BY <2>1, <2>2, EntryFound
  <2>4. batch[claim[o]] \in FleetRow /\ RowIsTrue(batch[claim[o]])
    BY <2>1 DEF FleetInv, FleetTypeOK
  <2> QED
    BY <2>2, <2>3, <2>4, RowShape DEF RowIsTrue
<1> QED
  BY <1>1, <1>2

\* The rows, claims and commands of a fleet keep their types.
THEOREM FleetTypeCorrect == FleetSpec => []FleetTypeOK
<1>1. FleetInv => FleetTypeOK
  BY DEF FleetInv
<1> QED
  BY <1>1, FleetInvariant, PTL

\* An operation is applied at most once, by whatever controllers start, die and
\* are started again, and every repair that leaves was counted in the stored row
\* before, within the budget (ApplyBatch, RecoverBatch).
THEOREM CommandsAreAccounted == FleetSpec => []CommandsAccounted
<1>1. FleetInv => CommandsAccounted
  <2> SUFFICES ASSUME FleetInv, NEW o \in Ops
               PROVE  /\ sent[o].apply <= 1 /\ sent[o].recover <= EntryOf(o).repairs
                      /\ EntryOf(o).repairs <= MaxRepairAttempts
    BY DEF CommandsAccounted
  <2>1. CASE sent[o] = [apply |-> 0, recover |-> 0] /\ EntryOf(o) = [dispatched |-> FALSE, repairs |-> 0]
    BY <2>1, FleetAssumption
  <2>2. CASE EntryOf(o) \in Outcome /\ TrueOf(o, EntryOf(o))
    BY <2>2 DEF Outcome, TrueOf
  <2> QED
    BY <2>1, <2>2, EntryKnown
<1> QED
  BY <1>1, FleetInvariant, PTL

\* What the stored row of a batch says of its hosts is so, however late a command
\* is executed and wherever the controller dies.
THEOREM BatchesAreTrue == FleetSpec => []BatchIsTrue
<1>1. FleetInv => BatchIsTrue
  <2> SUFFICES ASSUME FleetInv PROVE BatchIsTrue
    OBVIOUS
  <2>1. ASSUME NEW o \in Ops, ~EntryOf(o).dispatched
        PROVE  o \notin touched /\ status[o] \in BeforeApplication \cup {"recovered"}
    <3>1. sent[o].apply = 0
      BY <2>1, EntryKnown DEF TrueOf
    <3> QED
      BY <3>1 DEF FleetInv, Started, NotStarted, BeforeApplication
  <2>2. ASSUME NEW b \in Batches, batch[b] # None, NEW i \in DOMAIN batch[b].ops, NEW j \in DOMAIN batch[b].ops
        PROVE  /\ (i < j /\ batch[b].out[j].dispatched) \/ batch[b].status = "committed" => Behind(batch[b].ops[i])
               /\ batch[b].status = "recovered" /\ batch[b].out[i].dispatched =>
                    status[batch[b].ops[i]] = "recovered"
    BY <2>2 DEF FleetInv, RowIsTrue
  <2> QED
    BY <2>1, <2>2 DEF BatchIsTrue, Behind
<1> QED
  BY <1>1, FleetInvariant, PTL

-----------------------------------------------------------------------------
\* Under a controller the hosts do what the journal promises.

LEMMA HostKeepsPromise ==
  ASSUME FleetInv, NEW o \in Ops, Deliver(o) \/ Refuse(o) \/ HostWorks(o)
  PROVE  [Next]_vars
<1>1. CASE Deliver(o)
  <2>1. (\E s \in {"validating", "applying", "rolling_back"} : Record(o, s)) \/ Cancel(o)
    BY <1>1 DEF Deliver
  <2> QED
    BY <2>1 DEF Next, Status
<1>2. CASE Refuse(o)
  BY <1>2 DEF Refuse, vars
<1>3. CASE HostWorks(o)
  BY <1>3 DEF HostWorks, Next, Status
<1> QED
  BY <1>1, <1>2, <1>3

\* Every behaviour of a fleet is one that the recovery journal allows: what a
\* controller sends, and when, adds nothing to the lifecycle that the operations
\* follow on their hosts.  StatusProvesUntouched and RecoveredStays therefore hold
\* of a fleet.
THEOREM FleetImplementsJournal == FleetSpec => Spec
<1>1. FleetInit => Init
  BY DEF FleetInit
<1>2. FleetInv /\ [FleetNext]_fleetVars => [Next]_vars
  <2> SUFFICES ASSUME FleetInv, [FleetNext]_fleetVars PROVE [Next]_vars
    OBVIOUS
  <2>1. CASE \E o \in Ops : Deliver(o) \/ Refuse(o) \/ HostWorks(o)
    BY <2>1, HostKeepsPromise
  <2>2. CASE UNCHANGED <<status, touched>>
    BY <2>2 DEF vars
  <2>3. UNCHANGED <<status, touched>> \/ \E o \in Ops : Deliver(o) \/ Refuse(o) \/ HostWorks(o)
    BY DEF FleetNext, fleetVars, PrepareBatch, Begin, Dispatch, ApplyStopped, Send, ApplyAnswer, ApplyLost, Skip,
       Repair, RepairsExhausted, RecoverLost, RepairAnswer, RecoverDone, Look, LookFails, Conclude, ControllerDies,
       Unmoved
  <2> QED
    BY <2>1, <2>2, <2>3
<1> QED
  BY <1>1, <1>2, FleetInvariant, PTL DEF FleetSpec, Spec

=============================================================================
