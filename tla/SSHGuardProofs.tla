--------------------------- MODULE SSHGuardProofs ---------------------------
(***************************************************************************)
(* What holds of SSHGuard for any number of port changes, ports, operators *)
(* and faults.  The inductive invariant adds to the types what a call may  *)
(* rely on between two of its steps: it holds the executor lock, its       *)
(* operation still has the status of its step, and the deadline it was     *)
(* begun under is still the one that is armed.                             *)
(***************************************************************************)
EXTENDS SSHGuard, FiniteSetTheorems, TLAPS

\* The steps of a call on one operation, and of a start of the supervisor.
Calling  == ApplySteps \cup RollSteps \cup {"proof", "commit", "clear"}
Starting == {"launch", "started", "beat"}

Working(x) == pc[x] \in Calling \cup Starting

\* The statuses under which each step runs.
Intent(s) ==
  CASE s \in {"arm", "journal"} -> {"ready"}
    [] s = "start" -> {"ssh_armed"}
    [] s \in {"install", "signal", "listen", "await"} -> {"applying"}
    [] s \in {"proof", "commit"} -> {"awaiting_confirmation"}
    [] s = "clear" -> {"committed", "recovered"}
    [] s = "roll" -> Statuses \ {"none", "recovered"}
    [] s \in {"unguard", "beat"} -> {"recovered"}
    [] OTHER -> {"rolling_back"}

\* What the step of one process relies on.  The supervisor undoes only what is
\* armed, and neither what was decided nor what could not be restored before.  A
\* call about to commit has reached the new port after the reload, unless the
\* listener it reached is gone.
Controlled(x) ==
  /\ Working(x) => lock = x
  /\ pc[x] \in Calling => op[x] \in Ops
  /\ Working(x) /\ op[x] # None => status[op[x]] \in Intent(pc[x])
  /\ pc[x] \in ApplySteps \ {"arm"} => pending.op = op[x]
  /\ pc[x] \in RollSteps => pending.op = op[x] \/ (op[x] \in confirmed /\ x # Sup)
  /\ pc[x] \in Starting => op[x] \in {None, pending.op}
  /\ pc[x] = "roll" /\ x = Sup => status[op[x]] \notin {"committed", "recovery_failed"}
  /\ pc[x] = "commit" => \/ session[x] = [port |-> plan[op[x]].to, old |-> FALSE]
                         \/ ~Alive(plan[op[x]].gen)

Control == \A x \in Procs : Controlled(x)

\* What is committed was confirmed.
Confirmed == \A o \in Ops : status[o] = "committed" => o \in confirmed

\* What has been prepared goes from one valid port to another, and only what has been
\* prepared is armed.
Planned ==
  /\ \A o \in Ops : status[o] # "none" => plan[o].from \in Ports /\ plan[o].to \in Ports
  /\ Armed => status[pending.op] # "none"

IInv == TypeOK /\ Planned /\ Control /\ Confirmed /\ UnconfirmedIsArmed

-----------------------------------------------------------------------------
\* Facts about the operators.

LEMMA AddedOne ==
  ASSUME NEW S, IsFiniteSet(S), NEW n \in Nat, Cardinality(S) <= n, NEW x
  PROVE  IsFiniteSet(S \cup {x}) /\ Cardinality(S \cup {x}) <= n + 1
<1>1. Cardinality(S) \in Nat
  BY FS_CardinalityType
<1>2. Cardinality(S \cup {x}) = IF x \in S THEN Cardinality(S) ELSE Cardinality(S) + 1
  BY FS_AddElement
<1> QED
  BY <1>1, <1>2, FS_AddElement

\* A supervisor that is started gets an identity that nothing remembers.
LEMMA FreshIdentity ==
  ASSUME TypeOK
  PROVE  Fresh \in Nat /\ Fresh \notin Remembered
<1> DEFINE gens == {plan[o].gen : o \in Ops}
           named == gens \cup {lease} \cup {sshd.gen}
           N == Cardinality(Ops)
<1>1. N \in Nat /\ IsFiniteSet(gens) /\ Cardinality(gens) <= N
  <2>1. [o \in Ops |-> plan[o].gen] \in Surjection(Ops, gens)
    BY DEF Surjection
  <2> QED
    BY <2>1, OpsAssumption, FS_Surjection, FS_CardinalityType
<1>2. IsFiniteSet(gens \cup {lease}) /\ Cardinality(gens \cup {lease}) <= N + 1
  <2> HIDE DEF gens, N
  <2> QED
    BY <1>1, AddedOne
<1>3. IsFiniteSet(named) /\ Cardinality(named) <= N + 2
  <2> DEFINE T == gens \cup {lease}
  <2>1. IsFiniteSet(T) /\ Cardinality(T) <= N + 1
    BY <1>2
  <2> HIDE DEF T, N
  <2>2. N + 1 \in Nat /\ (N + 1) + 1 = N + 2
    BY <1>1
  <2>3. IsFiniteSet(T \cup {sshd.gen}) /\ Cardinality(T \cup {sshd.gen}) <= (N + 1) + 1
    BY <2>1, <2>2, AddedOne
  <2> QED
    BY <2>2, <2>3 DEF T
<1>4. ~(1..(N + 3) \subseteq named)
  <2> HIDE DEF named, N
  <2>1. Cardinality(1..(N + 3)) = N + 3
    BY <1>1, FS_Interval
  <2>2. 1..(N + 3) \subseteq named => Cardinality(1..(N + 3)) <= Cardinality(named)
    BY <1>3, FS_Subset
  <2> QED
    BY <1>1, <1>3, <2>1, <2>2, FS_CardinalityType
<1>5. \E n \in 1..(N + 3) : n \notin Remembered
  BY <1>1, <1>4 DEF Remembered
<1> QED
  BY <1>1, <1>5 DEF Fresh


-----------------------------------------------------------------------------
\* Types.

LEMMA StoppedTyped ==
  /\ Stopped \in [gen : Nat, port : Ports \cup {None}, load : Ports \cup {Other, None}, hup : BOOLEAN]
  /\ Unarmed \in [op : Ops \cup {None}, boot : Nat, due : BOOLEAN]
  /\ NoSession \in [port : Ports \cup {None}, old : BOOLEAN]
BY DEF Stopped, Unarmed, NoSession

\* What a step of a call may rely on.
LEMMA AtWork ==
  ASSUME IInv, NEW x \in Procs, pc[x] \in Calling
  PROVE  /\ op[x] \in Ops /\ status[op[x]] \in Intent(pc[x]) /\ lock = x
         /\ plan[op[x]].from \in Ports /\ plan[op[x]].to \in Ports
<1>1. op[x] \in Ops /\ op[x] # None /\ lock = x /\ status[op[x]] \in Intent(pc[x])
  BY SortsAssumption DEF IInv, Control, Controlled, Working
<1>2. "none" \notin Intent(pc[x])
  BY DEF Intent, Calling, ApplySteps, RollSteps
<1> QED
  BY <1>1, <1>2 DEF IInv, Planned

BudgetsTyped == faults \in 0..MaxFaults /\ foreign \in 0..MaxForeign

LEMMA ApplyTyped ==
  ASSUME IInv, NEW c \in Clients, Apply(c)
  PROVE  TypeOK'
<1> USE BoundsAssumption
    DEF IInv, TypeOK, Procs, Steps, ApplySteps, RollSteps, Statuses, journal, guard, local, world, budgets,
        Goto, Return, Save
<1>1. CASE Arm(c)
  BY <1>1 DEF Arm, Hup, ValidConfig
<1>2. CASE JournalArmed(c)
  BY <1>2 DEF JournalArmed, Hup, ValidConfig
<1>3. CASE JournalApplying(c)
  BY <1>3 DEF JournalApplying, Hup, ValidConfig
<1>4. CASE InstallConfig(c)
  BY <1>4, AtWork DEF InstallConfig, Calling
<1>5. CASE Signal(c)
  BY <1>5 DEF Signal, Hup, ValidConfig
<1>6. CASE Listening(c)
  BY ZenonT(60), <1>6 DEF Listening, Hup, ValidConfig
<1>7. CASE Await(c)
  BY <1>7 DEF Await, Hup, ValidConfig
<1>8. CASE ApplyFail(c)
  BY <1>8 DEF ApplyFail, Hup, ValidConfig
<1> QED
  BY <1>1, <1>2, <1>3, <1>4, <1>5, <1>6, <1>7, <1>8 DEF Apply

LEMMA ConfirmTyped ==
  ASSUME IInv, NEW c \in Clients, Confirm(c)
  PROVE  TypeOK'
<1> USE BoundsAssumption
    DEF IInv, TypeOK, Procs, Steps, ApplySteps, RollSteps, Statuses, journal, guard, local, world, budgets,
        Goto, Return, Save
<1>1. CASE ConfirmProof(c)
  BY <1>1 DEF ConfirmProof
<1>2. CASE ConfirmRefused(c)
  BY <1>2 DEF ConfirmRefused
<1>3. CASE Commit(c)
  BY <1>3, AtWork DEF Commit, Calling
<1> QED
  BY <1>1, <1>2, <1>3 DEF Confirm

LEMMA RollTyped ==
  ASSUME IInv, NEW x \in Procs, Roll(x)
  PROVE  TypeOK'
<1> USE BoundsAssumption
    DEF IInv, TypeOK, Procs, Steps, ApplySteps, RollSteps, Statuses, journal, guard, local, world, budgets,
        Goto, Return, Save
<1>1. CASE RollBegin(x)
  BY <1>1 DEF RollBegin
<1>2. CASE RestoreConfig(x)
  BY <1>2, AtWork DEF RestoreConfig, Calling
<1>3. CASE RestoredOnly(x)
  BY ZenonT(60), <1>3 DEF RestoredOnly
<1>4. CASE RestoreChecked(x)
  BY <1>4 DEF RestoreChecked
<1>5. CASE Resignal(x)
  BY <1>5 DEF Resignal, Hup
<1>6. CASE Recovered(x)
  BY <1>6 DEF Recovered
<1>7. CASE Unguard(x)
  BY <1>7, StoppedTyped DEF Unguard
<1>8. CASE RollFail(x)
  <2>1. Fault \/ UNCHANGED budgets
    BY <1>8 DEF RollFail, RollConflict, InputsChanged
  <2>2. BudgetsTyped'
    BY <2>1 DEF Fault, BudgetsTyped
  <2>3. lock' \in Procs \cup {None} /\ pc' \in [Procs -> Steps] /\ op' \in [Procs -> Ops \cup {None}]
        /\ reloads' \in [Procs -> BOOLEAN]
    BY ZenonT(60), <1>8 DEF RollFail
  <2> QED
    BY <1>8, <2>2, <2>3 DEF RollFail, BudgetsTyped
<1>9. CASE Clear(x)
  BY <1>9, StoppedTyped DEF Clear
<1> QED
  BY <1>1, <1>2, <1>3, <1>4, <1>5, <1>6, <1>7, <1>8, <1>9 DEF Roll

LEMMA CallTyped ==
  ASSUME IInv, NEW c \in Clients, NEW o \in Ops, Call(c, o)
  PROVE  TypeOK'
<1> USE BoundsAssumption
    DEF IInv, TypeOK, Procs, Steps, ApplySteps, RollSteps, Statuses, journal, guard, local, world, budgets,
        Goto, Return, Save
<1>1. CASE Prepare(c, o)
  BY <1>1 DEF Prepare, ValidPort
<1>2. CASE ApplyBegin(c, o)
  BY <1>2 DEF ApplyBegin, Enter
<1>3. CASE ConfirmBegin(c, o)
  BY <1>3 DEF ConfirmBegin, Enter
<1>4. CASE RecoverSSH(c, o)
  BY <1>4 DEF RecoverSSH, Enter, Alive
<1>5. CASE Reconcile(c, o)
  BY <1>5 DEF Reconcile
<1> QED
  BY <1>1, <1>2, <1>3, <1>4, <1>5 DEF Call

LEMMA SuperviseTyped ==
  ASSUME IInv, SupStart \/ Supervise \/ GuardTick \/ Heartbeat
  PROVE  TypeOK'
<1> USE BoundsAssumption
    DEF IInv, TypeOK, Procs, Steps, ApplySteps, RollSteps, Statuses, journal, guard, local, world, budgets,
        Goto, Return, Save
<1>1. CASE SupStart
  BY <1>1, FreshIdentity, StoppedTyped DEF SupStart, Armed
<1>2. CASE Launch
  BY <1>2 DEF Launch, ValidConfig
<1>3. CASE SupReady
  BY <1>3 DEF SupReady
<1>4. CASE SupClear
  BY <1>4, StoppedTyped DEF SupClear
<1>5. CASE SupGivesUp
  BY <1>5, StoppedTyped DEF SupGivesUp
<1>6. CASE GuardTick
  BY <1>6 DEF GuardTick, Enter, Armed
<1>7. CASE Heartbeat
  BY <1>7 DEF Heartbeat
<1> QED
  BY <1>1, <1>2, <1>3, <1>4, <1>5, <1>6, <1>7 DEF Supervise

LEMMA EnvironmentTyped ==
  ASSUME IInv, Environment
  PROVE  TypeOK'
<1> USE BoundsAssumption
    DEF IInv, TypeOK, Procs, Steps, ApplySteps, RollSteps, Statuses, journal, guard, local, world, budgets,
        Goto, Return, Save
<1>1. CASE SshdReads
  BY <1>1 DEF SshdReads
<1>2. CASE SshdListens
  BY <1>2, StoppedTyped DEF SshdListens
<1>3. CASE SshdDies
  BY <1>3, StoppedTyped DEF SshdDies, Fault
<1>4. CASE Deadline
  BY <1>4 DEF Deadline
<1>5. CASE EditedByOthers
  BY <1>5 DEF EditedByOthers
<1>6. CASE Reboot
  BY <1>6, StoppedTyped DEF Reboot, Fault
<1>7. CASE \E c \in Clients : Connect(c)
  BY <1>7 DEF Connect
<1>8. CASE \E x \in Procs : Crash(x)
  BY <1>8 DEF Crash, Fault
<1> QED
  BY <1>1, <1>2, <1>3, <1>4, <1>5, <1>6, <1>7, <1>8 DEF Environment

-----------------------------------------------------------------------------
\* The inductive invariant.

\* While x holds the lock, or nobody does, no other process is at work: only what
\* x itself does next has to be looked at.
LEMMA OthersWait ==
  ASSUME Control, NEW x \in Procs, lock \in {x, None},
         \A y \in Procs \ {x} : pc'[y] = pc[y],
         Controlled(x)'
  PROVE  Control'
<1> SUFFICES ASSUME NEW y \in Procs, y # x PROVE Controlled(y)'
  BY DEF Control
<1>1. lock # y
  BY SortsAssumption DEF Procs
<1>2. pc[y] \notin Calling \cup Starting
  BY <1>1 DEF Control, Controlled, Working
<1> QED
  BY <1>2 DEF Controlled, Working, Calling, Starting, ApplySteps, RollSteps

LEMMA ApplyKeeps ==
  ASSUME IInv, NEW c \in Clients, Apply(c)
  PROVE  IInv'
<1>a. TypeOK'
  BY ApplyTyped
<1>b. pc[c] \in Calling /\ op[c] \in Ops /\ status[op[c]] \in Intent(pc[c]) /\ lock = c
  BY AtWork DEF Apply, Arm, JournalArmed, JournalApplying, InstallConfig, Signal, Listening, Await, ApplyFail,
                Calling, ApplySteps, Procs
<1>c. \A y \in Procs \ {c} : pc'[y] = pc[y]
  BY DEF Apply, Arm, JournalArmed, JournalApplying, InstallConfig, Signal, Listening, Await, ApplyFail,
         Goto, Return, IInv, TypeOK
<1> SUFFICES Controlled(c)' /\ Planned' /\ Confirmed' /\ UnconfirmedIsArmed'
  BY <1>a, <1>b, <1>c, OthersWait DEF IInv, Procs
<1> USE <1>b DEF IInv, TypeOK, Planned, Control, Controlled, Working, Calling, Starting, Confirmed,
                UnconfirmedIsArmed, Intent, Armed, Unsettled, Started, ApplySteps, RollSteps, Statuses,
                journal, guard, local, world, budgets, Goto, Return, Save, Procs
<1>1. CASE Arm(c)
  BY <1>1, SortsAssumption DEF Arm
<1>2. CASE JournalArmed(c)
  <2> USE <1>2 DEF JournalArmed
  <2>1. Controlled(c)'
    OBVIOUS
  <2>2. Planned'
    OBVIOUS
  <2>3. Confirmed'
    OBVIOUS
  <2>4. UnconfirmedIsArmed'
    BY ZenonT(60)
  <2> QED
    BY <2>1, <2>2, <2>3, <2>4
<1>3. CASE JournalApplying(c)
  BY ZenonT(60), <1>3 DEF JournalApplying
<1>4. CASE InstallConfig(c)
  BY <1>4 DEF InstallConfig
<1>5. CASE Signal(c)
  BY <1>5 DEF Signal
<1>6. CASE Listening(c)
  BY <1>6 DEF Listening
<1>7. CASE Await(c)
  BY <1>7 DEF Await
<1>8. CASE ApplyFail(c)
  BY ZenonT(60), <1>8 DEF ApplyFail
<1> QED
  BY <1>1, <1>2, <1>3, <1>4, <1>5, <1>6, <1>7, <1>8 DEF Apply

LEMMA ConfirmKeeps ==
  ASSUME IInv, NEW c \in Clients, Confirm(c)
  PROVE  IInv'
<1>a. TypeOK'
  BY ConfirmTyped
<1>b. pc[c] \in Calling /\ op[c] \in Ops /\ status[op[c]] \in Intent(pc[c]) /\ lock = c
  BY AtWork DEF Confirm, ConfirmProof, ConfirmRefused, Commit, Calling, Procs
<1>c. \A y \in Procs \ {c} : pc'[y] = pc[y]
  BY DEF Confirm, ConfirmProof, ConfirmRefused, Commit, Goto, Return, IInv, TypeOK
<1> SUFFICES Controlled(c)' /\ Planned' /\ Confirmed' /\ UnconfirmedIsArmed'
  BY <1>a, <1>b, <1>c, OthersWait DEF IInv, Procs
<1> USE <1>b DEF IInv, TypeOK, Planned, Control, Controlled, Working, Calling, Starting, Confirmed,
                UnconfirmedIsArmed, Intent, Armed, Unsettled, Started, ApplySteps, RollSteps, Statuses,
                journal, guard, local, world, budgets, Goto, Return, Save, Procs
<1>1. CASE ConfirmProof(c)
  BY <1>1, SortsAssumption DEF ConfirmProof, Proof
<1>2. CASE ConfirmRefused(c)
  BY <1>2 DEF ConfirmRefused
<1>3. CASE Commit(c)
  BY <1>3 DEF Commit
<1> QED
  BY <1>1, <1>2, <1>3 DEF Confirm

LEMMA RollKeeps ==
  ASSUME IInv, NEW x \in Procs, Roll(x)
  PROVE  IInv'
<1>a. TypeOK'
  BY RollTyped
<1>b. pc[x] \in Calling /\ op[x] \in Ops /\ status[op[x]] \in Intent(pc[x]) /\ lock = x
  BY AtWork DEF Roll, RollBegin, RestoreConfig, RestoredOnly, RestoreChecked, Resignal, Recovered, Unguard,
         RollFail, RollConflict, Clear, Calling, RollSteps
<1>c. \A y \in Procs \ {x} : pc'[y] = pc[y]
  BY DEF Roll, RollBegin, RestoreConfig, RestoredOnly, RestoreChecked, Resignal, Recovered, Unguard,
         RollFail, RollConflict, Clear, Goto, Return, IInv, TypeOK
<1> SUFFICES Controlled(x)' /\ Planned' /\ Confirmed' /\ UnconfirmedIsArmed'
  BY <1>a, <1>b, <1>c, OthersWait DEF IInv
<1> USE <1>b DEF IInv, TypeOK, Planned, Control, Controlled, Working, Calling, Starting, Confirmed,
                UnconfirmedIsArmed, Intent, Armed, Unsettled, Started, ApplySteps, RollSteps, Statuses,
                journal, guard, local, world, budgets, Goto, Return, Save, Procs
<1>1. CASE RollBegin(x)
  <2> USE <1>1 DEF RollBegin
  <2>1. Controlled(x)'
    OBVIOUS
  <2>2. Planned'
    OBVIOUS
  <2>3. Confirmed'
    OBVIOUS
  <2>4. UnconfirmedIsArmed'
    BY ZenonT(60)
  <2> QED
    BY <2>1, <2>2, <2>3, <2>4
<1>2. CASE RestoreConfig(x)
  BY <1>2 DEF RestoreConfig
<1>3. CASE RestoredOnly(x)
  BY <1>3 DEF RestoredOnly
<1>4. CASE RestoreChecked(x)
  BY <1>4 DEF RestoreChecked
<1>5. CASE Resignal(x)
  BY <1>5 DEF Resignal
<1>6. CASE Recovered(x)
  BY ZenonT(60), <1>6 DEF Recovered
<1>7. CASE Unguard(x)
  BY <1>7, SortsAssumption DEF Unguard, Unarmed
<1>8. CASE RollFail(x)
  BY <1>8 DEF RollFail, RollConflict
<1>9. CASE Clear(x)
  BY <1>9, SortsAssumption DEF Clear, Unarmed
<1> QED
  BY <1>1, <1>2, <1>3, <1>4, <1>5, <1>6, <1>7, <1>8, <1>9 DEF Roll

\* A call begins while no process is at work.
LEMMA CallKeeps ==
  ASSUME IInv, NEW c \in Clients, NEW o \in Ops, Call(c, o)
  PROVE  IInv'
<1>a. TypeOK'
  BY CallTyped
<1>b. pc[c] = "idle" /\ o # None /\ (lock = None \/ UNCHANGED local)
  BY SortsAssumption DEF Call, Prepare, ApplyBegin, ConfirmBegin, RecoverSSH, Reconcile, Enter
<1>c. lock = None /\ \A y \in Procs \ {c} : pc'[y] = pc[y]
  BY DEF Call, Prepare, ApplyBegin, ConfirmBegin, RecoverSSH, Reconcile, Enter, local, IInv, TypeOK
<1> SUFFICES Controlled(c)' /\ Planned' /\ Confirmed' /\ UnconfirmedIsArmed'
  BY <1>a, <1>c, OthersWait DEF IInv, Procs
<1> USE <1>b, SortsAssumption DEF IInv, TypeOK, Planned, Control, Controlled, Working, Calling, Starting, Confirmed,
                UnconfirmedIsArmed, Intent, Armed, Unsettled, Started, ApplySteps, RollSteps, Statuses,
                journal, guard, local, world, budgets, Goto, Return, Save, Procs
<1>1. CASE Prepare(c, o)
  BY <1>1 DEF Prepare, ValidPort
<1>2. CASE ApplyBegin(c, o)
  BY <1>2 DEF ApplyBegin, Enter
<1>3. CASE ConfirmBegin(c, o)
  BY <1>3 DEF ConfirmBegin, Enter
<1>4. CASE RecoverSSH(c, o)
  BY <1>4 DEF RecoverSSH, Enter
<1>5. CASE Reconcile(c, o)
  BY <1>5 DEF Reconcile, Interrupted
<1> QED
  BY <1>1, <1>2, <1>3, <1>4, <1>5 DEF Call

\* The supervisor starts, restores or launches the listener, and watches.
LEMMA SuperviseKeeps ==
  ASSUME IInv, SupStart \/ Launch \/ SupReady \/ SupClear \/ GuardTick
  PROVE  IInv'
<1>a. TypeOK'
  BY SuperviseTyped DEF Supervise
<1>b. \A y \in Procs \ {Sup} : pc'[y] = pc[y]
  BY DEF SupStart, GuardTick, Launch, SupReady, SupClear, Goto, Return, Enter, IInv, TypeOK
<1>c. lock \in {Sup, None}
  BY DEF SupStart, GuardTick, Launch, SupReady, SupClear, Enter, IInv, Control, Controlled,
         Working, Starting, Procs
<1> SUFFICES Controlled(Sup)' /\ Planned' /\ Confirmed' /\ UnconfirmedIsArmed'
  BY <1>a, <1>b, <1>c, OthersWait DEF IInv, Procs
<1> USE SortsAssumption DEF IInv, TypeOK, Planned, Control, Controlled, Working, Calling, Starting, Confirmed,
                UnconfirmedIsArmed, Intent, Armed, Unsettled, Started, ApplySteps, RollSteps, Statuses,
                journal, guard, local, world, budgets, Goto, Return, Save, Procs
<1>1. CASE SupStart
  BY <1>1 DEF SupStart, Settled, Unarmed
<1>2. CASE Launch
  BY <1>2 DEF Launch
<1>3. CASE SupReady
  <2>1. pc[Sup] = "started" /\ lock = Sup /\ op[Sup] \in {None, pending.op}
    BY <1>3 DEF SupReady
  <2>2. Controlled(Sup)'
    BY <1>3, <2>1 DEF SupReady
  <2>3. CASE op[Sup] = None
    BY <1>3, <2>2, <2>3 DEF SupReady
  <2>4. CASE op[Sup] # None
    <3>1. Planned'
      BY <1>3, <2>1, <2>4 DEF SupReady
    <3> QED
      BY <1>3, <2>2, <2>4, <3>1 DEF SupReady
  <2> QED
    BY <2>3, <2>4
<1>4. CASE SupClear
  <2>1. op[Sup] # None => status[op[Sup]] = "recovered" /\ pending.op = op[Sup]
    BY <1>4 DEF SupClear
  <2>2. Controlled(Sup)' /\ Planned'
    BY <1>4 DEF SupClear, Unarmed
  <2> QED
    BY <1>4, <2>1, <2>2 DEF SupClear, Unarmed
<1>5. CASE GuardTick
  BY <1>5 DEF GuardTick, Settled, Enter
<1> QED
  BY <1>1, <1>2, <1>3, <1>4, <1>5

\* The environment, the heartbeat and the end of the supervisor disturb no call that is
\* at work, but for the process that ends.
LEMMA EnvironmentKeeps ==
  ASSUME IInv, Environment \/ Heartbeat \/ SupGivesUp
  PROVE  IInv'
<1>a. TypeOK'
  BY EnvironmentTyped, SuperviseTyped DEF Supervise
<1> SUFFICES Control' /\ Planned' /\ Confirmed' /\ UnconfirmedIsArmed'
  BY <1>a DEF IInv
<1> USE SortsAssumption DEF IInv, TypeOK, Planned, Control, Controlled, Working, Calling, Starting, Confirmed,
                UnconfirmedIsArmed, Intent, Armed, Unsettled, Started, ApplySteps, RollSteps, Statuses,
                journal, guard, local, world, budgets, Goto, Return, Save, Procs
<1>1. CASE SshdReads
  BY <1>1 DEF SshdReads, Alive
<1>2. CASE SshdListens
  BY <1>2 DEF SshdListens, Alive, Stopped
<1>3. CASE SshdDies
  BY <1>3 DEF SshdDies, Alive, Stopped
<1>4. CASE Deadline
  BY <1>4 DEF Deadline, Alive
<1>5. CASE EditedByOthers
  BY <1>5 DEF EditedByOthers, Alive
<1>6. CASE Reboot
  BY <1>6 DEF Reboot, Alive
<1>7. CASE \E c \in Clients : Connect(c)
  BY <1>7 DEF Connect, Alive
<1>8. CASE \E x \in Procs : Crash(x)
  BY <1>8 DEF Crash, Alive
<1>9. CASE Heartbeat
  BY <1>9 DEF Heartbeat, Alive
<1>10. CASE SupGivesUp
  BY <1>10 DEF SupGivesUp, SupExit, Alive, Stopped
<1> QED
  BY <1>1, <1>2, <1>3, <1>4, <1>5, <1>6, <1>7, <1>8, <1>9, <1>10 DEF Environment

LEMMA InitInv == Init => IInv
BY SortsAssumption, BoundsAssumption, StoppedTyped
   DEF Init, IInv, TypeOK, Planned, Control, Controlled, Working, Calling, Starting, Confirmed, UnconfirmedIsArmed,
       Armed, Unsettled, ApplySteps, RollSteps, Steps, Statuses, Procs, Unarmed, NoPlan

LEMMA StepInv == IInv /\ [Next]_vars => IInv'
<1> SUFFICES ASSUME IInv, [Next]_vars PROVE IInv'
  OBVIOUS
<1>1. CASE \E c \in Clients : Apply(c) \/ Confirm(c)
  BY <1>1, ApplyKeeps, ConfirmKeeps
<1>2. CASE \E x \in Procs : Roll(x)
  BY <1>2, RollKeeps
<1>3. CASE \E c \in Clients, o \in Ops : Call(c, o)
  BY <1>3, CallKeeps
<1>4. CASE SupStart \/ Supervise \/ GuardTick
  BY <1>4, SuperviseKeeps, EnvironmentKeeps DEF Supervise
<1>5. CASE Environment \/ Heartbeat
  BY <1>5, EnvironmentKeeps
<1>6. CASE UNCHANGED vars
  BY <1>6 DEF vars, journal, guard, local, world, budgets, IInv, TypeOK, Planned, Control, Controlled, Working,
              Confirmed, UnconfirmedIsArmed, Armed, Alive
<1> QED
  BY <1>1, <1>2, <1>3, <1>4, <1>5, <1>6 DEF Next

LEMMA Invariant == Spec => []IInv
BY InitInv, StepInv, PTL DEF Spec

-----------------------------------------------------------------------------
\* What follows.

\* Every variable keeps its type, whatever processes, sshd and other programs do.
THEOREM TypeCorrect == Spec => []TypeOK
<1>1. IInv => TypeOK
  BY DEF IInv
<1> QED
  BY <1>1, Invariant, PTL

\* An operation that has begun, and was neither confirmed nor recovered, is armed:
\* no crash, reboot, foreign edit or heartbeat loses the deadline that undoes it
\* (recovery/ssh.go, state/store_guard.go).
THEOREM UnconfirmedStaysArmed == Spec => []UnconfirmedIsArmed
<1>1. IInv => UnconfirmedIsArmed
  BY DEF IInv
<1> QED
  BY <1>1, Invariant, PTL

\* The steps that leave the journal alone.
LEMMA JournalKept ==
  ASSUME IInv, [Next]_vars, NEW o \in Ops, status'[o] # status[o]
  PROVE  \/ \E c \in Clients : Apply(c) \/ Commit(c) \/ \E q \in Ops : Prepare(c, q) \/ Reconcile(c, q)
         \/ \E x \in Procs : RollBegin(x) \/ Recovered(x) \/ RollFail(x)
         \/ SupReady
<1> USE DEF journal
<1>1. \A c \in Clients : Confirm(c) => Commit(c)
  BY DEF Confirm, ConfirmProof, ConfirmRefused
<1>2. \A x \in Procs : Roll(x) => RollBegin(x) \/ Recovered(x) \/ RollFail(x)
  BY DEF Roll, RestoreConfig, RestoredOnly, RestoreChecked, Resignal, Unguard, Clear
<1>3. \A c \in Clients, q \in Ops : Call(c, q) => Prepare(c, q) \/ Reconcile(c, q)
  BY DEF Call, ApplyBegin, ConfirmBegin, RecoverSSH
<1>4. Supervise => SupReady
  BY DEF Supervise, Launch, SupClear, SupGivesUp
<1>5. ~SupStart /\ ~GuardTick /\ ~Heartbeat
  BY DEF SupStart, GuardTick, Heartbeat
<1>6. ~Environment
  BY DEF Environment, SshdReads, SshdListens, SshdDies, Deadline, EditedByOthers, Reboot, Connect, Crash
<1>7. ~UNCHANGED vars
  BY DEF vars
<1> QED
  BY <1>1, <1>2, <1>3, <1>4, <1>5, <1>6, <1>7 DEF Next

\* What the steps that remain write, and over what.
LEMMA JournalWrites ==
  ASSUME IInv, [Next]_vars, NEW o \in Ops, status'[o] # status[o]
  PROVE  \/ status[o] \in {"none", "ready", "ssh_armed", "applying", "rolling_back"}
            /\ status'[o] \notin {"committed", "recovered"}
         \/ \E c \in Clients : Commit(c) /\ op[c] = o /\ status'[o] = "committed"
                               /\ status[o] = "awaiting_confirmation"
         \/ \E x \in Procs : RollBegin(x) /\ op[x] = o /\ status'[o] = "rolling_back"
         \/ \E x \in Procs : Recovered(x) /\ op[x] = o /\ status'[o] = "recovered"
                             /\ status[o] = "rolling_back"
         \/ SupReady /\ op[Sup] = o /\ status'[o] = "recovered" /\ status[o] = "rolling_back"
<1> USE DEF IInv, TypeOK, Save
<1>1. ASSUME NEW c \in Clients, Apply(c)
      PROVE  status[o] \in {"ready", "ssh_armed", "applying"} /\ status'[o] \notin {"committed", "recovered"}
  <2>1. pc[c] \in ApplySteps /\ c \in Procs
    BY <1>1 DEF Apply, Arm, JournalArmed, JournalApplying, InstallConfig, Signal, Listening, Await, ApplyFail,
                ApplySteps, Procs
  <2>2. status[op[c]] \in {"ready", "ssh_armed", "applying"}
    BY <2>1, AtWork DEF Calling, ApplySteps, Intent
  <2>3. op[c] = o /\ status'[o] \notin {"committed", "recovered"}
    BY <1>1 DEF Apply, Arm, JournalArmed, JournalApplying, InstallConfig, Signal, Listening, Await, ApplyFail,
                journal
  <2> QED
    BY <2>2, <2>3
<1>2. ASSUME NEW c \in Clients, Commit(c)
      PROVE  op[c] = o /\ status'[o] = "committed" /\ status[o] = "awaiting_confirmation"
  BY <1>2, AtWork DEF Commit, Calling, Intent, Procs
<1>3. ASSUME NEW c \in Clients, NEW q \in Ops, Prepare(c, q) \/ Reconcile(c, q)
      PROVE  status[o] \in {"none", "applying", "rolling_back"} /\ status'[o] \notin {"committed", "recovered"}
  BY <1>3 DEF Prepare, Reconcile, Interrupted
<1>4. ASSUME NEW x \in Procs, RollBegin(x)
      PROVE  op[x] = o /\ status'[o] = "rolling_back"
  BY <1>4 DEF RollBegin
<1>5. ASSUME NEW x \in Procs, Recovered(x)
      PROVE  op[x] = o /\ status'[o] = "recovered" /\ status[o] = "rolling_back"
  BY <1>5, AtWork DEF Recovered, Calling, RollSteps, Intent
<1>6. ASSUME NEW x \in Procs, RollFail(x)
      PROVE  status[o] = "rolling_back" /\ status'[o] \notin {"committed", "recovered"}
  BY <1>6, AtWork DEF RollFail, RollConflict, Calling, RollSteps, Intent
<1>7. ASSUME SupReady
      PROVE  op[Sup] = o /\ status'[o] = "recovered" /\ status[o] = "rolling_back"
  BY ZenonT(60), <1>7, SortsAssumption
     DEF SupReady, journal, Control, Controlled, Working, Starting, Intent, Procs
<1> QED
  BY <1>1, <1>2, <1>3, <1>4, <1>5, <1>6, <1>7, JournalKept

\* "recovered" is recorded only while the listener that runs answers on the original
\* port, on a rollback of a running service as on a start of the supervisor
\* (ssh.go:496-501, ssh_supervisor_linux.go:142-151).
THEOREM RecoveredMeansRunning == Spec => RecoveredIsRunning
<1>1. IInv /\ [Next]_vars =>
        [\A o \in Ops : status[o] # "recovered" /\ status'[o] = "recovered" =>
           sshd.gen # 0 /\ sshd.port = plan[o].from]_vars
  <2> SUFFICES ASSUME IInv, [Next]_vars, NEW o \in Ops, status[o] # "recovered", status'[o] = "recovered"
               PROVE  sshd.gen # 0 /\ sshd.port = plan[o].from
    OBVIOUS
  <2>1. o # None
    BY SortsAssumption
  <2>2. (\E x \in Procs : Recovered(x) /\ op[x] = o) \/ (SupReady /\ op[Sup] = o)
    BY JournalWrites
  <2> QED
    BY <2>1, <2>2 DEF Recovered, SupReady, Alive, Answers
<1> QED
  BY <1>1, Invariant, PTL DEF Spec, RecoveredIsRunning

\* What was committed or recovered, and what could not be restored, is reopened by an
\* operator's rollback only: neither a late tick of the supervisor, nor a restart of
\* it, nor a second call on the operation does (ssh.go:408-413,
\* ssh_supervisor_linux.go:236-243).
THEOREM DecisionsStand == Spec => DecisionStands
<1>1. IInv /\ [Next]_vars =>
        [\A o \in Ops : status[o] \in {"committed", "recovered", "recovery_failed"} /\ status'[o] # status[o]
           => \E c \in Clients : pc[c] = "roll" /\ op[c] = o]_vars
  <2> SUFFICES ASSUME IInv, [Next]_vars, NEW o \in Ops,
                      status[o] \in {"committed", "recovered", "recovery_failed"}, status'[o] # status[o]
               PROVE  \E c \in Clients : pc[c] = "roll" /\ op[c] = o
    OBVIOUS
  <2>1. PICK x \in Procs : RollBegin(x) /\ op[x] = o
    BY JournalWrites
  <2>2. pc[x] = "roll" /\ status[o] # "recovered"
    BY <2>1, AtWork DEF RollBegin, Calling, RollSteps, Intent
  <2>3. x # Sup
    BY <2>1, <2>2 DEF IInv, Control, Controlled
  <2> QED
    BY <2>1, <2>2, <2>3 DEF Procs
<1> QED
  BY <1>1, Invariant, PTL DEF Spec, DecisionStands

\* A change is committed only by a client that reached the new port over a transport
\* opened after the reload of this operation, or that did until the listener stopped
\* (ssh.go:398-418, ssh_linux.go:222).
THEOREM CommittedMeansReached == Spec => CommittedWasReached
<1>1. IInv /\ [Next]_vars =>
        [\A o \in Ops : status[o] # "committed" /\ status'[o] = "committed" =>
           \E c \in Clients :
             op[c] = o /\ (session[c] = [port |-> plan[o].to, old |-> FALSE] \/ ~Alive(plan[o].gen))]_vars
  <2> SUFFICES ASSUME IInv, [Next]_vars, NEW o \in Ops, status[o] # "committed", status'[o] = "committed"
               PROVE  \E c \in Clients :
                        op[c] = o /\ (session[c] = [port |-> plan[o].to, old |-> FALSE] \/ ~Alive(plan[o].gen))
    OBVIOUS
  <2>1. PICK c \in Clients : Commit(c) /\ op[c] = o
    BY JournalWrites
  <2> QED
    BY <2>1 DEF Commit, IInv, Control, Controlled, Procs
<1> QED
  BY <1>1, Invariant, PTL DEF Spec, CommittedWasReached
=============================================================================
