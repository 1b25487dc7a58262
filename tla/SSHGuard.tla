------------------------------ MODULE SSHGuard ------------------------------
(***************************************************************************)
(* Guarded SSH port changes (recovery/ssh.go, ssh_supervisor_linux.go,     *)
(* state/store_guard.go): a change of the listening port is armed with a   *)
(* durable deadline before the configuration is touched, and is undone by  *)
(* a target-local supervisor unless it is confirmed over a new connection. *)
(*                                                                         *)
(* Commands and the supervisor are processes that exclude each other by    *)
(* the executor lock, which nobody waits for.  A step is one durable       *)
(* effect with the checks made right before it.  sshd and init are         *)
(* external: sshd reads its configuration some time after SIGHUP, ignores  *)
(* the signal while it restarts, and dies with its supervisor.             *)
(***************************************************************************)
EXTENDS Naturals, FiniteSets

CONSTANTS
  Ops,            \* prepared port changes
  Ports,          \* ports a valid configuration may select
  First,          \* the port the service starts with
  Clients,        \* processes of operators
  Sup,            \* the supervisor
  Other,          \* a configuration that is not a managed one
  None,           \* no operation, no port, no process
  MaxFaults,      \* bound: deaths of processes, reboots, slow restarts of sshd
  MaxForeign      \* bound: writes of the configuration by other programs

ASSUME SortsAssumption ==
  /\ First \in Ports
  /\ Sup \notin Clients
  /\ Other \notin Ports /\ None \notin Ports \cup {Other} \cup Ops \cup Clients \cup {Sup}
ASSUME OpsAssumption == IsFiniteSet(Ops)
ASSUME BoundsAssumption == MaxFaults \in Nat /\ MaxForeign \in Nat

Procs == Clients \cup {Sup}
Statuses == {"none", "ready", "ssh_armed", "applying", "awaiting_confirmation", "committed",
             "outcome_unknown", "rolling_back", "recovered", "recovery_failed"}
ApplySteps == {"arm", "journal", "start", "install", "signal", "listen", "await"}
RollSteps  == {"roll", "restore", "check", "resignal", "relisten", "unguard"}
Steps == {"idle", "proof", "commit", "clear", "down", "launch", "started", "beat", "watch"}
           \cup ApplySteps \cup RollSteps

VARIABLES
  config,         \* the port the configuration file selects, or Other
  status,         \* [Ops -> Statuses], the recovery journal
  plan,           \* [Ops -> manifest: the ports before and after, the supervisor bound]
  pending,        \* recovery_guards.pending: the armed operation and its deadline
  lease,          \* recovery_guards.lease: the supervisor that wrote it
  boot,           \* identity of the running kernel
  lock,           \* holder of the executor lock
  pc, op,         \* per process: next step of its call, and its operation
  reloads,        \* per process: whether a rollback has a listener to reload
  gen,            \* identity of the last supervisor, which its sshd shares
  sshd,           \* the listener
  session,        \* per client: the transport of its login, and whether it is older
                  \* than the last reload that was recorded
  faults, foreign,
  confirmed       \* history: operations that have been committed

journal == <<status, plan>>
guard   == <<pending, lease>>
local   == <<pc, op, reloads>>
world   == <<boot, gen, session>>
budgets == <<faults, foreign>>
vars    == <<config, journal, guard, lock, local, world, sshd, budgets, confirmed>>

Stopped == [gen |-> 0, port |-> None, load |-> None, hup |-> FALSE]
Unarmed == [op |-> None, boot |-> 0, due |-> FALSE]
NoSession == [port |-> None, old |-> FALSE]
NoPlan  == [from |-> None, to |-> None, gen |-> 0]

-----------------------------------------------------------------------------
\* Helpers.

Goto(x, step) == pc' = [pc EXCEPT ![x] = step] /\ UNCHANGED <<op, reloads>>
Enter(x, o, step) ==
  /\ lock = None /\ lock' = x
  /\ pc' = [pc EXCEPT ![x] = step]
  /\ op' = [op EXCEPT ![x] = o]
\* A call returns; a supervisor goes back to its loop.
Return(x) ==
  /\ lock' = None
  /\ pc' = [pc EXCEPT ![x] = IF x = Sup THEN "watch" ELSE "idle"]
  /\ op' = [op EXCEPT ![x] = None]
  /\ reloads' = [reloads EXCEPT ![x] = FALSE]
Save(o, s) == status' = [status EXCEPT ![o] = s] /\ UNCHANGED plan

Armed == pending.op # None
Overdue == pending.due \/ pending.boot # boot

\* A process found under its recorded identity: same number, still running.
Alive(g) == sshd.gen # 0 /\ sshd.gen = g
SupAlive == pc[Sup] # "down"
\* The lease is fresh and both processes it names are the ones that wrote it.
LeaseFresh == SupAlive /\ lease = gen /\ Alive(lease) /\ lease # 0
Bound(o) == LeaseFresh /\ plan[o].gen = lease

\* SIGHUP: taken up later, or lost while sshd restarts.
Hup == sshd' = IF sshd.load = None THEN [sshd EXCEPT !.hup = TRUE] ELSE sshd

\* sshd -t accepts the configuration on disk.
ValidConfig == config \in Ports
\* The listener owns the port and answers with a banner.
Answers(p) == sshd.port = p

\* A configuration selects one port and nothing else may change.
ValidPort(from, to) == from \in Ports /\ to \in Ports /\ to # from

\* A process identity that nothing remembers.
Remembered == {0, lease, sshd.gen} \cup {plan[o].gen : o \in Ops}
Fresh == CHOOSE n \in 1..(Cardinality(Ops) + 3) : n \notin Remembered

Fault == faults < MaxFaults /\ faults' = faults + 1 /\ UNCHANGED foreign

-----------------------------------------------------------------------------
\* Prepare: the plan binds the supervisor that is running.

Prepare(c, o) ==
  /\ pc[c] = "idle" /\ lock = None /\ status[o] = "none"
  /\ ~Armed /\ LeaseFresh
  /\ \E p \in Ports :
       /\ ValidPort(config, p)
       /\ plan' = [plan EXCEPT ![o] = [from |-> config, to |-> p, gen |-> lease]]
  /\ status' = [status EXCEPT ![o] = "ready"]
  /\ UNCHANGED <<config, guard, lock, local, world, sshd, budgets, confirmed>>

-----------------------------------------------------------------------------
\* ApplySSH.

ApplyBegin(c, o) ==
  /\ pc[c] = "idle" /\ status[o] = "ready"
  /\ ~Armed /\ Bound(o)
  /\ config = plan[o].from /\ Answers(plan[o].from)
  /\ Enter(c, o, "arm")
  /\ UNCHANGED <<config, journal, guard, reloads, world, sshd, budgets, confirmed>>

\* The deadline is durable before anything else is.
Arm(c) ==
  /\ pc[c] = "arm"
  /\ ~Armed
  /\ pending' = [op |-> op[c], boot |-> boot, due |-> FALSE]
  /\ Goto(c, "journal")
  /\ UNCHANGED <<config, journal, lease, lock, world, sshd, budgets, confirmed>>

JournalArmed(c) ==
  /\ pc[c] = "journal" /\ Save(op[c], "ssh_armed") /\ Goto(c, "start")
  /\ UNCHANGED <<config, guard, lock, world, sshd, budgets, confirmed>>

JournalApplying(c) ==
  /\ pc[c] = "start" /\ Save(op[c], "applying") /\ Goto(c, "install")
  /\ UNCHANGED <<config, guard, lock, world, sshd, budgets, confirmed>>

InstallConfig(c) ==
  /\ pc[c] = "install"
  /\ config = plan[op[c]].from
  /\ config' = plan[op[c]].to
  /\ Goto(c, "signal")
  /\ UNCHANGED <<journal, guard, lock, world, sshd, budgets, confirmed>>

Signal(c) ==
  /\ pc[c] = "signal"
  /\ ValidConfig /\ Alive(plan[op[c]].gen)
  /\ Hup
  /\ Goto(c, "listen")
  /\ UNCHANGED <<config, journal, guard, lock, world, budgets, confirmed>>

\* The new port answers.  The recorded time makes every transport opened until
\* now an old one.
Listening(c) ==
  /\ pc[c] = "listen"
  /\ Alive(plan[op[c]].gen) /\ Answers(plan[op[c]].to)
  /\ session' = [k \in Clients |-> [session[k] EXCEPT !.old = TRUE]]
  /\ Goto(c, "await")
  /\ UNCHANGED <<config, journal, guard, lock, boot, gen, sshd, budgets, confirmed>>

Await(c) ==
  /\ pc[c] = "await"
  /\ config = plan[op[c]].to
  /\ Save(op[c], "awaiting_confirmation")
  /\ Return(c)
  /\ UNCHANGED <<config, guard, world, sshd, budgets, confirmed>>

\* Anything that goes wrong leaves the deadline armed.
ApplyFail(c) ==
  /\ pc[c] \in ApplySteps \ {"arm"}
  /\ Save(op[c], "outcome_unknown")
  /\ Return(c)
  /\ UNCHANGED <<config, guard, world, sshd, budgets, confirmed>>

-----------------------------------------------------------------------------
\* ConfirmSSH.

\* Variant: any transport to the new port is accepted.
ProofOldTransport(c, o) == session[c].port = plan[o].to
\* The caller descends from the managed listener over a transport to the new
\* port that was opened after the reload.
Proof(c, o) == session[c].port = plan[o].to /\ ~session[c].old

ConfirmBegin(c, o) ==
  /\ pc[c] = "idle" /\ status[o] = "awaiting_confirmation"
  /\ Bound(o) /\ pending.op = o /\ ~Overdue
  /\ config = plan[o].to
  /\ Enter(c, o, "proof")
  /\ UNCHANGED <<config, journal, guard, reloads, world, sshd, budgets, confirmed>>

\* The proof, and the deadline once more.
ConfirmProof(c) ==
  /\ pc[c] = "proof"
  /\ Alive(plan[op[c]].gen) /\ Proof(c, op[c]) /\ ~Overdue
  /\ Goto(c, "commit")
  /\ UNCHANGED <<config, journal, guard, lock, world, sshd, budgets, confirmed>>

ConfirmRefused(c) ==
  /\ pc[c] = "proof"
  /\ ~(Alive(plan[op[c]].gen) /\ Proof(c, op[c]) /\ ~Overdue)
  /\ Return(c)
  /\ UNCHANGED <<config, journal, guard, world, sshd, budgets, confirmed>>

Commit(c) ==
  /\ pc[c] = "commit"
  /\ Save(op[c], "committed")
  /\ confirmed' = confirmed \cup {op[c]}
  /\ Goto(c, "clear")
  /\ UNCHANGED <<config, guard, lock, world, sshd, budgets>>

\* Clear exactly the deadline that was read.
Clear(c) ==
  /\ pc[c] = "clear"
  /\ pending' = IF pending.op = op[c] THEN Unarmed ELSE pending
  /\ Return(c)
  /\ UNCHANGED <<config, journal, lease, world, sshd, budgets, confirmed>>

-----------------------------------------------------------------------------
\* RecoverSSH and rollbackSSH.

Started == Statuses \ {"none", "ready", "recovered"}

RecoverSSH(c, o) ==
  /\ pc[c] = "idle" /\ status[o] \in Started
  /\ lease # 0
  /\ pending.op \in {o, None}
  /\ Enter(c, o, "roll")
  /\ reloads' = [reloads EXCEPT ![c] = Alive(lease)]
  /\ UNCHANGED <<config, journal, guard, world, sshd, budgets, confirmed>>

RollBegin(x) ==
  /\ pc[x] = "roll"
  /\ Save(op[x], "rolling_back") /\ Goto(x, "restore")
  /\ UNCHANGED <<config, guard, lock, world, sshd, budgets, confirmed>>

\* The original is put back over the operation's own output only.
RestoreConfig(x) ==
  /\ pc[x] = "restore"
  /\ config \in {plan[op[x]].from, plan[op[x]].to}
  /\ config' = plan[op[x]].from
  /\ Goto(x, "check")
  /\ UNCHANGED <<journal, guard, lock, world, sshd, budgets, confirmed>>

\* Without a listener the supervisor has to start one; the call ends here.
RestoredOnly(x) ==
  /\ pc[x] = "check" /\ config = plan[op[x]].from
  /\ ~reloads[x]
  /\ IF x = Sup THEN Goto(x, "launch") /\ UNCHANGED lock ELSE Return(x)
  /\ UNCHANGED <<config, journal, guard, world, sshd, budgets, confirmed>>

RestoreChecked(x) ==
  /\ pc[x] = "check" /\ config = plan[op[x]].from
  /\ reloads[x]
  /\ Goto(x, "resignal")
  /\ UNCHANGED <<config, journal, guard, lock, world, sshd, budgets, confirmed>>

Resignal(x) ==
  /\ pc[x] = "resignal" /\ Alive(lease)
  /\ Hup
  /\ Goto(x, "relisten")
  /\ UNCHANGED <<config, journal, guard, lock, world, budgets, confirmed>>

\* Variant: restored bytes are taken for a restored service.
RecoveredUnchecked(x) ==
  /\ pc[x] = "relisten"
  /\ Save(op[x], "recovered") /\ Goto(x, "unguard")
  /\ UNCHANGED <<config, guard, lock, world, sshd, budgets, confirmed>>

Recovered(x) ==
  /\ pc[x] = "relisten"
  /\ Alive(lease) /\ Answers(plan[op[x]].from)
  /\ Save(op[x], "recovered") /\ Goto(x, "unguard")
  /\ UNCHANGED <<config, guard, lock, world, sshd, budgets, confirmed>>

Unguard(x) ==
  /\ pc[x] = "unguard"
  /\ pending' = IF pending.op = op[x] THEN Unarmed ELSE pending
  /\ Return(x)
  /\ UNCHANGED <<config, journal, lease, world, sshd, budgets, confirmed>>

\* The executables or keys the plan pinned have been replaced.
InputsChanged == Fault
\* The file is neither version, or the listener is gone or does not answer in
\* time.  A supervisor that has no listener yet gives up and is restarted.
RollConflict(x) ==
  \/ pc[x] = "restore" /\ InputsChanged
  \/ pc[x] = "restore" /\ config \notin {plan[op[x]].from, plan[op[x]].to} /\ UNCHANGED budgets
  \/ pc[x] = "check" /\ config # plan[op[x]].from /\ UNCHANGED budgets
  \/ pc[x] \in {"resignal", "relisten"} /\ ~Alive(lease) /\ UNCHANGED budgets
  \/ pc[x] = "relisten" /\ ~Answers(plan[op[x]].from)
     /\ IF sshd.hup \/ sshd.load # None THEN Fault ELSE UNCHANGED budgets
RollFail(x) ==
  /\ RollConflict(x)
  /\ Save(op[x], "recovery_failed")
  /\ IF x = Sup /\ ~reloads[x]
     THEN /\ lock' = None /\ pc' = [pc EXCEPT ![x] = "down"] /\ op' = [op EXCEPT ![x] = None]
          /\ UNCHANGED reloads
     ELSE Return(x)
  /\ UNCHANGED <<config, guard, world, sshd, confirmed>>

-----------------------------------------------------------------------------
\* SuperviseSSH.

Settled(o) == status[o] \in {"committed", "recovered"}

\* Started by init.  A pending operation is settled before the listener is
\* launched; a failed restoration waits for the operator.
SupStart ==
  /\ pc[Sup] = "down" /\ lock = None
  /\ Armed => status[pending.op] # "recovery_failed"
  /\ lock' = Sup /\ gen' = Fresh
  /\ LET restore == Armed /\ ~Settled(pending.op)
     IN  /\ pc' = [pc EXCEPT ![Sup] = IF restore THEN "roll" ELSE "launch"]
         /\ op' = [op EXCEPT ![Sup] = IF restore THEN pending.op ELSE None]
         /\ pending' = IF restore THEN pending ELSE Unarmed
  /\ UNCHANGED <<config, journal, lease, reloads, boot, session, sshd, budgets, confirmed>>

Launch ==
  /\ pc[Sup] = "launch"
  /\ ValidConfig /\ sshd.gen = 0
  /\ sshd' = [gen |-> gen, port |-> None, load |-> config, hup |-> FALSE]
  /\ Goto(Sup, "started")
  /\ UNCHANGED <<config, journal, guard, lock, world, budgets, confirmed>>

\* The new listener answers; only then is a restoration complete.
SupReady ==
  /\ pc[Sup] = "started"
  /\ Alive(gen) /\ sshd.port # None
  /\ op[Sup] # None => Answers(plan[op[Sup]].from)
  /\ IF op[Sup] # None THEN Save(op[Sup], "recovered") ELSE UNCHANGED journal
  /\ Goto(Sup, "beat")
  /\ UNCHANGED <<config, guard, lock, world, sshd, budgets, confirmed>>

SupClear ==
  /\ pc[Sup] = "beat"
  /\ pending' = IF op[Sup] # None THEN Unarmed ELSE pending
  /\ lease' = gen
  /\ Return(Sup)
  /\ UNCHANGED <<config, journal, world, sshd, budgets, confirmed>>

\* Startup or the loop ends with an error: the listener is killed.
SupExit ==
  \/ pc[Sup] = "launch" /\ (~ValidConfig \/ sshd.gen # 0)
  \/ pc[Sup] = "started" /\ (~Alive(gen) \/ (op[Sup] # None /\ sshd.port \notin {None, plan[op[Sup]].from}))
  \/ pc[Sup] = "watch" /\ ~Alive(gen)
SupGivesUp ==
  /\ SupExit
  /\ pc' = [pc EXCEPT ![Sup] = "down"] /\ op' = [op EXCEPT ![Sup] = None]
  /\ lock' = IF lock = Sup THEN None ELSE lock
  /\ sshd' = IF Alive(gen) THEN Stopped ELSE sshd
  /\ session' = IF Alive(gen) THEN [c \in Clients |-> NoSession] ELSE session
  /\ UNCHANGED <<config, journal, guard, reloads, boot, gen, budgets, confirmed>>

\* Variant: the tick trusts what it read before it had the lock.
GuardTickStale ==
  /\ pc[Sup] = "watch" /\ Armed /\ Overdue
  /\ Enter(Sup, pending.op, "roll")
  /\ reloads' = [reloads EXCEPT ![Sup] = TRUE]
  /\ UNCHANGED <<config, journal, guard, world, sshd, budgets, confirmed>>

\* Variant: only a change that awaits confirmation is undone.
GuardTickAwaiting ==
  /\ pc[Sup] = "watch" /\ Armed /\ Overdue
  /\ Settled(pending.op) \/ status[pending.op] = "awaiting_confirmation"
  /\ Enter(Sup, pending.op, IF Settled(pending.op) THEN "clear" ELSE "roll")
  /\ reloads' = [reloads EXCEPT ![Sup] = TRUE]
  /\ UNCHANGED <<config, journal, guard, world, sshd, budgets, confirmed>>

\* The deadline has passed, and the lock is free: one restoration is tried, unless
\* the operation was settled meanwhile or has failed before.
GuardTick ==
  /\ pc[Sup] = "watch" /\ Armed /\ Overdue
  /\ status[pending.op] # "recovery_failed"
  /\ Enter(Sup, pending.op, IF Settled(pending.op) THEN "clear" ELSE "roll")
  /\ reloads' = [reloads EXCEPT ![Sup] = TRUE]
  /\ UNCHANGED <<config, journal, guard, world, sshd, budgets, confirmed>>

\* Variant: the heartbeat writes the whole row.
HeartbeatRow ==
  /\ pc[Sup] = "watch" /\ Alive(gen)
  /\ lease' = gen /\ pending' = Unarmed
  /\ UNCHANGED <<config, journal, lock, local, world, sshd, budgets, confirmed>>

\* The heartbeat touches the lease column only.
Heartbeat ==
  /\ pc[Sup] = "watch" /\ Alive(gen)
  /\ lease' = gen
  /\ UNCHANGED <<config, journal, pending, lock, local, world, sshd, budgets, confirmed>>

-----------------------------------------------------------------------------
\* Reconcile, which does not ask whether a rollback is armed.

Interrupted == {"applying", "rolling_back"}
Reconcile(c, o) ==
  /\ pc[c] = "idle" /\ lock = None /\ status[o] \in Interrupted
  /\ Save(o, "outcome_unknown")
  /\ UNCHANGED <<config, guard, lock, local, world, sshd, budgets, confirmed>>

-----------------------------------------------------------------------------
\* The environment: sshd, sessions, the clock, other programs, failures.

SshdReads ==
  /\ sshd.gen # 0 /\ sshd.hup /\ sshd.load = None
  /\ sshd' = [sshd EXCEPT !.hup = FALSE, !.load = config, !.port = None]
  /\ UNCHANGED <<config, journal, guard, lock, local, world, budgets, confirmed>>

SshdListens ==
  /\ sshd.load # None
  /\ sshd' = IF sshd.load = Other THEN Stopped ELSE [sshd EXCEPT !.port = sshd.load, !.load = None]
  /\ UNCHANGED <<config, journal, guard, lock, local, world, budgets, confirmed>>

\* sshd is killed on purpose, or follows its supervisor.
Orphan == ~(SupAlive /\ Alive(gen))
SshdDies ==
  /\ sshd.gen # 0
  /\ IF Orphan THEN UNCHANGED budgets ELSE Fault
  /\ sshd' = Stopped /\ session' = [c \in Clients |-> NoSession]
  /\ UNCHANGED <<config, journal, guard, lock, local, boot, gen, confirmed>>

\* The operator logs in on the port that answers; a confirmation runs inside the
\* login it was started from.
Connect(c) ==
  /\ pc[c] = "idle" /\ sshd.port # None
  /\ session' = [session EXCEPT ![c] = [port |-> sshd.port, old |-> FALSE]]
  /\ UNCHANGED <<config, journal, guard, lock, local, boot, gen, sshd, budgets, confirmed>>

Deadline ==
  /\ Armed /\ ~pending.due
  /\ pending' = [pending EXCEPT !.due = TRUE]
  /\ UNCHANGED <<config, journal, lease, lock, local, world, sshd, budgets, confirmed>>

EditedByOthers ==
  /\ foreign < MaxForeign /\ foreign' = foreign + 1
  /\ \E p \in (Ports \cup {Other}) \ {config} : config' = p
  /\ UNCHANGED <<journal, guard, lock, local, world, sshd, faults, confirmed>>

\* A process dies, or a write to the database fails and the call returns.
Crash(x) ==
  /\ pc[x] \notin {"idle", "down"} /\ Fault
  /\ pc' = [pc EXCEPT ![x] = IF x = Sup THEN "down" ELSE "idle"]
  /\ op' = [op EXCEPT ![x] = None] /\ reloads' = [reloads EXCEPT ![x] = FALSE]
  /\ lock' = IF lock = x THEN None ELSE lock
  /\ UNCHANGED <<config, journal, guard, world, sshd, confirmed>>

Reboot ==
  /\ Fault
  /\ boot' = boot + 1
  /\ pc' = [x \in Procs |-> IF x = Sup THEN "down" ELSE "idle"]
  /\ op' = [x \in Procs |-> None] /\ reloads' = [x \in Procs |-> FALSE]
  /\ lock' = None /\ sshd' = Stopped /\ session' = [c \in Clients |-> NoSession]
  /\ UNCHANGED <<config, journal, guard, gen, confirmed>>

-----------------------------------------------------------------------------
\* The specification.

Init ==
  /\ config = First
  /\ status = [o \in Ops |-> "none"] /\ plan = [o \in Ops |-> NoPlan]
  /\ pending = Unarmed /\ lease = 0 /\ boot = 0 /\ lock = None
  /\ pc = [x \in Procs |-> IF x = Sup THEN "down" ELSE "idle"]
  /\ op = [x \in Procs |-> None] /\ reloads = [x \in Procs |-> FALSE]
  /\ gen = 0 /\ sshd = Stopped /\ session = [c \in Clients |-> NoSession]
  /\ faults = 0 /\ foreign = 0 /\ confirmed = {}

Apply(c) ==
  \/ Arm(c) \/ JournalArmed(c) \/ JournalApplying(c) \/ InstallConfig(c) \/ Signal(c)
  \/ Listening(c) \/ Await(c) \/ ApplyFail(c)
Confirm(c) == ConfirmProof(c) \/ ConfirmRefused(c) \/ Commit(c)
Roll(x) ==
  \/ RollBegin(x) \/ RestoreConfig(x) \/ RestoredOnly(x) \/ RestoreChecked(x) \/ Resignal(x)
  \/ Recovered(x) \/ Unguard(x) \/ RollFail(x) \/ Clear(x)
Call(c, o) ==
  \/ Prepare(c, o) \/ ApplyBegin(c, o) \/ ConfirmBegin(c, o) \/ RecoverSSH(c, o)
  \/ Reconcile(c, o)
Supervise == Launch \/ SupReady \/ SupClear \/ SupGivesUp
Environment ==
  \/ SshdReads \/ SshdListens \/ SshdDies \/ Deadline \/ EditedByOthers \/ Reboot
  \/ \E c \in Clients : Connect(c)
  \/ \E x \in Procs : Crash(x)

Next ==
  \/ \E c \in Clients : Apply(c) \/ Confirm(c)
  \/ \E x \in Procs : Roll(x)
  \/ \E c \in Clients, o \in Ops : Call(c, o)
  \/ SupStart \/ Supervise \/ GuardTick \/ Heartbeat
  \/ Environment

Spec == Init /\ [][Next]_vars

\* Every variable keeps its type; the type invariant of this module.
TypeOK ==
  /\ config \in Ports \cup {Other}
  /\ status \in [Ops -> Statuses]
  /\ plan \in [Ops -> [from : Ports \cup {None}, to : Ports \cup {None}, gen : Nat]]
  /\ pending \in [op : Ops \cup {None}, boot : Nat, due : BOOLEAN]
  /\ lease \in Nat /\ boot \in Nat /\ gen \in Nat
  /\ lock \in Procs \cup {None}
  /\ pc \in [Procs -> Steps] /\ op \in [Procs -> Ops \cup {None}]
  /\ reloads \in [Procs -> BOOLEAN]
  /\ sshd \in [gen : Nat, port : Ports \cup {None}, load : Ports \cup {Other, None}, hup : BOOLEAN]
  /\ session \in [Clients -> [port : Ports \cup {None}, old : BOOLEAN]]
  /\ faults \in 0..MaxFaults /\ foreign \in 0..MaxForeign
  /\ confirmed \subseteq Ops

-----------------------------------------------------------------------------
\* Safety.

Unsettled == {"ssh_armed", "applying", "awaiting_confirmation", "outcome_unknown",
              "rolling_back", "recovery_failed"}

\* "The executor persists the exact pending operation and deadline before
\* modifying the target" and heartbeats "cannot erase that deadline"
\* (docs/recovery.md:625-627): an operation that has begun, and was neither
\* confirmed nor recovered, is armed, whatever crashed.
UnconfirmedIsArmed ==
  \A o \in Ops : status[o] \in Unsettled /\ o \notin confirmed => pending.op = o

\* "Restored bytes alone never become a recovered running service"
\* (ssh.go:460-462): recovered is recorded only while the running listener
\* answers on the original port.
RecoveredIsRunning ==
  [][\A o \in Ops : status[o] # "recovered" /\ status'[o] = "recovered" =>
       sshd.gen # 0 /\ sshd.port = plan[o].from]_vars

\* Confirmation and deadline exclude each other (ssh.go:408-413,
\* ssh_supervisor_linux.go:236-243): the supervisor never reopens an operation
\* that was committed or recovered, nor one whose restoration failed, and what
\* it commits nobody but an operator undoes.
DecisionStands ==
  [][\A o \in Ops : status[o] \in {"committed", "recovered", "recovery_failed"} /\ status'[o] # status[o]
       => \E c \in Clients : pc[c] = "roll" /\ op[c] = o]_vars

\* "Existing SSH transport cannot confirm a new configuration" (ssh_linux.go:222): a
\* change is committed only by a client that reached the new port after the
\* reload of this very operation, whatever was tried and undone before, or that
\* did until the listener stopped.
CommittedWasReached ==
  [][\A o \in Ops : status[o] # "committed" /\ status'[o] = "committed" =>
       \E c \in Clients :
         op[c] = o /\ (session[c] = [port |-> plan[o].to, old |-> FALSE] \/ ~Alive(plan[o].gen))]_vars

-----------------------------------------------------------------------------
\* Liveness.

\* Calls go on, init restarts the supervisor, time passes, sshd does what it was
\* asked to.  The supervisor tries for the lock on every tick until it has it.
Fairness ==
  /\ \A c \in Clients : WF_vars(Apply(c)) /\ WF_vars(Confirm(c))
  /\ \A x \in Procs : WF_vars(Roll(x))
  /\ WF_vars(Supervise) /\ SF_vars(SupStart) /\ SF_vars(GuardTick)
  /\ WF_vars(SshdReads) /\ WF_vars(SshdListens) /\ WF_vars(Orphan /\ SshdDies)
  /\ WF_vars(Deadline)
FairSpec == Spec /\ Fairness

\* "If no confirmation arrives, the supervisor makes one deterministic restoration
\* attempt" (docs/recovery.md:654-658): an armed change is confirmed, undone, or
\* recorded as failed, through crashes, reboots and lost signals.
ArmedIsSettled ==
  \A o \in Ops : pending.op = o ~> \/ pending.op # o /\ Settled(o)
                                   \/ status[o] = "recovery_failed"
=============================================================================
