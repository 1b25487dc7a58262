----------------------------- MODULE NginxService ----------------------------
(***************************************************************************)
(* The NGINX transaction of the recovery executor (recovery/service.go):   *)
(* one reviewed configuration is validated, installed, loaded by a signal   *)
(* to the bound master and probed; a failure restores the original file and *)
(* reloads again, once.  A configuration is the set of its directives.      *)
(* nginx itself is external: a signal is taken up later, the file is read   *)
(* then, and the new workers appear later still.                            *)
(***************************************************************************)
EXTENDS Naturals, Sequences, FiniteSets

CONSTANTS
  Original,         \* the configuration in place: a set of [in, name, arg]
  Candidates,       \* configurations a caller may propose
  Foreign,          \* configurations another writer may install
  Rejected,         \* configurations nginx -t refuses
  Unhealthy,        \* valid configurations whose health location answers wrongly
  MaxWorkers,       \* resource limit on worker_processes
  NoConf,
  MaxOutside,       \* bound on writes, reloads and restarts from outside
  MaxStops          \* bound on deaths of the executor

VARIABLES
  conf,             \* the configuration file
  master,           \* identity of the running master: a start number
  hup,              \* a reload signal is pending
  reading,          \* what the master has read and is starting workers for, or NoConf
  workers,          \* the generations that serve, oldest first: [conf, known], known
                    \* when the executor noted them before its signal
  svc,              \* journal row: status, plan, bound master, and `used': the engine
                    \* has installed or signalled (history)
  exec,             \* the executor's next step, good probes, and the file it reloads
  outside, stops

servVars == <<conf, master, hup, reading, workers, svc, exec, outside, stops>>

Newest == workers[Len(workers)]

-----------------------------------------------------------------------------
\* The supported grammar.

\* Directives whose value a change may alter; every other one is fixed.
Reviewable == {<<"main", "worker_processes">>, <<"events", "worker_connections">>,
               <<"http", "sendfile">>, <<"http", "server_tokens">>,
               <<"http", "keepalive_timeout">>, <<"server", "keepalive_timeout">>,
               <<"location", "return">>}

\* Directives a configuration must have exactly once.
Required == {<<"main", "pid">>, <<"main", "error_log">>, <<"http", "access_log">>,
             <<"server", "listen">>, <<"health", "add_header">>}

\* Nothing occurs twice, everything required is there.
WellFormed(c) ==
  /\ \A k \in Required : \E d \in c : <<d.in, d.name>> = k
  /\ \A d, e \in c : d.in = e.in /\ d.name = e.name => d = e

\* nginxShape: the configuration with its reviewable values masked.
Shape(c) == {IF <<d.in, d.name>> \in Reviewable THEN [d EXCEPT !.arg = "reviewed"] ELSE d : d \in c}

ValidChange(a, b) == WellFormed(a) /\ WellFormed(b) /\ Shape(a) = Shape(b)

WorkersOf(c) == LET ds == {d \in c : d.in = "main" /\ d.name = "worker_processes"}
                IN  IF ds = {} THEN 1 ELSE (CHOOSE d \in ds : TRUE).arg

-----------------------------------------------------------------------------

ServTypeOK ==
  /\ conf \in {Original} \cup Candidates \cup Foreign
  /\ hup \in BOOLEAN /\ reading \in {NoConf, Original} \cup Candidates \cup Foreign
  /\ Len(workers) \in 1 .. 2
  /\ svc.status \in {"none", "ready", "validating", "validation_failed", "applying", "verifying",
                     "committed", "outcome_unknown", "rolling_back", "recovered", "recovery_failed"}

ServInit ==
  /\ conf = Original /\ master = 1
  /\ hup = FALSE /\ reading = NoConf
  /\ workers = <<[conf |-> Original, known |-> FALSE]>>
  /\ svc = [status |-> "none", cand |-> NoConf, bound |-> 0, used |-> FALSE]
  /\ exec = NoConf
  /\ outside = 0 /\ stops = 0

Nginx == <<master, hup, reading, workers>>
Bounds == <<outside, stops>>

At(s) == exec # NoConf /\ exec.at = s
Step(s) == exec' = [exec EXCEPT !.at = s]
Journal(s) == svc' = [svc EXCEPT !.status = s]

\* verifyServiceIdentity: the master, its executable and its directories are the bound ones.
SameMaster == master = svc.bound

PrepareService(c) ==
  /\ exec = NoConf /\ svc.status = "none"
  /\ conf = Original /\ ValidChange(Original, c) /\ WorkersOf(c) <= MaxWorkers
  /\ svc' = [svc EXCEPT !.status = "ready", !.cand = c, !.bound = master]
  /\ UNCHANGED <<conf, Nginx, exec, Bounds>>

\* Validation may open runtime files: it is recorded first.
Preflight ==
  /\ exec = NoConf /\ svc.status = "ready"
  /\ conf = Original /\ SameMaster
  /\ Journal("validating")
  /\ exec' = [at |-> "validate", good |-> 0, target |-> svc.cand]
  /\ UNCHANGED <<conf, Nginx, Bounds>>

\* The baseline must be healthy and the staged candidate acceptable to nginx -t.
Validated ==
  /\ At("validate") /\ svc.cand \notin Rejected /\ Newest.conf \notin Unhealthy
  /\ Journal("applying") /\ Step("install")
  /\ UNCHANGED <<conf, Nginx, Bounds>>

NotValidated ==
  /\ At("validate")
  /\ Journal("validation_failed") /\ exec' = NoConf
  /\ UNCHANGED <<conf, Nginx, Bounds>>

Install ==
  /\ At("install") /\ conf = Original
  /\ conf' = svc.cand
  /\ svc' = [svc EXCEPT !.status = "verifying", !.used = TRUE]
  /\ Step("check")
  /\ UNCHANGED <<Nginx, Bounds>>

\* reloadService: the installed file is validated again, and the workers that
\* exist already are noted before the signal.
CheckInstalled ==
  /\ At("check") /\ conf \notin Rejected /\ conf = exec.target /\ SameMaster
  /\ workers' = [i \in DOMAIN workers |-> [workers[i] EXCEPT !.known = TRUE]]
  /\ Step("signal")
  /\ UNCHANGED <<conf, master, hup, reading, svc, Bounds>>

\* Variant: the reload after a restoration is left out when the workers answer.
SignalOnce ==
  /\ At("signal") /\ SameMaster
  /\ hup' = (hup \/ exec.target # Original)
  /\ workers' = [i \in DOMAIN workers |-> [workers[i] EXCEPT !.known = @ /\ exec.target # Original]]
  /\ Step("probe")
  /\ UNCHANGED <<conf, master, reading, svc, Bounds>>

\* pidfd binds the signal to the process whose identity was verified.
SignalService ==
  /\ At("signal") /\ SameMaster
  /\ hup' = TRUE
  /\ Step("probe")
  /\ UNCHANGED <<conf, master, reading, workers, svc, Bounds>>

\* One fresh connection, answered by some generation; three good ones in a row.
Probe ==
  /\ At("probe") /\ exec.good < 3
  /\ \E i \in DOMAIN workers :
       exec' = [exec EXCEPT !.good =
         IF workers[i].conf \notin Unhealthy /\ ~workers[i].known THEN @ + 1 ELSE 0]
  /\ UNCHANGED <<conf, Nginx, svc, Bounds>>

Healthy ==
  /\ At("probe") /\ exec.good = 3
  /\ Journal(IF exec.target = Original THEN "recovered" ELSE "committed")
  /\ exec' = NoConf
  /\ UNCHANGED <<conf, Nginx, Bounds>>

\* serviceFailure: the one automatic repair, under its own deadline.
ApplyFails ==
  /\ exec # NoConf /\ exec.target # Original
  /\ exec.at \in {"install", "check", "signal", "probe"}
  /\ Journal("rolling_back")
  /\ exec' = [exec EXCEPT !.at = "restore", !.good = 0, !.target = Original]
  /\ UNCHANGED <<conf, Nginx, Bounds>>

\* recover_service, by the operator or the model, after a crash or a failed repair.
RecoverService ==
  /\ exec = NoConf
  /\ svc.status \in {"validating", "applying", "verifying", "committed", "outcome_unknown",
                     "rolling_back", "recovery_failed"}
  /\ Journal("rolling_back")
  /\ exec' = [at |-> "restore", good |-> 0, target |-> Original]
  /\ UNCHANGED <<conf, Nginx, Bounds>>

\* A plan that was never applied is cancelled when everything is as reviewed.
CancelService ==
  /\ exec = NoConf /\ svc.status = "ready"
  /\ conf = Original /\ SameMaster /\ Newest.conf \notin Unhealthy
  /\ Journal("recovered")
  /\ UNCHANGED <<conf, Nginx, exec, Bounds>>

\* A file that is neither the original nor the candidate is a conflict.
Restore ==
  /\ At("restore") /\ conf \in {Original, svc.cand}
  /\ conf' = Original
  /\ svc' = [svc EXCEPT !.used = TRUE]
  /\ Step("check")
  /\ UNCHANGED <<Nginx, Bounds>>

RestoreFails ==
  /\ exec # NoConf /\ exec.target = Original
  /\ Journal("recovery_failed") /\ exec' = NoConf
  /\ UNCHANGED <<conf, Nginx, Bounds>>

ExecutorDies ==
  /\ exec # NoConf /\ stops < MaxStops
  /\ stops' = stops + 1 /\ exec' = NoConf
  /\ UNCHANGED <<conf, Nginx, svc, outside>>

\* Reconcile after a crash.
ReconcileService ==
  /\ exec = NoConf /\ svc.status \in {"validating", "applying", "verifying", "rolling_back"}
  /\ Journal("outcome_unknown")
  /\ UNCHANGED <<conf, Nginx, exec, Bounds>>

-----------------------------------------------------------------------------
\* nginx, and other users of it.

\* The master takes up the signal and reads the file as it is now.
MasterReads ==
  /\ hup /\ reading = NoConf
  /\ hup' = FALSE
  /\ reading' = IF conf \in Rejected THEN NoConf ELSE conf
  /\ UNCHANGED <<conf, master, workers, svc, exec, Bounds>>

\* The new generation starts; the old one drains and goes.
WorkersStart ==
  /\ reading # NoConf
  /\ workers' = <<Newest, [conf |-> reading, known |-> FALSE]>>
  /\ reading' = NoConf
  /\ UNCHANGED <<conf, master, hup, svc, exec, Bounds>>

OldWorkersExit ==
  /\ Len(workers) > 1
  /\ workers' = <<Newest>>
  /\ UNCHANGED <<conf, master, hup, reading, svc, exec, Bounds>>

\* Another program reloads, restarts the master, or writes the file.
Outsider ==
  /\ outside < MaxOutside /\ outside' = outside + 1
  /\ \/ hup' = TRUE /\ UNCHANGED <<conf, master, reading, workers>>
     \/ /\ conf \notin Rejected
        /\ master' = master + 1 /\ hup' = FALSE /\ reading' = NoConf
        /\ workers' = <<[conf |-> conf, known |-> FALSE]>>
        /\ UNCHANGED conf
     \/ conf' \in Foreign /\ UNCHANGED Nginx
  /\ UNCHANGED <<svc, exec, stops>>

ServNext ==
  \/ \E c \in Candidates : PrepareService(c)
  \/ Preflight \/ Validated \/ NotValidated \/ Install \/ CheckInstalled \/ SignalService
  \/ Probe \/ Healthy \/ ApplyFails \/ RecoverService \/ CancelService \/ Restore
  \/ RestoreFails \/ ExecutorDies \/ ReconcileService
  \/ MasterReads \/ WorkersStart \/ OldWorkersExit \/ Outsider

\* nginx acts on a signal in the end; nothing is assumed of the executor.
ServFairness == WF_servVars(MasterReads) /\ WF_servVars(WorkersStart)

ServSpec == ServInit /\ [][ServNext]_servVars /\ ServFairness

-----------------------------------------------------------------------------
\* What the operator of the service relies on.

\* An outcome that was reported is what nginx serves in the end, unless the file
\* is replaced or the master restarted: the last signal follows the last write.
SettledIsServed ==
  \A c \in Candidates \cup {Original} :
    (svc.status \in {"committed", "recovered"} /\ svc.used /\ conf = c)
      ~> (Newest.conf = c \/ conf # c \/ svc.status \notin {"committed", "recovered"})
=============================================================================
