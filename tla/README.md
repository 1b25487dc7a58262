# A TLA+ development of CvkeHarness

CvkeHarness is an operations agent written in Go. A language model proposes actions; what
changes the machine goes through typed tools with their own journals, locks, approvals and
recovery. This directory models those parts: the code whose correctness depends on the order
in which several processes, crashes, lost answers and human decisions happen, and the parsers
and tables on which permissions rest. Paths below are relative to the repository.

## The system

Several processes share one SQLite database (`busy_timeout` 5 s, every transaction
`IMMEDIATE`) and one state directory: `cvkeharness run`, the console, `recovery ...` commands
of an operator, a cron-driven `schedule run-due`, an SSH supervisor, and the same program run
on fleet hosts over SSH. They interact through rows of the database, through files, and
through `flock` on `recovery/executor.lock`; inside one process the agent calls tools and
waits for approvals, and the console's goroutines send messages to one `Update` loop.

| Component | State | What is hard | What makes it correct | Module |
|---|---|---|---|---|
| Recovery engine, files (`recovery/engine.go`, `files_unix.go`) | target files, private backups and candidates, quarantine, staging files | crashes between any two effects, writers outside the lock, several entries per operation, retries | destroys only what was reviewed, reports an outcome only when it was verified, is always able to restore | `RecoveryFiles` |
| Recovery journal (`state/store_recovery.go`) | one row per operation: status, manifest, revision | writers in several processes | the status follows one lifecycle; a status tells whether anything may have changed | `RecoveryJournal` |
| NGINX transactions (`recovery/service.go`, `nginx_config.go`) | configuration file, master and workers | asynchronous reload, failing rollback | a reported outcome is what is served in the end | `NginxService` |
| Guarded SSH (`recovery/ssh*.go`, `state/store_guard.go`) | lease, pending guard, listener | deadline against confirmation, reboot, death of the supervisor | an unconfirmed change is undone, a confirmed one is not | `SSHGuard` |
| Fleet (`recovery/fleet.go`, `state/store_batch.go`) | batch plan, progress and claims | lost answers, delayed commands, death of the controller | the row of a batch tells the truth about its hosts; nothing is applied twice | `Fleet` |
| Snapshots (`recovery/snapshot.go`) | subvolumes, receipts | crash around the exchange, writers during the clone | a checkpoint is what was reviewed; no tree is lost | `Snapshot` |
| Arithmetic (`recovery/quantity.go`) | none | rounding, bounds | agrees with rational arithmetic | `Quantity` |
| Scheduler (`scheduler/service.go`, `state/store_scheduler.go`) | job rows with claim, lease and heartbeat | lease expiry, rows written back after a long run | one worker per job, repetitions accounted, a due job runs | `Scheduler` |
| Cron schedule (`scheduler/schedule.go`) | none | two parsers of one language | what the crontab client accepts means what the scheduler reads | `CronExpression` |
| Approvals (`tools/shell_grant.go`, `state/store_security_grants.go`, `store_blocked.go`) | blocked work, grants, waiters | several agents, approvals of several statements, policy edits, deaths | a permission is used once, a denied action never runs | `Approvals` |
| Agent loop (`agent/agent.go`, `verification.go`) | response, calls, verdict, repairs | stale verdicts, repeated repair, cancellation | completed means verified; every run ends | `AgentRun` |
| Operational memory (`memory/`) | tables, four managed files | whole-memory read-modify-replace, half-written files, imports | only what was promoted or imported is retrieved | `OperationalMemory`, `Endpoints` |
| Shell tool and policy (`tools/shell.go`, `shell_policy.go`, `securitypolicy/`) | remembered approvals | quoting, wrappers, chains | nothing runs unasked that was not agreed to; wrapping never helps | `ShellSyntax`, `ShellPolicy` |
| System crontab (`systemcron/`) | the user's crontab | confirmation between read and install | existing lines survive | `SystemCron` |
| Console (`internal/tui/`, `agent/chat_session_runtime.go`) | tabs, event channel, messages | late, dropped and reordered messages | what is shown is current, no edit is lost, every turn can be answered or ended | `ChatTab`, `JobsTab`, `Settings` |
| Router, providers, safety reports, CLI, store, other tools | | mostly text, HTTP and SQL | | not modelled |

`PROJECT.json` lists every component with its status, the lines each definition stands for,
and the hazards with their lines.

The modules compose where the code does: `Fleet` moves the journals of its hosts along
`RecoveryJournal`, which `RecoveryFiles` is proved to implement; `RecoveryFiles` and `Fleet`
therefore meet in the lifecycle. `MCAgent` puts the run loop beside the approvals its calls wait
for. Parts that share no state run side by side in one instance (`MCAgent`, `MCMemory`,
`MCTools`, `MCWorkbench`), chosen by the variable `part`, so that their states add up and do
not multiply.

## The modules

### RecoveryJournal: what the journal promises

`RecoveryJournal.tla` is the abstract specification. Its state is the status of each operation
and the set `touched` of operations that have changed a target. `Moves` is the lifecycle graph
of `recovery/types.go:15-30` as the executors walk it; `Cancel` makes a ready plan terminal,
`Restored` ends a restoration, `Change` is any change of a target. It includes the
`validating` statuses of service operations, which fleet hosts walk. The two SSH statuses
belong to a protocol of their own (`SSHGuard`).

`UnappliedIsUntouched` is what `recoverLocked` relies on when it refuses to restore such
an operation as unnecessary. `RecoveredIsFinal` is what a fleet controller relies on when it
cancels a command that may still be on its way. Both are proved; `ImplementsJournal` carries
them to the executor.

### RecoveryFiles: file transactions

| State | In the code |
|---|---|
| `file`, `quarantine` | the target files and the `original` a deletion moves into its private directory. A file is a content and an identity. The content stands for hash, size, mode and owner, the identity for device, inode and modification time |
| `backup`, `candidate` | `NNNN.before`, `NNNN.after` under `recovery/<id>/`; `Torn` when incomplete or altered |
| `staged` | the `.cvkeharness-<id>-NNNN.restore` file of a restoration |
| `status`, `before`, `attempts` | the row of `recovery_operations`, the `Before` fingerprints of its manifest, the number of `model_repair_attempt` checks |
| `lock` | `flock` on `executor.lock` |
| `pc`, `op`, `at`, `failed`, `ticket` | the program counter, operation, entry index, error list and reserved attempt of a process; lost when it dies |

Each action is one durable effect or one read of a target, so that a crash or a write of
another program can fall between any two of them.

| Actions | Function |
|---|---|
| `PrepareBegin` .. `PrepareReady` | `Prepare`: scan every file, journal `preparing`, write the artifacts, journal `ready` |
| `ApplyBegin` .. `ApplyCommit` | `apply`, `applyEntry`: check all originals and artifacts, journal `applying`, stage, recheck and replace each entry, journal `verifying`, read all outputs, journal `committed` |
| `Reserve`, `RecoverRefused`, `CancelBegin` .. `ConfirmEnd` | `ReserveModelRepair`, `recoverLocked`, `restoreEntry`: cancel a ready plan, or journal `rolling_back`, restore the entries in reverse, verify all originals, journal `recovered` |
| `Reconcile` | `Reconcile` |
| `Crash` | the process dies, also in the middle of `writeAt`; or a journal write fails, after which the call returns and leaves the same state |
| `ForeignWrite`, `ForeignLateWrite`, `Damage` | programs that do not take the lock: editors, package managers, a program that still has a deleted file open; they also stand for another operation on the same file |

Abstractions, and why they keep the behaviour:

* Calls that refuse before they wrote anything (digest, policy, age, limits, capacity, a busy
  lock, an armed SSH guard) change nothing and are no steps. They only forbid steps the
  model allows, so the safety results carry over.
* The `.pending` file of an apply is not in the state. Its name contains the operation and
  an operation is applied at most once, so a left-over one is never met again.
* Identities are handed out fresh. A file system may reuse an inode, but with the same
  modification time and the same content only on purpose.
* The parent-directory, mount, hard-link and attribute checks are part of a read that
  fails, `ApplyError` and `RestoreError`.

`raced`, `damaged`, `touched` and `spent` are history variables: they occur in no guard and
in the properties only. `raced` holds the paths written by others since the running executor
last read them, which is exactly the window that `docs/recovery.md:166-169` disclaims.

### SSHGuard: guarded port changes

`pending` and `lease` are the two columns of `recovery_guards`, written by different processes;
`config` is the file, `sshd` the listener with the port it serves, the configuration it is
loading and a pending SIGHUP; `session` is the transport of a client's login; `boot` and `gen`
identify the kernel and the supervisor. `ApplyBegin` .. `Await` is `applySSH`, `ConfirmBegin` ..
`Clear` is `ConfirmSSH` with its proof, `RollBegin` .. `Unguard` is `rollbackSSH`, run by a
client (`RecoverSSH`) or by the supervisor. `SupStart` .. `SupGivesUp`, `GuardTick` and
`Heartbeat` are `SuperviseSSH`. The environment restarts sshd late, kills it with its
supervisor, reboots the host, lets the deadline pass and edits the file.

### NginxService and Snapshot: native adapters

A configuration is the set of its directives; `Shape` masks the reviewable ones as `nginxShape`
does. `Preflight` .. `Healthy` is the service branch of `apply`, `ApplyFails` .. `Restore` its
automatic rollback, `RecoverService` the explicit one. `MasterReads` and `WorkersStart` are
nginx: a signal is taken up later, the file is read then, the new workers appear later still;
`known` marks the workers the executor listed before it signalled.

`Snapshot` keeps each subvolume's parent, contents and read-only flag. `Clone` is the ioctl,
`Inventory` the comparison of the clone with the reviewed inventory, `Exchange` the rename that
swaps the live tree and the clone, `MayExchange` the question a resumed restore asks of the
path and the store before it exchanges again. `ForeignWrite` changes a writable tree at any time.

### Fleet: batches

`batch` is the row with its entries' progress, `claim` the primary keys of
`recovery_batch_claims`, `call` the command that holds the lock with its own copy of the row,
`wire` the commands that may still arrive. `Dispatch`, `Send`, `ApplyAnswer`, `ApplyLost` are
`ApplyBatch`; `Repair` .. `RecoverDone` are `RecoverBatch` in reverse order; `Look`, `Conclude`
are `ReconcileBatch`. `Deliver` runs a command at its host, however late, which may end it in any
way the lifecycle allows; `HostWorks` is the host's own operator.

### Scheduler: claimed jobs

One SQL statement is one step, because the processes share nothing but the table.

| State | In the code |
|---|---|
| `row` | the table `scheduled_jobs`: definition, `enabled`, `next_run_at`, `blocked`, `claimed_by`, `claim_expires_at`. A next run is none, later or due; a lease is live or expired |
| `pending` | unresolved rows of `blocked_work` per job |
| `passed`, `created` | one-shot instants in the past; identifiers already used |
| `pc`, `job`, `copy`, `todo`, `queue`, `manual`, `outcome` | a goroutine's call: the step, the job, the row as it read (and edited) it, the due jobs listed, the jobs claimed, whether it is a manual run, the result |

`RunDue`, `ClaimDue`, `ClaimEnd`, `ClaimFail` are `ClaimDueScheduledJobs`; `RunNow` is
`ClaimScheduledJob`; `BeginRun` .. `Release` and `Heartbeat` are `runClaimed`; `Update`, `Pause`,
`Resume`, `SaveEdit` read, change and write the whole row; `Create`, `Remove`, `Approve`,
`Unblock` are the rest of the service; `Elapse`, `Expire`, `Crash` are the clock and the death of
a process, whose claim then belongs to `Gone`. Last status, failure count and history rows are
read by no decision and left out. A lease expires at any time once nobody relies on it; under a
live holder at most `MaxLapses` times, which stands for a wait behind a longer run, a suspended
machine or heartbeats that fail.

### Approvals and AgentRun

`Approvals` follows an action from `ExecuteTool` through the policy (`Decision`), a one-time
grant (`ConsumeSecurityActionGrant`), a user at the terminal (`AskHuman`) or blocked work
(`PersistBlockedWork`) to `RunAction`. An approval is three statements of an operator
(`SaveSecurityActionGrant`, `ListBlockedWork`, `ResolveBlockedWork`) and in a console a fourth
step, `ResumeApproval`, that fills the waiter's channel of capacity one. A digest is an action, a
policy and a scope. `EditPolicy` changes the configuration under agents that have loaded it.

`AgentRun` is the loop of `runExecutionPhase` and of a chat turn: `ModelCallsTools`,
`RunToolCall`, `ModelAnswers`, `VerifyCompletion`, and then `Accept`, `Repair`, `GiveUp` or
`StopAtOnce`, with `CurateRunOutcome` and `RecordRun` at the end. A verdict carries the tools the
missing work names, which is what decides between a repair and an immediate stop.

### OperationalMemory and Endpoints

`db` is the tables, `views` the four files. Every operation is `Begin`, one
`LoadOperationalMemory` per table, `EnsureFiles` (which imports or rewrites files that differ),
its change and one `ReplaceOperationalMemory`, then `WriteManagedFile` per file; processes
overlap at every step and may die at every one (`Abandon`). The operations are the persisting of
lessons, the curation of a run, promotion, rejection, revocation, deletion, binding, reindexing
and retrieval. The curation resolves the target of the run and bootstraps from its own change when
the target is new. `Integrity` is the hash an item is checked against, `Content` what a prompt shows of it. `Endpoints` is the transaction
of a turn that declares an address, and its resumption.

### ShellSyntax and ShellPolicy

`ShellSyntax` is the parser, over sequences of the characters it distinguishes: boundary
whitespace, quotes, escapes, control operators, redirections and quoted here-documents, which
are one symbol; file descriptor numbers are left out. Words that decide something there (the service
managers, their verbs, the dash of a flag) are single characters too. `ValidSegment` refuses a
change through a service manager even when the segment was remembered, before it looks at the allow
list, whose names may be followed by a verb. `ShellPolicy` is the classification of a
segment into effects and the lookup of the effects in the bundle of a profile with the user's
overrides. A program stands for the case of the switch it belongs to. A command stands behind
wrappers that pass a script (`sh -c`, `su -c`) and, behind those, wrappers that pass words (`sudo`,
`env`, `xargs`): `LayerEffects` is one call of `classifyShellEffects`, and `Effects` goes from
layer to layer, up to the depth the code looks and as far as each wrapper lies in a system
directory. A redirection belongs to the innermost script.

### SystemCron, CronExpression, Quantity

`SystemCron` prepares a change from what `crontab -l` printed and installs the whole table after
the confirmation, while other callers and programs do the same; a change is judged by the table that
was listed and shown (`AsShown`), whatever the crontab has become since. `CronExpression` holds both
parsers of a field. `Quantity` evaluates a calculation over rationals with units and rounds once.

### ChatTab, JobsTab, Settings

Each workspace is the tab's fields, changed only by `Update`, and goroutines whose results are
messages that arrive in any order. `ChatTab` adds the runtime of each conversation, its bounded
event channel (`Observe` drops events, but not the lasting ones) and the readers that carry one
event each; `JobsTab` the stored jobs and operations under way; `Settings` the draft, its pickers and
connection editors, saves in goroutines and the root model that refreshes, switches and quits. A picker
answers with a message: until `Update` gets it the picker still takes keys and may answer again, and
`AsksToSave` is `hasPendingEdit`, which sees what is edited in a picker and no choice under way. Quitting
ends the goroutines and drops the messages (`Leaves`).

## Properties

| Property | Kind | What it says |
|---|---|---|
| `DestroysOnlyReviewed` | action | an executor changes a target only under a journalled intention, and what it destroys is the very file that was prepared or the operation's own output, unless a foreign write fell into the disclaimed window |
| `OutcomeVerified` | action | `committed` and `recovered` are recorded over verified files of all entries at once |
| `ReadyArtifactsWhole` | invariant | from `ready` on, originals and candidates are whole on disk |
| `RepairBudget` | invariant | repairs dispatched by models stay within the ceiling, each under an attempt of its own |
| `JournalledIntent` | invariant | mutual exclusion, and the journal agrees with the step under way |
| `ImplementsJournal` | refinement | the executor implements `RecoveryJournal`, by name |
| `InterruptedRecovers` | liveness | an application that began ends committed or recovered |
| `UnconfirmedIsArmed` | invariant | an SSH change that has begun and is neither confirmed nor recovered is armed |
| `RecoveredIsRunning` | action | recovered is recorded only while the listener answers on the original port |
| `DecisionStands` | action | deadline and confirmation exclude each other |
| `CommittedWasReached` | action | a commit rests on a login made after the reload of this very operation |
| `ArmedIsSettled` | liveness | an armed change is confirmed, undone or recorded as failed |
| `CheckpointIsReviewed` | invariant | a committed checkpoint has the reviewed contents |
| `RestoreStands` | action | no reachable tree is lost, and a displaced tree never becomes live again by itself |
| `SettledIsServed` | liveness | the configuration a reported outcome names is what nginx serves in the end |
| `CommandsAccounted` | invariant | an apply is sent once, a repair is paid from the stored budget before it leaves |
| `BatchIsTrue` | invariant | what the row says of its hosts is so: undispatched means untouched, one host at a time, recovered means over for good |
| `ActiveClaimExcludes` | invariant | no two owners run one job unless a lease lapsed |
| `RepeatsAccounted` | invariant | the schedule starts a one-shot job once, and once more at most per crash or failing statement, while no lease lapses |
| `BlockStands` | action | who reads a blocked row, to run or edit it, takes the block along; so only an approval, a successful run, or a copy read before the block clears it |
| `DueJobRuns` | liveness | a due job runs, whatever crashed or was edited, unless some run never returns |
| `PermissionsAccounted` | invariant | executions that needed a permission never outnumber the permissions given |
| `DeniedNeverRuns` | invariant | what an agent's policy denies never runs, whatever was granted elsewhere |
| `ConsoleApprovalResumes` | liveness | an approval given in the console wakes the turn that waits for it |
| `CompletedIsVerified` | invariant | a completed run ended with the very answer that was verified, and memory learns from such runs only |
| `EveryRunEnds` | liveness | every run and turn ends and is recorded, unless a tool call never returns |
| `RetrievedIsBlessed` | invariant | what retrieval may give to a prompt was promoted, with all the steps it shows (a playbook whose action steps a verified run produced, or whose verification was imported) or imported as active, or is the host's own name |
| `ForgottenStaysForgotten` | invariant | a turn resumed after its name was forgotten does not bring the address back |
| `FilesConverge` | liveness | the files show the tables again when the writers are through |
| `SegmentsAreAtoms` | invariant | splitting a line loses nothing but blanks, and a segment parsed by itself is that one segment |
| `UnaskedWasAgreed` | invariant | a line that runs without asking consists of segments that were each agreed to, or that begin with an allowed name, or an allowed name and verb, and redirect nothing |
| `WrappedIsNoLaxer` | invariant | behind sudo, env or sh -c, or next to other commands, a command with effects is judged no more laxly; where the classifier does not look through, no more laxly than an unknown one |
| `FieldsAgree` | invariant | the two cron parsers accept the same fields, and the scheduler matches the values a field names, and no others unless a step overflows |
| `RoundsAsAsked` | invariant | a result is the rational result rounded as asked and in range, or refused |
| `OthersAreKept` | action | a crontab change that is installed, an addition too, keeps every other command, name and comment of the table it was made from |
| `FirstWaitIsShown` | invariant | the first approval a turn asks for is on the screen once messages have arrived |
| `ShownIsCurrent` | invariant | nothing of another conversation or finished turn is shown as current |
| `InterruptSettles` | liveness | an interrupted turn stops |
| `DraftBecomesOneJob` | action | a draft is given up only for the one job made of it |
| `EditsKept` | invariant | no edit is lost unless given up, and the console closes only over saved ones, but for a choice on its way when the user quit |

The types of the state are stated in each module (`TypeOK`, `...TypeOK`). Those of `RecoveryFiles`,
`SSHGuard`, `Fleet`, `Scheduler`, `AgentRun`, `Approvals`, `Snapshot` and `Settings` are proved; they
are not among the properties of the runs.

## Runs

| Run | Question | Instance |
|---|---|---|
| `files_race` | Can a foreign writer or a fault make the executor destroy or misreport anything, and is the repair budget kept? | 1 operation (delete + replace), 2 models and an operator, 1 fault, 2 foreign writes; 0.76 million states |
| `files_recovers` | Is every interrupted application settled in the end? | 2 entries, 3 faults, fairness, whole staging writes |
| `files_torn_staging` | The same when a crash may cut the staging write short | expected violation |
| `sched_claims` | Do claims exclude and repetitions add up while no lease lapses and nobody edits a row? | 2 jobs (one created later), 2 daemons, an operator, 1 fault; 2.7 million states |
| `sched_edit_claim` | Does a claim exclude other workers when a row is edited meanwhile? | expected violation |
| `ssh_guard` | Is a port change armed, and then confirmed or undone, through crashes and reboots? | 2 operations on 2 ports, a client and the supervisor, 1 fault, 1 foreign write; 0.44 million states |
| `agent` | Are permissions used once, do waits end, is a completed run verified? | a job and a console, a terminal, or a console that dies, with the command line and an edited policy; a run of 3 responses, 2 repairs, 2 turns; 0.75 million states |
| `memory` | What can overlapping operations put into a prompt, and into the files? | an agent and an operator, four items of four kinds, 2 to 3 operations and 1 failure per part; three turns that declare a name; 0.91 million states |
| `memory_revoked` | Does a revocation stand? | expected violation |
| `tools` | Do the parsers, tables and controllers around the agent do what they say? | lines up to 4 of 14 characters and some of service managers, chains of 2 commands under 0 to 5 wrappers, 2 crontab callers, fields of 3 items, 2 batches over 2 hosts; 1.8 million states |
| `sched_due` | Does a due job run, whatever is edited? Who clears a block? | 1 job, a daemon, an operator who edits, pauses, resumes, runs and approves without end, 1 fault, 1 lapse, fairness; 1.0 million states |
| `workbench` | Is what the console shows current, is nothing the user entered lost? Are checkpoints, restores and NGINX outcomes what was reviewed? | channel of capacity 1, 2 calls or 2 conversations; 2 jobs, 2 operations under way; 2 edits, 2 pickers, 2 answers of theirs; 1 checkpoint, 2 restores, 4 subvolumes, 1 write, 2 deaths; 4 candidate configurations, 2 outside events, 2 deaths; 0.58 million states |

### The bounds

Every guard of the file executor compares one file with one fingerprint, so three contents (the
original, the candidate, another) produce every outcome of a comparison. Two entries are the
smallest request with a first and a last one. Two faults reach a crash in apply followed by a
crash in its recovery, the longest chain in which the code's decision depends on both. Two
foreign writes reach a change and a change back. `MCIds` holds more identities than a run can
use up. `MaxRepair`, `MaxRepairAttempts`, `MaxDepth`, `RepairLimit` stand for the code's own
ceilings; `MaxFaults`, `MaxForeign`, `MaxLapses`, `MaxWrites`, `MaxDeaths`, `MaxOutside`,
`MaxStops`, `MaxApprovals`, `MaxWorks`, `MaxTurns`, `MaxToolCalls`, `MaxClock`, `MaxJobs`,
`MaxFailures`, `MaxResumes`, `MaxLength`, `MaxChain`, `MaxItems`, `MaxChanges`, `MaxChats`,
`MaxPending`, `MaxMoves`, `MaxEdits`, `MaxChildren` and `MaxAnswers` bound the instance.

* A claim conflict needs two workers and one job, a claim that waits two jobs, a stale row one
  reader and one writer; `sched_claims` has all of these at once.
* In `ssh_guard` the second operation is what makes a session or a supervisor stale: it is tried
  at the port of the first after that was undone.
* A batch of two entries has an earlier and a later one; the second batch competes for a host.
  A wire command is delivered at any later time or never.
* One approval can be replaced or repeated with `MaxApprovals = 2`; two approvers and two agents
  with one digest give every race over a single grant.
* The channel of the console holds one event in place of 128: the code only distinguishes
  full from not full, and an event that takes the place of the oldest needs one to displace.
* The largest integer of `CronExpression` is 63, beside ranges up to 12: two items have a step near
  it, one of which comes back into the range of the week.
* The batches of `Fleet` are interchangeable: both start unprepared and may hold either plan. The
  symmetry of their names is used in `tools`, which checks no liveness.
* The settings of `workbench` start from a configuration that was saved before. `SettingsSpec`, and so the
  theorem `NoEditIsLost`, starts from a first run too, whose form is dirty from the beginning; for
  snapshots with more than one foreign write the theorems `CheckpointsAreReviewed` and `RestoresStand` stand.
* Numbers of `Quantity` are in a range of -101 to 100 in place of 64 bits: the check against the
  range is the same comparison, and results lie beyond both ends.
* Four characters reach an operator between two words, a quote or escape around one, and a
  here-document followed by a command.

Deadlock is checked in every run of `RecoveryFiles` and in `ssh_guard`; `Settled` is the only
state in which nothing more happens. In the other instances work is bounded and may run out
(a scheduler whose jobs are removed has nothing to do, a line has its last character, a console
is closed), so their configurations do not check it.

### Fairness

* `RecoveryFiles`: a call that has begun is carried on while its process lives (nothing in it
  waits for another process: the lock is taken with `LOCK_NB`), and the operator keeps asking for
  the recovery of an operation that needs it whenever the lock is free (strong: the CLI refuses
  while the lock is busy). Nothing is assumed of models, of prepare or apply being called.
* `SSHGuard`: calls go on, init restarts the supervisor (`docs/recovery.md:592-606` asks for that), time
  passes, sshd takes up what it was asked; the supervisor tries for the lock at every tick.
* `NginxService`: nginx takes up a signal in the end; nothing is assumed of the executor.
* `Scheduler`: a call goes on, a daemon polls again, and the lease of a claim nobody relies on runs
  out. Nothing is assumed of a run itself: one that never returns holds up the jobs its worker has
  claimed behind it, and `DueJobRuns` exempts that case.
* `Approvals`: agents and approvers finish the statements they began. No user is assumed to answer.
* `AgentRun`: the loop goes on, and a call to a model returns or times out (the clients' limit).
  Nothing is assumed of tool calls: one of a console may wait for an approval nobody gives
  (`chat_session_runtime.go:149-154`), and a shell command that has passed its limit is waited for
  while a child of it holds its output (`shell.go:823-832`). `EveryRunEnds` exempts a turn that stays in such
  a call.
* `OperationalMemory`: an operation that began goes on, and agents keep asking what is known.
* `ChatTab`: goroutines run, and messages are delivered. No key is assumed to be pressed.

Crashes are bounded by each instance: a machine that crashes for ever recovers nothing.

### The findings

**`files_torn_staging`.** `restoreEntry` creates its staging file under a fixed name with
`O_EXCL` and then fills it. A process that dies in between leaves a file that is neither absent
nor the original, and every later recovery stops with "restore staging conflict"
(`engine.go:849-852`). Backup and target are intact, and no call of the program removes the
file. `files_recovers` shows that nothing else stands in the way: with an atomic staging write
the property holds.

**`sched_edit_claim`.** `SaveScheduledJob` writes every column of a row that was read earlier. An
edit whose read and write surround a claim drops the claim, and a second worker runs the job.
`docs/scheduled-jobs-and-cron.md:135` says that an active claim excludes other workers.

**`memory_revoked`.** A retrieval that loaded the tables before a revocation and compares the
files after it takes the files for edited and writes its old tables back, in which the item is
active. Every operation that replaces the tables can do the same.

### Observations

The model has these behaviours, and the code allows them. They are no run of their own; where a
property would hold without them, it says so.

Scheduler:
* An edit, a pause or a resumption whose read and write surround the moment a run blocks clears the
  block, against "Pausing/resuming alone does not clear a blocked approval"
  (`docs/scheduled-jobs-and-cron.md:102-103`): the same write of a stale row as in the finding
  `sched_edit_claim`. `BlockStands` holds the promise for every call that began after the block, and
  names this case beside an approval and a successful run.
* The same write of a whole row, at the end of a run, undoes a pause, an edit, an approval or a
  removal made while the job ran; a job removed while it runs is created again.
* A batch of claimed jobs runs one after another and only the running one is heartbeated: a claim
  can lapse while it waits, a second daemon claims the job, and the first runs it all the same.
* An approval given before the blocked row is written back, or a process that dies between the
  two statements of an approval, leaves a blocked job with nothing to approve.
* A console that runs one job by hand twice does so under one claim (`ClaimScheduledJob` accepts a
  claim its own process holds); the first to end releases it. `SchedulerProofs` excludes this by
  name (`OneRunEach`), and stale rows by `NobodyEdits`; `sched_claims` has neither.
* A lease that lapses while its run goes on adds starts of its own, which `RepeatsAccounted` does
  not count.

Recovery:
* Two committed operations on one file can be recovered in the order they were applied; the file
  is then left at a content that neither started from. What is verified is the moment of the record.
* The workers an NGINX probe accepts as new may come from an earlier reload; `SettledIsServed`
  states what holds: the installed configuration is served in the end.

Approvals and chat:
* Work approved at the command line, or resolved by the approval of another work with the same
  digest, leaves a console turn waiting until it is interrupted (`shell_grant.go:34`).
* An approval asked while an address is captured carries no tool call, so that the console drops
  its event and shows no dialog; the turn waits until it is interrupted (`chat_memory.go:55`,
  `tab_chat.go:1089`).
* An answer to one approval delivered after the turn has asked for the next closes the newer
  dialog; `FirstWaitIsShown` is about the first approval of a turn for this reason.
* An approval event held by a reader when its turn ends shows a stale dialog; confirming it fails.
* A turn that ends between two calls of one response leaves calls without a result in the
  stored conversation (`chat_session_runtime.go:737`).
* "Approval was not recorded" is shown also when the grant was saved and only the resumption
  failed. When started events were dropped, `reconcileToolOutcomes` may label another command.
* A session that fails to start puts its prompt over a draft typed meanwhile. `SaveConfig` and
  `StartChat` use `Service.cfg` in two goroutines without a lock (`service.go:37,103`).

Memory:
* The tables are loaded by six queries outside a transaction: a copy can hold two states.
* A finding recorded a second time keeps the hash of its first count and can be neither promoted
  nor rejected. A promotion names an item, not the content the operator read.
* An imported file that lists a verified candidate keeps its verification time whatever its steps
  were edited to (`memory/safety.go:348-357`), and the candidate may then be promoted
  (`memory/review.go:190`) though no run verified those steps. The part `verified` of the run
  `memory` reaches this; `RetrievedIsBlessed` counts such an import as the verification.
* A run without steps that only look keeps those of the stored playbook (`manager_persist.go:223-225`)
  beside its own action steps and its own verification time. They may come from a run that no
  verification confirmed, and are promoted and shown with the rest (`manager_retrieval.go:615-620`):
  `RetrievedIsBlessed` says that they were promoted, and asks a verified run of the action steps only.

Jobs and settings:
* `y` deletes the job at the cursor: when the asked job is gone from a refreshed list, the dialog
  names, and the key deletes, the one that took its place.
* A row of the catalog chosen with Enter changes nothing that `Picker.Dirty` looks at
  (`modelui/picker.go:83-92`): until its message arrives, `hasPendingEdit` (`settings_workspace.go:312-320`)
  knows of no edit, and quitting in that moment neither asks nor saves. `EditsKept` exempts such a choice,
  by name (`aloft`), and nothing else. What is typed in a picker or editor after it has answered is
  dropped when the answer arrives, and counts as given up.
* Ctrl+C quits without asking. A pending "reset all" survives a profile choice, `r` and a save.
* `r` in a first-run form shows "Settings saved" until the next tick.

Tools:
* The crontab is not read again after the confirmation, so what another program wrote in between
  is overwritten, though a change "preserves" comments, environment lines, blank lines and
  "unmanaged cron entries" (`docs/scheduled-jobs-and-cron.md:165-171`). `OthersAreKept`
  holds the promise for the table that was listed and shown, in every interleaving. Removing a named entry leaves its
  name comment behind, and a line number counts from zero or one.
* An id passes over comments to the next command (`systemcron.go:246`), but a removal takes the
  metadata along only from the line directly above (`systemcron.go:204`). Where somebody wrote a
  comment between the two, the next command inherits the id of the removed one. The model's
  crontab and its other programs leave a metadata line with its command (`Tidy`).
* The scheduler adds a step with wrapping integers (`schedule.go:129`). With a step near the largest
  integer the sum becomes negative and may come back into the range: `7/9223372036854775807` as a day
  of week matches 7, 5, 3, 1 and 0. `FieldsAgree` exempts such steps from "no others", and only from
  that.
* A field such as `5/10` means its one value to both parsers, and a day of month and a day of
  week must both match. Nesting deeper than the classifier looks is "unknown".
* A deletion that names no target on the line has no effect to look up, and the fallback to
  "unknown" (`shell_policy.go:52-55`) is for lines with no effect at all: next to other commands such
  a command adds nothing to the decision. `WrappedIsNoLaxer` is about commands with effects of their own.
* A here-document whose line ends with a newline is refused as malformed.

## Proofs

Eight modules hold the theorems; each extends the modules it is about. A theorem holds for every
value of the constants that meets the module's named assumptions, where a run shows the same
property on one instance. The invariants below (`IInv`, `...Inv`) were checked by TLC on the
instance of the component's run before they were proved.

| Module | About | Theorems, and the property of a run they state |
|---|---|---|
| `RecoveryFilesProofs` | `RecoveryFiles` | `TypeCorrect`; `IntentJournalled` (`JournalledIntent`); `OnlyReviewedIsDestroyed` (`DestroysOnlyReviewed`); `OutcomesAreVerified` (`OutcomeVerified`); `JournalImplemented` (`ImplementsJournal`); `BudgetKept` (`RepairBudget`); `ArtifactsAreWhole` (`ReadyArtifactsWhole`) |
| `SSHGuardProofs` | `SSHGuard` | `TypeCorrect`; `UnconfirmedStaysArmed` (`UnconfirmedIsArmed`); `RecoveredMeansRunning` (`RecoveredIsRunning`); `DecisionsStand` (`DecisionStands`); `CommittedMeansReached` (`CommittedWasReached`) |
| `FleetProofs` | `RecoveryJournal`, `Fleet` | `StatusProvesUntouched`; `RecoveredStays`; `FleetTypeCorrect`; `CommandsAreAccounted` (`CommandsAccounted`); `BatchesAreTrue` (`BatchIsTrue`); `FleetImplementsJournal` |
| `SchedulerProofs` | `Scheduler` | `TypeCorrect`; `ClaimsExclude` (`ActiveClaimExcludes`); `BlocksStand` (`BlockStands`); `StartsArePaid` (`RepeatsAccounted`) |
| `AgentProofs` | `AgentRun`, `Approvals` | `RunTypeCorrect`; `CompletedRunsAreVerified` (`CompletedIsVerified`); `ApprovalsTypeCorrect`; `PermissionsAreAccounted` (`PermissionsAccounted`); `DeniedIsNeverRun` (`DeniedNeverRuns`) |
| `MemoryProofs` | `OperationalMemory`, `Endpoints` | `RetrievedMeansBlessed` (`RetrievedIsBlessed`); `ForgottenStays` (`ForgottenStaysForgotten`) |
| `WorkbenchProofs` | `Snapshot`, `JobsTab`, `Settings`, `ChatTab` | `SnapTypeCorrect`; `CheckpointsAreReviewed` (`CheckpointIsReviewed`); `RestoresStand` (`RestoreStands`); `DraftsBecomeOneJob` (`DraftBecomesOneJob`); `SettingsTypeCorrect`; `NoEditIsLost` (`EditsKept`); `ChatTypeCorrect`; `WhatIsShownIsCurrent` (`ShownIsCurrent`); `FirstWaitsAreShown` (`FirstWaitIsShown`) |
| `ToolsProofs` | `Quantity`, `CronExpression`, `ShellPolicy`, `ShellSyntax`, `SystemCron` | `RoundingIsRight` (`RoundsAsAsked`); `ParsersAgree` (`FieldsAgree`); `WrappersTightenOnly` (`WrappedIsNoLaxer`); `SegmentsStand` (`SegmentsAreAtoms`); `UnaskedAgreed` (`UnaskedWasAgreed`); `OthersStay` (`OthersAreKept`) |

### File operations

The assumptions are that the marker values are distinct from the data, the bounds are natural
numbers, a request is not empty and names no path twice (`Prepare` refuses others), and
distinct original files have distinct identities.

None of the properties is inductive alone. `IInv` adds to the types, for each executor
(`Controlled`): at work it holds the lock; its operation has the status of its step; between a
check and the change of a file it stands at an entry of the request; and the staging file it
is about to install is the original it was staged from, without which the installed file has
no type. `OthersWait` carries the interleaving: while `x` holds the lock, or nobody does, no
other executor is at work, so a step of `x` has to be examined for `x` only. The shapes a step
takes (`GoesOn`, `GivesUp`, `Concludes`, `Records`, `Enters`) are lemmas, and each action is an
instance of one of them or is proved on its own when it changes files.

The later theorems stand on `IInv` and add what each needs:

* `Review`: an executor poised to change a file saw in it what may be destroyed, or the path has
  been raced since. It is kept by others because the holder of the lock alone is at work
  (`OthersKeep`) and by foreign writers because what they write is raced (`EnvironmentKeeps`);
  only a look at the file makes an executor poised (`PoisedByReview`).
* `Verification`: a call that reads entry by entry has found the entries before the current one
  as it wants them, or they were raced since. That the entries of a request name distinct paths
  is used here: a later read does not reopen an earlier entry.
* `RInv`: an operation whose status is of `BeforeApplication` is untouched, which a cancellation
  needs to be a `Cancel` of the lifecycle. Its preservation follows from the lifecycle
  (`MoveUntouched`) once each step is mapped to a step of it or none (`StepMoves`).
* `Reservations`: attempts spent are attempts recorded, and a ticket in hand is recorded, unspent
  and held once; a reservation without a ticket belongs to a recovered operation, which stays so
  by the refinement, and is never dispatched.
* `Preserved`: a call that prepares has written the artifacts of the entries before the current
  one. The lifecycle leaves one way past preparation (`OnlyReadyFollows`), the step that ends it
  (`ReadyIsPrepared`), and nobody but that call writes the plan or its artifacts
  (`ArtifactsKept`).

### Guarded SSH

Assumed: the operations are finite in number, the markers distinct, the bounds natural numbers
(`OpsAssumption`, `SortsAssumption`, `BoundsAssumption`). `UnconfirmedIsArmed` says nothing of the
calls under way, so a stale call could break it. `IInv` adds `Control`: a process at work holds the
lock and its operation has the status of its step (`Intent`); a restoration concerns the armed
operation, or one that was confirmed and that an operator undoes; the supervisor undoes only what
is armed and undecided; a client about to commit has reached the new port after the reload,
unless that listener is gone. `Confirmed` says that what is committed was confirmed, and `Planned`
that a prepared operation leads from one valid port to another. The lock excludes here as in the file operations: a step of one
process leaves the `Control` of the others as it was because they are not at work.

### Journal and fleet

The journal's `UnappliedIsUntouched` is inductive with the types (`JournalInv`). In `Fleet` the
difficulty is that the truth is in three places: the row, the copy in the call that holds the
lock, and the commands still on their way. `FleetInv` says what an apply that was not sent, or has
not arrived, leaves untouched (`Started`), that a row and its claims belong together (`Owned`), that
a row tells the truth about its hosts (`RowIsTrue`), and what the call may rely on (`CallIsTrue`): its
copy and the row agree on what was dispatched and paid, only the observed states may be newer; and
a command about to be sent is paid for and not yet sent. A crash forgets the copy, and the row is
still true, because it was saved before the command left. Assumed is that a plan is a sequence of
operations and the ceiling a natural number (`FleetAssumption`, `NoneAssumption`).
`FleetImplementsJournal` maps every command that arrives, late or repeated,
to a step of the lifecycle or none.

### Scheduler

`TypeCorrect` holds of the whole model and is inductive only with what a caller has read before
each of its steps (`Steady`). `BlocksStand` needs besides only that nobody edits or holds a job that was never
created (`KnownInv`), so that a creation never meets a row: it holds for every caller, edits, lapses
and crashes included. The other two properties are about the time while no lease has lapsed, and
their theorems have two hypotheses on the callers, because the code breaks the properties otherwise:

* `NobodyEdits`: an edit, a pause or a resumption writes back a whole row read earlier, claim
  included (the finding `sched_edit_claim`).
* `OneRunEach`: a process runs one job at a time. A console can start a job twice by hand, and
  both runs share its claim (`internal/tui/tab_jobs.go:287`, `cmd/tui.go:79`).

The instance of `sched_claims` satisfies both: daemons, a manual run, approvals, removals, failing
statements and crashes remain. `ClaimInv` says that a job somebody holds is claimed in the table
by its owner (`Claimed`), that holders exclude each other also while a claimed job waits in a queue
(`Excluded`), and that an identifier is used once (`Known`), so that a job removed under its holder
is claimed by nobody else. `RepeatInv` counts the starts by the schedule: at most one more than there were faults, and none
more than the faults as long as the job may be started (`Startable`). For a job that runs, the
row that counts is not the one in the table but the copy its run will write back.

### Run loop and approvals

Assumed: limits are natural numbers, the marker values distinct from the data, a policy is complete
(`LoopAssumption`, `NoneAssumption`, `PolicyAssumption`). `RunInv` says at which stages of the loop a
verdict is about the present answer (`Judged`) and at which none satisfies (`NotSatisfied`), so that
no verdict outlives the answer it was given for, and that nothing is recorded before the end.

`PermissionsAccounted` is inductive with the types and with what agents and approvers know between
their steps: an agent that asks needs an approval, one that executes is not denied (`AgentKnows`),
and an approver resolves work that exists (`ApproverKnows`). `DeniedIsNeverRun` rests on the second
of these: an execution follows an authorization, or the answer to a question that is asked only
about what the policy leaves to a human, and a resumed call is authorized again.

### Memory

Assumed: the hostname is a fact of the host, item kinds and targets are known, and the times are
natural numbers (`MemoryAssumption`). Operations replace the whole memory by copies of any age.
`VouchedInv` is therefore item by item, and about every copy there is, in the tables and in the calls
under way: what may be retrieved from it was promoted, proved or imported at some time, sets that
only grow. The files need no more than to hold records, since their content counts only
once it is imported. For the same reason the property cannot say that a revoked item stays
revoked, which is the finding `memory_revoked`. `MemorySpec` starts from any tables and files
made of records. `ForgottenInv` adds that only a turn that settled a name is forgotten with it.

### Snapshots, jobs, settings, chat

* `SnapInv`: a subvolume is at one place (`OnePlace`), a restore depends on the checkpoint it was
  prepared from (`Bound`), a call under way has found what its step needs (`Underway`), and a
  recorded checkpoint has the reviewed contents (`CheckpointsStand`). A write between the last
  check and the clone is caught because the call that finishes has compared the clone.
* `JobsInv`: drafts and jobs are numbered alike, so that a new draft was never made a job
  (`Numbered`, `Drafted`), and one creation is under way at most, an operation or its outcome
  (`OneCreation`).
* `SettingsInv`: while a save is under way nothing but its result changes the draft, or, when the user
  saved and quit, a choice that was on its way (`Closed`, `Late`, `Drafts`); each kind of save is under
  way once at most (`OneSave`), and it is known where draft, service and file agree (`Agreed`).
* `ChatInv`: an event is at one of the places between the runtime and the tab: a channel, a reader,
  a message (`Places`, `At`). A conversation has one turn at a time and one result for each turn
  (`Turning`). An approval event under way is the only one of its approval, and the tab has not seen
  that approval (`Sending`, `Unseen`). A granted answer concerns the current turn while the tab
  runs, and nobody waits for it any more without a signal (`Answered`). What is shown came from
  the turn it is shown for (`Sourced`), and the first approval a turn waits for is shown or on its
  way (`FirstIsSent`): `Observe` drops events from a full channel, never this one. The lemmas on
  how events move (`Carried`, `EmitMoves`, `TakenMoves`, `HandOpens`) reduce each action to the
  places it touches. The folds over the events and outcomes of a turn have their types by
  `FoldExists` and `FoldStays`.

They assume that checkpoints and restores are distinct and there is a first tree
(`SnapAssumption`), that the first list numbers its jobs (`JobsAssumption`), natural bounds
(`SettingsAssumption`), and for the chat a capacity and a number of conversations above zero and
plans made of sequences of calls and a number of approvals (`ChatAssumption`).

### Rounding, cron fields, shell decisions, crontab

The first three theorems are about functions of every input, in specifications that take one input
at a time.

* `RoundingIsRight`: a calculation gives an exact rational (`Calculated`), and the integer it is rounded
  to, once and at the end, is the one the rounding mode names (`Rounded`). Assumed: known units,
  decimals with a positive denominator, a natural limit (`QuantityAssumption`).
* `ParsersAgree`: what the scheduler's loop over the values of an item collects is the range cut to
  whole steps (`CountUp` is the closed form of the loop) unless a sum of the loop can overflow, in
  which case it collects at least the start (`CountStart`), the only value such an item names. That
  the loop has a meaning at all with sums that wrap around is `LoopExists`. The crontab client
  accepts an item when the scheduler does. Assumed: ranges that are not empty and end below half
  the largest integer, one step at most in an item and none beyond that integer (`FieldAssumption`).
* `WrappersTightenOnly`: what a command does by itself is found among what it does behind wrappers
  that are looked through (`SeenInside`), "unknown" behind others (`UnseenInside`), and the strictest
  decision on more effects is at least as strict (`StrictestGrows`, `MoreEffects`). Assumed: a
  selection names a profile and overrides known settings, and wrappers that pass words stand behind
  those that pass a script (`PolicyAssumption`).
* `SegmentsStand`: a text is read by induction on its length, done on sets of texts (`Grown`). The
  parser of a line stands, at each character, where a parser that was given the current segment
  alone would stand (`Follows`): in the same quotes, behind the same backslash, with nothing found
  yet (`Quiet`). So a flush makes a segment that is one segment by itself (`FlushAtom`), also after
  its last blanks are cut (`ReadAlone`), for which the parity of backslashes that trims the end has
  to agree with what the parser takes for escaped (`EscapedNext`). And what has been read is
  written, but for blanks, in the segments, the operators and the current text (`Said`), in the
  middle of a two-character operator too (`Skips`). `Holds` puts both together; `HoldsStep` keeps it
  for every character. Nothing is assumed of the alphabet.
* `UnaskedAgreed`: the invariant is that every remembered normal form has words the user agreed to
  (`Consented`). It needs that two commands with one normal form have the same words, for every
  text (`NormalWords`). Both loops follow the same quotes and escapes, until the tokenizer fails
  (`WordsTyped`); so behind what the normalizer has written, and the blank it holds back, the
  tokenizer stands where it would stand behind the text itself (`SameWords`), since a second blank
  changes nothing between words and none at the end (`BlankTwice`, `BlankLast`). The second
  trimming cuts nothing more, because what has been written ends as the text does, the escape of
  its last character included (`SameEnd`). For an allowed name, the first word of the command is
  that name (`NameIsFirst`), and for an allowed name and verb, the first two are (`VerbIsSecond`):
  `strings.Fields` cuts at a blank or a line break, the tokenizer at a blank only (`WholeWords`), and
  a line break cannot stand right behind plain words and the blanks between them, as the parser
  would have split there (`NoBreak`, from `Quiet`). Assumed: the lines are texts, and the allowed
  names are written without quotes, escapes and operators, a verb behind a blank (`ShellAssumption`).
* `OthersStay`: `CronInv` says that every prepared change keeps the rest of the table it was made from
  (`Sound`), whatever the table is by the time it is installed. An addition cuts the blank lines at the
  end and puts the entry behind the rest, which stays where it was (`SplitWhole`, `AddIsSound`). An edit is described by where each
  line goes (`Shift`, `Edited`): the lines that stay correspond in order (`Aligned`), so they have the
  same rank (`SameOrder`), and the line above a command goes with it, so it answers to the same id
  (`EditKeepsIds`). That needs tables in which a metadata line stands directly above its command
  (`Tidy`). It is assumed of the first one (`CronAssumption`), every change of the program keeps it
  (`CutOutTidy`, `AppendedTidy`), and for other programs it is the guard of `Foreign`; the
  observation above says what happens otherwise.

### Only model-checked

* Liveness, which the proof system does not reach: `InterruptedRecovers`, `ArmedIsSettled`,
  `SettledIsServed`, `DueJobRuns`, `ConsoleApprovalResumes`, `EveryRunEnds`, `FilesConverge`,
  `InterruptSettles`.
* The library's induction theorems take an operator as a parameter, which no installed prover
  instantiates. Where an induction was needed, it is done through a least counterexample (`Least`,
  from the well-foundedness of `<`).
* The types of the remaining modules are stated but not proved.

## Plan

What is left is proof, in this order:

1. `NginxService`: types, and the safe half of `SettledIsServed`: an outcome is recorded over a
   configuration that was installed and validated.
2. The types of `OperationalMemory` and `JobsTab`.

## Not modelled

* The prompts, classification texts, routing between models, the clients of model services, web
  search and event tools: text and network, whose failures appear as calls that fail.
* The safety evaluation: an offline report over recorded runs.
* The command line, logging, configuration files, exports, telemetry and the store's schema: input
  and output. The tables with a protocol are in the modules of their components.
* Overview, run history, the setup wizard and the layout of the console: they only read, or write
  once at the end.
* A statement that fails while an approval is recorded (`shell_grant.go:71-73`), which leaves a turn
  waiting as if nobody had approved; the files written when a run's target is already known, and runs
  that touch several targets.
* The calendar search of `NextRun`, which the scheduler's model leaves open as any later time; the
  program table of the shell policy beyond one name and one target per case, and scripts passed
  on as words (`sudo sh -c`), whose quotes the joining of the words loses; capacity probes and extended
  attributes, which are reads of the environment and appear as calls that refuse; stored chat
  sessions and their export.
