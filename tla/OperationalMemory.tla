-------------------------- MODULE OperationalMemory --------------------------
(***************************************************************************)
(* What the agent has learned about its targets (memory/, with the tables  *)
(* of state/store_operational_memory.go).  SQLite holds targets and, for   *)
(* each, facts, playbooks, findings and cautions; four Markdown views are  *)
(* generated from it.  Every operation of every process loads all tables,  *)
(* one query after the other, changes its copy and replaces all tables in  *)
(* one transaction; the views are written afterwards, file by file.        *)
(* Agents add candidates, an operator reviews them, and only active items  *)
(* of a live target reach a prompt.                                        *)
(***************************************************************************)
EXTENDS Integers, Sequences, SequencesExt, FiniteSets

CONSTANTS Procs,          \* processes: agents, consoles, the operator's commands
          Runtime, Hosts, \* the machine the program runs on; remote targets
          Items,          \* identifiers of learned items
          KindOf,         \* their kind: "fact", "playbook", "finding" or "caution"
          TargetOf,       \* and their target
          Bodies,         \* contents: of a playbook, the action steps
          Reparsed,       \* what a content is after it went through a view
          Outcomes,       \* outcomes of runs
          Environment,    \* the environment the operator binds a host to
          HostnameFact, Hostname, \* the fact that holds the name of the runtime host; that name
          CandidateTTL, CautionTTL, ActiveTTL, RuntimeTTL, MaxClock,
          Jobs,           \* the operations a process performs
          MaxJobs, MaxFailures, Nothing

VARIABLES db,       \* the tables: targets and items
          views,    \* what the four files hold
          clock,
          pc, todo, \* where a process is; tables to load or files to write
          job,      \* its operation
          snap,     \* its copy of the tables
          jobs, failures,        \* operations and failures so far
          blessed,  \* contents an operator promoted or imported as active
          proved,   \* action steps that a verified run with a check of its own produced, or
                    \* the operator imported from a file that calls them verified
          revoked   \* items revoked and since then neither promoted nor imported

memvars == <<db, views, clock, pc, todo, job, snap, jobs, failures, blessed, proved, revoked>>
history == <<blessed, proved, revoked>>

Targets == {Runtime} \cup Hosts
Kinds == {"fact", "playbook", "finding", "caution"}
Statuses == {"candidate", "active", "rejected", "revoked", "expired"}

ASSUME MemoryAssumption ==
  /\ HostnameFact \in Items /\ KindOf[HostnameFact] = "fact" /\ TargetOf[HostnameFact] = Runtime
  /\ Hostname \in Bodies /\ KindOf \in [Items -> Kinds] /\ TargetOf \in [Items -> Targets]
  /\ Reparsed \in [Bodies -> Bodies] /\ Nothing \notin Bodies
  /\ {CandidateTTL, CautionTTL, ActiveTTL, RuntimeTTL, MaxClock, MaxJobs, MaxFailures} \subseteq Nat

\* The tables that hold something, in the order in which they are loaded, and
\* the files that show them: facts are part of the targets' file.
Tables == SelectSeq(<<"targets", "fact", "playbook", "finding", "caution">>,
                    LAMBDA k : k = "targets" \/ \E x \in Items : KindOf[x] = k)
FileOf(x) == IF KindOf[x] = "fact" THEN "targets" ELSE KindOf[x]
Files == {"targets"} \cup {FileOf(x) : x \in Items}
Empty == [t |-> [h \in Targets |-> Nothing], i |-> [x \in Items |-> Nothing]]

(***************************************************************************)
(* Items.                                                                  *)
(***************************************************************************)
\* The evidence hash covers source, scope, content and counters.
Integrity(r) == <<r.source, r.env, r.body, r.verify, r.checks, r.ref, r.count>>
Hashed(r) == [r EXCEPT !.hash = Integrity(r)]
Sound(r) == r.hash = Integrity(r)
\* What of an item reaches a prompt; a playbook opens with steps that only look.
Content(r) == <<r.body, r.verify>>

TargetEnvironment(st, h) == IF st.t[h] = Nothing THEN "unknown" ELSE st.t[h].env

LiveTarget(st, h) ==
  /\ st.t[h] # Nothing
  /\ st.t[h].status = "active" /\ st.t[h].env # "unknown" /\ st.t[h].expires > clock

\* An item as a run or the model suggests it.
Candidate(st, x, body, source, ttl) ==
  [status |-> "candidate", trust |-> "untrusted", env |-> TargetEnvironment(st, TargetOf[x]),
   source |-> source, body |-> body, verify |-> Nothing, count |-> 1, checks |-> FALSE, verified |-> FALSE,
   ref |-> FALSE, expires |-> clock + ttl, hash |-> <<>>]

\* What retrieval may put into a prompt: the facts of a target, and of the items
\* that match a run one playbook, one caution and one finding.
LiveOperationalItem(r, env) ==
  /\ r # Nothing /\ r.status = "active" /\ r.trust # "untrusted"
  /\ r.env = env /\ r.expires > clock
FactsForTarget(r) == Sound(r)
SelectPlaybook(r) == Sound(r) /\ r.checks
SelectCaution(r) == Sound(r)
SelectFinding(r) == Sound(r)
Retrievable(st, x) ==
  LET r == st.i[x] IN
    /\ LiveTarget(st, TargetOf[x]) /\ LiveOperationalItem(r, st.t[TargetOf[x]].env)
    /\ CASE KindOf[x] = "fact" -> FactsForTarget(r)
         [] KindOf[x] = "playbook" -> SelectPlaybook(r)
         [] KindOf[x] = "caution" -> SelectCaution(r)
         [] KindOf[x] = "finding" -> SelectFinding(r)

\* Candidates and active items whose time has come expire.
Expired(r) ==
  IF r # Nothing /\ r.status \in {"candidate", "active"} /\ r.expires # 0 /\ r.expires <= clock
  THEN [r EXCEPT !.status = "expired"] ELSE r
ExpireOperationalItems(st) ==
  [t |-> [h \in Targets |-> Expired(st.t[h])], i |-> [x \in Items |-> Expired(st.i[x])]]

\* The runtime host and its name are established, and renewed when their time has come.
RuntimeTarget == [status |-> "active", env |-> "runtime", expires |-> clock + RuntimeTTL]
RuntimeProbe ==
  Hashed([status |-> "active", trust |-> "verified", env |-> "runtime", source |-> "runtime",
          body |-> Hostname, verify |-> Nothing, count |-> 1, checks |-> FALSE, verified |-> TRUE, ref |-> TRUE,
          expires |-> clock + RuntimeTTL, hash |-> <<>>])
EnsureRuntimeBootstrap(st) ==
  LET r == st.t[Runtime] IN
    IF r = Nothing \/ r.expires <= clock
    THEN [st EXCEPT !.t[Runtime] = RuntimeTarget, !.i[HostnameFact] = RuntimeProbe]
    ELSE [st EXCEPT !.t[Runtime].status = "active", !.t[Runtime].env = "runtime"]

(***************************************************************************)
(* Learning.                                                               *)
(***************************************************************************)
\* A probe replaces the fact; a repeated finding keeps the hash of the first count.
UpsertFact(st, x, body) == Hashed(Candidate(st, x, body, "probe", CandidateTTL))
UpsertFinding(st, x, body) ==
  LET new == Hashed(Candidate(st, x, body, "model", CandidateTTL)) IN
    IF st.i[x] = Nothing THEN new ELSE [new EXCEPT !.count = st.i[x].count + 1]

ApplyPlaybookFailure(st, x) ==
  IF st.i[x] = Nothing THEN Nothing
  ELSE Hashed([st.i[x] EXCEPT !.count = @ + 1])

\* The playbook of one run's sequence alone.
Sequence(st, x, o) ==
  [Candidate(st, x, o.steps, "run", CandidateTTL) EXCEPT
     !.verify = o.verify, !.checks = o.checks, !.verified = o.verified /\ o.checks, !.ref = o.verified]

\* What a sequence lacks is kept from the playbook: the steps that only look, the checks.
Merged(new, old) ==
  [new EXCEPT !.count = old.count + 1, !.checks = @ \/ old.checks,
              !.verify = IF @ = Nothing THEN old.verify ELSE @]

\* Variant: a playbook that was active stays active with its new steps.
KeepsStatus(st, x, o) ==
  LET old == st.i[x] IN
    IF old = Nothing THEN Hashed(Sequence(st, x, o))
    ELSE Hashed([Merged(Sequence(st, x, o), old) EXCEPT !.status = old.status, !.trust = old.trust])

\* A sequence that succeeded becomes a candidate again, whatever the playbook
\* was; it is verified only when the outcome was and it ends with a check.
ApplyPlaybook(st, x, o) ==
  Hashed(IF st.i[x] = Nothing THEN Sequence(st, x, o) ELSE Merged(Sequence(st, x, o), st.i[x]))

ApplyCaution(st, x, body) ==
  LET new == Candidate(st, x, body, "failure", CautionTTL) IN
    IF st.i[x] = Nothing THEN Hashed(new)
    ELSE Hashed([new EXCEPT !.count = st.i[x].count + 1])

\* Failed calls first, then the sequences of a run that ended without an error.
Procedure(st, x, o) ==
  LET failed == IF o.failure # Nothing THEN ApplyPlaybookFailure(st, x) ELSE st.i[x]
  IN IF o.steps = Nothing \/ o.error \/ o.sensitive THEN failed
     ELSE ApplyPlaybook([st EXCEPT !.i[x] = failed], x, o)

CuratedItem(st, x, o) ==
  CASE KindOf[x] = "fact" -> IF o.probe = Nothing \/ o.sensitive THEN st.i[x] ELSE UpsertFact(st, x, o.probe)
    [] KindOf[x] = "playbook" -> Procedure(st, x, o)
    [] KindOf[x] = "caution" -> IF o.failure = Nothing THEN st.i[x] ELSE ApplyCaution(st, x, o.failure)
    [] OTHER -> st.i[x]

Curated(st, o) ==
  [st EXCEPT !.i = [x \in Items |-> IF TargetOf[x] = o.target THEN CuratedItem(st, x, o) ELSE st.i[x]]]

(***************************************************************************)
(* Review.                                                                 *)
(***************************************************************************)
ValidateMemoryTransition(current, next) ==
  IF next = "revoked" THEN current = "active" ELSE current = "candidate"

MayTransition(st, x, next) ==
  LET r == st.i[x] IN
    /\ r # Nothing /\ Sound(r)
    /\ ValidateMemoryTransition(r.status, next)
    /\ next = "active" =>
         /\ KindOf[x] = "playbook" => r.checks /\ r.verified /\ r.ref
         /\ LiveTarget(st, TargetOf[x]) /\ r.env = st.t[TargetOf[x]].env

Transitioned(st, x, next) ==
  LET r == st.i[x] IN
    [st EXCEPT !.i[x] =
       Hashed(IF next = "active" THEN [r EXCEPT !.status = next, !.trust = "operator", !.expires = clock + ActiveTTL]
              ELSE [r EXCEPT !.status = next])]

MayBind(st, h) ==
  /\ st.t[h] # Nothing /\ st.t[h].status = "candidate" /\ st.t[h].env = "unknown"
  /\ \A x \in Items : TargetOf[x] = h /\ st.i[x] # Nothing => st.i[x].status = "candidate"

\* The target and every item of it move to the environment.
Bound(st, h) ==
  [t |-> [st.t EXCEPT ![h] = [status |-> "active", env |-> Environment, expires |-> clock + ActiveTTL]],
   i |-> [x \in Items |-> IF TargetOf[x] = h /\ st.i[x] # Nothing
                          THEN Hashed([st.i[x] EXCEPT !.env = Environment]) ELSE st.i[x]]]

(***************************************************************************)
(* Views and imports.                                                      *)
(***************************************************************************)
\* A file shows its records as they are; reading it back can change a content.
Rendered(file, st, vs) ==
  [t |-> IF file = "targets" THEN st.t ELSE vs.t,
   i |-> [x \in Items |-> IF FileOf(x) = file THEN st.i[x] ELSE vs.i[x]]]
ManagedViewsMatch(st) == views = st
ParseRecord(r) == IF r = Nothing THEN Nothing ELSE [r EXCEPT !.body = Reparsed[@], !.verify = IF @ = Nothing THEN Nothing ELSE Reparsed[@]]
ParseManagedFiles == [t |-> views.t, i |-> [x \in Items |-> ParseRecord(views.i[x])]]

\* A record whose hash no longer fits is taken as the operator's own.
CanonicalizeImportedMetadata(r) ==
  Hashed([r EXCEPT !.source = "import", !.trust = IF r.trust = "untrusted" THEN "operator" ELSE r.trust])
PrepareImportedState(st) ==
  [t |-> st.t,
   i |-> [x \in Items |-> IF st.i[x] = Nothing \/ Sound(st.i[x]) THEN st.i[x]
                          ELSE CanonicalizeImportedMetadata(st.i[x])]]

ValidateImportedState(st) ==
  /\ \A h \in Hosts : st.t[h] # Nothing /\ st.t[h].status = "active" => st.t[h].env # "unknown"
  /\ \A x \in Items : LET r == st.i[x] IN r # Nothing =>
       /\ st.t[TargetOf[x]] # Nothing /\ r.env = TargetEnvironment(st, TargetOf[x])
       /\ r.status = "active" => r.expires > clock /\ (KindOf[x] = "playbook" => r.checks)

\* Files of the time before the database become candidates without scope.
PrepareLegacyState(st) ==
  [t |-> [h \in Targets |-> IF st.t[h] = Nothing THEN Nothing
            ELSE IF h = Runtime THEN [st.t[h] EXCEPT !.status = "candidate"]
            ELSE [status |-> "candidate", env |-> "unknown", expires |-> 0]],
   i |-> [x \in Items |-> IF st.i[x] = Nothing THEN Nothing
            ELSE Hashed([st.i[x] EXCEPT !.status = "candidate", !.trust = "untrusted", !.source = "legacy",
                           !.env = IF TargetOf[x] = Runtime THEN TargetEnvironment(st, Runtime) ELSE "unknown",
                           !.verified = FALSE, !.ref = TRUE, !.expires = clock + CandidateTTL])]]

(***************************************************************************)
(* Processes.                                                              *)
(***************************************************************************)
\* Items whose content a run has verified, or a file says so.
Verified(st) == {x \in Items : st.i[x] # Nothing /\ st.i[x].verified}

\* Tables and files as an earlier session left them; active items were reviewed.
MemoryInit(st, files) ==
  /\ db = st /\ views = files /\ clock = 1
  /\ pc = [p \in Procs |-> "idle"] /\ todo = [p \in Procs |-> <<>>]
  /\ job = [p \in Procs |-> Nothing] /\ snap = [p \in Procs |-> Empty]
  /\ jobs = 0 /\ failures = 0 /\ revoked = {}
  /\ LET active == {x \in Items : st.i[x] # Nothing /\ st.i[x].status = "active"} IN
       /\ blessed = {<<x, Content(st.i[x]), "promoted">> : x \in active}
       /\ proved = {<<x, st.i[x].body>> : x \in active \cup Verified(st)}

Idle(p) ==
  /\ pc' = [pc EXCEPT ![p] = "idle"] /\ job' = [job EXCEPT ![p] = Nothing]
  /\ snap' = [snap EXCEPT ![p] = Empty] /\ todo' = [todo EXCEPT ![p] = <<>>]

\* Imports read the files at once; every other operation looks after the files first.
\* Retrieval is not counted: agents go on asking.
Begin(p) ==
  /\ pc[p] = "idle"
  /\ \E j \in Jobs[p] :
       /\ j.op = "retrieve" \/ jobs < MaxJobs
       /\ jobs' = IF j.op = "retrieve" THEN jobs ELSE jobs + 1
       /\ job' = [job EXCEPT ![p] = j]
       /\ pc' = [pc EXCEPT ![p] = IF j.op = "import" THEN "parse" ELSE "ensure"]
       /\ todo' = [todo EXCEPT ![p] = IF j.op = "import" THEN <<>> ELSE Tables]
  /\ UNCHANGED <<db, views, clock, snap, failures, history>>

\* One query; the tables are not loaded in one transaction.
LoadOperationalMemory(p) ==
  /\ pc[p] \in {"ensure", "apply"} /\ todo[p] # <<>>
  /\ LET k == Head(todo[p]) IN
       snap' = [snap EXCEPT ![p] =
         [t |-> IF k = "targets" THEN db.t ELSE @.t,
          i |-> [x \in Items |-> IF KindOf[x] = k THEN db.i[x] ELSE @.i[x]]]]
  /\ todo' = [todo EXCEPT ![p] = Tail(@)]
  /\ UNCHANGED <<db, views, clock, pc, job, jobs, failures, history>>

Loaded(p, at) == pc[p] = at /\ todo[p] = <<>>

\* Variant: files that differ from the tables are left alone.
EnsureTablesOnly(p) ==
  /\ Loaded(p, "ensure")
  /\ LET st == EnsureRuntimeBootstrap(ExpireOperationalItems(snap[p])) IN
       \/ st # snap[p]
          /\ snap' = [snap EXCEPT ![p] = st] /\ pc' = [pc EXCEPT ![p] = "rewrite"] /\ UNCHANGED todo
       \/ st = snap[p]
          /\ pc' = [pc EXCEPT ![p] = "apply"] /\ todo' = [todo EXCEPT ![p] = Tables] /\ UNCHANGED snap
  /\ UNCHANGED <<db, views, clock, job, jobs, failures, history>>

\* Legacy files are migrated into an empty database; items expire; the runtime
\* host is renewed.  Any change, and any file that differs, rewrites everything.
EnsureFiles(p) ==
  /\ Loaded(p, "ensure")
  /\ LET legacy == snap[p] = Empty /\ views # Empty
         from == IF legacy THEN PrepareLegacyState(ParseManagedFiles) ELSE snap[p]
         st == EnsureRuntimeBootstrap(ExpireOperationalItems(from))
     IN \/ legacy /\ ~ValidateImportedState(from) /\ Idle(p)
        \/ /\ legacy => ValidateImportedState(from)
           /\ legacy \/ st # snap[p] \/ ~ManagedViewsMatch(st)
           /\ snap' = [snap EXCEPT ![p] = st] /\ pc' = [pc EXCEPT ![p] = "rewrite"] /\ UNCHANGED <<todo, job>>
        \/ /\ ~legacy /\ st = snap[p] /\ ManagedViewsMatch(st)
           /\ pc' = [pc EXCEPT ![p] = "apply"] /\ todo' = [todo EXCEPT ![p] = Tables] /\ UNCHANGED <<snap, job>>
  /\ UNCHANGED <<db, views, clock, jobs, failures, history>>

\* The transaction that replaces all tables; the files follow in any order.
ReplaceOperationalMemory(p, st, next) ==
  /\ db' = st /\ snap' = [snap EXCEPT ![p] = st]
  /\ pc' = [pc EXCEPT ![p] = next] /\ todo' = [todo EXCEPT ![p] = SetToSeq(Files)]
Rewrite(p) ==
  /\ pc[p] = "rewrite" /\ ReplaceOperationalMemory(p, snap[p], "refresh")
  /\ UNCHANGED <<views, clock, job, jobs, failures, history>>

Without(s, file) == SelectSeq(s, LAMBDA f : f # file)
WriteManagedFile(p) ==
  /\ pc[p] \in {"refresh", "views"}
  /\ \E file \in Range(todo[p]) :
       /\ views' = Rendered(file, snap[p], views)
       /\ IF todo[p] # <<file>>
          THEN todo' = [todo EXCEPT ![p] = Without(@, file)] /\ UNCHANGED <<pc, job, snap>>
          ELSE IF pc[p] = "views" THEN Idle(p)
          ELSE /\ pc' = [pc EXCEPT ![p] = "apply"] /\ todo' = [todo EXCEPT ![p] = Tables]
               /\ UNCHANGED <<job, snap>>
  /\ UNCHANGED <<db, clock, jobs, failures, history>>

Applying(p, op) == Loaded(p, "apply") /\ job[p].op = op
Changes(p, st) == ReplaceOperationalMemory(p, st, "views") /\ UNCHANGED <<views, clock, job, jobs, failures>>
Refused(p) == Idle(p) /\ UNCHANGED <<db, views, clock, jobs, failures, history>>

\* Nothing is changed, and nothing kept: what was selected goes into a prompt.
RetrievePlan(p) == Applying(p, "retrieve") /\ Refused(p)

\* A host that is named for the first time becomes a provisional target.
FindTargetByHint(st, h) == st.t[h] # Nothing
ResolveTarget(p) ==
  /\ Applying(p, "resolve")
  /\ LET h == job[p].target IN
       \/ FindTargetByHint(snap[p], h) /\ Refused(p)
       \/ /\ ~FindTargetByHint(snap[p], h)
          /\ Changes(p, [snap[p] EXCEPT !.t[h] = [status |-> "candidate", env |-> "unknown", expires |-> 0]])
          /\ UNCHANGED history

PersistLessons(p) ==
  /\ Applying(p, "lesson")
  /\ LET x == job[p].item IN
       \/ snap[p].t[TargetOf[x]] = Nothing /\ Refused(p)
       \/ /\ snap[p].t[TargetOf[x]] # Nothing
          /\ Changes(p, [snap[p] EXCEPT !.i[x] = UpsertFinding(snap[p], x, job[p].body)])
          /\ UNCHANGED history

\* The runtime host is established once more, but not saved unless something was
\* learned.  A host that is not known is resolved by an operation within this one,
\* of which the copy in hand does not learn.
CurateRunOutcome(p) ==
  /\ Applying(p, "curate")
  /\ LET o == job[p].outcome
         from == EnsureRuntimeBootstrap(snap[p])
         st == Curated(from, o)
     IN \/ from.t[o.target] # Nothing /\ st = from /\ Refused(p)
        \/ /\ from.t[o.target] = Nothing
           /\ job' = [job EXCEPT ![p] = [op |-> "resolve", target |-> o.target]]
           /\ pc' = [pc EXCEPT ![p] = "ensure"] /\ todo' = [todo EXCEPT ![p] = Tables]
           /\ UNCHANGED <<db, views, clock, snap, jobs, failures, history>>
        \/ /\ from.t[o.target] # Nothing /\ st # from
           /\ Changes(p, st)
           /\ proved' = IF o.verified /\ o.checks /\ ~o.error
                        THEN proved \cup {<<x, o.steps>> : x \in {y \in Items : TargetOf[y] = o.target}}
                        ELSE proved
           /\ UNCHANGED <<blessed, revoked>>

TransitionMemory(p) ==
  /\ Applying(p, "transition")
  /\ LET x == job[p].item
         next == job[p].next
     IN \/ ~MayTransition(snap[p], x, next) /\ Refused(p)
        \/ /\ MayTransition(snap[p], x, next)
           /\ Changes(p, Transitioned(snap[p], x, next))
           /\ blessed' = IF next = "active" THEN blessed \cup {<<x, Content(snap[p].i[x]), "promoted">>} ELSE blessed
           /\ revoked' = CASE next = "active" -> revoked \ {x}
                           [] next = "revoked" -> revoked \cup {x}
                           [] OTHER -> revoked
           /\ UNCHANGED proved

DeleteMemory(p) ==
  /\ Applying(p, "delete")
  /\ LET x == job[p].item IN
       \/ snap[p].i[x] = Nothing /\ Refused(p)
       \/ snap[p].i[x] # Nothing /\ Changes(p, [snap[p] EXCEPT !.i[x] = Nothing]) /\ UNCHANGED history

SetTargetEnvironment(p) ==
  /\ Applying(p, "bind")
  /\ LET h == job[p].target IN
       \/ ~MayBind(snap[p], h) /\ Refused(p)
       \/ MayBind(snap[p], h) /\ Changes(p, Bound(snap[p], h)) /\ UNCHANGED history

\* Reindex, Import and Rollback: the files, prepared and validated, replace the tables.
Reindex(p) ==
  /\ pc[p] = "parse"
  /\ LET st == PrepareImportedState(EnsureRuntimeBootstrap(ParseManagedFiles)) IN
       \/ ~ValidateImportedState(st) /\ Refused(p)
       \/ /\ ValidateImportedState(st) /\ Changes(p, st)
          /\ LET active == {x \in Items : st.i[x] # Nothing /\ st.i[x].status = "active"} IN
               /\ blessed' = blessed \cup {<<x, Content(st.i[x]), "imported">> : x \in active}
               /\ revoked' = revoked \ active
          /\ proved' = proved \cup {<<x, st.i[x].body>> : x \in Verified(st)}

\* The operator corrects a record in a file.
EditView(x, body) ==
  /\ jobs < MaxJobs /\ jobs' = jobs + 1
  /\ views.i[x] # Nothing /\ views.i[x].body # body
  /\ views' = [views EXCEPT !.i[x].body = body, !.i[x].status = "active", !.i[x].expires = clock + ActiveTTL]
  /\ UNCHANGED <<db, clock, pc, todo, job, snap, failures, history>>

\* A process dies, or a query or a write fails and the operation ends there.
Abandon(p) ==
  /\ pc[p] # "idle" /\ failures < MaxFailures /\ failures' = failures + 1
  /\ Idle(p) /\ UNCHANGED <<db, views, clock, jobs, history>>

Tick == clock < MaxClock /\ clock' = clock + 1
        /\ UNCHANGED <<db, views, pc, todo, job, snap, jobs, failures, history>>

Works(p) ==
  \/ LoadOperationalMemory(p) \/ EnsureFiles(p) \/ Rewrite(p) \/ WriteManagedFile(p)
  \/ RetrievePlan(p) \/ ResolveTarget(p) \/ PersistLessons(p) \/ CurateRunOutcome(p)
  \/ TransitionMemory(p) \/ DeleteMemory(p) \/ SetTargetEnvironment(p) \/ Reindex(p)

MemoryNext ==
  \/ \E p \in Procs : Begin(p)
  \/ \E p \in Procs : Works(p)
  \/ \E p \in Procs : Abandon(p)
  \/ \E x \in Items, b \in Bodies : EditView(x, b)
  \/ Tick

\* Operations that began go on, and agents go on asking what is known.
MemoryFair == \A p \in Procs : WF_memvars(Works(p)) /\ WF_memvars(Begin(p))

(***************************************************************************)
(* Properties.                                                             *)
(***************************************************************************)
ItemType ==
  [status : Statuses, trust : {"untrusted", "operator", "verified"}, env : {"unknown", "runtime", Environment},
   source : {"model", "run", "probe", "failure", "import", "legacy", "file", "runtime"}, body : Bodies,
   verify : Bodies \cup {Nothing}, count : 1 .. MaxJobs + 1, checks : BOOLEAN, verified : BOOLEAN, ref : BOOLEAN, expires : 0 .. MaxClock + ActiveTTL]
Unhashed(r) == [f \in DOMAIN r \ {"hash"} |-> r[f]]
TargetType == [status : Statuses, env : {"unknown", "runtime", Environment}, expires : 0 .. MaxClock + ActiveTTL]
StateTypeOK(st) ==
  /\ \A h \in Targets : st.t[h] = Nothing \/ st.t[h] \in TargetType
  /\ \A x \in Items : st.i[x] = Nothing \/ Unhashed(st.i[x]) \in ItemType

\* Type invariant: tables, files and copies hold well-formed records, a remote
\* target is never in the runtime environment, and no item is active without trust.
MemoryTypeOK ==
  /\ StateTypeOK(db) /\ StateTypeOK(views) /\ \A p \in Procs : StateTypeOK(snap[p])
  /\ \A h \in Hosts : db.t[h] # Nothing => db.t[h].env # "runtime"
  /\ \A x \in Items : db.i[x] # Nothing /\ db.i[x].status = "active" => db.i[x].trust # "untrusted"
  /\ clock \in 1 .. MaxClock /\ jobs \in 0 .. MaxJobs /\ failures \in 0 .. MaxFailures

\* Whatever processes overwrite each other, what retrieval can give to a prompt is
\* a content, the steps that only look included, that the operator promoted or
\* imported as active, or the name that the program found its own host to have.  The
\* action steps of a promoted playbook are those that a verified run with a check of
\* its own produced, however often it was replaced, failed or half verified, or that
\* the operator's own file called verified; the steps that only look may be those of
\* an earlier run that nobody verified, if that run had none (RetrievePlan, Reindex,
\* transitionMemory, applyPlaybook, applyCaution, upsertFact, ensureRuntimeBootstrap,
\* prepareLegacyState).
RetrievedIsBlessed ==
  \A x \in Items : Retrievable(db, x) =>
    \/ /\ <<x, Content(db.i[x]), "promoted">> \in blessed
       /\ KindOf[x] = "playbook" => <<x, db.i[x].body>> \in proved
    \/ <<x, Content(db.i[x]), "imported">> \in blessed
    \/ x = HostnameFact /\ db.i[x].body = Hostname

\* When nobody changes memory any more, the files come to show the tables and stay
\* so, whatever deaths and overtaken writers left behind (EnsureFiles).
ViewsConverge == <>[](views = db)

\* An item that was revoked is not retrieved again unless it is promoted or
\* imported again.
RevokedStaysRevoked == \A x \in revoked : ~Retrievable(db, x)
=============================================================================
