------------------------------ MODULE MCMemory ------------------------------
(***************************************************************************)
(* Operational memory and declared endpoints for TLC, as parts of one      *)
(* state space: a behaviour is of the part its initial state chooses.      *)
(***************************************************************************)
EXTENDS OperationalMemory, Endpoints, TLC

CONSTANTS agent, operator, here, web, name, steps, note, warning, first, second, third, Parts

VARIABLE part
mcvars == <<part, memvars, epvars>>

MCKindOf == name :> "fact" @@ steps :> "playbook" @@ note :> "finding" @@ warning :> "caution"
MCTargetOf == name :> here @@ steps :> web @@ note :> web @@ warning :> web
MCReparsed == [b \in Bodies |-> IF b = "script" THEN "lines" ELSE b]

Outcome(look, body, probe, failure, checks, verified, error) ==
  [target |-> web, verify |-> look, steps |-> body, probe |-> probe, failure |-> failure, checks |-> checks,
   verified |-> verified, error |-> error, sensitive |-> FALSE]
Proven == Outcome(Nothing, "script", Nothing, Nothing, TRUE, TRUE, FALSE)
Unproven == Outcome("lines", "lines", Nothing, Nothing, FALSE, FALSE, FALSE)
Broken == Outcome(Nothing, "lines", Nothing, "script", TRUE, TRUE, TRUE)
Local == [Outcome(Nothing, "lines", "lines", Nothing, TRUE, TRUE, FALSE) EXCEPT !.target = here]
Secret == [Local EXCEPT !.sensitive = TRUE]
MCOutcomes == {Proven, Unproven, Broken, Local, Secret}

Curate(os) == {[op |-> "curate", outcome |-> o] : o \in os}
Lessons == {[op |-> "lesson", item |-> note, body |-> "lines"]}
Transitions(x, ss) == {[op |-> "transition", item |-> x, next |-> s] : s \in ss}
Ask == {[op |-> "retrieve"]}
MCJobs ==
  agent :> Ask \cup Curate(Outcomes) \cup Lessons \cup {[op |-> "resolve", target |-> web]}
  @@ operator :> {[op |-> "bind", target |-> web], [op |-> "import"]}
       \cup Transitions(steps, {"active", "revoked"}) \cup Transitions(warning, {"active", "rejected"})
       \cup Transitions(note, {"active"}) \cup {[op |-> "delete", item |-> x] : x \in {steps}}
\* The operations of a part.
Allowed ==
  [learn |-> Curate({Proven, Unproven, Broken}) \cup Transitions(steps, {"active"}),
   review |-> Ask \cup Curate({Proven}) \cup Transitions(steps, {"active", "revoked"}) \cup {[op |-> "delete", item |-> steps]},
   scope |-> Curate({Broken, Local, Secret}) \cup Lessons \cup Transitions(warning, {"active", "rejected"})
       \cup Transitions(note, {"active"}) \cup {[op |-> "bind", target |-> web], [op |-> "resolve", target |-> web]},
   files |-> Ask \cup {[op |-> "import"]} \cup Transitions(steps, {"revoked"}),
   verified |-> {[op |-> "import"]} \cup Transitions(steps, {"active"}),
   legacy |-> {[op |-> "import"], [op |-> "resolve", target |-> web], [op |-> "bind", target |-> web]} \cup Transitions(steps, {"active"})]
Within == \A p \in Procs : job[p] = Nothing \/ job[p] \in Allowed[part]

\* The states parts begin in: a host that is bound, with or without an active
\* playbook or one to review; the runtime host only; and old files without a database.
Base == [Empty EXCEPT !.t[here] = [status |-> "active", env |-> "runtime", expires |-> 1 + RuntimeTTL],
                      !.i[name] = Hashed([status |-> "active", trust |-> "verified", env |-> "runtime",
                        source |-> "runtime", body |-> Hostname, verify |-> Nothing, count |-> 1, checks |-> FALSE, verified |-> TRUE,
                        ref |-> TRUE, expires |-> 1 + RuntimeTTL, hash |-> <<>>])]
BoundHost == [Base EXCEPT !.t[web] = [status |-> "active", env |-> Environment, expires |-> 1 + ActiveTTL]]
Playbook == Hashed([status |-> "active", trust |-> "operator", env |-> Environment, source |-> "run",
                    body |-> "script", verify |-> "script", count |-> 1, checks |-> TRUE, verified |-> TRUE, ref |-> TRUE,
                    expires |-> 3, hash |-> <<>>])
Known == [BoundHost EXCEPT !.i[steps] = Playbook]
Unreviewed == [BoundHost EXCEPT !.i[steps] = Hashed([Playbook EXCEPT !.status = "candidate", !.trust = "untrusted"])]
Start == [learn |-> BoundHost, review |-> Known, scope |-> Base, files |-> Known, verified |-> Unreviewed, legacy |-> Empty]
Ends == [learn |-> 2, review |-> 1, scope |-> 1, files |-> 1, verified |-> 1, legacy |-> 1]
Most == [learn |-> 3, review |-> 2, scope |-> 3, files |-> 2, verified |-> 2, legacy |-> 2]
Fails == [learn |-> 0, review |-> 1, scope |-> 0, files |-> 1, verified |-> 0, legacy |-> 1]

MCDeclares ==
  first :> [name |-> "server", address |-> "a"] @@ second :> [name |-> "server", address |-> "b"]
  @@ third :> [name |-> "server", address |-> "a"]

Init ==
  /\ part \in Parts /\ EndpointsInit
  /\ IF part = "endpoints" THEN MemoryInit(Base, Base)
     ELSE MemoryInit(Start[part], IF part = "legacy" THEN Known ELSE Start[part])

MemoryPart ==
  /\ part # "endpoints" /\ UNCHANGED <<part, epvars>> /\ MemoryNext
  /\ Within' /\ clock' <= Ends[part] /\ jobs' <= Most[part] /\ failures' <= Fails[part]
  /\ part # "files" => jobs' = jobs \/ pc' # pc
EndpointsPart == part = "endpoints" /\ EndpointsNext /\ UNCHANGED <<part, memvars>>
Next == MemoryPart \/ EndpointsPart

\* MemoryFair, of the parts in which somebody keeps asking.
Asked == {"review", "files"}
Spec ==
  /\ Init /\ [][Next]_mcvars
  /\ \A p \in Procs : WF_mcvars(part \in Asked /\ UNCHANGED <<part, epvars>> /\ Works(p))
  /\ WF_mcvars(part \in Asked /\ UNCHANGED <<part, epvars>> /\ Begin(agent) /\ Within')

\* ViewsConverge of these parts.
FilesConverge == part \in Asked => ViewsConverge
=============================================================================
