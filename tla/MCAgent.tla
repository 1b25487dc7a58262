------------------------------- MODULE MCAgent -------------------------------
(***************************************************************************)
(* Approvals and AgentRun for TLC, as two parts of one state space: a      *)
(* behaviour is of the part that its initial state chooses, and the other  *)
(* part's variables keep their initial values.                             *)
(***************************************************************************)
EXTENDS Approvals, AgentRun

CONSTANTS edit, fetch, lax, strict, job, console, terminal, shell, remember, Parts

VARIABLE part
agentvars == <<part, apvars, runvars>>

MCEffects == [x \in Acts |-> IF x = edit THEN {"read", "write"} ELSE {"read", "net"}]
MCControl ==
  [p \in Policies |-> [s \in Settings |->
     CASE s = "read" -> "allow"
       [] s = "write" -> IF p = lax THEN "ask" ELSE "deny"
       [] s = "net" -> IF p = lax THEN "review" ELSE "allow"]]
\* The processes, actions and deaths of a part.
Cast == [consoles |-> {job, console}, terminals |-> {terminal}, crashes |-> {console}, run |-> {}]
Wants == [consoles |-> {edit}, terminals |-> {edit, fetch}, crashes |-> {edit}, run |-> {}]
Dies == [consoles |-> 0, terminals |-> 0, crashes |-> 1, run |-> 0]
Within ==
  /\ \A a \in Agents : at[a] # "off" => a \in Cast[part] /\ act[a] \in Wants[part] \cup {Nothing}
  /\ \A p \in Approvers : approval[p].digest # Nothing => approval[p].digest[1] \in Wants[part]
  /\ deaths <= Dies[part]
MCScope == [a \in Agents \cup {Cli} |-> "here"]
MCToolsets == {{shell}, {shell, remember}}

IdleRun == mode = "run" /\ toolset = {shell}

Init ==
  /\ part \in Parts
  /\ ApprovalsInit /\ RunInit
  /\ part # "run" => IdleRun
  /\ part = "run" => config = lax

Next ==
  \/ part # "run" /\ UNCHANGED <<part, runvars>> /\ ApprovalsNext /\ Within'
  \/ part = "run" /\ RunNext /\ UNCHANGED <<part, apvars>>

\* RunFair, of the part that runs.
Spec == Init /\ [][Next]_agentvars /\ ApprovalsFair /\ WF_runvars(part = "run" /\ Loop)

\* Every run of a task and every turn of a conversation ends and is recorded,
\* whatever the model, the tools and the verifier answer, unless a call of a tool
\* never returns.
EveryRunEnds == part = "run" => RunEnds
=============================================================================
