------------------------------ MODULE Approvals ------------------------------
(***************************************************************************)
(* How an action that the security policy does not simply allow gets to    *)
(* run (tools/registry.go, tools/shell.go, tools/shell_grant.go,           *)
(* state/store_security_grants.go, state/store_blocked.go): agents ask,    *)
(* block and wait; operators approve at the command line or in the         *)
(* console; one-time grants in the state database carry the permission     *)
(* from one process to another.                                            *)
(*                                                                         *)
(* A statement on the database is atomic, an approval is several of them.  *)
(* A grant is bound to a digest of the action, the policy and the scope    *)
(* (host, principal and directory) of the agent that will run it.          *)
(***************************************************************************)
EXTENDS Naturals, FiniteSets

CONSTANTS
  Acts,           \* actions a model may ask for
  Shell,          \* the ones of them that are shell commands
  Settings,       \* controls of a security policy
  Effects,        \* [Acts -> SUBSET Settings], what an action touches
  Policies,       \* security policies the configuration may name
  Control,        \* [Policies -> [Settings -> Decisions]]
  Agents,         \* processes that run a model
  Chats,          \* agents whose console waits for an approval
  Terminals,      \* agents with a user at their terminal
  Scope,          \* [Agents \cup {Cli} -> host, principal and directory]
  Cli,            \* the operator at the command line
  Works,          \* identifiers of blocked work
  Nothing,        \* no action, policy, work or digest
  MaxApprovals,   \* bound: approvals of one digest
  MaxDeaths       \* bound: processes that die

\* Ordered by strictness.
Decisions == <<"allow", "review", "ask", "deny">>
Rank(d) == CHOOSE i \in 1..4 : Decisions[i] = d

ASSUME PolicyAssumption ==
  /\ Shell \subseteq Acts
  /\ Effects \in [Acts -> SUBSET Settings]
  /\ Control \in [Policies -> [Settings -> {"allow", "review", "ask", "deny"}]]
  /\ Chats \subseteq Agents /\ Terminals \subseteq Agents \ Chats
  /\ Cli \notin Agents
  /\ Nothing \notin Acts \cup Policies \cup Works
ASSUME ApprovalBounds == MaxApprovals \in Nat /\ MaxDeaths \in Nat

Scopes == {Scope[a] : a \in Agents \cup {Cli}}
Digests == Acts \X Policies \X Scopes
Approvers == Chats \cup {Cli}

VARIABLES
  config,         \* the policy of the configuration file
  policy,         \* per agent: the policy it has loaded
  at,             \* per agent: where it stands with its call
  act,            \* per agent: the action it wants
  remembered,     \* per agent: digests its user approved for the session
  grant,          \* per digest: whether security_action_grants has a usable row
  work,           \* per identifier: the row of blocked_work
  waiter,         \* per agent: the work its conversation waits for
  signal,         \* per agent: the content of the waiter's channel
  approval,       \* per approver: the approval it is giving
  issued,         \* history, per digest: grants saved
  prompted,       \* history, per digest: approvals at a terminal
  executed,       \* history, per digest: executions that needed a permission
  deaths

db       == <<grant, work>>
agent    == <<policy, at, act, remembered, waiter, signal>>
ledger   == <<issued, prompted, executed>>
apvars   == <<config, db, agent, approval, ledger, deaths>>

-----------------------------------------------------------------------------
\* Decisions and digests.

\* Variant: the mildest effect decides.
MildestDecision(x, p) ==
  Decisions[CHOOSE i \in {Rank(Control[p][s]) : s \in Effects[x]} \cup {4} :
              \A s \in Effects[x] : i <= Rank(Control[p][s])]

\* The strictest decision over the effects of the action.
Decision(x, p) ==
  Decisions[CHOOSE i \in {Rank(Control[p][s]) : s \in Effects[x]} \cup {1} :
              \A s \in Effects[x] : Rank(Control[p][s]) <= i]

DigestAt(x, p, scope) == <<x, p, scope>>
DigestOf(a) == DigestAt(act[a], policy[a], Scope[a])
NeedsApproval(d) == Decision(d[1], d[2]) \in {"ask", "review"}

ApprovalRow == [step : {"idle", "save", "list", "resolve", "resume"}, work : Works \cup {Nothing},
                digest : Digests \cup {Nothing}, todo : SUBSET Works]
NoApproval == [step |-> "idle", work |-> Nothing, digest |-> Nothing, todo |-> {}]
NoWork == [digest |-> Nothing, state |-> "none"]

MayApprove(d) == issued[d] + prompted[d] < MaxApprovals

ApprovalsInit ==
  /\ config \in Policies
  /\ policy = [a \in Agents |-> Nothing]
  /\ at = [a \in Agents |-> "off"]
  /\ act = [a \in Agents |-> Nothing]
  /\ remembered = [a \in Agents |-> {}]
  /\ grant = [d \in Digests |-> "none"]
  /\ work = [w \in Works |-> NoWork]
  /\ waiter = [a \in Agents |-> Nothing]
  /\ signal = [a \in Agents |-> FALSE]
  /\ approval = [p \in Approvers |-> NoApproval]
  /\ issued = [d \in Digests |-> 0]
  /\ prompted = [d \in Digests |-> 0]
  /\ executed = [d \in Digests |-> 0]
  /\ deaths = 0

Goes(a, place) == at' = [at EXCEPT ![a] = place]
CallOver(a) == Goes(a, "ready") /\ act' = [act EXCEPT ![a] = Nothing]

-----------------------------------------------------------------------------
\* An agent.

\* The policy is read once; an edit of the file concerns later processes.
StartAgent(a) ==
  /\ at[a] \in {"off", "blocked"}
  /\ Goes(a, "ready")
  /\ policy' = [policy EXCEPT ![a] = config]
  /\ remembered' = [remembered EXCEPT ![a] = {}]
  /\ act' = [act EXCEPT ![a] = Nothing]
  /\ UNCHANGED <<config, db, waiter, signal, approval, ledger, deaths>>

\* The model calls a tool.
ExecuteTool(a, x) ==
  /\ at[a] = "ready"
  /\ Goes(a, "authorize")
  /\ act' = [act EXCEPT ![a] = x]
  /\ UNCHANGED <<config, db, policy, remembered, waiter, signal, approval, ledger, deaths>>

\* A conversation that is told an address stores it by itself, by the same path.
CaptureEndpoint(a, x) == a \in Chats /\ x \notin Shell /\ ExecuteTool(a, x)

Authorizing(a) == at[a] = "authorize" /\ UNCHANGED <<config, approval, deaths>>

Denied(a) ==
  /\ Authorizing(a)
  /\ Decision(act[a], policy[a]) = "deny"
  /\ CallOver(a)
  /\ UNCHANGED <<db, policy, remembered, waiter, signal, ledger>>

Allowed(a) ==
  /\ Authorizing(a)
  /\ Decision(act[a], policy[a]) = "allow"
  /\ Goes(a, "execute")
  /\ UNCHANGED <<db, policy, act, remembered, waiter, signal, ledger>>

\* Variant: the use is not counted.
ConsumeAgain(a) ==
  /\ Authorizing(a)
  /\ NeedsApproval(DigestOf(a)) /\ grant[DigestOf(a)] = "live"
  /\ executed[DigestOf(a)] <= MaxApprovals
  /\ executed' = [executed EXCEPT ![DigestOf(a)] = @ + 1]
  /\ Goes(a, "execute")
  /\ UNCHANGED <<grant, work, policy, act, remembered, waiter, signal, issued, prompted>>

\* Spend the grant of exactly this digest, if it has neither been used nor expired.
ConsumeSecurityActionGrant(a) ==
  /\ Authorizing(a)
  /\ NeedsApproval(DigestOf(a)) /\ grant[DigestOf(a)] = "live"
  /\ grant' = [grant EXCEPT ![DigestOf(a)] = "none"]
  /\ executed' = [executed EXCEPT ![DigestOf(a)] = @ + 1]
  /\ Goes(a, "execute")
  /\ UNCHANGED <<work, policy, act, remembered, waiter, signal, issued, prompted>>

NotGranted(a) == NeedsApproval(DigestOf(a)) /\ grant[DigestOf(a)] # "live"

\* A shell command approved for the session, if the policy asks for it.
Remembers(a) ==
  /\ act[a] \in Shell
  /\ Decision(act[a], policy[a]) = "ask"
  /\ DigestOf(a) \in remembered[a]

ReuseApproval(a) ==
  /\ Authorizing(a)
  /\ NotGranted(a) /\ Remembers(a)
  /\ Goes(a, "execute")
  /\ UNCHANGED <<db, policy, act, remembered, waiter, signal, ledger>>

\* An adverse or failed review stops the action; a favourable one changes nothing.
ReviewRefuses(a) ==
  /\ Authorizing(a)
  /\ NotGranted(a) /\ ~Remembers(a)
  /\ Decision(act[a], policy[a]) = "review"
  /\ CallOver(a)
  /\ UNCHANGED <<db, policy, remembered, waiter, signal, ledger>>

\* The store cannot be asked for a grant.
LookupFails(a) ==
  /\ Authorizing(a)
  /\ NeedsApproval(DigestOf(a))
  /\ CallOver(a)
  /\ UNCHANGED <<db, policy, remembered, waiter, signal, ledger>>

AskHuman(a) ==
  /\ Authorizing(a)
  /\ NotGranted(a) /\ ~Remembers(a)
  /\ Goes(a, "asking")
  /\ UNCHANGED <<db, policy, act, remembered, waiter, signal, ledger>>

\* At a terminal: reject, approve once, or approve and remember.
UserAnswers(a) ==
  /\ at[a] = "asking" /\ a \in Terminals
  /\ \/ /\ CallOver(a)
        /\ UNCHANGED <<remembered, prompted, executed>>
     \/ /\ MayApprove(DigestOf(a))
        /\ Goes(a, "execute") /\ UNCHANGED act
        /\ prompted' = [prompted EXCEPT ![DigestOf(a)] = @ + 1]
        /\ executed' = [executed EXCEPT ![DigestOf(a)] = @ + 1]
        /\ \/ UNCHANGED remembered
           \/ /\ act[a] \in Shell /\ Decision(act[a], policy[a]) = "ask"
              /\ remembered' = [remembered EXCEPT ![a] = @ \cup {DigestOf(a)}]
  /\ UNCHANGED <<config, db, policy, waiter, signal, approval, issued, deaths>>

\* Elsewhere the call is stored as blocked work.  A console then waits for an
\* answer, a task or a scheduled job ends blocked.
PersistBlockedWork(a, w) ==
  /\ at[a] = "asking" /\ a \notin Terminals
  /\ work[w] = NoWork
  /\ work' = [work EXCEPT ![w] = [digest |-> DigestOf(a), state |-> "waiting"]]
  /\ waiter' = [waiter EXCEPT ![a] = w]
  /\ Goes(a, IF a \in Chats THEN "listening" ELSE "blocked")
  /\ UNCHANGED <<config, grant, policy, act, remembered, signal, approval, ledger, deaths>>

PersistFails(a) ==
  /\ at[a] = "asking" /\ a \notin Terminals
  /\ CallOver(a)
  /\ UNCHANGED <<config, db, policy, remembered, waiter, signal, approval, ledger, deaths>>

\* The waiter is registered before the console is told of the request.
AwaitApproval(a) ==
  /\ at[a] = "listening"
  /\ Goes(a, "waiting")
  /\ signal' = [signal EXCEPT ![a] = FALSE]
  /\ UNCHANGED <<config, db, policy, act, remembered, waiter, approval, ledger, deaths>>

\* Woken, the very same call is authorized again.
ApprovalArrives(a) ==
  /\ at[a] = "waiting" /\ signal[a]
  /\ Goes(a, "authorize")
  /\ signal' = [signal EXCEPT ![a] = FALSE]
  /\ waiter' = [waiter EXCEPT ![a] = Nothing]
  /\ UNCHANGED <<config, db, policy, act, remembered, approval, ledger, deaths>>

\* The user interrupts the turn.
InterruptWait(a) ==
  /\ at[a] = "waiting"
  /\ CallOver(a)
  /\ signal' = [signal EXCEPT ![a] = FALSE]
  /\ waiter' = [waiter EXCEPT ![a] = Nothing]
  /\ UNCHANGED <<config, db, policy, remembered, approval, ledger, deaths>>

RunAction(a) ==
  /\ at[a] = "execute"
  /\ CallOver(a)
  /\ UNCHANGED <<config, db, policy, remembered, waiter, signal, approval, ledger, deaths>>

AgentDies(a) ==
  /\ at[a] # "off" /\ deaths < MaxDeaths
  /\ Goes(a, "off")
  /\ waiter' = [waiter EXCEPT ![a] = Nothing]
  /\ signal' = [signal EXCEPT ![a] = FALSE]
  /\ remembered' = [remembered EXCEPT ![a] = {}]
  /\ approval' = [p \in Approvers |-> IF p = a THEN NoApproval ELSE approval[p]]
  /\ deaths' = deaths + 1
  /\ UNCHANGED <<config, db, policy, act, ledger>>

-----------------------------------------------------------------------------
\* An approval: at the command line for any blocked work or for a command, in a
\* console for the call its conversation waits for.

PolicyOf(p) == IF p = Cli THEN config ELSE policy[p]

\* The action is assessed again, under the current policy and for the scope in
\* which it blocked; the outcome must be what was reviewed.
Approvable(p, w) ==
  /\ work[w].state = "waiting"
  /\ Decision(work[w].digest[1], PolicyOf(p)) # "deny"
  /\ DigestAt(work[w].digest[1], PolicyOf(p), work[w].digest[3]) = work[w].digest

ApproveBlockedWork(p, w) ==
  /\ approval[p].step = "idle"
  /\ p # Cli => at[p] = "waiting" /\ waiter[p] = w
  /\ Approvable(p, w) /\ MayApprove(work[w].digest)
  /\ approval' = [approval EXCEPT ![p] =
       [step |-> "save", work |-> w, digest |-> work[w].digest, todo |-> {}]]
  /\ UNCHANGED <<config, db, agent, ledger, deaths>>

ApproveCommand(x) ==
  /\ approval[Cli].step = "idle"
  /\ x \in Shell /\ Decision(x, config) # "deny"
  /\ MayApprove(DigestAt(x, config, Scope[Cli]))
  /\ approval' = [approval EXCEPT ![Cli] =
       [step |-> "save", work |-> Nothing, digest |-> DigestAt(x, config, Scope[Cli]), todo |-> {}]]
  /\ UNCHANGED <<config, db, agent, ledger, deaths>>

\* Insert the grant; a second one for the same digest replaces the first.
SaveSecurityActionGrant(p) ==
  /\ approval[p].step = "save" /\ MayApprove(approval[p].digest)
  /\ grant' = [grant EXCEPT ![approval[p].digest] = "live"]
  /\ issued' = [issued EXCEPT ![approval[p].digest] = @ + 1]
  /\ approval' = [approval EXCEPT ![p].step = "list"]
  /\ UNCHANGED <<config, work, agent, prompted, executed, deaths>>

\* Every work that waits for the digest.
ListBlockedWork(p) ==
  /\ approval[p].step = "list"
  /\ approval' = [approval EXCEPT ![p].step = "resolve",
       ![p].todo = {w \in Works : work[w] = [digest |-> approval[p].digest, state |-> "waiting"]}]
  /\ UNCHANGED <<config, db, agent, ledger, deaths>>

ResolveBlockedWork(p, w) ==
  /\ approval[p].step = "resolve" /\ w \in approval[p].todo
  /\ work' = [work EXCEPT ![w].state = "running"]
  /\ approval' = [approval EXCEPT ![p].todo = @ \ {w}]
  /\ UNCHANGED <<config, grant, agent, ledger, deaths>>

ApprovalGiven(p) ==
  /\ approval[p].step = "resolve" /\ approval[p].todo = {}
  /\ approval' = [approval EXCEPT ![p] = IF p = Cli THEN NoApproval ELSE [@ EXCEPT !.step = "resume"]]
  /\ UNCHANGED <<config, db, agent, ledger, deaths>>

\* Variant: the console wakes a conversation only once.
ResumeNobody(p) ==
  /\ approval[p].step = "resume"
  /\ approval' = [approval EXCEPT ![p] = NoApproval]
  /\ UNCHANGED <<config, db, agent, ledger, deaths>>

\* Wake the conversation, unless it no longer waits or was woken already.
ResumeApproval(p) ==
  /\ approval[p].step = "resume"
  /\ approval' = [approval EXCEPT ![p] = NoApproval]
  /\ signal' = [signal EXCEPT ![p] = @ \/ (at[p] = "waiting" /\ waiter[p] = approval[p].work)]
  /\ UNCHANGED <<config, db, policy, at, act, remembered, waiter, ledger, deaths>>

ApproverDies ==
  /\ approval[Cli] # NoApproval /\ deaths < MaxDeaths
  /\ approval' = [approval EXCEPT ![Cli] = NoApproval]
  /\ deaths' = deaths + 1
  /\ UNCHANGED <<config, db, agent, ledger>>

-----------------------------------------------------------------------------
\* The world.

GrantExpires(d) ==
  /\ grant[d] = "live"
  /\ grant' = [grant EXCEPT ![d] = "none"]
  /\ UNCHANGED <<config, work, agent, approval, ledger, deaths>>

EditPolicy(p) ==
  /\ p # config /\ config' = p
  /\ UNCHANGED <<db, agent, approval, ledger, deaths>>

AgentStep(a) ==
  \/ StartAgent(a)
  \/ \E x \in Acts : ExecuteTool(a, x) \/ CaptureEndpoint(a, x)
  \/ Denied(a) \/ Allowed(a)
  \/ ConsumeSecurityActionGrant(a) \/ ReuseApproval(a)
  \/ LookupFails(a) \/ ReviewRefuses(a) \/ AskHuman(a) \/ UserAnswers(a)
  \/ \E w \in Works : PersistBlockedWork(a, w)
  \/ PersistFails(a)
  \/ AwaitApproval(a) \/ ApprovalArrives(a) \/ InterruptWait(a)
  \/ RunAction(a) \/ AgentDies(a)

ApproverStep(p) ==
  \/ \E w \in Works : ApproveBlockedWork(p, w) \/ ResolveBlockedWork(p, w)
  \/ SaveSecurityActionGrant(p) \/ ListBlockedWork(p)
  \/ ApprovalGiven(p) \/ ResumeApproval(p)

ApprovalsNext ==
  \/ \E a \in Agents : AgentStep(a)
  \/ \E p \in Approvers : ApproverStep(p)
  \/ \E x \in Acts : ApproveCommand(x)
  \/ ApproverDies
  \/ \E d \in Digests : GrantExpires(d)
  \/ \E p \in Policies : EditPolicy(p)

ApprovalsSpec == ApprovalsInit /\ [][ApprovalsNext]_apvars

\* A process that runs goes on with what it has begun: authorization is a few
\* statements, and the goroutines of a console are scheduled.
ApprovalsFair ==
  /\ \A a \in Agents : WF_apvars(ApprovalArrives(a))
  /\ \A p \in Approvers : WF_apvars(ResumeApproval(p) \/ ApprovalGiven(p) \/ ListBlockedWork(p)
                                    \/ \E w \in Works : ResolveBlockedWork(p, w))

-----------------------------------------------------------------------------
\* Properties.

\* Agents, approvers and rows are what the operations say they are.
ApprovalsTypeOK ==
  /\ config \in Policies
  /\ policy \in [Agents -> Policies \cup {Nothing}]
  /\ at \in [Agents -> {"off", "ready", "authorize", "asking", "execute", "listening", "waiting", "blocked"}]
  /\ act \in [Agents -> Acts \cup {Nothing}]
  /\ remembered \in [Agents -> SUBSET Digests]
  /\ grant \in [Digests -> {"none", "live"}]
  /\ work \in [Works -> [digest : Digests, state : {"waiting", "running"}] \cup {NoWork}]
  /\ waiter \in [Agents -> Works \cup {Nothing}]
  /\ signal \in [Agents -> BOOLEAN]
  /\ approval \in [Approvers -> ApprovalRow]
  /\ issued \in [Digests -> 0..MaxApprovals]
  /\ prompted \in [Digests -> 0..MaxApprovals]
  /\ executed \in [Digests -> Nat]
  /\ deaths \in 0..MaxDeaths

\* A human decision is worth one execution: whatever approvals are repeated,
\* replace each other, expire or outlive the process they were meant for, the
\* executions of an action that needed a permission never outnumber the
\* permissions given for it, and a grant that can still be spent is one that
\* was not (ConsumeSecurityActionGrant).  Not counted: a command the user told
\* the session to remember.
PermissionsAccounted ==
  \A d \in Digests :
    executed[d] + (IF grant[d] = "live" THEN 1 ELSE 0) <= issued[d] + prompted[d]

\* An action that its agent's policy denies is never run, whatever was granted
\* under another policy, for another scope or before.
DeniedNeverRuns ==
  \A a \in Agents :
    at[a] = "execute" => \A s \in Effects[act[a]] : Control[policy[a]][s] # "deny"

\* An approval given in a console for the call its conversation waits for wakes
\* the conversation in the end.
ConsoleApprovalResumes ==
  \A a \in Chats :
    (at[a] = "waiting" /\ approval[a].step = "list" /\ approval[a].work = waiter[a])
      ~> at[a] # "waiting"
=============================================================================
