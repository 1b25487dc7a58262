----------------------------- MODULE AgentProofs -----------------------------
(***************************************************************************)
(* What holds of Approvals and of AgentRun for any number of agents,       *)
(* actions, policies and blocked works, and for any limits and tools of a  *)
(* run.  The two have no variable in common.                               *)
(***************************************************************************)
EXTENDS Approvals, AgentRun, TLAPS

-----------------------------------------------------------------------------
\* Approvals: an agent at its call has an action and a policy, it asks a human
\* only for what its policy leaves to one, and what it executes its policy does
\* not deny.  An approval at work has a digest, and resolves work that exists.

AtCall == {"authorize", "asking", "execute", "listening", "waiting"}

AgentKnows(a) ==
  /\ at[a] # "off" => policy[a] \in Policies
  /\ at[a] \in AtCall => act[a] \in Acts
  /\ at[a] = "asking" => NeedsApproval(DigestOf(a))
  /\ at[a] = "execute" => Decision(act[a], policy[a]) # "deny"

ApproverKnows(p) ==
  /\ approval[p].step # "idle" => approval[p].digest \in Digests
  /\ \A w \in approval[p].todo : work[w] # NoWork

ApprovalsInv ==
  /\ ApprovalsTypeOK
  /\ \A a \in Agents : AgentKnows(a)
  /\ \A p \in Approvers : ApproverKnows(p)
  /\ PermissionsAccounted

-----------------------------------------------------------------------------
\* AgentRun: no call is outstanding when the model is asked or an answer is
\* judged, a verdict that satisfies is about the answer at hand and ends the run
\* at once, and nothing is recorded before the end.

Judged ==
  /\ calls = <<>> /\ answer # None
  /\ judged = answer /\ verdict # None

NotSatisfied == verdict = None \/ verdict.status # "satisfied"

RunInv ==
  /\ RunTypeOK
  /\ stage \in {"start", "model", "verify", "decide"} => calls = <<>>
  /\ stage = "tools" => calls # <<>>
  /\ stage = "verify" => answer # None
  /\ stage = "decide" => Judged
  /\ stage \in {"start", "model", "tools", "verify"} => NotSatisfied
  /\ stage = "start" => verdict = None
  /\ stage \in {"finish", "done"} =>
       IF stop = "satisfied" THEN Judged /\ verdict.status = "satisfied" ELSE NotSatisfied
  /\ IF stage = "done" THEN recorded = TaskStateForError /\ curated = CurateRunOutcome
     ELSE recorded = "none"

-----------------------------------------------------------------------------
\* AgentRun.

LEMMA EmptyTyped == \A S : <<>> \in Seq(S)
OBVIOUS

LEMMA AppendTyped ==
  ASSUME NEW S, NEW s \in Seq(S), NEW e \in S
  PROVE  Append(s, e) \in Seq(S)
OBVIOUS

\* The records of the calls that have been run.
CallRecord == [tool : Tools, outcome : {"ok", "error", "rejected"}]

LEMMA EmptyRunTyped == <<>> \in Seq(Tools) /\ <<>> \in Seq(CallRecord)
BY EmptyTyped

LEMMA RunInitInv == RunInit => RunInv
<1> SUFFICES ASSUME RunInit PROVE RunInv
  OBVIOUS
<1>1. toolset \subseteq Tools /\ turns \in 1..MaxTurns
  BY LoopAssumption DEF RunInit
<1>2. RunTypeOK
  <2>1. iter \in 0..MaxIterations /\ repairs \in 0..RepairLimit
    BY LoopAssumption DEF RunInit
  <2>2. calls \in Seq(Tools) /\ observed \in Seq(CallRecord)
    BY EmptyRunTyped DEF RunInit
  <2> QED
    BY <1>1, <2>1, <2>2 DEF RunInit, RunTypeOK, CallRecord
<1> QED
  BY <1>2 DEF RunInit, RunInv, NotSatisfied

LEMMA RunStepTyped == RunInv /\ [RunNext]_runvars => RunTypeOK'
<1> SUFFICES ASSUME RunInv, [RunNext]_runvars PROVE RunTypeOK'
  OBVIOUS
<1> USE LoopAssumption DEF RunInv, RunTypeOK, progress, outcomes, chatvars
<1>1. CASE BeginExecution
  BY <1>1 DEF BeginExecution, Finish
<1>2. CASE AnswerDirectly
  BY <1>2 DEF AnswerDirectly, Finish
<1>3. CASE IterationLimit
  BY <1>3 DEF IterationLimit, Finish, MayIterate
<1>4. CASE ModelFails
  BY <1>4 DEF ModelFails, Asking, MayIterate, Finish
<1>5. CASE ModelCallsTools
  BY <1>5 DEF ModelCallsTools, Asking, MayIterate
<1>6. CASE ModelAnswers
  BY <1>6 DEF ModelAnswers, Asking, MayIterate
<1>7. CASE RunToolCall
  BY <1>7 DEF RunToolCall, Finish
<1>8. CASE ToolCallBlocks
  <2>1. observed' \in Seq(CallRecord)
    <3> DEFINE call == [tool |-> Head(calls), outcome |-> "error"]
    <3>1. Head(calls) \in Tools
      BY <1>8 DEF ToolCallBlocks
    <3>2. call \in CallRecord /\ observed \in Seq(CallRecord)
      BY <3>1 DEF CallRecord
    <3>3. observed' \in {observed, Append(observed, call)}
      BY <1>8 DEF ToolCallBlocks
    <3> HIDE DEF call
    <3> QED
      BY <3>2, <3>3, AppendTyped
  <2> QED
    BY <1>8, <2>1 DEF ToolCallBlocks, Finish, CallRecord
<1>9. CASE CancelTurn
  BY <1>9 DEF CancelTurn
<1>10. CASE VerifierFails
  BY <1>10 DEF VerifierFails, Finish
<1>11. CASE VerifyCompletion
  BY <1>11 DEF VerifyCompletion, EnforceMemoryVerification, Verdicts, Kept
<1>12. CASE Accept
  BY <1>12 DEF Accept, Deciding, Finish
<1>13. CASE StopAtOnce
  BY <1>13 DEF StopAtOnce, Deciding, Finish
<1>14. CASE Repair
  BY <1>14 DEF Repair, Unsatisfied, Deciding, MayRepair, Finish
<1>15. CASE GiveUp
  BY <1>15 DEF GiveUp, Unsatisfied, Deciding, Finish, VerificationStopReason
<1>16. CASE RecordRun
  BY <1>16 DEF RecordRun, TaskStateForError, CurateRunOutcome
<1>17. CASE NextTurn
  <2>1. toolset' \subseteq Tools /\ turns' \in 1..MaxTurns
    BY <1>17 DEF NextTurn
  <2>2. iter' \in 0..MaxIterations /\ repairs' \in 0..RepairLimit
    BY <1>17 DEF NextTurn
  <2>3. calls' \in Seq(Tools) /\ observed' \in Seq(CallRecord)
    BY <1>17, EmptyRunTyped DEF NextTurn
  <2> QED
    BY <1>17, <2>1, <2>2, <2>3 DEF NextTurn, CallRecord
<1>18. CASE UNCHANGED runvars
  BY <1>18 DEF runvars
<1> QED
  BY <1>1, <1>2, <1>3, <1>4, <1>5, <1>6, <1>7, <1>8, <1>9, <1>10, <1>11, <1>12, <1>13, <1>14, <1>15, <1>16, <1>17, <1>18 DEF RunNext, Loop, Tool

LEMMA RunStepInv == RunInv /\ [RunNext]_runvars => RunInv'
<1> SUFFICES ASSUME RunInv, [RunNext]_runvars, RunTypeOK' PROVE RunInv'
  BY RunStepTyped
<1> USE NoneAssumption DEF RunInv, NotSatisfied, Judged, progress, outcomes, chatvars
<1>1. CASE BeginExecution
  BY <1>1 DEF BeginExecution, Finish
<1>2. CASE AnswerDirectly
  BY <1>2 DEF AnswerDirectly, Finish
<1>3. CASE IterationLimit
  BY <1>3 DEF IterationLimit, Finish, MayIterate
<1>4. CASE ModelFails
  BY <1>4 DEF ModelFails, Asking, MayIterate, Finish
<1>5. CASE ModelCallsTools
  BY <1>5 DEF ModelCallsTools, Asking, MayIterate
<1>6. CASE ModelAnswers
  BY <1>6 DEF ModelAnswers, Asking, MayIterate
<1>7. CASE RunToolCall
  BY <1>7 DEF RunToolCall, Finish
<1>8. CASE ToolCallBlocks
  BY <1>8 DEF ToolCallBlocks, Finish
<1>9. CASE CancelTurn
  BY <1>9 DEF CancelTurn
<1>10. CASE VerifierFails
  BY <1>10 DEF VerifierFails, Finish
<1>11. CASE VerifyCompletion
  BY <1>11 DEF VerifyCompletion, EnforceMemoryVerification, Verdicts, Kept
<1>12. CASE Accept
  BY <1>12 DEF Accept, Deciding, Finish
<1>13. CASE StopAtOnce
  BY <1>13 DEF StopAtOnce, Deciding, Finish
<1>14. CASE Repair
  BY <1>14 DEF Repair, Unsatisfied, Deciding, MayRepair, Finish
<1>15. CASE GiveUp
  BY <1>15 DEF GiveUp, Unsatisfied, Deciding, Finish, VerificationStopReason
<1>16. CASE RecordRun
  BY <1>16 DEF RecordRun, TaskStateForError, CurateRunOutcome
<1>17. CASE NextTurn
  BY <1>17 DEF NextTurn
<1>18. CASE UNCHANGED runvars
  BY <1>18 DEF runvars, TaskStateForError, CurateRunOutcome
<1> QED
  BY <1>1, <1>2, <1>3, <1>4, <1>5, <1>6, <1>7, <1>8, <1>9, <1>10, <1>11, <1>12, <1>13, <1>14, <1>15, <1>16, <1>17, <1>18 DEF RunNext, Loop, Tool

LEMMA RunInvariant == RunSpec => []RunInv
BY RunInitInv, RunStepInv, PTL DEF RunSpec

\* What a run keeps has its type; in particular neither the responses asked for nor
\* the repairs of an answer exceed their limits (agent.go, verification.go).
THEOREM RunTypeCorrect == RunSpec => []RunTypeOK
<1>1. RunInv => RunTypeOK
  BY DEF RunInv
<1> QED
  BY <1>1, RunInvariant, PTL

\* A run recorded as completed ended with an answer that the verifier was asked about
\* and was satisfied with, with no tool call outstanding; and memory is told of a
\* verified outcome for exactly these runs (agent.go, chat_session_runtime.go).
THEOREM CompletedRunsAreVerified == RunSpec => []CompletedIsVerified
<1>1. RunInv => CompletedIsVerified
  BY DEF RunInv, RunTypeOK, CompletedIsVerified, Judged, NotSatisfied, TaskStateForError, CurateRunOutcome
<1> QED
  BY <1>1, RunInvariant, PTL

-----------------------------------------------------------------------------
\* Approvals: the operators.

LEMMA RankOf ==
  /\ Rank("allow") = 1 /\ Rank("review") = 2 /\ Rank("ask") = 3 /\ Rank("deny") = 4
BY DEF Rank, Decisions

\* The strictest decision is deny if one of the effects is denied.
LEMMA StrictestDecides ==
  ASSUME NEW x \in Acts, NEW p \in Policies, Decision(x, p) # "deny"
  PROVE  \A s \in Effects[x] : Control[p][s] # "deny"
<1> DEFINE R == {Rank(Control[p][s]) : s \in Effects[x]} \cup {1}
           Top(i) == i \in R /\ \A s \in Effects[x] : Rank(Control[p][s]) <= i
           top == CHOOSE i \in R : \A s \in Effects[x] : Rank(Control[p][s]) <= i
<1>1. \A s \in Effects[x] : Control[p][s] \in {"allow", "review", "ask", "deny"}
  BY PolicyAssumption
<1>2. \A s \in Effects[x] : Rank(Control[p][s]) \in 1..4
  BY <1>1, RankOf
<1>3. R \subseteq 1..4
  BY <1>2
<1>4. \E i \in R : \A s \in Effects[x] : Rank(Control[p][s]) <= i
  <2>1. CASE 4 \in R
    BY <1>2, <2>1
  <2>2. CASE 4 \notin R /\ 3 \in R
    BY <1>2, <2>2
  <2>3. CASE 4 \notin R /\ 3 \notin R /\ 2 \in R
    BY <1>2, <2>3
  <2>4. CASE 4 \notin R /\ 3 \notin R /\ 2 \notin R
    BY <1>2, <2>4
  <2> QED
    BY <2>1, <2>2, <2>3, <2>4
<1>5. top \in 1..4 /\ \A s \in Effects[x] : Rank(Control[p][s]) <= top
  BY <1>3, <1>4
<1>6. Decision(x, p) = Decisions[top]
  BY DEF Decision
<1> HIDE DEF R, top
<1>7. top # 4
  BY <1>6 DEF Decisions
<1> QED
  BY <1>5, <1>7, RankOf

-----------------------------------------------------------------------------
\* Approvals: types.

\* The digest of a call is one.
LEMMA CallDigest ==
  ASSUME ApprovalsInv, NEW a \in Agents, at[a] \in AtCall
  PROVE  act[a] \in Acts /\ policy[a] \in Policies /\ DigestOf(a) \in Digests
<1>1. act[a] \in Acts /\ policy[a] \in Policies
  BY DEF ApprovalsInv, AgentKnows, AtCall
<1> QED
  BY <1>1 DEF DigestOf, DigestAt, Digests, Scopes

\* What becomes of the row of an approval.
LEMMA RowTyped ==
  /\ NoApproval \in ApprovalRow
  /\ \A r \in ApprovalRow, t \in {"idle", "save", "list", "resolve", "resume"}, T \in SUBSET Works :
       /\ [r EXCEPT !.step = t] \in ApprovalRow
       /\ [r EXCEPT !.todo = T] \in ApprovalRow
       /\ [r EXCEPT !.step = t, !.todo = T] \in ApprovalRow
BY DEF ApprovalRow, NoApproval

LEMMA AgentStepTyped ==
  ASSUME ApprovalsInv, NEW a \in Agents, AgentStep(a)
  PROVE  ApprovalsTypeOK'
<1> USE PolicyAssumption, ApprovalBounds
    DEF ApprovalsInv, ApprovalsTypeOK, AgentKnows, AtCall, db, agent, ledger, Goes, CallOver, Authorizing
<1>1. CASE StartAgent(a)
  BY <1>1 DEF StartAgent
<1>2. CASE Denied(a)
  BY <1>2 DEF Denied
<1>3. CASE Allowed(a)
  BY <1>3 DEF Allowed
<1>4. CASE ConsumeSecurityActionGrant(a)
  BY <1>4, CallDigest DEF ConsumeSecurityActionGrant
<1>5. CASE ReuseApproval(a)
  BY <1>5 DEF ReuseApproval
<1>6. CASE LookupFails(a)
  BY <1>6 DEF LookupFails
<1>7. CASE ReviewRefuses(a)
  BY <1>7 DEF ReviewRefuses
<1>8. CASE AskHuman(a)
  BY <1>8 DEF AskHuman
<1>9. CASE UserAnswers(a)
  <2>1. DigestOf(a) \in Digests
    BY <1>9, CallDigest DEF UserAnswers
  <2>2. prompted' \in [Digests -> 0..MaxApprovals]
    BY <1>9, <2>1 DEF UserAnswers, MayApprove
  <2>3. executed' \in [Digests -> Nat]
    <3>1. executed' = executed \/ executed' = [executed EXCEPT ![DigestOf(a)] = executed[DigestOf(a)] + 1]
      BY <1>9 DEF UserAnswers
    <3>2. executed[DigestOf(a)] + 1 \in Nat
      BY <2>1
    <3> QED
      BY <3>1, <3>2
  <2>4. remembered' \in [Agents -> SUBSET Digests]
    BY <1>9, <2>1 DEF UserAnswers
  <2> QED
    BY <1>9, <2>2, <2>3, <2>4 DEF UserAnswers
<1>10. CASE PersistFails(a)
  BY <1>10 DEF PersistFails
<1>11. CASE AwaitApproval(a)
  BY <1>11 DEF AwaitApproval
<1>12. CASE ApprovalArrives(a)
  BY <1>12 DEF ApprovalArrives
<1>13. CASE InterruptWait(a)
  BY <1>13 DEF InterruptWait
<1>14. CASE RunAction(a)
  BY <1>14 DEF RunAction
<1>15. CASE AgentDies(a)
  <2>1. approval' \in [Approvers -> ApprovalRow]
    BY <1>15, RowTyped DEF AgentDies
  <2>2. at' \in [Agents -> {"off", "ready", "authorize", "asking", "execute", "listening", "waiting", "blocked"}]
        /\ remembered' \in [Agents -> SUBSET Digests]
    BY <1>15 DEF AgentDies
  <2> QED
    BY <1>15, <2>1, <2>2 DEF AgentDies
<1>16. CASE \E x \in Acts : ExecuteTool(a, x) \/ CaptureEndpoint(a, x)
  <2>1. PICK x \in Acts : ExecuteTool(a, x)
    BY <1>16 DEF CaptureEndpoint
  <2> QED
    BY <2>1 DEF ExecuteTool
<1>17. CASE \E w \in Works : PersistBlockedWork(a, w)
  BY <1>17, CallDigest DEF PersistBlockedWork
<1> QED
  BY <1>1, <1>2, <1>3, <1>4, <1>5, <1>6, <1>7, <1>8, <1>9, <1>10, <1>11, <1>12, <1>13, <1>14, <1>15, <1>16, <1>17 DEF AgentStep

LEMMA OtherStepTyped ==
  ASSUME ApprovalsInv,
         \/ \E p \in Approvers : ApproverStep(p)
         \/ \E x \in Acts : ApproveCommand(x)
         \/ ApproverDies
         \/ \E d \in Digests : GrantExpires(d)
         \/ \E p \in Policies : EditPolicy(p)
  PROVE  ApprovalsTypeOK'
<1> USE PolicyAssumption, ApprovalBounds
    DEF ApprovalsInv, ApprovalsTypeOK, ApproverKnows, db, agent, ledger, NoWork
<1>1. CASE \E p \in Approvers, w \in Works : ApproveBlockedWork(p, w)
  <2>1. PICK p \in Approvers, w \in Works : ApproveBlockedWork(p, w)
    BY <1>1
  <2>2. [step |-> "save", work |-> w, digest |-> work[w].digest, todo |-> {}] \in ApprovalRow
    BY <2>1 DEF ApproveBlockedWork, Approvable, ApprovalRow
  <2> QED
    BY <2>1, <2>2 DEF ApproveBlockedWork
<1>2. CASE \E p \in Approvers, w \in Works : ResolveBlockedWork(p, w)
  <2>1. PICK p \in Approvers, w \in Works : ResolveBlockedWork(p, w)
    BY <1>2
  <2>2. work[w] # NoWork /\ work[w] \in [digest : Digests, state : {"waiting", "running"}]
    BY <2>1 DEF ResolveBlockedWork
  <2>3. [work[w] EXCEPT !.state = "running"] \in [digest : Digests, state : {"waiting", "running"}]
    BY <2>2
  <2>4. [approval[p] EXCEPT !.todo = approval[p].todo \ {w}] \in ApprovalRow
    <3>1. approval[p] \in ApprovalRow /\ approval[p].todo \subseteq Works
      BY DEF ApprovalRow
    <3>2. approval[p].todo \ {w} \subseteq Works
      BY <3>1
    <3> QED
      BY <3>1, <3>2, RowTyped
  <2> QED
    BY <2>1, <2>3, <2>4 DEF ResolveBlockedWork
<1>3. CASE \E p \in Approvers : SaveSecurityActionGrant(p)
  <2>1. PICK p \in Approvers : SaveSecurityActionGrant(p)
    BY <1>3
  <2>2. approval[p].digest \in Digests
    BY <2>1 DEF SaveSecurityActionGrant
  <2>3. [approval[p] EXCEPT !.step = "list"] \in ApprovalRow
    BY RowTyped
  <2>4. approval' \in [Approvers -> ApprovalRow]
    BY <2>1, <2>3 DEF SaveSecurityActionGrant
  <2>5. issued'  \in [Digests -> 0..MaxApprovals]
    BY <2>1, <2>2 DEF SaveSecurityActionGrant, MayApprove
  <2> QED
    BY <2>1, <2>4, <2>5 DEF SaveSecurityActionGrant
<1>4. CASE \E p \in Approvers : ListBlockedWork(p)
  <2>1. PICK p \in Approvers : ListBlockedWork(p)
    BY <1>4
  <2> DEFINE listed == {w \in Works : work[w] = [digest |-> approval[p].digest, state |-> "waiting"]}
             row == [approval[p] EXCEPT !.step = "resolve", !.todo = listed]
  <2>2. row \in ApprovalRow
    <3>1. listed \in SUBSET Works /\ approval[p] \in ApprovalRow
      OBVIOUS
    <3> HIDE DEF listed
    <3> QED
      BY <3>1, RowTyped
  <2>3. approval' = [approval EXCEPT ![p] = row]
    BY <2>1 DEF ListBlockedWork
  <2> HIDE DEF row
  <2>4. approval' \in [Approvers -> ApprovalRow]
    BY <2>2, <2>3
  <2> QED
    BY <2>1, <2>4 DEF ListBlockedWork
<1>5. CASE \E p \in Approvers : ApprovalGiven(p)
  <2>1. PICK p \in Approvers : ApprovalGiven(p)
    BY <1>5
  <2>2. [approval[p] EXCEPT !.step = "resume"] \in ApprovalRow
    BY RowTyped
  <2>3. approval' \in [Approvers -> ApprovalRow]
    BY <2>1, <2>2, RowTyped DEF ApprovalGiven
  <2> QED
    BY <2>1, <2>3 DEF ApprovalGiven
<1>6. CASE \E p \in Approvers : ResumeApproval(p)
  <2>1. PICK p \in Approvers : ResumeApproval(p)
    BY <1>6
  <2>2. approval' \in [Approvers -> ApprovalRow]
    BY <2>1, RowTyped DEF ResumeApproval
  <2>3. signal' \in [Agents -> BOOLEAN]
    BY <2>1 DEF ResumeApproval
  <2> QED
    BY <2>1, <2>2, <2>3 DEF ResumeApproval
<1>7. CASE \E x \in Acts : ApproveCommand(x)
  <2>1. PICK x \in Acts : ApproveCommand(x)
    BY <1>7
  <2>2. DigestAt(x, config, Scope[Cli]) \in Digests
    BY DEF DigestAt, Digests, Scopes
  <2>3. [step |-> "save", work |-> Nothing, digest |-> DigestAt(x, config, Scope[Cli]), todo |-> {}]
          \in ApprovalRow
    BY <2>2 DEF ApprovalRow
  <2> QED
    BY <2>1, <2>3 DEF ApproveCommand
<1>8. CASE ApproverDies
  <2>1. approval' \in [Approvers -> ApprovalRow]
    BY <1>8, RowTyped DEF ApproverDies
  <2> QED
    BY <1>8, <2>1 DEF ApproverDies
<1>9. CASE \E d \in Digests : GrantExpires(d)
  BY <1>9 DEF GrantExpires
<1>10. CASE \E p \in Policies : EditPolicy(p)
  BY <1>10 DEF EditPolicy
<1> QED
  BY <1>1, <1>2, <1>3, <1>4, <1>5, <1>6, <1>7, <1>8, <1>9, <1>10 DEF ApproverStep

-----------------------------------------------------------------------------
\* Approvals: the inductive invariant.

\* A step of an agent leaves the others, and the rows that approvals rely on, alone.
LEMMA AgentStepFrame ==
  ASSUME ApprovalsInv, NEW a \in Agents, AgentStep(a)
  PROVE  /\ \A b \in Agents \ {a} : at'[b] = at[b] /\ act'[b] = act[b] /\ policy'[b] = policy[b]
         /\ \A w \in Works : work[w] # NoWork => work'[w] = work[w]
         /\ \A p \in Approvers : approval'[p] \in {approval[p], NoApproval}
<1> USE DEF ApprovalsInv, ApprovalsTypeOK, db, agent, ledger, Goes, CallOver, Authorizing
<1>1. CASE StartAgent(a)
  BY <1>1 DEF StartAgent
<1>2. CASE Denied(a)
  BY <1>2 DEF Denied
<1>3. CASE Allowed(a)
  BY <1>3 DEF Allowed
<1>4. CASE ConsumeSecurityActionGrant(a)
  BY <1>4 DEF ConsumeSecurityActionGrant
<1>5. CASE ReuseApproval(a)
  BY <1>5 DEF ReuseApproval
<1>6. CASE LookupFails(a)
  BY <1>6 DEF LookupFails
<1>7. CASE ReviewRefuses(a)
  BY <1>7 DEF ReviewRefuses
<1>8. CASE AskHuman(a)
  BY <1>8 DEF AskHuman
<1>9. CASE UserAnswers(a)
  BY <1>9 DEF UserAnswers
<1>10. CASE PersistFails(a)
  BY <1>10 DEF PersistFails
<1>11. CASE AwaitApproval(a)
  BY <1>11 DEF AwaitApproval
<1>12. CASE ApprovalArrives(a)
  BY <1>12 DEF ApprovalArrives
<1>13. CASE InterruptWait(a)
  BY <1>13 DEF InterruptWait
<1>14. CASE RunAction(a)
  BY <1>14 DEF RunAction
<1>15. CASE AgentDies(a)
  BY <1>15 DEF AgentDies
<1>16. CASE \E x \in Acts : ExecuteTool(a, x) \/ CaptureEndpoint(a, x)
  BY <1>16 DEF ExecuteTool, CaptureEndpoint
<1>17. CASE \E w \in Works : PersistBlockedWork(a, w)
  BY <1>17 DEF PersistBlockedWork
<1> QED
  BY <1>1, <1>2, <1>3, <1>4, <1>5, <1>6, <1>7, <1>8, <1>9, <1>10, <1>11, <1>12, <1>13, <1>14, <1>15, <1>16, <1>17 DEF AgentStep

\* What the agent itself may rely on after its step.
LEMMA AgentStepKnows ==
  ASSUME ApprovalsInv, NEW a \in Agents, AgentStep(a)
  PROVE  AgentKnows(a)'
<1> USE CallDigest
    DEF ApprovalsInv, ApprovalsTypeOK, AgentKnows, AtCall, db, agent, ledger, Goes, CallOver, Authorizing,
        NotGranted, NeedsApproval, DigestOf, DigestAt
<1>1. CASE StartAgent(a)
  BY <1>1 DEF StartAgent
<1>2. CASE Denied(a)
  BY <1>2 DEF Denied
<1>3. CASE Allowed(a)
  BY <1>3 DEF Allowed
<1>4. CASE ConsumeSecurityActionGrant(a)
  BY <1>4 DEF ConsumeSecurityActionGrant
<1>5. CASE ReuseApproval(a)
  BY <1>5 DEF ReuseApproval
<1>6. CASE LookupFails(a)
  BY <1>6 DEF LookupFails
<1>7. CASE ReviewRefuses(a)
  BY <1>7 DEF ReviewRefuses
<1>8. CASE AskHuman(a)
  BY <1>8 DEF AskHuman
<1>9. CASE UserAnswers(a)
  BY <1>9 DEF UserAnswers
<1>10. CASE PersistFails(a)
  BY <1>10 DEF PersistFails
<1>11. CASE AwaitApproval(a)
  BY <1>11 DEF AwaitApproval
<1>12. CASE ApprovalArrives(a)
  BY <1>12 DEF ApprovalArrives
<1>13. CASE InterruptWait(a)
  BY <1>13 DEF InterruptWait
<1>14. CASE RunAction(a)
  BY <1>14 DEF RunAction
<1>15. CASE AgentDies(a)
  BY <1>15 DEF AgentDies
<1>16. CASE \E x \in Acts : ExecuteTool(a, x) \/ CaptureEndpoint(a, x)
  BY <1>16 DEF ExecuteTool, CaptureEndpoint
<1>17. CASE \E w \in Works : PersistBlockedWork(a, w)
  BY <1>17 DEF PersistBlockedWork
<1> QED
  BY <1>1, <1>2, <1>3, <1>4, <1>5, <1>6, <1>7, <1>8, <1>9, <1>10, <1>11, <1>12, <1>13, <1>14, <1>15, <1>16, <1>17 DEF AgentStep

\* Every step of an agent pays for the executions it counts.
LEMMA AgentStepAccounted ==
  ASSUME ApprovalsInv, NEW a \in Agents, AgentStep(a)
  PROVE  PermissionsAccounted'
<1> USE DEF ApprovalsInv, ApprovalsTypeOK, PermissionsAccounted, db, agent, ledger, Authorizing, AtCall
<1>1. CASE StartAgent(a)
  BY <1>1 DEF StartAgent
<1>2. CASE Denied(a)
  BY <1>2 DEF Denied
<1>3. CASE Allowed(a)
  BY <1>3 DEF Allowed
<1>4. CASE ConsumeSecurityActionGrant(a)
  BY <1>4, CallDigest DEF ConsumeSecurityActionGrant
<1>5. CASE ReuseApproval(a)
  BY <1>5 DEF ReuseApproval
<1>6. CASE LookupFails(a)
  BY <1>6 DEF LookupFails
<1>7. CASE ReviewRefuses(a)
  BY <1>7 DEF ReviewRefuses
<1>8. CASE AskHuman(a)
  BY <1>8 DEF AskHuman
<1>9. CASE UserAnswers(a)
  BY <1>9, CallDigest DEF UserAnswers
<1>10. CASE PersistFails(a)
  BY <1>10 DEF PersistFails
<1>11. CASE AwaitApproval(a)
  BY <1>11 DEF AwaitApproval
<1>12. CASE ApprovalArrives(a)
  BY <1>12 DEF ApprovalArrives
<1>13. CASE InterruptWait(a)
  BY <1>13 DEF InterruptWait
<1>14. CASE RunAction(a)
  BY <1>14 DEF RunAction
<1>15. CASE AgentDies(a)
  BY <1>15 DEF AgentDies
<1>16. CASE \E x \in Acts : ExecuteTool(a, x) \/ CaptureEndpoint(a, x)
  BY <1>16 DEF ExecuteTool, CaptureEndpoint
<1>17. CASE \E w \in Works : PersistBlockedWork(a, w)
  BY <1>17 DEF PersistBlockedWork
<1> QED
  BY <1>1, <1>2, <1>3, <1>4, <1>5, <1>6, <1>7, <1>8, <1>9, <1>10, <1>11, <1>12, <1>13, <1>14, <1>15, <1>16, <1>17 DEF AgentStep

\* An approval keeps to its digest and to works that exist.
LEMMA OtherStepKnows ==
  ASSUME ApprovalsInv,
         \/ \E p \in Approvers : ApproverStep(p)
         \/ \E x \in Acts : ApproveCommand(x)
         \/ ApproverDies
         \/ \E d \in Digests : GrantExpires(d)
         \/ \E p \in Policies : EditPolicy(p)
  PROVE  \A p \in Approvers : ApproverKnows(p)'
<1> SUFFICES ASSUME NEW q \in Approvers PROVE ApproverKnows(q)'
  OBVIOUS
<1> USE DEF ApprovalsInv, ApprovalsTypeOK, ApproverKnows, db, agent, ledger, NoApproval, NoWork, ApprovalRow
<1>1. CASE \E p \in Approvers, w \in Works : ApproveBlockedWork(p, w)
  BY <1>1 DEF ApproveBlockedWork, Approvable
<1>2. CASE \E p \in Approvers, w \in Works : ResolveBlockedWork(p, w)
  BY <1>2 DEF ResolveBlockedWork
<1>3. CASE \E p \in Approvers : SaveSecurityActionGrant(p)
  BY <1>3 DEF SaveSecurityActionGrant, MayApprove
<1>4. CASE \E p \in Approvers : ListBlockedWork(p)
  BY <1>4 DEF ListBlockedWork
<1>5. CASE \E p \in Approvers : ApprovalGiven(p)
  BY <1>5 DEF ApprovalGiven
<1>6. CASE \E p \in Approvers : ResumeApproval(p)
  BY <1>6 DEF ResumeApproval
<1>7. CASE \E x \in Acts : ApproveCommand(x)
  BY <1>7 DEF ApproveCommand, Digests, DigestAt, Scopes
<1>8. CASE ApproverDies
  BY <1>8 DEF ApproverDies
<1>9. CASE \E d \in Digests : GrantExpires(d)
  BY <1>9 DEF GrantExpires
<1>10. CASE \E p \in Policies : EditPolicy(p)
  BY <1>10 DEF EditPolicy
<1> QED
  BY <1>1, <1>2, <1>3, <1>4, <1>5, <1>6, <1>7, <1>8, <1>9, <1>10 DEF ApproverStep

\* An approval pays for the grant it saves.
LEMMA OtherStepAccounted ==
  ASSUME ApprovalsInv,
         \/ \E p \in Approvers : ApproverStep(p)
         \/ \E x \in Acts : ApproveCommand(x)
         \/ ApproverDies
         \/ \E d \in Digests : GrantExpires(d)
         \/ \E p \in Policies : EditPolicy(p)
  PROVE  PermissionsAccounted'
<1> USE DEF ApprovalsInv, ApprovalsTypeOK, PermissionsAccounted, ApproverKnows, db, agent, ledger
<1>1. CASE \E p \in Approvers, w \in Works : ApproveBlockedWork(p, w)
  BY <1>1 DEF ApproveBlockedWork, Approvable
<1>2. CASE \E p \in Approvers, w \in Works : ResolveBlockedWork(p, w)
  BY <1>2 DEF ResolveBlockedWork
<1>3. CASE \E p \in Approvers : SaveSecurityActionGrant(p)
  BY <1>3 DEF SaveSecurityActionGrant, MayApprove
<1>4. CASE \E p \in Approvers : ListBlockedWork(p)
  BY <1>4 DEF ListBlockedWork
<1>5. CASE \E p \in Approvers : ApprovalGiven(p)
  BY <1>5 DEF ApprovalGiven
<1>6. CASE \E p \in Approvers : ResumeApproval(p)
  BY <1>6 DEF ResumeApproval
<1>7. CASE \E x \in Acts : ApproveCommand(x)
  BY <1>7 DEF ApproveCommand, Digests, DigestAt, Scopes
<1>8. CASE ApproverDies
  BY <1>8 DEF ApproverDies
<1>9. CASE \E d \in Digests : GrantExpires(d)
  BY <1>9 DEF GrantExpires
<1>10. CASE \E p \in Policies : EditPolicy(p)
  BY <1>10 DEF EditPolicy
<1> QED
  BY <1>1, <1>2, <1>3, <1>4, <1>5, <1>6, <1>7, <1>8, <1>9, <1>10 DEF ApproverStep

\* Approvals and the world leave what agents know alone.
LEMMA OtherStepFrame ==
  ASSUME ApprovalsInv,
         \/ \E p \in Approvers : ApproverStep(p)
         \/ \E x \in Acts : ApproveCommand(x)
         \/ ApproverDies
         \/ \E d \in Digests : GrantExpires(d)
         \/ \E p \in Policies : EditPolicy(p)
  PROVE  UNCHANGED <<at, act, policy>>
<1>1. ASSUME NEW p \in Approvers, ApproverStep(p)
      PROVE  UNCHANGED <<at, act, policy>>
  BY <1>1 DEF ApproverStep, ApproveBlockedWork, ResolveBlockedWork, SaveSecurityActionGrant, ListBlockedWork,
              ApprovalGiven, ResumeApproval, agent
<1> QED
  BY <1>1 DEF ApproveCommand, ApproverDies, GrantExpires, EditPolicy, agent

LEMMA ApprovalsInitInv == ApprovalsInit => ApprovalsInv
<1> SUFFICES ASSUME ApprovalsInit PROVE ApprovalsInv
  OBVIOUS
<1>1. ApprovalsTypeOK
  <2>1. approval \in [Approvers -> ApprovalRow]
    BY RowTyped DEF ApprovalsInit
  <2>2. issued \in [Digests -> 0..MaxApprovals] /\ prompted \in [Digests -> 0..MaxApprovals]
        /\ executed \in [Digests -> Nat] /\ deaths \in 0..MaxDeaths
    BY ApprovalBounds DEF ApprovalsInit
  <2> QED
    BY <2>1, <2>2 DEF ApprovalsInit, ApprovalsTypeOK
<1>2. \A a \in Agents : AgentKnows(a)
  BY DEF ApprovalsInit, AgentKnows, AtCall
<1>3. \A p \in Approvers : ApproverKnows(p)
  BY DEF ApprovalsInit, ApproverKnows, NoApproval
<1>4. PermissionsAccounted
  BY DEF ApprovalsInit, PermissionsAccounted
<1> QED
  BY <1>1, <1>2, <1>3, <1>4 DEF ApprovalsInv

LEMMA ApprovalsStepInv == ApprovalsInv /\ [ApprovalsNext]_apvars => ApprovalsInv'
<1> SUFFICES ASSUME ApprovalsInv, [ApprovalsNext]_apvars PROVE ApprovalsInv'
  OBVIOUS
<1>1. ASSUME NEW a \in Agents, AgentStep(a)
      PROVE  ApprovalsInv'
  <2>1. \A b \in Agents \ {a} : AgentKnows(b)'
    BY <1>1, AgentStepFrame DEF ApprovalsInv, AgentKnows, DigestOf
  <2>2. \A p \in Approvers : ApproverKnows(p)'
    BY <1>1, AgentStepFrame DEF ApprovalsInv, ApprovalsTypeOK, ApprovalRow, ApproverKnows, NoApproval
  <2> QED
    BY <1>1, <2>1, <2>2, AgentStepKnows, AgentStepTyped, AgentStepAccounted DEF ApprovalsInv
<1>2. CASE \/ \E p \in Approvers : ApproverStep(p)
           \/ \E x \in Acts : ApproveCommand(x)
           \/ ApproverDies
           \/ \E d \in Digests : GrantExpires(d)
           \/ \E p \in Policies : EditPolicy(p)
  <2>1. \A a \in Agents : AgentKnows(a)'
    BY <1>2, OtherStepFrame DEF ApprovalsInv, AgentKnows, DigestOf
  <2> QED
    BY <1>2, <2>1, OtherStepKnows, OtherStepTyped, OtherStepAccounted DEF ApprovalsInv
<1>3. CASE UNCHANGED apvars
  BY <1>3 DEF apvars, db, agent, ledger, ApprovalsInv, ApprovalsTypeOK, AgentKnows, ApproverKnows, DigestOf,
              PermissionsAccounted
<1> QED
  BY <1>1, <1>2, <1>3 DEF ApprovalsNext

LEMMA ApprovalsInvariant == ApprovalsSpec => []ApprovalsInv
BY ApprovalsInitInv, ApprovalsStepInv, PTL DEF ApprovalsSpec

\* Agents, approvals, grants and blocked works keep their types: a digest that is
\* granted or blocked is that of an action under a policy and for a scope that exist.
THEOREM ApprovalsTypeCorrect == ApprovalsSpec => []ApprovalsTypeOK
<1>1. ApprovalsInv => ApprovalsTypeOK
  BY DEF ApprovalsInv
<1> QED
  BY <1>1, ApprovalsInvariant, PTL

\* Executions that needed a permission never outnumber the permissions given, however
\* many agents and approvers there are, and whoever dies between two statements
\* (store_security_grants.go, tools/registry.go).
THEOREM PermissionsAreAccounted == ApprovalsSpec => []PermissionsAccounted
<1>1. ApprovalsInv => PermissionsAccounted
  BY DEF ApprovalsInv
<1> QED
  BY <1>1, ApprovalsInvariant, PTL

\* What an agent executes has no effect that its policy denies, whatever was granted
\* before or under another policy (tools/registry.go, tools/shell.go).
THEOREM DeniedIsNeverRun == ApprovalsSpec => []DeniedNeverRuns
<1>1. ApprovalsInv => DeniedNeverRuns
  BY StrictestDecides DEF ApprovalsInv, AgentKnows, AtCall, DeniedNeverRuns
<1> QED
  BY <1>1, ApprovalsInvariant, PTL
=============================================================================
