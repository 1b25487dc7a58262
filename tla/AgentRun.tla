------------------------------ MODULE AgentRun ------------------------------
(***************************************************************************)
(* One run of a task (agent/agent.go Run and runExecutionPhase,            *)
(* agent/verification.go) and the turns of a conversation                  *)
(* (agent/chat_session_runtime.go), which share the loop: ask the model,   *)
(* run the tools it calls, have a final answer verified, and repair an     *)
(* answer that does not satisfy the verifier, within limits.               *)
(*                                                                         *)
(* A response of the model is the answer, or the calls it makes in order.  *)
(* A verdict is a status with the tools that the missing work names.       *)
(* Whether a call is permitted is the business of Approvals; here it ends  *)
(* well, in error, rejected for good, or in want of an approval.           *)
(***************************************************************************)
EXTENDS Naturals, Sequences, FiniteSets

CONSTANTS
  Tools,          \* tools that can be advertised
  MemoryTools,    \* the ones that write memory
  Toolsets,       \* sets of tools a classification may select
  Answers,        \* texts of a final answer
  MaxIterations,  \* responses asked for in one run or turn
  RepairLimit,    \* repairs allowed in one run or turn
  MaxToolCalls,   \* bound: calls in one response
  MaxTurns,       \* bound: turns of the conversation
  None            \* no answer, fingerprint or verdict

ASSUME LoopAssumption ==
  /\ MemoryTools \subseteq Tools
  /\ Toolsets \subseteq SUBSET Tools /\ Toolsets # {}
  /\ MaxIterations \in Nat \ {0} /\ RepairLimit \in Nat
  /\ MaxToolCalls \in Nat \ {0} /\ MaxTurns \in Nat \ {0}

Verdicts == [status : {"satisfied", "unsatisfied"}, missing : SUBSET Tools]
\* What is kept of a verdict; "final" when nothing but memory was missing.
Kept == [status : {"satisfied", "unsatisfied", "final"}, missing : SUBSET Tools]
ASSUME NoneAssumption == None \notin Answers /\ None \notin Kept
Unparsed == [status |-> "unsatisfied", missing |-> {}]

VARIABLES
  mode,           \* "run" or "chat": a task, or a conversation of many turns
  stage,          \* where the run or turn stands
  iter,           \* responses asked for so far
  repairs,        \* repairs begun
  repaired,       \* fingerprint of the last answer that was repaired
  toolset,        \* tools advertised
  calls,          \* calls of the last response that have not been run
  observed,       \* calls run so far: tool and outcome
  refreshed,      \* whether memory was read again after trouble
  answer,         \* the last final answer
  verdict,        \* the last verdict
  judged,         \* the answer it was about
  stop,           \* why the run stopped
  recorded,       \* the run in the history: its task state
  curated,        \* what memory learned from: "no", "verified", "unverified"
  captured,       \* chat: the turn's message was an address, and is stored
  canceled,       \* chat: the turn's context is canceled
  turns

progress == <<iter, repairs, repaired, observed, refreshed>>
outcomes == <<answer, verdict, judged, stop, recorded, curated>>
chatvars == <<captured, canceled, turns>>
runvars  == <<mode, stage, toolset, calls, progress, outcomes, chatvars>>

-----------------------------------------------------------------------------

RunInit ==
  /\ mode \in {"run", "chat"}
  /\ stage = "start" /\ toolset \in Toolsets
  /\ iter = 0 /\ repairs = 0 /\ repaired = None
  /\ calls = <<>> /\ observed = <<>> /\ refreshed = FALSE
  /\ answer = None /\ verdict = None /\ judged = None
  /\ stop = "none" /\ recorded = "none" /\ curated = "no"
  /\ captured = FALSE /\ canceled = FALSE /\ turns = 1

Finish(why) == stage' = "finish" /\ stop' = why

\* The target is resolved, memory is read and the model's provider is found; any
\* of them may fail.
BeginExecution ==
  /\ stage = "start"
  /\ \/ /\ stage' = "model"
        /\ captured' \in {FALSE, mode = "chat"}
        /\ toolset' = IF captured' THEN toolset \ MemoryTools ELSE toolset
        /\ UNCHANGED stop
     \/ Finish("failed") /\ UNCHANGED <<captured, toolset>>
  /\ UNCHANGED <<mode, calls, progress, answer, verdict, judged, recorded, curated, canceled, turns>>

\* The turn ends without the model: an address that was declared and stored, a
\* question back for the address of the target, or an address that cannot be stored.
AnswerDirectly ==
  /\ stage = "start" /\ mode = "chat"
  /\ \E why \in {"declared", "clarify", "failed"} : Finish(why)
  /\ UNCHANGED <<mode, toolset, calls, progress, answer, verdict, judged, recorded, curated,
                 captured, canceled, turns>>

\* A further response may be asked for.
MayIterate == iter < MaxIterations

\* Variant: nobody notices that the rounds are used up.
LimitMissed == FALSE /\ UNCHANGED runvars

IterationLimit ==
  /\ stage = "model" /\ ~MayIterate
  /\ Finish("exceeded")
  /\ UNCHANGED <<mode, toolset, calls, progress, answer, verdict, judged, recorded, curated, chatvars>>

Asking == stage = "model" /\ MayIterate /\ iter' = iter + 1 /\ UNCHANGED mode

ModelFails ==
  /\ Asking
  /\ Finish("failed")
  /\ UNCHANGED <<toolset, calls, repairs, repaired, observed, refreshed,
                 answer, verdict, judged, recorded, curated, chatvars>>

ModelCallsTools ==
  /\ Asking
  /\ \E n \in 1..MaxToolCalls : calls' \in [1..n -> toolset]
  /\ stage' = "tools"
  /\ UNCHANGED <<toolset, repairs, repaired, observed, refreshed, outcomes, captured, canceled, turns>>

\* The answer is judged before it is given.
ModelAnswers ==
  /\ Asking
  /\ answer' \in Answers
  /\ stage' = "verify"
  /\ UNCHANGED <<toolset, calls, repairs, repaired, observed, refreshed,
                 verdict, judged, stop, recorded, curated, chatvars>>

-----------------------------------------------------------------------------
\* Tools.

Failures(t) == Cardinality({i \in 1..Len(observed) : observed[i].tool = t /\ observed[i].outcome # "ok"})

\* One call: it succeeds, fails, or is rejected by policy or precondition.  Memory
\* is read again once, after a rejection or a tool's second failure.  A turn whose
\* context was canceled ends after the call at hand.
RunToolCall ==
  /\ stage = "tools"
  /\ \E outcome \in {"ok", "error", "rejected"} :
       /\ observed' = Append(observed, [tool |-> Head(calls), outcome |-> outcome])
       /\ refreshed' = (refreshed \/ outcome = "rejected"
                          \/ (outcome = "error" /\ Failures(Head(calls)) >= 1))
  /\ calls' = Tail(calls)
  /\ \/ canceled /\ Finish("failed")
     \/ /\ ~canceled
        /\ stage' = IF Tail(calls) = <<>> THEN "model" ELSE "tools"
        /\ UNCHANGED stop
  /\ UNCHANGED <<mode, toolset, iter, repairs, repaired, answer, verdict, judged, recorded, curated,
                 captured, canceled, turns>>

\* A call wants an approval that nobody is there to give: the work is stored and the
\* run ends blocked, or the store fails and the run with it.  The conversation of a
\* console waits instead.
ToolCallBlocks ==
  /\ stage = "tools"
  /\ \/ /\ mode = "run" /\ Finish("blocked")
        /\ observed' = Append(observed, [tool |-> Head(calls), outcome |-> "error"])
     \/ mode = "chat" /\ Finish("blocked") /\ UNCHANGED observed
     \/ Finish("failed") /\ UNCHANGED observed
  /\ UNCHANGED <<mode, toolset, calls, iter, repairs, repaired, refreshed,
                 answer, verdict, judged, recorded, curated, chatvars>>

\* The user interrupts the turn while a tool runs or waits for an approval.
CancelTurn ==
  /\ mode = "chat" /\ stage = "tools" /\ ~canceled
  /\ canceled' = TRUE
  /\ UNCHANGED <<mode, stage, toolset, calls, progress, outcomes, captured, turns>>

-----------------------------------------------------------------------------
\* Verification and repair.

VerifierFails ==
  /\ stage = "verify"
  /\ Finish("failed")
  /\ verdict' = None /\ judged' = answer
  /\ UNCHANGED <<mode, toolset, calls, progress, answer, recorded, curated, chatvars>>

\* What the verifier says of memory that the runtime has stored is dropped.
EnforceMemoryVerification(v) ==
  IF ~captured \/ v.missing \cap MemoryTools = {} THEN v
  ELSE [status |-> IF v.missing \subseteq MemoryTools THEN "final" ELSE v.status,
        missing |-> v.missing \ MemoryTools]

\* A reply that cannot be parsed is an uncertain one.
ParseVerification(v) == v \in Verdicts \cup {Unparsed}

VerifyCompletion ==
  /\ stage = "verify"
  /\ \E v \in Verdicts : ParseVerification(v) /\ verdict' = EnforceMemoryVerification(v)
  /\ judged' = answer
  /\ stage' = "decide"
  /\ UNCHANGED <<mode, toolset, calls, progress, answer, stop, recorded, curated, chatvars>>

\* The missing work needs a tool whose last call was rejected for good.
RequiredPrerequisiteRejected ==
  \E i \in 1..Len(observed) :
    /\ observed[i].outcome = "rejected" /\ observed[i].tool \in verdict.missing
    /\ \A j \in (i + 1)..Len(observed) : observed[j].tool # observed[i].tool

RequiredCapabilityUnavailable(tools) == ~(verdict.missing \subseteq tools)
RepairFingerprint == <<answer, toolset, Len(observed), verdict>>
NoProgress == repaired # None /\ repaired = RepairFingerprint

MayRepair == repairs < RepairLimit /\ iter < MaxIterations /\ ~NoProgress

VerificationStopReason ==
  IF NoProgress THEN "no_progress"
  ELSE IF RepairLimit > 0 /\ repairs >= RepairLimit THEN "repair_limit" ELSE "iteration_limit"

Deciding ==
  /\ stage = "decide"
  /\ UNCHANGED <<mode, calls, iter, observed, refreshed, answer, verdict, judged, recorded, curated,
                 captured, canceled, turns>>

Accept ==
  /\ Deciding /\ verdict.status = "satisfied"
  /\ Finish("satisfied")
  /\ UNCHANGED <<toolset, repairs, repaired>>

\* Only memory was missing, and memory is settled; or a tool that is needed was rejected.
StopAtOnce ==
  /\ Deciding /\ verdict.status # "satisfied"
  /\ \/ verdict.status = "final" /\ Finish("no_progress")
     \/ verdict.status # "final" /\ RequiredPrerequisiteRejected /\ Finish("capability")
  /\ UNCHANGED <<toolset, repairs, repaired>>

Unsatisfied ==
  Deciding /\ verdict.status = "unsatisfied" /\ ~RequiredPrerequisiteRejected

\* The task is classified again with the repair in view; the tools it selects must
\* include the ones that are missing.
Repair ==
  /\ Unsatisfied /\ MayRepair
  /\ repairs' = repairs + 1
  /\ \E tools \in Toolsets :
       \/ /\ RequiredCapabilityUnavailable(tools)
          /\ Finish("capability")
          /\ UNCHANGED <<toolset, repaired>>
       \/ /\ ~RequiredCapabilityUnavailable(tools)
          /\ stage' = "model" /\ toolset' = tools
          /\ repaired' = RepairFingerprint
          /\ UNCHANGED stop

GiveUp ==
  /\ Unsatisfied /\ ~MayRepair
  /\ Finish(VerificationStopReason)
  /\ UNCHANGED <<toolset, repairs, repaired>>

-----------------------------------------------------------------------------
\* The end of a run or turn.

\* Variant: running out of rounds is no error.
TaskStateLenient ==
  CASE stop \in {"satisfied", "declared", "exceeded"} -> "completed"
    [] stop \in {"blocked", "clarify"} -> "blocked"
    [] stop \in {"capability", "no_progress", "repair_limit", "iteration_limit"} -> "incomplete"
    [] OTHER -> "failed"

TaskStateForError ==
  CASE stop \in {"satisfied", "declared"} -> "completed"
    [] stop \in {"blocked", "clarify"} -> "blocked"
    [] stop \in {"capability", "no_progress", "repair_limit", "iteration_limit"} -> "incomplete"
    [] OTHER -> "failed"

\* Memory learns from every run but a blocked one, and is told whether it was verified.
CurateRunOutcome ==
  IF stop = "blocked" THEN "no"
  ELSE IF stop = "declared" \/ (verdict # None /\ verdict.status = "satisfied") THEN "verified"
  ELSE "unverified"

\* Memory learns first, the record is written last.
RecordRun ==
  /\ stage = "finish"
  /\ stage' = "done"
  /\ curated' = CurateRunOutcome
  /\ recorded' = TaskStateForError
  /\ UNCHANGED <<mode, toolset, calls, progress, answer, verdict, judged, stop, chatvars>>

\* The next turn of the conversation.
NextTurn ==
  /\ stage = "done" /\ mode = "chat" /\ turns < MaxTurns
  /\ turns' = turns + 1
  /\ stage' = "start" /\ toolset' \in Toolsets
  /\ iter' = 0 /\ repairs' = 0 /\ repaired' = None
  /\ calls' = <<>> /\ observed' = <<>> /\ refreshed' = FALSE
  /\ answer' = None /\ verdict' = None /\ judged' = None
  /\ stop' = "none" /\ recorded' = "none" /\ curated' = "no"
  /\ captured' = FALSE /\ canceled' = FALSE
  /\ UNCHANGED mode

\* The loop's own steps; those it waits for are a tool's, or the user's.
Loop ==
  \/ BeginExecution \/ AnswerDirectly \/ IterationLimit
  \/ ModelFails \/ ModelCallsTools \/ ModelAnswers
  \/ VerifierFails \/ VerifyCompletion
  \/ Accept \/ StopAtOnce \/ Repair \/ GiveUp
  \/ RecordRun
Tool == RunToolCall \/ ToolCallBlocks

RunNext == Loop \/ Tool \/ CancelTurn \/ NextTurn

RunSpec == RunInit /\ [][RunNext]_runvars

\* The loop goes on, and what it asks a model is answered or times out.  No call of
\* a tool need return: one of a console may wait for an approval that nobody gives
\* (chat_session_runtime.go:149-154), and a shell command waits for whoever holds its
\* output, its time limit passed or not (shell.go:823-832).
RunFair == WF_runvars(Loop)

-----------------------------------------------------------------------------
\* Properties.

\* What a run keeps has the shape its steps give it.
RunTypeOK ==
  /\ mode \in {"run", "chat"}
  /\ stage \in {"start", "model", "tools", "verify", "decide", "finish", "done"}
  /\ iter \in 0..MaxIterations /\ repairs \in 0..RepairLimit /\ turns \in 1..MaxTurns
  /\ toolset \subseteq Tools /\ calls \in Seq(Tools)
  /\ observed \in Seq([tool : Tools, outcome : {"ok", "error", "rejected"}])
  /\ answer \in Answers \cup {None} /\ judged \in Answers \cup {None}
  /\ verdict \in Kept \cup {None}
  /\ recorded \in {"none", "completed", "blocked", "incomplete", "failed"}
  /\ curated \in {"no", "verified", "unverified"}
  /\ refreshed \in BOOLEAN /\ captured \in BOOLEAN /\ canceled \in BOOLEAN

\* A run that is recorded as completed ended with an answer, no tool was called
\* after it, and that very answer satisfied the verifier (or the turn was one the
\* runtime answers itself): a verdict on an earlier answer, an answer the verifier
\* could not be asked about and an exhausted loop never complete a task.  Memory
\* learns of a verified outcome from these runs and from no other.
CompletedIsVerified ==
  /\ recorded = "completed" /\ stop # "declared" =>
       /\ calls = <<>> /\ answer # None
       /\ judged = answer /\ verdict.status = "satisfied"
  /\ recorded # "none" => (curated = "verified" <=> recorded = "completed")

\* Every run and every turn ends and is recorded, unless a call of a tool never
\* returns: no sequence of answers, verdicts and repairs keeps the loop going.
RunEnds == stage = "start" ~> (stage = "done" \/ [](stage = "tools"))
=============================================================================
