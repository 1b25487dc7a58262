------------------------------- MODULE ChatTab -------------------------------
(***************************************************************************)
(* The console's chat (internal/tui/tab_chat.go, chat_activity.go,         *)
(* chat_approval_dialog.go, cmd/tui.go): a single-threaded tab that        *)
(* answers keys and messages, and the goroutines whose results arrive as   *)
(* messages: the start of a session, one turn of its conversation, the     *)
(* reader of the event channel, an approval.  Messages of different        *)
(* goroutines arrive in any order.                                         *)
(***************************************************************************)
EXTENDS Naturals, Sequences, SequencesExt, FiniteSets, FiniteSetsExt

CONSTANTS
  Capacity,       \* places of the event channel (128 in the code)
  MaxChats,       \* bound: conversations
  Plans           \* bound: per turn, counted over all conversations, the commands a model
                  \* would run (calls), and the approvals asked (works)

ASSUME ChatAssumption ==
  /\ Capacity \in Nat \ {0}
  /\ MaxChats \in Nat \ {0}
  /\ Plans \subseteq [calls : Seq(Seq(STRING)), works : Nat]

VARIABLES
  tab,            \* the fields of chatTab
  shown,          \* its toolCalls
  channel,        \* per conversation: the event channel
  readers,        \* waitChatEventCmd goroutines
  talk,           \* per conversation: its runtime
  approving,      \* approveBlockedWorkCmd goroutines
  mail,           \* results on their way to Update
  work,           \* the approvals asked so far
  plan            \* the plan of this behaviour

chatVars == <<tab, shown, channel, readers, talk, approving, mail, work, plan>>
world == <<channel, readers, talk, approving, mail, work>>

Chats == 1..MaxChats
NoWork == 0
NoCall == 0
Unheld == [type |-> "none"]
NoDialog == [work |-> NoWork, dismissed |-> FALSE]

Quiescent == [at |-> "idle", turn |-> 0, call |-> NoCall, command |-> "none", work |-> NoWork,
              outcomes |-> <<>>, cancelled |-> FALSE, signal |-> FALSE, closed |-> FALSE]

NewChatTab ==
  [session |-> 0, chat |-> 1, starting |-> FALSE, running |-> FALSE, stopping |-> FALSE,
   prompt |-> FALSE, turn |-> 0, wait |-> FALSE, approval |-> NoDialog, inFlight |-> FALSE,
   answer |-> NoWork, focus |-> "live"]

ChatInit ==
  /\ tab = NewChatTab
  /\ shown = <<>>
  /\ channel = [c \in Chats |-> <<>>]
  /\ readers = <<>>
  /\ talk = [c \in Chats |-> Quiescent]
  /\ approving = {}
  /\ mail = {}
  /\ work = <<>>
  /\ plan \in Plans

-----------------------------------------------------------------------------
\* The observer: events are dropped when the renderer is behind, except those
\* that take the place of the oldest one.

Lasting == {"verify", "approval"}

\* Variant: every event is dropped alike.
DropsAll(ch, e) == IF Len(ch) < Capacity THEN Append(ch, e) ELSE ch

Observe(ch, e) ==
  IF Len(ch) < Capacity THEN Append(ch, e)
  ELSE IF e.type \in Lasting THEN Append(Tail(ch), e) ELSE ch

Event(type, c, call, command, w, ok) ==
  [type |-> type, chat |-> c, turn |-> talk[c].turn, call |-> call, command |-> command,
   work |-> w, ok |-> ok]

Emit(c, e) == channel' = [channel EXCEPT ![c] = Observe(@, e)]

-----------------------------------------------------------------------------
\* One turn of a conversation.

Goroutine(c) == UNCHANGED <<tab, shown, readers, approving>>

Asks(c, call, command) ==
  /\ Len(work) < plan.works
  /\ work' = Append(work, [chat |-> c, turn |-> talk[c].turn, call |-> call])
  /\ Emit(c, Event("approval", c, call, command, Len(work) + 1, FALSE))
  /\ talk' = [talk EXCEPT ![c].at = "waiting", ![c].work = Len(work) + 1, ![c].signal = FALSE]

\* A direct declaration of an address is stored first; the write may need an
\* approval, which is asked without the context of a tool call.
CaptureAsks(c) ==
  /\ talk[c].at = "begin"
  /\ Asks(c, NoCall, "none")
  /\ Goroutine(c) /\ UNCHANGED mail

\* The next call the model makes, if it makes one.
StartCall(c) ==
  LET call == Len(talk[c].outcomes) + 1
      script == plan.calls[c + talk[c].turn - 1]
  IN /\ talk[c].at \in {"begin", "thinking"} /\ call \in DOMAIN script
     /\ talk' = [talk EXCEPT ![c].at = "call", ![c].call = call, ![c].command = script[call]]
     /\ Emit(c, Event("started", c, call, "none", NoWork, TRUE))
     /\ Goroutine(c) /\ UNCHANGED <<mail, work>>

CallAsks(c) ==
  /\ talk[c].at = "call"
  /\ Asks(c, talk[c].call, talk[c].command)
  /\ Goroutine(c) /\ UNCHANGED mail

\* The waiter was signalled: the same call is made again.
ApprovalResumes(c) ==
  /\ talk[c].at = "waiting" /\ talk[c].signal
  /\ talk' = [talk EXCEPT ![c].at = IF talk[c].call = NoCall THEN "thinking" ELSE "call",
                          ![c].work = NoWork, ![c].signal = FALSE]
  /\ Goroutine(c) /\ UNCHANGED <<channel, mail, work>>

RunCommand(c) ==
  /\ talk[c].at = "call"
  /\ talk' = [talk EXCEPT ![c].at = "running"]
  /\ Emit(c, Event("command", c, talk[c].call, talk[c].command, NoWork, TRUE))
  /\ Goroutine(c) /\ UNCHANGED <<mail, work>>

\* Variant: the wait does not watch the context.
Undisturbed(c) == FALSE

\* awaitApproval returns because the context is done.
WaitCanceled(c) == talk[c].at = "waiting" /\ talk[c].cancelled

FinishCall(c, ok) ==
  /\ talk[c].at = "running" \/ (WaitCanceled(c) /\ talk[c].call # NoCall /\ ~ok)
  /\ talk' = [talk EXCEPT ![c].at = "thinking", ![c].work = NoWork, ![c].call = NoCall,
                          ![c].outcomes = Append(@, [command |-> talk[c].command, ok |-> ok])]
  /\ Emit(c, Event("finished", c, talk[c].call, "none", NoWork, ok))
  /\ Goroutine(c) /\ UNCHANGED <<mail, work>>

\* Turn returns: completed and verified, failed, in want of a target, or
\* canceled.  The tab treats them alike, but for the words.
TurnEnds(c, verified) ==
  /\ \/ talk[c].at = "begin" /\ ~verified
     \/ talk[c].at = "thinking"
     \/ WaitCanceled(c) /\ talk[c].call = NoCall /\ ~verified
  /\ IF verified THEN Emit(c, Event("verify", c, NoCall, "none", NoWork, TRUE)) ELSE UNCHANGED channel
  /\ talk' = [talk EXCEPT ![c] = [Quiescent EXCEPT !.turn = talk[c].turn, !.closed = talk[c].closed]]
  /\ mail' = mail \cup {[type |-> "done", outcomes |-> talk[c].outcomes]}
  /\ Goroutine(c) /\ UNCHANGED work

TurnStep(c) ==
  \/ CaptureAsks(c) \/ StartCall(c) \/ CallAsks(c) \/ ApprovalResumes(c) \/ RunCommand(c)
  \/ \E ok \in BOOLEAN : FinishCall(c, ok) \/ TurnEnds(c, ok)

-----------------------------------------------------------------------------
\* The other goroutines.

ReaderTakes(i) ==
  /\ readers[i].held = Unheld /\ channel[readers[i].chat] # <<>>
  /\ readers' = [readers EXCEPT ![i].held = Head(channel[readers[i].chat])]
  /\ channel' = [channel EXCEPT ![readers[i].chat] = Tail(@)]
  /\ UNCHANGED <<tab, shown, talk, approving, mail, work>>

\* The stop channel of the reader's turn was closed; select may still prefer an event.
ReaderStops(i) ==
  /\ readers[i].held = Unheld
  /\ ~tab.wait \/ <<tab.chat, tab.turn>> # <<readers[i].chat, readers[i].turn>>
  /\ readers' = RemoveAt(readers, i)
  /\ UNCHANGED <<tab, shown, channel, talk, approving, mail, work>>

Answers(a, ok) ==
  /\ approving' = approving \ {a}
  /\ mail' = mail \cup {[type |-> "answer", work |-> a.work, ok |-> ok]}

\* Refused by a closed session, or by the store.
ApprovalFails(a) ==
  /\ a.step = "save"
  /\ Answers(a, FALSE)
  /\ UNCHANGED <<tab, shown, channel, readers, talk, work>>

GrantSaved(a) ==
  /\ a.step = "save" /\ ~talk[a.chat].closed
  /\ approving' = (approving \ {a}) \cup {[a EXCEPT !.step = "resume"]}
  /\ UNCHANGED <<tab, shown, channel, readers, talk, mail, work>>

ResumesTurn(a) ==
  /\ a.step = "resume"
  /\ LET waits == talk[a.chat].at = "waiting" /\ talk[a.chat].work = a.work /\ ~talk[a.chat].signal IN
     /\ Answers(a, waits)
     /\ talk' = [talk EXCEPT ![a.chat].signal = @ \/ waits]
  /\ UNCHANGED <<tab, shown, channel, readers, work>>

ApprovalStep(a) == ApprovalFails(a) \/ GrantSaved(a) \/ ResumesTurn(a)

-----------------------------------------------------------------------------
\* What a message does to the tab t and the tool calls it lists.

\* Uncorrelated events are not rendered.
Correlated(t, e) == t.turn > 0 /\ e.chat = t.chat /\ e.turn = t.turn

StatusAfter(e) ==
  CASE e.type = "approval" -> "APPROVAL REQUIRED"
    [] e.type = "finished" -> IF e.ok THEN "SUCCEEDED" ELSE "FAILED"
    [] OTHER -> "RUNNING"

Entry(t, e) == [turn |-> t.turn, call |-> e.call, command |-> "none", status |-> "RUNNING", from |-> {}]

\* An event without the name of a call is not rendered either.
ApplyRuntimeEvent(s, e) ==
  IF ~Correlated(s.tab, e) \/ e.type = "verify" \/ e.call = NoCall THEN s
  ELSE LET known == {i \in DOMAIN s.shown : s.shown[i].call = e.call /\ s.shown[i].turn = s.tab.turn}
           items == IF known = {} THEN Append(s.shown, Entry(s.tab, e)) ELSE s.shown
           at == IF known = {} THEN Len(items) ELSE Min(known)
       IN [tab |-> IF e.type = "approval"
                   THEN [s.tab EXCEPT !.approval = [work |-> e.work, dismissed |-> FALSE]] ELSE s.tab,
           shown |-> [items EXCEPT ![at].status = StatusAfter(e),
                                   ![at].command = IF e.command = "none" THEN @ ELSE e.command,
                                   ![at].from = @ \cup {<<e.chat, e.turn>>}]]

\* An outcome is written to the last listed call that ran the command, to the
\* last one that is not finished or has no command yet, or to a new one.
ReconcileOutcome(s, o) ==
  LET mine == {i \in DOMAIN s.shown \ s.claimed : s.shown[i].turn = s.turn}
      same == {i \in mine : s.shown[i].command = o.command}
      open == {i \in mine : s.shown[i].status = "RUNNING" \/ s.shown[i].command = "none"}
      found == IF same # {} THEN same ELSE open
      items == IF found = {} THEN Append(s.shown, [turn |-> s.turn, call |-> NoCall, command |-> o.command,
                                                   status |-> "", from |-> {}]) ELSE s.shown
      at == IF found = {} THEN Len(items) ELSE Max(found)
  IN [s EXCEPT !.claimed = @ \cup {at},
               !.shown = [items EXCEPT ![at].status = IF o.ok THEN "SUCCEEDED" ELSE "FAILED",
                                       ![at].command = IF @ = "none" THEN o.command ELSE @]]

ReconcileToolOutcomes(items, turn, outcomes) ==
  FoldLeft(ReconcileOutcome, [shown |-> items, turn |-> turn, claimed |-> {}], outcomes).shown

MayBegin(t) == t.chat + t.turn <= Len(plan.calls)

\* A turn of the session t has begins.
BeginTurn(t) ==
  /\ tab' = [t EXCEPT !.turn = @ + 1, !.answer = NoWork, !.wait = TRUE, !.running = TRUE,
                      !.stopping = FALSE]
  /\ channel' = [channel EXCEPT ![t.chat] = <<>>]
  /\ talk' = [talk EXCEPT ![t.session] = [Quiescent EXCEPT !.at = "begin", !.turn = t.turn + 1]]
  /\ readers' = Append(readers, [chat |-> t.chat, turn |-> t.turn + 1, held |-> Unheld])
  /\ UNCHANGED <<shown, approving, mail, work>>

DeliverEvent(i) ==
  /\ readers[i].held # Unheld
  /\ LET s == ApplyRuntimeEvent([tab |-> tab, shown |-> shown], readers[i].held) IN
     tab' = s.tab /\ shown' = s.shown
  /\ readers' = IF tab.running
                THEN [readers EXCEPT ![i] = [chat |-> tab.chat, turn |-> tab.turn, held |-> Unheld]]
                ELSE RemoveAt(readers, i)
  /\ UNCHANGED <<channel, talk, approving, mail, work>>

\* The events still in the channel are applied, then the result; whatever the
\* result of a console's turn, the approval it asked for is gone.
DeliverDone(m) ==
  /\ m \in mail /\ m.type = "done"
  /\ LET s == FoldLeft(ApplyRuntimeEvent, [tab |-> tab, shown |-> shown], channel[tab.chat]) IN
     /\ tab' = [s.tab EXCEPT !.wait = FALSE, !.running = FALSE, !.stopping = FALSE,
                             !.approval = NoDialog, !.inFlight = FALSE]
     /\ shown' = ReconcileToolOutcomes(s.shown, tab.turn, m.outcomes)
  /\ channel' = [channel EXCEPT ![tab.chat] = <<>>]
  /\ mail' = mail \ {m}
  /\ UNCHANGED <<readers, talk, approving, work>>

\* The answer to an approval that is no longer awaited is ignored.
DeliverAnswer(m) ==
  /\ m \in mail /\ m.type = "answer"
  /\ tab' = IF m.work \notin {tab.answer, tab.approval.work} THEN tab
            ELSE [tab EXCEPT !.answer = NoWork, !.inFlight = FALSE,
                             !.approval = IF m.ok THEN NoDialog ELSE @]
  /\ mail' = mail \ {m}
  /\ UNCHANGED <<shown, channel, readers, talk, approving, work>>

\* A failed start gives the prompt back to the composer.
SessionFails ==
  /\ tab.starting
  /\ tab' = [tab EXCEPT !.starting = FALSE, !.prompt = FALSE]
  /\ UNCHANGED <<shown, world>>

\* The first prompt waited for the session.
SessionReady ==
  /\ tab.starting
  /\ LET t == [tab EXCEPT !.starting = FALSE, !.session = tab.chat, !.prompt = FALSE] IN
     IF tab.prompt THEN MayBegin(t) /\ BeginTurn(t)
     ELSE tab' = t /\ UNCHANGED <<shown, world>>

-----------------------------------------------------------------------------
\* The keys of the live view.

\* Activity keeps the keys to itself, and so does the history; where the cursor
\* is in the live view is left out.
DialogOpen == tab.approval.work # NoWork /\ ~tab.approval.dismissed /\ tab.focus = "live"
Becomes(t) == tab' = t /\ UNCHANGED <<shown, world>>

Interrupt ==
  /\ tab.running
  /\ tab' = [tab EXCEPT !.stopping = TRUE]
  /\ talk' = [talk EXCEPT ![tab.session].cancelled = TRUE]
  /\ UNCHANGED <<shown, channel, readers, approving, mail, work>>

OpenActivity == ~DialogOpen /\ tab.focus = "live" /\ Becomes([tab EXCEPT !.focus = "activity"])
BackToLive == tab.focus # "live" /\ Becomes([tab EXCEPT !.focus = "live"])

DismissDialog == DialogOpen /\ ~tab.inFlight /\ Becomes([tab EXCEPT !.approval.dismissed = TRUE])
ReopenDialog ==
  /\ ~DialogOpen /\ tab.focus = "live" /\ tab.approval # NoDialog /\ ~tab.inFlight
  /\ Becomes([tab EXCEPT !.approval.dismissed = FALSE])

ApproveDialog ==
  /\ DialogOpen /\ ~tab.inFlight
  /\ tab' = [tab EXCEPT !.inFlight = TRUE, !.answer = tab.approval.work]
  /\ approving' = approving \cup {[chat |-> tab.session, work |-> tab.approval.work, step |-> "save"]}
  /\ UNCHANGED <<shown, channel, readers, talk, mail, work>>

\* Enter, with something in the composer.
Sends == ~DialogOpen /\ tab.focus = "live" /\ ~tab.running /\ ~tab.starting

SendPrompt ==
  /\ Sends /\ MayBegin(tab)
  /\ IF tab.session = 0 THEN Becomes([tab EXCEPT !.starting = TRUE, !.prompt = TRUE])
     ELSE BeginTurn(tab)

\* /tools needs a session; the other commands only print.
SendTools ==
  /\ Sends /\ tab.session = 0
  /\ Becomes([tab EXCEPT !.starting = TRUE])

\* Variant: the approval of the retired conversation stays.
KeepsApproval == [NewChatTab EXCEPT !.chat = tab.chat + 1, !.starting = TRUE,
                                    !.approval = tab.approval]

FreshTab == [NewChatTab EXCEPT !.chat = tab.chat + 1, !.starting = TRUE]

\* /new: the old conversation is closed, its channel drained and replaced.
StartFreshSession ==
  /\ Sends /\ tab.chat < MaxChats
  /\ tab' = FreshTab
  /\ shown' = <<>>
  /\ channel' = [channel EXCEPT ![tab.chat] = <<>>]
  /\ talk' = [talk EXCEPT ![tab.chat].closed = tab.session # 0]
  /\ UNCHANGED <<readers, approving, mail, work>>

UserStep ==
  \/ Interrupt \/ OpenActivity \/ BackToLive
  \/ DismissDialog \/ ReopenDialog \/ ApproveDialog \/ SendPrompt \/ SendTools \/ StartFreshSession

ChatNext ==
  /\ \/ UserStep
     \/ \E m \in mail : DeliverDone(m) \/ DeliverAnswer(m)
     \/ SessionFails
     \/ SessionReady
     \/ \E c \in Chats : TurnStep(c)
     \/ \E i \in DOMAIN readers : ReaderTakes(i) \/ ReaderStops(i) \/ DeliverEvent(i)
     \/ \E a \in approving : ApprovalStep(a)
  /\ UNCHANGED plan

ChatSpec == ChatInit /\ [][ChatNext]_chatVars

\* A canceled context ends what its turn is doing, and Bubble Tea delivers: the
\* second conjunct is the weak fairness of DeliverDone, which a result enables
\* until it is delivered.
ChatFair ==
  /\ \A c \in Chats : WF_chatVars(talk[c].cancelled /\ TurnStep(c) /\ UNCHANGED plan)
  /\ []<>(\A m \in mail : m.type # "done")

-----------------------------------------------------------------------------
\* Properties.

\* No message is on its way.
Quiet == mail = {} /\ approving = {} /\ \A c \in Chats : channel[c] = <<>>
           /\ \A i \in DOMAIN readers : readers[i].held = Unheld

Waits(c) == talk[c].at = "waiting" /\ ~talk[c].cancelled /\ ~talk[c].signal
First(w) == \A v \in DOMAIN work : v # w => <<work[v].chat, work[v].turn>> # <<work[w].chat, work[w].turn>>

\* A tool call that stops for an approval, the first of its turn, is put before
\* the user however full the event channel was: once every message has arrived,
\* the tab has the dialog of exactly that work (Observe, applyRuntimeEvent).
FirstWaitIsShown ==
  \A c \in Chats :
    Quiet /\ Waits(c) /\ work[talk[c].work].call # NoCall /\ First(talk[c].work)
      => tab.approval.work = talk[c].work

\* Nothing of another conversation or turn is shown: neither /new nor a message of
\* the conversation that was left brings back its approval, and events that were
\* still in a reader's hand when their turn ended change no listed tool call
\* (startFreshSession, applyRuntimeEvent, chatApprovalDoneMsg).
ShownIsCurrent ==
  /\ tab.approval.work # NoWork => work[tab.approval.work].chat = tab.chat
  /\ \A i \in DOMAIN shown : shown[i].from \subseteq {<<tab.chat, shown[i].turn>>}

\* An interrupted turn stops, also one that waits for an approval or whose
\* events nobody reads.
InterruptSettles == tab.stopping ~> ~tab.running
=============================================================================
