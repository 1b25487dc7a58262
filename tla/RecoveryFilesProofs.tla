------------------------- MODULE RecoveryFilesProofs -------------------------
(***************************************************************************)
(* What holds of RecoveryFiles for any number of operations, files,        *)
(* executors and faults.  The inductive invariant adds to the types what   *)
(* an executor at work may rely on: it holds the lock, its operation has   *)
(* the status of its step, it stands at an entry of the request, and the   *)
(* staging file it is about to install is the original it checked.         *)
(***************************************************************************)
EXTENDS RecoveryFiles, TLAPS

Working(x) == pc[x] \notin {"idle", "reserved"}

\* The steps between a check of one entry and the change of its file.
Located == {"recheck", "replace", "restage", "remove", "return", "reinstall"}

Controlled(x) ==
  /\ Working(x) => lock = x
  /\ pc[x] # "idle" => op[x] \in Ops /\ status[op[x]] \in Intent(pc[x])
  /\ pc[x] \in Located => More(x)
  /\ pc[x] \in {"restage", "reinstall"} =>
       staged[op[x]][Path(x)] = Before(x).content /\ Exists(Before(x))

Control == \A x \in Executors : Controlled(x)

IInv == TypeOK /\ Control

-----------------------------------------------------------------------------
\* Facts about the operators.

\* The statuses under which each step runs.
LEMMA IntentOf ==
  /\ Intent("idle") = J!Status /\ Intent("reserved") = J!Status
  /\ Intent("scan") = {"none"} /\ Intent("backup") = {"preparing"}
  /\ Intent("check") = {"ready"} /\ Intent("cancel") = {"ready"}
  /\ \A s \in {"apply", "recheck", "replace", "unsynced"} : Intent(s) = {"applying"}
  /\ Intent("verify") = {"verifying"}
  /\ \A s \in {"restore", "restage", "remove", "return", "reinstall", "confirm"} :
       Intent(s) = {"rolling_back"}
BY DEF Intent

\* An executor that has an entry left is at a change of its request.
LEMMA EntryTyped ==
  ASSUME NEW x, op[x] \in Ops, More(x)
  PROVE  Entry(x) \in Change /\ Path(x) \in Paths
<1>1. Request[op[x]] \in Seq(Change)
  BY RequestAssumption
<1>2. at[x] \in 1..Len(Request[op[x]])
  BY DEF More
<1>3. Entry(x) \in Change
  BY <1>1, <1>2 DEF Entry
<1> QED
  BY <1>3 DEF Path, Change

\* The three ways an executor's control moves keep its type.
LEMMA GotoTyped ==
  ASSUME LocalTyped, NEW x \in Executors, NEW s \in Steps, NEW i \in Nat,
         Goto(x, s, i), failed' \in [Executors -> BOOLEAN]
  PROVE  LocalTyped'
BY DEF LocalTyped, Goto

LEMMA LeaveTyped ==
  ASSUME LocalTyped, NEW x \in Executors, Leave(x)
  PROVE  LocalTyped'
BY BoundsAssumption DEF LocalTyped, Leave, Steps

LEMMA EnterTyped ==
  ASSUME LocalTyped, NEW x \in Executors, NEW o \in Ops, NEW s \in Steps, NEW i \in Nat,
         Enter(x, o, s, i), UNCHANGED ticket
  PROVE  LocalTyped'
BY DEF LocalTyped, Enter

\* While x holds the lock, or nobody does, no other executor is at work: only
\* what x itself does next has to be looked at.
LEMMA OthersWait ==
  ASSUME Control, TypeOK', NEW x \in Executors, lock \in {x, Nobody},
         \A y \in Executors \ {x} : pc'[y] = pc[y] /\ op'[y] = op[y],
         Controlled(x)'
  PROVE  Control'
<1> SUFFICES ASSUME NEW y \in Executors, y # x PROVE Controlled(y)'
  BY DEF Control
<1>1. pc[y] \in {"idle", "reserved"}
  BY SortsAssumption DEF Control, Controlled, Working
<1>2. pc'[y] # "idle" => op'[y] \in Ops
  BY DEF Control, Controlled
<1>3. pc'[y] # "idle" => status'[op'[y]] \in J!Status
  BY <1>2 DEF TypeOK, JournalTyped
<1> QED
  BY <1>1, <1>2, <1>3, IntentOf DEF Controlled, Working, Located

\* Nothing an executor relies on changes.
LEMMA StillControlled ==
  ASSUME Control, UNCHANGED <<local, status, staged, before>>
  PROVE  Control'
BY DEF Control, Controlled, Working, More, Path, Entry, Before, local

LEMMA FaultTyped ==
  ASSUME BudgetsTyped, Fault \/ UNCHANGED budgets
  PROVE  BudgetsTyped'
BY BoundsAssumption DEF BudgetsTyped, Fault, budgets

LEMMA ObserveTyped ==
  ASSUME GhostsTyped, NEW x, Observe(x) \/ UNCHANGED ghosts
  PROVE  GhostsTyped'
BY DEF GhostsTyped, Observe, ghosts

-----------------------------------------------------------------------------
\* The shapes of a step of a call.

\* A call goes on to step s and entry i.
LEMMA GotoControlled ==
  ASSUME Control, LocalTyped, TypeOK', NEW x \in Executors, Working(x),
         NEW s \in Steps, NEW i \in Nat, Goto(x, s, i),
         status'[op[x]] \in Intent(s),
         s \in Located => i \in 1..Len(Request[op[x]]),
         s \in {"restage", "reinstall"} =>
           LET p == Request[op[x]][i].path IN
             /\ staged'[op[x]][p] = before'[op[x]][p].content
             /\ before'[op[x]][p].content # Absent
  PROVE  Control'
<1>1. lock = x /\ op[x] \in Ops
  BY DEF Control, Controlled, Working
<1>2. pc'[x] = s /\ op'[x] = op[x] /\ at'[x] = i /\ lock' = x
  BY <1>1 DEF Goto, LocalTyped
<1>3. Controlled(x)'
  BY <1>1, <1>2 DEF Controlled, More, Path, Entry, Before, Exists
<1> QED
  BY <1>1, <1>3, OthersWait DEF Goto, LocalTyped

\* A call goes on after a read of its file, or of nothing.
LEMMA GoesOn ==
  ASSUME IInv, NEW x \in Executors, Working(x),
         NEW s \in Steps, NEW i \in Nat, Goto(x, s, i), failed' \in [Executors -> BOOLEAN],
         UNCHANGED <<files, assets, journal>>,
         Fault \/ UNCHANGED budgets, Observe(x) \/ UNCHANGED ghosts,
         Intent(s) = Intent(pc[x]),
         s \in Located => i = at[x] /\ More(x),
         s \in {"restage", "reinstall"} => pc[x] = "restage"
  PROVE  IInv'
<1>1. TypeOK'
  BY FaultTyped, ObserveTyped, GotoTyped
  DEF IInv, TypeOK, FilesTyped, AssetsTyped, JournalTyped, files, assets, journal
<1>2. status'[op[x]] \in Intent(s)
  BY DEF IInv, Control, Controlled, Working, journal
<1>3. s \in Located => i \in 1..Len(Request[op[x]])
  BY DEF More
<1>4. s \in {"restage", "reinstall"} =>
        LET p == Request[op[x]][i].path IN
          /\ staged'[op[x]][p] = before'[op[x]][p].content
          /\ before'[op[x]][p].content # Absent
  BY DEF IInv, Control, Controlled, Located, Path, Entry, Before, Exists, assets, journal
<1>5. Control'
  BY <1>1, <1>2, <1>3, <1>4, GotoControlled DEF IInv, TypeOK
<1> QED
  BY <1>1, <1>5 DEF IInv

\* A call that returns, or dies, leaves the others as they were.
LEMMA LeaveControlled ==
  ASSUME Control, LocalTyped, TypeOK', NEW x \in Executors, Working(x), Leave(x)
  PROVE  Control'
<1>1. Controlled(x)'
  BY DEF Leave, LocalTyped, Controlled, Working, Located
<1>2. lock = x
  BY DEF Control, Controlled
<1> QED
  BY <1>1, <1>2, OthersWait DEF Leave, LocalTyped

\* A call refuses after it began, and has changed nothing.
LEMMA GivesUp ==
  ASSUME IInv, NEW x \in Executors, Working(x), Leave(x),
         UNCHANGED <<files, assets, journal>>,
         Fault \/ UNCHANGED budgets, Observe(x) \/ UNCHANGED ghosts
  PROVE  IInv'
<1>1. TypeOK'
  BY FaultTyped, ObserveTyped, LeaveTyped
  DEF IInv, TypeOK, FilesTyped, AssetsTyped, JournalTyped, files, assets, journal
<1> QED
  BY <1>1, LeaveControlled DEF IInv, TypeOK

\* A call ends by recording a status.
LEMMA Concludes ==
  ASSUME IInv, NEW x \in Executors, Working(x), NEW s \in J!Status, Conclude(x, s),
         Fault \/ UNCHANGED budgets
  PROVE  IInv'
<1>1. op[x] \in Ops
  BY DEF IInv, Control, Controlled, Working
<1>2. JournalTyped'
  BY <1>1 DEF IInv, TypeOK, JournalTyped, Conclude, Save
<1>3. TypeOK'
  BY <1>2, FaultTyped, LeaveTyped
  DEF IInv, TypeOK, FilesTyped, AssetsTyped, GhostsTyped, Conclude, files, assets, ghosts
<1> QED
  BY <1>3, LeaveControlled DEF IInv, TypeOK, Conclude

\* A call records a status and goes on.
LEMMA Records ==
  ASSUME IInv, NEW x \in Executors, Working(x), NEW s \in J!Status,
         NEW t \in Steps, NEW i \in Nat, Goto(x, t, i), Save(op[x], s),
         UNCHANGED <<files, assets, failed, budgets, ghosts>>,
         s \in Intent(t), t \notin Located
  PROVE  IInv'
<1>1. op[x] \in Ops
  BY DEF IInv, Control, Controlled, Working
<1>2. JournalTyped' /\ status'[op[x]] = s
  BY <1>1 DEF IInv, TypeOK, JournalTyped, Save
<1>3. LocalTyped'
  BY GotoTyped DEF IInv, TypeOK, LocalTyped
<1>4. TypeOK'
  BY <1>2, <1>3
  DEF IInv, TypeOK, FilesTyped, AssetsTyped, BudgetsTyped, GhostsTyped,
      files, assets, budgets, ghosts
<1> QED
  BY <1>2, <1>4, GotoControlled DEF IInv, TypeOK, Located

\* A call takes the lock.
LEMMA Enters ==
  ASSUME IInv, NEW x \in Executors, NEW o \in Ops, NEW s \in Steps, NEW i \in Nat,
         Enter(x, o, s, i), ticket' = ticket, UNCHANGED <<files, assets, budgets>>,
         JournalTyped', GhostsTyped', status'[o] \in Intent(s), s \notin Located
  PROVE  IInv'
<1>1. LocalTyped'
  BY EnterTyped DEF IInv, TypeOK
<1>2. TypeOK'
  BY <1>1 DEF IInv, TypeOK, FilesTyped, AssetsTyped, BudgetsTyped, files, assets, budgets
<1>3. Controlled(x)'
  BY DEF IInv, TypeOK, LocalTyped, Controlled, Located, Enter
<1> QED
  BY <1>2, <1>3, OthersWait DEF IInv, TypeOK, LocalTyped, Enter

-----------------------------------------------------------------------------
\* The initial state.

LEMMA InitInv == Init => IInv
<1> SUFFICES ASSUME Init PROVE IInv
  OBVIOUS
<1> USE DEF Init
<1>1. TypeOK
  BY OriginalAssumption, BoundsAssumption
  DEF TypeOK, FilesTyped, AssetsTyped, JournalTyped, LocalTyped, BudgetsTyped, GhostsTyped,
      File, NoFile, Artifact, J!Status, Steps
<1>2. Control
  BY DEF Control, Controlled, Working, Located
<1> QED
  BY <1>1, <1>2 DEF IInv

-----------------------------------------------------------------------------
\* Prepare.

LEMMA PrepareBeginInv ==
  ASSUME IInv, NEW x \in Executors, NEW o \in Ops, PrepareBegin(x, o)
  PROVE  IInv'
BY ZenonT(60), IntentOf, Enters
DEF PrepareBegin, IInv, TypeOK, JournalTyped, GhostsTyped, Steps, Located, journal, ghosts

LEMMA PrepareInv ==
  ASSUME IInv, NEW x \in Executors, Prepare(x)
  PROVE  IInv'
<1> USE DEF IInv
<1>1. CASE PrepareScan(x)
  <2>1. op[x] \in Ops /\ Working(x) /\ More(x) /\ status[op[x]] = "none"
    BY <1>1, IntentOf DEF PrepareScan, Control, Controlled, Working
  <2>2. Path(x) \in Paths
    BY EntryTyped, <2>1
  <2>3. CASE Leave(x) /\ UNCHANGED before
    BY <1>1, <2>1, <2>3, GivesUp DEF PrepareScan, journal
  <2>4. CASE /\ Goto(x, "scan", at[x] + 1) /\ UNCHANGED failed
             /\ before' = [before EXCEPT ![op[x]][Path(x)] = file[Path(x)]]
    <3>1. file[Path(x)] \in File /\ before \in [Ops -> [Paths -> File]]
      BY <2>2 DEF TypeOK, FilesTyped, JournalTyped
    <3>2. before' \in [Ops -> [Paths -> File]]
      BY <2>1, <2>2, <2>4, <3>1
    <3>3. "scan" \in Steps /\ at[x] + 1 \in Nat
      BY DEF TypeOK, LocalTyped, Steps
    <3>4. LocalTyped'
      BY <2>4, <3>3, GotoTyped DEF TypeOK, LocalTyped
    <3>5. UNCHANGED <<files, assets, status, attempts, budgets>> /\ Observe(x)
      BY <1>1 DEF PrepareScan
    <3>6. TypeOK'
      BY <3>2, <3>4, <3>5, ObserveTyped
      DEF TypeOK, FilesTyped, AssetsTyped, JournalTyped, BudgetsTyped, files, assets, budgets
    <3> QED
      BY SMTT(30), <2>1, <2>4, <3>3, <3>5, <3>6, IntentOf, GotoControlled DEF TypeOK, Located
  <2> QED
    BY <1>1, <2>3, <2>4 DEF PrepareScan
<1>2. CASE PrepareJournal(x)
  <2>1. Working(x) /\ "preparing" \in J!Status /\ "backup" \in Steps /\ "backup" \notin Located
    BY <1>2 DEF PrepareJournal, Working, J!Status, Steps, Located
  <2> QED
    BY <1>2, <2>1, IntentOf, Records DEF PrepareJournal
<1>3. CASE PrepareBackup(x)
  <2>1. op[x] \in Ops /\ Working(x) /\ More(x) /\ status[op[x]] = "preparing"
    BY <1>3, IntentOf DEF PrepareBackup, Control, Controlled, Working
  <2>2. Path(x) \in Paths /\ Entry(x) \in Change
    BY EntryTyped, <2>1
  <2>3. Before(x).content \in Artifact /\ After(Entry(x)).content \in Artifact
    BY <2>1, <2>2 DEF TypeOK, JournalTyped, Before, After, Artifact, File, Change
  <2>4. backup' \in [Ops -> [Paths -> Artifact]] /\ candidate' \in [Ops -> [Paths -> Artifact]]
    BY <1>3, <2>1, <2>2, <2>3 DEF PrepareBackup, TypeOK, AssetsTyped
  <2>5. "backup" \in Steps /\ at[x] + 1 \in Nat
    BY DEF TypeOK, LocalTyped, Steps
  <2>6. LocalTyped'
    BY <1>3, <2>5, GotoTyped DEF PrepareBackup, TypeOK, LocalTyped
  <2>7. TypeOK'
    BY <1>3, <2>4, <2>6
    DEF PrepareBackup, TypeOK, FilesTyped, AssetsTyped, JournalTyped, BudgetsTyped,
        GhostsTyped, files, journal, budgets, ghosts
  <2> QED
    BY <1>3, <2>1, <2>5, <2>7, IntentOf, GotoControlled
    DEF PrepareBackup, TypeOK, Located, journal
<1>4. CASE PrepareFail(x)
  <2>1. Working(x) /\ "preparation_failed" \in J!Status
    BY <1>4 DEF PrepareFail, Working, J!Status
  <2> QED
    BY <1>4, <2>1, Concludes DEF PrepareFail
<1>5. CASE PrepareReady(x)
  <2>1. Working(x) /\ "ready" \in J!Status
    BY <1>5 DEF PrepareReady, Working, J!Status
  <2> QED
    BY <1>5, <2>1, Concludes DEF PrepareReady
<1> QED
  BY <1>1, <1>2, <1>3, <1>4, <1>5 DEF Prepare

-----------------------------------------------------------------------------
\* Apply.

LEMMA ApplyBeginInv ==
  ASSUME IInv, NEW x \in Executors, NEW o \in Ops, ApplyBegin(x, o)
  PROVE  IInv'
BY ZenonT(60), IntentOf, Enters
DEF ApplyBegin, IInv, TypeOK, JournalTyped, GhostsTyped, Steps, Located, journal, ghosts

LEMMA ApplyInv ==
  ASSUME IInv, NEW x \in Executors, Apply(x)
  PROVE  IInv'
<1> USE DEF IInv
<1>0. at[x] \in Nat /\ at[x] + 1 \in Nat /\ failed \in [Executors -> BOOLEAN]
  BY DEF TypeOK, LocalTyped
<1>1. CASE ApplyCheck(x)
  <2>1. Working(x) /\ "check" \in Steps /\ "check" \notin Located
    BY <1>1 DEF ApplyCheck, Working, Steps, Located
  <2> QED
    BY <1>0, <1>1, <2>1, GoesOn, GivesUp DEF ApplyCheck, Located
<1>2. CASE ApplyJournal(x)
  <2>1. Working(x) /\ "applying" \in J!Status /\ "apply" \in Steps /\ "apply" \notin Located
    BY <1>2 DEF ApplyJournal, Working, J!Status, Steps, Located
  <2> QED
    BY <1>2, <2>1, IntentOf, Records DEF ApplyJournal
<1>3. CASE ApplyStage(x)
  <2>1. Working(x) /\ More(x) /\ {"replace", "recheck"} \subseteq Steps
    BY <1>3 DEF ApplyStage, Working, Steps
  <2> QED
    BY <1>0, <1>3, <2>1, IntentOf, GoesOn DEF ApplyStage
<1>4. CASE ApplyRecheck(x)
  <2>1. Working(x) /\ More(x) /\ "replace" \in Steps
    BY <1>4 DEF ApplyRecheck, Working, Steps, Located, Control, Controlled
  <2> QED
    BY <1>0, <1>4, <2>1, IntentOf, GoesOn DEF ApplyRecheck
<1>5. CASE ApplyReplace(x)
  <2>1. op[x] \in Ops /\ Working(x) /\ More(x) /\ status[op[x]] = "applying"
    BY <1>5, IntentOf DEF ApplyReplace, Control, Controlled, Working, Located
  <2>2. Path(x) \in Paths /\ Entry(x) \in Change
    BY EntryTyped, <2>1
  <2>3. /\ file \in [Paths -> File] /\ NoFile \in File
        /\ \A i \in FreshIds : [content |-> Entry(x).content, id |-> i] \in File
    BY <2>2 DEF TypeOK, FilesTyped, File, NoFile, Change, FreshIds
  <2>4. file' \in [Paths -> File]
    BY <1>5, <2>2, <2>3 DEF ApplyReplace
  <2>5. quarantine' \in [Ops -> [Paths -> File]]
    <3>1. quarantine' = quarantine
          \/ quarantine' = [quarantine EXCEPT ![op[x]][Path(x)] = file[Path(x)]]
      BY <1>5 DEF ApplyReplace
    <3> QED
      BY <2>1, <2>2, <2>3, <3>1 DEF TypeOK, FilesTyped
  <2>6. {"apply", "unsynced"} \subseteq Steps \ Located
    BY DEF Steps, Located
  <2>7. LocalTyped' /\ BudgetsTyped'
    BY <1>0, <1>5, <2>6, GotoTyped, FaultTyped DEF ApplyReplace, TypeOK
  <2>8. TypeOK'
    BY <1>5, <2>1, <2>4, <2>5, <2>7
    DEF ApplyReplace, TypeOK, FilesTyped, AssetsTyped, JournalTyped, GhostsTyped,
        assets, journal
  <2>9. status'[op[x]] \in Intent("apply") /\ status'[op[x]] \in Intent("unsynced")
    BY <1>5, <2>1, IntentOf DEF ApplyReplace, journal
  <2>10. PICK t \in {"apply", "unsynced"}, i \in Nat : Goto(x, t, i)
    BY <1>0, <1>5 DEF ApplyReplace
  <2> QED
    BY <2>1, <2>6, <2>8, <2>9, <2>10, GotoControlled DEF TypeOK, Located
<1>6. CASE ApplyConflict(x)
  <2>1. Working(x) /\ "outcome_unknown" \in J!Status
    BY <1>6 DEF ApplyConflict, Working, J!Status
  <2> QED
    BY <1>6, <2>1, Concludes DEF ApplyConflict
<1>7. CASE ApplyError(x)
  <2>1. Working(x) /\ "outcome_unknown" \in J!Status
    BY <1>7 DEF ApplyError, Working, J!Status
  <2> QED
    BY <1>7, <2>1, Concludes DEF ApplyError
<1>8. CASE ApplyInstalled(x)
  <2>1. Working(x) /\ "verifying" \in J!Status /\ "verify" \in Steps /\ "verify" \notin Located
    BY <1>8 DEF ApplyInstalled, Working, J!Status, Steps, Located
  <2> QED
    BY <1>8, <2>1, IntentOf, Records DEF ApplyInstalled
<1>9. CASE ApplyVerify(x)
  <2>1. Working(x) /\ "verify" \in Steps /\ "verify" \notin Located
    BY <1>9 DEF ApplyVerify, Working, Steps, Located
  <2> QED
    BY <1>0, <1>9, <2>1, GoesOn DEF ApplyVerify, Located
<1>10. CASE ApplyCommit(x)
  <2>1. Working(x) /\ "committed" \in J!Status
    BY <1>10 DEF ApplyCommit, Working, J!Status
  <2> QED
    BY <1>10, <2>1, Concludes DEF ApplyCommit
<1> QED
  BY <1>1, <1>2, <1>3, <1>4, <1>5, <1>6, <1>7, <1>8, <1>9, <1>10 DEF Apply

-----------------------------------------------------------------------------
\* Recover.

LEMMA ReserveInv ==
  ASSUME IInv, NEW x \in Executors, NEW o \in Ops, Reserve(x, o)
  PROVE  IInv'
<1> USE DEF Reserve, IInv
<1>1. attempts' \in [Ops -> 0..MaxRepair] /\ ticket' \in [Executors -> 0..MaxRepair]
  <2>1. attempts[o] < MaxRepair => attempts[o] + 1 \in 0..MaxRepair
    BY BoundsAssumption DEF TypeOK, JournalTyped
  <2> QED
    BY ZenonT(60), <2>1 DEF TypeOK, JournalTyped, LocalTyped
<1>2. pc' \in [Executors -> Steps] /\ op' \in [Executors -> Ops \cup {NoOp}]
  BY DEF TypeOK, LocalTyped, Steps
<1>3. TypeOK'
  BY <1>1, <1>2
  DEF TypeOK, FilesTyped, AssetsTyped, JournalTyped, LocalTyped, BudgetsTyped, GhostsTyped,
      files, assets, budgets, ghosts
<1>4. Controlled(x)'
  BY IntentOf DEF TypeOK, JournalTyped, LocalTyped, Controlled, Working, Located
<1> QED
  BY <1>3, <1>4, OthersWait DEF TypeOK, LocalTyped

LEMMA DispatchTyped ==
  ASSUME TypeOK, NEW x \in Executors, NEW o \in Ops, Dispatch(x, o)
  PROVE  GhostsTyped'
<1>1. ticket[x] \in 0..MaxRepair
  BY DEF TypeOK, LocalTyped
<1> QED
  BY <1>1 DEF TypeOK, GhostsTyped, Dispatch

LEMMA CancelBeginInv ==
  ASSUME IInv, NEW x \in Executors, NEW o \in Ops, CancelBegin(x, o)
  PROVE  IInv'
BY IntentOf, Enters, DispatchTyped
DEF CancelBegin, IInv, TypeOK, JournalTyped, Steps, Located, journal

LEMMA RestoreBeginInv ==
  ASSUME IInv, NEW x \in Executors, NEW o \in Ops, RestoreBegin(x, o)
  PROVE  IInv'
<1> USE DEF RestoreBegin, IInv
<1>1. "rolling_back" \in J!Status /\ "restore" \in Steps /\ "restore" \notin Located
  BY DEF J!Status, Steps, Located
<1>2. JournalTyped' /\ status'[o] = "rolling_back"
  BY <1>1 DEF TypeOK, JournalTyped, Save
<1>3. Len(Request[o]) \in Nat
  BY RequestAssumption
<1> QED
  BY <1>1, <1>2, <1>3, IntentOf, Enters, DispatchTyped

\* An entry is done with, restored or not, and the one before it is next.
LEMMA NextEntryTyped ==
  ASSUME LocalTyped, NEW x \in Executors, More(x), NEW ok \in BOOLEAN, NextEntry(x, ok)
  PROVE  /\ at[x] - 1 \in Nat /\ "restore" \in Steps \ Located
         /\ Goto(x, "restore", at[x] - 1)
         /\ failed' \in [Executors -> BOOLEAN]
         /\ LocalTyped'
<1>1. at[x] - 1 \in Nat /\ "restore" \in Steps \ Located
  BY DEF More, LocalTyped, Steps, Located
<1>2. Goto(x, "restore", at[x] - 1) /\ failed' \in [Executors -> BOOLEAN]
  BY DEF NextEntry, LocalTyped
<1> QED
  BY <1>1, <1>2, GotoTyped

LEMMA RecoverInv ==
  ASSUME IInv, NEW x \in Executors, Recover(x)
  PROVE  IInv'
<1> USE DEF IInv
<1>0. at[x] \in Nat /\ at[x] + 1 \in Nat /\ failed \in [Executors -> BOOLEAN]
  BY DEF TypeOK, LocalTyped
<1>1. CASE RecoverRefused(x)
  <2>1. TypeOK'
    BY <1>1, LeaveTyped
    DEF RecoverRefused, TypeOK, FilesTyped, AssetsTyped, JournalTyped, BudgetsTyped,
        GhostsTyped, files, assets, journal, budgets, ghosts
  <2>2. ASSUME NEW y \in Executors PROVE Controlled(y)'
    BY <1>1
    DEF RecoverRefused, Leave, TypeOK, LocalTyped, Control, Controlled, Working, Located,
        More, Path, Entry, Before, Exists, assets, journal
  <2> QED
    BY <2>1, <2>2 DEF Control
<1>2. CASE CancelCheck(x)
  <2>1. Working(x) /\ "cancel" \in Steps /\ "cancel" \notin Located
    BY <1>2 DEF CancelCheck, Working, Steps, Located
  <2> QED
    BY <1>0, <1>2, <2>1, GoesOn, GivesUp DEF CancelCheck, Located
<1>3. CASE CancelEnd(x)
  <2>1. Working(x) /\ "recovered" \in J!Status
    BY <1>3 DEF CancelEnd, Working, J!Status
  <2> QED
    BY <1>3, <2>1, Concludes DEF CancelEnd
<1>4. CASE RestoreSkip(x)
  <2>1. Working(x)
    BY <1>4 DEF RestoreSkip, Working
  <2> QED
    BY <1>4, <2>1, NextEntryTyped, GoesOn DEF RestoreSkip, TypeOK, Located
<1>5. CASE RestoreConflict(x)
  <2>1. Working(x) /\ More(x) /\ Intent(pc[x]) = Intent("restore")
    BY <1>5, IntentOf DEF RestoreConflict, Working, Located, Control, Controlled
  <2> QED
    BY <1>5, <2>1, NextEntryTyped, GoesOn DEF RestoreConflict, TypeOK, Located
<1>6. CASE RestoreDirect(x)
  <2>1. Working(x) /\ More(x) /\ {"return", "remove"} \subseteq Steps
    BY <1>6 DEF RestoreDirect, Working, Steps
  <2> QED
    BY <1>0, <1>6, <2>1, IntentOf, GoesOn DEF RestoreDirect
<1>7. CASE RestoreStage(x)
  <2>1. op[x] \in Ops /\ Working(x) /\ More(x) /\ status[op[x]] = "rolling_back"
    BY <1>7, IntentOf DEF RestoreStage, Control, Controlled, Working
  <2>2. Path(x) \in Paths /\ "restage" \in Steps
    BY EntryTyped, <2>1 DEF Steps
  <2>3. Before(x).content \in Artifact /\ Before(x).content # Absent
    BY <1>7, <2>1, <2>2
    DEF RestoreStage, NeedsStaging, Exists, TypeOK, JournalTyped, Before, Artifact, File
  <2>4. staged' \in [Ops -> [Paths -> Artifact]]
        /\ staged'[op[x]][Path(x)] = Before(x).content
    BY <1>7, <2>1, <2>2, <2>3 DEF RestoreStage, TypeOK, AssetsTyped
  <2>5. LocalTyped' /\ GhostsTyped'
    BY <1>0, <1>7, <2>2, GotoTyped, ObserveTyped DEF RestoreStage, TypeOK
  <2>6. TypeOK'
    BY <1>7, <2>4, <2>5
    DEF RestoreStage, TypeOK, FilesTyped, AssetsTyped, JournalTyped, BudgetsTyped,
        files, journal, budgets
  <2>7. before' = before /\ status'[op[x]] \in Intent("restage")
    BY <1>7, <2>1, IntentOf DEF RestoreStage, journal
  <2>8. at[x] \in 1..Len(Request[op[x]]) /\ Path(x) = Request[op[x]][at[x]].path
    BY <2>1 DEF More, Path, Entry
  <2>9. LET p == Request[op[x]][at[x]].path IN
          /\ staged'[op[x]][p] = before'[op[x]][p].content
          /\ before'[op[x]][p].content # Absent
    BY <2>3, <2>4, <2>7, <2>8 DEF Before
  <2> QED
    BY <1>0, <1>7, <2>1, <2>2, <2>6, <2>7, <2>8, <2>9, GotoControlled DEF RestoreStage, TypeOK
<1>8. CASE RestoreRecheck(x)
  <2>1. Working(x) /\ More(x) /\ "reinstall" \in Steps
    BY <1>8 DEF RestoreRecheck, Working, Steps, Located, Control, Controlled
  <2> QED
    BY <1>0, <1>8, <2>1, IntentOf, GoesOn DEF RestoreRecheck
<1>9. CASE RestoreReplace(x)
  <2>1. op[x] \in Ops /\ Working(x) /\ More(x) /\ status[op[x]] = "rolling_back"
    BY <1>9, IntentOf DEF RestoreReplace, Control, Controlled, Working, Located
  <2>2. Path(x) \in Paths /\ NoFile \in File /\ Absent \in Artifact
    BY EntryTyped, <2>1 DEF NoFile, File, Artifact
  <2>3. pc[x] = "reinstall" => staged[op[x]][Path(x)] \in Content \cup {Absent}
    BY <2>1, <2>2 DEF Control, Controlled, TypeOK, JournalTyped, Before, File
  <2>4. Quarantined(x) \in File
    BY <2>1, <2>2 DEF Quarantined, TypeOK, FilesTyped
  <2>5. pc[x] = "reinstall" =>
          \A i \in FreshIds : [content |-> staged[op[x]][Path(x)], id |-> i] \in File
    BY <2>3 DEF File, FreshIds
  <2>6. file' \in [Paths -> File]
    BY <1>9, <2>2, <2>4, <2>5 DEF RestoreReplace, TypeOK, FilesTyped
  <2>7. quarantine' \in [Ops -> [Paths -> File]]
    <3>1. quarantine' = quarantine
          \/ quarantine' = [quarantine EXCEPT ![op[x]][Path(x)] = NoFile]
      BY <1>9 DEF RestoreReplace
    <3> QED
      BY <2>1, <2>2, <3>1 DEF TypeOK, FilesTyped
  <2>8. staged' \in [Ops -> [Paths -> Artifact]]
    <3>1. staged' = staged \/ staged' = [staged EXCEPT ![op[x]][Path(x)] = Absent]
      BY <1>9 DEF RestoreReplace
    <3>2. staged \in [Ops -> [Paths -> Artifact]]
      BY DEF TypeOK, AssetsTyped
    <3> QED
      BY <2>1, <2>2, <3>1, <3>2
  <2>9. PICK ok \in BOOLEAN : NextEntry(x, ok)
    BY <1>9 DEF RestoreReplace
  <2>10. LocalTyped' /\ BudgetsTyped'
    BY <1>9, <2>1, <2>9, NextEntryTyped, FaultTyped DEF RestoreReplace, TypeOK
  <2>11. TypeOK'
    BY <1>9, <2>1, <2>6, <2>7, <2>8, <2>10
    DEF RestoreReplace, TypeOK, FilesTyped, AssetsTyped, JournalTyped, GhostsTyped, journal
  <2>12. status'[op[x]] \in Intent("restore")
    BY <1>9, <2>1, IntentOf DEF RestoreReplace, journal
  <2> QED
    BY <2>1, <2>9, <2>11, <2>12, NextEntryTyped, GotoControlled DEF TypeOK, Located
<1>10. CASE RestoreError(x)
  <2>1. Working(x) /\ Intent(pc[x]) = Intent("restore")
    BY <1>10, IntentOf DEF RestoreError, Working
  <2> QED
    BY <1>10, <2>1, NextEntryTyped, GoesOn DEF RestoreError, TypeOK, Located
<1>11. CASE RestoreGiveUp(x)
  <2>1. Working(x) /\ "recovery_failed" \in J!Status
    BY <1>11 DEF RestoreGiveUp, Working, J!Status
  <2> QED
    BY <1>11, <2>1, Concludes DEF RestoreGiveUp
<1>12. CASE RestoreEnd(x)
  <2>1. Working(x) /\ "confirm" \in Steps /\ "confirm" \notin Located
    BY <1>12 DEF RestoreEnd, Working, Steps, Located
  <2> QED
    BY <1>0, <1>12, <2>1, IntentOf, GoesOn DEF RestoreEnd, Located
<1>13. CASE ConfirmEntry(x)
  <2>1. Working(x) /\ "confirm" \in Steps /\ "confirm" \notin Located
    BY <1>13 DEF ConfirmEntry, Working, Steps, Located
  <2> QED
    BY <1>0, <1>13, <2>1, GoesOn DEF ConfirmEntry, Located
<1>14. CASE ConfirmConflict(x)
  <2>1. Working(x) /\ "recovery_failed" \in J!Status
    BY <1>14 DEF ConfirmConflict, Working, J!Status
  <2> QED
    BY <1>14, <2>1, Concludes DEF ConfirmConflict
<1>15. CASE ConfirmEnd(x)
  <2>1. Working(x) /\ "recovered" \in J!Status
    BY <1>15 DEF ConfirmEnd, Working, J!Status
  <2> QED
    BY <1>15, <2>1, Concludes DEF ConfirmEnd
<1> QED
  BY <1>1, <1>2, <1>3, <1>4, <1>5, <1>6, <1>7, <1>8, <1>9, <1>10, <1>11, <1>12, <1>13,
     <1>14, <1>15 DEF Recover

-----------------------------------------------------------------------------
\* Reconcile and the environment.

LEMMA ReconcileInv ==
  ASSUME IInv, NEW x \in Executors, NEW o \in Ops, Reconcile(x, o)
  PROVE  IInv'
<1> USE DEF Reconcile, IInv
<1>1. status[o] \in J!Status
  BY DEF TypeOK, JournalTyped
<1>2. Interrupted(status[o]) \in J!Status
  BY <1>1 DEF Interrupted, J!Status, J!InFlight
<1>3. TypeOK'
  BY <1>2
  DEF Save, TypeOK, FilesTyped, AssetsTyped, JournalTyped, LocalTyped, BudgetsTyped,
      GhostsTyped, files, assets, local, budgets, ghosts
<1>4. Controlled(x)'
  BY DEF Controlled, Working, Located, local
<1> QED
  BY <1>3, <1>4, OthersWait DEF local

LEMMA CrashInv ==
  ASSUME IInv, NEW x \in Executors, Crash(x)
  PROVE  IInv'
<1> USE DEF IInv
<1>1. Torn \in Artifact
  BY DEF Artifact
<1>2. AssetsTyped'
  <2>1. CASE UNCHANGED assets
    BY <2>1 DEF TypeOK, AssetsTyped, assets
  <2>2. CASE pc[x] = "backup" /\ More(x)
    <3>1. op[x] \in Ops /\ Path(x) \in Paths
      BY <2>2, EntryTyped DEF Control, Controlled
    <3>2. Before(x).content \in Artifact
      BY <3>1 DEF TypeOK, JournalTyped, Before, Artifact, File
    <3>3. \/ backup' = backup
          \/ backup' = [backup EXCEPT ![op[x]][Path(x)] = Torn]
          \/ backup' = [backup EXCEPT ![op[x]][Path(x)] = Before(x).content]
      BY <2>2 DEF Crash, assets
    <3>4. candidate' = candidate \/ candidate' = [candidate EXCEPT ![op[x]][Path(x)] = Torn]
      BY <2>2 DEF Crash, assets
    <3>5. staged' = staged
      BY <2>2 DEF Crash, assets
    <3>6. backup' \in [Ops -> [Paths -> Artifact]]
      <4>1. backup \in [Ops -> [Paths -> Artifact]]
        BY DEF TypeOK, AssetsTyped
      <4> QED
        BY <1>1, <3>1, <3>2, <3>3, <4>1
    <3>7. candidate' \in [Ops -> [Paths -> Artifact]]
      <4>1. candidate \in [Ops -> [Paths -> Artifact]]
        BY DEF TypeOK, AssetsTyped
      <4> QED
        BY <1>1, <3>1, <3>4, <4>1
    <3> QED
      BY <3>5, <3>6, <3>7 DEF TypeOK, AssetsTyped
  <2>3. CASE /\ pc[x] = "restore" /\ More(x) /\ UNCHANGED <<backup, candidate>>
             /\ staged' = [staged EXCEPT ![op[x]][Path(x)] = Torn]
    <3>1. op[x] \in Ops /\ Path(x) \in Paths
      BY <2>3, EntryTyped DEF Control, Controlled
    <3>2. staged \in [Ops -> [Paths -> Artifact]]
      BY DEF TypeOK, AssetsTyped
    <3>3. staged' \in [Ops -> [Paths -> Artifact]]
      BY <1>1, <2>3, <3>1, <3>2
    <3> QED
      BY <2>3, <3>3 DEF TypeOK, AssetsTyped
  <2> QED
    BY <2>1, <2>2, <2>3 DEF Crash
<1>3. TypeOK'
  BY <1>2, LeaveTyped, FaultTyped
  DEF Crash, TypeOK, FilesTyped, JournalTyped, GhostsTyped, files, journal, ghosts
<1>4. CASE Working(x)
  BY <1>3, <1>4, LeaveControlled DEF Crash, TypeOK
<1>5. CASE ~Working(x)
  <2>1. UNCHANGED <<status, before, staged>> /\ Leave(x)
    BY <1>5 DEF Crash, Working, assets, journal
  <2>2. ASSUME NEW y \in Executors PROVE Controlled(y)'
    BY <1>5, <2>1
    DEF Leave, TypeOK, LocalTyped, Control, Controlled, Working, Located,
        More, Path, Entry, Before, Exists
  <2> QED
    BY <1>3, <2>2 DEF Control
<1> QED
  BY <1>3, <1>4, <1>5

LEMMA EnvironmentInv ==
  ASSUME IInv, Environment
  PROVE  IInv'
<1> USE DEF IInv, ForeignBudget
<1>1. BudgetsTyped'
  BY BoundsAssumption DEF Environment, ForeignWrite, ForeignLateWrite, Damage, TypeOK, BudgetsTyped
<1>2. \A c \in Content, i \in FreshIds : [content |-> c, id |-> i] \in File
  BY DEF FreshIds, File
<1>3. ASSUME NEW p \in Paths, ForeignWrite(p) PROVE IInv'
  <2>1. NoFile \in File
    BY DEF NoFile, File
  <2>2. FilesTyped'
    BY <1>2, <1>3, <2>1 DEF ForeignWrite, TypeOK, FilesTyped
  <2> QED
    BY <1>1, <1>3, <2>2, StillControlled
    DEF ForeignWrite, TypeOK, AssetsTyped, JournalTyped, LocalTyped, GhostsTyped,
        assets, journal, local
<1>4. ASSUME NEW o \in Ops, NEW p \in Paths, ForeignLateWrite(o, p) PROVE IInv'
  <2>1. quarantine \in [Ops -> [Paths -> File]]
    BY DEF TypeOK, FilesTyped
  <2>2. PICK f \in File : quarantine' = [quarantine EXCEPT ![o][p] = f]
    BY <1>2, <1>4 DEF ForeignLateWrite
  <2>3. quarantine' \in [Ops -> [Paths -> File]]
    BY <2>1, <2>2
  <2> QED
    BY <1>1, <1>4, <2>3, StillControlled
    DEF ForeignLateWrite, TypeOK, FilesTyped, AssetsTyped, JournalTyped, LocalTyped,
        GhostsTyped, assets, journal, local, ghosts
<1>5. ASSUME NEW o \in Ops, NEW p \in Paths, Damage(o, p) PROVE IInv'
  <2>1. Torn \in Artifact
    BY DEF Artifact
  <2>2. backup' = backup \/ backup' = [backup EXCEPT ![o][p] = Torn]
    BY <1>5 DEF Damage
  <2>3. candidate' = candidate \/ candidate' = [candidate EXCEPT ![o][p] = Torn]
    BY <1>5 DEF Damage
  <2>4. backup' \in [Ops -> [Paths -> Artifact]]
    <3>1. backup \in [Ops -> [Paths -> Artifact]]
      BY DEF TypeOK, AssetsTyped
    <3> QED
      BY <2>1, <2>2, <3>1
  <2>5. candidate' \in [Ops -> [Paths -> Artifact]]
    <3>1. candidate \in [Ops -> [Paths -> Artifact]]
      BY DEF TypeOK, AssetsTyped
    <3> QED
      BY <2>1, <2>3, <3>1
  <2> QED
    BY <1>1, <1>5, <2>4, <2>5, StillControlled
    DEF Damage, TypeOK, FilesTyped, AssetsTyped, JournalTyped, LocalTyped, GhostsTyped,
        files, journal, local
<1> QED
  BY <1>3, <1>4, <1>5 DEF Environment

-----------------------------------------------------------------------------
\* Every step, and the two invariants.

LEMMA StepInv == IInv /\ [Next]_vars => IInv'
<1> SUFFICES ASSUME IInv, [Next]_vars PROVE IInv'
  OBVIOUS
<1>1. ASSUME NEW x \in Executors, Prepare(x) \/ Apply(x) \/ Recover(x) \/ Crash(x)
      PROVE  IInv'
  BY <1>1, PrepareInv, ApplyInv, RecoverInv, CrashInv
<1>2. ASSUME NEW x \in Executors, NEW o \in Ops, Call(x, o)
      PROVE  IInv'
  BY <1>2, PrepareBeginInv, ApplyBeginInv, ReserveInv, CancelBeginInv, RestoreBeginInv,
     ReconcileInv DEF Call
<1>3. CASE Environment
  BY <1>3, EnvironmentInv
<1>4. CASE UNCHANGED vars
  BY <1>4, StillControlled
  DEF IInv, TypeOK, FilesTyped, AssetsTyped, JournalTyped, LocalTyped, BudgetsTyped,
      GhostsTyped, vars, files, assets, journal, local, budgets, ghosts
<1> QED
  BY <1>1, <1>2, <1>3, <1>4 DEF Next, Settled

LEMMA Inductive == Spec => []IInv
BY InitInv, StepInv, PTL DEF Spec

\* Every variable of the executor keeps its type.
THEOREM TypeCorrect == Spec => []TypeOK
<1>1. IInv => TypeOK
  BY DEF IInv
<1> QED
  BY <1>1, Inductive, PTL

\* At most one executor is at work, and the journal shows what it is doing: no
\* interleaving, crash or reconciliation moves an operation under a running call
\* (engine.go:161-172).
THEOREM IntentJournalled == Spec => []JournalledIntent
<1>1. IInv => JournalledIntent
  BY DEF IInv, Control, Controlled, Working, JournalledIntent
<1> QED
  BY <1>1, Inductive, PTL
-----------------------------------------------------------------------------
\* What an executor destroys.  Between the last look at a file and its replacement
\* the file is either what the executor saw or was written by somebody else since
\* (raced); only the holder of the lock is ever there.

\* The steps at which the next effect changes the file of the entry.
Poised == {"replace", "remove", "return", "reinstall"}

Reviewed(x) ==
  pc[x] \in Poised =>
    \/ Path(x) \in raced
    \/ pc[x] = "replace" /\ IsBefore(x, TRUE)
    \/ pc[x] # "replace" /\ IsAfter(x)

Review == \A x \in Executors : Reviewed(x)

SInv == IInv /\ Review

-----------------------------------------------------------------------------
\* Who acts, and on which files.

\* Only a call at work prepares, applies or restores; a reservation may be refused.
LEMMA ActorWorks ==
  ASSUME NEW x
  PROVE  /\ Prepare(x) \/ Apply(x) => Working(x)
         /\ Recover(x) => Working(x) \/ RecoverRefused(x)
<1>1. Prepare(x) => Working(x)
  BY DEF Prepare, PrepareScan, PrepareJournal, PrepareBackup, PrepareFail, PrepareReady, Working
<1>2. Apply(x) => Working(x)
  BY DEF Apply, ApplyCheck, ApplyJournal, ApplyStage, ApplyRecheck, ApplyReplace, ApplyConflict,
         ApplyError, ApplyInstalled, ApplyVerify, ApplyCommit, Working
<1>3. Recover(x) => Working(x) \/ RecoverRefused(x)
  BY DEF Recover, CancelCheck, CancelEnd, RestoreSkip, RestoreConflict, RestoreDirect,
         RestoreStage, RestoreRecheck, RestoreReplace, RestoreError, RestoreGiveUp, RestoreEnd,
         ConfirmEntry, ConfirmConflict, ConfirmEnd, Working
<1> QED
  BY <1>1, <1>2, <1>3

\* The two effects of an executor on target files.
LEMMA FileKept ==
  ASSUME NEW x \in Executors
  PROVE  /\ Prepare(x) \/ Crash(x) => file' = file
         /\ \A o \in Ops : Call(x, o) => file' = file
         /\ Apply(x) => file' = file \/ ApplyReplace(x)
         /\ Recover(x) => file' = file \/ RestoreReplace(x)
<1> USE DEF files
<1>1. Prepare(x) => file' = file
  BY DEF Prepare, PrepareScan, PrepareJournal, PrepareBackup, PrepareFail, PrepareReady, Conclude
<1>2. Crash(x) => file' = file
  BY DEF Crash
<1>3. \A o \in Ops : Call(x, o) => file' = file
  BY DEF Call, PrepareBegin, ApplyBegin, Reserve, CancelBegin, RestoreBegin, Reconcile
<1>4. Apply(x) => file' = file \/ ApplyReplace(x)
  BY DEF Apply, ApplyCheck, ApplyJournal, ApplyStage, ApplyRecheck, ApplyConflict,
         ApplyError, ApplyInstalled, ApplyVerify, ApplyCommit, Conclude
<1>5. Recover(x) => file' = file \/ RestoreReplace(x)
  BY DEF Recover, RecoverRefused, CancelCheck, CancelEnd, RestoreSkip, RestoreConflict,
         RestoreDirect, RestoreStage, RestoreRecheck, RestoreError, RestoreGiveUp, RestoreEnd,
         ConfirmEntry, ConfirmConflict, ConfirmEnd, Conclude
<1> QED
  BY <1>1, <1>2, <1>3, <1>4, <1>5

\* A step of one executor moves no other one.
LEMMA OthersStay ==
  ASSUME IInv, NEW x \in Executors, NEW y \in Executors, y # x,
         Prepare(y) \/ Apply(y) \/ Recover(y) \/ Crash(y) \/ \E o \in Ops : Call(y, o)
  PROVE  pc'[x] = pc[x] /\ op'[x] = op[x] /\ at'[x] = at[x]
<1> USE DEF IInv, TypeOK, LocalTyped
<1> DEFINE Stays == pc'[x] = pc[x] /\ op'[x] = op[x] /\ at'[x] = at[x]
<1>1. ASSUME NEW s, NEW i, Goto(y, s, i) PROVE Stays
  BY <1>1 DEF Goto
<1>2. ASSUME NEW o, NEW s, NEW i, Enter(y, o, s, i) PROVE Stays
  BY <1>2 DEF Enter
<1>3. Leave(y) => Stays
  BY DEF Leave
<1>4. ASSUME NEW s, Conclude(y, s) PROVE Stays
  BY <1>3, <1>4 DEF Conclude
<1>5. ASSUME NEW ok, NextEntry(y, ok) PROVE Stays
  BY <1>1, <1>5 DEF NextEntry
<1> HIDE DEF Stays
<1>6. Prepare(y) => Stays
  BY <1>1, <1>3, <1>4
  DEF Prepare, PrepareScan, PrepareJournal, PrepareBackup, PrepareFail, PrepareReady
<1>7. Apply(y) => Stays
  BY <1>1, <1>3, <1>4
  DEF Apply, ApplyCheck, ApplyJournal, ApplyStage, ApplyRecheck, ApplyReplace, ApplyConflict,
      ApplyError, ApplyInstalled, ApplyVerify, ApplyCommit
<1>8. Recover(y) => Stays
  BY <1>1, <1>3, <1>4, <1>5
  DEF Recover, RecoverRefused, CancelCheck, CancelEnd, RestoreSkip, RestoreConflict,
      RestoreDirect, RestoreStage, RestoreRecheck, RestoreReplace, RestoreError,
      RestoreGiveUp, RestoreEnd, ConfirmEntry, ConfirmConflict, ConfirmEnd
<1>9. Crash(y) => Stays
  BY <1>3 DEF Crash
<1>10. ASSUME NEW o \in Ops, Reserve(y, o) \/ Reconcile(y, o) PROVE Stays
  BY <1>10 DEF Reserve, Reconcile, Stays, local
<1>11. ASSUME NEW o \in Ops, Call(y, o) PROVE Stays
  BY <1>2, <1>10, <1>11 DEF Call, PrepareBegin, ApplyBegin, CancelBegin, RestoreBegin
<1> QED
  BY <1>6, <1>7, <1>8, <1>9, <1>11 DEF Stays

\* While x is at work a step of another executor touches nothing x relies on.
LEMMA OthersKeep ==
  ASSUME IInv, NEW x \in Executors, NEW y \in Executors, y # x, Working(x),
         Prepare(y) \/ Apply(y) \/ Recover(y) \/ Crash(y) \/ \E o \in Ops : Call(y, o)
  PROVE  /\ UNCHANGED <<file, before, raced, lock>>
         /\ pc'[x] = pc[x] /\ op'[x] = op[x] /\ at'[x] = at[x]
<1>1. lock = x /\ lock # Nobody /\ ~Working(y)
  BY SortsAssumption DEF IInv, Control, Controlled
<1>2. CASE RecoverRefused(y)
  BY <1>1, <1>2
  DEF RecoverRefused, Leave, IInv, TypeOK, LocalTyped, files, journal, ghosts
<1>3. CASE Crash(y)
  BY <1>1, <1>3 DEF Crash, Leave, IInv, TypeOK, LocalTyped, files, journal, ghosts
<1>4. ASSUME NEW o \in Ops PROVE ~Call(y, o)
  BY <1>1 DEF Call, PrepareBegin, ApplyBegin, Reserve, CancelBegin, RestoreBegin, Reconcile, Enter
<1> QED
  BY <1>1, <1>2, <1>3, <1>4, ActorWorks

\* Other programs move no executor, and a file they write is known as raced.
LEMMA EnvironmentKeeps ==
  ASSUME IInv, Environment
  PROVE  /\ UNCHANGED <<pc, op, at, before>> /\ raced \subseteq raced'
         /\ \A p \in Paths : file'[p] = file[p] \/ p \in raced'
<1>1. UNCHANGED <<pc, op, at, before>>
  BY DEF Environment, ForeignWrite, ForeignLateWrite, Damage, local, journal
<1>2. ASSUME NEW q \in Paths, ForeignWrite(q)
      PROVE  raced' = raced \cup {q} /\ \A p \in Paths \ {q} : file'[p] = file[p]
  BY <1>2 DEF ForeignWrite, IInv, TypeOK, FilesTyped
<1>3. ASSUME NEW o \in Ops, NEW q \in Paths, ForeignLateWrite(o, q) \/ Damage(o, q)
      PROVE  UNCHANGED <<file, raced>>
  BY <1>3 DEF ForeignLateWrite, Damage, files, ghosts
<1> QED
  BY <1>1, <1>2, <1>3 DEF Environment

\* What x saw it may still rely on, unless the file was written since.
LEMMA StillReviewed ==
  ASSUME IInv, NEW x \in Executors, Reviewed(x),
         pc'[x] = pc[x], op'[x] = op[x], at'[x] = at[x], before' = before,
         raced \subseteq raced',
         \A p \in Paths : file'[p] = file[p] \/ p \in raced'
  PROVE  Reviewed(x)'
<1> SUFFICES ASSUME pc[x] \in Poised PROVE Reviewed(x)'
  BY DEF Reviewed
<1>1. op[x] \in Ops /\ More(x)
  BY DEF IInv, Control, Controlled, Working, Located, Poised
<1>2. Path(x) \in Paths
  BY <1>1, EntryTyped
<1>3. Path(x)' = Path(x) /\ Entry(x)' = Entry(x) /\ Before(x)' = before[op[x]][Path(x)]
  BY DEF Path, Entry, Before
<1> QED
  BY <1>2, <1>3 DEF Reviewed, IsBefore, IsAfter, Before

\* How an executor comes to be poised: by looking at the file.
LEMMA PoisedByReview ==
  ASSUME IInv, NEW x \in Executors, pc'[x] \in Poised,
         \/ Prepare(x) \/ Apply(x) \/ Recover(x) \/ Crash(x)
         \/ \E o \in Ops : Call(x, o)
  PROVE  \/ ApplyStage(x) \/ ApplyRecheck(x) \/ RestoreDirect(x) \/ RestoreRecheck(x)
         \/ \E o \in Ops : Reconcile(x, o)
<1> USE DEF IInv, TypeOK, LocalTyped, Poised
<1>1. ~Prepare(x)
  BY DEF Prepare, PrepareScan, PrepareJournal, PrepareBackup, PrepareFail, PrepareReady,
         Conclude, Goto, Leave
<1>2. Apply(x) => ApplyStage(x) \/ ApplyRecheck(x)
  BY DEF Apply, ApplyCheck, ApplyJournal, ApplyReplace, ApplyConflict,
         ApplyError, ApplyInstalled, ApplyVerify, ApplyCommit, Conclude, Goto, Leave
<1>3. Recover(x) => RestoreDirect(x) \/ RestoreRecheck(x)
  BY DEF Recover, RecoverRefused, CancelCheck, CancelEnd, RestoreSkip, RestoreConflict,
         RestoreStage, RestoreReplace, RestoreError, RestoreGiveUp, RestoreEnd,
         ConfirmEntry, ConfirmConflict, ConfirmEnd, Conclude, Goto, Leave, NextEntry
<1>4. ~Crash(x)
  BY DEF Crash, Leave
<1>5. ASSUME NEW o \in Ops, Call(x, o) PROVE Reconcile(x, o)
  BY <1>5 DEF Call, PrepareBegin, ApplyBegin, Reserve, CancelBegin, RestoreBegin, Enter
<1> QED
  BY <1>1, <1>2, <1>3, <1>4, <1>5

\* A look at the file finds what may be destroyed.
LEMMA ReviewReviews ==
  ASSUME IInv, NEW x \in Executors,
         ApplyStage(x) \/ ApplyRecheck(x) \/ RestoreDirect(x) \/ RestoreRecheck(x)
  PROVE  Reviewed(x)'
<1>1. file' = file /\ before' = before /\ op'[x] = op[x] /\ at'[x] = at[x]
  BY DEF ApplyStage, ApplyRecheck, RestoreDirect, RestoreRecheck, Goto,
         IInv, TypeOK, LocalTyped, files, journal
<1>2. UNCHANGED <<Path(x), Entry(x), Before(x), IsBefore(x, TRUE), IsAfter(x)>>
  BY <1>1 DEF Path, Entry, Before, IsBefore, IsAfter
<1>3. CASE ApplyStage(x) \/ ApplyRecheck(x)
  <2>1. IsBefore(x, TRUE) /\ pc'[x] \in {"replace", "recheck"}
    BY <1>3 DEF ApplyStage, ApplyRecheck, CanStage, Goto, IInv, TypeOK, LocalTyped
  <2> QED
    BY <1>2, <2>1 DEF Reviewed, Poised
<1>4. CASE RestoreDirect(x) \/ RestoreRecheck(x)
  <2>1. IsAfter(x) /\ pc'[x] \in {"return", "remove", "reinstall"}
    BY <1>4 DEF RestoreDirect, RestoreRecheck, MayRestore, Goto, IInv, TypeOK, LocalTyped
  <2> QED
    BY <1>2, <2>1 DEF Reviewed, Poised
<1> QED
  BY <1>3, <1>4

-----------------------------------------------------------------------------
\* The invariant.

LEMMA InitReviewed == Init => Review
BY DEF Init, Review, Reviewed, Poised

LEMMA EnvironmentReviewed ==
  ASSUME SInv, Environment
  PROVE  Review'
BY EnvironmentKeeps, StillReviewed DEF SInv, Review

LEMMA ExecutorReviewed ==
  ASSUME SInv, IInv', NEW y \in Executors,
         Prepare(y) \/ Apply(y) \/ Recover(y) \/ Crash(y) \/ \E o \in Ops : Call(y, o)
  PROVE  Review'
<1> SUFFICES ASSUME NEW x \in Executors, pc'[x] \in Poised PROVE Reviewed(x)'
  BY DEF Review, Reviewed
<1> USE DEF SInv, Review
<1>1. CASE x = y
  <2>1. CASE \E o \in Ops : Reconcile(x, o)
    BY <2>1 DEF Reconcile, local, Poised
  <2> QED
    BY <1>1, <2>1, PoisedByReview, ReviewReviews
<1>2. CASE x # y /\ Working(x)
  BY <1>2, OthersKeep, StillReviewed
<1>3. CASE x # y /\ ~Working(x)
  BY <1>3, OthersStay DEF Working, Poised
<1> QED
  BY <1>1, <1>2, <1>3

LEMMA StepReviewed == SInv /\ [Next]_vars => SInv'
<1> SUFFICES ASSUME SInv, [Next]_vars PROVE SInv'
  OBVIOUS
<1>1. IInv'
  BY StepInv DEF SInv
<1>2. ASSUME NEW x \in Executors, Prepare(x) \/ Apply(x) \/ Recover(x) \/ Crash(x)
      PROVE  Review'
  BY <1>1, <1>2, ExecutorReviewed
<1>3. ASSUME NEW x \in Executors, NEW o \in Ops, Call(x, o)
      PROVE  Review'
  BY <1>1, <1>3, ExecutorReviewed
<1>4. UNCHANGED vars => Review'
  BY StillReviewed DEF SInv, Review, vars, files, journal, local, ghosts
<1> QED
  BY <1>1, <1>2, <1>3, <1>4, EnvironmentReviewed DEF Next, Settled, SInv

LEMMA Reviewing == Spec => []SInv
<1>1. Init => SInv
  BY InitInv, InitReviewed DEF SInv
<1> QED
  BY <1>1, StepReviewed, PTL DEF Spec

-----------------------------------------------------------------------------
\* What a step destroys.

\* The change the holder makes is journalled, belongs to its request and destroys
\* what it reviewed.
LEMMA ReplacesReviewed ==
  ASSUME SInv, NEW x \in Executors, ApplyReplace(x) \/ RestoreReplace(x),
         NEW p \in Paths, file'[p] # file[p]
  PROVE  lock = x /\ \E c \in Changes(op[x]) :
           /\ c.path = p
           /\ status[op[x]] \in {"applying", "rolling_back"}
           /\ \/ p \in raced
              \/ /\ status[op[x]] = "applying"
                 /\ Matches(file[p], before[op[x]][p], TRUE)
              \/ /\ status[op[x]] = "rolling_back"
                 /\ Matches(file[p], After(c), FALSE)
<1> USE DEF SInv
<1>1. pc[x] \in Poised /\ Working(x)
  BY DEF ApplyReplace, RestoreReplace, Poised, Working
<1>2. lock = x /\ op[x] \in Ops /\ More(x) /\ status[op[x]] \in Intent(pc[x])
  BY <1>1 DEF IInv, Control, Controlled, Working, Located, Poised
<1>3. Entry(x) \in Changes(op[x])
  BY <1>2 DEF Entry, Changes, More
<1>4. p = Path(x)
  BY DEF ApplyReplace, RestoreReplace, IInv, TypeOK, FilesTyped
<1>5. ApplyReplace(x) => pc[x] = "replace" /\ status[op[x]] = "applying"
  BY <1>2, IntentOf DEF ApplyReplace
<1>6. RestoreReplace(x) => pc[x] # "replace" /\ status[op[x]] = "rolling_back"
  BY <1>2, IntentOf DEF RestoreReplace
<1>7. Reviewed(x)
  BY DEF Review
<1> QED
  BY <1>1, <1>2, <1>3, <1>4, <1>5, <1>6, <1>7 DEF Reviewed, IsBefore, IsAfter, Before, Path

\* Whatever crashes, fails or is interleaved, an executor changes a target only
\* under a journalled intention, and destroys the very file that was prepared, or
\* the operation's own output, unless a foreign write fell between its last look
\* and the rename (engine.go:643-685 and 800-861).
THEOREM OnlyReviewedIsDestroyed == Spec => DestroysOnlyReviewed
<1>1. SInv /\ [Next]_vars =>
        [\A p \in Paths : file'[p] # file[p] /\ foreign' = foreign =>
           \E x \in Executors : lock = x /\ \E c \in Changes(op[x]) :
             /\ c.path = p
             /\ status[op[x]] \in {"applying", "rolling_back"}
             /\ \/ p \in raced
                \/ /\ status[op[x]] = "applying"
                   /\ Matches(file[p], before[op[x]][p], TRUE)
                \/ /\ status[op[x]] = "rolling_back"
                   /\ Matches(file[p], After(c), FALSE)]_vars
  <2> DEFINE Reviewable ==
        \A p \in Paths : file'[p] # file[p] /\ foreign' = foreign =>
          \E x \in Executors : lock = x /\ \E c \in Changes(op[x]) :
            /\ c.path = p
            /\ status[op[x]] \in {"applying", "rolling_back"}
            /\ \/ p \in raced
               \/ /\ status[op[x]] = "applying"
                  /\ Matches(file[p], before[op[x]][p], TRUE)
               \/ /\ status[op[x]] = "rolling_back"
                  /\ Matches(file[p], After(c), FALSE)
  <2> SUFFICES ASSUME SInv, Next PROVE Reviewable
    OBVIOUS
  <2>1. ASSUME NEW x \in Executors, ApplyReplace(x) \/ RestoreReplace(x) PROVE Reviewable
    BY <2>1, ReplacesReviewed
  <2>2. file' = file \/ foreign' # foreign => Reviewable
    OBVIOUS
  <2> HIDE DEF Reviewable
  <2>3. ASSUME NEW x \in Executors, Prepare(x) \/ Apply(x) \/ Recover(x) \/ Crash(x)
        PROVE  Reviewable
    BY <2>1, <2>2, <2>3, FileKept
  <2>4. ASSUME NEW x \in Executors, NEW o \in Ops, Call(x, o) PROVE Reviewable
    BY <2>2, <2>4, FileKept
  <2>5. CASE Environment
    <3>1. \A o \in Ops, p \in Paths : Damage(o, p) \/ ForeignLateWrite(o, p) => file' = file
      BY DEF Damage, ForeignLateWrite, files
    <3>2. \A p \in Paths : ForeignWrite(p) => foreign' # foreign
      BY DEF ForeignWrite, ForeignBudget, SInv, IInv, TypeOK, BudgetsTyped
    <3> QED
      BY <2>2, <2>5, <3>1, <3>2 DEF Environment
  <2>6. Settled => Reviewable
    BY <2>2 DEF Settled, vars, files
  <2> QED
    BY <2>3, <2>4, <2>5, <2>6 DEF Next
<1> QED
  BY <1>1, Reviewing, PTL DEF Spec, DestroysOnlyReviewed

-----------------------------------------------------------------------------
\* What a call has read when it reports an outcome.

\* The steps that read every entry, from the first to the last.
Reading == {"verify", "cancel", "confirm"}

\* The i-th file is what the call wants it to be, or was written by others since.
Seen(x, i) ==
  LET c == Request[op[x]][i] IN
    \/ c.path \in raced
    \/ Matches(file[c.path],
               IF pc[x] = "verify" THEN After(c) ELSE before[op[x]][c.path], FALSE)

Verified(x) ==
  pc[x] \in Reading =>
    at[x] >= 1 /\ \A i \in 1..Len(Request[op[x]]) : i < at[x] => Seen(x, i)

Verification == \A x \in Executors : Verified(x)

VInv == IInv /\ Verification

LEMMA StillVerified ==
  ASSUME IInv, NEW x \in Executors, Verified(x),
         pc'[x] = pc[x], op'[x] = op[x], at'[x] = at[x], before' = before,
         raced \subseteq raced',
         \A p \in Paths : file'[p] = file[p] \/ p \in raced'
  PROVE  Verified(x)'
<1> SUFFICES ASSUME pc[x] \in Reading,
                    NEW i \in 1..Len(Request[op[x]]), i < at[x]
             PROVE  Seen(x, i)'
  BY DEF Verified
<1>1. op[x] \in Ops
  BY DEF IInv, Control, Controlled, Reading
<1>2. Request[op[x]] \in Seq(Change)
  BY <1>1, RequestAssumption
<1>3. Request[op[x]][i].path \in Paths
  <2>1. Request[op[x]][i] \in Change
    BY <1>2
  <2> QED
    BY <2>1 DEF Change
<1>4. Seen(x, i)
  BY DEF Verified
<1> QED
  BY <1>3, <1>4 DEF Seen

\* How a call comes to a step that reads: at its first entry, or past one more.
LEMMA ReadingBegins ==
  ASSUME IInv, NEW x \in Executors, pc'[x] \in Reading,
         \/ Prepare(x) \/ Apply(x) \/ Recover(x) \/ Crash(x)
         \/ \E o \in Ops : Call(x, o)
  PROVE  \/ at'[x] = 1
         \/ ApplyVerify(x) \/ CancelCheck(x) \/ ConfirmEntry(x)
<1> USE DEF IInv, TypeOK, LocalTyped, Reading
<1>1. ~Prepare(x)
  BY DEF Prepare, PrepareScan, PrepareJournal, PrepareBackup, PrepareFail, PrepareReady,
         Conclude, Goto, Leave
<1>2. Apply(x) => at'[x] = 1 \/ ApplyVerify(x)
  BY DEF Apply, ApplyCheck, ApplyJournal, ApplyStage, ApplyRecheck, ApplyReplace, ApplyConflict,
         ApplyError, ApplyInstalled, ApplyCommit, Conclude, Goto, Leave
<1>3. Recover(x) => at'[x] = 1 \/ CancelCheck(x) \/ ConfirmEntry(x)
  BY DEF Recover, RecoverRefused, CancelEnd, RestoreSkip, RestoreConflict, RestoreDirect,
         RestoreStage, RestoreRecheck, RestoreReplace, RestoreError, RestoreGiveUp, RestoreEnd,
         ConfirmConflict, ConfirmEnd, Conclude, Goto, Leave, NextEntry
<1>4. ~Crash(x)
  BY DEF Crash, Leave
<1>5. ASSUME NEW o \in Ops, Call(x, o) PROVE at'[x] = 1
  BY <1>5
  DEF Call, PrepareBegin, ApplyBegin, Reserve, Reconcile, CancelBegin, RestoreBegin, Enter, local
<1> QED
  BY <1>1, <1>2, <1>3, <1>4, <1>5

\* A read that goes on to the next entry found what it wanted.
LEMMA ReadVerifies ==
  ASSUME VInv, NEW x \in Executors, pc'[x] \in Reading,
         ApplyVerify(x) \/ CancelCheck(x) \/ ConfirmEntry(x)
  PROVE  Verified(x)'
<1> USE DEF VInv
<1>1. /\ UNCHANGED <<file, before>> /\ raced' = raced \ {Path(x)}
      /\ More(x) /\ pc[x] \in Reading
  BY DEF ApplyVerify, CancelCheck, ConfirmEntry, Observe, files, journal, Reading
<1>2. Goto(x, pc[x], at[x] + 1)
  BY DEF ApplyVerify, CancelCheck, ConfirmEntry, Leave, IInv, TypeOK, LocalTyped, Reading
<1>3. pc'[x] = pc[x] /\ op'[x] = op[x] /\ at'[x] = at[x] + 1 /\ at[x] \in Nat
  BY <1>2 DEF Goto, IInv, TypeOK, LocalTyped
<1>4. Matches(file[Path(x)],
              IF pc[x] = "verify" THEN After(Entry(x)) ELSE before[op[x]][Path(x)], FALSE)
  BY <1>1, <1>3 DEF ApplyVerify, CancelCheck, ConfirmEntry, IsAfter, IsBefore, Before, Matches,
                    Leave, IInv, TypeOK, LocalTyped, Reading
<1>5. op[x] \in Ops /\ Verified(x)
  BY <1>1 DEF IInv, Control, Controlled, Reading, Verification
<1>6. ASSUME NEW i \in 1..Len(Request[op[x]]), i < at[x] + 1
      PROVE  Seen(x, i)'
  <2>1. CASE i = at[x]
    BY <1>1, <1>3, <1>4, <2>1 DEF Seen, Entry, Path
  <2>2. CASE i # at[x]
    <3>1. Seen(x, i)
      BY <1>1, <1>3, <1>5, <1>6, <2>2 DEF Verified
    <3>2. Request[op[x]][i].path # Path(x)
      BY <1>1, <1>5, <2>2, RequestAssumption DEF More, Path, Entry
    <3> QED
      BY <1>1, <1>3, <3>1, <3>2 DEF Seen
  <2> QED
    BY <2>1, <2>2
<1> QED
  BY <1>3, <1>6 DEF Verified

LEMMA StepVerified == VInv /\ [Next]_vars => VInv'
<1> SUFFICES ASSUME VInv, [Next]_vars PROVE VInv'
  OBVIOUS
<1> USE DEF VInv, Verification
<1>1. IInv'
  BY StepInv
<1>2. ASSUME NEW y \in Executors, NEW x \in Executors,
             Prepare(y) \/ Apply(y) \/ Recover(y) \/ Crash(y) \/ \E o \in Ops : Call(y, o)
      PROVE  Verified(x)'
  <2> SUFFICES ASSUME pc'[x] \in Reading PROVE Verified(x)'
    BY DEF Verified
  <2>1. CASE x = y
    <3>1. at'[x] = 1 => Verified(x)'
      BY DEF Verified
    <3> QED
      BY <1>2, <2>1, <3>1, ReadingBegins, ReadVerifies
  <2>2. CASE x # y /\ Working(x)
    BY <1>2, <2>2, OthersKeep, StillVerified
  <2>3. CASE x # y /\ ~Working(x)
    BY <1>2, <2>3, OthersStay DEF Working, Reading
  <2> QED
    BY <2>1, <2>2, <2>3
<1>3. Environment => Verification'
  BY EnvironmentKeeps, StillVerified
<1>4. UNCHANGED vars => Verification'
  BY StillVerified DEF vars, files, journal, local, ghosts
<1> QED
  BY <1>1, <1>2, <1>3, <1>4 DEF Next, Settled

LEMMA Verifying == Spec => []VInv
<1>1. Init => VInv
  BY InitInv DEF Init, VInv, Verification, Verified, Reading
<1> QED
  BY <1>1, StepVerified, PTL DEF Spec

\* Only a call that has read every entry records an outcome.
LEMMA OutcomeRecorded ==
  ASSUME IInv, NEW x \in Executors, NEW o \in Ops,
         status'[o] # status[o], status'[o] \in {"committed", "recovered"},
         Prepare(x) \/ Apply(x) \/ Recover(x) \/ Crash(x) \/ \E q \in Ops : Call(x, q)
  PROVE  /\ op[x] = o /\ pc[x] \in Reading /\ ~More(x)
         /\ pc[x] = "verify" <=> status'[o] = "committed"
<1> USE DEF IInv, TypeOK, JournalTyped, Save, Conclude, journal, Reading
<1>1. ~Prepare(x)
  BY DEF Prepare, PrepareScan, PrepareJournal, PrepareBackup, PrepareFail, PrepareReady
<1>2. Apply(x) => ApplyCommit(x)
  BY DEF Apply, ApplyCheck, ApplyJournal, ApplyStage, ApplyRecheck, ApplyReplace, ApplyConflict,
         ApplyError, ApplyInstalled, ApplyVerify
<1>3. Recover(x) => CancelEnd(x) \/ ConfirmEnd(x)
  BY DEF Recover, RecoverRefused, CancelCheck, RestoreSkip, RestoreConflict, RestoreDirect,
         RestoreStage, RestoreRecheck, RestoreReplace, RestoreError, RestoreGiveUp, RestoreEnd,
         ConfirmEntry, ConfirmConflict
<1>4. ~Crash(x)
  BY DEF Crash
<1>5. ~\E q \in Ops : Call(x, q)
  BY DEF Call, PrepareBegin, ApplyBegin, Reserve, CancelBegin, RestoreBegin, Reconcile, Interrupted
<1>6. CASE ApplyCommit(x)
  BY <1>6 DEF ApplyCommit
<1>7. CASE CancelEnd(x)
  BY <1>7 DEF CancelEnd
<1>8. CASE ConfirmEnd(x)
  BY <1>8 DEF ConfirmEnd
<1> QED
  BY <1>1, <1>2, <1>3, <1>4, <1>5, <1>6, <1>7, <1>8

\* "committed" is recorded over verified outputs and "recovered" over verified
\* originals of every entry at once, unless a foreign write came after the entry
\* was read (engine.go:532-558, 710-731 and 785-797).
THEOREM OutcomesAreVerified == Spec => OutcomeVerified
<1>1. VInv /\ [Next]_vars =>
        [\A o \in Ops : \A c \in Changes(o) :
           status'[o] # status[o] /\ c.path \notin raced =>
             /\ status'[o] = "committed" => Matches(file[c.path], After(c), FALSE)
             /\ status'[o] = "recovered" => Matches(file[c.path], before[o][c.path], FALSE)]_vars
  <2> SUFFICES ASSUME VInv, Next, NEW o \in Ops, NEW c \in Changes(o),
                      status'[o] # status[o], c.path \notin raced,
                      status'[o] \in {"committed", "recovered"}
               PROVE  Matches(file[c.path],
                              IF status'[o] = "committed" THEN After(c)
                              ELSE before[o][c.path], FALSE)
    OBVIOUS
  <2>1. PICK x \in Executors :
          Prepare(x) \/ Apply(x) \/ Recover(x) \/ Crash(x) \/ \E q \in Ops : Call(x, q)
    <3>1. ~Environment /\ ~Settled
      BY DEF Environment, ForeignWrite, ForeignLateWrite, Damage, Settled, vars, journal
    <3> QED
      BY <3>1 DEF Next
  <2>2. /\ op[x] = o /\ pc[x] \in Reading /\ ~More(x)
        /\ pc[x] = "verify" <=> status'[o] = "committed"
    BY <2>1, OutcomeRecorded DEF VInv
  <2>3. PICK i \in 1..Len(Request[o]) : c = Request[o][i]
    BY DEF Changes
  <2>4. at[x] \in Nat /\ at[x] >= 1 /\ Len(Request[o]) \in Nat
    BY <2>2, RequestAssumption DEF VInv, Verification, Verified, IInv, TypeOK, LocalTyped
  <2>5. i < at[x]
    BY <2>2, <2>4 DEF More
  <2>6. Seen(x, i)
    BY <2>2, <2>5 DEF VInv, Verification, Verified
  <2> QED
    BY <2>2, <2>3, <2>6 DEF Seen
<1> QED
  BY <1>1, Verifying, PTL DEF Spec, OutcomeVerified

-----------------------------------------------------------------------------
(***************************************************************************)
(* The executor of RecoveryFiles implements the lifecycle RecoveryJournal  *)
(* promises.  Two invariants rest on that: the budget of model-triggered   *)
(* repairs (a reservation costs nothing only for a recovered operation,    *)
(* and that is final), and the artifacts of a prepared operation (there is *)
(* one way past preparation, and it writes them all).                      *)
(***************************************************************************)

RInv == IInv /\ J!UnappliedIsUntouched

\* A recorded status that is an edge of the lifecycle is a step of it.
LEMMA RecordedMove ==
  ASSUME IInv, NEW o \in Ops, NEW s \in J!Status, Save(o, s), UNCHANGED touched,
         <<status[o], s>> \in J!Moves
  PROVE  J!Next
BY DEF Save, J!Next, J!Record

\* A step that records nothing and changes no target is none.
LEMMA NothingRecorded ==
  ASSUME UNCHANGED <<status, touched>>
  PROVE  [J!Next]_(J!vars)
BY DEF J!vars

\* What a step of each call does to the journal.
LEMMA PrepareMoves ==
  ASSUME IInv, NEW x \in Executors, Prepare(x)
  PROVE  [J!Next]_(J!vars)
<1> USE DEF IInv, ghosts
<1>0. Working(x) /\ op[x] \in Ops /\ status[op[x]] \in Intent(pc[x])
  BY ActorWorks DEF Control, Controlled, Working
<1>1. CASE PrepareScan(x)
  BY <1>1, NothingRecorded DEF PrepareScan, Observe
<1>2. CASE PrepareJournal(x)
  BY <1>0, <1>2, IntentOf, RecordedMove DEF PrepareJournal, J!Moves, J!Status
<1>3. CASE PrepareBackup(x)
  BY <1>3, NothingRecorded DEF PrepareBackup, journal
<1>4. CASE PrepareFail(x)
  BY <1>0, <1>4, IntentOf, RecordedMove DEF PrepareFail, Conclude, J!Moves, J!Status
<1>5. CASE PrepareReady(x)
  BY <1>0, <1>5, IntentOf, RecordedMove DEF PrepareReady, Conclude, J!Moves, J!Status
<1> QED
  BY <1>1, <1>2, <1>3, <1>4, <1>5 DEF Prepare

LEMMA ApplyMoves ==
  ASSUME IInv, NEW x \in Executors, Apply(x)
  PROVE  [J!Next]_(J!vars)
<1> USE DEF IInv, ghosts
<1>0. Working(x) /\ op[x] \in Ops /\ status[op[x]] \in Intent(pc[x])
  BY ActorWorks DEF Control, Controlled, Working
<1>1. CASE ApplyCheck(x) \/ ApplyStage(x) \/ ApplyRecheck(x) \/ ApplyVerify(x)
  BY <1>1, NothingRecorded
  DEF ApplyCheck, ApplyStage, ApplyRecheck, ApplyVerify, Observe, journal
<1>2. CASE ApplyJournal(x)
  BY <1>0, <1>2, IntentOf, RecordedMove DEF ApplyJournal, J!Moves, J!Status
<1>3. CASE ApplyReplace(x)
  BY <1>0, <1>3, IntentOf DEF ApplyReplace, journal, J!Next, J!Change
<1>4. CASE ApplyConflict(x) \/ ApplyError(x)
  <2>1. status[op[x]] \in {"applying", "verifying"}
    BY ZenonT(60), <1>0, <1>4, IntentOf DEF ApplyConflict, ApplyError
  <2> QED
    BY <1>0, <1>4, <2>1, RecordedMove
    DEF ApplyConflict, ApplyError, Conclude, J!Moves, J!Status
<1>5. CASE ApplyInstalled(x)
  BY <1>0, <1>5, IntentOf, RecordedMove DEF ApplyInstalled, J!Moves, J!Status
<1>6. CASE ApplyCommit(x)
  BY <1>0, <1>6, IntentOf, RecordedMove DEF ApplyCommit, Conclude, J!Moves, J!Status
<1> QED
  BY <1>1, <1>2, <1>3, <1>4, <1>5, <1>6 DEF Apply

LEMMA RecoverMoves ==
  ASSUME RInv, NEW x \in Executors, Recover(x)
  PROVE  [J!Next]_(J!vars)
<1> USE DEF RInv, IInv, ghosts
<1>0. Working(x) => op[x] \in Ops /\ status[op[x]] \in Intent(pc[x])
  BY DEF Control, Controlled, Working
<1>1. CASE RecoverRefused(x) \/ CancelCheck(x) \/ RestoreSkip(x) \/ RestoreConflict(x)
  BY <1>1, NothingRecorded
  DEF RecoverRefused, CancelCheck, RestoreSkip, RestoreConflict, Observe, journal
<1>2. CASE RestoreDirect(x) \/ RestoreStage(x) \/ RestoreRecheck(x) \/ RestoreError(x)
           \/ RestoreEnd(x) \/ ConfirmEntry(x)
  BY <1>2, NothingRecorded
  DEF RestoreDirect, RestoreStage, RestoreRecheck, RestoreError, RestoreEnd, ConfirmEntry,
      Observe, journal
<1>3. CASE CancelEnd(x)
  <2>1. op[x] \in Ops /\ status[op[x]] = "ready"
    BY <1>0, <1>3, IntentOf DEF CancelEnd, Working
  <2>2. op[x] \notin touched
    BY <2>1 DEF J!UnappliedIsUntouched, J!BeforeApplication
  <2> QED
    BY <1>3, <2>1, <2>2 DEF CancelEnd, Conclude, Save, J!Next, J!Cancel
<1>4. CASE RestoreReplace(x)
  <2>1. op[x] \in Ops /\ status[op[x]] = "rolling_back"
    BY <1>0, <1>4, IntentOf DEF RestoreReplace, Working
  <2> QED
    BY <1>4, <2>1 DEF RestoreReplace, journal, J!Next, J!Change
<1>5. CASE RestoreGiveUp(x) \/ ConfirmConflict(x)
  <2>1. op[x] \in Ops /\ status[op[x]] = "rolling_back"
    BY <1>0, <1>5, IntentOf DEF RestoreGiveUp, ConfirmConflict, Working
  <2> QED
    BY <1>5, <2>1, RecordedMove
    DEF RestoreGiveUp, ConfirmConflict, Conclude, J!Moves, J!Status
<1>6. CASE ConfirmEnd(x)
  <2>1. op[x] \in Ops /\ status[op[x]] = "rolling_back"
    BY <1>0, <1>6, IntentOf DEF ConfirmEnd, Working
  <2> QED
    BY <1>6, <2>1 DEF ConfirmEnd, Conclude, Save, J!Next, J!Restored
<1> QED
  BY <1>1, <1>2, <1>3, <1>4, <1>5, <1>6 DEF Recover

LEMMA CallMoves ==
  ASSUME IInv, NEW x \in Executors, NEW o \in Ops, Call(x, o)
  PROVE  [J!Next]_(J!vars)
<1> USE DEF IInv, ghosts
<1>1. CASE PrepareBegin(x, o) \/ ApplyBegin(x, o) \/ Reserve(x, o) \/ CancelBegin(x, o)
  BY <1>1, NothingRecorded
  DEF PrepareBegin, ApplyBegin, Reserve, CancelBegin, Dispatch, journal
<1>2. CASE RestoreBegin(x, o)
  BY <1>2, RecordedMove DEF RestoreBegin, Dispatch, J!Moves, J!Status
<1>3. CASE Reconcile(x, o)
  <2>1. status[o] \in J!Status
    BY DEF TypeOK, JournalTyped
  <2>2. <<status[o], Interrupted(status[o])>> \in J!Moves
    BY <1>3, <2>1 DEF Reconcile, Interrupted, J!InFlight, J!Moves
  <2>3. Interrupted(status[o]) \in J!Status
    BY <2>1 DEF Interrupted, J!Status
  <2> QED
    BY <1>3, <2>2, <2>3, RecordedMove DEF Reconcile
<1> QED
  BY <1>1, <1>2, <1>3 DEF Call

\* Every step of the executor is a step of the lifecycle, or none.
LEMMA StepMoves ==
  ASSUME RInv, [Next]_vars
  PROVE  [J!Next]_(J!vars)
<1>1. ASSUME NEW x \in Executors, Crash(x) PROVE [J!Next]_(J!vars)
  BY <1>1, NothingRecorded DEF Crash, journal, ghosts
<1>2. CASE Environment
  BY <1>2, NothingRecorded
  DEF Environment, ForeignWrite, ForeignLateWrite, Damage, journal, ghosts
<1>3. CASE UNCHANGED vars
  BY <1>3, NothingRecorded DEF vars, journal, ghosts
<1> QED
  BY <1>1, <1>2, <1>3, PrepareMoves, ApplyMoves, RecoverMoves, CallMoves
  DEF Next, Settled, RInv

\* The lifecycle alone keeps unapplied operations untouched.
LEMMA MoveUntouched ==
  ASSUME JournalTyped, J!UnappliedIsUntouched, [J!Next]_(J!vars)
  PROVE  (J!UnappliedIsUntouched)'
<1> USE DEF J!UnappliedIsUntouched, J!BeforeApplication, JournalTyped
<1>1. ASSUME NEW o \in Ops, NEW s \in J!Status, J!Record(o, s)
      PROVE  (J!UnappliedIsUntouched)'
  BY <1>1 DEF J!Record, J!Moves, J!Restorable, J!InFlight
<1>2. ASSUME NEW o \in Ops, J!Cancel(o) \/ J!Restored(o) \/ J!Change(o)
      PROVE  (J!UnappliedIsUntouched)'
  BY <1>2 DEF J!Cancel, J!Restored, J!Change
<1>3. CASE UNCHANGED J!vars
  BY <1>3 DEF J!vars
<1> QED
  BY <1>1, <1>2, <1>3 DEF J!Next

LEMMA StepRefines == RInv /\ [Next]_vars => RInv'
BY StepInv, StepMoves, MoveUntouched DEF RInv, IInv, TypeOK

LEMMA Refining == Spec => []RInv
<1>1. Init => RInv
  BY InitInv DEF Init, RInv, J!UnappliedIsUntouched
<1> QED
  BY <1>1, StepRefines, PTL DEF Spec

\* The executor of file operations implements the lifecycle: a status read from the
\* journal means what RecoveryJournal says of it (engine.go:468-473, 697-725 and
\* 865-881).
THEOREM JournalImplemented == Spec => ImplementsJournal
<1>1. Init => J!Init
  BY DEF Init, J!Init
<1>2. RInv /\ [Next]_vars => [J!Next]_(J!vars)
  BY StepMoves
<1> QED
  BY <1>1, <1>2, Refining, PTL DEF Spec, ImplementsJournal, J!Spec

-----------------------------------------------------------------------------
\* The budget of model-triggered repairs.

\* What a model's reservation is good for.
Reserved(x) ==
  /\ pc[x] = "idle" => ticket[x] = 0
  /\ pc[x] = "reserved" =>
       /\ op[x] \in Ops
       /\ ticket[x] = 0 => status[op[x]] = "recovered"
       /\ ticket[x] # 0 =>
            /\ ticket[x] \in 1..attempts[op[x]] /\ ticket[x] \notin spent[op[x]]
            /\ \A y \in Models :
                 pc[y] = "reserved" /\ op[y] = op[x] /\ ticket[y] = ticket[x] => x = y

Reservations ==
  /\ \A o \in Ops : spent[o] \subseteq 1..attempts[o]
  /\ \A x \in Models : Reserved(x)

BInv == RInv /\ Reservations

\* Recovered operations stay recovered, so a reservation without a ticket stays void.
LEMMA RecoveredFinal ==
  ASSUME RInv, [Next]_vars, NEW o \in Ops, status[o] = "recovered"
  PROVE  status'[o] = "recovered"
<1>1. [J!Next]_(J!vars)
  BY StepMoves
<1> QED
  BY <1>1
  DEF RInv, IInv, TypeOK, JournalTyped, J!Next, J!vars, J!Record, J!Cancel, J!Restored, J!Change,
      J!Moves, J!Restorable, J!InFlight

\* Steps that neither reserve nor dispatch.
LEMMA ReservationsKept ==
  ASSUME BInv, [Next]_vars, UNCHANGED <<attempts, spent>>,
         \A x \in Models :
           \/ pc'[x] = pc[x] /\ op'[x] = op[x] /\ ticket'[x] = ticket[x]
           \/ pc'[x] = "idle" /\ ticket'[x] = 0
           \/ pc'[x] \notin {"idle", "reserved"}
  PROVE  Reservations'
<1> USE DEF BInv, Reservations
<1>1. ASSUME NEW x \in Models PROVE Reserved(x)'
  <2>1. RInv
    OBVIOUS
  <2>2. pc'[x] = "reserved" => pc[x] = "reserved" /\ op'[x] = op[x] /\ ticket'[x] = ticket[x]
    OBVIOUS
  <2>3. pc'[x] = "reserved" /\ ticket[x] = 0 => status'[op[x]] = "recovered"
    BY <2>1, <2>2, RecoveredFinal DEF Reserved
  <2>4. pc'[x] = "idle" => ticket'[x] = 0
    BY DEF Reserved
  <2>5. \A y \in Models : pc'[y] = "reserved" =>
          pc[y] = "reserved" /\ op'[y] = op[y] /\ ticket'[y] = ticket[y]
    OBVIOUS
  <2> QED
    BY <2>2, <2>3, <2>4, <2>5 DEF Reserved
<1> QED
  BY <1>1

\* What a step of a call under way does to the reservations: a call that returns
\* gives its own up, and nothing else changes.
LEMMA StepsKeep ==
  ASSUME IInv, NEW y \in Executors, Prepare(y) \/ Apply(y) \/ Recover(y) \/ Crash(y)
  PROVE  /\ UNCHANGED <<attempts, spent>>
         /\ \/ pc'[y] = "idle" /\ ticket'[y] = 0
            \/ pc'[y] \notin {"idle", "reserved"}
         /\ \A x \in Executors \ {y} : ticket'[x] = ticket[x]
<1> USE DEF IInv, TypeOK, LocalTyped, ghosts, journal
<1> DEFINE Keeps == /\ \/ pc'[y] = "idle" /\ ticket'[y] = 0
                       \/ pc'[y] \notin {"idle", "reserved"}
                    /\ \A x \in Executors \ {y} : ticket'[x] = ticket[x]
<1>1. Leave(y) => Keeps
  BY DEF Leave
<1>2. ASSUME NEW s \in Steps \ {"idle", "reserved"}, NEW i, Goto(y, s, i) PROVE Keeps
  BY <1>2 DEF Goto
<1>3. ASSUME NEW ok, NextEntry(y, ok) PROVE Keeps
  BY <1>2, <1>3 DEF NextEntry, Steps
<1> HIDE DEF Keeps
<1>4. Prepare(y) => UNCHANGED <<attempts, spent>> /\ Keeps
  BY <1>1, <1>2
  DEF Prepare, PrepareScan, PrepareJournal, PrepareBackup, PrepareFail, PrepareReady,
      Conclude, Save, Observe, Steps
<1>5. Apply(y) => UNCHANGED <<attempts, spent>> /\ Keeps
  BY <1>1, <1>2
  DEF Apply, ApplyCheck, ApplyJournal, ApplyStage, ApplyRecheck, ApplyReplace, ApplyConflict,
      ApplyError, ApplyInstalled, ApplyVerify, ApplyCommit, Conclude, Save, Observe, Steps
<1>6. Recover(y) => UNCHANGED <<attempts, spent>> /\ Keeps
  BY <1>1, <1>2, <1>3
  DEF Recover, RecoverRefused, CancelCheck, CancelEnd, RestoreSkip, RestoreConflict,
      RestoreDirect, RestoreStage, RestoreRecheck, RestoreReplace, RestoreError,
      RestoreGiveUp, RestoreEnd, ConfirmEntry, ConfirmConflict, ConfirmEnd,
      Conclude, Save, Observe, Steps
<1>7. Crash(y) => UNCHANGED <<attempts, spent>> /\ Keeps
  BY <1>1 DEF Crash
<1> QED
  BY <1>4, <1>5, <1>6, <1>7 DEF Keeps

\* A reservation takes an attempt that nobody has.
LEMMA ReserveReserves ==
  ASSUME BInv, NEW y \in Executors, NEW o \in Ops, Reserve(y, o)
  PROVE  Reservations'
<1> USE DEF BInv, RInv, IInv, TypeOK, LocalTyped, JournalTyped, Reservations
<1>1. /\ status' = status /\ spent' = spent
      /\ pc[y] = "idle" /\ y \in Models
      /\ pc' = [pc EXCEPT ![y] = "reserved"] /\ op' = [op EXCEPT ![y] = o]
  BY DEF Reserve, ghosts
<1>2. attempts[o] \in Nat /\ \A q \in Ops : attempts[q] \in Nat
  BY BoundsAssumption
<1>3. CASE status[o] = "recovered" /\ UNCHANGED <<attempts, ticket>>
  <2>1. ASSUME NEW x \in Models PROVE Reserved(x)'
    <3>1. x \in Executors /\ ticket[y] = 0 /\ Reserved(x)
      BY <1>1, SortsAssumption DEF Reserved
    <3> QED
      BY <1>1, <1>3, <3>1 DEF Reserved
  <2> QED
    BY <1>1, <1>3, <2>1
<1>4. CASE /\ attempts' = [attempts EXCEPT ![o] = @ + 1]
           /\ ticket' = [ticket EXCEPT ![y] = attempts[o] + 1]
  <2>1. \A q \in Ops : attempts'[q] \in Nat /\ attempts[q] <= attempts'[q]
    BY <1>2, <1>4
  <2>2. ASSUME NEW x \in Models, x # y PROVE Reserved(x)'
    <3>1. /\ x \in Executors /\ Reserved(x)
          /\ pc'[x] = pc[x] /\ op'[x] = op[x] /\ ticket'[x] = ticket[x]
      BY <1>1, <1>4, <2>2, SortsAssumption
    <3>2. pc[x] = "reserved" /\ ticket[x] # 0 =>
            ticket'[x] \in 1..attempts'[op[x]] /\ (op[x] = o => ticket[x] # attempts[o] + 1)
      BY <1>2, <2>1, <3>1 DEF Reserved
    <3> QED
      BY <1>1, <1>2, <1>4, <3>1, <3>2, SortsAssumption DEF Reserved
  <2>3. Reserved(y)'
    <3>1. ticket'[y] = attempts[o] + 1 /\ attempts'[o] = attempts[o] + 1
          /\ pc'[y] = "reserved" /\ op'[y] = o
      BY <1>1, <1>4
    <3>2. ticket'[y] # 0 /\ ticket'[y] \in 1..attempts'[o] /\ ticket'[y] \notin spent'[o]
      BY <1>1, <1>2, <3>1
    <3>3. ASSUME NEW x \in Models, x # y, pc'[x] = "reserved", op'[x] = o
          PROVE  ticket'[x] # ticket'[y]
      <4>1. /\ x \in Executors /\ Reserved(x) /\ pc[x] = "reserved" /\ op[x] = o
            /\ ticket'[x] = ticket[x]
        BY <1>1, <1>4, <3>3, SortsAssumption
      <4> QED
        BY <1>2, <3>1, <4>1 DEF Reserved
    <3> QED
      BY <3>1, <3>2, <3>3 DEF Reserved
  <2>4. \A q \in Ops : spent'[q] \subseteq 1..attempts'[q]
    BY <1>1, <1>2, <2>1
  <2> QED
    BY <2>2, <2>3, <2>4
<1> QED
  BY <1>3, <1>4 DEF Reserve

\* A dispatch spends the attempt its model reserved.
LEMMA DispatchSpends ==
  ASSUME BInv, [Next]_vars, NEW y \in Executors, NEW o \in Ops,
         CancelBegin(y, o) \/ RestoreBegin(y, o)
  PROVE  Reservations'
<1> USE DEF BInv, RInv, IInv, TypeOK, LocalTyped, JournalTyped, GhostsTyped, Reservations
<1>1. /\ MayRecover(y, o) /\ Dispatch(y, o) /\ status[o] # "recovered"
      /\ ticket' = ticket /\ attempts' = attempts
      /\ pc'[y] \notin {"idle", "reserved"}
      /\ \A x \in Executors \ {y} : pc'[x] = pc[x] /\ op'[x] = op[x]
  BY DEF CancelBegin, RestoreBegin, Enter, Save, journal, J!Restorable, J!InFlight
<1>2. y \in Models => pc[y] = "reserved" /\ op[y] = o /\ ticket[y] \in 1..attempts[o]
  BY <1>1 DEF MayRecover, Reserved
<1>3. \A q \in Ops : spent'[q] \subseteq spent[q] \cup {ticket[y]} /\ (q # o => spent'[q] = spent[q])
  BY <1>1 DEF Dispatch
<1>4. y \notin Models => spent' = spent
  BY <1>1 DEF Dispatch
<1>5. \A q \in Ops : spent'[q] \subseteq 1..attempts'[q]
  BY <1>1, <1>2, <1>3, <1>4
<1>6. ASSUME NEW x \in Models PROVE Reserved(x)'
  <2>1. CASE x = y
    BY <1>1, <2>1 DEF Reserved
  <2>2. CASE x # y
    <3>1. /\ x \in Executors /\ Reserved(x)
          /\ pc'[x] = pc[x] /\ op'[x] = op[x] /\ ticket'[x] = ticket[x]
      BY <1>1, <2>2, SortsAssumption
    <3>2. pc[x] = "reserved" /\ ticket[x] = 0 => status'[op[x]] = "recovered"
      BY <3>1, RecoveredFinal DEF Reserved
    <3>3. pc[x] = "reserved" /\ ticket[x] # 0 => ticket[x] \notin spent'[op[x]]
      BY <1>2, <1>3, <1>4, <2>2, <3>1 DEF Reserved
    <3>4. \A z \in Models : pc'[z] = "reserved" => pc[z] = "reserved" /\ op'[z] = op[z]
      BY <1>1, SortsAssumption
    <3> QED
      BY <1>1, <3>1, <3>2, <3>3, <3>4 DEF Reserved
  <2> QED
    BY <2>1, <2>2
<1> QED
  BY <1>5, <1>6

LEMMA StepReserves == BInv /\ [Next]_vars => BInv'
<1> SUFFICES ASSUME BInv, [Next]_vars PROVE Reservations'
  BY StepRefines DEF BInv
<1>0. IInv /\ Models \subseteq Executors
  BY SortsAssumption DEF BInv, RInv
<1>1. ASSUME NEW y \in Executors, Prepare(y) \/ Apply(y) \/ Recover(y) \/ Crash(y)
      PROVE  Reservations'
  BY <1>0, <1>1, StepsKeep, OthersStay, ReservationsKept
<1>2. ASSUME NEW y \in Executors, NEW o \in Ops, PrepareBegin(y, o) \/ ApplyBegin(y, o)
      PROVE  Reservations'
  <2>1. UNCHANGED <<attempts, spent, ticket>> /\ pc'[y] \notin {"idle", "reserved"}
    BY <1>0, <1>2
    DEF PrepareBegin, ApplyBegin, Enter, journal, ghosts, IInv, TypeOK, LocalTyped
  <2> QED
    BY <1>0, <1>2, <2>1, OthersStay, ReservationsKept DEF Call
<1>3. ASSUME NEW y \in Executors, NEW o \in Ops, Reconcile(y, o)
      PROVE  Reservations'
  BY <1>3, ReservationsKept DEF Reconcile, Save, local, ghosts
<1>4. CASE Environment \/ UNCHANGED vars
  BY <1>4, ReservationsKept
  DEF Environment, ForeignWrite, ForeignLateWrite, Damage, vars, journal, local, ghosts
<1> QED
  BY <1>1, <1>2, <1>3, <1>4, ReserveReserves, DispatchSpends DEF Next, Call, Settled

\* However often a model retries, crashes or competes with others, it dispatches at
\* most MaxRepair repairs of an operation, each under an attempt of its own
\* (repair_budget.go:13-48, tools/recovery.go:153-157).
THEOREM BudgetKept == Spec => []RepairBudget
<1>1. Init => BInv
  <2>1. Init => Reservations
    BY SortsAssumption DEF Init, Reservations, Reserved
  <2> QED
    BY <2>1, InitInv DEF BInv, RInv, Init, J!UnappliedIsUntouched
<1>2. BInv => RepairBudget
  BY BoundsAssumption
  DEF BInv, RInv, IInv, TypeOK, JournalTyped, Reservations, Reserved, RepairBudget
<1> QED
  BY <1>1, <1>2, StepReserves, PTL DEF Spec

-----------------------------------------------------------------------------
\* The artifacts of a prepared operation.

\* The original and the candidate of a change are on disk, or were damaged.
Whole(o, c) ==
  \/ <<o, c.path>> \in damaged
  \/ /\ Exists(before[o][c.path]) => backup[o][c.path] = before[o][c.path].content
     /\ Exists(After(c)) => candidate[o][c.path] = c.content

Preserved(x) ==
  pc[x] = "backup" =>
    at[x] >= 1 /\ \A i \in 1..Len(Request[op[x]]) :
                    i < at[x] => Whole(op[x], Request[op[x]][i])

PInv == RInv /\ ReadyArtifactsWhole /\ \A x \in Executors : Preserved(x)

\* Every change of a request names a target file.
LEMMA ChangePaths ==
  ASSUME NEW o \in Ops, NEW i \in 1..Len(Request[o])
  PROVE  Request[o][i] \in Change /\ Request[o][i].path \in Paths
<1>1. Request[o] \in Seq(Change)
  BY RequestAssumption
<1>2. Request[o][i] \in Change
  BY <1>1
<1> QED
  BY <1>2 DEF Change

\* The plan and the artifacts of an operation are as they were, or damaged.
Untouched(o) ==
  /\ damaged \subseteq damaged'
  /\ \A p \in Paths :
       /\ before'[o][p] = before[o][p]
       /\ \/ <<o, p>> \in damaged'
          \/ backup'[o][p] = backup[o][p] /\ candidate'[o][p] = candidate[o][p]

LEMMA WholeKept ==
  ASSUME NEW o \in Ops, NEW c, c.path \in Paths, Whole(o, c), Untouched(o)
  PROVE  Whole(o, c)'
BY DEF Whole, Untouched

\* Only the call that prepares an operation writes its plan and artifacts.
LEMMA ArtifactsKept ==
  ASSUME IInv, NEW y \in Executors, NEW o \in Ops,
         Prepare(y) \/ Apply(y) \/ Recover(y) \/ Crash(y) \/ \E q \in Ops : Call(y, q),
         ~(pc[y] \in {"scan", "backup"} /\ op[y] = o)
  PROVE  Untouched(o)
<1> USE DEF assets, journal, ghosts
<1>1. CASE UNCHANGED <<before, backup, candidate, damaged>>
  BY <1>1 DEF Untouched
<1>2. CASE Prepare(y)
  <2>1. pc[y] \in {"scan", "backup"} /\ op[y] # o
    BY <1>2
    DEF Prepare, PrepareScan, PrepareJournal, PrepareBackup, PrepareFail, PrepareReady
  <2>2. op[y] \in Ops
    BY <2>1 DEF IInv, Control, Controlled
  <2>3. /\ before'[o] = before[o] /\ backup'[o] = backup[o] /\ candidate'[o] = candidate[o]
        /\ damaged' = damaged
    BY <1>2, <2>1, <2>2
    DEF Prepare, PrepareScan, PrepareJournal, PrepareBackup, PrepareFail, PrepareReady,
        Conclude, Save, Observe, IInv, TypeOK, AssetsTyped, JournalTyped
  <2> QED
    BY <2>3 DEF Untouched
<1>3. CASE Crash(y)
  <2>1. CASE pc[y] = "backup" /\ op[y] # o
    <3>1. op[y] \in Ops
      BY <2>1 DEF IInv, Control, Controlled
    <3>2. /\ before'[o] = before[o] /\ backup'[o] = backup[o] /\ candidate'[o] = candidate[o]
          /\ damaged' = damaged
      BY <1>3, <2>1, <3>1 DEF Crash, IInv, TypeOK, AssetsTyped, JournalTyped
    <3> QED
      BY <3>2 DEF Untouched
  <2>2. CASE pc[y] # "backup"
    BY <1>1, <1>3, <2>2 DEF Crash
  <2> QED
    BY <2>1, <2>2
<1>4. CASE Apply(y)
  BY <1>1, <1>4
  DEF Apply, ApplyCheck, ApplyJournal, ApplyStage, ApplyRecheck, ApplyReplace, ApplyConflict,
      ApplyError, ApplyInstalled, ApplyVerify, ApplyCommit, Conclude, Save, Observe
<1>5. CASE Recover(y)
  BY <1>1, <1>5
  DEF Recover, RecoverRefused, CancelCheck, CancelEnd, RestoreSkip, RestoreConflict,
      RestoreDirect, RestoreStage, RestoreRecheck, RestoreReplace, RestoreError,
      RestoreGiveUp, RestoreEnd, ConfirmEntry, ConfirmConflict, ConfirmEnd,
      Conclude, Save, Observe
<1>6. CASE \E q \in Ops : Call(y, q)
  BY <1>1, <1>6
  DEF Call, PrepareBegin, ApplyBegin, Reserve, CancelBegin, RestoreBegin, Reconcile, Dispatch, Save
<1> QED
  BY <1>2, <1>3, <1>4, <1>5, <1>6

LEMMA EnvironmentDamages ==
  ASSUME IInv, Environment, NEW o \in Ops
  PROVE  Untouched(o)
<1>1. ASSUME NEW q \in Ops, NEW p \in Paths, Damage(q, p) PROVE Untouched(o)
  BY <1>1 DEF Damage, Untouched, journal, IInv, TypeOK, AssetsTyped
<1>2. ASSUME NEW q \in Ops, NEW p \in Paths, ForeignLateWrite(q, p) PROVE Untouched(o)
  BY <1>2 DEF ForeignLateWrite, Untouched, assets, journal, ghosts
<1>3. ASSUME NEW p \in Paths, ForeignWrite(p) PROVE Untouched(o)
  BY <1>3 DEF ForeignWrite, Untouched, assets, journal
<1> QED
  BY <1>1, <1>2, <1>3 DEF Environment

\* The lifecycle has one way past preparation.
LEMMA OnlyReadyFollows ==
  ASSUME RInv, [Next]_vars, NEW o \in Ops,
         status[o] \in {"none", "preparing", "preparation_failed"},
         status'[o] \notin {"none", "preparing", "preparation_failed"}
  PROVE  status[o] = "preparing" /\ status'[o] = "ready"
<1>1. [J!Next]_(J!vars)
  BY StepMoves
<1> QED
  BY <1>1
  DEF RInv, IInv, TypeOK, JournalTyped, J!Next, J!vars, J!Record, J!Cancel, J!Restored, J!Change,
      J!Moves, J!Restorable, J!InFlight

\* And that is the end of Prepare.
LEMMA ReadyIsPrepared ==
  ASSUME IInv, NEW y \in Executors, NEW o \in Ops,
         status[o] = "preparing", status'[o] = "ready",
         Prepare(y) \/ Apply(y) \/ Recover(y) \/ Crash(y) \/ \E q \in Ops : Call(y, q)
  PROVE  PrepareReady(y) /\ op[y] = o
<1> USE DEF IInv, TypeOK, JournalTyped, Save, Conclude, journal
<1>1. Prepare(y) => PrepareReady(y)
  BY DEF Prepare, PrepareScan, PrepareJournal, PrepareBackup, PrepareFail
<1>2. ~Apply(y)
  BY DEF Apply, ApplyCheck, ApplyJournal, ApplyStage, ApplyRecheck, ApplyReplace, ApplyConflict,
         ApplyError, ApplyInstalled, ApplyVerify, ApplyCommit
<1>3. ~Recover(y)
  BY DEF Recover, RecoverRefused, CancelCheck, CancelEnd, RestoreSkip, RestoreConflict,
         RestoreDirect, RestoreStage, RestoreRecheck, RestoreReplace, RestoreError,
         RestoreGiveUp, RestoreEnd, ConfirmEntry, ConfirmConflict, ConfirmEnd
<1>4. ~Crash(y)
  BY DEF Crash
<1>5. ~\E q \in Ops : Call(y, q)
  BY DEF Call, PrepareBegin, ApplyBegin, Reserve, CancelBegin, RestoreBegin, Reconcile, Interrupted
<1>6. PrepareReady(y) => op[y] = o
  BY DEF PrepareReady
<1> QED
  BY <1>1, <1>2, <1>3, <1>4, <1>5, <1>6

\* Each entry's artifacts are written before the next one is begun.
LEMMA BackupPreserves ==
  ASSUME PInv, NEW y \in Executors, pc'[y] = "backup",
         Prepare(y) \/ Apply(y) \/ Recover(y) \/ Crash(y) \/ \E q \in Ops : Call(y, q)
  PROVE  Preserved(y)'
<1> USE DEF PInv, RInv, IInv, TypeOK, LocalTyped
<1>1. PrepareJournal(y) \/ PrepareBackup(y)
  <2>1. Prepare(y) => PrepareJournal(y) \/ PrepareBackup(y)
    BY DEF Prepare, PrepareScan, PrepareFail, PrepareReady, Conclude, Goto, Leave
  <2>2. ~Apply(y)
    BY DEF Apply, ApplyCheck, ApplyJournal, ApplyStage, ApplyRecheck, ApplyReplace,
           ApplyConflict, ApplyError, ApplyInstalled, ApplyVerify, ApplyCommit,
           Conclude, Goto, Leave
  <2>3. ~Recover(y)
    BY DEF Recover, RecoverRefused, CancelCheck, CancelEnd, RestoreSkip, RestoreConflict,
           RestoreDirect, RestoreStage, RestoreRecheck, RestoreReplace, RestoreError,
           RestoreGiveUp, RestoreEnd, ConfirmEntry, ConfirmConflict, ConfirmEnd,
           Conclude, Goto, Leave, NextEntry
  <2>4. ~Crash(y)
    BY DEF Crash, Leave
  <2>5. ~\E q \in Ops : Call(y, q)
    BY DEF Call, PrepareBegin, ApplyBegin, Reserve, CancelBegin, RestoreBegin, Reconcile,
           Enter, local
  <2> QED
    BY <2>1, <2>2, <2>3, <2>4, <2>5
<1>2. CASE PrepareJournal(y)
  BY <1>2 DEF PrepareJournal, Goto, Preserved
<1>3. CASE PrepareBackup(y)
  <2>1. /\ pc[y] = "backup" /\ op[y] \in Ops /\ More(y)
        /\ op'[y] = op[y] /\ at'[y] = at[y] + 1 /\ at[y] \in Nat
    BY <1>3 DEF PrepareBackup, Goto, Control, Controlled
  <2>2. Path(y) \in Paths
    BY <2>1, EntryTyped
  <2>3. before' = before /\ damaged' = damaged
    BY <1>3 DEF PrepareBackup, journal, ghosts
  <2>4. /\ backup'[op[y]][Path(y)] = Before(y).content
        /\ candidate'[op[y]][Path(y)] = After(Entry(y)).content
    BY <1>3, <2>1, <2>2 DEF PrepareBackup, AssetsTyped
  <2>5. \A p \in Paths \ {Path(y)} : /\ backup'[op[y]][p] = backup[op[y]][p]
                                     /\ candidate'[op[y]][p] = candidate[op[y]][p]
    BY <1>3, <2>1, <2>2 DEF PrepareBackup, AssetsTyped
  <2>6. ASSUME NEW i \in 1..Len(Request[op[y]]), i < at[y] + 1
        PROVE  Whole(op[y], Request[op[y]][i])'
    <3>1. CASE i = at[y]
      BY <2>1, <2>3, <2>4, <3>1 DEF Whole, Entry, Path, Before, After, Exists
    <3>2. CASE i # at[y]
      <4>1. Whole(op[y], Request[op[y]][i])
        BY <2>1, <2>6, <3>2 DEF Preserved
      <4>2. Request[op[y]][i].path \in Paths \ {Path(y)}
        BY <2>1, <3>2, ChangePaths, RequestAssumption DEF More, Path, Entry
      <4> QED
        BY <2>1, <2>3, <2>5, <4>1, <4>2 DEF Whole
    <3> QED
      BY <3>1, <3>2
  <2> QED
    BY SMTT(30), <2>1, <2>6 DEF Preserved, Whole
<1> QED
  BY <1>1, <1>2, <1>3

LEMMA StepPreserves == PInv /\ [Next]_vars => PInv'
<1> SUFFICES ASSUME PInv, [Next]_vars
             PROVE  ReadyArtifactsWhole' /\ \A x \in Executors : Preserved(x)'
  BY StepRefines DEF PInv
<1> DEFINE Early == {"none", "preparing", "preparation_failed"}
<1>0. RInv /\ IInv
  BY DEF PInv, RInv
<1>1. ASSUME NEW o \in Ops, NEW c \in Changes(o), status[o] \notin Early
      PROVE  Whole(o, c)
  BY <1>1 DEF PInv, ReadyArtifactsWhole, Whole
<1>2. ASSUME NEW o \in Ops, NEW c \in Changes(o) PROVE c.path \in Paths
  BY <1>2, ChangePaths DEF Changes
<1>3. (\A o \in Ops : \A c \in Changes(o) : status'[o] \notin Early => Whole(o, c)')
        => ReadyArtifactsWhole'
  BY DEF ReadyArtifactsWhole, Whole
<1>4. ASSUME NEW y \in Executors,
             Prepare(y) \/ Apply(y) \/ Recover(y) \/ Crash(y) \/ \E q \in Ops : Call(y, q)
      PROVE  ReadyArtifactsWhole' /\ \A x \in Executors : Preserved(x)'
  <2>1. ASSUME NEW o \in Ops, NEW c \in Changes(o), status'[o] \notin Early
        PROVE  Whole(o, c)'
    <3>1. CASE status[o] \notin Early
      <4>1. ~(pc[y] \in {"scan", "backup"} /\ op[y] = o)
        BY <1>0, <3>1, IntentOf DEF IInv, Control, Controlled
      <4> QED
        BY <1>0, <1>1, <1>2, <1>4, <3>1, <4>1, ArtifactsKept, WholeKept
    <3>2. CASE status[o] \in Early
      <4>1. PrepareReady(y) /\ op[y] = o
        BY <1>0, <1>4, <2>1, <3>2, OnlyReadyFollows, ReadyIsPrepared
      <4>2. UNCHANGED <<before, backup, candidate, damaged>> /\ pc[y] = "backup" /\ ~More(y)
        BY <4>1 DEF PrepareReady, Conclude, Save, assets, ghosts
      <4>3. PICK i \in 1..Len(Request[o]) : c = Request[o][i]
        BY DEF Changes
      <4>4. at[y] \in Nat /\ at[y] >= 1 /\ Len(Request[o]) \in Nat
        BY <1>0, <4>2, RequestAssumption DEF PInv, Preserved, IInv, TypeOK, LocalTyped
      <4>5. Whole(o, c)
        BY <4>1, <4>2, <4>3, <4>4 DEF PInv, Preserved, More
      <4> QED
        BY <4>2, <4>5 DEF Whole
    <3> QED
      BY <3>1, <3>2
  <2>2. ASSUME NEW x \in Executors, x # y PROVE Preserved(x)'
    <3> SUFFICES ASSUME pc'[x] = "backup" PROVE Preserved(x)'
      BY DEF Preserved
    <3>1. pc[x] = "backup" /\ op'[x] = op[x] /\ at'[x] = at[x]
      BY <1>0, <1>4, <2>2, OthersStay
    <3>2. op[x] \in Ops /\ lock = x
      BY <1>0, <3>1 DEF IInv, Control, Controlled, Working
    <3>3. pc[y] \notin {"scan", "backup"}
      BY <1>0, <2>2, <3>2 DEF IInv, Control, Controlled, Working
    <3>4. Untouched(op[x])
      BY <1>0, <1>4, <3>2, <3>3, ArtifactsKept
    <3> QED
      BY <3>1, <3>2, <3>4, ChangePaths, WholeKept DEF PInv, Preserved
  <2>3. Preserved(y)'
    BY <1>4, BackupPreserves DEF Preserved
  <2> QED
    BY <1>3, <2>1, <2>2, <2>3
<1>5. ASSUME \A o \in Ops : Untouched(o), UNCHANGED <<status, pc, op, at>>
      PROVE  ReadyArtifactsWhole' /\ \A x \in Executors : Preserved(x)'
  <2>1. ASSUME NEW o \in Ops, NEW c \in Changes(o), status'[o] \notin Early
        PROVE  Whole(o, c)'
    BY <1>1, <1>2, <1>5, <2>1, WholeKept
  <2>2. ASSUME NEW x \in Executors, pc[x] = "backup" PROVE Preserved(x)'
    <3>1. op[x] \in Ops
      BY <1>0, <2>2 DEF IInv, Control, Controlled
    <3> QED
      BY <1>5, <2>2, <3>1, ChangePaths, WholeKept DEF PInv, Preserved
  <2> QED
    BY <1>3, <1>5, <2>1, <2>2 DEF Preserved
<1>6. CASE Environment
  <2>1. UNCHANGED <<status, pc, op, at>>
    BY <1>6 DEF Environment, ForeignWrite, ForeignLateWrite, Damage, journal, local
  <2> QED
    BY <1>0, <1>5, <1>6, <2>1, EnvironmentDamages
<1>7. CASE UNCHANGED vars
  BY <1>5, <1>7 DEF Untouched, vars, assets, journal, local, ghosts
<1> QED
  BY <1>4, <1>6, <1>7 DEF Next, Settled

\* Whatever crashed while they were written, the originals and candidates of an
\* operation that may be applied or recovered are whole on disk, unless they were
\* damaged from outside (engine.go:346-378).
THEOREM ArtifactsAreWhole == Spec => []ReadyArtifactsWhole
<1>1. Init => PInv
  <2>1. Init => ReadyArtifactsWhole /\ \A x \in Executors : Preserved(x)
    BY DEF Init, ReadyArtifactsWhole, Preserved
  <2> QED
    BY <2>1, InitInv DEF PInv, RInv, Init, J!UnappliedIsUntouched
<1>2. PInv => ReadyArtifactsWhole
  BY DEF PInv
<1> QED
  BY <1>1, <1>2, StepPreserves, PTL DEF Spec
=============================================================================
