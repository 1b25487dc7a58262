----------------------------- MODULE SystemCron -----------------------------
(***************************************************************************)
(* The user's crontab (systemcron/systemcron.go, tools/system_cron.go,     *)
(* cmd/cron.go).  A change is prepared from the content that crontab -l    *)
(* prints, shown as a diff, confirmed, and installed as a whole; other     *)
(* programs and other callers edit the same crontab meanwhile.             *)
(*                                                                         *)
(* A line is a cron command (commented out when off), the metadata line    *)
(* that names the command below it, another comment, an environment        *)
(* assignment, a blank line or something else.  The program writes a       *)
(* metadata line directly above its command, and other programs leave the  *)
(* two together.                                                           *)
(***************************************************************************)
EXTENDS Naturals, Sequences, SequencesExt, FiniteSets, FiniteSetsExt

CONSTANTS
  CronIds,          \* ids newCronID may draw
  Commands,         \* what a cron line may run
  CronCallers,      \* command lines and tools that edit the crontab
  FirstTab,         \* the crontab found
  MaxForeign,       \* bound: edits by other programs
  MaxChanges        \* bound: changes prepared

VARIABLES
  crontab,          \* sequence of lines
  mutation,         \* [CronCallers -> what the caller prepared, or NoMutation]
  spent,            \* ids drawn
  foreign,          \* edits by other programs so far
  changes           \* changes prepared so far

cronVars == <<crontab, mutation, spent, foreign, changes>>

NoId == "no id"
NoText == ""
NoMutation == [action |-> "none"]

TabLines == [kind : {"cron", "meta", "comment", "env", "blank", "other"},
             id : CronIds \cup {NoId}, text : Commands \cup {NoText}, off : BOOLEAN]
Line(kind, id, text, off) == [kind |-> kind, id |-> id, text |-> text, off |-> off]
CronLine(text) == Line("cron", NoId, text, FALSE)
Metadata(id) == Line("meta", id, NoText, FALSE)
Comment == Line("comment", NoId, NoText, FALSE)

\* A metadata line that names an id stands directly above a command.
Tidy(content) ==
  \A i \in 1..Len(content) :
    content[i].kind = "meta" /\ content[i].id # NoId =>
      i < Len(content) /\ content[i + 1].kind = "cron"

ASSUME CronAssumption == FirstTab \in Seq(TabLines) /\ Tidy(FirstTab)

\* splitLines: trailing empty lines are cut.
SplitLines(content) ==
  SubSeq(content, 1, Max({0} \cup {i \in 1..Len(content) : content[i].kind # "blank"}))

\* Parse: an id stands until a command takes it or a line that is neither a
\* command nor a comment drops it.
IdAt(content, i) ==
  LET above == {j \in 1..(i - 1) : content[j].kind # "comment"}
  IN  IF above # {} /\ content[Max(above)].kind = "meta" THEN content[Max(above)].id ELSE NoId

Parse(content) ==
  {[id |-> IdAt(content, i), line |-> i, raw |-> content[i]] :
     i \in {j \in 1..Len(content) : content[j].kind = "cron"}}

\* findEntry: the first entry with that id, that text, or that line number,
\* counted from one or from zero.
Finds(entry, target) ==
  CASE target.by = "id" -> entry.id = target.id
    [] target.by = "hash" -> entry.raw = target.line
    [] target.by = "line" -> target.number \in {entry.line, entry.line - 1}

Found(content, target) ==
  LET hits == {entry \in Parse(content) : Finds(entry, target)}
  IN  {entry \in hits : \A other \in hits : entry.line <= other.line}

\* Variant: only the command is removed, its metadata stays behind.
WithoutCommand(lines, entry) == RemoveAt(lines, entry.line)
\* The metadata goes with its command when it is the line above.
Without(lines, entry) ==
  IF entry.id # NoId /\ lines[entry.line - 1].kind = "meta"
  THEN SubSeq(lines, 1, entry.line - 2) \o SubSeq(lines, entry.line + 1, Len(lines))
  ELSE RemoveAt(lines, entry.line)

Rewrite(lines, entry, action, text) ==
  CASE action = "remove" -> Without(lines, entry)
    [] action = "update" -> [lines EXCEPT ![entry.line] = CronLine(text)]
    [] action = "enable" -> [lines EXCEPT ![entry.line].off = FALSE]
    [] action = "disable" -> [lines EXCEPT ![entry.line].off = TRUE]

\* The new content ends with its last line that is not empty.
Prepared(action, entry, new) ==
  [action |-> action, entry |-> entry, old |-> crontab, new |-> SplitLines(new)]

\* Client.Add: a name becomes a comment above the metadata.
PrepareAdd(x, id, text, named) ==
  /\ mutation[x] = NoMutation /\ changes < MaxChanges /\ id \notin spent
  /\ mutation' = [mutation EXCEPT ![x] =
       Prepared("add", [id |-> id, line |-> 0, raw |-> CronLine(text)],
                SplitLines(crontab) \o (IF named THEN <<Comment>> ELSE <<>>)
                  \o <<Metadata(id), CronLine(text)>>)]
  /\ spent' = spent \cup {id}
  /\ changes' = changes + 1
  /\ UNCHANGED <<crontab, foreign>>

\* Client.rewrite, for update, remove, enable and disable; no entry is an error.
PrepareRewrite(x, action, target, text) ==
  /\ mutation[x] = NoMutation /\ changes < MaxChanges
  /\ \E entry \in Found(crontab, target) :
       mutation' = [mutation EXCEPT ![x] =
         Prepared(action, entry, Rewrite(SplitLines(crontab), entry, action, text))]
  /\ changes' = changes + 1
  /\ UNCHANGED <<crontab, spent, foreign>>

\* The diff is confirmed and the whole new content installed.
Apply(x) ==
  /\ mutation[x] # NoMutation
  /\ crontab' = mutation[x].new
  /\ mutation' = [mutation EXCEPT ![x] = NoMutation]
  /\ UNCHANGED <<spent, foreign, changes>>

\* The change is not confirmed, or crontab refuses it.
Abandon(x) ==
  /\ mutation[x] # NoMutation
  /\ mutation' = [mutation EXCEPT ![x] = NoMutation]
  /\ UNCHANGED <<crontab, spent, foreign, changes>>

\* Another program appends lines of its own, or takes one of them away.
Foreign ==
  /\ foreign < MaxForeign
  /\ foreign' = foreign + 1
  /\ \/ \E text \in Commands : crontab' = Append(crontab, CronLine(text))
     \/ crontab' = crontab \o <<Comment, Line("env", NoId, NoText, FALSE)>>
     \/ crontab' = Append(crontab, Line("blank", NoId, NoText, FALSE))
     \/ \E i \in 1..Len(crontab) :
          /\ crontab[i].kind # "meta" /\ (i > 1 => crontab[i - 1].kind # "meta")
          /\ crontab' = RemoveAt(crontab, i)
  /\ UNCHANGED <<mutation, spent, changes>>

Targets ==
  {[by |-> "id", id |-> id] : id \in CronIds}
    \cup {[by |-> "line", number |-> n] : n \in 0..Len(crontab)}
    \cup {[by |-> "hash", line |-> crontab[i]] : i \in 1..Len(crontab)}

CronInit ==
  /\ crontab = FirstTab /\ mutation = [x \in CronCallers |-> NoMutation]
  /\ spent = {} /\ foreign = 0 /\ changes = 0

CronNext ==
  \/ \E x \in CronCallers :
       \/ \E id \in CronIds, text \in Commands, named \in BOOLEAN : PrepareAdd(x, id, text, named)
       \/ \E target \in Targets, text \in Commands :
            PrepareRewrite(x, "update", target, text)
       \/ \E action \in {"remove", "enable", "disable"}, target \in Targets :
            PrepareRewrite(x, action, target, NoText)
       \/ Apply(x)
       \/ Abandon(x)
  \/ Foreign

CronSpec == CronInit /\ [][CronNext]_cronVars

-----------------------------------------------------------------------------
\* What the crontab says besides line n: the other commands, with the ids they
\* go by, and the comments, assignments and other lines.
Rest(content, n) == {i \in 1..Len(content) : i # n /\ content[i].kind \notin {"meta", "blank"}}
Says(content, i) == <<content[i], IF content[i].kind = "cron" THEN IdAt(content, i) ELSE NoId>>
Rank(i, lines) == Cardinality({j \in lines : j <= i})

SameRest(old, m, new, n) ==
  /\ Cardinality(Rest(old, m)) = Cardinality(Rest(new, n))
  /\ \A i \in Rest(old, m), j \in Rest(new, n) :
       Rank(i, Rest(old, m)) = Rank(j, Rest(new, n)) => Says(old, i) = Says(new, j)

\* The entry is gone, or it is a command that answers to the same id; the rest
\* is the same in the same order.
Kept(old, new, action, entry) ==
  \E n \in 0..Len(new) :
    /\ n = 0 <=> action = "remove"
    /\ n > 0 => new[n].kind = "cron" /\ IdAt(new, n) = entry.id
    /\ SameRest(old, entry.line, new, n)

\* The new entry is the last line and answers to its id; every line stays where
\* it was, but for blank ones at the end, and no other command appears.
Added(old, new, entry) ==
  /\ new # <<>> /\ new[Len(new)] = entry.raw /\ IdAt(new, Len(new)) = entry.id
  /\ \A i \in 1..Len(old) : old[i].kind # "blank" => i < Len(new) /\ Says(new, i) = Says(old, i)
  /\ \A i \in 1..(Len(new) - 1) : new[i].kind = "cron" => i <= Len(old)

AsShown(change, new) ==
  IF change.action = "add" THEN Added(change.old, new, change.entry)
  ELSE Kept(change.old, new, change.action, change.entry)

\* Whatever other callers and programs did to the crontab since it was listed, a
\* confirmed change installs the table that the diff was made from with the one
\* entry it names added, changed or gone: every other command of that table keeps
\* its line, its state and the id it answers to, and every comment and assignment
\* stays (Client.Add, Client.rewrite, Client.Apply).
OthersAreKept ==
  [][\A x \in CronCallers :
       mutation[x] # NoMutation /\ mutation'[x] = NoMutation => AsShown(mutation[x], crontab')]_crontab

=============================================================================
