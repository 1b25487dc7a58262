----------------------------- MODULE ShellSyntax -----------------------------
(***************************************************************************)
(* How the shell tool reads a command line (tools/shell.go): the parser    *)
(* that splits it at control operators and refuses what it does not        *)
(* support, the normal form that names a segment in remembered approvals,  *)
(* the words and redirections the policy sees, and the approvals of the    *)
(* legacy allowlist mode, which are remembered segment by segment.         *)
(*                                                                         *)
(* A command line is a sequence of characters of the alphabet below.  "sp" *)
(* is a blank, "nl" a line break, "bs" a backslash; "subst" stands for a   *)
(* back quote or "$(", "bad" for a process substitution or a heredoc that  *)
(* parseQuotedHeredoc refuses, and "doc" for a whole quoted heredoc, which *)
(* it accepts and takes into the segment unread.                           *)
(***************************************************************************)
EXTENDS Naturals, Sequences, SequencesExt, FiniteSets, FiniteSetsExt

CONSTANTS
  Alphabet,         \* the characters a command line is typed with
  MaxLength,        \* bound: characters typed
  Lines,            \* the command lines given to the tool
  Allowed           \* allowedCommands: names, and names with a verb, that need no approval

\* The characters the shell does not take as they are.
Marks == {"sp", "nl", "sq", "dq", "bs", "semi", "bar", "amp", "subst", "gt", "lt", "doc", "bad"}

\* Lines are texts, and an allowed name is written without quotes and operators,
\* its verb behind a blank.
ASSUME ShellAssumption ==
  /\ \A line \in Lines : line \in Seq(ToSet(line))
  /\ \A name \in Allowed : ToSet(name) \cap (Marks \ {"sp"}) = {}

VARIABLES
  typed,            \* the line typed so far
  approved,         \* approvedCommands: the normal forms remembered
  consented,        \* ghost: the words of the segments the user agreed to remember
  ran               \* ghost: the last line that ran, and whether anyone was asked

syntaxVars == <<typed, approved, consented, ran>>

Blank == {"sp", "nl"}
Quotes == {"sq", "dq"}
NoQuote == "none"
\* The line, or the segment, ends here.
End == "end"
Closes(quote, c) == quote = c

-----------------------------------------------------------------------------
(* trimShellBoundaryWhitespace *)

Escaped(s, n) ==
  LET before == Max({m \in 0..(n - 1) : m = 0 \/ s[m] # "bs"})
  IN  (n - 1 - before) % 2 = 1

TrimLeft(s) == LET ink == {i \in 1..Len(s) : s[i] \notin Blank}
               IN  IF ink = {} THEN <<>> ELSE SubSeq(s, Min(ink), Len(s))

HasHeredoc(s) ==
  \/ \E i \in 1..Len(s) : s[i] = "doc"
  \/ \E i \in 1..(Len(s) - 1) : s[i] = "lt" /\ s[i + 1] = "lt"

\* Variant: an escaped blank is cut as well.
TrimEndBlindly(s) == SubSeq(s, 1, Max({0} \cup {i \in 1..Len(s) : s[i] \notin Blank}))
\* Blanks are cut from the end, but for one that is escaped.
TrimEnd(s) == SubSeq(s, 1, Max({0} \cup {i \in 1..Len(s) : s[i] \notin Blank \/ Escaped(s, i)}))

Trim(s) == LET left == TrimLeft(s) IN IF HasHeredoc(left) THEN left ELSE TrimEnd(left)

-----------------------------------------------------------------------------
(* normalizeShellWhitespace: blanks between words become one space. *)

Emit(st, c) ==
  [st EXCEPT !.out = IF st.pending /\ @ # <<>> THEN @ \o <<"sp", c>> ELSE Append(@, c),
             !.pending = FALSE]

NormalizeChar(st, c) ==
  IF st.escaped THEN [Emit(st, c) EXCEPT !.escaped = FALSE]
  ELSE CASE st.quote = "sq" -> [st EXCEPT !.out = Append(@, c), !.quote = IF c = "sq" THEN NoQuote ELSE @]
         [] st.quote = "dq" -> [st EXCEPT !.out = Append(@, c), !.escaped = c = "bs",
                                          !.quote = IF c = "dq" THEN NoQuote ELSE @]
         [] st.quote = NoQuote /\ c = "sp" -> [st EXCEPT !.pending = st.out # <<>>]
         [] OTHER -> [Emit(st, c) EXCEPT !.escaped = c = "bs", !.quote = IF c \in Quotes THEN c ELSE @]

NormalStart == [out |-> <<>>, quote |-> NoQuote, escaped |-> FALSE, pending |-> FALSE]

Spaced(s) ==
  LET after[n \in 0..Len(s)] == IF n = 0 THEN NormalStart ELSE NormalizeChar(after[n - 1], s[n])
  IN  after[Len(s)]
Normalize(s) == Trim(Spaced(Trim(s)).out)

-----------------------------------------------------------------------------
(* ParseShellCommand *)

Refused == [segments |-> <<>>, operators |-> <<>>]

Fail(st) == [st EXCEPT !.error = TRUE]
Put(st, c) == [st EXCEPT !.current = Append(@, c)]

Segment(raw, heredoc) ==
  [command |-> raw, normalized |-> IF heredoc THEN raw ELSE Normalize(raw), heredoc |-> heredoc]

\* flush: the current text becomes a segment; nothing before an operator is an error.
Flush(st, operator) ==
  LET raw == Trim(st.current)
  IN  IF raw = <<>>
      THEN IF operator = End /\ st.segments # <<>> THEN st ELSE Fail(st)
      ELSE [st EXCEPT
             !.segments = Append(@, Segment(raw, st.heredoc)),
             !.operators = IF operator = End THEN @ ELSE Append(@, operator),
             !.current = <<>>, !.heredoc = FALSE]

Unquoted(st, c, next) ==
  CASE c \in Quotes -> [Put(st, c) EXCEPT !.quote = c]
    [] c = "bs" -> [Put(st, c) EXCEPT !.escaped = TRUE]
    [] c = "nl" -> IF \A i \in 1..Len(st.current) : st.current[i] \in Blank THEN st ELSE Flush(st, "nl")
    [] c \in {"subst", "bad"} -> Fail(st)
    [] c = "lt" /\ next = "lt" -> Fail(st)
    [] c = "doc" -> [Put(st, c) EXCEPT !.heredoc = TRUE]
    [] c = "bar" /\ next = "bar" -> [Flush(st, "or") EXCEPT !.skip = TRUE]
    [] c = "bar" /\ next # "bar" -> Flush(st, "bar")
    [] c = "amp" /\ st.current # <<>> /\ Last(st.current) = "gt" -> Put(st, c)
    [] c = "amp" /\ (st.current = <<>> \/ Last(st.current) # "gt") ->
         IF next = "amp" THEN [Flush(st, "and") EXCEPT !.skip = TRUE] ELSE Fail(st)
    [] c = "semi" -> Flush(st, "semi")
    [] OTHER -> Put(st, c)

Quoted(st, c) ==
  CASE st.quote = "sq" -> [Put(st, c) EXCEPT !.quote = IF c = "sq" THEN NoQuote ELSE @]
    [] st.quote = "dq" ->
         IF c = "subst" THEN Fail(st)
         ELSE [Put(st, c) EXCEPT !.escaped = c = "bs", !.quote = IF c = "dq" THEN NoQuote ELSE @]

ParseChar(st, c, next) ==
  IF st.error THEN st
  ELSE IF st.skip THEN [st EXCEPT !.skip = FALSE]
  ELSE IF st.escaped THEN IF c = "nl" THEN Fail(st) ELSE [Put(st, c) EXCEPT !.escaped = FALSE]
  ELSE IF st.quote # NoQuote THEN Quoted(st, c)
  ELSE Unquoted(st, c, next)

ScanStart == [segments |-> <<>>, operators |-> <<>>, current |-> <<>>, quote |-> NoQuote,
              escaped |-> FALSE, heredoc |-> FALSE, skip |-> FALSE, error |-> FALSE]

\* The loop over the characters, each parsed with a look at the one after
\* it; beyond the last one the loop sees next.
Reads(s, next) ==
  LET after[n \in 0..Len(s)] ==
        IF n = 0 THEN ScanStart
        ELSE ParseChar(after[n - 1], s[n], IF n < Len(s) THEN s[n + 1] ELSE next)
  IN  after[Len(s)]
Scan(s) == Reads(s, End)

ParseShellCommand(command) ==
  LET scanned == Scan(Trim(command))
      whole == IF scanned.escaped \/ scanned.quote # NoQuote THEN Fail(scanned) ELSE Flush(scanned, End)
  IN  IF whole.error \/ Len(whole.operators) >= Len(whole.segments) THEN Refused
      ELSE [segments |-> whole.segments, operators |-> whole.operators]

-----------------------------------------------------------------------------
(* tokenizePolicySegment and scanShellWord: words and redirections, unquoted. *)

\* What comes next is no target of a redirection.
Nowhere == "nowhere"

EndWord(st) ==
  IF st.word = <<>> THEN st ELSE [st EXCEPT !.argv = Append(@, st.word), !.word = <<>>]

\* A redirection takes the next word for its target, and has to have one.
EndTarget(st) ==
  IF st.word = <<>> THEN [st EXCEPT !.error = TRUE]
  ELSE [st EXCEPT !.redirects = Append(@, [mode |-> st.into, target |-> st.word]),
                  !.word = <<>>, !.into = Nowhere]

Redirect(st, c, next) ==
  [EndWord(st) EXCEPT !.into = IF c = "lt" THEN "read" ELSE IF next = "gt" THEN "append" ELSE "write",
                      !.skip = c = "gt" /\ next = "gt"]

WordQuoted(st, c) ==
  IF Closes(st.quote, c) THEN [st EXCEPT !.quote = NoQuote]
  ELSE IF st.quote = "dq" /\ c = "bs" THEN [st EXCEPT !.escaped = TRUE]
  ELSE [st EXCEPT !.word = Append(@, c)]

\* Blanks and operators end a target.
Ended(st, c) ==
  IF st.into # Nowhere /\ c \in Blank \cup {"bar", "semi", "amp", "lt", "gt"}
  THEN [EndTarget(st) EXCEPT !.begun = FALSE] ELSE st

WordUnquoted(st, c, next) ==
  LET waits == st.into # Nowhere /\ ~st.begun /\ st.word = <<>>
      at == Ended(st, c)
  IN  CASE c \in Quotes -> [st EXCEPT !.quote = c, !.begun = TRUE]
        [] c = "bs" -> [st EXCEPT !.escaped = TRUE, !.begun = TRUE]
        [] waits /\ c \in Blank -> st
        [] waits /\ c = "amp" ->
             [st EXCEPT !.redirects = Append(@, [mode |-> st.into, target |-> "descriptor"]), !.into = Nowhere]
        [] OTHER -> IF at.error THEN at
                    ELSE IF c = "sp" THEN [EndWord(at) EXCEPT !.begun = FALSE]
                    ELSE IF c \in {"lt", "gt"} THEN [Redirect(at, c, next) EXCEPT !.begun = FALSE]
                    ELSE [at EXCEPT !.word = Append(@, c)]

TokenChar(st, c, next) ==
  IF st.error THEN st
  ELSE IF st.skip THEN [st EXCEPT !.skip = FALSE]
  ELSE IF st.escaped THEN [st EXCEPT !.word = Append(@, c), !.escaped = FALSE]
  ELSE IF st.quote # NoQuote THEN WordQuoted(st, c)
  ELSE WordUnquoted(st, c, next)

Unreadable == [argv |-> <<>>, redirects |-> <<>>]

TokenStart == [argv |-> <<>>, redirects |-> <<>>, word |-> <<>>, into |-> Nowhere, quote |-> NoQuote,
               escaped |-> FALSE, begun |-> FALSE, skip |-> FALSE, error |-> FALSE]

Words(s, next) ==
  LET after[n \in 0..Len(s)] ==
        IF n = 0 THEN TokenStart
        ELSE TokenChar(after[n - 1], s[n], IF n < Len(s) THEN s[n + 1] ELSE next)
  IN  after[Len(s)]

\* The end of the command ends the last word or target.
EndCommand(st) ==
  LET last == IF st.into # Nowhere THEN EndTarget(st) ELSE EndWord(st)
  IN  IF last.error \/ st.quote # NoQuote \/ st.escaped THEN Unreadable
      ELSE [argv |-> last.argv, redirects |-> last.redirects]
Tokens(s) == EndCommand(Words(s, End))

-----------------------------------------------------------------------------
(* validateShellSegment: what runs without asking. *)

FirstField(s) == LET blanks == {i \in 1..Len(s) : s[i] \in Blank}
                 IN  SubSeq(s, 1, IF blanks = {} THEN Len(s) ELSE Min(blanks) - 1)

\* strings.Fields: where the fields start, and the field from there on.
Starts(s) == {i \in 1..Len(s) : s[i] \notin Blank /\ (i = 1 \/ s[i - 1] \in Blank)}
FieldFrom(s, i) == FirstField(SubSeq(s, i, Len(s)))
Arguments(s) == Starts(s) \ {1}

\* The verbs that only read, the arguments by which journalctl changes the
\* journal and the dash of a flag are one character each.
Managers == {<<"systemctl">>, <<"journalctl">>}
ReadOnly(s) ==
  LET verbs == {i \in Arguments(s) : s[i] # "dash"}
  IN  verbs # {} /\ FieldFrom(s, Min(verbs)) = <<"status">>
Mutates(s) ==
  \/ FirstField(s) = <<"systemctl">> /\ ~ReadOnly(s)
  \/ FirstField(s) = <<"journalctl">> /\ \E i \in Arguments(s) : FieldFrom(s, i) = <<"rotate">>

\* A name as it is allowlisted together with its verb.
Verbed(name, verb) == name \o <<"sp">> \o verb
Composite(s) ==
  /\ FirstField(s) \in Managers /\ Arguments(s) # {}
  /\ Verbed(FirstField(s), FieldFrom(s, Min(Arguments(s)))) \in Allowed
Allowlisted(s) == FirstField(s) \in Allowed \/ Composite(s)

\* Variant: a remembered name is taken for a remembered command.
ValidSegmentByName(segment) ==
  \/ FirstField(segment.command) \in Allowed
  \/ \E a \in approved : FirstField(a) = FirstField(segment.command)
\* A redirection, or a change by a service manager, always asks, whatever was
\* remembered.
ValidSegment(segment) ==
  /\ segment.heredoc \/ \E tokens \in {Tokens(segment.command)} : tokens # Unreadable /\ tokens.redirects = <<>>
  /\ ~Mutates(segment.command)
  /\ \/ Allowlisted(segment.command) /\ (segment.heredoc => segment.normalized \in approved)
     \/ segment.normalized \in approved

ValidateAllowed(parsed) == \A i \in 1..Len(parsed.segments) : ValidSegment(parsed.segments[i])

\* rememberApprovedSegments
Remembered(parsed) == {parsed.segments[i].normalized : i \in 1..Len(parsed.segments)}

Idle(asked) == [asked |-> asked, line |-> <<>>]

\* ShellTool.Execute without a security policy: the line runs when every
\* segment is known, else when the user agrees, who may also have it remembered.
Execute(line) ==
  \E parsed \in {ParseShellCommand(line)}, known \in BOOLEAN :
    /\ parsed # Refused
    /\ known = ValidateAllowed(parsed)
    /\ ran' = [asked |-> ~known, line |-> line]
    /\ \/ UNCHANGED <<approved, consented>>
       \/ /\ ~known
          /\ approved' = approved \cup Remembered(parsed)
          /\ consented' = consented \cup {Tokens(parsed.segments[i].command) : i \in 1..Len(parsed.segments)}
    /\ UNCHANGED typed

\* The next character of a line; a heredoc starts outside quotes.
Type(c) ==
  /\ Len(typed) < MaxLength
  /\ c = "doc" => LET at == Scan(typed) IN at.quote = NoQuote /\ ~at.escaped
  /\ typed' = Append(typed, c)
  /\ UNCHANGED <<approved, consented, ran>>

SyntaxInit == typed = <<>> /\ approved = {} /\ consented = {} /\ ran = Idle(TRUE)
TypeNext == \E c \in Alphabet : Type(c)
ExecuteNext == \E line \in Lines : Execute(line)
SyntaxSpec == SyntaxInit /\ [][TypeNext \/ ExecuteNext]_syntaxVars

-----------------------------------------------------------------------------
Spelled(operator) ==
  CASE operator = "or" -> <<"bar", "bar">> [] operator = "and" -> <<"amp", "amp">> [] OTHER -> <<operator>>
\* A text without its blanks.
Ink(s) == FlattenSeq([i \in 1..Len(s) |-> IF s[i] \in Blank THEN <<>> ELSE <<s[i]>>])

\* The policy assesses segments one by one while sh gets the whole line, so
\* splitting must lose nothing and leave nothing to split: the segments and
\* operators spell the line but for blanks, and each segment, parsed by
\* itself, is that one segment (ParseShellCommand, AssessShellCommand).
SegmentsAreAtoms ==
  \A parsed \in {ParseShellCommand(typed)} \ {Refused} :
    LET n == Len(parsed.segments)
        pieces == [i \in 1..n |-> parsed.segments[i].command \o
                                    (IF i = n THEN <<>> ELSE Spelled(parsed.operators[i]))]
    IN  /\ Ink(typed) = Ink(FlattenSeq(pieces))
        /\ \A segment \in ToSet(parsed.segments) :
             ParseShellCommand(segment.command) = [segments |-> <<segment>>, operators |-> <<>>]

\* A line that runs without anyone being asked consists of segments that redirect
\* nothing and whose first word, or first two words as sh reads them, are
\* allowlisted, or whose words and redirections the user agreed to remember earlier
\* (validateShellSegment, rememberApprovedSegments).
UnaskedWasAgreed ==
  ~ran.asked =>
    \A segment \in ToSet(ParseShellCommand(ran.line).segments) :
      \E tokens \in {Tokens(segment.command)} :
        \/ tokens \in consented
        \/ /\ tokens.redirects = <<>> /\ ~segment.heredoc
           /\ \/ Len(tokens.argv) >= 1 /\ tokens.argv[1] \in Allowed
              \/ Len(tokens.argv) >= 2 /\ Verbed(tokens.argv[1], tokens.argv[2]) \in Allowed
=============================================================================
