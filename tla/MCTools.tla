------------------------------- MODULE MCTools -------------------------------
(***************************************************************************)
(* The tools an agent's request passes through, side by side: a behaviour  *)
(* types a command line, executes command lines, chains commands under a   *)
(* policy, edits the crontab, writes a cron field, asks a calculation or   *)
(* runs two fleet batches.                                                 *)
(***************************************************************************)
EXTENDS ShellSyntax, ShellPolicy, SystemCron, CronExpression, Quantity, Fleet, TLC

CONSTANTS o1, o2, b1, b2, h1, h2

VARIABLE part

\* Lines that differ in their blanks, inside and outside quotes, and lines of the
\* service managers.
MCLines ==
  {<<"a", "sp", "b">>, <<"a", "sp", "sp", "b">>, <<"b">>, <<"b", "bs", "sp">>,
   <<"b", "sp", "sq", "b", "sp", "sp", "b", "sq">>, <<"b", "sp", "sq", "b", "sp", "b", "sq">>,
   <<"b", "semi", "a">>, <<"a", "semi", "b", "sp", "gt", "gt", "a">>,
   <<"a", "doc">>, <<"systemctl", "sp", "dash", "sp", "status", "sp", "b">>, <<"systemctl", "sp", "b">>,
   <<"journalctl", "sp", "sp", "b", "sp", "a">>, <<"journalctl", "sp", "a", "sp", "b">>,
   <<"journalctl", "sp", "b", "sp", "rotate">>}
MCAllowed == {<<"a">>, <<"systemctl">>, <<"journalctl", "sp", "b">>}

Quiet == [mode |-> "none", target |-> "none"]
Command(base, verb, target) ==
  [base |-> base, verb |-> verb, target |-> target, source |-> "file", redirect |-> Quiet,
   trusted |-> TRUE, heredoc |-> FALSE]
On(base, verb, targets) == {Command(base, verb, t) : t \in targets}
MCSimple ==
  On("ls", "read", {"none", "secret"}) \cup On("rm", "delete", {"file", "pattern", "none"})
    \cup On("cp", "plain", {"new", "system", "disk"}) \cup On("cp", "force", {"new"})
    \cup On("tee", "append", {"new", "none"}) \cup On("dd", "write", {"disk", "system"})
    \cup {[Command("mv", "plain", "new") EXCEPT !.source = s] : s \in {"system", "none"}}
    \cup UNION {On(b, "change", {"file"}) :
                b \in {"journalctl", "systemctl", "crontab", "docker", "sed", "sort", "apt", "curl", "aws",
                       "kubectl", "psql", "find", "git", "tmutil"}}
    \cup UNION {On(b, "delete", {"file"}) : b \in {"docker", "find", "rsync", "psql", "git", "python"}}
    \cup UNION {On(b, "read", {"none"}) : b \in {"apt", "curl", "aws", "kubectl", "git", "other"}}
    \cup UNION {On("git", v, {"new"}) : v \in {"push", "fetch", "clone", "checkout"}}
    \cup On("chmod", "change", {"system"}) \cup On("mkfs", "change", {"disk"})
    \cup {[Command("ls", "read", "none") EXCEPT !.redirect = [mode |-> m, target |-> t]] :
            m \in {"read", "write", "append"}, t \in {"new", "system", "secret"}}
    \cup {[Command("rm", "delete", "system") EXCEPT !.trusted = FALSE],
          [Command("ls", "read", "none") EXCEPT !.heredoc = TRUE]}
Wrapper(name) == [name |-> name, trusted |-> TRUE]
MCWrappers ==
  {<<>>, <<Wrapper("shell"), Wrapper("env"), Wrapper("env"), Wrapper("sudo")>>, [i \in 1..5 |-> Wrapper("shell")],
   [i \in 1..5 |-> Wrapper("env")], <<Wrapper("su"), [Wrapper("env") EXCEPT !.trusted = FALSE], Wrapper("sudo")>>}
MCSelections ==
  {[profile |-> "reasonable", overrides |-> <<>>],
   [profile |-> "extra_strict", overrides |-> [delete |-> "allow", privilege |-> "allow"]],
   [profile |-> "minimal", overrides |-> [append |-> "deny", credentials |-> "allow"]],
   [profile |-> "yolo", overrides |-> [unknown |-> "deny"]]}

MCFirstTab == <<Line("env", NoId, "", FALSE), CronLine("x"), Comment>>

MCItems ==
  {Item("any", 0, 0, NoStep), Item("any", 0, 0, <<2>>), Item("any", 0, 0, <<7>>), Item("number", 7, 7, NoStep),
   Item("number", 0, 0, <<3>>), Item("number", 12, 12, NoStep), Item("range", 5, 7, NoStep),
   Item("range", 1, 7, <<3>>), Item("range", 3, 2, NoStep), Item("range", 0, 12, NoStep),
   Item("any", 0, 0, <<0>>), Item("number", 3, 3, <<0>>), Item("text", 0, 0, NoStep),
   Item("number", 7, 7, <<63>>), Item("range", 2, 6, <<61>>)}
MCRanges == {<<0, 11>>, <<1, 12>>, <<0, 7>>}

MCDecimals == {[n |-> -25, d |-> 10], [n |-> 0, d |-> 1], [n |-> 5, d |-> 10]}

\* A batch of both hosts and one that wants the second host too.
MCHostOf == [o \in Ops |-> IF o = o2 THEN h2 ELSE h1]
MCImpact == [o \in Ops |-> 1]
MCPlans == {<<o1, o2>>, <<o2>>}
BatchSymmetry == Permutations(Batches)

\* What the other parts leave alone.
shell  == <<syntaxVars, policyVars>>
checks == <<fieldVars, quantityVars>>

ToolsInit ==
  /\ SyntaxInit /\ CronInit /\ QuantityInit /\ FleetInit
  /\ part \in {"type", "execute", "policy", "cron", "field", "quantity", "fleet"}
  /\ IF part = "policy" THEN PolicyInit ELSE chain = <<>> /\ selection = [profile |-> "yolo", overrides |-> <<>>]
  /\ IF part = "field" THEN FieldInit ELSE field = <<>> /\ range = <<0, 7>>
Alone(p, others) == part = p /\ UNCHANGED <<part, others>>
ToolsNext ==
  \/ Alone("type", <<policyVars, cronVars, checks, fleetVars>>) /\ TypeNext
  \/ Alone("execute", <<policyVars, cronVars, checks, fleetVars>>) /\ ExecuteNext
  \/ Alone("policy", <<syntaxVars, cronVars, checks, fleetVars>>) /\ PolicyNext
  \/ Alone("cron", <<shell, checks, fleetVars>>) /\ CronNext
  \/ Alone("field", <<shell, cronVars, quantityVars, fleetVars>>) /\ FieldNext
  \/ Alone("quantity", <<shell, cronVars, fieldVars, fleetVars>>) /\ QuantityNext
  \/ Alone("fleet", <<shell, cronVars, checks>>) /\ FleetNext
ToolsSpec == ToolsInit /\ [][ToolsNext]_<<shell, cronVars, checks, fleetVars, part>>
=============================================================================
