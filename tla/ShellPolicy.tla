----------------------------- MODULE ShellPolicy -----------------------------
(***************************************************************************)
(* The decision on a command line (tools/shell_policy.go, securitypolicy): *)
(* each segment is classified by what its program, its verb, its target    *)
(* and its redirection do, through wrappers such as sudo, env or sh -c;    *)
(* the effects are looked up in the resolved policy, and the strictest     *)
(* decision stands.                                                        *)
(*                                                                         *)
(* A program is named by its case of the switch in classifyShellEffects    *)
(* (one name for the programs of a case) and the argument tables of the    *)
(* case are its verb: "read", "change", "delete" or what they tell apart.  *)
(* A wrapper passes words on ("sudo", "env"), or a script ("shell", "su"). *)
(***************************************************************************)
EXTENDS Naturals, Sequences, SequencesExt, FiniteSets, FiniteSetsExt

CONSTANTS
  Simple,           \* the commands a line is made of
  Wrappers,         \* the lists of wrappers put around a command
  Selections,       \* the durable choices: a profile and overrides
  MaxChain          \* bound: segments of a line

VARIABLES
  chain,            \* the segments of the line
  selection         \* the selection the policy is resolved from

policyVars == <<chain, selection>>

-----------------------------------------------------------------------------
(* securitypolicy: decisions, bundles and their resolution. *)

Decisions == <<"allow", "llm_review", "ask", "deny">>
DecisionRank(d) == CHOOSE i \in 1..4 : Decisions[i] = d
Strictest(ds) == CHOOSE d \in ds : \A e \in ds : DecisionRank(e) <= DecisionRank(d)

Settings == <<"read", "unknown", "scripts", "create", "overwrite", "append", "delete",
              "privilege", "service", "packages", "devices", "network", "remote", "cloud",
              "containers", "database", "scheduled", "credentials">>

BundleRow(profile) ==
  LET A == "allow" R == "llm_review" K == "ask" D == "deny"
  IN  CASE profile = "extra_strict" -> <<A, D, D, K, D, K, D, D, K, D, D, K, D, D, D, D, D, D>>
        [] profile \in {"reasonable", "llm_advisor"} -> <<A, K, K, A, K, A, K, K, K, K, D, K, K, K, K, K, K, D>>
        [] profile = "llm_judge" -> <<A, R, R, R, R, R, R, R, R, R, D, R, R, R, R, R, R, D>>
        [] profile = "less_strict" -> <<A, R, A, A, A, A, K, K, K, A, D, A, K, K, A, K, A, K>>
        [] profile = "minimal" -> <<A, A, A, A, A, A, A, A, A, A, K, A, A, A, A, A, A, K>>
        [] profile = "yolo" -> [i \in 1..18 |-> A]

Segments == [extra_strict |-> 4, reasonable |-> 16, llm_advisor |-> 16, llm_judge |-> 16,
             less_strict |-> 24, minimal |-> 32, yolo |-> 64]

Bundle(profile) ==
  [decide |-> [i \in Range(Settings) |-> BundleRow(profile)[CHOOSE n \in 1..18 : Settings[n] = i]],
   protects |-> profile # "yolo", segments |-> Segments[profile]]

\* The wrappers that are given a script, as one argument.
Scripted(w) == w.name \in {"shell", "su"}

\* A durable choice names a bundle, and overrides settings with decisions; what
\* a command does with a file besides its arguments is a redirection or none.
\* The wrappers that pass words stand behind those that pass a script: joining
\* the words with blanks (classifySyntheticSegment) would unquote a script.
ASSUME PolicyAssumption ==
  /\ \A sel \in Selections :
       /\ sel.profile \in DOMAIN Segments
       /\ DOMAIN sel.overrides \subseteq Range(Settings)
       /\ \A s \in DOMAIN sel.overrides : sel.overrides[s] \in Range(Decisions)
  /\ \A c \in Simple : c.redirect.mode \in {"none", "read", "append", "write"}
  /\ Wrappers \subseteq Seq([name : {"shell", "su", "sudo", "env"}, trusted : BOOLEAN])
  /\ \A ws \in Wrappers : \A i, j \in 1..Len(ws) : i < j /\ Scripted(ws[j]) => Scripted(ws[i])

\* Resolve: an override replaces the value of the profile.
Resolve(sel) ==
  LET bundle == Bundle(sel.profile)
  IN  [bundle EXCEPT !.decide = [s \in DOMAIN bundle.decide |->
         IF s \in DOMAIN sel.overrides THEN sel.overrides[s] ELSE bundle.decide[s]]]

-----------------------------------------------------------------------------
(* Targets, by what the path checks say of them. *)

Stable(t) == t \notin {"none", "pattern"}
PathExists(t) == t \in {"file", "system", "secret", "disk"}
\* A target that cannot be resolved counts as critical.
IsCritical(t) == t \in {"system", "disk", "pattern"}
IsCredential(t) == t = "secret"
IsRawDevice(t) == t = "disk"

Effect(setting, target) == [setting |-> setting, target |-> target]
IsPersistentMutation(setting) == setting \in {"create", "append", "overwrite", "delete", "privilege"}

-----------------------------------------------------------------------------
(* classifyShellEffects *)

Writes(setting, t) ==
  {Effect(setting, t)} \cup (IF Stable(t) THEN {} ELSE {Effect("unknown", t)})
    \cup (IF IsRawDevice(t) THEN {Effect("devices", t)} ELSE {})

RedirectEffects(r) ==
  CASE r.mode = "none" -> {}
    [] r.mode = "read" -> {Effect("read", r.target)} \cup
         (IF IsCredential(r.target) THEN {Effect("credentials", r.target)} ELSE {})
    [] r.mode = "append" -> Writes("append", r.target) \ {Effect("unknown", r.target)}
    [] r.mode = "write" -> Writes(IF Stable(r.target) /\ PathExists(r.target) THEN "overwrite" ELSE "create", r.target)

Mutation(c) == IF c.verb = "force" \/ PathExists(c.target) THEN "overwrite" ELSE "create"
These(settings) == {Effect(s, "none") : s \in settings}

GitEffects(c) ==
  CASE c.verb = "read" -> These({"read"})
    [] c.verb = "delete" -> {Effect("delete", c.target)}
    [] c.verb = "fetch" -> These({"network"})
    [] c.verb = "push" -> These({"network", "remote"})
    [] c.verb = "clone" -> These({"network"}) \cup {Effect("create", c.target)}
    [] c.verb = "checkout" -> These({"unknown"})
    [] OTHER -> These({"overwrite"})

ProgramEffects(c) ==
  LET reads == c.verb = "read"
  IN  CASE c.base \in {"ls", "journalctl", "systemctl", "crontab", "docker", "find", "sed", "sort", "psql", "tmutil"} /\ reads ->
             These({"read"})
        [] c.base = "journalctl" /\ ~reads -> These({"service", "delete"})
        [] c.base = "systemctl" /\ ~reads -> These({"service"})
        [] c.base = "crontab" /\ ~reads -> {Effect("scheduled", c.target)}
        [] c.base = "docker" /\ ~reads ->
             These({"containers"} \cup IF c.verb = "delete" THEN {"delete"} ELSE {})
        [] c.base = "rm" -> IF c.target = "none" THEN {} ELSE {Effect("delete", c.target)}
        [] c.base = "tmutil" /\ ~reads -> {Effect("delete", c.target)}
        [] c.base = "find" /\ ~reads ->
             {Effect(CASE c.verb = "delete" -> "delete" [] c.verb = "exec" -> "unknown" [] OTHER -> "overwrite", c.target)}
        [] c.base = "sed" /\ ~reads -> {Effect("overwrite", c.target)}
        [] c.base = "sort" /\ ~reads -> Writes("overwrite", c.target) \ {Effect("devices", c.target)}
        [] c.base = "dd" -> {Effect(IF IsRawDevice(c.target) THEN "devices" ELSE "overwrite", c.target)}
        [] c.base = "cp" -> Writes(Mutation(c), c.target)
        [] c.base = "mv" -> Writes(Mutation(c), c.target) \cup (IF c.source = "none" THEN {} ELSE {Effect("delete", c.source)})
        [] c.base = "tee" ->
             IF c.target = "none" THEN These({"unknown"})
             ELSE Writes(IF c.verb = "append" THEN "append" ELSE Mutation(c), c.target)
        [] c.base = "mkfs" -> {Effect("devices", c.target)}
        [] c.base = "chmod" -> {Effect("privilege", c.target)}
        [] c.base = "apt" -> These({"network"} \cup IF reads THEN {} ELSE {"packages"})
        [] c.base = "curl" -> These({"network"} \cup IF reads THEN {} ELSE {"remote"})
        [] c.base = "rsync" -> These({"network", "remote"}) \cup
             (IF c.verb = "delete" THEN {Effect("delete", c.target)} ELSE {})
        [] c.base = "aws" -> These({"network"} \cup IF reads THEN {"read"} ELSE {"cloud", "remote"})
        [] c.base = "kubectl" -> These({"network"} \cup IF reads THEN {"read"} ELSE {"cloud", "remote", "containers"})
        [] c.base = "psql" /\ ~reads -> These(IF c.verb = "delete" THEN {"database", "remote"} ELSE {"unknown"})
        [] c.base = "git" -> GitEffects(c)
        [] c.base = "python" -> These({"scripts", "unknown"} \cup IF c.verb = "delete" THEN {"delete"} ELSE {})
        [] OTHER -> These({"unknown"})

\* A program that is not in a system directory is not classified further.
CommandEffects(c) == IF c.trusted THEN ProgramEffects(c) ELSE These({"unknown"})
WrapperEffects(w) ==
  These(CASE ~w.trusted -> {"unknown"}
          [] w.trusted /\ w.name \in {"sudo", "su"} -> {"privilege"}
          [] w.trusted /\ w.name = "shell" -> {"scripts"}
          [] OTHER -> {})

\* A redirection and a here-document belong to the innermost script or to the
\* line; a path among the arguments of the innermost is one of the outermost.
ScriptEffects(c) == RedirectEffects(c.redirect) \cup (IF c.heredoc THEN These({"scripts"}) ELSE {})
ArgumentEffects(c) ==
  IF \/ IsCredential(c.inner.target) \/ IsCredential(c.inner.source)
     \/ c.wrappers # <<>> /\ Scripted(c.wrappers[1]) /\ IsCredential(c.inner.redirect.target)
  THEN These({"credentials"}) ELSE {}

MaxDepth == 4
Scripts(ws) == Cardinality({i \in 1..Len(ws) : Scripted(ws[i])})

\* The words in front of the i-th wrapper or, behind the last, of the command.
LayerEffects(c, i) ==
  IF i > MaxDepth + 1 THEN These({"unknown"})
  ELSE (IF i = Scripts(c.wrappers) + 1 THEN ScriptEffects(c.inner) ELSE {})
         \cup (IF i <= Len(c.wrappers) THEN WrapperEffects(c.wrappers[i]) ELSE CommandEffects(c.inner))

\* Variant: the command behind a wrapper is not looked at.
StopsAtWrapper(c) == ArgumentEffects(c) \cup LayerEffects(c, 1)
\* Nothing is looked at behind a wrapper that is not in a system directory.
Effects(c) ==
  ArgumentEffects(c) \cup
    UNION {LayerEffects(c, i) : i \in {n \in 1..(Len(c.wrappers) + 1) : \A k \in 1..(n - 1) : c.wrappers[k].trusted}}

\* validateNestedShellSyntax: shells inside shells, at most MaxDepth deep.
NestsTooDeep(c) ==
  Len(c.wrappers) > MaxDepth /\ \A i \in 1..(MaxDepth + 1) : c.wrappers[i].name = "shell"

\* AssessShellCommand
Decide(effect, policy) ==
  Strictest({policy.decide[effect.setting]}
    \cup (IF policy.protects /\ IsPersistentMutation(effect.setting) /\ IsCritical(effect.target)
          THEN {"ask"} ELSE {})
    \cup (IF policy.protects /\ IsCredential(effect.target) THEN {policy.decide["credentials"]} ELSE {}))

AssessShellCommand(cmds, policy) ==
  IF Len(cmds) > policy.segments \/ \E i \in 1..Len(cmds) : NestsTooDeep(cmds[i]) THEN "deny"
  ELSE LET found == UNION {Effects(cmds[i]) : i \in 1..Len(cmds)}
       IN  Strictest({"allow"} \cup
             {Decide(e, policy) : e \in IF found = {} THEN These({"unknown"}) ELSE found})

-----------------------------------------------------------------------------
Chain(c) ==
  /\ Len(chain) < MaxChain
  /\ chain' = Append(chain, c)
  /\ UNCHANGED selection

PolicyInit == chain = <<>> /\ selection \in Selections
PolicyNext == \E c \in Simple, w \in Wrappers : Chain([wrappers |-> w, inner |-> c])
PolicySpec == PolicyInit /\ [][PolicyNext]_policyVars

-----------------------------------------------------------------------------
NoLaxer(d, e) == DecisionRank(d) >= DecisionRank(e)

SeenThrough(ws) == Len(ws) <= MaxDepth /\ \A i \in 1..Len(ws) : ws[i].trusted

\* Putting a command that has effects of its own behind sudo, env or sh -c, or
\* putting other commands around it, is never decided more laxly than the
\* command by itself (classifySyntheticSegment, nestedAfterWrapper); behind
\* wrappers the classifier does not look through, because of their depth or
\* where a wrapper's file lies, it is decided as an unknown command at least.
WrappedIsNoLaxer ==
  LET policy == Resolve(selection)
      decision == AssessShellCommand(chain, policy)
  IN  \A i \in 1..Len(chain) :
        LET alone == [chain[i] EXCEPT !.wrappers = <<>>]
        IN  IF SeenThrough(chain[i].wrappers)
            THEN Effects(alone) # {} => NoLaxer(decision, AssessShellCommand(<<alone>>, policy))
            ELSE NoLaxer(decision, policy.decide["unknown"])
=============================================================================
