------------------------------ MODULE MCWorkbench ----------------------------
(***************************************************************************)
(* The console's workspaces and the native adapters, side by side: a       *)
(* behaviour is of the chat, of the jobs, of the settings, of the NGINX    *)
(* adapter or of the snapshot adapter.                                     *)
(***************************************************************************)
EXTENDS ChatTab, JobsTab, Settings, Snapshot, NginxService, TLC

CONSTANT Parts

VARIABLE part

\* One turn with two calls, of the same command or not; two turns or
\* conversations the first of which runs one.
MCPlans ==
  {[calls |-> <<<<"A", "B">>>>, works |-> 2], [calls |-> <<<<"A", "A">>>>, works |-> 1],
   [calls |-> <<<<"A">>, <<>>>>, works |-> 1]}
MCFirstJobs == <<1>>

MCDirective(in, name, arg) == [in |-> in, name |-> name, arg |-> arg]

MCBase == {MCDirective("main", "pid", "p"), MCDirective("main", "error_log", "stderr"),
           MCDirective("http", "access_log", "off"), MCDirective("server", "listen", "l"),
           MCDirective("health", "add_header", "pid")}
MCOriginal == MCBase \cup {MCDirective("main", "worker_processes", 1)}
MCGood == MCBase \cup {MCDirective("main", "worker_processes", 2)}
MCSick == MCBase \cup {MCDirective("main", "worker_processes", 1), MCDirective("location", "return", "404")}
MCOriginalReturn == MCOriginal \cup {MCDirective("location", "return", "200")}
\* A listener of its own, which the shape must refuse.
MCMoved == (MCOriginalReturn \ {MCDirective("server", "listen", "l")}) \cup {MCDirective("server", "listen", "m")}
MCGoodReturn == MCGood \cup {MCDirective("location", "return", "200")}
MCBadReturn == MCBase \cup {MCDirective("main", "worker_processes", 3), MCDirective("location", "return", "bad")}
MCCandidates == {MCGoodReturn, MCSick, MCMoved, MCBadReturn}
MCForeign == {MCBase}
MCRejected == {MCBadReturn}
MCUnhealthy == {MCSick}

workspaces == <<chatVars, jobsVars, settingsVars>>
adapters == <<snapVars, servVars>>

WorkbenchInit ==
  /\ part \in Parts
  /\ ChatInit /\ JobsInit /\ SettingsInit /\ SnapInit /\ ServInit
  /\ part # "chat" => plan.calls = <<<<"A", "B">>>>
  /\ ~service.setup

WorkbenchNext ==
  \/ part = "chat" /\ UNCHANGED <<part, jobsVars, settingsVars, adapters>> /\ ChatNext
  \/ part = "jobs" /\ UNCHANGED <<part, chatVars, settingsVars, adapters>> /\ JobsNext
  \/ part = "settings" /\ UNCHANGED <<part, chatVars, jobsVars, adapters>> /\ SettingsNext
  \/ part = "snapshot" /\ UNCHANGED <<part, workspaces, servVars>> /\ SnapNext
  \/ part = "service" /\ UNCHANGED <<part, workspaces, snapVars>> /\ ServNext

WorkbenchSpec ==
  WorkbenchInit /\ [][WorkbenchNext]_<<part, workspaces, adapters>> /\ ChatFair /\ ServFairness
=============================================================================
