\* Approvals: a job and a console (with an operator at the command line), a terminal,
\* a console that dies.  Runs: three requests, two repairs, two turns.
CONSTANTS
  edit = edit
  fetch = fetch
  lax = lax
  strict = strict
  job = job
  console = console
  terminal = terminal
  shell = shell
  remember = remember
  Parts = {"consoles", "terminals", "crashes", "run"}
  Acts = {edit, fetch}
  Shell = {edit}
  Settings = {"read", "write", "net"}
  Effects <- MCEffects
  Policies = {lax, strict}
  Control <- MCControl
  Agents = {job, console, terminal}
  Chats = {console}
  Terminals = {terminal}
  Scope <- MCScope
  Cli = Cli
  Works = {1, 2}
  Nothing = Nothing
  MaxApprovals = 2
  MaxDeaths = 1
  Tools = {shell, remember}
  MemoryTools = {remember}
  Toolsets <- MCToolsets
  Answers = {"yes", "no"}
  MaxIterations = 3
  RepairLimit = 2
  MaxToolCalls = 1
  MaxTurns = 2
  None = None
SPECIFICATION Spec
CHECK_DEADLOCK FALSE
INVARIANTS PermissionsAccounted DeniedNeverRuns CompletedIsVerified
PROPERTIES ConsoleApprovalResumes EveryRunEnds
