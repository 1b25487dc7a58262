CONSTANTS
  agent = agent
  operator = operator
  here = here
  web = web
  name = name
  steps = steps
  note = note
  warning = warning
  first = first
  second = second
  third = third
  Parts = {"review"}
  Procs = {agent, operator}
  Runtime = here
  Hosts = {web}
  Items = {name, steps, note, warning}
  KindOf <- MCKindOf
  TargetOf <- MCTargetOf
  Bodies = {"script", "lines", "localhost"}
  Reparsed <- MCReparsed
  Outcomes <- MCOutcomes
  Environment = "production"
  HostnameFact = name
  Hostname = "localhost"
  CandidateTTL = 1
  CautionTTL = 1
  ActiveTTL = 3
  RuntimeTTL = 1
  MaxClock = 2
  Jobs <- MCJobs
  MaxJobs = 3
  MaxFailures = 1
  Nothing = Nothing
  Turns = {first, second, third}
  Names = {"server"}
  Declares <- MCDeclares
  MaxResumes = 2
  NoAddress = NoAddress
SPECIFICATION Spec
CHECK_DEADLOCK FALSE
INVARIANT RevokedStaysRevoked
