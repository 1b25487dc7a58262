\* An edit made while a worker claims the job drops the claim.
CONSTANTS
  j1 = j1
  j2 = j2
  once = once
  cron = cron
  d1 = d1
  d2 = d2
  operator = operator
  Jobs = {j1}
  Defs = {cron}
  Callers = {d1, d2, operator}
  NoRow = NoRow
  Nobody = Nobody
  Gone = Gone
  NoJob = NoJob
  Kind <- MCKind
  Owner <- MCOwner
  Role <- Updates
  Initial <- Repeating
  MaxWorks = 1
  MaxFaults = 0
  MaxLapses = 0
SPECIFICATION Spec
CHECK_DEADLOCK FALSE
INVARIANTS ActiveClaimExcludes
