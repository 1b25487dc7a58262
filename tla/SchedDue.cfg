\* A due job under an operator who edits, pauses, resumes, runs and approves it without end, a fault and a lapsed lease.
CONSTANTS
  j1 = j1
  j2 = j2
  once = once
  cron = cron
  d1 = d1
  d2 = d2
  operator = operator
  Jobs = {j1}
  Defs = {cron}
  Callers = {d1, operator}
  NoRow = NoRow
  Nobody = Nobody
  Gone = Gone
  NoJob = NoJob
  Kind <- MCKind
  Owner <- MCOwner
  Role <- Editing
  Initial <- Repeating
  MaxWorks = 1
  MaxFaults = 1
  MaxLapses = 1
SPECIFICATION FairSpec
CHECK_DEADLOCK FALSE
PROPERTIES DueJobRuns BlockStands
