\* Two daemons and an operator, no lease lapses, nobody edits.
CONSTANTS
  j1 = j1
  j2 = j2
  once = once
  cron = cron
  d1 = d1
  d2 = d2
  operator = operator
  Jobs = {j1, j2}
  Defs = {once, cron}
  Callers = {d1, d2, operator}
  NoRow = NoRow
  Nobody = Nobody
  Gone = Gone
  NoJob = NoJob
  Kind <- MCKind
  Owner <- MCOwner
  Role <- Attended
  Initial <- FirstOnly
  MaxWorks = 1
  MaxFaults = 1
  MaxLapses = 0
SPECIFICATION Spec
SYMMETRY DaemonSymmetry
CHECK_DEADLOCK FALSE
INVARIANTS ActiveClaimExcludes RepeatsAccounted
