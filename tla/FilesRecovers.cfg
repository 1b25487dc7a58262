\* Interrupted recovery is retried until it succeeds; staging writes are atomic.
CONSTANTS
  o1 = o1
  p1 = p1
  p2 = p2
  a = a
  b = b
  c = c
  Ops = {o1}
  Paths = {p1, p2}
  Content = {a, b, c}
  Executors = {cli, cron}
  Models = {}
  Absent = Absent
  Torn = Torn
  Nobody = Nobody
  NoOp = NoOp
  Ids <- MCIds
  Original <- MCBothExist
  Request <- DeleteReplace
  MaxRepair = 2
  TornWrites = FALSE
  MaxFaults = 3
  MaxForeign = 0
SPECIFICATION FairSpec

PROPERTIES InterruptedRecovers
