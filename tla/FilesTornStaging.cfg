\* The same when a crash may leave an incomplete restore staging file.
CONSTANTS
  o1 = o1
  p1 = p1
  p2 = p2
  a = a
  b = b
  c = c
  Ops = {o1}
  Paths = {p1, p2}
  Content = {a, b, c}
  Executors = {cli, cron}
  Models = {}
  Absent = Absent
  Torn = Torn
  Nobody = Nobody
  NoOp = NoOp
  Ids <- MCIds
  Original <- MCBothExist
  Request <- DeleteReplace
  MaxRepair = 2
  TornWrites = TRUE
  MaxFaults = 2
  MaxForeign = 0
SPECIFICATION FairSpec

PROPERTIES InterruptedRecovers
