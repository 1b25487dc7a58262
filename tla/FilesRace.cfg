\* A deletion and a replacement, two models and an operator, foreign writers in every gap.
CONSTANTS
  o1 = o1
  p1 = p1
  p2 = p2
  a = a
  b = b
  c = c
  Ops = {o1}
  Paths = {p1, p2}
  Content = {a, b, c}
  Executors = {cli, t1, t2}
  Models = {t1, t2}
  Absent = Absent
  Torn = Torn
  Nobody = Nobody
  NoOp = NoOp
  Ids <- MCIds
  Original <- MCBothExist
  Request <- DeleteReplace
  MaxRepair = 2
  TornWrites = TRUE
  MaxFaults = 1
  MaxForeign = 2
SPECIFICATION Spec
SYMMETRY ExecutorSymmetry
INVARIANTS RepairBudget ReadyArtifactsWhole JournalledIntent
PROPERTIES DestroysOnlyReviewed OutcomeVerified ImplementsJournal
