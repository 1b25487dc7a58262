\* Two operations and two operators, crashes and reboots in every gap.
CONSTANTS
  o1 = o1
  o2 = o2
  p1 = p1
  p2 = p2
  p3 = p3
  c1 = c1
  c2 = c2
  Ops = {o1, o2}
  Ports = {p1, p2}
  First = p1
  Clients = {c1}
  Sup = Sup
  Other = Other
  None = None
  MaxFaults = 1
  MaxForeign = 1
SPECIFICATION FairSpec
INVARIANT UnconfirmedIsArmed
PROPERTIES RecoveredIsRunning DecisionStands CommittedWasReached ArmedIsSettled
