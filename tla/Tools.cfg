\* Lines of up to four characters, chains of two commands, two crontab callers, two
\* batches that compete for a host.
CONSTANTS
  Alphabet = {"a", "sp", "nl", "sq", "dq", "bs", "semi", "bar", "amp", "subst", "gt", "lt", "doc", "bad"}
  MaxLength = 4
  Lines <- MCLines
  Allowed <- MCAllowed
  Simple <- MCSimple
  Wrappers <- MCWrappers
  Selections <- MCSelections
  MaxChain = 2
  CronIds = {"i", "j"}
  Commands = {"x"}
  CronCallers = {"cli", "tool"}
  FirstTab <- MCFirstTab
  MaxForeign = 1
  MaxChanges = 3
  Items <- MCItems
  MaxItems = 3
  Ranges <- MCRanges
  MaxInt = 63
  Units = {"count", "%", "B", "KiB"}
  Decimals <- MCDecimals
  Limit = 100
  o1 = o1
  o2 = o2
  b1 = b1
  b2 = b2
  h1 = h1
  h2 = h2
  Ops = {o1, o2}
  Batches = {b1, b2}
  None = None
  HostOf <- MCHostOf
  Impact <- MCImpact
  MaxImpact = 2
  MaxRepairAttempts = 1
  Plans <- MCPlans
SPECIFICATION ToolsSpec
SYMMETRY BatchSymmetry
CHECK_DEADLOCK FALSE
INVARIANTS SegmentsAreAtoms UnaskedWasAgreed  FieldsAgree RoundsAsAsked CommandsAccounted BatchIsTrue
PROPERTY OthersAreKept
