\* One or two turns, two jobs, two edits; writers, reloads, restarts and deaths in every
\* gap of the adapters.
CONSTANTS
  Capacity = 1
  MaxChats = 2
  Plans <- MCPlans
  MaxJobs = 2
  FirstJobs <- MCFirstJobs
  MaxPending = 2
  MaxMoves = 1
  MaxEdits = 2
  MaxChildren = 2
  MaxAnswers = 2
  Parts = {"chat", "jobs", "settings", "snapshot", "service"}
  Checkpoints = {c1}
  Restores = {r1, r2}
  Subvolumes = {s0, s1, s2, s3}
  FirstTree = s0
  Versions = {v1, v2}
  NoTree = NoTree
  MaxWrites = 1
  MaxDeaths = 2
  Original <- MCOriginalReturn
  Candidates <- MCCandidates
  Foreign <- MCForeign
  Rejected <- MCRejected
  Unhealthy <- MCUnhealthy
  MaxWorkers = 3
  NoConf = NoConf
  MaxOutside = 2
  MaxStops = 2
SPECIFICATION WorkbenchSpec
CHECK_DEADLOCK FALSE
INVARIANTS FirstWaitIsShown ShownIsCurrent EditsKept CheckpointIsReviewed
PROPERTIES InterruptSettles DraftBecomesOneJob RestoreStands SettledIsServed
