SPECIFICATION Spec
CONSTANTS
  Tables = {"t", "u"}
  Items = {1, 2}
  FirstPlans <- MCFirstPlans
  MaxFault = 2
  MaxRun = 2
  MaxRequest = 2
  MaxBreak = 1
  MaxCrash = 1
  MaxTrouble = 2
INVARIANTS PackAndGroupTypeOK RunningIsLive NothingWithheld CountersMatchBadges
PROPERTIES StartNeverRewinds QueueRuns LifecycleEnds BrokenIsNoticed
CHECK_DEADLOCK FALSE
