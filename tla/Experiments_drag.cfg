SPECIFICATION MCFairSpec
CONSTANTS
  Levels = 2
  PhaseTicks = 1
  Watchdog = 1
  Bursts = 2
  Scripts = {"none", "velocity", "map"}
CHECK_DEADLOCK FALSE
INVARIANTS StoppedIsOff RecordIsComplete NeverStarved ScriptEndsSafe
PROPERTY ControlEnds
