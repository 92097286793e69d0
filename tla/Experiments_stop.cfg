SPECIFICATION MCSpec
CONSTANTS
  Levels = 1
  PhaseTicks = 1
  Watchdog = 1
  Bursts = 1
  Scripts = {"none"}
INVARIANT StopHolds
