CONSTANTS
  s1 = s1  s2 = s2  c1 = c1  c2 = c2
  NoBackup = NoBackup
  Servos <- TwoServos
  Cameras <- TwoCameras
  MaxEnables = 1
  MaxRuns = 3
SPECIFICATION Spec
CHECK_DEADLOCK FALSE
INVARIANT PassthroughHeld
INVARIANT Recoverable
INVARIANT CleanExitRestores
