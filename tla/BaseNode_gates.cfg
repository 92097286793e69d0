CONSTANTS
  s1 = s1  c1 = c1
  NoBackup = NoBackup
  Servos <- OneServo
  Cameras <- OneCamera
  MaxEnables = 3
SPECIFICATION FairSpec
CHECK_DEADLOCK FALSE
INVARIANT DriveGated
INVARIANT DriveUnderPassthrough
INVARIANT WatchedDrive
PROPERTY ImplementsGateway
PROPERTY DeadControllerStops
