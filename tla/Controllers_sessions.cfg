CONSTANTS
  None = None
  Kinds <- MCKinds
  Lag = 2
  MinGap = 5
  ObsTimeout = 2
  MaxOrigins = 2
SPECIFICATION ControllersFairSpec
INVARIANT AcceptedIsLive
CHECK_DEADLOCK FALSE
PROPERTY SilentWithoutInput
