CONSTANTS
  None = None
  Streams <- MCStreams
  Modulus = 40
  ReorderTolerance = 1
  ConfirmationWindow = 2
  CandidateMaxBoot = 12
  CandidateSkew = 3
  WrapWindow = 6
  MaxForwardJump = 4
  ClockSlack = 1
  StartUptimes = {8, 38}
  Delay <- MCDelay
  MaxGap = 2
  JumpMaxDt = 4
  MaxAge = 2
  SkewMax = 1
  MinUptime = 8
  MaxNow = 6
  MaxBoots = 1
  MaxOrigins = 1
SPECIFICATION TelemetrySpec
CHECK_DEADLOCK FALSE
INVARIANTS NoSpuriousReset RebootAnnounced BaseSessionIsOneOrigin ValidIsCurrent
