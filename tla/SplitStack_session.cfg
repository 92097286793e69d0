CONSTANTS
  None = None
  Configs <- MCConfigs
  NumWp = 3  DwellTime = 2  MaxDuration = 7  MaxLaps = 1
  Lag = 0  MinGap = 1  DesiredMaxAge = 2  Settle = 4  MaxEpochs = 2
SPECIFICATION Spec
INVARIANTS PastEnds AttitudePerArrival
PROPERTY CompleteIsFinal
