CONSTANTS
  m1 = m1  m2 = m2  l1 = l1  l2 = l2
  None = None
  Missions <- TwoMissions
  Locs <- TwoLocs
  RequirePoolLocalization = TRUE
  RequireResolvedMission = TRUE
  MaxArmSends = 2
  MaxInFlight = 2
SPECIFICATION Spec
INVARIANT DisarmWins
INVARIANT NoUnwatchedThrust
INVARIANT ThrustUnderContract
PROPERTY ImplementsGateway
