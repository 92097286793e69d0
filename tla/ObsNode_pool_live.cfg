CONSTANTS
  m1 = m1  m2 = m2  l1 = l1  l2 = l2
  None = None
  Missions <- OneMission
  Locs <- OneLoc
  RequirePoolLocalization = TRUE
  RequireResolvedMission = TRUE
  MaxArmSends = 1
  MaxInFlight = 1
SPECIFICATION FairSpec
PROPERTY ApprovalResolves
PROPERTY EstopSettles
PROPERTY DeadPolicyStops
