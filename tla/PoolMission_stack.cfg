SPECIFICATION Spec
CONSTANTS
  Sessions <- MCSessions
  NoSession = NoSession
  v1 = v1
  p1 = p1
  p2 = p2
  p3 = p3
  Values = {v1}
  Transform <- MCTransform
  None = None
  MaxEpoch = 2
  MaxBoots = 2
  Plans = {p1, p3}
  Content <- MCContent
  Positions <- MCPositions
  Settings <- MCSettings
  Limits <- MCLimits
  Operational <- MCOperational
  Poses <- MCPoses
  Goals <- MCGoals
  MaxDrafts = 3
  MaxCommits = 2
  MaxSession = 2
INVARIANTS IdentityNamesAlignment AdmittedIsCurrent AdmittedRouteIsApproved
PROPERTIES MissionImmutable
