CONSTANTS
  None = None
  Model = TRUE
  Poses <- MCPoses
  SafeMin <- MCMin
  SafeMax <- MCMax
  Segment = 4
  TargetZ = 2
  EntryLimit = 1
  MaxLate = 1
  MaxOvertake = 1
  MaxRestarts = 1
SPECIFICATION FairSpec
INVARIANTS CleanOutcomeHolds NoOrphanControl CommittedPathIsSafe
PROPERTY ActiveFollowsBase
