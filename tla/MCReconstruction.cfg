CONSTANTS
  MaxPrefix = 20
  PictureCount = 150
  SeedCount = 1
  Pictures <- MCPictures
  Seeds <- MCSeeds
SPECIFICATION Spec
CHECK_DEADLOCK FALSE
INVARIANT NoDrift ResidualArrives ButterfliesMatchMatrices LosslessSurvives
PROPERTY DeblockedInParallel OffsetsFollowNeighbours
