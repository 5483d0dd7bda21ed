CONSTANTS
  MaxPrefix = 20
  VideoCount = 200
  SeedCount = 1
  Videos <- MCVideos
  Seeds <- MCSeeds
SPECIFICATION Spec
CHECK_DEADLOCK FALSE
INVARIANT CodingTreeArrives MergeInParallel
