SPECIFICATION Spec
CONSTANTS
  VPSData <- MCVPSData
  SPSData <- MCSPSData
  PPSData <- MCPPSData
  VPSIdOf <- MCVPSIdOf
  SPSIdOf <- MCSPSIdOf
  PPSIdOf <- MCPPSIdOf
  SPSRefersTo <- MCSPSRefersTo
  PPSRefersTo <- MCPPSRefersTo
INVARIANTS
  TypeOK
  SameIdSameSet
  ActiveSetsOfPicture
CHECK_DEADLOCK FALSE
