CONSTANTS
  Configs <- AllConfigs
  Video = 7
  Structures = {"one", "two", "three", "shipped"}
SPECIFICATION Spec
INVARIANTS DecodersHaveReferences OutputInOrder NothingFails
