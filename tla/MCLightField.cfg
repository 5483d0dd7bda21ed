CONSTANTS
  Configs <- AllConfigs
  Video = 20
  Structures = {"light field"}
SPECIFICATION Spec
INVARIANTS ReferencesFit
