SPECIFICATION Spec
CONSTANT
  Streams <- MCSinglePictureStreams
INVARIANTS
  EveryPictureComesOut
CHECK_DEADLOCK FALSE
