SPECIFICATION Spec
CONSTANT
  Streams <- MCStreams
INVARIANTS
  OnePicturePerBuffer
  POCRight
  OutputOrder
  WholePictures
  EveryPictureComesOut
  ReferencesRight
  OutputInTime
  BufferAlmostWithinLimit
  NothingFails
PROPERTIES
  ImplementsOutput
  Termination
CHECK_DEADLOCK FALSE
