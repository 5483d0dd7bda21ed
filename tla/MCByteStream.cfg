SPECIFICATION Spec
CONSTANTS
  Streams <- MCStreams
  MaxPadding = 3
INVARIANTS
  UnitsArrive
  BytesCounted
PROPERTY
  AllUnitsTaken
