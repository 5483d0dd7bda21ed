SPECIFICATION Spec
CONSTANTS
  Units <- MCUnits
  MaxCabacZeroWords = 2
INVARIANTS
  UnitIsLegal
  ReaderAccepts
  PayloadArrives
  SubstreamsFound
