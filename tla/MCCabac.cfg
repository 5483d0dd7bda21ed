CONSTANTS
  Contexts   <- MCContexts
  InitStates <- MCInitStates
  Symbols    <- MCSymbols
  MaxSymbols = 5
SPECIFICATION Spec
CHECK_DEADLOCK FALSE
INVARIANTS
  EncoderAsserts
  SubstreamSurvives
PROPERTY
  SizeIsPredicted
