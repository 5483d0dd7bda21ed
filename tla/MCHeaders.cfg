SPECIFICATION Spec
CONSTANTS
  CoefNum = 3
  Setups <- MCSetups
INVARIANTS
  EncoderNeverAborts
  ParametersArrive
  SlicesArrive
  MessagesArrive
CHECK_DEADLOCK FALSE
