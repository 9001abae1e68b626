CONSTANTS
  Callers = {c1}
  Words = 2
  Byte = 2
  Nibble = 2
  Setups <- MCSetups
SPECIFICATION Spec
CHECK_DEADLOCK FALSE
INVARIANTS ReadsAsked WriteSurvives
PROPERTIES OthersKept CallReturns
