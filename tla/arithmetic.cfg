SPECIFICATION Spec
CONSTANTS
  ByteBits = 3
  WordBytes = 2
  MultiplyBytes = 1
  LatticeBytes = 5
  IndexBytes = 10
  DivideBytes = {1, 2}
  Corners = {0, 1, 7}
  Inputs <- MCInputs
  Operands <- MCOperands
INVARIANTS ResultsExact LoopExact Divided
PROPERTY CallsReturn
CHECK_DEADLOCK FALSE
