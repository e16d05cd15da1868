SPECIFICATION Emulation
CONSTANTS
  Byte = 1
  OffsetBits = 3
  PageBits = 3
  InstructionBytes = 4
  Starts <- Possible
  Contents <- Mixed
INVARIANTS ConditionMeaning IdiomsCompute
PROPERTY ImplementsA64
CHECK_DEADLOCK FALSE
