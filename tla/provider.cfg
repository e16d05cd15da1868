SPECIFICATION Spec
CONSTANTS
  AddressBits = 3
  InstructionBytes = 2
  Long = {2, 4, 5}
  RingSize = 2
  MaxMade = 4
  MaxHeld = 1
  Null = Null
  Unallocated = Unallocated
  Unknown = Unknown
  Undefined = Undefined
  Files <- Images
INVARIANTS LiveAreCached RecentKept
PROPERTY ImplementsMemory
CHECK_DEADLOCK FALSE
