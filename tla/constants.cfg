SPECIFICATION SpecAnalysis
CONSTANTS
  Size = 4
  Width = 5
  Modulus = 8
  X0 = 0
  Natives <- Mixed
  Image <- MCImage
  Registers = {0, 1}
  InitialValues = {0, 1}
  InitialMemory = {0}
INVARIANTS TypeOK BlocksWithinInstruction Settled Covered Sound ConstantsFound
PROPERTIES AnalysisEnds
