SPECIFICATION SpecAnalysis
CONSTANTS
  Size = 3
  Width = 5
  Modulus = 8
  X0 = 0
  Natives <- Merging
  Image <- MCImage
  Registers = {0, 1}
  InitialValues = {0, 1}
  InitialMemory = {0}
INVARIANT MergesToTop
