SPECIFICATION SpecResolveFair
CONSTANTS
  Size = 2
  Instructions <- Jumping
PROPERTIES ConstantJumpResolved
