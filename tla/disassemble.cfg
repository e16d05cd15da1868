SPECIFICATION Spec
CONSTANTS
  Size = 5
  Instructions <- Mixed
INVARIANTS TypeOK VisitsReached EdgesMatch BlocksAreCode AllInBlocks
