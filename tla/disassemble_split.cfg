SPECIFICATION Spec
CONSTANTS
  Size = 3
  Instructions <- Branches
INVARIANTS BranchesSplitBlocks
