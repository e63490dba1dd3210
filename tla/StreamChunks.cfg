SPECIFICATION Spec
CONSTANTS
  Letters <- MCLetters
  Value <- MCValue
  Blocks <- MCBlocks
  Items <- MCItems
  Chunks <- MCMixedChunks
  MaxEvents = 4
CHECK_DEADLOCK FALSE
INVARIANT
  SameReassembly
