SPECIFICATION Spec
CONSTANTS
  Letters <- MCLetters
  Value <- MCValue
  Blocks <- MCBlocks
  Items <- MCItems
  Chunks <- MCChunks
  MaxEvents = 4
CHECK_DEADLOCK FALSE
INVARIANT
  JoinsTheMinimum
