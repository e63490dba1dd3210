SPECIFICATION Spec
CONSTANTS
  Known <- MCKnown
  Invented = {}
  Forms = {abs, bare}
  MaxTurns = 2
  MaxText = 2
  SelfMatching = TRUE
  Interleaved = FALSE
CHECK_DEADLOCK FALSE
INVARIANT Renamed
