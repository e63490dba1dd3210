SPECIFICATION Spec
CONSTANTS
  Known <- MCKnown
  Invented <- MCInvented
  Forms = {abs, bare}
  MaxTurns = 2
  MaxText = 2
  SelfMatching = FALSE
  Interleaved = TRUE
CHECK_DEADLOCK FALSE
INVARIANT Renamed
