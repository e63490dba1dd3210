SPECIFICATION PartsSpec
CONSTANTS
  Known <- MCKnown
  Invented <- MCInvented
  Forms = {abs, bare}
  MaxTurns = 2
  MaxText = 2
  SelfMatching = FALSE
  Interleaved = FALSE
  Words <- MCWords
  Calls <- MCCalls
  MaxMessages = 1
  MaxItems = 3
  MaxChanges = 3
CHECK_DEADLOCK FALSE
INVARIANTS
  Portable
  Renamed
  NeverMisses
  KeyIsMeaning
