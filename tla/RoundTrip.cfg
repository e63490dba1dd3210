SPECIFICATION FairSpec
CONSTANTS
  main = main
  side = side
  title = title
  turn1 = turn1
  turn2 = turn2
  poll = poll
  MaxRequests = 3
  Retries = 1
  Threads <- MCThreads
  Programs <- MCPrograms
  Requests <- MCRequests
  Route <- MCRoute
  Unparsable <- MCUnparsable
  Shape <- MCShape
  ModelOf <- MCModelOf
  Differences <- MCDifferences
  Windows <- MCWindows
  AuxiliaryTurns = TRUE
CHECK_DEADLOCK FALSE
INVARIANTS
  IInv
  RecordedOnce
  NoMissWhenGapsFit
  OwnAnswers
PROPERTIES
  Ends
  Replays
