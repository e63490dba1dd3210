SPECIFICATION PartsSpec
CONSTANTS
  Statuses <- MCStatuses
  MaxSize = 4
  MaxBody = 3
  FrameField = 2
  ErrorSize = 1
  Letters <- MCLetters
  Value <- MCValue
  Blocks <- MCBlocks
  Items <- MCItems
  Chunks <- MCChunks
  MaxEvents = 4
  x1 = x1
  x2 = x2
  x3 = x3
  x4 = x4
  Absent = Absent
  Torn = Torn
  Exchanges <- MCExchanges
  Cuts <- MCCrashes
  PruneAnytime = FALSE
CHECK_DEADLOCK FALSE
INVARIANTS
  ForwardTypeOK
  NothingLost
  FaithfulReplay
  SameReassembly
  BlankedWhole
  PacedAnswer
  DirTypeOK
  StepsHaveBodies
  SeqIsPosition
PROPERTIES
  Settles
  ImplementsStepLog
