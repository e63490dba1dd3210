SPECIFICATION PartsSpec
CONSTANTS
  probe = probe
  title = title
  chat = chat
  turn = turn
  upload = upload
  MaxSteps = 4
  Requests <- MCRequests
  Route <- MCRoute
  Unparsable <- MCUnparsable
  Shape <- MCShape
  ModelOf <- MCModelOf
  Differences <- MCDifferences
  Scripts <- MCScripts
  Windows <- MCWindows
  AuxiliaryTurns = TRUE
  Bodies <- MCBodies
  Rulesets <- MCRulesets
CHECK_DEADLOCK FALSE
INVARIANTS
  TypeOK
  InRecordedOrder
  RepeatIsMostRecent
  MissOnlyBeyondWindow
  MissNamesOwedStep
  AuxiliaryToldApart
  IInv
  SameMeaning
  NeverSilent
PROPERTIES
  WindowNeverCloses
  ImplementsScriptReplay
  DeclaringIsExact
  PastingSuffices
