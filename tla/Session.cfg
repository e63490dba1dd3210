SPECIFICATION Spec
CONSTANTS
  h1 = h1
  h2 = h2
  demo = demo
  Handlers <- MCHandlers
  Names <- MCNames
  Calls <- MCCalls
CHECK_DEADLOCK FALSE
INVARIANTS
  TypeOK
  SummaryAddsUp
  MissesFailTheBuild
  OneVerdict
PROPERTY
  Stops
