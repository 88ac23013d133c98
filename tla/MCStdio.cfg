SPECIFICATION Spec
CONSTANTS
  i1 = i1
  i2 = i2
  i3 = i3
  parse = parse
  status = status
  Id <- MCId
  Tool <- MCTool
  NoTool = NoTool
  MaxInFlight = 2
  MaxLines = 3
INVARIANTS
  TypeOK
  OneResponse
  IdsAreWorkers
  NothingLostAtEof
PROPERTIES
  EveryLineIsAnswered
  StopsAfterEof
CHECK_DEADLOCK FALSE
