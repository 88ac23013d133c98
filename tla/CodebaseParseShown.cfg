SPECIFICATION Spec
CONSTANTS
  c1 = c1
  home = home
  other = other
  Client <- MCClient
  Project <- MCProject
  Home = home
  NoProject = NoProject
  Cache = Cache
  Worker = Worker
  Nobody = Nobody
  Process <- MCProcess
  Tracked = TRUE
  MaxEdits = 0
  MaxCalls = 1
  MaxStarts = 1
INVARIANTS
  ExplicitParseIsShown
CHECK_DEADLOCK FALSE
