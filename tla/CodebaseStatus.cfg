SPECIFICATION Spec
CONSTANTS
  c1 = c1
  home = home
  other = other
  Client <- MCClient
  Project <- OneProject
  Home = home
  NoProject = NoProject
  Cache = Cache
  Worker = Worker
  Nobody = Nobody
  Process <- MCProcess
  Tracked = TRUE
  MaxEdits = 0
  MaxCalls = 2
  MaxStarts = 1
INVARIANTS
  NoGhostOperation
  LastOutcomeIsTrue
PROPERTIES
  StatusSettles
CHECK_DEADLOCK FALSE
