SPECIFICATION Spec
CONSTANTS
  c1 = c1
  home = home
  other = other
  Client <- MCClient
  Project <- MCProject
  Home = home
  NoProject = NoProject
  Cache = Cache
  Worker = Worker
  Nobody = Nobody
  Process <- MCProcess
  Tracked = FALSE
  MaxEdits = 1
  MaxCalls = 2
  MaxStarts = 2
INVARIANTS
  TypeOK
  CurrentIsLastParsed
  ServedIsSaved
  RefreshingIsLive
PROPERTIES
  SnapshotsNeverGoBack
  EveryCallIsAnswered
  RefreshEnds
CHECK_DEADLOCK FALSE
