CONSTANTS
  Worlds <- MCWorlds
  Files <- MCFiles
  Questions <- MCQuestions
  Split <- MCSplit
  Arities = {0, 1, 2}
  Slashed = {"f/x"}
  EvidenceLimit = 2
  MaxFaults = 1
  MaxFacts = 4
  Any = Any
  Undefined = Undefined
  NoName = NoName
SPECIFICATION Spec
INVARIANTS
  EverythingSaidIsSo
  NothingIsMissed
  CitationsCover
CHECK_DEADLOCK FALSE
