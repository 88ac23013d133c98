SPECIFICATION Spec
CONSTANTS
  a = a
  b = b
  c = c
  d = d
  Type <- MCType
  Top = Top
  MaxLocations = 2
  MaxTypes = 3
  MaxEdges = 4
  MaxTypeDepth = 2
  Setup <- MCSetup
  Tree <- MCTree
  NamesOf <- MCNamesOf
  NoTree = NoTree
INVARIANTS
  TypeOK
  OkIsWhole
  HonestProgramIsHeard
  CandidateIsOneTree
PROPERTY AnalysisEnds
CHECK_DEADLOCK FALSE
