SPECIFICATION Spec
CONSTANTS
  Listing <- MCListing
  SourceFile <- MCSourceFile
  Directory <- MCDirectory
  Link <- MCLink
  DefaultRules <- MCDefaultRules
  Layout <- OneLayout
  Docs <- MCDocs
  NoFile = NoFile
  Language = {"erlang", "markdown", "python"}
  LanguageOf <- MCLanguageOf
  Hashed = {"erlang", "markdown"}
  Limit = 2
  Edited <- MCEdited
  Faults = {}
  MaxContent = 2
  MaxScans = 2
  MaxEdits = 1
  MaxFaults = 0
  MaxBuilds = 0
INVARIANT CacheIsOnlyAnOptimization
CHECK_DEADLOCK FALSE
