SPECIFICATION Spec
CONSTANTS
  Listing <- MCListing
  SourceFile <- MCSourceFile
  Directory <- MCDirectory
  Link <- MCLink
  DefaultRules <- MCDefaultRules
  Layout <- MCLayout
  Docs <- MCDocs
  NoFile = NoFile
  Language = {"erlang", "markdown", "python"}
  LanguageOf <- MCLanguageOf
  Hashed = {"erlang", "markdown"}
  Limit = 2
  Edited <- MCEdited
  Faults <- MCFaults
  MaxContent = 2
  MaxScans = 2
  MaxEdits = 2
  MaxFaults = 1
  MaxBuilds = 1
INVARIANTS
  TypeOK
  NothingIsMissing
  OneChangeIsCaught
  ReportIsCurrent
PROPERTY ScanEnds
CHECK_DEADLOCK FALSE
