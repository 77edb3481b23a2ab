CONSTANTS
  Modules <- MCModules
  Edited <- MCEdited
  OtherModule <- MCOther
  StarNames <- MCStarNames
  OtherImports = TRUE
  MaxEdits = 2
  MaxCrashes = 1
SPECIFICATION Spec
INVARIANTS
  ChangedCodeIsRefused
  TrustedRunsAreOrdinaryRuns
CHECK_DEADLOCK FALSE
