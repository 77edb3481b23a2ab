CONSTANTS
  Modules <- MCEdited
  Edited <- MCEdited
  OtherModule <- MCOther
  StarNames <- MCStarNames
  OtherImports = FALSE
  MaxEdits = 1
  MaxCrashes = 0
SPECIFICATION Spec
INVARIANT StaleSelectionsAreNotRun
CHECK_DEADLOCK FALSE
