SPECIFICATION Spec
CONSTANTS
  NumTests = 3
  ModuleOf <- InterleavedModules
  Expected = {2}
  Skipped = {1}
INVARIANTS
  LostBatchIsNeverGreen
  AcknowledgedReportIsFinal
  PublishedResultsSurvive
PROPERTIES
  FailuresAreNotRevised
