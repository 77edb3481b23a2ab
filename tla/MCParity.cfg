SPECIFICATION Spec
CONSTANTS
  Suites <- MCSuites
  SourceStatuses = {"pass", "skip", "fail"}
  NativeStatuses = {"pass", "skip", "flaky"}
  Generated <- Numbered
  MaxSurprises = 2
INVARIANTS
  ParityIsPerTest
  EquivalentSuitesPass
