SPECIFICATION FairSpec
CONSTANTS
  Tests = {1, 2, 3}
  Retries = 1
  UsesTags = TRUE
  Matching = {1, 2}
  SinkMayRaise = TRUE
  AttemptStatuses <- RepresentativeStatuses
INVARIANTS
  TypeOK
  AttemptsArePaidFor
  PassedTestsNeverFailed
  GreenRunIsComplete
  ReplayAgrees
PROPERTIES
  RunEnds
  ImplementsTestRun
