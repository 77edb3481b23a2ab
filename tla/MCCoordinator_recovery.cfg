SPECIFICATION Spec
CONSTANTS
  Tests = {1, 2, 3}
  Retries = 1
  UsesTags = TRUE
  Matching = {1, 2}
  SinkMayRaise = TRUE
  AttemptStatuses <- RepresentativeStatuses
INVARIANT
  RecoveredTestsPass
