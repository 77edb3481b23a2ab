SPECIFICATION Spec
CONSTANTS
  Migrations = {"first", "second"}
  Modes <- AnyThenPublish
  ReportPath <- FirstReports
  Files = 2
  MaxTroubles = 2
INVARIANTS
  ReportsAreTrue
  NothingIsLeftBehind
  NobodyIsWaitedFor
PROPERTIES
  PublishedWasValidated
  NothingIsReplaced
