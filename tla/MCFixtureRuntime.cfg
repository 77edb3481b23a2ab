SPECIFICATION Spec
CONSTANTS
  Test = Test
  Fixtures <- Registry
  Scope <- Scopes
  Needs <- Dependencies
  Yields <- Generators
  NumTests = 7
  ModuleOf <- Interleaved
  Wants <- Requests
  Skipped = {5}
INVARIANTS
  TestsHaveTheirFixtures
  LastUserIsCharged
PROPERTIES
  ImplementsLifetimes
