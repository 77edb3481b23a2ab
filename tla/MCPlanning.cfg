\* Two recorders, three runs, one recording that fails.  The recorders may stop
\* when every recording has failed or been made, but may always record again.
SPECIFICATION Spec
CONSTANTS
  Recorders = {r1, r2}
  Runs <- MCRuns
  ResultsOf <- MCResultsOf
  MaxFailures = 1
  Tests <- MCTests
  PathOf <- MCPathOf
  Timed <- MCTimed
INVARIANTS
  EstimatesAreMeans
  PlansAreSound
