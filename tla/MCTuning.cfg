\* Two workers of the measured command, one deaf to SIGTERM, and two processes of
\* others; two edits and births in one session.
SPECIFICATION Spec
CONSTANTS
  Tests <- MCTests
  PathOf <- MCPathOf
  Timed <- MCTimed
  Shardable <- MCShardable
  Times <- MCTimes
  Files <- MCFiles
  Contents = {"old", "new"}
  InitialFile <- MCInitialFile
  CommandLines <- MCCommandLines
  Warmups = 1
  Repeats = 2
  Requested = {}
  Capacity = 2
  MaxTroubles = 2
  Root = root
  Workers = {w1, w2}
  Strangers = {s1, s2}
  Stubborn = {w2}
  Pids = {1, 2, 3}
  None = none
INVARIANTS
  RecommendationIsEarned
  ObservedAreCleanedUp
PROPERTIES
  WrittenAsMeasured
  StrangersAreSpared
