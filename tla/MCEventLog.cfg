SPECIFICATION LogSpec
CONSTANTS
  Shards = {"first", "second"}
  Executions <- TwoShards
  Prologue <- Selection
  Epilogue <- Finalization
  Foreign <- Renumbered
  Window = 2
  MaxRepeats = 1
INVARIANTS
  DeliveryIsIrrelevant
  ExecutionsAreReproduced
  FinalizedIsNotBelieved
