SPECIFICATION FairSpec
CONSTANTS
  a = a
  b = b
  Items = {a, b}
  Earlier <- InOneShard
  Timed = {b}
  Announces = {b}
  Streaming = {b}
  Stubborn = {a, b}
  MayHang = {a, b}
  Large = {a, b}
  Leaky = {b}
  DrainLimit = 2
  PipeCapacity = 2
  MaxSent = 2
INVARIANTS
  TypeOK
  CancelReachesEveryChild
  LiveChildrenAreOwned
  EveryMessageIsReceived
  OnlyBrokenMessagesBlock
PROPERTIES
  ImplementsPool
  TimedItemsFinish
  CancellationEndsRun
