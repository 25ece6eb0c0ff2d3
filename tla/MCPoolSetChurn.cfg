SPECIFICATION Spec
CONSTANTS
  CpuId <- TwoCores
  CPU <- TwoCores
  ThreadSet <- TwoCoreThreads
  Isolated = {}
  Nil = Nil
  Wildcard = Wildcard
  Malformed = Malformed
  Container = {c1, c2}
  NodeConfigs <- ChurnConfigs
  ExclusiveCounts = {1, 2}
  SharedRequests = {500}
  HwMayFail = FALSE
INVARIANTS
  ExclusivePinned
  ConfigInForce
  UsedNotAbove
PROPERTIES
  ReconcileEnds
  KeepsPromise
