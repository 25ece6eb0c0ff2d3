SPECIFICATION DrainSpec
CONSTANTS
  CpuId <- TwoCores
  CPU <- TwoCores
  ThreadSet <- TwoCoreThreads
  Isolated = {}
  Nil = Nil
  Wildcard = Wildcard
  Malformed = Malformed
  Container = {c1, c2}
  NodeConfigs <- ChurnConfigs
  ExclusiveCounts = {1}
  SharedRequests = {500}
  HwMayFail = FALSE
PROPERTIES
  PendingApplied
