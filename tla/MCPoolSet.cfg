SPECIFICATION Spec
CONSTANTS
  CpuId <- FiveCpus
  CPU <- FiveCpus
  ThreadSet <- FiveCpuThreads
  Isolated = {}
  Nil = Nil
  Wildcard = Wildcard
  Malformed = Malformed
  Container = {c1, c2, c3}
  NodeConfigs <- HtConfigsOfFive
  ExclusiveCounts = {1, 2}
  SharedRequests = {500}
  HwMayFail = TRUE
SYMMETRY Symmetry
INVARIANTS
  TypeOK
  UsedIsSum
  ExclusiveIsExclusive
  SharedPinnedDisjoint
  PinnedOwned
PROPERTIES
  CapacityKept
  ReallocationKeepsCount
