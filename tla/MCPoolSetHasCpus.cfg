SPECIFICATION Spec
CONSTANTS
  CpuId <- ThreeCores
  CPU <- ThreeCores
  ThreadSet <- ThreeCoreThreads
  Isolated = {}
  Nil = Nil
  Wildcard = Wildcard
  Malformed = Malformed
  Container = {c1, c2}
  NodeConfigs <- HtConfigs
  ExclusiveCounts = {1, 2}
  SharedRequests = {500}
  HwMayFail = FALSE
SYMMETRY Symmetry
INVARIANTS
  AllocationHasCpus
