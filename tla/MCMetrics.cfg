SPECIFICATION MetricsSpec
CONSTANTS
  CpuId <- FourCpus
  CPU <- FourCpus
  ThreadSet <- OwnCore
  Isolated = {}
  Nil = Nil
  Wildcard = Wildcard
  Malformed = Malformed
  Container = {c1, c2}
  NodeConfigs <- MCNodeConfigs
  ExclusiveCounts = {1}
  SharedRequests = {500}
  HwMayFail = FALSE
  Files <- MCFiles
  NumReserved = 1
  Requests <- MCRequests
  MaxEdits = 1
  MaxFaults = 1
  Foreign <- MCForeign
  MaxMishaps = 2
SYMMETRY Symmetry
INVARIANTS
  MetricsTypeOK
  CacheCurrent
  OldPoolsForgotten
  ServerFollows
