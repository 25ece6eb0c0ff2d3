SPECIFICATION Spec
CONSTANTS
  CPU <- EightCpus
  ThreadSet <- Threads2
  PackageOf <- TwoPackages
  OfflineSets <- SomeOffline
  DownSets <- SomeDown
  MaxFailures = 1
  Nil = Nil
  Failed = Failed
INVARIANTS
  TypeOK
  KeepsContract
  AtMostOneCoreSplit
  PackageWhenPossible
  TopologyComplete
  OfflineKnown
PROPERTIES
  CallEnds
  DiscoveryRestores
  UpdateKeepsContract
CHECK_DEADLOCK FALSE
