SPECIFICATION Spec
CONSTANTS
  CPU <- MCCPU
  CpuId <- MCCpuId
  ThreadSet <- MCThreadSet
  Isolated = {5}
  NodeConfigs <- MCNodeConfigs
  Nil = Nil
  Wildcard = Wildcard
  Malformed = Malformed
INVARIANTS
  TypeOK
  LoopDecidesPrepareOk
  CpusGivenOnce
CHECK_DEADLOCK FALSE
