CONSTANTS
  Default = Default
  A = A
  Cpu = Cpu
  Reserved = Reserved
  OptIn = TRUE
  Nil = Nil
  Pool <- MCPool
  Pods <- MCPods
SPECIFICATION Spec
INVARIANTS AdmittedAgrees VerdictIsOrderFree TakenIsCounted TypeOK
CHECK_DEADLOCK FALSE
