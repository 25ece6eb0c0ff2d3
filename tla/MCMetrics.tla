------------------------------ MODULE MCMetrics ------------------------------
(* A small instance of Metrics: four CPUs without hyperthreads, a pool A   *)
(* that moves or goes, and an object on the server that has a pool of the  *)
(* same name and another one.                                              *)
EXTENDS Metrics, TLC

FourCpus == 0 .. 3
OwnCore  == [k \in FourCpus |-> {k}]
Symmetry == Permutations(Container)

PoolA(cset) ==
  [pool \in {"A"} |-> [Cpus |-> cset, CpuCount |-> 0, Isolated |-> FALSE, DisableHT |-> FALSE]]

MCFiles == {PoolA({1, 2}), PoolA({2, 3}), [pool \in {} |-> Nil]}

MCNodeConfigs == {ParseNodeConfig(f, n) : f \in MCFiles, n \in {0, 1}}

MCRequests ==
  {[pool |-> "A", exclusive |-> TRUE, amount |-> 1],
   [pool |-> "default", exclusive |-> FALSE, amount |-> 500]}

MCForeign ==
  [pool \in {"A", "other"} |-> [shared |-> {3}, exclusive |-> {}, capacity |-> 1000, usage |-> 0]]

=============================================================================
