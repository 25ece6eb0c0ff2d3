---------------------------- MODULE MCPoolPolicy ----------------------------
(* A small instance of PoolPolicy: four CPUs without hyperthreads.         *)
EXTENDS PoolPolicy

FourCpus == 0 .. 3
OwnCore  == [k \in FourCpus |-> {k}]

PoolA(cset) ==
  [pool \in {"A"} |-> [Cpus |-> cset, CpuCount |-> 0, Isolated |-> FALSE, DisableHT |-> FALSE]]

(* Pool A moves, or goes; or there is no file.                             *)
MCFiles == {PoolA({1, 2}), PoolA({2, 3}), [pool \in {} |-> Nil], Nil}

MCNodeConfigs == {ParseNodeConfig(f, n) : f \in MCFiles \ {Nil}, n \in {0, 1}}

MCRequests ==
  {[pool |-> "A", exclusive |-> TRUE, amount |-> 1],
   [pool |-> "A", exclusive |-> FALSE, amount |-> 500],
   [pool |-> "default", exclusive |-> FALSE, amount |-> 500],
   [pool |-> "ignored", exclusive |-> FALSE, amount |-> 500]}

=============================================================================
