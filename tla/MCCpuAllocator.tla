--------------------------- MODULE MCCpuAllocator ----------------------------
(* Two packages of two cores of two threads, and every call on them, with  *)
(* a few sets of offline CPUs: none, a thread, a thread of every core of a *)
(* package, a thread of every core, a core.                                *)
EXTENDS CpuAllocator

EightCpus     == 0 .. 7
Threads2      == [k \in EightCpus |-> {j \in EightCpus : j % 4 = k % 4}]
TwoPackages   == [k \in EightCpus |-> (k % 4) \div 2]
SomeDown      == {{}, {0, 6, 7}}
SomeOffline   == {{}, {5}, {6, 7}, {4, 5, 6, 7}, {2, 6}}

=============================================================================
