----------------------------- MODULE MCPoolSet ------------------------------
(* Small instances of PoolSet: two or three cores, most of two threads,   *)
(* and families of configurations chosen for what going from one to        *)
(* another does.                                                           *)
EXTENDS PoolSetClaims, TLC

(* CPUs k and k + n are the threads of a core. *)
ThreeCores       == 0 .. 5
ThreeCoreThreads == [k \in ThreeCores |-> {j \in ThreeCores : j % 3 = k % 3}]
TwoCores         == 0 .. 3
TwoCoreThreads   == [k \in TwoCores |-> {j \in TwoCores : j % 2 = k % 2}]

(* CPU 0 has a core of its own.                                            *)
FiveCpus       == 0 .. 4
FiveCpuThreads == [k \in FiveCpus |-> {j \in FiveCpus : j = k \/ {j, k} \in {{1, 3}, {2, 4}}}]

Symmetry == Permutations(Container)

Entry(cset, count, disableHT) ==
  [Cpus |-> cset, CpuCount |-> count, Isolated |-> FALSE, DisableHT |-> disableHT]

Explicit(cset) == Entry(cset, 0, FALSE)
HtFree(cset)   == Entry(cset, 0, TRUE)

(* A file that configures pool A, and maybe others, and leaves the rest to *)
(* reserved and default.                                                   *)
WithA(a) == [pool \in {"A"} |-> a]
WithAB(a, b) == [pool \in {"A", "B"} |-> IF pool = "A" THEN a ELSE b]

Parsed(files) == {ParseNodeConfig(f, 1) : f \in {g \in files : ~ParseError(g)}}

(* The pools keep their names; their CPUs move, and the last file asks for *)
(* the CPU of the reserved pool.                                           *)
StableConfigs ==
  Parsed({WithA(Explicit({1, 4})), WithA(Explicit({1, 2})), WithA(Explicit({0, 1}))})

(* The same with a pool that takes hyperthreads offline.                   *)
HtConfigs ==
  Parsed({WithA(Explicit({1, 4, 5})), WithA(HtFree({1, 2})), WithA(Explicit({0, 1}))})

(* The same on five CPUs.                                                  *)
HtConfigsOfFive ==
  Parsed({WithA(Explicit({1, 3, 4})), WithA(HtFree({1})), WithA(Explicit({0, 1}))})

(* Pools come and go, on two cores.                                        *)
ChurnConfigs ==
  Parsed({WithA(Explicit({1})), WithAB(Explicit({1}), Explicit({2})),
          [pool \in {} |-> Nil], WithA(Explicit({0, 1}))})

=============================================================================
