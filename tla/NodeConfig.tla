----------------------------- MODULE NodeConfig -----------------------------
(***************************************************************************)
(* The configuration of the CPU pools of one node: how a configuration     *)
(* file becomes a NodeConfig (cmd/cpu-pool-policy/pool/config.go), and     *)
(* which CPUs a NodeConfig gives to each pool once it has been checked     *)
(* against the machine (prepareConfig in pool.go).                         *)
(*                                                                         *)
(* The module has no variables.  The checks are stated as predicates over  *)
(* a whole configuration; module PrepareConfig has the loops of the code,  *)
(* which visit the pools in the random order of a Go map, and shows that   *)
(* they decide exactly these predicates.                                   *)
(***************************************************************************)
EXTENDS Integers, FiniteSets, FiniteSetsExt

CONSTANTS
  CpuId,        \* ids a cpuset may name, those of no CPU included
  CPU,          \* ids of the CPUs found under sysfs (sysfs.System.cpus)
  ThreadSet,    \* CPU id -> the hyperthreads of its core, itself included
  Isolated,     \* CPUs named by the isolcpus= option of the kernel
  Nil,          \* a nil pointer, or an option the file leaves out
  Wildcard,     \* the cpuset "*"
  Malformed     \* a cpuset or frequency string the parser rejects

ASSUME CPUAssumption == CPU \subseteq CpuId /\ CpuId \subseteq Nat /\ IsFiniteSet(CPU) /\ 0 \in CPU

ASSUME ThreadSetAssumption ==
  /\ ThreadSet \in [CPU -> SUBSET CPU]
  /\ \A k \in CPU : k \in ThreadSet[k]
  /\ \A j, k \in CPU : j \in ThreadSet[k] => ThreadSet[j] = ThreadSet[k]

ASSUME IsolatedAssumption == Isolated \subseteq CPU

ASSUME OptionAssumption ==
  /\ \A cset \in SUBSET CpuId : cset \notin {Nil, Wildcard, Malformed}
  /\ Nil # Wildcard /\ Nil # Malformed /\ Wildcard # Malformed

-----------------------------------------------------------------------------
(* Pools with a meaning of their own, and the CPU count that stands for    *)
(* "whatever the other pools leave".                                       *)

ReservedPool == "reserved"
DefaultPool  == "default"
IgnoredPool  == "ignored"
OfflinePool  == "offline"

ClaimLeftover == -1

(* Types.  An entry of the file keeps its cpuset as the file has it; the   *)
(* Config of a pool has a set of CPUs, or none yet.                        *)

FileEntry == [Cpus: {Nil, Wildcard, Malformed} \cup SUBSET CpuId, CpuCount: Int,
              Isolated: BOOLEAN, DisableHT: BOOLEAN]

Config    == [Cpus: {Nil} \cup SUBSET CpuId, CpuCount: Int,
              Isolated: BOOLEAN, DisableHT: BOOLEAN]

-----------------------------------------------------------------------------
IsCpuset(c) == c \notin {Nil, Wildcard, Malformed}

(* Parsing.  The file is read in map order and the first error ends it, so *)
(* a file is accepted when no entry of it is in error.                     *)

EntryError(pool, e) ==
  \/ e.Cpus = Nil /\ pool # ReservedPool
  \/ (e.Isolated \/ e.DisableHT) /\ pool \in {ReservedPool, DefaultPool}
  \/ e.Cpus = Malformed
  \/ e.Cpus = Wildcard /\ e.DisableHT
  \/ /\ IsCpuset(e.Cpus)
     /\ IF e.Isolated THEN ~(e.Cpus \subseteq Isolated)
                      ELSE e.Cpus \cap Isolated # {}

ParseError(file) == \E pool \in DOMAIN file : EntryError(pool, file[pool])

(* One entry, written over the Config "old" the pool already has.  An      *)
(* entry without a cpuset sets the count, to 0 if the file gives none.     *)
Configure(old, e) ==
  [Cpus      |-> IF IsCpuset(e.Cpus) THEN e.Cpus ELSE old.Cpus,
   CpuCount  |-> IF e.Cpus = Nil THEN e.CpuCount
                 ELSE IF e.Cpus = Wildcard THEN ClaimLeftover ELSE old.CpuCount,
   Isolated  |-> e.Isolated,
   DisableHT |-> e.DisableHT]

EmptyConfig    == [Cpus |-> Nil, CpuCount |-> 0, Isolated |-> FALSE, DisableHT |-> FALSE]
LeftoverConfig == [EmptyConfig EXCEPT !.CpuCount = ClaimLeftover]
ReservedConfig(numReservedCPUs) == [EmptyConfig EXCEPT !.CpuCount = numReservedCPUs]

DefaultNodeConfig(numReservedCPUs) ==
  [pool \in {ReservedPool, DefaultPool} |->
     IF pool = ReservedPool THEN ReservedConfig(numReservedCPUs) ELSE LeftoverConfig]

(* The NodeConfig of a file without errors: reserved and default are there *)
(* whether the file names them or not.                                     *)
ParseNodeConfig(file, numReservedCPUs) ==
  [pool \in DOMAIN file \cup {ReservedPool, DefaultPool} |->
     CASE pool \notin DOMAIN file -> DefaultNodeConfig(numReservedCPUs)[pool]
       [] pool \in DOMAIN file /\ pool = ReservedPool ->
            Configure(ReservedConfig(numReservedCPUs), file[pool])
       [] OTHER -> Configure(EmptyConfig, file[pool])]

-----------------------------------------------------------------------------
(* The CPUs a configuration gives to each pool.                            *)

(* Siblings of a set of CPUs: the other threads of their cores.            *)
HtSiblings(cpus) ==
  UNION {ThreadSet[k] \ {k} : k \in cpus}

(* The order in which CPUs are reserved: core by core, a core at the place *)
(* of its first thread, and within a core by id.                           *)
ReservedBefore(j, k) ==
  \/ Min(ThreadSet[j]) < Min(ThreadSet[k])
  \/ ThreadSet[j] = ThreadSet[k] /\ j <= k

PickReserved(count) ==
  {k \in CPU : Cardinality({j \in CPU : ReservedBefore(j, k)}) <= count}

ReservedIsExplicit(ncfg) == ncfg[ReservedPool].Cpus \notin {Nil, {}}

(* Slicing with a negative count: reserved is configured with "*".         *)
PreparePanics(ncfg) ==
  ReservedPool \in DOMAIN ncfg /\ ~ReservedIsExplicit(ncfg) /\ ncfg[ReservedPool].CpuCount < 0

ReservedOk(ncfg) ==
  /\ ReservedPool \in DOMAIN ncfg
  /\ IF ReservedIsExplicit(ncfg) THEN 0 \in ncfg[ReservedPool].Cpus
                                 ELSE ncfg[ReservedPool].CpuCount \in 0 .. Cardinality(CPU)

LeftoverPools(ncfg, isolated) ==
  {pool \in DOMAIN ncfg : ncfg[pool].CpuCount = ClaimLeftover /\ ncfg[pool].Isolated = isolated}

ExplicitPools(ncfg) == {pool \in DOMAIN ncfg : ncfg[pool].CpuCount # ClaimLeftover}

ExplicitCpus(ncfg, pool) ==
  IF pool = ReservedPool /\ ~ReservedIsExplicit(ncfg)
    THEN PickReserved(ncfg[pool].CpuCount)
    ELSE ncfg[pool].Cpus

(* CPUs taken by explicit pools, by kind, and the siblings of the HT-free  *)
(* ones, which are to be taken offline.                                    *)
ClaimedCpus(ncfg, isolated) ==
  UNION {ExplicitCpus(ncfg, pool) :
           pool \in {q \in ExplicitPools(ncfg) : ncfg[q].Isolated = isolated}}

OfflinedCpus(ncfg) ==
  UNION {HtSiblings(ExplicitCpus(ncfg, pool)) :
           pool \in {q \in ExplicitPools(ncfg) : ncfg[q].DisableHT}}

AvailableCpus(isolated) == IF isolated THEN Isolated ELSE CPU \ Isolated

LeftoverCpus(ncfg, isolated) ==
  (AvailableCpus(isolated) \ ClaimedCpus(ncfg, isolated))
     \ (IF isolated THEN {} ELSE OfflinedCpus(ncfg))

(* CPUs of every pool of a configuration that passes the checks.           *)
PoolCpus(ncfg) ==
  [pool \in DOMAIN ncfg |->
     IF pool \in ExplicitPools(ncfg) THEN ExplicitCpus(ncfg, pool)
                                     ELSE LeftoverCpus(ncfg, ncfg[pool].Isolated)]

(* The checks of prepareConfig that depend on the configuration alone:     *)
(* those of the loop over the pools, then those of the claims.             *)
PoolsOk(ncfg) ==
  /\ ReservedOk(ncfg)
  /\ \A pool \in ExplicitPools(ncfg) :
        ExplicitCpus(ncfg, pool) \subseteq AvailableCpus(ncfg[pool].Isolated)
  /\ \A p, q \in ExplicitPools(ncfg) :
        p # q => ExplicitCpus(ncfg, p) \cap ExplicitCpus(ncfg, q) = {}
  /\ OfflinedCpus(ncfg) \subseteq AvailableCpus(FALSE) \ ClaimedCpus(ncfg, FALSE)
  /\ \A isolated \in BOOLEAN : \A p, q \in LeftoverPools(ncfg, isolated) : p = q

PrepareOk(ncfg) ==
  /\ PoolsOk(ncfg)
  /\ \A isolated \in BOOLEAN :
        LeftoverPools(ncfg, isolated) # {} => LeftoverCpus(ncfg, isolated) # {}

=============================================================================
