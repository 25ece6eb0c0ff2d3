--------------------------- MODULE PoolSetProofs ----------------------------
(***************************************************************************)
(* The safety of PoolSet, for any number of CPUs, containers and           *)
(* configurations: the five invariants below are preserved together.       *)
(* Each is stated over pools ps and containers cs, because ReleaseCPU      *)
(* changes both before it reconciles; IInv is their conjunction over the   *)
(* variables.  At the end, from these: PoolSet implements ExclusiveCpus.   *)
(***************************************************************************)
EXTENDS PoolSet, FiniteSetTheorems, TLAPS

PoolsTyped(ps) ==
  /\ DOMAIN ps \subseteq PoolName
  /\ \A pool \in DOMAIN ps : ps[pool] \in PoolRecord

ContainersTyped(cs) ==
  /\ DOMAIN cs \subseteq Container
  /\ \A id \in DOMAIN cs : cs[id] \in ContainerRecord

Apart(ps) == \A pool \in DOMAIN ps : ps[pool].shared \cap ps[pool].pinned = {}

(* Pinned CPUs have an owner among the containers ids.                     *)
Owned(ps, cs, ids) ==
  \A pool \in DOMAIN ps : \A k \in ps[pool].pinned :
     \E id \in ids : cs[id].pool = pool /\ k \in cs[id].cpus

(* The containers ids have their CPUs pinned, each its own.                *)
Pinned(ps, cs, ids) ==
  /\ \A id \in ids : cs[id].pool \in DOMAIN ps => cs[id].cpus \subseteq ps[cs[id].pool].pinned
  /\ \A i, j \in ids :
        i # j /\ cs[i].pool = cs[j].pool /\ cs[i].pool \in DOMAIN ps =>
           cs[i].cpus \cap cs[j].cpus = {}

IInv ==
  /\ TypeOK
  /\ SharedPinnedDisjoint
  /\ PinnedOwned
  /\ ExclusivePinned
  /\ ConfigInForce

-----------------------------------------------------------------------------
(* Facts about configurations and about the allocator.                     *)

(* The CPUs an acceptable configuration gives to a pool are CPUs.          *)
LEMMA AcceptableCpus ==
  \A ncfg \in Acceptable : \A pool \in DOMAIN ncfg : CpusOf[ncfg][pool] \in SUBSET CPU
<1> SUFFICES ASSUME NEW ncfg \in Acceptable, NEW pool \in DOMAIN ncfg
             PROVE  CpusOf[ncfg][pool] \in SUBSET CPU
  OBVIOUS
<1>1. ncfg \in NodeConfigs /\ PrepareOk(ncfg)
  BY DEF Acceptable
<1>2. CpusOf[ncfg][pool] = PoolCpus(ncfg)[pool]
  BY <1>1 DEF CpusOf
<1>3. \A b \in BOOLEAN : AvailableCpus(b) \subseteq CPU
  BY IsolatedAssumption DEF AvailableCpus
<1>4. ncfg[pool].Isolated \in BOOLEAN
  BY <1>1, NodeConfigsAssumption DEF Config
<1>5. CASE pool \in ExplicitPools(ncfg)
  <2>1. ExplicitCpus(ncfg, pool) \subseteq AvailableCpus(ncfg[pool].Isolated)
    BY <1>1, <1>5 DEF PrepareOk, PoolsOk
  <2> QED BY <2>1, <1>2, <1>3, <1>4, <1>5 DEF PoolCpus
<1>6. CASE pool \notin ExplicitPools(ncfg)
  <2>1. LeftoverCpus(ncfg, ncfg[pool].Isolated) \subseteq AvailableCpus(ncfg[pool].Isolated)
    BY DEF LeftoverCpus
  <2> QED BY <2>1, <1>2, <1>3, <1>4, <1>6 DEF PoolCpus
<1> QED BY <1>5, <1>6

(* So are the CPUs it takes offline.                                       *)
LEMMA OfflinedType == \A ncfg \in DOMAIN OfflinedOf : OfflinedOf[ncfg] \subseteq CPU
<1> SUFFICES ASSUME NEW ncfg \in NodeConfigs, PoolsOk(ncfg)
             PROVE  OfflinedCpus(ncfg) \subseteq CPU
  BY DEF OfflinedOf
<1> QED BY DEF PoolsOk, AvailableCpus

(* No CPU set is mistaken for a missing Config.                            *)
LEMMA CpusAreConfig == Nil \notin SUBSET CPU
  BY OptionAssumption, CPUAssumption

(* What the allocator takes leaves the set, and it takes nothing else.     *)
LEMMA AllocatorContract ==
  ASSUME NEW from, NEW count, NEW a \in AllocatorOutcomes(from, count)
  PROVE  a.got \subseteq from /\ a.rest \subseteq from /\ a.got \cap a.rest = {}
BY DEF AllocatorOutcomes, AllocationOutcomes, kSubset

-----------------------------------------------------------------------------
(* Taking CPUs or a share for a container.  The containers ids are those   *)
(* that hold their CPUs already; the new one joins them.                   *)

(* A reallocation or an exclusive allocation keeps pools and containers    *)
(* typed and leaves the Configs alone.                                     *)
LEMMA TakeCPUsTyped ==
  ASSUME TypeOK, NEW id \in Container, NEW pool \in DOMAIN pools, NEW count,
         TakeCPUs(id, pool, count)
  PROVE  /\ PoolsTyped(pools') /\ ContainersTyped(containers')
         /\ DOMAIN pools' = DOMAIN pools
         /\ \A p \in DOMAIN pools : pools'[p].cfg = pools[p].cfg
         /\ DOMAIN containers' = DOMAIN containers \cup {id}
         /\ stale' \in {Nil} \cup SUBSET CPU
<1>1. PICK a \in AllocatorOutcomes(pools[pool].shared, count) :
        /\ pools' = [pools EXCEPT ![pool].shared = a.rest, ![pool].pinned = @ \cup a.got]
        /\ containers' = Put(containers, id, [pool |-> pool, cpus |-> a.got,
                                              req |-> 1000 * Cardinality(a.got)])
  BY DEF TakeCPUs
<1>2. a.got \subseteq CPU /\ a.rest \subseteq CPU
  BY AllocatorContract DEF TypeOK, PoolRecord
<1>3. Cardinality(a.got) \in Nat
  BY <1>2, CPUAssumption, FS_Subset, FS_CardinalityType
<1>4. pool \in PoolName
  BY DEF TypeOK
<1>5. PoolsTyped(pools') /\ DOMAIN pools' = DOMAIN pools
  BY <1>1, <1>2 DEF TypeOK, PoolsTyped, PoolRecord
<1>6. ContainersTyped(containers') /\ DOMAIN containers' = DOMAIN containers \cup {id}
  BY <1>1, <1>2, <1>3, <1>4 DEF TypeOK, ContainersTyped, ContainerRecord, Put
<1>7. \A p \in DOMAIN pools : pools'[p].cfg = pools[p].cfg
  BY <1>1 DEF TypeOK, PoolRecord
<1>8. stale' \in {Nil} \cup SUBSET CPU
  BY DEF TakeCPUs, BelievedOffline, TypeOK
<1> QED BY <1>5, <1>6, <1>7, <1>8

(* It keeps the shared and the pinned CPUs apart, every pinned CPU owned,  *)
(* and the CPUs of the containers pinned and their own.                    *)
LEMMA TakeCPUsSafe ==
  ASSUME TypeOK, Apart(pools), NEW id, NEW pool \in DOMAIN pools, NEW count,
         TakeCPUs(id, pool, count),
         NEW ids, ids \subseteq DOMAIN containers, id \notin ids
  PROVE  /\ Apart(pools')
         /\ Owned(pools, containers, ids) => Owned(pools', containers', ids \cup {id})
         /\ Pinned(pools, containers, ids) => Pinned(pools', containers', ids \cup {id})
<1>1. PICK a \in AllocatorOutcomes(pools[pool].shared, count) :
        /\ pools' = [pools EXCEPT ![pool].shared = a.rest, ![pool].pinned = @ \cup a.got]
        /\ containers' = Put(containers, id, [pool |-> pool, cpus |-> a.got,
                                              req |-> 1000 * Cardinality(a.got)])
  BY DEF TakeCPUs
<1>2. /\ a.got \subseteq pools[pool].shared
      /\ a.rest \subseteq pools[pool].shared
      /\ a.got \cap a.rest = {}
  BY AllocatorContract
<1>3. /\ DOMAIN pools' = DOMAIN pools
      /\ pools'[pool].shared = a.rest
      /\ pools'[pool].pinned = pools[pool].pinned \cup a.got
      /\ \A p \in DOMAIN pools \ {pool} : pools'[p] = pools[p]
  BY <1>1 DEF TypeOK, PoolRecord
<1>4. /\ containers'[id].pool = pool /\ containers'[id].cpus = a.got
      /\ \A i \in ids : containers'[i] = containers[i]
  BY <1>1 DEF Put
<1>5. Apart(pools')
  BY <1>2, <1>3 DEF Apart
<1>6. ASSUME Owned(pools, containers, ids)
      PROVE  Owned(pools', containers', ids \cup {id})
  BY <1>3, <1>4, <1>6 DEF Owned
<1>7. ASSUME Pinned(pools, containers, ids)
      PROVE  Pinned(pools', containers', ids \cup {id})
  <2>1. \A i \in ids : containers[i].pool = pool =>
          containers[i].cpus \cap a.got = {}
    BY <1>2, <1>7 DEF Pinned, Apart
  <2> QED BY <1>3, <1>4, <1>7, <2>1 DEF Pinned
<1> QED BY <1>5, <1>6, <1>7

(* A shared allocation touches neither set of CPUs.                        *)
LEMMA TakeShareSafe ==
  ASSUME TypeOK, NEW id \in Container, NEW pool \in DOMAIN pools, NEW req \in Nat,
         TakeShare(id, pool, req), id \notin DOMAIN containers
  PROVE  /\ PoolsTyped(pools') /\ ContainersTyped(containers')
         /\ DOMAIN pools' = DOMAIN pools
         /\ \A p \in DOMAIN pools : /\ pools'[p].cfg = pools[p].cfg
                                    /\ pools'[p].shared = pools[p].shared
                                    /\ pools'[p].pinned = pools[p].pinned
         /\ DOMAIN containers' = DOMAIN containers \cup {id}
         /\ \A i \in DOMAIN containers : containers'[i] = containers[i]
         /\ containers'[id].cpus = {}
<1>1. /\ pools' = [pools EXCEPT ![pool].used = @ + req]
      /\ containers' = Put(containers, id, [pool |-> pool, cpus |-> {}, req |-> req])
  BY DEF TakeShare
<1>2. pool \in PoolName
  BY DEF TypeOK
<1>3. /\ PoolsTyped(pools') /\ DOMAIN pools' = DOMAIN pools
      /\ \A p \in DOMAIN pools : /\ pools'[p].cfg = pools[p].cfg
                                 /\ pools'[p].shared = pools[p].shared
                                 /\ pools'[p].pinned = pools[p].pinned
  BY <1>1 DEF TypeOK, PoolsTyped, PoolRecord
<1>4. /\ ContainersTyped(containers') /\ DOMAIN containers' = DOMAIN containers \cup {id}
      /\ \A i \in DOMAIN containers : containers'[i] = containers[i]
      /\ containers'[id].cpus = {}
  BY <1>1, <1>2 DEF TypeOK, ContainersTyped, ContainerRecord, Put
<1> QED BY <1>3, <1>4

-----------------------------------------------------------------------------
(* Reconciling.  What ReleaseCPU and Reconfigure hand to it: pools ps, the *)
(* current ones with the same Configs, and containers cs which own them.   *)
Handed(ps, cs) ==
  /\ PoolsTyped(ps) /\ ContainersTyped(cs)
  /\ DOMAIN ps = DOMAIN pools
  /\ \A pool \in DOMAIN ps : ps[pool].cfg = pools[pool].cfg
  /\ Apart(ps)
  /\ Owned(ps, cs, DOMAIN cs)
  /\ ~reallocFailed => Pinned(ps, cs, ExclusiveIn(cs))

(* Preparing an acceptable configuration and taking it in use leaves no    *)
(* CPU pinned, every pool of the configuration with its CPUs, and the      *)
(* usage of every pool as it was; a new pool is not in use.                *)
LEMMA ActivatedPools ==
  ASSUME NEW ncfg \in Acceptable, NEW ps, PoolsTyped(ps), NEW ps2,
         ps2 = ResetExclusive(Activate(PreparedPools(ncfg, ps)))
  PROVE  /\ PoolsTyped(ps2)
         /\ \A pool \in DOMAIN ps2 : ps2[pool].pinned = {}
         /\ \A pool \in DOMAIN ncfg : pool \in DOMAIN ps2 /\ ps2[pool].cfg = CpusOf[ncfg][pool]
         /\ \A pool \in DOMAIN ps2 :
              ps2[pool].used = IF pool \in DOMAIN ps THEN ps[pool].used ELSE 0
<1> DEFINE p1 == PreparedPools(ncfg, ps)
           p2 == Activate(p1)
<1>1. DOMAIN ncfg \subseteq PoolName
  BY DEF PoolName, Acceptable
<1>2. DOMAIN p1 = DOMAIN ps \cup DOMAIN ncfg
  BY DEF PreparedPools, PartlyPrepared
<1>3. \A pool \in DOMAIN p1 : p1[pool] \in PoolRecord
  <2> SUFFICES ASSUME NEW pool \in DOMAIN p1 PROVE p1[pool] \in PoolRecord
    OBVIOUS
  <2>1. CASE pool \notin DOMAIN ncfg
    BY <1>2, <2>1 DEF PreparedPools, PartlyPrepared, PoolsTyped
  <2>2. CASE pool \in DOMAIN ncfg /\ pool \in DOMAIN ps
    <3>1. p1[pool] = [ps[pool] EXCEPT !.cfg = CpusOf[ncfg][pool]]
      BY <1>2, <2>2 DEF PreparedPools, PartlyPrepared
    <3> QED BY <2>2, <3>1, AcceptableCpus DEF PoolsTyped, PoolRecord
  <2>3. CASE pool \in DOMAIN ncfg /\ pool \notin DOMAIN ps
    <3>1. p1[pool] = NewPool(CpusOf[ncfg][pool])
      BY <1>2, <2>3 DEF PreparedPools, PartlyPrepared
    <3> QED BY <2>3, <3>1, AcceptableCpus DEF NewPool, PoolRecord
  <2> QED BY <2>1, <2>2, <2>3
<1>4. \A pool \in DOMAIN ncfg : p1[pool].cfg = CpusOf[ncfg][pool]
  <2> SUFFICES ASSUME NEW pool \in DOMAIN ncfg PROVE p1[pool].cfg = CpusOf[ncfg][pool]
    OBVIOUS
  <2>1. CASE pool \in DOMAIN ps
    <3>1. p1[pool] = [ps[pool] EXCEPT !.cfg = CpusOf[ncfg][pool]]
      BY <2>1 DEF PreparedPools, PartlyPrepared
    <3> QED BY <2>1, <3>1 DEF PoolsTyped, PoolRecord
  <2>2. CASE pool \notin DOMAIN ps
    <3>1. p1[pool] = NewPool(CpusOf[ncfg][pool])
      BY <2>2 DEF PreparedPools, PartlyPrepared
    <3> QED BY <3>1 DEF NewPool
  <2> QED BY <2>1, <2>2
<1>5. \A pool \in DOMAIN p1 : p1[pool].used = IF pool \in DOMAIN ps THEN ps[pool].used ELSE 0
  <2> SUFFICES ASSUME NEW pool \in DOMAIN p1
               PROVE  p1[pool].used = IF pool \in DOMAIN ps THEN ps[pool].used ELSE 0
    OBVIOUS
  <2>1. CASE pool \notin DOMAIN ps
    <3>1. p1[pool] = NewPool(CpusOf[ncfg][pool])
      BY <1>2, <2>1 DEF PreparedPools, PartlyPrepared
    <3> QED BY <2>1, <3>1 DEF NewPool
  <2>2. CASE pool \in DOMAIN ps
    <3>1. p1[pool] = ps[pool] \/ p1[pool] = [ps[pool] EXCEPT !.cfg = CpusOf[ncfg][pool]]
      BY <1>2, <2>2 DEF PreparedPools, PartlyPrepared
    <3> QED BY <2>2, <3>1 DEF PoolsTyped, PoolRecord
  <2> QED BY <2>1, <2>2
<1> HIDE DEF p1
<1>6. /\ DOMAIN p2 = DOMAIN p1
      /\ \A pool \in DOMAIN p1 :
           p2[pool] = [p1[pool] EXCEPT !.shared = p1[pool].cfg \ p1[pool].pinned]
  <2>1. \A pool \in DOMAIN p1 : p1[pool].cfg # Nil
    BY <1>3, CpusAreConfig DEF PoolRecord
  <2> QED BY <2>1 DEF Activate
<1>7. \A pool \in DOMAIN p1 : /\ p2[pool] \in PoolRecord
                              /\ p2[pool].cfg = p1[pool].cfg /\ p2[pool].used = p1[pool].used
  BY <1>3, <1>6 DEF PoolRecord
<1> HIDE DEF p2
<1>8. /\ DOMAIN ps2 = DOMAIN p2
      /\ \A pool \in DOMAIN p2 :
           ps2[pool] = [p2[pool] EXCEPT !.shared = @ \cup p2[pool].pinned, !.pinned = {}]
  BY DEF ResetExclusive, p1, p2
<1>9. \A pool \in DOMAIN p2 : /\ ps2[pool] \in PoolRecord /\ ps2[pool].cfg = p2[pool].cfg
                              /\ ps2[pool].pinned = {} /\ ps2[pool].used = p2[pool].used
  <2> SUFFICES ASSUME NEW pool \in DOMAIN p2
               PROVE  /\ ps2[pool] \in PoolRecord /\ ps2[pool].cfg = p2[pool].cfg
                      /\ ps2[pool].pinned = {} /\ ps2[pool].used = p2[pool].used
    OBVIOUS
  <2>1. p2[pool] \in PoolRecord
    BY <1>6, <1>7
  <2>2. ps2[pool] = [p2[pool] EXCEPT !.shared = p2[pool].shared \cup p2[pool].pinned, !.pinned = {}]
    BY <1>8
  <2> QED BY <2>1, <2>2 DEF PoolRecord
<1>10. DOMAIN ps2 = DOMAIN ps \cup DOMAIN ncfg
  BY <1>2, <1>6, <1>8
<1>11. PoolsTyped(ps2)
  BY <1>1, <1>6, <1>8, <1>9, <1>10 DEF PoolsTyped
<1> QED BY <1>2, <1>4, <1>6, <1>7, <1>8, <1>9, <1>11, <1>5

(* Restoring the current configuration after some pools were prepared      *)
(* leaves its pools with the CPUs and the usage they had and the Configs   *)
(* of the current configuration, and no others.                            *)
LEMMA RestoredPoolsSame ==
  ASSUME IInv, phase = "idle",
         NEW ncfg, NEW visited, NEW ps, PoolsTyped(ps), DOMAIN ps = DOMAIN pools, NEW ps2,
         ps2 = RestoredPools(PartlyPrepared(ncfg, ps, visited))
  PROVE  /\ PoolsTyped(ps2)
         /\ DOMAIN ps2 = ConfiguredPools
         /\ DOMAIN ps2 \subseteq DOMAIN ps
         /\ \A pool \in DOMAIN ps2 : /\ ps2[pool].shared = ps[pool].shared
                                     /\ ps2[pool].pinned = ps[pool].pinned
                                     /\ ps2[pool].used = ps[pool].used
                                     /\ ps2[pool].cfg = CpusOf[currentCfg][pool]
<1> DEFINE pp == PartlyPrepared(ncfg, ps, visited)
<1>1. ConfiguredPools \subseteq DOMAIN ps
  BY DEF ConfiguredPools, IInv, ConfigInForce, InForce
<1>2. /\ DOMAIN ps2 = ConfiguredPools
      /\ \A pool \in ConfiguredPools : ps2[pool] = [pp[pool] EXCEPT !.cfg = CpusOf[currentCfg][pool]]
  BY DEF RestoredPools
<1>3. \A pool \in DOMAIN ps : pp[pool] = ps[pool] \/ pp[pool] = [ps[pool] EXCEPT !.cfg = CpusOf[ncfg][pool]]
  BY DEF PartlyPrepared
<1> HIDE DEF pp
<1>4. \A pool \in ConfiguredPools : CpusOf[currentCfg][pool] \in SUBSET CPU
  BY AcceptableCpus DEF ConfiguredPools, IInv, TypeOK
<1>5. \A pool \in ConfiguredPools :
        ps2[pool] = [ps[pool] EXCEPT !.cfg = CpusOf[currentCfg][pool]]
  <2> SUFFICES ASSUME NEW pool \in ConfiguredPools
               PROVE  ps2[pool] = [ps[pool] EXCEPT !.cfg = CpusOf[currentCfg][pool]]
    OBVIOUS
  <2>1. ps[pool] \in PoolRecord
    BY <1>1 DEF PoolsTyped
  <2>2. CASE pp[pool] = ps[pool]
    BY <1>2, <2>2
  <2>3. CASE pp[pool] = [ps[pool] EXCEPT !.cfg = CpusOf[ncfg][pool]]
    <3>1. ps2[pool] = [pp[pool] EXCEPT !.cfg = CpusOf[currentCfg][pool]]
      BY <1>2
    <3> QED BY <2>1, <2>3, <3>1 DEF PoolRecord
  <2> QED BY <1>1, <1>3, <2>2, <2>3
<1>6. \A pool \in ConfiguredPools : /\ ps2[pool] \in PoolRecord
                                    /\ ps2[pool].shared = ps[pool].shared
                                    /\ ps2[pool].pinned = ps[pool].pinned
                                    /\ ps2[pool].used = ps[pool].used
                                    /\ ps2[pool].cfg = CpusOf[currentCfg][pool]
  BY <1>1, <1>4, <1>5 DEF PoolsTyped, PoolRecord
<1> QED BY <1>1, <1>2, <1>6 DEF PoolsTyped

(* Fewer pools, with the same CPUs, and fewer containers to be pinned.     *)
LEMMA OwnershipOfFewer ==
  ASSUME NEW ps, NEW cs, NEW ps2, NEW ids, DOMAIN ps2 \subseteq DOMAIN ps,
         \A pool \in DOMAIN ps2 : /\ ps2[pool].shared = ps[pool].shared
                                  /\ ps2[pool].pinned = ps[pool].pinned
  PROVE  /\ Apart(ps) => Apart(ps2)
         /\ Owned(ps, cs, ids) => Owned(ps2, cs, ids)
         /\ Pinned(ps, cs, ids) => Pinned(ps2, cs, ids)
BY DEF Apart, Owned, Pinned

-----------------------------------------------------------------------------
(* Each action preserves the invariant.                                    *)

LEMMA ReconcileSafe ==
  ASSUME IInv, phase = "idle", NEW ncfg \in {Nil} \cup NodeConfigs, NEW ps, NEW cs,
         Handed(ps, cs), Reconcile(ncfg, ps, cs)
  PROVE  IInv'
<1> USE DEF IInv
<1>1. /\ containers' = cs /\ pendingCfg' = ncfg
      /\ UNCHANGED <<currentCfg, online, stale, reallocFailed>>
  BY DEF Reconcile
<1>2. offlined' \subseteq CPU
  BY OfflinedType DEF Reconcile, TypeOK
<1>3. todo = {} /\ currentCfg \in {Nil} \cup Acceptable /\ online \subseteq CPU
      /\ stale \in {Nil} \cup SUBSET CPU /\ reallocFailed \in BOOLEAN
  BY DEF TypeOK
(* The pools change little and no reallocation starts.                     *)
<1>4. ASSUME PoolsTyped(pools'), Apart(pools'), Owned(pools', cs, DOMAIN cs),
             ~reallocFailed => Pinned(pools', cs, ExclusiveIn(cs)),
             UNCHANGED <<phase, todo>>,
             currentCfg = Nil => DOMAIN pools' = {},
             currentCfg # Nil =>
               \A pool \in DOMAIN currentCfg :
                  pool \in DOMAIN pools' /\ pools'[pool].cfg = CpusOf[currentCfg][pool]
      PROVE  IInv'
  <2>1. TypeOK'
    BY <1>1, <1>2, <1>3, <1>4 DEF TypeOK, Handed, PoolsTyped, ContainersTyped
  <2>2. SharedPinnedDisjoint'
    BY <1>4 DEF Apart, SharedPinnedDisjoint
  <2>3. PinnedOwned'
    BY <1>1, <1>3, <1>4 DEF Owned, PinnedOwned
  <2>4. ExclusivePinned'
    <3>1. Settled' = ExclusiveIn(cs)
      BY <1>1, <1>3, <1>4 DEF Settled, ExclusiveIn
    <3> QED BY <1>1, <1>4, <3>1 DEF Pinned, ExclusivePinned
  <2>5. ConfigInForce'
    BY <1>1, <1>4 DEF ConfigInForce, InForce, CpusOf
  <2> QED BY <2>1, <2>2, <2>3, <2>4, <2>5
<1>5. CASE ncfg = Nil /\ pools' = ps /\ UNCHANGED <<phase, todo>>
  <2>1. DOMAIN pools' = DOMAIN pools /\ \A pool \in DOMAIN pools' : pools'[pool].cfg = pools[pool].cfg
    BY <1>5 DEF Handed
  <2> QED BY <1>4, <1>5, <2>1 DEF Handed, ConfigInForce, InForce
<1>6. CASE /\ ncfg # Nil /\ ~CanPrepare(ncfg, ps)
           /\ \E visited \in SUBSET DOMAIN ncfg :
                 pools' = RestoredPools(PartlyPrepared(ncfg, ps, visited))
           /\ UNCHANGED <<phase, todo>>
  <2>1. PICK visited \in SUBSET DOMAIN ncfg :
          pools' = RestoredPools(PartlyPrepared(ncfg, ps, visited))
    BY <1>6
  <2>2. /\ PoolsTyped(pools')
        /\ DOMAIN pools' = ConfiguredPools
        /\ DOMAIN pools' \subseteq DOMAIN ps
        /\ \A pool \in DOMAIN pools' : /\ pools'[pool].shared = ps[pool].shared
                                       /\ pools'[pool].pinned = ps[pool].pinned
                                       /\ pools'[pool].cfg = CpusOf[currentCfg][pool]
    BY <2>1, RestoredPoolsSame DEF Handed
  <2>3. /\ Apart(pools') /\ Owned(pools', cs, DOMAIN cs)
        /\ ~reallocFailed => Pinned(pools', cs, ExclusiveIn(cs))
    BY <2>2, OwnershipOfFewer DEF Handed
  <2> QED BY <1>4, <1>6, <2>2, <2>3 DEF ConfiguredPools
<1>7. CASE /\ ncfg # Nil /\ CanPrepare(ncfg, ps)
           /\ pools' = ResetExclusive(Activate(PreparedPools(ncfg, ps)))
           /\ phase' = "reallocate"
           /\ todo' = ExclusiveIn(cs)
  <2>1. ncfg \in Acceptable /\ ncfg \in NodeConfigs
    BY <1>7 DEF CanPrepare, Acceptable
  <2>2. /\ PoolsTyped(pools')
        /\ \A pool \in DOMAIN pools' : pools'[pool].pinned = {}
        /\ \A pool \in DOMAIN ncfg : pool \in DOMAIN pools' /\ pools'[pool].cfg = CpusOf[ncfg][pool]
    BY <1>7, <2>1, ActivatedPools DEF Handed
  <2>3. TypeOK'
    BY <1>1, <1>2, <1>3, <1>7, <2>1, <2>2 DEF TypeOK, Handed, PoolsTyped, ContainersTyped, ExclusiveIn
  <2>4. SharedPinnedDisjoint' /\ PinnedOwned'
    BY <2>2 DEF SharedPinnedDisjoint, PinnedOwned
  <2>5. ExclusivePinned'
    <3>1. Settled' = {}
      BY <1>1, <1>7 DEF Settled, ExclusiveIn
    <3> QED BY <3>1 DEF ExclusivePinned
  <2>6. ConfigInForce'
    BY <1>1, <1>7, <2>2 DEF ConfigInForce, InForce, CpusOf
  <2> QED BY <2>3, <2>4, <2>5, <2>6
<1> QED BY <1>5, <1>6, <1>7 DEF Reconcile

(* What the invariant says in the terms of the lemmas.                     *)
LEMMA IdleIsHanded ==
  ASSUME IInv, phase = "idle"
  PROVE  /\ todo = {} /\ Settled = ExclusiveIn(containers)
         /\ Handed(pools, containers)
<1>1. todo = {} /\ Settled = ExclusiveIn(containers)
  BY DEF IInv, TypeOK, Settled, ExclusiveIn
<1>2. PoolsTyped(pools) /\ ContainersTyped(containers) /\ Apart(pools)
  BY DEF IInv, TypeOK, PoolsTyped, ContainersTyped, SharedPinnedDisjoint, Apart
<1>3. Owned(pools, containers, DOMAIN containers)
  BY <1>1 DEF IInv, PinnedOwned, Owned
<1>4. ~reallocFailed => Pinned(pools, containers, ExclusiveIn(containers))
  BY <1>1 DEF IInv, ExclusivePinned, Pinned
<1> QED BY <1>1, <1>2, <1>3, <1>4 DEF Handed

LEMMA ReconfigureSafe ==
  ASSUME IInv, NEW ncfg \in NodeConfigs, Reconfigure(ncfg)
  PROVE  IInv'
BY IdleIsHanded, ReconcileSafe DEF Reconfigure

(* The containers that remain when one has been released own what is still *)
(* pinned; the CPUs it gives back were its own.                            *)
LEMMA ReleaseSafe ==
  ASSUME IInv, NEW id \in Container, ReleaseCPU(id)
  PROVE  IInv'
<1> DEFINE c  == containers[id]
           cs == Delete(containers, id)
<1>1. phase = "idle" /\ id \in DOMAIN containers
  BY DEF ReleaseCPU
<1>2. /\ DOMAIN cs = DOMAIN containers \ {id}
      /\ \A i \in DOMAIN cs : cs[i] = containers[i]
  BY DEF Delete, Restrict
<1>3. c \in ContainerRecord
  BY <1>1 DEF IInv, TypeOK
<1>4. Handed(pools, containers)
  BY <1>1, IdleIsHanded
<1>5. ContainersTyped(cs)
  BY <1>2, <1>4 DEF Handed, ContainersTyped
<1>6. ExclusiveIn(cs) = ExclusiveIn(containers) \ {id}
  BY <1>2 DEF ExclusiveIn
<1> HIDE DEF cs
<1>7. CASE c.pool \in DOMAIN pools
  <2> DEFINE ps == ReleasedPools(c)
  <2>1. Reconcile(pendingCfg, ps, cs)
    BY <1>7 DEF ReleaseCPU, cs
  <2>2. pendingCfg \in {Nil} \cup NodeConfigs
    BY DEF IInv, TypeOK
  <2>3. pools[c.pool] \in PoolRecord
    BY <1>7, <1>4 DEF Handed, PoolsTyped
  <2>4. CASE c.cpus = {}
    <3>1. ps = [pools EXCEPT ![c.pool].used = @ - c.req]
      BY <2>4 DEF ReleasedPools
    <3> HIDE DEF ps
    <3>2. /\ DOMAIN ps = DOMAIN pools
          /\ \A pool \in DOMAIN pools \ {c.pool} : ps[pool] = pools[pool]
          /\ ps[c.pool] = [pools[c.pool] EXCEPT !.used = @ - c.req]
      BY <1>7, <3>1
    <3>3. /\ \A pool \in DOMAIN pools :
               /\ ps[pool].shared = pools[pool].shared
               /\ ps[pool].pinned = pools[pool].pinned
               /\ ps[pool].cfg = pools[pool].cfg
          /\ ps[c.pool] \in PoolRecord
      BY <1>3, <2>3, <3>2 DEF PoolRecord, ContainerRecord
    <3>4. PoolsTyped(ps) /\ Apart(ps)
      BY <1>4, <3>2, <3>3 DEF Handed, PoolsTyped, Apart
    <3>5. Owned(ps, cs, DOMAIN cs)
      BY <1>2, <1>4, <2>4, <3>2, <3>3 DEF Handed, Owned
    <3>6. ~reallocFailed => Pinned(ps, cs, ExclusiveIn(cs))
      <4>1. ExclusiveIn(cs) \subseteq ExclusiveIn(containers) /\ ExclusiveIn(cs) \subseteq DOMAIN cs
        BY <1>6 DEF ExclusiveIn
      <4> QED BY <1>2, <1>4, <3>2, <3>3, <4>1 DEF Handed, Pinned
    <3>7. Handed(ps, cs)
      BY <1>5, <3>2, <3>3, <3>4, <3>5, <3>6 DEF Handed
    <3> QED BY <1>1, <2>1, <2>2, <3>7, ReconcileSafe
  <2>5. CASE c.cpus # {}
    <3>1. ps = [pools EXCEPT ![c.pool].shared = @ \cup c.cpus, ![c.pool].pinned = @ \ c.cpus]
      BY <2>5 DEF ReleasedPools
    <3> HIDE DEF ps
    <3>2. /\ DOMAIN ps = DOMAIN pools
          /\ \A pool \in DOMAIN pools \ {c.pool} : ps[pool] = pools[pool]
          /\ ps[c.pool] = [pools[c.pool] EXCEPT !.shared = pools[c.pool].shared \cup c.cpus,
                                                !.pinned = pools[c.pool].pinned \ c.cpus]
      BY <1>7, <3>1
    <3>3. /\ ps[c.pool] \in PoolRecord
          /\ ps[c.pool].shared = pools[c.pool].shared \cup c.cpus
          /\ ps[c.pool].pinned = pools[c.pool].pinned \ c.cpus
          /\ ps[c.pool].cfg = pools[c.pool].cfg
      BY <1>3, <2>3, <3>2 DEF PoolRecord, ContainerRecord
    <3>4. PoolsTyped(ps) /\ Apart(ps)
      BY <1>4, <3>2, <3>3 DEF Handed, PoolsTyped, Apart
    <3>5. Owned(ps, cs, DOMAIN cs)
      <4> SUFFICES ASSUME NEW pool \in DOMAIN ps, NEW k \in ps[pool].pinned
                   PROVE  \E i \in DOMAIN cs : cs[i].pool = pool /\ k \in cs[i].cpus
        BY DEF Owned
      <4>1. k \in pools[pool].pinned /\ (pool = c.pool => k \notin c.cpus)
        BY <3>2, <3>3
      <4>2. PICK i \in DOMAIN containers : containers[i].pool = pool /\ k \in containers[i].cpus
        BY <1>4, <3>2, <4>1 DEF Handed, Owned
      <4> QED BY <1>2, <4>1, <4>2
    <3>6. ~reallocFailed => Pinned(ps, cs, ExclusiveIn(cs))
      <4> SUFFICES ASSUME ~reallocFailed PROVE Pinned(ps, cs, ExclusiveIn(cs))
        OBVIOUS
      <4>1. Pinned(pools, containers, ExclusiveIn(containers))
        BY <1>4 DEF Handed
      <4>2. id \in ExclusiveIn(containers)
        BY <1>1, <2>5 DEF ExclusiveIn
      <4>3. \A i \in ExclusiveIn(cs) : i \in ExclusiveIn(containers) /\ i # id /\ cs[i] = containers[i]
        BY <1>2, <1>6 DEF ExclusiveIn
      <4>4. \A i \in ExclusiveIn(cs) :
              cs[i].pool \in DOMAIN ps => cs[i].cpus \subseteq ps[cs[i].pool].pinned
        <5> SUFFICES ASSUME NEW i \in ExclusiveIn(cs), cs[i].pool \in DOMAIN ps
                     PROVE  cs[i].cpus \subseteq ps[cs[i].pool].pinned
          OBVIOUS
        <5>1. containers[i].cpus \subseteq pools[containers[i].pool].pinned
          BY <3>2, <4>1, <4>3 DEF Pinned
        <5>2. containers[i].pool = c.pool => containers[i].cpus \cap c.cpus = {}
          BY <1>7, <4>1, <4>2, <4>3 DEF Pinned
        <5> QED BY <3>2, <3>3, <4>3, <5>1, <5>2
      <4>5. \A i, j \in ExclusiveIn(cs) :
              i # j /\ cs[i].pool = cs[j].pool /\ cs[i].pool \in DOMAIN ps =>
                cs[i].cpus \cap cs[j].cpus = {}
        BY <3>2, <4>1, <4>3 DEF Pinned
      <4> QED BY <4>4, <4>5 DEF Pinned
    <3>7. \A pool \in DOMAIN ps : ps[pool].cfg = pools[pool].cfg
      BY <3>2, <3>3
    <3>8. Handed(ps, cs)
      BY <1>5, <3>2, <3>4, <3>5, <3>6, <3>7 DEF Handed
    <3> QED BY <1>1, <2>1, <2>2, <3>8, ReconcileSafe
  <2> QED BY <2>4, <2>5
<1>8. CASE c.pool \notin DOMAIN pools
  <2>1. /\ containers' = cs
        /\ UNCHANGED <<pools, currentCfg, pendingCfg, offlined, online, stale, phase, todo, reallocFailed>>
    BY <1>8 DEF ReleaseCPU, cs
  <2>2. Owned(pools, cs, DOMAIN cs)
    BY <1>2, <1>4, <1>8 DEF Handed, Owned
  <2>3. ~reallocFailed => Pinned(pools, cs, ExclusiveIn(cs))
    <3>1. \A i \in ExclusiveIn(cs) : i \in ExclusiveIn(containers) /\ cs[i] = containers[i]
      BY <1>2, <1>6 DEF ExclusiveIn
    <3> QED BY <1>4, <3>1 DEF Handed, Pinned
  <2>4. todo = {} /\ Settled' = ExclusiveIn(cs)
    BY <1>1, <2>1, IdleIsHanded DEF Settled, ExclusiveIn
  <2>5. TypeOK'
    BY <1>1, <1>5, <2>1, <2>4 DEF IInv, TypeOK, ContainersTyped
  <2>6. SharedPinnedDisjoint' /\ ConfigInForce'
    BY <2>1 DEF IInv, SharedPinnedDisjoint, ConfigInForce, InForce, CpusOf
  <2>7. PinnedOwned'
    BY <2>1, <2>2, <2>4 DEF PinnedOwned, Owned
  <2>8. ExclusivePinned'
    BY <2>1, <2>3, <2>4 DEF ExclusivePinned, Pinned
  <2> QED BY <2>5, <2>6, <2>7, <2>8 DEF IInv
<1> QED BY <1>7, <1>8

(* A container that takes CPUs, when it is added or in a reallocation,     *)
(* joins the ones that hold theirs.                                        *)
LEMMA TakeCPUsPreserves ==
  ASSUME IInv, NEW id \in Container, NEW pool \in DOMAIN pools, NEW count,
         TakeCPUs(id, pool, count),
         id \in todo \/ id \notin DOMAIN containers,
         todo' = todo \ {id},
         UNCHANGED <<currentCfg, pendingCfg, offlined, online, phase, reallocFailed>>
  PROVE  IInv'
<1> DEFINE held == DOMAIN containers \ todo
<1>1. TypeOK /\ Apart(pools)
  BY DEF IInv, SharedPinnedDisjoint, Apart
<1>2. /\ PoolsTyped(pools') /\ ContainersTyped(containers')
      /\ DOMAIN pools' = DOMAIN pools
      /\ \A p \in DOMAIN pools : pools'[p].cfg = pools[p].cfg
      /\ DOMAIN containers' = DOMAIN containers \cup {id}
      /\ stale' \in {Nil} \cup SUBSET CPU
  BY <1>1, TakeCPUsTyped
<1>3. id \notin held /\ held \subseteq DOMAIN containers
  OBVIOUS
<1>4. TypeOK'
  BY <1>1, <1>2 DEF TypeOK, PoolsTyped, ContainersTyped
<1>5. SharedPinnedDisjoint'
  <2>1. Apart(pools')
    BY <1>1, <1>3, TakeCPUsSafe
  <2> QED BY <2>1 DEF SharedPinnedDisjoint, Apart
<1>6. PinnedOwned'
  <2>1. Owned(pools, containers, held)
    BY DEF IInv, PinnedOwned, Owned
  <2>2. Owned(pools', containers', held \cup {id})
    BY <1>1, <1>3, <2>1, TakeCPUsSafe
  <2>3. held \cup {id} \subseteq DOMAIN containers' \ todo'
    BY <1>2
  <2> QED BY <2>2, <2>3 DEF Owned, PinnedOwned
<1>7. ExclusivePinned'
  <2> SUFFICES ASSUME ~reallocFailed' PROVE Pinned(pools', containers', Settled')
    BY DEF ExclusivePinned, Pinned
  <2>1. id \notin Settled /\ Settled \subseteq DOMAIN containers
    BY DEF Settled, ExclusiveIn
  <2>2. Pinned(pools, containers, Settled)
    BY DEF IInv, ExclusivePinned, Pinned
  <2>3. Pinned(pools', containers', Settled \cup {id})
    BY <1>1, <2>1, <2>2, TakeCPUsSafe
  <2>4. Settled' \subseteq Settled \cup {id}
    <3>1. \A i \in DOMAIN containers \ {id} : containers'[i] = containers[i]
      BY DEF TakeCPUs, Put
    <3> QED BY <1>2, <3>1 DEF Settled, ExclusiveIn
  <2> QED BY <2>3, <2>4 DEF Pinned
<1>8. ConfigInForce'
  BY <1>2 DEF IInv, ConfigInForce, InForce, CpusOf
<1> QED BY <1>4, <1>5, <1>6, <1>7, <1>8 DEF IInv

LEMMA TakeSharePreserves ==
  ASSUME IInv, NEW id \in Container, NEW pool \in DOMAIN pools, NEW req \in Nat,
         MayAllocate(id), TakeShare(id, pool, req),
         UNCHANGED <<currentCfg, pendingCfg, offlined, online, phase, todo, reallocFailed>>
  PROVE  IInv'
<1>1. /\ PoolsTyped(pools') /\ ContainersTyped(containers')
      /\ DOMAIN pools' = DOMAIN pools
      /\ \A p \in DOMAIN pools : /\ pools'[p].cfg = pools[p].cfg
                                 /\ pools'[p].shared = pools[p].shared
                                 /\ pools'[p].pinned = pools[p].pinned
      /\ DOMAIN containers' = DOMAIN containers \cup {id}
      /\ \A i \in DOMAIN containers : containers'[i] = containers[i]
      /\ containers'[id].cpus = {}
  BY TakeShareSafe DEF IInv, MayAllocate
<1>2. todo = {} /\ stale' = stale
  BY DEF MayAllocate, IInv, TypeOK, TakeShare
<1>3. TypeOK'
  BY <1>1, <1>2 DEF IInv, TypeOK, PoolsTyped, ContainersTyped
<1>4. SharedPinnedDisjoint'
  BY <1>1 DEF IInv, SharedPinnedDisjoint
<1>5. PinnedOwned'
  BY <1>1, <1>2 DEF IInv, PinnedOwned
<1>6. ExclusivePinned'
  <2>1. \A i \in Settled' : i \in Settled /\ containers'[i] = containers[i]
    BY <1>1, <1>2 DEF Settled, ExclusiveIn
  <2> QED BY <1>1, <2>1 DEF IInv, ExclusivePinned
<1>7. ConfigInForce'
  BY <1>1 DEF IInv, ConfigInForce, InForce, CpusOf
<1> QED BY <1>3, <1>4, <1>5, <1>6, <1>7 DEF IInv

LEMMA AllocateCPUsSafe ==
  ASSUME IInv, NEW id \in Container, NEW pool, NEW count \in Nat,
         AllocateCPUs(id, pool, count)
  PROVE  IInv'
<1>1. CASE pool = ReservedPool
  <2>1. 1000 * count \in Nat
    OBVIOUS
  <2> QED BY <1>1, <2>1, TakeSharePreserves DEF AllocateCPUs
<1>2. CASE pool # ReservedPool
  <2>1. id \notin DOMAIN containers /\ todo = {}
    BY DEF AllocateCPUs, MayAllocate, IInv, TypeOK
  <2>2. todo' = todo \ {id}
    BY <2>1 DEF AllocateCPUs
  <2> QED BY <1>2, <2>1, <2>2, TakeCPUsPreserves DEF AllocateCPUs, CanTakeCPUs
<1> QED BY <1>1, <1>2

LEMMA AllocateCPUSafe ==
  ASSUME IInv, NEW id \in Container, NEW pool, NEW req \in Nat,
         AllocateCPU(id, pool, req)
  PROVE  IInv'
BY TakeSharePreserves DEF AllocateCPU

LEMMA ReallocateSafe ==
  ASSUME IInv, NEW id \in Container, Reallocate(id)
  PROVE  IInv'
<1> DEFINE c     == containers[id]
           count == Cardinality(c.cpus)
<1>1. id \in todo /\ phase = "reallocate"
  BY DEF Reallocate
<1>2. CASE CanTakeCPUs(c.pool, count)
  BY <1>1, <1>2, TakeCPUsPreserves DEF Reallocate, CanTakeCPUs
<1>3. CASE ~CanTakeCPUs(c.pool, count)
  <2>1. /\ todo' = {} /\ reallocFailed' = TRUE
        /\ UNCHANGED <<pools, containers, stale, currentCfg, pendingCfg, offlined, online, phase>>
    BY <1>3 DEF Reallocate
  <2>2. TypeOK'
    BY <2>1 DEF IInv, TypeOK
  <2>3. SharedPinnedDisjoint' /\ ConfigInForce'
    BY <2>1 DEF IInv, SharedPinnedDisjoint, ConfigInForce, InForce, CpusOf
  <2>4. PinnedOwned'
    BY <2>1 DEF IInv, PinnedOwned
  <2>5. ExclusivePinned'
    BY <2>1 DEF ExclusivePinned
  <2> QED BY <2>2, <2>3, <2>4, <2>5 DEF IInv
<1> QED BY <1>2, <1>3

LEMMA FinishReconcileSafe ==
  ASSUME IInv, FinishReconcile
  PROVE  IInv'
<1>1. /\ phase = "reallocate" /\ phase' = "idle" /\ todo = {} /\ todo' = {}
      /\ currentCfg' = pendingCfg /\ pendingCfg' = Nil
      /\ UNCHANGED <<pools, containers, offlined, stale, reallocFailed>>
  BY DEF FinishReconcile
<1>2. pendingCfg \in Acceptable /\ pendingCfg # Nil
  BY <1>1, NodeConfigsAssumption DEF IInv, TypeOK, Acceptable
<1>3. online' \subseteq CPU
  BY DEF IInv, TypeOK, FinishReconcile, HwOutcomes, PartlyUpdated
<1>4. TypeOK'
  BY <1>1, <1>2, <1>3 DEF IInv, TypeOK
<1>5. SharedPinnedDisjoint' /\ PinnedOwned'
  BY <1>1 DEF IInv, SharedPinnedDisjoint, PinnedOwned
<1>6. ExclusivePinned'
  BY <1>1 DEF IInv, ExclusivePinned, Settled, ExclusiveIn
<1>7. ConfigInForce'
  BY <1>1, <1>2 DEF IInv, ConfigInForce, InForce, CpusOf
<1> QED BY <1>4, <1>5, <1>6, <1>7 DEF IInv

-----------------------------------------------------------------------------
(* NewPoolSet leaves the pool set without pools, which satisfies the       *)
(* invariant.                                                              *)
LEMMA InitIInv == Init => IInv
BY DEF Init, IInv, TypeOK, SharedPinnedDisjoint, PinnedOwned, ExclusivePinned, ConfigInForce,
       InForce, Settled, ExclusiveIn

(* Every step of the pool set preserves it.                                *)
LEMMA NextIInv == IInv /\ [Next]_vars => IInv'
<1> SUFFICES ASSUME IInv, [Next]_vars PROVE IInv'
  OBVIOUS
<1>1. ASSUME NEW ncfg \in NodeConfigs, Reconfigure(ncfg) PROVE IInv'
  BY <1>1, ReconfigureSafe
<1>2. ASSUME NEW id \in Container, NEW pool \in PoolName, NEW count \in ExclusiveCounts,
             AllocateCPUs(id, pool, count)
      PROVE  IInv'
  BY <1>2, RequestAssumption, AllocateCPUsSafe
<1>3. ASSUME NEW id \in Container, NEW pool \in PoolName, NEW req \in SharedRequests,
             AllocateCPU(id, pool, req)
      PROVE  IInv'
  BY <1>3, RequestAssumption, AllocateCPUSafe
<1>4. ASSUME NEW id \in Container, ReleaseCPU(id) PROVE IInv'
  BY <1>4, ReleaseSafe
<1>5. ASSUME NEW id \in Container, Reallocate(id) PROVE IInv'
  BY <1>5, ReallocateSafe
<1>6. CASE FinishReconcile
  BY <1>6, FinishReconcileSafe
<1>7. CASE UNCHANGED vars
  <2> USE <1>7 DEF vars
  <2>1. TypeOK'
    BY DEF IInv, TypeOK
  <2>2. SharedPinnedDisjoint' /\ PinnedOwned'
    BY DEF IInv, SharedPinnedDisjoint, PinnedOwned
  <2>3. ExclusivePinned'
    BY DEF IInv, ExclusivePinned, Settled, ExclusiveIn
  <2>4. ConfigInForce'
    BY DEF IInv, ConfigInForce, InForce, CpusOf
  <2> QED BY <2>1, <2>2, <2>3, <2>4 DEF IInv
<1> QED BY <1>1, <1>2, <1>3, <1>4, <1>5, <1>6, <1>7 DEF Next

(* The pool set always satisfies the invariant.                            *)
THEOREM Invariance == Spec => []IInv
<1>1. Init => IInv
  BY InitIInv
<1>2. IInv /\ [Next]_vars => IInv'
  BY NextIInv
<1> QED BY <1>1, <1>2, PTL DEF Spec

(* The records of pools and containers stay well formed, only acceptable   *)
(* configurations come into use, and containers are only reallocated while *)
(* one is pending.                                                         *)
THEOREM TypeCorrect == Spec => []TypeOK
<1>1. IInv => TypeOK
  BY DEF IInv
<1> QED BY <1>1, Invariance, PTL

(* No CPU of a pool is ever both shared and exclusively allocated.         *)
THEOREM SharedStaysApart == Spec => []SharedPinnedDisjoint
<1>1. IInv => SharedPinnedDisjoint
  BY DEF IInv
<1> QED BY <1>1, Invariance, PTL

(* No exclusively allocated CPU is ever without a container that will give *)
(* it back.                                                                *)
THEOREM NoCpuIsLost == Spec => []PinnedOwned
<1>1. IInv => PinnedOwned
  BY DEF IInv
<1> QED BY <1>1, Invariance, PTL

(* Until a reallocation fails, the CPUs of a container are pinned and are  *)
(* no other container's of its pool.                                       *)
THEOREM ExclusiveUntilFailure == Spec => []ExclusivePinned
<1>1. IInv => ExclusivePinned
  BY DEF IInv
<1> QED BY <1>1, Invariance, PTL

(* A configuration that is rejected half way leaves no trace in the pools. *)
THEOREM RejectionLeavesNoTrace == Spec => []ConfigInForce
<1>1. IInv => ConfigInForce
  BY DEF IInv
<1> QED BY <1>1, Invariance, PTL

-----------------------------------------------------------------------------
(* PoolSet keeps the promise of ExclusiveCpus: every step of the pool set  *)
(* is a step of the promise, or leaves it as it is, in the states of the   *)
(* inductive invariant.                                                    *)

(* The promise counts as the pool set does.                                *)
LEMMA SameCardinality == \A S : Promise!Cardinality(S) = Cardinality(S)
BY DEF Promise!Cardinality, Cardinality

(* What the mapping is as long as no reallocation has failed.              *)
LEMMA Mapping ==
  ASSUME ~reallocFailed
  PROVE  /\ Held = [id \in Holders |-> [pool |-> containers[id].pool, cpus |-> containers[id].cpus]]
         /\ Owed = [id \in todo |-> [pool  |-> containers[id].pool,
                                     count |-> Cardinality(containers[id].cpus)]]
BY DEF Held, Owed

LEMMA MappingPrime ==
  ASSUME ~reallocFailed'
  PROVE  /\ Held' = [id \in Holders' |-> [pool |-> containers'[id].pool, cpus |-> containers'[id].cpus]]
         /\ Owed' = [id \in todo' |-> [pool  |-> containers'[id].pool,
                                       count |-> Cardinality(containers'[id].cpus)]]
BY DEF Held, Owed

(* Nothing is owed exactly if no container is to be reallocated.           *)
LEMMA NothingOwed ==
  ASSUME ~reallocFailed
  PROVE  Owed = Promise!Nothing <=> todo = {}
BY Mapping DEF Promise!Nothing

(* A step that leaves the holders and the debts alone is a stutter.        *)
LEMMA Stutter ==
  ASSUME ~reallocFailed, reallocFailed' = reallocFailed, todo' = todo, Holders' = Holders,
         \A id \in Holders \cup todo : containers'[id] = containers[id]
  PROVE  UNCHANGED Promise!vars
<1>1. Held' = Held
  BY Mapping, MappingPrime
<1>2. Owed' = Owed
  BY Mapping, MappingPrime
<1> QED BY <1>1, <1>2 DEF Promise!vars

-----------------------------------------------------------------------------
(* A container that takes CPUs holds them from then on, if it got any: it  *)
(* is a new one, or it gets what it is owed.                               *)
LEMMA TakeCPUsKeeps ==
  ASSUME IInv, ~reallocFailed, NEW id \in Container, NEW pool \in DOMAIN pools, NEW count,
         TakeCPUs(id, pool, count),
         \/ id \notin DOMAIN containers /\ todo = {}
         \/ /\ id \in todo /\ containers[id].pool = pool
            /\ count = Cardinality(containers[id].cpus),
         todo' = todo \ {id}, reallocFailed' = reallocFailed
  PROVE  [Promise!Next]_Promise!vars
<1>1. PICK a \in AllocatorOutcomes(pools[pool].shared, count) :
        /\ pools' = [pools EXCEPT ![pool].shared = a.rest, ![pool].pinned = @ \cup a.got]
        /\ containers' = Put(containers, id, [pool |-> pool, cpus |-> a.got,
                                              req |-> 1000 * Cardinality(a.got)])
  BY DEF TakeCPUs
<1>2. a.got \subseteq pools[pool].shared /\ (a.got = {} \/ Cardinality(a.got) = count)
  BY <1>1 DEF AllocatorOutcomes, AllocationOutcomes, kSubset
<1>3. /\ DOMAIN containers' = DOMAIN containers \cup {id}
      /\ containers'[id].pool = pool /\ containers'[id].cpus = a.got
      /\ \A i \in DOMAIN containers \ {id} : containers'[i] = containers[i]
      /\ DOMAIN pools' = DOMAIN pools
  BY <1>1 DEF Put
<1>4. Holders \subseteq DOMAIN containers \ {id}
  BY DEF Holders, Settled, ExclusiveIn
<1>5. Holders' = IF a.got = {} THEN Holders ELSE Holders \cup {id}
  <2>1. \A i \in DOMAIN containers \ {id} : i \in Holders' <=> i \in Holders
    BY <1>3 DEF Holders, Settled, ExclusiveIn
  <2>2. id \in Holders' <=> a.got # {}
    BY <1>3 DEF Holders, Settled, ExclusiveIn
  <2> QED BY <1>3, <1>4, <2>1, <2>2 DEF Holders, Settled, ExclusiveIn
<1>6. todo \subseteq DOMAIN containers
  BY DEF IInv, TypeOK
<1>7. Owed' = [i \in DOMAIN Owed \ {id} |-> Owed[i]]
  BY <1>3, <1>6, Mapping, MappingPrime
<1>8. CASE a.got = {}
  <2>1. Held' = Held
    BY <1>3, <1>4, <1>5, <1>8, Mapping, MappingPrime
  <2>2. CASE id \in todo
    <3>1. id \in DOMAIN Owed
      BY <2>2, Mapping
    <3>2. Promise!Miss(id)
      BY <1>7, <2>1 DEF Promise!Miss
    <3> QED BY <3>1, <3>2 DEF Promise!Next
  <2>3. CASE id \notin todo
    <3>1. Owed' = Owed
      BY <1>7, <2>3, Mapping
    <3> QED BY <2>1, <3>1 DEF Promise!vars
  <2> QED BY <2>2, <2>3
<1>9. CASE a.got # {}
  <2>1. /\ DOMAIN Held = Holders /\ DOMAIN Held' = DOMAIN Held \cup {id}
        /\ Held'[id] = [pool |-> pool, cpus |-> a.got]
        /\ \A i \in Holders : Held'[i] = Held[i]
    BY <1>3, <1>4, <1>5, <1>9, Mapping, MappingPrime
  <2>2. pool \in PoolName /\ a.got \subseteq CPU
    BY <1>2 DEF IInv, TypeOK, PoolRecord
  <2>3. \A i \in Holders : Held[i].pool = pool => Held[i].cpus \cap a.got = {}
    <3>1. \A i \in Holders : Held[i].pool = containers[i].pool /\ Held[i].cpus = containers[i].cpus
      BY Mapping
    <3>2. \A i \in Holders : containers[i].pool = pool => containers[i].cpus \subseteq pools[pool].pinned
      BY DEF IInv, ExclusivePinned, Holders
    <3>3. pools[pool].shared \cap pools[pool].pinned = {}
      BY DEF IInv, SharedPinnedDisjoint
    <3> QED BY <1>2, <3>1, <3>2, <3>3
  <2>4. Owed # Promise!Nothing =>
          id \in DOMAIN Owed /\ Owed[id] = [pool |-> pool, count |-> Cardinality(a.got)]
    BY <1>2, <1>9, NothingOwed, Mapping
  <2>5. Promise!Take(id)
    <3>1. Held'[id] \in [pool : PoolName, cpus : (SUBSET CPU) \ {{}}]
      BY <1>9, <2>1, <2>2
    <3>2. Held'[id].pool = pool /\ Held'[id].cpus = a.got
      BY <2>1
    <3>3. \A i \in DOMAIN Held : Held[i].pool = Held'[id].pool => Held[i].cpus \cap Held'[id].cpus = {}
      BY <2>1, <2>3, <3>2
    <3>4. Owed # Promise!Nothing =>
            id \in DOMAIN Owed /\ Owed[id] = [pool |-> Held'[id].pool, count |-> Cardinality(Held'[id].cpus)]
      BY <2>4, <3>2
    <3> QED BY <1>7, <2>1, <3>1, <3>3, <3>4, SameCardinality DEF Promise!Take
  <2> QED BY <1>4, <2>1, <2>5 DEF Promise!Next
<1> QED BY <1>8, <1>9

-----------------------------------------------------------------------------
(* A reconciliation that begins, for a release or a new configuration:     *)
(* cs are the containers without the one that is released, if any.         *)
LEMMA ReconcileKeeps ==
  ASSUME IInv, ~reallocFailed, phase = "idle",
         NEW ncfg \in {Nil} \cup NodeConfigs, NEW ps, NEW cs, NEW released \in Promise!AtMostOne,
         DOMAIN ps = DOMAIN pools,
         DOMAIN cs = DOMAIN containers \ released, \A i \in DOMAIN cs : cs[i] = containers[i],
         PoolsTyped(ps), Reconcile(ncfg, ps, cs)
  PROVE  [Promise!Next]_Promise!vars
<1>1. /\ containers' = cs /\ reallocFailed' = reallocFailed
      /\ todo = {} /\ Settled = ExclusiveIn(containers)
  BY IdleIsHanded DEF Reconcile
<1>2. Owed = Promise!Nothing /\ DOMAIN Held = Holders
  BY <1>1, NothingOwed, Mapping
<1>3. \A id \in Holders : Held[id].pool = containers[id].pool /\ Held[id].cpus = containers[id].cpus
  BY Mapping
(* No reallocation starts: pools may go.                                   *)
<1>4. ASSUME todo' = todo, DOMAIN pools' \subseteq DOMAIN pools PROVE Promise!Next
  <2> DEFINE gone == {Held[id].pool : id \in DOMAIN Held} \ DOMAIN pools'
             kept == {id \in DOMAIN Held \ released : Held[id].pool \notin gone}
  <2>1. Holders' = kept
    <3>1. Settled' = ExclusiveIn(containers) \ released
      BY <1>1, <1>4 DEF Settled, ExclusiveIn
    <3>2. Holders' = {id \in ExclusiveIn(containers) \ released : containers[id].pool \in DOMAIN pools'}
      BY <1>1, <3>1 DEF Holders, ExclusiveIn
    <3>3. \A id \in Holders : Held[id].pool \notin gone <=> containers[id].pool \in DOMAIN pools'
      BY <1>2, <1>3
    <3>4. Holders = {id \in ExclusiveIn(containers) : containers[id].pool \in DOMAIN pools}
      BY <1>1 DEF Holders
    <3> QED BY <1>2, <1>4, <3>2, <3>3, <3>4
  <2> HIDE DEF kept
  <2>2. kept \subseteq Holders /\ \A id \in kept : containers'[id] = containers[id]
    <3>1. \A id \in kept : id \in Holders /\ id \in DOMAIN containers /\ id \notin released
      BY <1>2 DEF kept, Holders, Settled, ExclusiveIn
    <3> QED BY <1>1, <3>1
  <2>3. Held' = Promise!Only(kept)
    BY <1>1, <2>1, <2>2, Mapping, MappingPrime DEF Promise!Only
  <2>4. Owed' = Owed
    BY <1>1, <1>4, Mapping, MappingPrime
  <2>5. Promise!Lose(released, gone)
    BY <1>1, <1>2, <2>3, <2>4 DEF Promise!Lose, kept
  <2> QED BY <2>5 DEF Promise!Next
<1>5. CASE ncfg = Nil /\ pools' = ps /\ UNCHANGED <<phase, todo>>
  BY <1>4, <1>5
<1>6. CASE /\ ncfg # Nil /\ ~CanPrepare(ncfg, ps)
           /\ \E visited \in SUBSET DOMAIN ncfg :
                 pools' = RestoredPools(PartlyPrepared(ncfg, ps, visited))
           /\ UNCHANGED <<phase, todo>>
  <2>1. DOMAIN pools' \subseteq DOMAIN pools
    BY <1>6, RestoredPoolsSame
  <2> QED BY <1>4, <1>6, <2>1
<1>7. CASE phase' = "reallocate" /\ todo' = ExclusiveIn(cs)
  <2>1. Holders' = {}
    BY <1>1, <1>7 DEF Holders, Settled
  <2>2. Held' = Promise!Nothing
    BY <1>1, <2>1, MappingPrime DEF Promise!Nothing
  <2>3. DOMAIN Owed' = ExclusiveIn(cs) /\ ExclusiveIn(cs) = ExclusiveIn(containers) \ released
    BY <1>1, <1>7, MappingPrime DEF ExclusiveIn
  <2>4. Holders \subseteq ExclusiveIn(containers) /\ ExclusiveIn(containers) \subseteq Container
    BY DEF IInv, TypeOK, Holders, Settled, ExclusiveIn
  <2>5. \A id \in Holders \ released :
          Owed'[id] = [pool |-> Held[id].pool, count |-> Cardinality(Held[id].cpus)]
    <3> SUFFICES ASSUME NEW id \in Holders \ released
                 PROVE  Owed'[id] = [pool |-> Held[id].pool, count |-> Cardinality(Held[id].cpus)]
      OBVIOUS
    <3>1. containers'[id] = containers[id]
      BY <1>1, <2>4 DEF ExclusiveIn
    <3>2. Owed'[id] = [pool |-> containers'[id].pool, count |-> Cardinality(containers'[id].cpus)]
      BY <1>1, <1>7, <2>3, <2>4, MappingPrime
    <3> QED BY <1>3, <3>1, <3>2
  <2>6. Promise!Reset(released)
    BY <1>1, <1>2, <2>2, <2>3, <2>4, <2>5, SameCardinality DEF Promise!Reset
  <2> QED BY <2>6 DEF Promise!Next
<1> QED BY <1>5, <1>6, <1>7 DEF Reconcile

-----------------------------------------------------------------------------
(* The actions, until a reallocation has failed.                           *)

LEMMA ReconfigureKeeps ==
  ASSUME IInv, ~reallocFailed, NEW ncfg \in NodeConfigs, Reconfigure(ncfg)
  PROVE  [Promise!Next]_Promise!vars
<1>1. phase = "idle" /\ Reconcile(ncfg, pools, containers)
  BY DEF Reconfigure
<1>2. PoolsTyped(pools)
  BY <1>1, IdleIsHanded DEF Handed
<1>3. {} \in Promise!AtMostOne
  BY DEF Promise!AtMostOne
<1> QED BY <1>1, <1>2, <1>3, ReconcileKeeps

(* Giving back what a container had leaves the pools well formed.          *)
LEMMA ReleasedPoolsTyped ==
  ASSUME PoolsTyped(pools), NEW c \in ContainerRecord, c.pool \in DOMAIN pools,
         NEW ps, ps = ReleasedPools(c)
  PROVE  DOMAIN ps = DOMAIN pools /\ PoolsTyped(ps)
<1>1. pools[c.pool] \in PoolRecord
  BY DEF PoolsTyped
<1>2. CASE c.cpus = {}
  <2>1. ps = [pools EXCEPT ![c.pool].used = pools[c.pool].used - c.req]
    BY <1>2 DEF ReleasedPools
  <2>2. ps[c.pool] = [pools[c.pool] EXCEPT !.used = pools[c.pool].used - c.req]
    BY <2>1
  <2>3. ps[c.pool] \in PoolRecord
    BY <1>1, <2>2 DEF PoolRecord, ContainerRecord
  <2> QED BY <2>1, <2>3 DEF PoolsTyped
<1>3. CASE c.cpus # {}
  <2>1. ps = [pools EXCEPT ![c.pool].shared = pools[c.pool].shared \cup c.cpus,
                           ![c.pool].pinned = pools[c.pool].pinned \ c.cpus]
    BY <1>3 DEF ReleasedPools
  <2>2. ps[c.pool] = [pools[c.pool] EXCEPT !.shared = pools[c.pool].shared \cup c.cpus,
                                           !.pinned = pools[c.pool].pinned \ c.cpus]
    BY <2>1
  <2>3. ps[c.pool] \in PoolRecord
    BY <1>1, <2>2 DEF PoolRecord, ContainerRecord
  <2> QED BY <2>1, <2>3 DEF PoolsTyped
<1> QED BY <1>2, <1>3

LEMMA ReleaseKeeps ==
  ASSUME IInv, ~reallocFailed, NEW id \in Container, ReleaseCPU(id)
  PROVE  [Promise!Next]_Promise!vars
<1> DEFINE c  == containers[id]
           cs == Delete(containers, id)
<1>1. phase = "idle" /\ id \in DOMAIN containers
  BY DEF ReleaseCPU
<1>2. /\ DOMAIN cs = DOMAIN containers \ {id}
      /\ \A i \in DOMAIN cs : cs[i] = containers[i]
  BY DEF Delete, Restrict
<1>3. PoolsTyped(pools) /\ c \in ContainerRecord
  BY <1>1, IdleIsHanded DEF Handed, ContainersTyped
<1> HIDE DEF cs
<1>4. CASE c.pool \in DOMAIN pools
  <2> DEFINE ps == ReleasedPools(c)
  <2>1. Reconcile(pendingCfg, ps, cs) /\ pendingCfg \in {Nil} \cup NodeConfigs
    BY <1>4 DEF ReleaseCPU, cs, IInv, TypeOK
  <2>2. DOMAIN ps = DOMAIN pools /\ PoolsTyped(ps)
    BY <1>3, <1>4, ReleasedPoolsTyped
  <2>3. {id} \in Promise!AtMostOne
    BY DEF Promise!AtMostOne
  <2> HIDE DEF ps
  <2> QED BY <1>1, <1>2, <2>1, <2>2, <2>3, ReconcileKeeps
<1>5. CASE c.pool \notin DOMAIN pools
  <2>1. /\ containers' = cs
        /\ UNCHANGED <<pools, phase, todo, reallocFailed>>
    BY <1>5 DEF ReleaseCPU, cs
  <2>2. todo = {} /\ id \notin Holders
    BY <1>1, <1>5, IdleIsHanded DEF Holders
  <2>3. Holders' = Holders
    BY <1>2, <2>1, <2>2 DEF Holders, Settled, ExclusiveIn
  <2>4. \A i \in Holders \cup todo : containers'[i] = containers[i]
    BY <1>2, <2>1, <2>2 DEF Holders, Settled, ExclusiveIn
  <2> QED BY <2>1, <2>3, <2>4, Stutter
<1> QED BY <1>4, <1>5

(* A container that shares CPUs does not hold any.                         *)
LEMMA TakeShareKeeps ==
  ASSUME IInv, ~reallocFailed, NEW id \in Container, NEW pool \in DOMAIN pools, NEW req \in Nat,
         MayAllocate(id), TakeShare(id, pool, req), UNCHANGED <<phase, todo, reallocFailed>>
  PROVE  UNCHANGED Promise!vars
<1>1. /\ DOMAIN pools' = DOMAIN pools
      /\ DOMAIN containers' = DOMAIN containers \cup {id}
      /\ \A i \in DOMAIN containers : containers'[i] = containers[i]
      /\ containers'[id].cpus = {}
  BY TakeShareSafe DEF IInv, MayAllocate
<1>2. id \notin DOMAIN containers /\ todo \subseteq DOMAIN containers
  BY DEF IInv, TypeOK, MayAllocate
<1>3. Holders' = Holders
  BY <1>1, <1>2 DEF Holders, Settled, ExclusiveIn
<1>4. \A i \in Holders \cup todo : containers'[i] = containers[i]
  BY <1>1, <1>2 DEF Holders, Settled, ExclusiveIn
<1> QED BY <1>3, <1>4, Stutter

LEMMA AllocateCPUsKeeps ==
  ASSUME IInv, ~reallocFailed, NEW id \in Container, NEW pool, NEW count \in ExclusiveCounts,
         AllocateCPUs(id, pool, count)
  PROVE  [Promise!Next]_Promise!vars
<1>1. /\ MayAllocate(id) /\ id \notin DOMAIN containers /\ todo = {}
      /\ UNCHANGED <<phase, todo, reallocFailed>>
  BY DEF AllocateCPUs, MayAllocate, IInv, TypeOK
<1>2. CASE pool = ReservedPool
  <2>1. 1000 * count \in Nat
    BY RequestAssumption
  <2> QED BY <1>1, <1>2, <2>1, TakeShareKeeps DEF AllocateCPUs
<1>3. CASE pool # ReservedPool
  <2>1. pool \in DOMAIN pools /\ TakeCPUs(id, pool, count)
    BY <1>3 DEF AllocateCPUs, CanTakeCPUs
  <2>2. todo' = todo \ {id} /\ reallocFailed' = reallocFailed
    BY <1>1
  <2> QED BY <1>1, <2>1, <2>2, TakeCPUsKeeps
<1> QED BY <1>2, <1>3

LEMMA AllocateCPUKeeps ==
  ASSUME IInv, ~reallocFailed, NEW id \in Container, NEW pool, NEW req \in SharedRequests,
         AllocateCPU(id, pool, req)
  PROVE  [Promise!Next]_Promise!vars
BY RequestAssumption, TakeShareKeeps DEF AllocateCPU

(* A reallocation gives a container what it is owed, or breaks the promise.*)
LEMMA ReallocateKeeps ==
  ASSUME IInv, ~reallocFailed, NEW id \in Container, Reallocate(id)
  PROVE  [Promise!Next]_Promise!vars
<1> DEFINE c     == containers[id]
           count == Cardinality(c.cpus)
<1>1. id \in todo
  BY DEF Reallocate
<1>2. CASE CanTakeCPUs(c.pool, count)
  BY <1>1, <1>2, TakeCPUsKeeps DEF Reallocate, CanTakeCPUs
<1>3. CASE ~CanTakeCPUs(c.pool, count)
  <2>1. reallocFailed' = TRUE /\ reallocFailed = FALSE
    BY <1>3 DEF Reallocate, IInv, TypeOK
  <2>2. Held' = Promise!Nothing /\ Owed' = Promise!Nothing
    BY <2>1 DEF Held, Owed, Promise!Nothing
  <2>3. Owed # Promise!Nothing
    BY <1>1, NothingOwed
  <2>4. Promise!Break
    BY <2>1, <2>2, <2>3 DEF Promise!Break
  <2> QED BY <2>4 DEF Promise!Next
<1> QED BY <1>2, <1>3

LEMMA FinishReconcileKeeps ==
  ASSUME IInv, ~reallocFailed, FinishReconcile
  PROVE  UNCHANGED Promise!vars
<1>1. UNCHANGED <<pools, containers, todo, reallocFailed>>
  BY DEF FinishReconcile
<1>2. Holders' = Holders
  BY <1>1 DEF Holders, Settled, ExclusiveIn
<1> QED BY <1>1, <1>2, Stutter

(* A promise that is broken stays broken, and nothing is held or owed.     *)
LEMMA BrokenKeeps ==
  ASSUME IInv, reallocFailed, [Next]_vars
  PROVE  UNCHANGED Promise!vars
<1>1. reallocFailed = TRUE /\ reallocFailed' = TRUE
  BY DEF IInv, TypeOK, Next, vars, Reconfigure, ReleaseCPU, Reconcile, AllocateCPUs, AllocateCPU,
         Reallocate, FinishReconcile
<1>2. Held' = Held /\ Owed' = Owed
  BY <1>1 DEF Held, Owed
<1> QED BY <1>1, <1>2 DEF Promise!vars

-----------------------------------------------------------------------------
(* A new pool set has promised nothing.                                    *)
LEMMA InitKeeps == Init => Promise!Init
BY DEF Init, Promise!Init, Promise!Nothing, Held, Owed, Holders, Settled, ExclusiveIn

LEMMA NextKeeps == IInv /\ [Next]_vars => [Promise!Next]_Promise!vars
<1> SUFFICES ASSUME IInv, [Next]_vars PROVE [Promise!Next]_Promise!vars
  OBVIOUS
<1>1. CASE reallocFailed
  BY <1>1, BrokenKeeps
<1>2. CASE ~reallocFailed
  <2>1. ASSUME NEW ncfg \in NodeConfigs, Reconfigure(ncfg) PROVE [Promise!Next]_Promise!vars
    BY <1>2, <2>1, ReconfigureKeeps
  <2>2. ASSUME NEW id \in Container, NEW pool \in PoolName, NEW count \in ExclusiveCounts,
               AllocateCPUs(id, pool, count)
        PROVE  [Promise!Next]_Promise!vars
    BY <1>2, <2>2, AllocateCPUsKeeps
  <2>3. ASSUME NEW id \in Container, NEW pool \in PoolName, NEW req \in SharedRequests,
               AllocateCPU(id, pool, req)
        PROVE  [Promise!Next]_Promise!vars
    BY <1>2, <2>3, AllocateCPUKeeps
  <2>4. ASSUME NEW id \in Container, ReleaseCPU(id) PROVE [Promise!Next]_Promise!vars
    BY <1>2, <2>4, ReleaseKeeps
  <2>5. ASSUME NEW id \in Container, Reallocate(id) PROVE [Promise!Next]_Promise!vars
    BY <1>2, <2>5, ReallocateKeeps
  <2>6. CASE FinishReconcile
    BY <1>2, <2>6, FinishReconcileKeeps
  <2>7. CASE UNCHANGED vars
    <3>1. UNCHANGED <<pools, containers, todo, reallocFailed>>
      BY <2>7 DEF vars
    <3>2. Holders' = Holders
      BY <3>1 DEF Holders, Settled, ExclusiveIn
    <3> QED BY <1>2, <3>1, <3>2, Stutter
  <2> QED BY <2>1, <2>2, <2>3, <2>4, <2>5, <2>6, <2>7 DEF Next
<1> QED BY <1>1, <1>2

(* The pool set implements ExclusiveCpus: until a reallocation has failed, *)
(* a container loses or changes its exclusive CPUs only by a release, with *)
(* its pool or in a reallocation, which leaves nobody out.                 *)
THEOREM Refinement == Spec => KeepsPromise
<1>1. Init => Promise!Init
  BY InitKeeps
<1>2. IInv /\ [Next]_vars => [Promise!Next]_Promise!vars
  BY NextKeeps
<1> QED BY <1>1, <1>2, Invariance, PTL DEF Spec, KeepsPromise, Promise!Spec

=============================================================================
