-------------------------- MODULE PoolSetAccounts ---------------------------
(***************************************************************************)
(* What the safety of PoolSet (PoolSetProofs) means for the containers and *)
(* for the capacity of the pools: who is told to run where, which CPUs a   *)
(* pool has, how many a reallocation gives back, and what its usage adds   *)
(* up to.                                                                  *)
(***************************************************************************)
EXTENDS PoolSetProofs, SumTheorems

(* No CPU is given to two pools of an acceptable configuration.            *)
LEMMA AcceptableApart ==
  ASSUME NEW ncfg \in Acceptable, NEW p \in DOMAIN ncfg, NEW q \in DOMAIN ncfg, p # q
  PROVE  CpusOf[ncfg][p] \cap CpusOf[ncfg][q] = {}
<1>1. ncfg \in NodeConfigs /\ PoolsOk(ncfg)
  BY DEF Acceptable, PrepareOk
<1>2. \A pool \in DOMAIN ncfg : ncfg[pool].Isolated \in BOOLEAN
  BY <1>1, NodeConfigsAssumption DEF Config
<1>3. CpusOf[ncfg] = PoolCpus(ncfg)
  BY <1>1 DEF CpusOf
<1>4. \A pool \in ExplicitPools(ncfg) :
        /\ CpusOf[ncfg][pool] = ExplicitCpus(ncfg, pool)
        /\ ExplicitCpus(ncfg, pool) \subseteq AvailableCpus(ncfg[pool].Isolated)
        /\ ExplicitCpus(ncfg, pool) \subseteq ClaimedCpus(ncfg, ncfg[pool].Isolated)
  BY <1>1, <1>3 DEF PoolCpus, PoolsOk, ExplicitPools, ClaimedCpus
<1>5. \A pool \in DOMAIN ncfg \ ExplicitPools(ncfg) :
        /\ CpusOf[ncfg][pool] \subseteq AvailableCpus(ncfg[pool].Isolated)
        /\ CpusOf[ncfg][pool] \cap ClaimedCpus(ncfg, ncfg[pool].Isolated) = {}
  BY <1>3 DEF PoolCpus, LeftoverCpus
<1>6. AvailableCpus(TRUE) \cap AvailableCpus(FALSE) = {}
  BY DEF AvailableCpus
<1>7. \A pool \in DOMAIN ncfg : CpusOf[ncfg][pool] \subseteq AvailableCpus(ncfg[pool].Isolated)
  BY <1>4, <1>5
<1>8. CASE ncfg[p].Isolated # ncfg[q].Isolated
  BY <1>2, <1>6, <1>7, <1>8
<1>9. CASE ncfg[p].Isolated = ncfg[q].Isolated
  <2>1. CASE p \in ExplicitPools(ncfg) /\ q \in ExplicitPools(ncfg)
    BY <1>1, <1>4, <2>1 DEF PoolsOk
  <2>2. CASE p \in ExplicitPools(ncfg) /\ q \notin ExplicitPools(ncfg)
    BY <1>4, <1>5, <1>9, <2>2
  <2>3. CASE p \notin ExplicitPools(ncfg) /\ q \in ExplicitPools(ncfg)
    BY <1>4, <1>5, <1>9, <2>3
  <2>4. ~(p \notin ExplicitPools(ncfg) /\ q \notin ExplicitPools(ncfg))
    BY <1>1, <1>2, <1>9 DEF PoolsOk, LeftoverPools, ExplicitPools
  <2> QED BY <2>1, <2>2, <2>3, <2>4
<1> QED BY <1>8, <1>9

(* Pools ps and containers cs under the configuration ncfg, as they are in *)
(* an intact pool set, and in an intact checkpoint of one.                 *)
IntactUnder(ncfg, ps, cs) ==
  /\ ncfg \in Acceptable /\ DOMAIN ps = DOMAIN ncfg
  /\ \A pool \in DOMAIN ps :
       /\ ps[pool].cfg = CpusOf[ncfg][pool]
       /\ ps[pool].shared \cup ps[pool].pinned \subseteq ps[pool].cfg
  /\ \A id \in DOMAIN cs : cs[id].pool \in DOMAIN ps
  /\ Apart(ps)
  /\ Pinned(ps, cs, ExclusiveIn(cs))

(* The CPUs told to containers are theirs, or shared by some pool.         *)
ToldRightly(told, ps, cs) ==
  \A id \in DOMAIN cs :
    /\ cs[id].cpus # {} => told[id] = cs[id].cpus
    /\ cs[id].cpus = {} => \A k \in told[id] : \E pool \in DOMAIN ps : k \in ps[pool].shared

(* Then none is told to run on a CPU that another has exclusively: in the  *)
(* same pool such a CPU is pinned and its own, and pools are apart.        *)
LEMMA IntactIsExclusive ==
  ASSUME NEW ncfg, NEW ps, NEW cs, IntactUnder(ncfg, ps, cs),
         NEW told, ToldRightly(told, ps, cs),
         NEW i \in ExclusiveIn(cs), NEW j \in DOMAIN cs \ {i}
  PROVE  told[i] \cap told[j] = {}
<1> DEFINE p == cs[i].pool
           q == cs[j].pool
<1>1. i \in DOMAIN cs /\ cs[i].cpus # {} /\ p \in DOMAIN ps /\ q \in DOMAIN ps
  BY DEF ExclusiveIn, IntactUnder
<1>2. told[i] = cs[i].cpus /\ cs[i].cpus \subseteq ps[p].pinned
  BY <1>1 DEF IntactUnder, Pinned, ToldRightly
<1>3. \A pool \in DOMAIN ps \ {p} :
        (ps[pool].shared \cup ps[pool].pinned) \cap ps[p].pinned = {}
  <2> SUFFICES ASSUME NEW pool \in DOMAIN ps \ {p}
               PROVE  (ps[pool].shared \cup ps[pool].pinned) \cap ps[p].pinned = {}
    OBVIOUS
  <2>1. CpusOf[ncfg][pool] \cap CpusOf[ncfg][p] = {}
    BY <1>1, AcceptableApart DEF IntactUnder
  <2> QED BY <1>1, <2>1 DEF IntactUnder
<1>4. CASE cs[j].cpus = {}
  <2>1. \A pool \in DOMAIN ps : ps[pool].shared \cap ps[p].pinned = {}
    BY <1>1, <1>3 DEF IntactUnder, Apart
  <2>2. \A k \in told[j] : \E pool \in DOMAIN ps : k \in ps[pool].shared
    BY <1>4 DEF ToldRightly
  <2> QED BY <1>2, <2>1, <2>2
<1>5. CASE cs[j].cpus # {}
  <2>1. j \in ExclusiveIn(cs) /\ j # i
    BY <1>5 DEF ExclusiveIn
  <2>2. told[j] = cs[j].cpus /\ cs[j].cpus \subseteq ps[q].pinned
    BY <1>1, <1>5, <2>1 DEF IntactUnder, Pinned, ToldRightly
  <2>3. CASE p = q
    BY <1>1, <1>2, <2>1, <2>2, <2>3 DEF IntactUnder, Pinned
  <2>4. CASE p # q
    BY <1>1, <1>2, <1>3, <2>2, <2>4
  <2> QED BY <2>3, <2>4
<1> QED BY <1>4, <1>5

(* In an intact pool set the CPUs a container is told to run on are shared *)
(* by its pool, by the reserved or by the default pool, or are its own.    *)
LEMMA InvariantIsExclusive == IInv => ExclusiveIsExclusive
<1> SUFFICES ASSUME IInv, phase = "idle", Intact,
                    NEW i \in ExclusiveIn(containers), NEW j \in DOMAIN containers \ {i}
             PROVE  GetContainerCPUSet(i) \cap GetContainerCPUSet(j) = {}
  BY DEF ExclusiveIsExclusive
<1> DEFINE told == [id \in DOMAIN containers |-> GetContainerCPUSet(id)]
<1>1. i \in DOMAIN containers /\ containers[i].pool \in DOMAIN pools
  BY DEF ExclusiveIn, Intact
<1>2. currentCfg \in Acceptable /\ DOMAIN pools = DOMAIN currentCfg
  BY <1>1 DEF IInv, TypeOK, Intact, ConfiguredPools
<1>3. currentCfg # Nil /\ {ReservedPool, DefaultPool} \subseteq DOMAIN pools
  BY <1>2, NodeConfigsAssumption DEF Acceptable
<1>4. Apart(pools) /\ Pinned(pools, containers, ExclusiveIn(containers))
  BY IdleIsHanded DEF Handed, Intact
<1>5. IntactUnder(currentCfg, pools, containers)
  BY <1>2, <1>3, <1>4 DEF IntactUnder, Intact, IInv, ConfigInForce, InForce
<1>6. ToldRightly(told, pools, containers)
  BY <1>3 DEF ToldRightly, GetContainerCPUSet, Intact
<1>7. told[i] \cap told[j] = {}
  BY <1>5, <1>6, IntactIsExclusive
<1> QED BY <1>1, <1>7

(* No container of an intact pool set is told to run on a CPU that another *)
(* container, of any pool, has exclusively (GetContainerCPUSet).           *)
THEOREM ExclusiveMeansExclusive == Spec => []ExclusiveIsExclusive
BY InvariantIsExclusive, Invariance, PTL

-----------------------------------------------------------------------------
(* The capacity of the pools                                               *)

(* With no CPU known to be offline the allocator splits the set it takes   *)
(* from, and takes as many CPUs as it is asked for.                        *)
LEMMA AllocatorSplits ==
  ASSUME BelievedOffline = {}, NEW from, NEW count, NEW a \in AllocatorOutcomes(from, count)
  PROVE  a.got \cup a.rest = from /\ Cardinality(a.got) = count
<1>1. from \ BelievedOffline = from
  OBVIOUS
<1>2. CASE Cardinality(from) = count
  BY <1>2 DEF AllocatorOutcomes, AllocationOutcomes
<1>3. CASE Cardinality(from) # count
  <2>1. \E S \in kSubset(count, from) : a = [got |-> S, rest |-> from \ S]
    BY <1>1, <1>3 DEF AllocatorOutcomes, AllocationOutcomes
  <2> QED BY <2>1 DEF kSubset
<1> QED BY <1>2, <1>3

(* The CPUs of the pools of both sets are the same.                        *)
SameCapacity(ps, ps2) ==
  \A pool \in DOMAIN ps \cap DOMAIN ps2 :
     ps2[pool].shared \cup ps2[pool].pinned = ps[pool].shared \cup ps[pool].pinned

(* Taking CPUs moves them from the shared to the pinned ones.              *)
LEMMA TakeCPUsKeepsCapacity ==
  ASSUME IInv, BelievedOffline = {}, NEW id, NEW pool \in DOMAIN pools, NEW count,
         TakeCPUs(id, pool, count)
  PROVE  SameCapacity(pools, pools') /\ Cardinality(containers'[id].cpus) = count
<1>1. PICK a \in AllocatorOutcomes(pools[pool].shared, count) :
        /\ pools' = [pools EXCEPT ![pool].shared = a.rest, ![pool].pinned = @ \cup a.got]
        /\ containers' = Put(containers, id, [pool |-> pool, cpus |-> a.got,
                                              req |-> 1000 * Cardinality(a.got)])
  BY DEF TakeCPUs
<1>2. a.got \cup a.rest = pools[pool].shared /\ Cardinality(a.got) = count
  BY AllocatorSplits
<1>3. /\ pools'[pool].shared = a.rest
      /\ pools'[pool].pinned = pools[pool].pinned \cup a.got
      /\ \A p \in DOMAIN pools \ {pool} : pools'[p] = pools[p]
  BY <1>1 DEF IInv, TypeOK, PoolRecord
<1>4. containers'[id].cpus = a.got
  BY <1>1 DEF Put
<1> QED BY <1>2, <1>3, <1>4 DEF SameCapacity

(* What ReleaseCPU hands to reconcileConfig: in an intact pool set the     *)
(* CPUs of the container are pinned, so that giving them back adds none.   *)
LEMMA ReleasedCapacity ==
  ASSUME IInv, phase = "idle", Intact, NEW id \in DOMAIN containers,
         NEW ps, ps = ReleasedPools(containers[id])
  PROVE  PoolsTyped(ps) /\ DOMAIN ps = DOMAIN pools /\ SameCapacity(pools, ps)
<1> DEFINE c == containers[id]
<1>1. c.pool \in DOMAIN pools /\ c \in ContainerRecord
  BY DEF IInv, TypeOK, Intact
<1>2. PoolsTyped(pools) /\ pools[c.pool] \in PoolRecord
  BY <1>1 DEF IInv, TypeOK, PoolsTyped
<1>3. c.cpus # {} => c.cpus \subseteq pools[c.pool].pinned
  BY <1>1, IdleIsHanded DEF IInv, ExclusivePinned, ExclusiveIn, Intact
<1>4. DOMAIN ps = DOMAIN pools /\ \A p \in DOMAIN pools \ {c.pool} : ps[p] = pools[p]
  BY <1>1 DEF ReleasedPools
<1>5. /\ ps[c.pool] \in PoolRecord
      /\ ps[c.pool].shared \cup ps[c.pool].pinned = pools[c.pool].shared \cup pools[c.pool].pinned
  <2>1. CASE c.cpus = {}
    <3>1. ps[c.pool] = [pools[c.pool] EXCEPT !.used = @ - c.req]
      BY <1>1, <2>1 DEF ReleasedPools
    <3> QED BY <1>1, <1>2, <3>1 DEF PoolRecord, ContainerRecord
  <2>2. CASE c.cpus # {}
    <3>1. ps[c.pool] = [pools[c.pool] EXCEPT !.shared = @ \cup c.cpus, !.pinned = @ \ c.cpus]
      BY <1>1, <2>2 DEF ReleasedPools
    <3> QED BY <1>1, <1>2, <1>3, <2>2, <3>1 DEF PoolRecord, ContainerRecord
  <2> QED BY <2>1, <2>2
<1> QED BY <1>2, <1>4, <1>5 DEF PoolsTyped, SameCapacity

(* A reconciliation that does not get to reallocating leaves every pool    *)
(* that is still there with the CPUs it had.                               *)
LEMMA RejectedKeepsCapacity ==
  ASSUME IInv, phase = "idle", phase' = "idle", NEW ncfg, NEW cs,
         NEW ps, PoolsTyped(ps), DOMAIN ps = DOMAIN pools, Reconcile(ncfg, ps, cs)
  PROVE  SameCapacity(ps, pools')
<1>1. CASE pools' = ps
  BY <1>1 DEF SameCapacity
<1>2. ASSUME NEW visited, pools' = RestoredPools(PartlyPrepared(ncfg, ps, visited))
      PROVE  SameCapacity(ps, pools')
  BY <1>2, RestoredPoolsSame DEF SameCapacity
<1> QED BY <1>1, <1>2 DEF Reconcile

(* Allocating and releasing neither add CPUs to a pool of an intact pool   *)
(* set nor lose any: AllocateCPUs, AllocateCPU, ReleaseCPU and rejected    *)
(* configurations.                                                         *)
LEMMA StepKeepsCapacity ==
  ASSUME IInv, Next, phase = "idle", phase' = "idle", Intact, BelievedOffline = {}
  PROVE  SameCapacity(pools, pools')
<1>1. PoolsTyped(pools)
  BY DEF IInv, TypeOK, PoolsTyped
<1>2. ASSUME NEW ncfg, Reconfigure(ncfg) PROVE SameCapacity(pools, pools')
  BY <1>1, <1>2, RejectedKeepsCapacity DEF Reconfigure
<1>3. ASSUME NEW id, NEW pool \in DOMAIN pools, NEW req, TakeShare(id, pool, req)
      PROVE  SameCapacity(pools, pools')
  <2>1. pools' = [pools EXCEPT ![pool].used = @ + req]
    BY <1>3 DEF TakeShare
  <2> QED BY <1>1, <2>1 DEF PoolsTyped, PoolRecord, SameCapacity
<1>4. ASSUME NEW id, NEW pool, NEW count, AllocateCPUs(id, pool, count)
      PROVE  SameCapacity(pools, pools')
  <2>1. CASE pool = ReservedPool
    BY <1>3, <1>4, <2>1 DEF AllocateCPUs
  <2>2. CASE pool # ReservedPool
    BY <1>4, <2>2, TakeCPUsKeepsCapacity DEF AllocateCPUs, CanTakeCPUs
  <2> QED BY <2>1, <2>2
<1>5. ASSUME NEW id, NEW pool, NEW req, AllocateCPU(id, pool, req)
      PROVE  SameCapacity(pools, pools')
  BY <1>3, <1>5 DEF AllocateCPU
<1>6. ASSUME NEW id \in Container, ReleaseCPU(id) PROVE SameCapacity(pools, pools')
  <2> DEFINE ps == ReleasedPools(containers[id])
  <2>1. id \in DOMAIN containers /\ Reconcile(pendingCfg, ps, Delete(containers, id))
    BY <1>6 DEF ReleaseCPU, Intact
  <2>2. PoolsTyped(ps) /\ DOMAIN ps = DOMAIN pools /\ SameCapacity(pools, ps)
    BY <2>1, ReleasedCapacity
  <2>3. SameCapacity(ps, pools')
    BY <2>1, <2>2, RejectedKeepsCapacity
  <2> QED BY <2>2, <2>3 DEF SameCapacity
<1> QED BY <1>2, <1>4, <1>5, <1>6 DEF Next, Reallocate, FinishReconcile

(* Allocating and releasing keep the capacity of every pool, as long as    *)
(* the pool set is intact and no CPU is known to be offline.               *)
THEOREM CapacityIsKept == Spec => CapacityKept
<1>1. IInv /\ Next /\ phase = "idle" /\ phase' = "idle" /\ Intact /\ BelievedOffline = {} =>
        \A pool \in DOMAIN pools \cap DOMAIN pools' :
           pools'[pool].shared \cup pools'[pool].pinned = pools[pool].shared \cup pools[pool].pinned
  BY StepKeepsCapacity DEF SameCapacity
<1>2. IInv /\ [Next]_vars =>
        [phase = "idle" /\ phase' = "idle" /\ Intact /\ BelievedOffline = {} =>
           \A pool \in DOMAIN pools \cap DOMAIN pools' :
              pools'[pool].shared \cup pools'[pool].pinned
                = pools[pool].shared \cup pools[pool].pinned]_vars
  BY <1>1
<1> QED BY <1>2, Invariance, PTL DEF Spec, CapacityKept

(* updateAllocations gives every container it reallocates as many CPUs as  *)
(* the container had.                                                      *)
LEMMA StepKeepsCount ==
  ASSUME IInv, Next, NEW id \in todo \ todo', ~reallocFailed', BelievedOffline = {}
  PROVE  Cardinality(containers'[id].cpus) = Cardinality(containers[id].cpus)
<1>1. phase = "reallocate"
  BY DEF IInv, TypeOK
<1>2. PICK i \in Container : Reallocate(i)
  BY <1>1 DEF Next, Reconfigure, AllocateCPUs, AllocateCPU, MayAllocate, ReleaseCPU, FinishReconcile
<1> DEFINE c == containers[i]
<1>3. CanTakeCPUs(c.pool, Cardinality(c.cpus)) /\ TakeCPUs(i, c.pool, Cardinality(c.cpus)) /\ i = id
  BY <1>2 DEF Reallocate
<1> QED BY <1>3, TakeCPUsKeepsCapacity DEF CanTakeCPUs

(* A reallocated container gets as many CPUs as it had, as long as no CPU  *)
(* is known to be offline.                                                 *)
THEOREM CountIsKept == Spec => ReallocationKeepsCount
<1>1. IInv /\ [Next]_vars =>
        [\A id \in todo \ todo' :
           ~reallocFailed' /\ BelievedOffline = {} =>
             Cardinality(containers'[id].cpus) = Cardinality(containers[id].cpus)]_vars
  BY StepKeepsCount
<1> QED BY <1>1, Invariance, PTL DEF Spec, ReallocationKeepsCount


-----------------------------------------------------------------------------
(* The usage of the pools                                                  *)

(* The containers with a share of a pool, and what each asked for.         *)
Sharers(cs, pool) == {id \in DOMAIN cs : cs[id].pool = pool /\ cs[id].cpus = {}}
Shares(cs, pool)  == [id \in Sharers(cs, pool) |-> cs[id].req]

(* What the usage of a pool falls short of what its sharers asked for.     *)
Missing(ps, cs, pool) == SumFunction(Shares(cs, pool)) - ps[pool].used

(* Going from ps and cs to ps2 and cs2 changes that of no pool that stays, *)
(* and a pool that comes is not in use, whoever may be said to share it.   *)
Accounted(ps, cs, ps2, cs2) ==
  \A pool \in DOMAIN ps2 :
    \/ pool \in DOMAIN ps /\ Missing(ps2, cs2, pool) = Missing(ps, cs, pool)
    \/ /\ pool \notin DOMAIN ps
       /\ ps2[pool].used = 0
       /\ Sharers(cs2, pool) \subseteq Sharers(cs, pool)

(* The containers cs have the sharers of cs2 and one more.                 *)
OneMore(cs, cs2, pool, id) ==
  /\ Sharers(cs2, pool) = Sharers(cs, pool) \ {id}
  /\ id \in Sharers(cs, pool)
  /\ \A i \in Sharers(cs2, pool) : cs2[i].req = cs[i].req

(* They have the same sharers.                                             *)
AllSame(cs, cs2, pool) ==
  /\ Sharers(cs2, pool) = Sharers(cs, pool)
  /\ \A i \in Sharers(cs2, pool) : cs2[i].req = cs[i].req

(* Sums are over finitely many containers.                                 *)
FinitelyMany(cs) == IsFiniteSet(DOMAIN cs) /\ ContainersTyped(cs)

(* Their sum is an integer, and not negative: requests are not.            *)
LEMMA SharesSummable ==
  ASSUME NEW cs, FinitelyMany(cs), NEW pool
  PROVE  Summable(Shares(cs, pool)) /\ SumFunction(Shares(cs, pool)) \in Nat
<1>1. IsFiniteSet(Sharers(cs, pool))
  BY FS_Subset DEF Sharers, FinitelyMany
<1>2. DOMAIN Shares(cs, pool) = Sharers(cs, pool)
  BY DEF Shares
<1>3. \A id \in Sharers(cs, pool) : Shares(cs, pool)[id] \in Nat
  BY DEF Shares, Sharers, FinitelyMany, ContainersTyped, ContainerRecord
<1>4. Summable(Shares(cs, pool))
  BY <1>1, <1>2, <1>3 DEF Summable
<1> QED BY <1>2, <1>3, <1>4, SumNat

(* One sharer adds its request to the sum.                                 *)
LEMMA SharesOfOneMore ==
  ASSUME NEW cs, FinitelyMany(cs), NEW cs2, NEW pool, NEW id, OneMore(cs, cs2, pool, id)
  PROVE  SumFunction(Shares(cs, pool)) = cs[id].req + SumFunction(Shares(cs2, pool))
<1> DEFINE f == Shares(cs, pool)
           e == Shares(cs2, pool)
<1>1. Summable(f)
  BY SharesSummable
<1>2. /\ id \in DOMAIN f /\ f[id] = cs[id].req
      /\ DOMAIN e = DOMAIN f \ {id} /\ \A x \in DOMAIN e : e[x] = f[x]
  BY DEF OneMore, Shares
<1> HIDE DEF f, e
<1>3. SumFunction(f) = f[id] + SumFunction(e)
  BY <1>1, <1>2, SumStep, Zenon
<1> QED BY <1>2, <1>3 DEF f, e

(* The same sharers, the same sum.                                         *)
LEMMA SharesOfSame ==
  ASSUME NEW cs, NEW cs2, NEW pool, AllSame(cs, cs2, pool)
  PROVE  SumFunction(Shares(cs, pool)) = SumFunction(Shares(cs2, pool))
<1>1. Shares(cs, pool) = Shares(cs2, pool)
  BY DEF AllSame, Shares
<1> QED BY <1>1


(* Taking CPUs makes a container a sharer only if it got none, and then    *)
(* its request is 0: usage is not touched.                                 *)
LEMMA TakeCPUsAccounts ==
  ASSUME TypeOK, FinitelyMany(containers),
         NEW id \in Container, NEW pool \in DOMAIN pools, NEW count,
         TakeCPUs(id, pool, count), id \in DOMAIN containers => containers[id].cpus # {}
  PROVE  FinitelyMany(containers') /\ Accounted(pools, containers, pools', containers')
<1>1. PICK a \in AllocatorOutcomes(pools[pool].shared, count) :
        /\ pools' = [pools EXCEPT ![pool].shared = a.rest, ![pool].pinned = @ \cup a.got]
        /\ containers' = Put(containers, id, [pool |-> pool, cpus |-> a.got,
                                              req |-> 1000 * Cardinality(a.got)])
  BY DEF TakeCPUs
<1>2. DOMAIN containers' = DOMAIN containers \cup {id} /\ ContainersTyped(containers')
  BY TakeCPUsTyped
<1>3. FinitelyMany(containers')
  BY <1>2, FS_AddElement DEF FinitelyMany
<1>4. /\ DOMAIN pools' = DOMAIN pools
      /\ \A p \in DOMAIN pools : pools'[p].used = pools[p].used /\ pools[p].used \in Int
  BY <1>1 DEF TypeOK, PoolRecord
<1>5. /\ containers'[id] = [pool |-> pool, cpus |-> a.got, req |-> 1000 * Cardinality(a.got)]
      /\ \A i \in DOMAIN containers \ {id} : containers'[i] = containers[i]
  BY <1>1 DEF Put
<1>6. ASSUME NEW p \in DOMAIN pools
      PROVE  SumFunction(Shares(containers', p)) = SumFunction(Shares(containers, p))
  <2>1. CASE a.got = {} /\ p = pool
    <3>1. OneMore(containers', containers, p, id)
      BY <1>2, <1>5, <2>1 DEF OneMore, Sharers
    <3>2. containers'[id].req = 0
      BY <1>5, <2>1, FS_EmptySet
    <3>3. SumFunction(Shares(containers', p)) = 0 + SumFunction(Shares(containers, p))
      BY <1>3, <3>1, <3>2, SharesOfOneMore
    <3> QED BY <3>3, SharesSummable
  <2>2. CASE ~(a.got = {} /\ p = pool)
    <3>1. AllSame(containers', containers, p)
      BY <1>2, <1>5, <2>2 DEF AllSame, Sharers
    <3> QED BY <3>1, SharesOfSame
  <2> QED BY <2>1, <2>2
<1>7. \A p \in DOMAIN pools : Missing(pools', containers', p) = Missing(pools, containers, p)
  BY <1>4, <1>6 DEF Missing
<1> QED BY <1>3, <1>4, <1>7 DEF Accounted

(* A share is added to the usage of its pool.                              *)
LEMMA TakeShareAccounts ==
  ASSUME TypeOK, FinitelyMany(containers),
         NEW id \in Container, id \notin DOMAIN containers,
         NEW pool \in DOMAIN pools, NEW req \in Nat, TakeShare(id, pool, req)
  PROVE  FinitelyMany(containers') /\ Accounted(pools, containers, pools', containers')
<1>1. /\ pools' = [pools EXCEPT ![pool].used = @ + req]
      /\ containers' = Put(containers, id, [pool |-> pool, cpus |-> {}, req |-> req])
  BY DEF TakeShare
<1>2. DOMAIN containers' = DOMAIN containers \cup {id} /\ ContainersTyped(containers')
  BY TakeShareSafe
<1>3. FinitelyMany(containers')
  BY <1>2, FS_AddElement DEF FinitelyMany
<1>4. /\ DOMAIN pools' = DOMAIN pools
      /\ \A p \in DOMAIN pools : pools'[p].used = pools[p].used + (IF p = pool THEN req ELSE 0)
      /\ \A p \in DOMAIN pools : pools[p].used \in Int
  BY <1>1 DEF TypeOK, PoolRecord
<1>5. /\ containers'[id] = [pool |-> pool, cpus |-> {}, req |-> req]
      /\ \A i \in DOMAIN containers : containers'[i] = containers[i]
  BY <1>1 DEF Put
<1>6. ASSUME NEW p \in DOMAIN pools
      PROVE  Missing(pools', containers', p) = Missing(pools, containers, p)
  <2>1. SumFunction(Shares(containers, p)) \in Int
    BY SharesSummable
  <2>2. CASE p = pool
    <3>1. OneMore(containers', containers, p, id)
      BY <1>2, <1>5, <2>2 DEF OneMore, Sharers
    <3>2. SumFunction(Shares(containers', p)) = req + SumFunction(Shares(containers, p))
      BY <1>3, <1>5, <3>1, SharesOfOneMore
    <3> QED BY <1>4, <2>1, <2>2, <3>2 DEF Missing
  <2>3. CASE p # pool
    <3>1. AllSame(containers', containers, p)
      BY <1>2, <1>5, <2>3 DEF AllSame, Sharers
    <3>2. SumFunction(Shares(containers', p)) = SumFunction(Shares(containers, p))
      BY <3>1, SharesOfSame
    <3> QED BY <1>4, <2>1, <2>3, <3>2 DEF Missing
  <2> QED BY <2>2, <2>3
<1> QED BY <1>3, <1>4, <1>6 DEF Accounted

(* A released share is taken off the usage of its pool.                    *)
LEMMA ReleaseAccounts ==
  ASSUME TypeOK, FinitelyMany(containers),
         NEW id \in DOMAIN containers, containers[id].pool \in DOMAIN pools,
         NEW ps, ps = ReleasedPools(containers[id]),
         NEW cs, cs = Delete(containers, id)
  PROVE  /\ PoolsTyped(ps) /\ DOMAIN ps = DOMAIN pools
         /\ FinitelyMany(cs) /\ Accounted(pools, containers, ps, cs)
<1> DEFINE c == containers[id]
<1>1. c \in ContainerRecord /\ PoolsTyped(pools) /\ pools[c.pool] \in PoolRecord
  BY DEF TypeOK, PoolsTyped
<1>2. /\ DOMAIN cs = DOMAIN containers \ {id}
      /\ \A i \in DOMAIN cs : cs[i] = containers[i]
  BY DEF Delete, Restrict
<1>3. FinitelyMany(cs)
  BY <1>2, FS_Subset DEF FinitelyMany, ContainersTyped
<1>4. DOMAIN ps = DOMAIN pools /\ \A p \in DOMAIN pools \ {c.pool} : ps[p] = pools[p]
  BY DEF ReleasedPools
<1>5. /\ ps[c.pool] \in PoolRecord
      /\ ps[c.pool].used = pools[c.pool].used - (IF c.cpus = {} THEN c.req ELSE 0)
  <2>1. CASE c.cpus = {}
    <3>1. ps[c.pool] = [pools[c.pool] EXCEPT !.used = @ - c.req]
      BY <2>1 DEF ReleasedPools
    <3> QED BY <1>1, <2>1, <3>1 DEF PoolRecord, ContainerRecord
  <2>2. CASE c.cpus # {}
    <3>1. ps[c.pool] = [pools[c.pool] EXCEPT !.shared = @ \cup c.cpus, !.pinned = @ \ c.cpus]
      BY <2>2 DEF ReleasedPools
    <3>2. ps[c.pool] \in PoolRecord /\ ps[c.pool].used = pools[c.pool].used
      BY <1>1, <3>1 DEF PoolRecord, ContainerRecord
    <3>3. pools[c.pool].used \in Int
      BY <1>1 DEF PoolRecord
    <3> QED BY <2>2, <3>2, <3>3
  <2> QED BY <2>1, <2>2
<1>6. PoolsTyped(ps)
  BY <1>1, <1>4, <1>5 DEF PoolsTyped
<1>7. ASSUME NEW p \in DOMAIN pools
      PROVE  Missing(ps, cs, p) = Missing(pools, containers, p)
  <2>1. pools[p].used \in Int
    BY <1>1 DEF PoolsTyped, PoolRecord
  <2>2. SumFunction(Shares(cs, p)) \in Int
    BY <1>3, SharesSummable
  <2>3. CASE p = c.pool /\ c.cpus = {}
    <3>1. OneMore(containers, cs, p, id)
      BY <1>2, <2>3 DEF OneMore, Sharers
    <3>2. SumFunction(Shares(containers, p)) = c.req + SumFunction(Shares(cs, p))
      BY <3>1, SharesOfOneMore
    <3>3. c.req \in Int
      BY <1>1 DEF ContainerRecord
    <3> QED BY <1>5, <2>1, <2>2, <2>3, <3>2, <3>3 DEF Missing
  <2>4. CASE ~(p = c.pool /\ c.cpus = {})
    <3>1. AllSame(containers, cs, p)
      BY <1>2, <2>4 DEF AllSame, Sharers
    <3>2. ps[p].used = pools[p].used
      BY <1>4, <1>5, <2>1, <2>4
    <3>3. SumFunction(Shares(containers, p)) = SumFunction(Shares(cs, p))
      BY <3>1, SharesOfSame
    <3> QED BY <3>2, <3>3 DEF Missing
  <2> QED BY <2>3, <2>4
<1> QED BY <1>3, <1>4, <1>6, <1>7 DEF Accounted

(* A reconciliation touches the usage of no pool, and pools that come with *)
(* the configuration are not in use.                                       *)
LEMMA ReconcileAccounts ==
  ASSUME IInv, phase = "idle", NEW ncfg,
         NEW ps, PoolsTyped(ps), DOMAIN ps = DOMAIN pools, NEW cs,
         Reconcile(ncfg, ps, cs)
  PROVE  Accounted(ps, cs, pools', cs)
<1>1. CASE pools' = ps
  BY <1>1 DEF Accounted
<1>2. ASSUME NEW visited, pools' = RestoredPools(PartlyPrepared(ncfg, ps, visited))
      PROVE  Accounted(ps, cs, pools', cs)
  BY <1>2, RestoredPoolsSame DEF Accounted, Missing
<1>3. CASE /\ ncfg \in Acceptable
           /\ pools' = ResetExclusive(Activate(PreparedPools(ncfg, ps)))
  <2>1. \A pool \in DOMAIN pools' :
          pools'[pool].used = IF pool \in DOMAIN ps THEN ps[pool].used ELSE 0
    BY <1>3, ActivatedPools
  <2> QED BY <2>1 DEF Accounted, Missing
<1> QED BY <1>1, <1>2, <1>3 DEF Reconcile, CanPrepare

(* What the accounts rely on.                                              *)
AInv ==
  /\ IInv
  /\ FinitelyMany(containers)
  /\ todo \subseteq ExclusiveIn(containers)

(* No step of the pool set changes what is missing from the usage of a     *)
(* pool that stays: the usage of a pool is off only from what containers   *)
(* had of a pool of that name before it was made.                          *)
LEMMA StepAccounts ==
  ASSUME AInv, [Next]_vars
  PROVE  AInv' /\ Accounted(pools, containers, pools', containers')
<1> DEFINE Good == AInv' /\ Accounted(pools, containers, pools', containers')
<1>1. /\ IInv /\ TypeOK /\ FinitelyMany(containers)
      /\ todo \subseteq ExclusiveIn(containers)
  BY DEF AInv, IInv
<1>2. IInv'
  BY <1>1, NextIInv
<1>3. ASSUME FinitelyMany(containers'), Accounted(pools, containers, pools', containers'),
             todo' \subseteq ExclusiveIn(containers')
      PROVE  Good
  BY <1>2, <1>3 DEF AInv, FinitelyMany
<1>4. phase = "idle" => todo = {}
  BY <1>1 DEF TypeOK
<1>5. ASSUME phase = "idle", NEW ncfg, NEW ps, PoolsTyped(ps), DOMAIN ps = DOMAIN pools,
             NEW cs, FinitelyMany(cs), Accounted(pools, containers, ps, cs),
             \A pool : Sharers(cs, pool) \subseteq Sharers(containers, pool),
             Reconcile(ncfg, ps, cs)
      PROVE  Good
  <2>1. containers' = cs /\ Accounted(ps, cs, pools', cs)
    BY <1>1, <1>5, ReconcileAccounts DEF Reconcile
  <2>2. Accounted(pools, containers, pools', cs)
    BY <1>5, <2>1 DEF Accounted
  <2>3. todo' = {} \/ todo' = ExclusiveIn(cs)
    BY <1>4, <1>5 DEF Reconcile
  <2> QED BY <1>3, <1>5, <2>1, <2>2, <2>3 DEF ExclusiveIn
<1>6. Accounted(pools, containers, pools, containers)
  BY DEF Accounted
<1>7. ASSUME NEW ncfg, Reconfigure(ncfg) PROVE Good
  <2>1. PoolsTyped(pools)
    BY <1>1 DEF TypeOK, PoolsTyped
  <2>2. phase = "idle" /\ Reconcile(ncfg, pools, containers)
    BY <1>7 DEF Reconfigure
  <2> QED BY <1>1, <1>5, <1>6, <2>1, <2>2
<1>8. ASSUME NEW id \in Container, ReleaseCPU(id) PROVE Good
  <2> DEFINE ps == ReleasedPools(containers[id])
             cs == Delete(containers, id)
  <2>1. phase = "idle" /\ id \in DOMAIN containers
    BY <1>8 DEF ReleaseCPU
  <2>2. /\ DOMAIN cs = DOMAIN containers \ {id}
        /\ \A i \in DOMAIN cs : cs[i] = containers[i]
    BY DEF Delete, Restrict
  <2>3. CASE containers[id].pool \in DOMAIN pools
    <3>1. Reconcile(pendingCfg, ps, cs)
      BY <1>8, <2>3 DEF ReleaseCPU
    <3>2. /\ PoolsTyped(ps) /\ DOMAIN ps = DOMAIN pools
          /\ FinitelyMany(cs) /\ Accounted(pools, containers, ps, cs)
      BY <1>1, <2>1, <2>3, ReleaseAccounts
    <3>3. \A pool : Sharers(cs, pool) \subseteq Sharers(containers, pool)
      BY <2>2 DEF Sharers
    <3> HIDE DEF ps, cs
    <3> QED BY <1>5, <2>1, <3>1, <3>2, <3>3
  <2>4. CASE containers[id].pool \notin DOMAIN pools
    <3>1. containers' = cs /\ UNCHANGED <<pools, todo>>
      BY <1>8, <2>4 DEF ReleaseCPU
    <3>2. FinitelyMany(cs)
      BY <1>1, <2>2, FS_Subset DEF FinitelyMany, ContainersTyped
    <3>3. ASSUME NEW pool \in DOMAIN pools
          PROVE  SumFunction(Shares(cs, pool)) = SumFunction(Shares(containers, pool))
      <4>1. AllSame(containers, cs, pool)
        BY <2>2, <2>4 DEF AllSame, Sharers
      <4> QED BY <4>1, SharesOfSame
    <3> QED BY <1>3, <1>4, <2>1, <3>1, <3>2, <3>3 DEF Accounted, Missing
  <2> QED BY <2>3, <2>4
<1>9. ASSUME NEW id \in Container, MayAllocate(id), NEW pool \in DOMAIN pools,
             NEW req \in Nat, TakeShare(id, pool, req), UNCHANGED todo
      PROVE  Good
  <2>1. id \notin DOMAIN containers /\ todo' = {}
    BY <1>4, <1>9 DEF MayAllocate
  <2>2. FinitelyMany(containers') /\ Accounted(pools, containers, pools', containers')
    BY <1>1, <1>9, <2>1, TakeShareAccounts
  <2> QED BY <1>3, <2>1, <2>2
<1>10. ASSUME NEW id \in Container, NEW pool, NEW count \in ExclusiveCounts,
              AllocateCPUs(id, pool, count)
       PROVE  Good
  <2>1. MayAllocate(id) /\ UNCHANGED todo
    BY <1>10 DEF AllocateCPUs
  <2>2. CASE pool = ReservedPool
    <3>1. 1000 * count \in Nat
      BY RequestAssumption
    <3> QED BY <1>9, <1>10, <2>1, <2>2, <3>1 DEF AllocateCPUs
  <2>3. CASE pool # ReservedPool
    <3>1. pool \in DOMAIN pools /\ TakeCPUs(id, pool, count)
      BY <1>10, <2>3 DEF AllocateCPUs, CanTakeCPUs
    <3>2. id \notin DOMAIN containers /\ todo' = {}
      BY <1>4, <2>1 DEF MayAllocate
    <3>3. FinitelyMany(containers') /\ Accounted(pools, containers, pools', containers')
      BY <1>1, <3>1, <3>2, TakeCPUsAccounts
    <3> QED BY <1>3, <3>2, <3>3
  <2> QED BY <2>2, <2>3
<1>11. ASSUME NEW id \in Container, NEW pool, NEW req \in SharedRequests,
              AllocateCPU(id, pool, req)
       PROVE  Good
  <2>1. /\ MayAllocate(id) /\ pool \in DOMAIN pools /\ req \in Nat
        /\ TakeShare(id, pool, req) /\ UNCHANGED todo
    BY <1>11, RequestAssumption DEF AllocateCPU
  <2> QED BY <1>9, <2>1
<1>12. ASSUME NEW id \in Container, Reallocate(id) PROVE Good
  <2> DEFINE c == containers[id]
  <2>1. CASE CanTakeCPUs(c.pool, Cardinality(c.cpus))
    <3>1. /\ c.pool \in DOMAIN pools /\ TakeCPUs(id, c.pool, Cardinality(c.cpus))
          /\ c.cpus # {} /\ todo' = todo \ {id}
      BY <1>1, <1>12, <2>1 DEF Reallocate, CanTakeCPUs, ExclusiveIn
    <3>2. FinitelyMany(containers') /\ Accounted(pools, containers, pools', containers')
      BY <1>1, <3>1, TakeCPUsAccounts
    <3>3. /\ \A i \in DOMAIN containers \ {id} : containers'[i] = containers[i]
          /\ DOMAIN containers \subseteq DOMAIN containers'
      BY <3>1 DEF TakeCPUs, Put
    <3>4. todo' \subseteq ExclusiveIn(containers')
      BY <1>1, <3>1, <3>3 DEF ExclusiveIn
    <3> QED BY <1>3, <3>2, <3>4
  <2>2. CASE ~CanTakeCPUs(c.pool, Cardinality(c.cpus))
    <3>1. todo' = {} /\ UNCHANGED <<pools, containers>>
      BY <1>12, <2>2 DEF Reallocate
    <3> QED BY <1>1, <1>3, <1>6, <3>1
  <2> QED BY <2>1, <2>2
<1>13. CASE FinishReconcile
  <2>1. todo' = todo /\ UNCHANGED <<pools, containers>>
    BY <1>13 DEF FinishReconcile
  <2> QED BY <1>1, <1>3, <1>6, <2>1 DEF ExclusiveIn
<1>14. CASE UNCHANGED vars
  BY <1>1, <1>3, <1>6, <1>14 DEF vars, ExclusiveIn
<1> QED BY <1>7, <1>8, <1>10, <1>11, <1>12, <1>13, <1>14 DEF Next

(* There is nothing to account for at first.                               *)
LEMMA InitAccounts == Init => AInv /\ DOMAIN pools = {}
BY InitIInv, FS_EmptySet DEF Init, AInv, FinitelyMany, ContainersTyped, ExclusiveIn

(* What nothing, or nothing negative, being missing means.                 *)
LEMMA MissingMeans ==
  ASSUME NEW ps, PoolsTyped(ps), NEW cs, FinitelyMany(cs), NEW pool \in DOMAIN ps
  PROVE  /\ Missing(ps, cs, pool) = 0 <=> ps[pool].used = SumFunction(Shares(cs, pool))
         /\ Missing(ps, cs, pool) >= 0 <=> ps[pool].used <= SumFunction(Shares(cs, pool))
<1>1. ps[pool].used \in Int
  BY DEF PoolsTyped, PoolRecord
<1>2. SumFunction(Shares(cs, pool)) \in Int
  BY SharesSummable
<1> QED BY <1>1, <1>2 DEF Missing

(* No pool is taken to be more in use than its sharers make it, whatever   *)
(* pools go and come back while containers have shares of them.  What is   *)
(* missing from the usage of a new pool is what its sharers asked for, and *)
(* from then on no step makes it more or less.                             *)
THEOREM UsageIsNeverAbove == Spec => []UsedNotAbove
<1> DEFINE I == AInv /\ UsedNotAbove
<1>1. Init => I
  BY InitAccounts DEF UsedNotAbove
<1>2. ASSUME I, [Next]_vars PROVE I'
  <2>1. AInv' /\ Accounted(pools, containers, pools', containers')
    BY <1>2, StepAccounts
  <2>2. /\ PoolsTyped(pools) /\ FinitelyMany(containers)
        /\ PoolsTyped(pools') /\ FinitelyMany(containers')
    BY <1>2, <2>1 DEF AInv, IInv, TypeOK, PoolsTyped, FinitelyMany
  <2>3. \A pool \in DOMAIN pools : pools[pool].used <= SumFunction(Shares(containers, pool))
    BY <1>2 DEF UsedNotAbove, Shares, Sharers
  <2>4. \A pool \in DOMAIN pools : Missing(pools, containers, pool) >= 0
    BY <2>2, <2>3, MissingMeans
  <2>5. ASSUME NEW pool \in DOMAIN pools'
        PROVE  pools'[pool].used <= SumFunction(Shares(containers', pool))
    <3>1. CASE pool \in DOMAIN pools
      <4>1. Missing(pools', containers', pool) >= 0
        BY <2>1, <2>4, <3>1 DEF Accounted
      <4> QED BY <2>2, <4>1, MissingMeans
    <3>2. CASE pool \notin DOMAIN pools
      <4>1. pools'[pool].used = 0
        BY <2>1, <3>2 DEF Accounted
      <4>2. SumFunction(Shares(containers', pool)) \in Nat
        BY <2>2, SharesSummable
      <4> QED BY <4>1, <4>2
    <3> QED BY <3>1, <3>2
  <2>6. UsedNotAbove'
    BY <2>5 DEF UsedNotAbove, Shares, Sharers
  <2> QED BY <2>1, <2>6
<1> QED BY <1>1, <1>2, PTL DEF Spec

(* Every container is in a pool that exists.  A pool that a configuration  *)
(* no longer names is still there, and is allocated from, until the next   *)
(* rejected configuration makes restoreConfig delete it, containers or no. *)
NoOrphans == \A id \in DOMAIN containers : containers[id].pool \in DOMAIN pools

(* As long as no container is in a pool that is gone, the usage of every   *)
(* pool is the sum of the requests of the containers that share it: a new  *)
(* pool has no sharers yet.                                                *)
THEOREM UsageIsSum == Spec /\ []NoOrphans => []UsedIsSum
<1> DEFINE I == AInv /\ UsedIsSum
<1>1. Init => I
  BY InitAccounts DEF UsedIsSum
<1>2. ASSUME I, NoOrphans, [Next]_vars PROVE I'
  <2>1. AInv' /\ Accounted(pools, containers, pools', containers')
    BY <1>2, StepAccounts
  <2>2. /\ PoolsTyped(pools) /\ FinitelyMany(containers)
        /\ PoolsTyped(pools') /\ FinitelyMany(containers')
    BY <1>2, <2>1 DEF AInv, IInv, TypeOK, PoolsTyped, FinitelyMany
  <2>3. \A pool \in DOMAIN pools : pools[pool].used = SumFunction(Shares(containers, pool))
    BY <1>2 DEF UsedIsSum, Shares, Sharers
  <2>4. \A pool \in DOMAIN pools : Missing(pools, containers, pool) = 0
    BY <2>2, <2>3, MissingMeans
  <2>5. ASSUME NEW pool \in DOMAIN pools'
        PROVE  pools'[pool].used = SumFunction(Shares(containers', pool))
    <3>1. CASE pool \in DOMAIN pools
      <4>1. Missing(pools', containers', pool) = 0
        BY <2>1, <2>4, <3>1 DEF Accounted
      <4> QED BY <2>2, <4>1, MissingMeans
    <3>2. CASE pool \notin DOMAIN pools
      <4>1. pools'[pool].used = 0 /\ Sharers(containers', pool) \subseteq Sharers(containers, pool)
        BY <2>1, <3>2 DEF Accounted
      <4>2. Sharers(containers', pool) = {}
        BY <1>2, <3>2, <4>1 DEF NoOrphans, Sharers
      <4>3. DOMAIN Shares(containers', pool) = {}
        BY <4>2 DEF Shares
      <4> QED BY <4>1, <4>3, SumEmpty
    <3> QED BY <3>1, <3>2
  <2>6. UsedIsSum'
    BY <2>5 DEF UsedIsSum, Shares, Sharers
  <2> QED BY <2>1, <2>6
<1> QED BY <1>1, <1>2, PTL DEF Spec

=============================================================================
