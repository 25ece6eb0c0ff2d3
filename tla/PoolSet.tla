------------------------------ MODULE PoolSet -------------------------------
(***************************************************************************)
(* The pool set of cmd/cpu-pool-policy/pool/pool.go: the pools of CPUs of  *)
(* a node, the containers they are allocated to, and the reconciliation of *)
(* a new configuration with both.                                          *)
(*                                                                         *)
(* The plugin calls AllocateCPUs, AllocateCPU, ReleaseCPU and Reconfigure  *)
(* under its mutex, so an operation is one action.  A reconciliation is    *)
(* several: it reallocates the containers one by one, in the random order  *)
(* of a Go map, and a failure on the way leaves the rest undone.  While it *)
(* runs (phase = "reallocate") the mutex is held and no operation starts.  *)
(* A call that returns an error before it changes anything is a stuttering *)
(* step and has no action.                                                 *)
(*                                                                         *)
(* CPUs come from the allocator of pkg/cpuallocator: its contract is in    *)
(* module Allocation, its algorithm in module CpuAllocator.                *)
(***************************************************************************)
EXTENDS NodeConfig, Allocation

CONSTANTS
  Container,         \* container ids
  NodeConfigs,       \* parsed configurations the node may be given
  ExclusiveCounts,   \* numbers of CPUs containers ask for exclusively
  SharedRequests,    \* milliCPUs containers ask for from the shared set
  HwMayFail          \* may the write of a CPU's online file fail?

ASSUME NodeConfigsAssumption ==
  \A ncfg \in NodeConfigs :
    /\ {ReservedPool, DefaultPool} \subseteq DOMAIN ncfg
    /\ \A pool \in DOMAIN ncfg : ncfg[pool] \in Config
    /\ ncfg # Nil
    /\ ~PreparePanics(ncfg)

ASSUME RequestAssumption ==
  ExclusiveCounts \subseteq Nat \ {0} /\ SharedRequests \subseteq Nat

ASSUME HwMayFailAssumption == HwMayFail \in BOOLEAN

VARIABLES
  pools,         \* PoolSet.pools: pool name -> Pool
  containers,    \* PoolSet.containers: container id -> Container
  currentCfg,    \* PoolSet.currentCfg, Nil before the first configuration
  pendingCfg,    \* PoolSet.pendingCfg, or Nil
  offlined,      \* PoolSet.offlined: CPUs to be taken offline
  online,        \* the hardware: CPUs whose online file reads 1
  stale,         \* CPUs offline when the allocator first looked, Nil until then
  phase,         \* "idle", or "reallocate" while a reconciliation runs
  todo,          \* containers updateAllocations has yet to reallocate
  reallocFailed  \* has an error of updateAllocations been dropped so far?

vars == <<pools, containers, currentCfg, pendingCfg, offlined, online, stale,
          phase, todo, reallocFailed>>

-----------------------------------------------------------------------------
(* Types.  Of the Config of a pool only the CPUs matter after preparation. *)

PoolName == UNION {DOMAIN ncfg : ncfg \in NodeConfigs}

(* What module NodeConfig makes of each configuration.                     *)
Acceptable == {ncfg \in NodeConfigs : PrepareOk(ncfg)}
CpusOf     == [ncfg \in NodeConfigs |-> PoolCpus(ncfg)]
OfflinedOf == [ncfg \in {c \in NodeConfigs : PoolsOk(c)} |-> OfflinedCpus(ncfg)]

PoolRecord      == [shared: SUBSET CPU, pinned: SUBSET CPU, used: Int, cfg: SUBSET CPU]
ContainerRecord == [pool: PoolName, cpus: SUBSET CPU, req: Nat]

TypeOK ==
  /\ DOMAIN pools \subseteq PoolName
  /\ \A pool \in DOMAIN pools : pools[pool] \in PoolRecord
  /\ DOMAIN containers \subseteq Container
  /\ \A id \in DOMAIN containers : containers[id] \in ContainerRecord
  /\ currentCfg \in {Nil} \cup Acceptable
  /\ pendingCfg \in {Nil} \cup NodeConfigs
  /\ offlined \subseteq CPU
  /\ online \subseteq CPU
  /\ stale \in {Nil} \cup SUBSET CPU
  /\ phase \in {"idle", "reallocate"}
  /\ phase = "idle" => todo = {}
  /\ phase = "reallocate" => pendingCfg \in Acceptable
  /\ todo \subseteq DOMAIN containers
  /\ reallocFailed \in BOOLEAN

(* Writing and deleting an entry of a map. *)
Put(map, key, value) == [k \in DOMAIN map \cup {key} |-> IF k = key THEN value ELSE map[k]]
Delete(map, key)     == Restrict(map, DOMAIN map \ {key})

-----------------------------------------------------------------------------
(* The hardware: module Sysfs shows that an update has no other outcomes.  *)

HwOutcomes(before, down) ==
  {CPU \ (down \ {0})} \cup (IF HwMayFail THEN PartlyUpdated(CPU, before, down) ELSE {})

-----------------------------------------------------------------------------
(* A pool as prepareConfig creates it. *)
NewPool(cset) == [shared |-> cset, pinned |-> {}, used |-> 0, cfg |-> cset]

(* NewPoolSet: the plugin creates the pool set without a configuration.    *)
(* Every core has a thread online (CPU 0 always is): the allocator panics  *)
(* on a core that is offline altogether, see CpuAllocator.                 *)
Init ==
  /\ pools = [pool \in {} |-> Nil]
  /\ containers = [id \in {} |-> Nil]
  /\ currentCfg = Nil
  /\ pendingCfg = Nil
  /\ offlined = {}
  /\ online \in SUBSET CPU
  /\ 0 \in online /\ \A k \in CPU : ThreadSet[k] \cap online # {}
  /\ stale = Nil
  /\ phase = "idle"
  /\ todo = {}
  /\ reallocFailed = FALSE

-----------------------------------------------------------------------------
(* Reconfiguration *)

Busy(p) == p.used # 0 \/ p.pinned # {}

(* prepareConfig accepts the configuration: the pools it removes are idle. *)
CanPrepare(ncfg, ps) ==
  ncfg \in Acceptable /\ \A pool \in DOMAIN ps \ DOMAIN ncfg : ~Busy(ps[pool])

(* The pools when prepareConfig has visited some of the pools of the       *)
(* configuration, and when it has visited all.  A pool the configuration   *)
(* no longer names keeps the Config it has.                                *)
PartlyPrepared(ncfg, ps, visited) ==
  [pool \in DOMAIN ps \cup visited |->
     IF pool \notin visited THEN ps[pool]
     ELSE IF pool \in DOMAIN ps THEN [ps[pool] EXCEPT !.cfg = CpusOf[ncfg][pool]]
     ELSE NewPool(CpusOf[ncfg][pool])]

PreparedPools(ncfg, ps) == PartlyPrepared(ncfg, ps, DOMAIN ncfg)

(* The pools after restoreConfig: the ones of the current configuration.   *)
(* Two mistakes: the Configs are left as they are, or the pools are new.   *)
ConfiguredPools == IF currentCfg = Nil THEN {} ELSE DOMAIN currentCfg

RestoredPoolsKeepConfig(ps) == Restrict(ps, ConfiguredPools)
RestoredPoolsAnew(ps) == [pool \in ConfiguredPools |-> NewPool(CpusOf[currentCfg][pool])]

RestoredPools(ps) ==
  [pool \in ConfiguredPools |-> [ps[pool] EXCEPT !.cfg = CpusOf[currentCfg][pool]]]

(* Taking the prepared configuration in use: pools without a Config are    *)
(* purged, the others share the CPUs of their Config that are not pinned.  *)
Activate(ps) ==
  LET configured == {pool \in DOMAIN ps : ps[pool].cfg # Nil} IN
  [pool \in configured |-> [ps[pool] EXCEPT !.shared = ps[pool].cfg \ ps[pool].pinned]]

(* The first loop of updateAllocations.                                    *)
ResetExclusive(ps) ==
  [pool \in DOMAIN ps |-> [ps[pool] EXCEPT !.shared = @ \cup ps[pool].pinned, !.pinned = {}]]

ExclusiveIn(cs) == {id \in DOMAIN cs : cs[id].cpus # {}}

(* reconcileConfig, up to the first container it reallocates, in a state   *)
(* with pools ps, containers cs and the pending configuration ncfg.        *)
Reconcile(ncfg, ps, cs) ==
  /\ containers' = cs
  /\ pendingCfg' = ncfg
  /\ offlined' = IF ncfg \in DOMAIN OfflinedOf THEN OfflinedOf[ncfg] ELSE offlined
  /\ \/ ncfg = Nil /\ pools' = ps /\ UNCHANGED <<phase, todo>>
     \/ /\ ncfg # Nil /\ CanPrepare(ncfg, ps)
        /\ pools' = ResetExclusive(Activate(PreparedPools(ncfg, ps)))
        /\ phase' = "reallocate"
        /\ todo' = ExclusiveIn(cs)
     \/ /\ ncfg # Nil /\ ~CanPrepare(ncfg, ps)
        /\ \E visited \in SUBSET DOMAIN ncfg :
              pools' = RestoredPools(PartlyPrepared(ncfg, ps, visited))
        /\ UNCHANGED <<phase, todo>>
  /\ UNCHANGED <<currentCfg, online, stale, reallocFailed>>

Reconfigure(ncfg) ==
  /\ phase = "idle"
  /\ Reconcile(ncfg, pools, containers)

-----------------------------------------------------------------------------
(* Allocation *)

AllowedPool(pool) == pool \notin {IgnoredPool, OfflinePool}

(* The CPUs the allocator believes to be offline.  It looks only once, and *)
(* only when it has a choice to make.                                      *)
BelievedOffline == IF stale = Nil THEN CPU \ online ELSE stale

(* Taking count CPUs from a set.  Two mistakes: the CPUs taken stay in the *)
(* set, or the last one is never taken.                                    *)
AllocatorOutcomesKept(from, count) ==
  {[got |-> S, rest |-> from] : S \in kSubset(count, from)}
AllocatorOutcomesShort(from, count) ==
  {[got |-> S, rest |-> from \ S] : S \in kSubset(count - 1, from)}

AllocatorOutcomes(from, count) == AllocationOutcomes(BelievedOffline, from, count)

CanTakeCPUs(pool, count) ==
  /\ AllowedPool(pool)
  /\ pool \in DOMAIN pools
  /\ Cardinality(pools[pool].shared) >= count

(* AllocateCPUs from a pool other than reserved, once nothing fails.       *)
TakeCPUs(id, pool, count) ==
  LET from == pools[pool].shared IN
  /\ \E a \in AllocatorOutcomes(from, count) :
       /\ pools' = [pools EXCEPT ![pool].shared = a.rest, ![pool].pinned = @ \cup a.got]
       /\ containers' = Put(containers, id, [pool |-> pool, cpus |-> a.got,
                                             req |-> 1000 * Cardinality(a.got)])
  /\ stale' = IF Cardinality(from) > count THEN BelievedOffline ELSE stale

(* AllocateCPU, once nothing fails.                                        *)
TakeShare(id, pool, req) ==
  /\ pools' = [pools EXCEPT ![pool].used = @ + req]
  /\ containers' = Put(containers, id, [pool |-> pool, cpus |-> {}, req |-> req])
  /\ UNCHANGED stale

(* The plugin allocates for a container only if it has no allocation yet.  *)
MayAllocate(id) == phase = "idle" /\ id \notin DOMAIN containers

AllocateCPUs(id, pool, count) ==
  /\ MayAllocate(id)
  /\ IF pool = ReservedPool
       THEN pool \in DOMAIN pools /\ TakeShare(id, pool, 1000 * count)
       ELSE CanTakeCPUs(pool, count) /\ TakeCPUs(id, pool, count)
  /\ UNCHANGED <<currentCfg, pendingCfg, offlined, online, phase, todo, reallocFailed>>

AllocateCPU(id, pool, req) ==
  /\ MayAllocate(id)
  /\ AllowedPool(pool)
  /\ pool \in DOMAIN pools
  /\ TakeShare(id, pool, req)
  /\ UNCHANGED <<currentCfg, pendingCfg, offlined, online, phase, todo, reallocFailed>>

(* What the pools are once a container has given back what it had.  Three  *)
(* mistakes: the share is not given back, or the CPUs are not shared       *)
(* again, or they stay pinned.                                             *)
ReleasedPoolsCpusOnly(c) ==
  [pools EXCEPT ![c.pool].shared = @ \cup c.cpus, ![c.pool].pinned = @ \ c.cpus]
ReleasedPoolsUnshared(c) ==
  [pools EXCEPT ![c.pool].used = IF c.cpus = {} THEN @ - c.req ELSE @, ![c.pool].pinned = @ \ c.cpus]
ReleasedPoolsPinned(c) ==
  [pools EXCEPT ![c.pool].used = IF c.cpus = {} THEN @ - c.req ELSE @, ![c.pool].shared = @ \cup c.cpus]

ReleasedPools(c) ==
  IF c.cpus = {}
    THEN [pools EXCEPT ![c.pool].used = @ - c.req]
    ELSE [pools EXCEPT ![c.pool].shared = @ \cup c.cpus, ![c.pool].pinned = @ \ c.cpus]

(* A release retries a configuration that is still pending, unless the     *)
(* pool of the container is gone.                                          *)
ReleaseCPU(id) ==
  /\ phase = "idle"
  /\ id \in DOMAIN containers
  /\ LET c == containers[id] IN
     IF c.pool \in DOMAIN pools
       THEN Reconcile(pendingCfg, ReleasedPools(c), Delete(containers, id))
       ELSE /\ containers' = Delete(containers, id)
            /\ UNCHANGED <<pools, currentCfg, pendingCfg, offlined, online, stale,
                           phase, todo, reallocFailed>>

-----------------------------------------------------------------------------
(* The rest of a reconciliation *)

(* One round of the second loop of updateAllocations.  The first error     *)
(* ends the loop, and reconcileConfig does not look at it.  A mistake: the *)
(* same container comes up again.                                          *)
ReallocateAgain(id) ==
  /\ phase = "reallocate"
  /\ id \in todo
  /\ CanTakeCPUs(containers[id].pool, Cardinality(containers[id].cpus))
  /\ TakeCPUs(id, containers[id].pool, Cardinality(containers[id].cpus))
  /\ UNCHANGED <<currentCfg, pendingCfg, offlined, online, phase, todo, reallocFailed>>

Reallocate(id) ==
  LET c == containers[id] IN
  /\ phase = "reallocate"
  /\ id \in todo
  /\ IF CanTakeCPUs(c.pool, Cardinality(c.cpus))
       THEN /\ TakeCPUs(id, c.pool, Cardinality(c.cpus))
            /\ todo' = todo \ {id}
            /\ UNCHANGED reallocFailed
       ELSE /\ todo' = {}
            /\ reallocFailed' = TRUE
            /\ UNCHANGED <<pools, containers, stale>>
  /\ UNCHANGED <<currentCfg, pendingCfg, offlined, online, phase>>

(* updateHwConfiguration, and the pending configuration becomes current,   *)
(* whether or not the hardware followed.  A mistake: the loop over the     *)
(* containers is left early.                                               *)
FinishReconcileEarly ==
  /\ phase = "reallocate"
  /\ online' \in HwOutcomes(online, offlined)
  /\ currentCfg' = pendingCfg
  /\ pendingCfg' = Nil
  /\ phase' = "idle"
  /\ UNCHANGED <<pools, containers, offlined, stale, todo, reallocFailed>>

FinishReconcile ==
  /\ phase = "reallocate"
  /\ todo = {}
  /\ online' \in HwOutcomes(online, offlined)
  /\ currentCfg' = pendingCfg
  /\ pendingCfg' = Nil
  /\ phase' = "idle"
  /\ UNCHANGED <<pools, containers, offlined, stale, todo, reallocFailed>>

Next ==
  \/ \E ncfg \in NodeConfigs : Reconfigure(ncfg)
  \/ \E id \in Container, pool \in PoolName, count \in ExclusiveCounts :
        AllocateCPUs(id, pool, count)
  \/ \E id \in Container, pool \in PoolName, req \in SharedRequests :
        AllocateCPU(id, pool, req)
  \/ \E id \in Container : ReleaseCPU(id)
  \/ \E id \in Container : Reallocate(id)
  \/ FinishReconcile

(* Once started, a reconciliation runs to its end in the thread that holds *)
(* the mutex; operations come when the kubelet or the watcher calls.       *)
ReconcileStep == (\E id \in Container : Reallocate(id)) \/ FinishReconcile

Spec == Init /\ [][Next]_vars /\ WF_vars(ReconcileStep)

-----------------------------------------------------------------------------
(* What the plugin tells the kubelet of a container                        *)

GetContainerCPUSet(id) ==
  LET c == containers[id] IN
  CASE c.cpus # {} -> c.cpus
    [] c.cpus = {} /\ c.pool \in {ReservedPool, DefaultPool} ->
         pools[ReservedPool].shared \cup pools[DefaultPool].shared
    [] OTHER -> pools[c.pool].shared

-----------------------------------------------------------------------------
(* Safety                                                                  *)

(* No CPU of a pool is shared and exclusively allocated at the same time   *)
(* (the fields of Pool, pool.go:82-84), whatever has failed before.        *)
SharedPinnedDisjoint ==
  \A pool \in DOMAIN pools : pools[pool].shared \cap pools[pool].pinned = {}

(* Every exclusively allocated CPU is accounted for by a container of that *)
(* pool which releasing it will give back: none is lost to the pool.  This *)
(* holds in the middle of a reallocation too.                              *)
PinnedOwned ==
  \A pool \in DOMAIN pools : \A k \in pools[pool].pinned :
     \E id \in DOMAIN containers \ todo : containers[id].pool = pool /\ k \in containers[id].cpus

(* As long as updateAllocations has not failed: the CPUs of a container    *)
(* (one that is not about to be reallocated) are pinned in its pool, and   *)
(* no other container of the pool has any of them.                         *)
Settled == ExclusiveIn(containers) \ todo

ExclusivePinned ==
  ~reallocFailed =>
    /\ \A id \in Settled :
          containers[id].pool \in DOMAIN pools =>
             containers[id].cpus \subseteq pools[containers[id].pool].pinned
    /\ \A i, j \in Settled :
          i # j /\ containers[i].pool = containers[j].pool
             /\ containers[i].pool \in DOMAIN pools =>
             containers[i].cpus \cap containers[j].cpus = {}

(* Between operations the pools named by the current configuration exist   *)
(* and have the Configs of that configuration: a rejected configuration,   *)
(* which prepareConfig has partly written into the pools, leaves no trace  *)
(* (restoreConfig, pool.go:262-281, which itself fails if a pool is gone). *)
(* While containers are reallocated it is the pending one that is in force.*)
InForce(ncfg) ==
  \A pool \in DOMAIN ncfg : pool \in DOMAIN pools /\ pools[pool].cfg = CpusOf[ncfg][pool]

ConfigInForce ==
  /\ phase = "idle" /\ currentCfg = Nil => DOMAIN pools = {}
  /\ phase = "idle" /\ currentCfg # Nil => InForce(currentCfg)
  /\ phase = "reallocate" => InForce(pendingCfg)

(* The usage of a pool is the sum of the requests of the containers that   *)
(* share it (Pool.used, pool.go:84), as long as no container is in a pool  *)
(* that is gone.                                                           *)
UsedIsSum ==
  \A pool \in DOMAIN pools :
    pools[pool].used =
      SumFunction([id \in {i \in DOMAIN containers :
                             containers[i].pool = pool /\ containers[i].cpus = {}}
                     |-> containers[id].req])

(* It is never more than that sum, even when pools go and come back while  *)
(* containers have shares of them: restoreConfig (pool.go:274) deletes a   *)
(* pool with its usage, a later configuration that names it again makes a  *)
(* new one with none, and what the containers from before give back then   *)
(* (612) comes off that: the counter may fall short, and below 0, but no   *)
(* pool is ever taken to be more in use than it is.                        *)
UsedNotAbove ==
  \A pool \in DOMAIN pools :
    pools[pool].used <=
      SumFunction([id \in {i \in DOMAIN containers :
                             containers[i].pool = pool /\ containers[i].cpus = {}}
                     |-> containers[id].req])

(* Nothing has gone wrong that the properties below are known not to       *)
(* survive: a dropped reallocation error, a pool that lingers without a    *)
(* configuration, a pool with CPUs its configuration does not give it.     *)
Intact ==
  /\ ~reallocFailed
  /\ DOMAIN pools = ConfiguredPools
  /\ \A pool \in DOMAIN pools : pools[pool].shared \cup pools[pool].pinned \subseteq pools[pool].cfg
  /\ \A id \in DOMAIN containers : containers[id].pool \in DOMAIN pools

(* In an intact pool set no container, of any pool, is told to run on a    *)
(* CPU that another one has exclusively.                                   *)
ExclusiveIsExclusive ==
  phase = "idle" /\ Intact =>
    \A i \in ExclusiveIn(containers) : \A j \in DOMAIN containers \ {i} :
       GetContainerCPUSet(i) \cap GetContainerCPUSet(j) = {}

-----------------------------------------------------------------------------
(* Action properties                                                       *)

(* Allocating and releasing move CPUs between the shared and the exclusive *)
(* set of a pool and neither add nor lose any, as long as the pool set is  *)
(* intact and the allocator knows of no offline CPU.                       *)
CapacityKept ==
  [][phase = "idle" /\ phase' = "idle" /\ Intact /\ BelievedOffline = {} =>
       \A pool \in DOMAIN pools \cap DOMAIN pools' :
          pools'[pool].shared \cup pools'[pool].pinned = pools[pool].shared \cup pools[pool].pinned]_vars

(* A reallocated container gets as many CPUs as it had, when the allocator *)
(* knows of no offline CPU.                                                *)
ReallocationKeepsCount ==
  [][\A id \in todo \ todo' :
       ~reallocFailed' /\ BelievedOffline = {} =>
          Cardinality(containers'[id].cpus) = Cardinality(containers[id].cpus)]_vars

-----------------------------------------------------------------------------
(* Liveness                                                                *)

(* A reconciliation ends, and the mutex is free again.                     *)
ReconcileEnds == phase = "reallocate" ~> phase = "idle"

-----------------------------------------------------------------------------
(* Refinement                                                              *)

(* A container holds the CPUs it has in a pool that exists, unless it is   *)
(* to be reallocated; then it is owed as many.                             *)
Holders == {id \in Settled : containers[id].pool \in DOMAIN pools}

Held ==
  [id \in IF reallocFailed THEN {} ELSE Holders |->
     [pool |-> containers[id].pool, cpus |-> containers[id].cpus]]

Owed ==
  [id \in IF reallocFailed THEN {} ELSE todo |->
     [pool |-> containers[id].pool, count |-> Cardinality(containers[id].cpus)]]

Promise == INSTANCE ExclusiveCpus
  WITH Pool <- PoolName, held <- Held, owed <- Owed, broken <- reallocFailed

(* The pool set keeps the promise of ExclusiveCpus: of all that requests,  *)
(* releases, accepted and rejected configurations do to the CPU sets and   *)
(* the containers, nothing takes a CPU from its holder, or gives it to two *)
(* of a pool, but a release, a pool that goes or a reallocation, which     *)
(* forgets nobody.                                                         *)
KeepsPromise == Promise!Spec

=============================================================================
