---------------------------- MODULE MetricsProofs ----------------------------
(***************************************************************************)
(* The safety of the metrics, for any number of CPUs, containers, edits,   *)
(* faults and mishaps.  MInv is what every step preserves: the plugin      *)
(* keeps PInv, the cache and the object hold numbers (Recorded), and once  *)
(* Start has configured the pools (Answered) there is a copy of the object *)
(* and nothing cached that was not measured (OnlyOurs).                    *)
(***************************************************************************)
EXTENDS Metrics, PoolPolicyProofs

Holds(f) == DOMAIN f \subseteq PoolName \cup DOMAIN Foreign /\ f \in [DOMAIN f -> Numbers]

Recorded ==
  /\ metric \in {"none", "nil", "current", "outdated"}
  /\ Holds(cache)
  /\ measured \subseteq DOMAIN cache
  /\ server = Nil \/ Holds(server)
  /\ metric = "current" => server # Nil
  /\ metric = "none" <=> process # "up"

(* Start has configured the pools; RemoveContainer may reconcile again.    *)
Answered == process = "up" /\ (pc["request"] \in {"idle", "finish"} \/ removing # Nil)

OnlyOurs == Answered => metric # "nil" /\ DOMAIN cache \subseteq measured
Followed == metric = "current" /\ ~lagging => server = cache

MInv == PInv /\ Recorded /\ CacheCurrent /\ OnlyOurs /\ Followed

-----------------------------------------------------------------------------
(* What is cached                                                          *)

(* A cache is not mistaken for a missing object.                           *)
LEMMA HeldIsThere == \A f : Holds(f) => f # Nil
BY ForeignAssumption DEF Holds

LEMMA EmptyHolds == Holds(EmptyMap) /\ Holds(Foreign)
BY ForeignAssumption DEF Holds, EmptyMap

(* The numbers of a pool are numbers.                                      *)
LEMMA NumbersTyped == \A p \in PoolRecord : NumbersOf(p) \in Numbers
<1> SUFFICES ASSUME NEW p \in PoolRecord PROVE NumbersOf(p) \in Numbers
  OBVIOUS
<1>1. p.shared \in SUBSET CPU /\ p.pinned \in SUBSET CPU /\ p.used \in Int
  BY DEF PoolRecord
<1>2. Cardinality(p.shared) \in Nat /\ Cardinality(p.pinned) \in Nat
  BY <1>1, CPUAssumption, FS_Subset, FS_CardinalityType
<1>3. /\ 1000 * (Cardinality(p.shared) + Cardinality(p.pinned)) \in Nat
      /\ 1000 * Cardinality(p.pinned) + p.used \in Int
  BY <1>1, <1>2
<1> QED BY <1>1, <1>3 DEF NumbersOf, Numbers

(* They depend on the CPUs and the usage of the pool.                      *)
LEMMA NumbersSame ==
  \A p, q : p.shared = q.shared /\ p.pinned = q.pinned /\ p.used = q.used =>
               NumbersOf(p) = NumbersOf(q)
BY DEF NumbersOf

(* The cache f has the numbers of the pools ps.                            *)
Numbered(f, ps) == \A pool \in Metered(ps) : pool \in DOMAIN f /\ f[pool] = NumbersOf(ps[pool])

(* UpdatePool replaces the numbers of one pool, which suffices when the    *)
(* other pools have not changed.                                           *)
LEMMA UpdatedPoolHolds ==
  ASSUME Recorded, NEW ps, PoolsTyped(ps), NEW pool, UpdatePool(pool, ps)
  PROVE  /\ Holds(cache')
         /\ measured' \subseteq DOMAIN cache'
         /\ DOMAIN cache \subseteq measured => DOMAIN cache' \subseteq measured'
<1>1. CASE pool \in Metered(ps)
  <2> DEFINE n == NumbersOf(ps[pool])
  <2>1. n \in Numbers /\ pool \in PoolName
    BY <1>1, NumbersTyped DEF PoolsTyped, Metered
  <2>2. cache' = Put(cache, pool, n) /\ measured' = measured \cup {pool}
    BY <1>1 DEF UpdatePool
  <2> HIDE DEF n, Numbers
  <2> QED BY <2>1, <2>2 DEF Put, Holds, Recorded
<1>2. CASE pool \notin Metered(ps)
  BY <1>2 DEF UpdatePool, Recorded
<1> QED BY <1>1, <1>2

LEMMA UpdateNumbers ==
  ASSUME Numbered(cache, pools), NEW ps, NEW pool, UpdatePool(pool, ps),
         DOMAIN ps = DOMAIN pools, \A p \in DOMAIN pools \ {pool} : ps[p] = pools[p]
  PROVE  Numbered(cache', ps)
<1> DEFINE n == NumbersOf(ps[pool])
<1>1. \A p \in Metered(ps) \ {pool} : p \in DOMAIN cache /\ cache[p] = NumbersOf(ps[p])
  BY DEF Numbered, Metered
<1>2. CASE pool \in Metered(ps)
  <2>1. cache' = Put(cache, pool, n)
    BY <1>2 DEF UpdatePool
  <2>2. /\ pool \in DOMAIN cache' /\ cache'[pool] = n
        /\ \A p \in DOMAIN cache \ {pool} : p \in DOMAIN cache' /\ cache'[p] = cache[p]
    BY <2>1 DEF Put
  <2> QED BY <1>1, <2>2 DEF Numbered
<1>3. CASE pool \notin Metered(ps)
  BY <1>1, <1>3 DEF UpdatePool, Numbered
<1> QED BY <1>2, <1>3

(* DeleteAllPools, then UpdatePool for all pools.                          *)
LEMMA UpdatedAllHolds ==
  ASSUME NEW ps, PoolsTyped(ps), UpdateAll(ps)
  PROVE  Holds(cache') /\ DOMAIN cache' = measured' /\ Numbered(cache', ps)
<1>1. \A pool \in DOMAIN ps : NumbersOf(ps[pool]) \in Numbers
  BY NumbersTyped DEF PoolsTyped
<1> QED BY <1>1 DEF UpdateAll, Holds, PoolsTyped, Metered, Numbered

(* A container that is released leaves its pool a pool.                    *)
LEMMA ReleasedTyped ==
  ASSUME TypeOK, NEW id \in DOMAIN containers, containers[id].pool \in DOMAIN pools,
         NEW ps, ps = ReleasedPools(containers[id])
  PROVE  /\ PoolsTyped(ps) /\ DOMAIN ps = DOMAIN pools
         /\ \A pool \in DOMAIN pools \ {containers[id].pool} : ps[pool] = pools[pool]
<1> DEFINE c == containers[id]
<1>1. c \in ContainerRecord /\ PoolsTyped(pools) /\ pools[c.pool] \in PoolRecord
  BY DEF TypeOK, PoolsTyped
<1>2. CASE c.cpus = {}
  <2>1. ps = [pools EXCEPT ![c.pool].used = @ - c.req]
    BY <1>2 DEF ReleasedPools
  <2>2. ps[c.pool] \in PoolRecord
    <3>1. ps[c.pool] = [pools[c.pool] EXCEPT !.used = @ - c.req]
      BY <2>1
    <3> QED BY <1>1, <3>1 DEF PoolRecord, ContainerRecord
  <2> QED BY <1>1, <2>1, <2>2 DEF PoolsTyped
<1>3. CASE c.cpus # {}
  <2>1. ps = [pools EXCEPT ![c.pool].shared = @ \cup c.cpus, ![c.pool].pinned = @ \ c.cpus]
    BY <1>3 DEF ReleasedPools
  <2> QED BY <1>1, <2>1 DEF PoolsTyped, PoolRecord, ContainerRecord
<1> QED BY <1>2, <1>3

(* A configuration that is rejected takes pools away and changes none that *)
(* it leaves.                                                              *)
LEMMA RejectedNumbers ==
  ASSUME IInv, phase = "idle", phase' = "idle", NEW ncfg, NEW cs,
         NEW ps, PoolsTyped(ps), DOMAIN ps = DOMAIN pools, Reconcile(ncfg, ps, cs),
         NEW f, Numbered(f, ps)
  PROVE  Numbered(f, pools')
<1>1. CASE pools' = ps
  BY <1>1
<1>2. ASSUME NEW visited, pools' = RestoredPools(PartlyPrepared(ncfg, ps, visited))
      PROVE  Numbered(f, pools')
  <2>1. /\ DOMAIN pools' \subseteq DOMAIN ps
        /\ \A pool \in DOMAIN pools' : /\ pools'[pool].shared = ps[pool].shared
                                       /\ pools'[pool].pinned = ps[pool].pinned
                                       /\ pools'[pool].used = ps[pool].used
    BY <1>2, RestoredPoolsSame
  <2> QED BY <2>1, NumbersSame DEF Numbered, Metered
<1> QED BY <1>1, <1>2 DEF Reconcile

-----------------------------------------------------------------------------
(* The steps                                                               *)

(* Each is a step of the plugin, or its end, or leaves it alone.           *)
LEMMA StepsOfPolicy ==
  ASSUME [NextMetrics]_meteredVars
  PROVE  [NextPolicy]_allVars \/ Exit
<1>1. CASE ForeignChange \/ UNCHANGED meteredVars
  BY <1>1 DEF ForeignChange, meteredVars
<1>2. CASE MetricsStart \/ MetricsReconcileDone \/ Unpublished
  BY <1>2 DEF MetricsStart, MetricsReconcileDone, Unpublished, NextPolicy
<1>3. CASE Panic
  BY <1>3 DEF Panic
<1>4. ASSUME NEW id \in Container, MetricsReleaseLingering(id) \/ MetricsReallocate(id)
      PROVE  ReleaseLingering \/ ReconcileContainer
  BY <1>4 DEF MetricsReleaseLingering, MetricsReallocate, ReleaseLingering, ReconcileContainer
<1>5. ASSUME NEW id \in Container, NEW r \in Requests,
             MetricsRemoveContainer(id) \/ MetricsAddContainer(id, r)
      PROVE  RemoveContainer(id) \/ AddContainer(id, r)
  BY <1>5 DEF MetricsRemoveContainer, MetricsAddContainer
<1>6. ASSUME NEW id \in Container, MetricsRemoveContainer(id) PROVE RemoveContainer(id)
  BY <1>6 DEF MetricsRemoveContainer
<1> QED BY <1>1, <1>2, <1>3, <1>4, <1>5, <1>6 DEF NextMetrics, NextPolicy

LEMMA PolicyStaysSafe ==
  ASSUME MInv, [NextMetrics]_meteredVars
  PROVE  PInv'
BY StepsOfPolicy, NextPInv, ExitPInv DEF MInv

(* Only the end of a reconciliation makes a Start answered.                *)
LEMMA AnsweredBefore ==
  ASSUME PInv, [NextMetrics]_meteredVars, ~MetricsReconcileDone, Answered'
  PROVE  Answered /\ ~MetricsStart /\ ~Panic /\ ~(\E id : MetricsReleaseLingering(id))
<1> USE DEF PInv
<1>1. ASSUME Exit PROVE FALSE
  BY <1>1 DEF Exit, Answered
<1>2. ~MetricsStart /\ ~Panic /\ ~(\E id : MetricsReleaseLingering(id))
  <2>1. ASSUME Start PROVE FALSE
    BY <2>1 DEF Start, Goto, Answered, Threads, Thread
  <2>2. ASSUME NEW id, MetricsReleaseLingering(id) PROVE FALSE
    BY <2>2 DEF MetricsReleaseLingering, policyVars, Answered, Threads
  <2> QED BY <1>1, <2>1, <2>2 DEF MetricsStart, Panic
<1>3. ASSUME UNCHANGED policyVars PROVE Answered
  BY <1>3 DEF policyVars, Answered
<1>4. ASSUME ForeignChange \/ UNCHANGED meteredVars PROVE Answered
  BY <1>4 DEF ForeignChange, meteredVars, allVars, policyVars, Answered
<1>5. ASSUME NEW id, MetricsReallocate(id) PROVE Answered
  BY <1>3, <1>5 DEF MetricsReallocate
<1>6. ASSUME NEW id, RemoveContainer(id) \/ \E r : AddContainer(id, r) PROVE Answered
  BY <1>6 DEF RemoveContainer, AddContainer, Serving, Answered
<1>7. ASSUME Unpublished PROVE Answered
  <2>1. CASE EditFile
    BY <2>1 DEF EditFile, vars, configVars, faultVars, Answered
  <2>2. CASE Launch \/ Crash
    BY <2>2 DEF Launch, Crash, Answered
  <2>3. CASE RestoreState
    BY <2>3 DEF RestoreState, Goto, Answered, Threads, Thread
  <2>4. CASE FinishStart \/ FinishRemove
    BY <2>4 DEF FinishStart, FinishRemove, vars, watchVars, configVars, Answered
  <2>5. ASSUME NEW t \in Thread, ReadConfig(t) PROVE Answered
    <3>1. process' = process /\ removing' = removing
      BY <1>1, <2>5 DEF ReadConfig
    <3>2. pc' = pc \/ pc' = [pc EXCEPT ![t] = "store"]
      BY <1>1, <2>5 DEF ReadConfig, Goto
    <3> QED BY <3>1, <3>2 DEF Answered, Threads, Thread
  <2>6. ASSUME NEW t \in Thread, StoreConfig(t) PROVE Answered
    BY <2>6 DEF StoreConfig, Goto, Answered, Threads, Thread
  <2>7. ASSUME NEW t \in Thread, ApplyConfig(t) PROVE Answered
    <3>1. /\ Reconcile(poolCfg, pools, containers) /\ phase = "idle"
          /\ t = "request" => CanPrepare(poolCfg, pools)
          /\ pc' = [pc EXCEPT ![t] = IF phase' = "idle" THEN "idle" ELSE "reconcile"]
          /\ process' = process /\ removing' = removing
      BY <1>1, <2>7 DEF ApplyConfig, Goto, Unlocked
    <3>2. t = "request" => phase' = "reallocate"
      <4>1. CanPrepare(poolCfg, pools) => poolCfg # Nil
        BY NodeConfigsAssumption DEF CanPrepare, Acceptable
      <4> QED BY <3>1, <4>1 DEF Reconcile
    <3> QED BY <3>1, <3>2 DEF Answered, Threads, Thread
  <2>8. ASSUME NEW id \in Container, AddContainerAgain(id) PROVE Answered
    BY <1>1, <2>8 DEF AddContainerAgain, Serving, Answered
  <2>9. ASSUME NEW id \in Container, ContainerEnds(id) PROVE Answered
    BY <2>9 DEF ContainerEnds, Answered
  <2>10. \/ EditFile \/ Launch \/ Crash \/ RestoreState \/ FinishStart \/ FinishRemove
         \/ \E t \in Thread : ReadConfig(t) \/ StoreConfig(t) \/ ApplyConfig(t)
         \/ \E id \in Container : AddContainerAgain(id) \/ ContainerEnds(id)
    BY <1>7 DEF Unpublished
  <2> QED BY <2>1, <2>2, <2>3, <2>4, <2>5, <2>6, <2>7, <2>8, <2>9, <2>10
<1> QED BY <1>2, <1>4, <1>5, <1>6, <1>7
        DEF NextMetrics, MetricsRemoveContainer, MetricsAddContainer

(* What a step of the plugin does to the metrics: it leaves them as they   *)
(* are, or it publishes numbers of pools, measured ones if those before    *)
(* were measured.                                                          *)
Republished ==
  /\ Publish
  /\ Holds(cache')
  /\ measured' \subseteq DOMAIN cache'
  /\ DOMAIN cache \subseteq measured => DOMAIN cache' \subseteq measured'

Kept == UNCHANGED metricsVars \/ Republished

LEMMA StepsAreMetered ==
  ASSUME MInv, [NextMetrics]_meteredVars
  PROVE  \/ ForeignChange \/ MetricsStart \/ MetricsReconcileDone
         \/ MetricsGone /\ process' = "down"
         \/ Kept /\ (process' = "up" <=> process = "up")
<1> USE DEF MInv
<1>1. PoolsTyped(pools) /\ PoolsTyped(pools') /\ TypeOK
  BY PolicyStaysSafe DEF PInv, IInv, TypeOK, PoolsTyped
<1>2. ASSUME NEW pool, NEW ps, PoolsTyped(ps), UpdatePool(pool, ps), Publish
      PROVE  Kept
  BY <1>2, UpdatedPoolHolds DEF Kept, Republished
<1>3. ASSUME NEW id, id \in DOMAIN containers, PublishReleased(id) PROVE Kept
  <2> DEFINE ps == ReleasedPools(containers[id])
  <2>1. CASE containers[id].pool \in DOMAIN pools
    <3>1. UpdatePool(containers[id].pool, ps) /\ Publish
      BY <1>3, <2>1 DEF PublishReleased
    <3>2. PoolsTyped(ps)
      BY <1>1, <1>3, <2>1, ReleasedTyped
    <3> HIDE DEF ps
    <3> QED BY <1>2, <3>1, <3>2
  <2>2. CASE containers[id].pool \notin DOMAIN pools
    BY <1>3, <2>2 DEF PublishReleased, Kept
  <2> QED BY <2>1, <2>2
<1>4. ASSUME NEW id, MetricsReleaseLingering(id) PROVE Kept /\ process' = process
  BY <1>3, <1>4 DEF MetricsReleaseLingering, Lingering, policyVars
<1>5. ASSUME NEW id, MetricsRemoveContainer(id) PROVE Kept /\ process' = process
  BY <1>3, <1>5 DEF MetricsRemoveContainer, RemoveContainer, Kept
<1>6. ASSUME NEW id, NEW r, MetricsAddContainer(id, r) PROVE Kept /\ process' = process
  BY <1>1, <1>2, <1>6 DEF MetricsAddContainer, AddContainer, Kept
<1>7. ASSUME NEW id, MetricsReallocate(id) PROVE Kept /\ process' = process
  <2>1. UNCHANGED metricsVars \/ (UpdatePool(containers[id].pool, pools') /\ Publish)
    BY <1>7 DEF MetricsReallocate
  <2> QED BY <1>1, <1>2, <1>7, <2>1 DEF Kept, MetricsReallocate, policyVars
<1>8. CASE Unpublished
  <2>1. process' = "down" => MetricsGone
    BY <1>8 DEF Unpublished
  <2>2. process' # "down" => Kept
    BY <1>8 DEF Unpublished, Kept
  <2>3. process' # "down" => (process' = "up" <=> process = "up")
    <3>1. Exit => process' = "down"
      BY DEF Exit
    <3>2. ASSUME NEW t, ReadConfig(t) \/ StoreConfig(t) \/ ApplyConfig(t), process' # "down"
          PROVE process' = process
      BY <3>1, <3>2 DEF ReadConfig, StoreConfig, ApplyConfig
    <3>3. ASSUME NEW id, AddContainerAgain(id) \/ ContainerEnds(id), process' # "down"
          PROVE process' = process
      BY <3>1, <3>3 DEF AddContainerAgain, ContainerEnds
    <3>4. CASE EditFile \/ RestoreState \/ FinishStart \/ FinishRemove
      BY <3>4 DEF EditFile, RestoreState, FinishStart, FinishRemove
    <3>5. CASE Launch \/ Crash
      BY <3>5 DEF Launch, Crash
    <3> QED BY <1>8, <3>2, <3>3, <3>4, <3>5 DEF Unpublished
  <2> QED BY <2>1, <2>2, <2>3
<1>9. CASE UNCHANGED meteredVars
  BY <1>9 DEF meteredVars, allVars, policyVars, Kept
<1>10. CASE Panic
  BY <1>10 DEF Panic, Exit
<1>11. ASSUME NEW id \in Container,
              \/ MetricsReleaseLingering(id)
              \/ MetricsRemoveContainer(id)
              \/ MetricsReallocate(id)
              \/ \E r \in Requests : MetricsAddContainer(id, r)
       PROVE  Kept /\ process' = process
  BY <1>4, <1>5, <1>6, <1>7, <1>11
<1>12. CASE \E id \in Container : \/ MetricsReleaseLingering(id)
                                   \/ MetricsRemoveContainer(id)
                                   \/ MetricsReallocate(id)
                                   \/ \E r \in Requests : MetricsAddContainer(id, r)
  <2>1. Kept /\ process' = process
    BY <1>11, <1>12
  <2> QED BY <2>1
<1> QED BY <1>8, <1>9, <1>10, <1>12 DEF NextMetrics

(* The end of a reconciliation publishes what it has measured.             *)
LEMMA DonePublishes ==
  ASSUME PInv, MetricsReconcileDone
  PROVE  /\ Republished /\ DOMAIN cache' = measured' /\ Numbered(cache', pools')
         /\ process' = process
<1>1. PoolsTyped(pools) /\ pools' = pools
  BY DEF PInv, IInv, TypeOK, PoolsTyped, MetricsReconcileDone, ReconcileDone, FinishReconcile
<1> QED BY <1>1, UpdatedAllHolds DEF MetricsReconcileDone, ReconcileDone, Republished

(* The cache and the object keep holding numbers, and the object follows.  *)
LEMMA RecordKept ==
  ASSUME MInv, [NextMetrics]_meteredVars
  PROVE  Recorded' /\ Followed'
<1> USE DEF MInv
<1>1. ASSUME Republished, process' = "up" <=> process = "up" PROVE Recorded' /\ Followed'
  <2>1. server' = cache' \/ server' = server
    BY <1>1 DEF Republished, Publish, Published, PublishFails
  <2>2. cache' # Nil /\ Holds(cache')
    BY <1>1, HeldIsThere DEF Republished
  <2>3. metric' = metric /\ (lagging' = TRUE \/ (lagging' = FALSE /\ server' = cache'))
    BY <1>1 DEF Republished, Publish, Published, PublishFails
  <2> QED BY <1>1, <2>1, <2>2, <2>3 DEF Republished, Recorded, Followed, Holds
<1>2. CASE Kept /\ (process' = "up" <=> process = "up")
  BY <1>1, <1>2 DEF Kept, metricsVars, Recorded, Followed, Holds
<1>3. CASE MetricsReconcileDone
  BY <1>1, <1>3, DonePublishes
<1>4. CASE MetricsGone /\ process' = "down"
  BY <1>4, EmptyHolds DEF MetricsGone, Recorded, Followed, Holds
<1>5. CASE ForeignChange
  <2>1. /\ UNCHANGED <<allVars, cache, measured, lagging>> /\ server' \in {Nil, Foreign}
        /\ metric' = (IF metric = "current" THEN "outdated" ELSE metric)
    BY <1>5 DEF ForeignChange
  <2> QED BY <2>1, EmptyHolds DEF allVars, policyVars, Recorded, Followed, Holds
<1>6. CASE MetricsStart
  <2>1. /\ Holds(cache') /\ (server' = Nil \/ Holds(server')) /\ metric' \in {"nil", "current"}
        /\ metric' = "current" => server' = cache' /\ server' # Nil
        /\ measured' = {} /\ process' = "up"
    BY <1>6, EmptyHolds, HeldIsThere
       DEF MetricsStart, Start, NewMetrics, Fetch, Create, SyncFails, Recorded
  <2> QED BY <2>1 DEF Recorded, Followed, Holds
<1> QED BY <1>2, <1>3, <1>4, <1>5, <1>6, StepsAreMetered

(* A plugin that has configured its pools has a copy of the object, and    *)
(* has forgotten what it had fetched.                                      *)
LEMMA OursKept ==
  ASSUME MInv, [NextMetrics]_meteredVars
  PROVE  OnlyOurs'
<1> USE DEF MInv
<1>1. SUFFICES ASSUME Answered' PROVE metric' # "nil" /\ DOMAIN cache' \subseteq measured'
  BY DEF OnlyOurs
<1>2. ASSUME Publish PROVE metric' # "nil"
  BY <1>2 DEF Publish, Published, PublishFails
<1>3. CASE MetricsReconcileDone
  BY <1>2, <1>3, DonePublishes DEF MetricsReconcileDone
<1>4. CASE ~MetricsReconcileDone
  <2>1. Answered /\ ~MetricsStart
    BY <1>1, <1>4, AnsweredBefore
  <2>2. metric # "nil" /\ DOMAIN cache \subseteq measured
    BY <2>1 DEF OnlyOurs
  <2>3. CASE ForeignChange
    BY <2>2, <2>3 DEF ForeignChange
  <2>4. CASE Kept
    BY <1>2, <2>2, <2>4 DEF Kept, Republished, metricsVars
  <2>5. process' # "down"
    BY <1>1 DEF Answered
  <2> QED BY <1>4, <2>1, <2>3, <2>4, <2>5, StepsAreMetered
<1> QED BY <1>3, <1>4

(* A release publishes what it changes, but for what a rejected            *)
(* configuration then takes away.                                          *)
LEMMA ReleaseNumbers ==
  ASSUME IInv, NEW id, ReleaseCPU(id), PublishReleased(id), phase' = "idle",
         Numbered(cache, pools)
  PROVE  Numbered(cache', pools')
<1> DEFINE c  == containers[id]
           ps == ReleasedPools(c)
<1>1. phase = "idle" /\ id \in DOMAIN containers
  BY DEF ReleaseCPU
<1>2. CASE c.pool \in DOMAIN pools
  <2>1. Reconcile(pendingCfg, ps, Delete(containers, id)) /\ UpdatePool(c.pool, ps)
    BY <1>2 DEF ReleaseCPU, PublishReleased
  <2>2. /\ PoolsTyped(ps) /\ DOMAIN ps = DOMAIN pools
        /\ \A pool \in DOMAIN pools \ {c.pool} : ps[pool] = pools[pool]
    BY <1>1, <1>2, ReleasedTyped DEF IInv
  <2> HIDE DEF ps
  <2>3. Numbered(cache', ps)
    BY <2>1, <2>2, UpdateNumbers
  <2> QED BY <1>1, <2>1, <2>2, <2>3, RejectedNumbers
<1>3. CASE c.pool \notin DOMAIN pools
  BY <1>3 DEF ReleaseCPU, PublishReleased, metricsVars
<1> QED BY <1>2, <1>3

(* An allocation changes the pool that is published.                       *)
LEMMA AddNumbers ==
  ASSUME NEW id, NEW r, MetricsAddContainer(id, r), Numbered(cache, pools)
  PROVE  Numbered(cache', pools')
<1>1. CASE UNCHANGED vars /\ id \notin DOMAIN containers
  BY <1>1 DEF vars, MetricsAddContainer, metricsVars
<1>2. CASE \/ \E pool, count : pool = r.pool /\ TakeCPUs(id, pool, count)
           \/ \E pool, req : pool = r.pool /\ TakeShare(id, pool, req)
  <2>1. DOMAIN pools' = DOMAIN pools /\ \A p \in DOMAIN pools \ {r.pool} : pools'[p] = pools[p]
    BY <1>2 DEF TakeCPUs, TakeShare
  <2>2. id \in DOMAIN containers'
    <3>1. \A value : id \in DOMAIN Put(containers, id, value)
      BY DEF Put
    <3>2. ASSUME NEW pool, NEW count, TakeCPUs(id, pool, count)
          PROVE  \E value : containers' = Put(containers, id, value)
      BY <3>2 DEF TakeCPUs
    <3>3. ASSUME NEW pool, NEW req, TakeShare(id, pool, req)
          PROVE  \E value : containers' = Put(containers, id, value)
      BY <3>3 DEF TakeShare
    <3> QED BY <1>2, <3>1, <3>2, <3>3
  <2>3. UpdatePool(r.pool, pools')
    BY <2>2 DEF MetricsAddContainer
  <2> QED BY <2>1, <2>3, UpdateNumbers
<1> QED BY <1>1, <1>2 DEF MetricsAddContainer, AddContainer, Allocate, AllocateCPUs, AllocateCPU

LEMMA CacheKept ==
  ASSUME MInv, [NextMetrics]_meteredVars
  PROVE  CacheCurrent'
<1> USE DEF MInv
<1>1. SUFFICES ASSUME Configured' PROVE Numbered(cache', pools')
  BY DEF CacheCurrent, Numbered
<1>2. CASE MetricsReconcileDone
  BY <1>2, DonePublishes
<1>3. CASE ~MetricsReconcileDone
  <2>1. Answered /\ ~MetricsStart /\ ~Panic /\ ~(\E id : MetricsReleaseLingering(id))
    BY <1>1, <1>3, AnsweredBefore DEF Configured, Answered
  <2>2. phase = "idle" => Numbered(cache, pools)
    <3>1. Answered /\ phase = "idle" => Configured
      BY DEF Answered, Configured, PInv, Threads, Thread
    <3> QED BY <2>1, <3>1 DEF CacheCurrent, Numbered
  <2>3. phase' = "idle" /\ process' = "up" /\ IInv /\ PoolsTyped(pools)
    BY <1>1 DEF Configured, PInv, IInv, TypeOK, PoolsTyped
  <2>4. CASE ForeignChange \/ UNCHANGED meteredVars
    BY <2>2, <2>3, <2>4 DEF ForeignChange, meteredVars, allVars, vars, metricsVars
  <2>5. ASSUME NEW id, MetricsRemoveContainer(id) PROVE Numbered(cache', pools')
    <3>1. phase = "idle"
      BY <2>5 DEF MetricsRemoveContainer, RemoveContainer, Unlocked
    <3>2. CASE id \in DOMAIN containers
      BY <2>2, <2>3, <2>5, <3>1, <3>2, ReleaseNumbers DEF MetricsRemoveContainer, RemoveContainer
    <3>3. CASE id \notin DOMAIN containers
      BY <2>2, <2>5, <3>1, <3>3 DEF MetricsRemoveContainer, RemoveContainer, vars, metricsVars
    <3> QED BY <3>2, <3>3
  <2>6. ASSUME NEW id, NEW r, MetricsAddContainer(id, r) PROVE Numbered(cache', pools')
    <3>1. phase = "idle"
      BY <2>6 DEF MetricsAddContainer, AddContainer, Unlocked
    <3> QED BY <2>2, <2>6, <3>1, AddNumbers
  <2>7. ASSUME NEW id, MetricsReallocate(id) PROVE FALSE
    BY <2>3, <2>7 DEF MetricsReallocate, Reallocate
  <2>8. CASE Unpublished
    <3>1. cache' = cache
      BY <2>3, <2>8 DEF Unpublished, metricsVars
    <3>2. CASE UNCHANGED vars
      BY <2>2, <2>3, <3>1, <3>2 DEF vars
    <3>3. CASE \E t \in Thread : ApplyConfig(t)
      <4>1. Reconcile(poolCfg, pools, containers) /\ phase = "idle"
        BY <2>3, <3>3 DEF ApplyConfig, Exit, Unlocked
      <4> QED BY <2>2, <2>3, <3>1, <4>1, RejectedNumbers
    <3>4. ASSUME Exit \/ Crash PROVE FALSE
      BY <2>3, <3>4 DEF Exit, Crash
    <3> QED BY <2>8, <3>2, <3>3, <3>4
            DEF Unpublished, EditFile, Launch, RestoreState, FinishStart, FinishRemove,
                ReadConfig, StoreConfig, AddContainerAgain, ContainerEnds
  <2> QED BY <1>3, <2>1, <2>4, <2>5, <2>6, <2>7, <2>8 DEF NextMetrics
<1> QED BY <1>2, <1>3

-----------------------------------------------------------------------------
(* The theorems                                                            *)

LEMMA InitMInv == InitMetrics => MInv
<1> SUFFICES ASSUME InitMetrics PROVE MInv
  OBVIOUS
<1>1. PInv
  BY InitPInv DEF InitMetrics
<1>2. /\ cache = EmptyMap /\ metric = "none" /\ server \in {Nil, Foreign} /\ measured = {}
      /\ process = "down"
  BY DEF InitMetrics, InitPolicy
<1> QED BY <1>1, <1>2, EmptyHolds DEF MInv, Recorded, CacheCurrent, Configured, OnlyOurs,
                                      Answered, Followed

LEMMA NextMInv == MInv /\ [NextMetrics]_meteredVars => MInv'
BY PolicyStaysSafe, RecordKept, OursKept, CacheKept DEF MInv

(* Every step of the plugin, of the metrics and of somebody else that      *)
(* writes the object preserves the invariant.                              *)
THEOREM MetricsInvariance == MetricsSpec => []MInv
BY InitMInv, NextMInv, PTL DEF MetricsSpec

(* The cache has numbers of pools, there is an object when the copy is     *)
(* current, and a plugin without a copy does not get to serve.             *)
THEOREM MetricsTypeCorrect == MetricsSpec => []MetricsTypeOK
<1>1. MInv => MetricsTypeOK
  <2> SUFFICES ASSUME MInv PROVE MetricsTypeOK
    OBVIOUS
  <2>1. PolicyTypeOK
    BY DEF MInv, PInv, IInv, Threads, Step, Thread, PolicyTypeOK
  <2>2. metric = "nil" => ~Serving
    BY DEF MInv, OnlyOurs, Answered, Serving
  <2> QED BY <2>1, <2>2 DEF MInv, Recorded, Holds, MetricsTypeOK
<1> QED BY <1>1, MetricsInvariance, PTL

(* No operation, no restart from a checkpoint and no configuration that is *)
(* rejected changes a pool behind the back of the metrics.                 *)
THEOREM CacheIsCurrent == MetricsSpec => []CacheCurrent
<1>1. MInv => CacheCurrent
  BY DEF MInv
<1> QED BY <1>1, MetricsInvariance, PTL

(* Once Start has configured the pools, nothing is cached or published of  *)
(* what Start has fetched, whatever was published of it before.            *)
THEOREM OldPoolsAreForgotten == MetricsSpec => []OldPoolsForgotten
<1>1. MInv => OldPoolsForgotten
  BY DEF MInv, OnlyOurs, Answered, Followed, OldPoolsForgotten, Configured
<1> QED BY <1>1, MetricsInvariance, PTL

(* The object has what is cached, unless a request has failed or somebody  *)
(* else has written it.                                                    *)
THEOREM ServerIsUpToDate == MetricsSpec => []ServerFollows
<1>1. MInv => ServerFollows
  BY DEF MInv, Followed, ServerFollows
<1> QED BY <1>1, MetricsInvariance, PTL

=============================================================================
