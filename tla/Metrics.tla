------------------------------- MODULE Metrics -------------------------------
(***************************************************************************)
(* The metrics of the pools: what cmd/cpu-pool-policy/metrics/metrics.go   *)
(* keeps of every pool and publishes as a Metric object in the cluster,    *)
(* and where the plugin of module PoolPolicy updates it.                   *)
(*                                                                         *)
(* Start fetches the object, with the pools somebody has published before, *)
(* or creates it.  From then on it is written through the copy the last    *)
(* answer of the server has left, so a write by somebody else makes all    *)
(* later ones fail.  Of a resource version only that matters: whether the  *)
(* copy is the newest.  Without a copy publishing is a nil dereference,    *)
(* which ends the plugin.                                                  *)
(***************************************************************************)
EXTENDS PoolPolicy

CONSTANTS
  Foreign,     \* pools an earlier plugin or somebody else has written into the object
  MaxMishaps   \* bound: requests that fail, and changes by somebody else

ASSUME MaxMishapsAssumption == MaxMishaps \in Nat

VARIABLES
  cache,     \* Metrics.pools: pool name -> cached numbers
  measured,  \* the cached pools whose numbers this plugin has put there itself
  metric,    \* Metrics.metric: "none" before NewMetrics, "nil", "current", "outdated"
  server,    \* the pools in the object on the server, Nil if there is none
  lagging,   \* has nothing been published since a request failed?
  mishaps    \* how many there have been

metricsVars == <<cache, measured, metric, server, lagging, mishaps>>
meteredVars == <<allVars, metricsVars>>

Numbers == [shared : SUBSET CPU, exclusive : SUBSET CPU, capacity : Nat, usage : Int]

ASSUME ForeignAssumption ==
  /\ Foreign \in [DOMAIN Foreign -> Numbers]
  /\ \A names \in SUBSET (PoolName \cup DOMAIN Foreign) : Nil \notin [names -> Numbers]

(* No plugin serves that has failed to get hold of the object.             *)
MetricsTypeOK ==
  /\ PolicyTypeOK
  /\ metric \in {"none", "nil", "current", "outdated"}
  /\ \A pool \in DOMAIN cache : cache[pool] \in Numbers
  /\ measured \subseteq DOMAIN cache
  /\ metric = "none" <=> process # "up"
  /\ metric = "current" => server # Nil
  /\ metric = "nil" => ~Serving

-----------------------------------------------------------------------------
(* getPoolMetrics: the reserved pool is left out.                          *)
NumbersOf(p) ==
  [shared    |-> p.shared,
   exclusive |-> p.pinned,
   capacity  |-> 1000 * (Cardinality(p.shared) + Cardinality(p.pinned)),
   usage     |-> 1000 * Cardinality(p.pinned) + p.used]

Metered(ps) == DOMAIN ps \ {ReservedPool}

(* UpdatePool, for the pool as it is in ps.  A mistake: numbers that are   *)
(* cached already are kept.                                                *)
UpdatePoolOnce(pool, ps) ==
  IF pool \in Metered(ps) \ DOMAIN cache
    THEN cache' = Put(cache, pool, NumbersOf(ps[pool])) /\ measured' = measured \cup {pool}
    ELSE UNCHANGED <<cache, measured>>

UpdatePool(pool, ps) ==
  IF pool \in Metered(ps)
    THEN cache' = Put(cache, pool, NumbersOf(ps[pool])) /\ measured' = measured \cup {pool}
    ELSE UNCHANGED <<cache, measured>>

(* DeleteAllPools, then UpdatePool for all pools.  A mistake: what is      *)
(* cached is not deleted first.                                            *)
UpdateAllKept(ps) ==
  /\ cache' = Over([pool \in Metered(ps) |-> NumbersOf(ps[pool])], cache)
  /\ measured' = measured \cup Metered(ps)

UpdateAll(ps) ==
  /\ cache' = [pool \in Metered(ps) |-> NumbersOf(ps[pool])]
  /\ measured' = Metered(ps)

Mishap == mishaps < MaxMishaps /\ mishaps' = mishaps + 1

(* Publish, once the cache has its new value.  A mistake: an object that   *)
(* is not there is not noticed.                                            *)
PublishedBlindly ==
  /\ metric # "outdated"
  /\ server' = cache'
  /\ lagging' = FALSE
  /\ UNCHANGED <<metric, mishaps>>

Published ==
  /\ metric = "current"
  /\ server' = cache'
  /\ lagging' = FALSE
  /\ UNCHANGED <<metric, mishaps>>

PublishFails ==
  /\ \/ metric = "outdated" /\ UNCHANGED mishaps
     \/ metric = "current" /\ Mishap
  /\ lagging' = TRUE
  /\ UNCHANGED <<metric, server>>

Publish == Published \/ PublishFails

-----------------------------------------------------------------------------
(* NewMetrics: fetch the object, or else create it.                        *)

Fetch ==
  /\ server # Nil
  /\ cache' = server
  /\ metric' = "current"
  /\ UNCHANGED <<server, mishaps>>

(* Creating fails if the object exists, which the fetch has not found.     *)
Create ==
  /\ server = Nil
  /\ server' = EmptyMap
  /\ cache' = EmptyMap
  /\ metric' = "current"
  /\ UNCHANGED mishaps

SyncFails ==
  /\ Mishap
  /\ cache' = EmptyMap
  /\ metric' = "nil"
  /\ UNCHANGED server

NewMetrics ==
  /\ Fetch \/ Create \/ SyncFails
  /\ measured' = {}
  /\ lagging' = FALSE

(* Somebody else writes or deletes the object.  (An update of ours whose   *)
(* answer is lost has the same effect: our copy is not the newest.)        *)
ForeignChange ==
  /\ Mishap
  /\ server' \in {Nil, Foreign} \ {server}
  /\ metric' = IF metric = "current" THEN "outdated" ELSE metric
  /\ UNCHANGED <<allVars, cache, measured, lagging>>

(* The plugin has ended, and its copy and its cache with it.               *)
MetricsGone ==
  /\ cache' = EmptyMap
  /\ measured' = {}
  /\ metric' = "none"
  /\ UNCHANGED <<server, lagging, mishaps>>

-----------------------------------------------------------------------------
(* The steps of the plugin, with what each publishes                       *)

InitMetrics ==
  /\ InitPolicy
  /\ cache = EmptyMap
  /\ measured = {}
  /\ metric = "none"
  /\ server \in {Nil, Foreign}
  /\ lagging = FALSE
  /\ mishaps = 0

(* createPools makes new metrics, then restoreState what was saved.        *)
MetricsStart == Start /\ NewMetrics

(* A container gives back what it has.  The pool is published as it is     *)
(* before a pending configuration is tried.                                *)
PublishReleased(id) ==
  LET c == containers[id] IN
  IF c.pool \in DOMAIN pools
    THEN UpdatePool(c.pool, ReleasedPools(c)) /\ Publish
    ELSE UNCHANGED metricsVars

MetricsReleaseLingering(id) ==
  /\ pc["request"] = "restore"
  /\ id \in Lingering
  /\ ReleaseCPU(id)
  /\ UNCHANGED policyVars
  /\ PublishReleased(id)

MetricsRemoveContainer(id) ==
  /\ RemoveContainer(id)
  /\ IF id \in DOMAIN containers THEN PublishReleased(id) ELSE UNCHANGED metricsVars

MetricsAddContainer(id, r) ==
  /\ AddContainer(id, r)
  /\ IF id \in DOMAIN containers' THEN UpdatePool(r.pool, pools') /\ Publish
                                  ELSE UNCHANGED metricsVars

CanReallocate(id) == CanTakeCPUs(containers[id].pool, Cardinality(containers[id].cpus))

MetricsReallocate(id) ==
  /\ Reallocate(id)
  /\ UNCHANGED policyVars
  /\ IF CanReallocate(id) THEN UpdatePool(containers[id].pool, pools') /\ Publish
                          ELSE UNCHANGED metricsVars

(* A mistake: the pools of a new configuration are not published.          *)
MetricsReconcileDoneSilently ==
  ReconcileDone /\ UpdateAll(pools) /\ UNCHANGED <<metric, server, lagging, mishaps>>

MetricsReconcileDone == ReconcileDone /\ UpdateAll(pools) /\ Publish

(* Publishing without a copy of the object, which Start comes to at the    *)
(* end of its reconciliation at the latest.                                *)
Panic ==
  /\ metric = "nil"
  /\ \/ pc["request"] = "restore" /\ phase = "idle"
          /\ \E id \in Lingering : containers[id].pool \in DOMAIN pools
     \/ phase = "reallocate" /\ (todo = {} \/ \E id \in todo : CanReallocate(id))
  /\ Exit
  /\ MetricsGone

(* The other steps publish nothing.                                        *)
Unpublished ==
  /\ \/ EditFile \/ Launch \/ Crash \/ RestoreState \/ FinishStart \/ FinishRemove
     \/ \E t \in Thread : ReadConfig(t) \/ StoreConfig(t) \/ ApplyConfig(t)
     \/ \E id \in Container : AddContainerAgain(id) \/ ContainerEnds(id)
  /\ IF process' = "down" THEN MetricsGone ELSE UNCHANGED metricsVars

NextMetrics ==
  \/ ForeignChange \/ MetricsStart \/ MetricsReconcileDone \/ Panic \/ Unpublished
  \/ \E id \in Container :
       \/ MetricsReleaseLingering(id)
       \/ MetricsRemoveContainer(id)
       \/ MetricsReallocate(id)
       \/ \E r \in Requests : MetricsAddContainer(id, r)

MetricsSpec == InitMetrics /\ [][NextMetrics]_meteredVars

-----------------------------------------------------------------------------
(* Safety                                                                  *)

(* Start has configured the pools, and nobody is configuring them.         *)
Configured == process = "up" /\ pc["request"] \in {"idle", "finish"} /\ phase = "idle"

(* Between operations the cached numbers of every pool but reserved are    *)
(* those of the pool (updatePoolMetrics, updateMetrics): no operation, no  *)
(* restart from a checkpoint, and no configuration that was rejected half  *)
(* way, changes a pool behind the back of the metrics.                     *)
CacheCurrent ==
  Configured =>
    \A pool \in Metered(pools) : pool \in DOMAIN cache /\ cache[pool] = NumbersOf(pools[pool])

(* Of what Start has found on the server (fetch, metrics.go:150) nothing   *)
(* is left in the cache once Start has configured the pools: every number  *)
(* it has, and the object has if it follows, this plugin has measured.     *)
(* Not so before: the release of a lingering container and a reallocation  *)
(* publish the cache (pool.go:621, 561) with what fetch has put there,     *)
(* until the reconciliation ends (updateMetrics, pool.go:778).             *)
OldPoolsForgotten ==
  Configured =>
    /\ DOMAIN cache \subseteq measured
    /\ metric = "current" /\ ~lagging => DOMAIN server \subseteq measured

(* The object has what is cached, unless somebody else has changed it or   *)
(* the last request has failed.                                            *)
ServerFollows ==
  Configured /\ metric = "current" /\ ~lagging => server = cache

=============================================================================
