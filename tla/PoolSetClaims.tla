--------------------------- MODULE PoolSetClaims ----------------------------
(***************************************************************************)
(* What the comments of pool.go and allocator.go say of the pool set and   *)
(* the code does not do.  Each property is checked by a run of its own,    *)
(* which finds the behaviour that breaks it; module PoolSet has what does  *)
(* hold.                                                                   *)
(***************************************************************************)
EXTENDS PoolSet

UpToDate == phase = "idle" /\ pendingCfg = Nil

(* "check and mark deleted pools for removal" (pool.go:386): once a        *)
(* configuration is in use there are the pools it names and no others.     *)
RemovedPoolsPurged == UpToDate => DOMAIN pools = ConfiguredPools

(* "pool CPUs are available (not taken by other pools)" (pool.go:297): no  *)
(* CPU belongs to two pools.                                               *)
PoolsDisjoint ==
  UpToDate =>
    \A p, q \in DOMAIN pools :
      p # q => (pools[p].shared \cup pools[p].pinned) \cap (pools[q].shared \cup pools[q].pinned) = {}

(* "Allocate a number of CPUs from the given set." (allocator.go:358): an  *)
(* allocation without an error has CPUs, so a container without CPUs has a *)
(* share of the shared set that somebody asked for.                        *)
AllocationHasCpus ==
  \A id \in DOMAIN containers :
    containers[id].cpus = {} /\ containers[id].pool # ReservedPool =>
       containers[id].req \in SharedRequests

(* "total allocations in shared set" (pool.go:84): a total of amounts none *)
(* of which is negative is not negative.                                   *)
UsageNotNegative == \A pool \in DOMAIN pools : pools[pool].used >= 0

-----------------------------------------------------------------------------
(* Containers end, and the kubelet then calls RemoveContainer for each.    *)
DrainSpec == Spec /\ \A id \in Container : WF_vars(ReleaseCPU(id))

(* "updated configuration, if not active" (pool.go:98), which ReleaseCPU   *)
(* retries: if from some time on no container is added, an acceptable      *)
(* configuration does not stay pending for ever.                           *)
PendingApplied ==
  <>[][DOMAIN containers' \subseteq DOMAIN containers]_vars =>
    \A ncfg \in Acceptable : pendingCfg = ncfg ~> pendingCfg # ncfg

=============================================================================
