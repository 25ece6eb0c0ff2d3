# A TLA+ model of the CPU pool policy plugin

This directory holds TLA+ modules of the CPU pool policy for Kubernetes: its
state machines, the TLC configurations that check them on small instances, and
theorems checked by TLAPS. Everything is translated from the code under `src/`;
references such as `pool.go:450` are to `src/cmd/cpu-pool-policy/pool/pool.go`
unless they say otherwise.

## The system

A node's CPUs are divided into named *pools*. A pod asks for CPU of a pool with
an extended resource `intel.com/cpupool.<pool>`; a container that asks for whole
CPUs, with equal request and limit, gets them exclusively, any other shares the
pool's shared CPUs. The kubelet's CPU manager calls the plugin through a gRPC
stub whenever a container starts or stops, and the plugin answers with the CPUs
of the containers, the capacity of the pools and a checkpoint of its own state.

| Component | State | Operations | Talks to |
|---|---|---|---|
| pool set (`pool.go`) | pools (shared and pinned CPUs, usage, Config), containers (pool, CPUs, request), current and pending configuration, CPUs to take offline | NewPoolSet, Reconfigure, AllocateCPUs, AllocateCPU, ReleaseCPU; reconcileConfig inside Reconfigure and ReleaseCPU | allocator, sysfs, metrics |
| preparing a configuration (`pool.go`) | the CPUs still available, per kind; CPUs to take offline; pools that claim the leftover | prepareReservedPool, prepareConfig, restoreConfig | sysfs, isolcpus of the kernel |
| node configuration (`config.go`) | none | ParseNodeConfig, DefaultNodeConfig | files |
| CPU allocator (`pkg/cpuallocator`) | a copy of the system, discovered once per process | AllocateCpus: idle packages, idle cores, threads | sysfs |
| hardware (`pkg/sysfs`, `pkg/procfs`) | CPUs, their topology and online state | DiscoverSystem, SetCpusOnline, SetFrequencyLimits | /sys, /proc |
| pool policy plugin (`pool-policy-plugin.go`) | pool set, last configuration, a mutex | Start, AddContainer, RemoveContainer, and configure from the watcher's goroutine | stub, pool set, picker |
| CPU plugin stub (vendored `cpumanager/stub`) | the kubelet's state of a request, the changes to answer with | Configure, AddContainer, RemoveContainer | kubelet over gRPC |
| configuration picker (vendored `stub/config.go`) | watch on a directory | PickConfig, WatchConfig | file system, plugin callback |
| metrics (`metrics.go`) | metrics per pool, the CRD object last read | NewMetrics, UpdatePool, DeletePool (never called), Publish | API server |
| admission webhook (`cmd/cpu-pool-admissionwebhook`) | none | mutatePods: add the missing one of a native and a pool request, check that they agree | API server |
| CRD types and client (`pkg/apis`, `pkg/client`) | none | generated | |

What makes each of them correct, and what is hard about it:

- **pool set.** A CPU is shared or exclusive, never both; an exclusive CPU has
  one container, which gives it back; usage is the sum of the shares; a
  configuration is taken over as a whole or not at all. Hard: a reconciliation
  has many steps that may fail in the middle, containers outlive the
  configuration they came with, configurations wait for containers to leave,
  and loops run in the random order of Go maps.
- **preparing.** No CPU goes to two pools or is taken offline under one; the
  verdict does not depend on the map order.
- **allocator.** As many CPUs as asked for, or none; whole packages and cores
  before single threads. Hard: its idea of which CPUs are online is as old as
  the process, and its comparison of threads is not an order.
- **hardware.** Both Systems know the whole topology and which CPUs are offline,
  and a discovery leaves the machine as it was. Hard: the kernel shows only what
  is online, so a discovery takes everything online first; the allocator's does
  that in the middle of an allocation; accesses fail one by one.
- **plugin, stub, picker.** One operation at a time; the kubelet's, the
  checkpoint's and the plugin's ideas of the containers agree again after lost
  responses and restarts. Hard: the watcher's goroutine starts before Start has
  made the pool set, `Start` and parts of `configure` run without the mutex.
- **metrics.** What is published is what the pools are, in the end.
- **webhook.** An admitted pod has agreeing requests, in spite of the map order.

`PROJECT.json` lists the hazards line by line with the properties that cover
them.

## The modules

| Module | Models | Kind |
|---|---|---|
| `NodeConfig` | the entries of a configuration file and what becomes of them; the CPUs a configuration gives to each pool, and whether it is acceptable, as predicates over the whole configuration | operators |
| `PrepareConfig` | prepareReservedPool and prepareConfig as the loops they are, pools in any order | state machine over one configuration |
| `Allocation` | the contracts of the allocator and of an update of the hardware: their possible outcomes | operators |
| `Sysfs` | discovery of the hardware and taking CPUs on- and offline, one access to a file at a time, by the two Systems of the plugin | state machine |
| `CpuAllocator` | calls of the allocator between the operations of `Sysfs`: the three stages, candidate by candidate | state machine, extends `Sysfs` |
| `ExclusiveCpus` | what a pool set promises to those who hold CPUs exclusively | abstract specification |
| `PoolSet` | the pool set: all of its operations and the reconciliation; it implements `ExclusiveCpus` | the core state machine |
| `PoolSetClaims` | what comments say of the pool set and the code does not do | properties |
| `PoolPolicy` | the plugin, the stub, the watcher and the kubelet around the pool set, with crashes, restarts and lost answers | composition, extends `PoolSet` |
| `Metrics` | the metrics of the pools and the object on the API server, around the plugin | composition, extends `PoolPolicy` |
| `AdmissionWebhook` | one request to review a pod, and what the plugin reads from the pod later | state machine over one request |
| `PoolSetProofs` | the invariants of `PoolSet`, and that it implements `ExclusiveCpus`, for all values of the constants | TLAPS proofs |
| `SumTheorems` | what the fold `SumFunction` of the community modules adds up to; least counterexamples | TLAPS proofs |
| `PoolSetAccounts` | what the pool set accounts for: who runs where, capacities, counts, usage | TLAPS proofs, extends `PoolSetProofs` |
| `PrepareConfigProofs` | the loops of `PrepareConfig` decide the predicates of `NodeConfig` | TLAPS proofs |
| `PoolPolicyProofs` | the safety of `PoolPolicy`, on top of that of the pool set | TLAPS proofs, extends `PoolSetAccounts` |
| `MetricsProofs` | the safety of `Metrics`, on top of that of the plugin | TLAPS proofs, extends `PoolPolicyProofs` |
| `AdmissionWebhookProofs` | the safety of `AdmissionWebhook` | TLAPS proofs |
| `CpuAllocatorProofs` | the hardware and the calls of the allocator, for any machine | TLAPS proofs, extends `CpuAllocator` and `SumTheorems` |
| `MCPrepareConfig`, `MCCpuAllocator`, `MCPoolSet`, `MCPoolPolicy`, `MCMetrics`, `MCAdmissionWebhook` | small instances | TLC |

How they build on each other: `PrepareConfig` shows that the loops of the code
decide exactly the predicate `PrepareOk` and compute exactly `PoolCpus` and
`OfflinedCpus` of `NodeConfig`; `PoolSet` uses these instead of the loops.
`CpuAllocator` shows that a call ends in one of the `AllocationOutcomes` of
module `Allocation`, and `Sysfs` that an update leaves what `PartlyUpdated`
says; `PoolSet` uses these instead of the algorithms. That leaves `PoolSet` with
what is about the pool set itself. `PoolPolicy` adds its variables to it, and
`Metrics` its own to those of `PoolPolicy`; each conjoins its part of an
operation to the action.

### AdmissionWebhook and the code

The webhook shares nothing with the rest but the names of the resources, and the
pods: `ContainerPoolResources` is GetContainerPoolResources (105) on the patched
pod, by which the plugin decides what to allocate. `origin` is what came in;
`Serve` turns away what is no review of a pod and leaves pods of the system, and
pods that do not opt in, alone. After it a step is one entry of a Go map in one
of the loops (`VisitRequest`, `VisitLimit`), the end of a loop, or what lies
between two loops (`Mutate`: addPoolResource and createOp; `Compare`: the end of
validatePoolResource). The init containers are the first of the sequence `pod`.
`request` and `limit` are the two results of addPoolResource, `ops` is the
patch. Quantities are in thousandths and `Value` rounds up, as resource.Quantity
does. The API server fills in requests from limits before it calls a webhook, so
a limit never comes without a request (`PodAssumption`).

### PoolSet and the code

| Variable | Code |
|---|---|
| `pools[pool]` = [shared, pinned, used, cfg] | `PoolSet.pools`, `Pool`; of the Config only its CPUs (`cfg.Cpus`) |
| `containers[id]` = [pool, cpus, req] | `PoolSet.containers`, `Container` |
| `currentCfg`, `pendingCfg`, `offlined` | the fields of these names |
| `online` | the online files under sysfs |
| `stale` | `system.Offlined()` of the allocator's singleton, `Nil` until its first use |
| `phase`, `todo` | the control of `reconcileConfig`: between the reset of the exclusive allocations and the end; the containers its loop has not come to |
| `reallocFailed` | history: an error of `updateAllocations` was dropped |

| Action | Code |
|---|---|
| `Reconfigure`, and `Reconcile` inside it | Reconfigure, and reconcileConfig with prepareConfig, the purge and the reset of the allocations; or restoreConfig after any part of the pools was visited |
| `AllocateCPUs`, `AllocateCPU` | the methods, as AddContainer calls them (once per container) |
| `ReleaseCPU` | the method, with the reconciliation it retries |
| `Reallocate` | one round of the loop over the containers in updateAllocations |
| `FinishReconcile` | updateHwConfiguration, and the pending configuration becomes current |

The plugin holds its mutex during an operation, so an operation is one action.
A reconciliation is the exception: the containers are reallocated one step at a
time, in any order, and no operation starts in between (`phase`). Calls that
fail before they change anything are stuttering steps. In `Start` the plugin
calls the pool set without the mutex, before any request; that is in
`PoolPolicy`.

Abstracted: cpusets are sets; of a Config only the CPUs remain after
preparation; logging and clock frequencies, which nothing reads back, are left
out, the metrics are in `Metrics`; a request is a number from a small set.

### Sysfs, CpuAllocator and the code

`systems` holds the two Systems: "pools" is that of the pool set, discovered by
NewPoolSet, "allocator" the singleton of the allocator (allocator.go:67). `call`
is the operation that runs and its local variables: `step` is "up", "scan" or
"restore" during a discovery, "online" or "offline" during
updateCpuOnlineState; `left` are the entries its loop has not come to, `changed`
is the result of SetCpusOnline. Each write of an online file, and each reading
of a CPU, is a step that may fail. `leaked` is a history variable: a discovery
could not take CPUs back offline. The calls of the allocator (`stage`,
`candidates` and the fields of CpuAllocator) come when no operation of `Sysfs`
runs: all of this happens under the mutex of the plugin. In the code the first
call that needs the allocator's System discovers it; that does not depend on
what is asked, so in the model the discovery comes just before the call.

### PoolPolicy and the code

| Variable | Code |
|---|---|
| `nodeFile`, `events` | the directory with the configuration files, and the events of the watch on it (`stub/config.go`) |
| `process` | the plugin's process: "down", "fresh" (launched, before Start), "up" |
| `pc`, `parsed`, `poolCfg` | where the two threads are, the local variable of configure, and `poolPolicy.poolCfg` |
| `removing` | the argument of the RemoveContainer that runs |
| `stub` | `stubState`: assignments, the policy's entry, the declared resources |
| `kubelet` | external: the same as the kubelet has put it together from the answers, and saved |
| `edits`, `faults` | bounds |
| `lost`, `untold`, `overtaken` | history: an answer was lost; the kubelet was not told of a change; an older configuration was stored after a newer one |

`ReadConfig`, `StoreConfig` and `ApplyConfig` are configure, in the thread of a
request or of the watcher: the parsing, the assignment to p.poolCfg before the
mutex is taken (272), and what follows under it. `Start`, `ReleaseLingering`,
`RestoreState`, `FinishStart` are Start; `AddContainer`, `AddContainerAgain`,
`RemoveContainer`, `FinishRemove` the requests, with the reconciliation of the
pool set in between as its own steps. An answer carries the entries that the
call has changed (`Changed`, ContainerChanges in `stub/state.go`) and is
delivered or lost. `Exit` is a Start that fails, after which the process ends
and is launched again (`Launch`), and a panic.

What is assumed of the world outside `src/cmd`: the kubelet calls the plugin one
call at a time; a plugin that ends is launched again; a new configuration
replaces the directory as a whole, as the kubelet does for a ConfigMap volume,
and the watch sees its creation; the isolated CPUs do not change. `Undisturbed`
says that the watcher's locked section does not fall into `Start`'s use of the
pool set without the mutex: it would be a data race, with any outcome. The set of
the container that stands for the default CPUs is left out: it is derived from
what is modelled.

### Metrics and the code

| Variable | Code |
|---|---|
| `cache` | `Metrics.pools`, with what getPoolMetrics computes for a pool (`NumbersOf`) |
| `measured` | history: the entries of the cache that this plugin has put there itself |
| `metric` | `Metrics.metric`, the object Publish writes through: "none" before NewMetrics, "nil" if that got none, "current" or, after a write by somebody else, "outdated" |
| `server` | external: the pools in the object on the API server |
| `lagging`, `mishaps` | history: the last request failed; a bound |

Every step is one of `PoolPolicy`, with the updates of the cache and the
publications that the code makes in it. `Start` fetches the object, with the
pools an earlier plugin has published, or creates it (`NewMetrics`, from
createPools), and goes on to restore the containers of a checkpoint. Those that
linger are released, and each release publishes (`MetricsReleaseLingering`,
pool.go:621); so does each reallocation of the reconciliation that follows
(`MetricsReallocate`, 561). What they publish is the whole cache, with the pools
that were fetched. Only at the end of the reconciliation are these deleted and
the pools that exist put in their place (`MetricsReconcileDone`, updateMetrics,
778). Publishing without an object dereferences nil (metrics.go:190) and ends
the plugin (`Panic`). After somebody else has written the object every
publication fails: the copy has an old version, and the code never fetches again.

## What TLC checks

| Run | Instance | Shows |
|---|---|---|
| `prepare_config` | files for three two-thread cores, one CPU isolated, with the reserved and the default pool and up to two more, HT-free or isolated, drawn from a few entries each; every map order | the loops decide `PrepareOk`, whatever the order (`LoopDecidesPrepareOk`, which has the panic of a negative count too); CPUs are given once (`CpusGivenOnce`) |
| `cpu_allocator` | two packages, two cores each, two threads each; all 256 sets and 8 counts; five sets of CPUs offline at first, one of them a whole core; updates that take none or three CPUs offline; one access that fails, anywhere | discoveries are complete (`TopologyComplete`) and restore the CPUs (`DiscoveryRestores`), updates keep to the contract (`UpdateKeepsContract`) and are known (`OfflineKnown`); the contract of the allocator (`KeepsContract`), packages first, at most one free core split, calls end (`CallEnds`) |
| `pool_set` | five CPUs, CPU 0 with a core of its own and two cores of two threads; three interchangeable containers, exclusive requests of 1 and 2; a pool whose CPUs move, the same without hyperthreads (it takes one offline), and a rejected configuration; failing writes, stale allocator | the accounting: `UsedIsSum`, `CapacityKept`, `ReallocationKeepsCount`; `ExclusiveIsExclusive` between all containers of an intact pool set; `SharedPinnedDisjoint` and `PinnedOwned` under failures |
| `pool_set_churn` | two cores, two containers, configurations that add and remove pools, one rejected; no symmetry | `ExclusivePinned`, `ConfigInForce` with pools that come and go; no pool counts as more in use than it is (`UsedNotAbove`); `ReconcileEnds`; the refinement of `ExclusiveCpus` (`KeepsPromise`) |
| `pool_policy` | four CPUs without hyperthreads, two containers, a pool that moves, goes, or whose file is missing; one change of the file, one fault | the kubelet's view agrees with the checkpoint (`AssignmentsMatchCheckpoint`, `CapacityRelayed`), containers survive restarts (`RestartKeepsContainers`), the kubelet is never told of shared exclusive CPUs (`ToldExclusive`), the last configuration wins (`LastConfigWins`), calls end (`RequestsAnswered`) |
| `metrics` | the plugin on four CPUs, two containers, three configurations, one of them rejected; one change of the file, one crash, restart of the kubelet or lost answer; two failed requests or changes of the object by others; at first no object, or one of an earlier plugin with a pool of the same name and another one | a plugin without an object never serves (`MetricsTypeOK`); once Start has configured the pools the cache follows them (`CacheCurrent`), nothing fetched is left in it or in the object (`OldPoolsForgotten`) and the object follows the cache (`ServerFollows`), restored from a checkpoint or not |
| `admission_webhook` | requests of all kinds, pods have to opt in; pods of one container with any mix of native CPU and of CPU of two pools, amounts of zero among them, and of two containers, the first being one of four | an admitted pod, once patched, asks for the same CPU in both kinds (`AdmittedAgrees`); the plugin takes what the scheduler counts, from that pool (`TakenIsCounted`); the verdict is a function of the pod (`VerdictIsOrderFree`) |
| `removed_pools`, `overlapping_pools`, `stale_allocator`, `pending_forever`, `usage_negative` | instances like those of `pool_set` and `pool_set_churn` | each finds one of the defects below |

**Bounds.** `PoolSet` caps no counter: all of its state is built from the CPUs,
the containers and the configurations. `PoolPolicy` bounds the changes of the
file (`MaxEdits`) and the faults (`MaxFaults`: crashes, restarts of the kubelet,
lost answers); one of each is enough for every order of a change, of a fault and
of the two threads, while several faults in a row repeat what one does, since a
restart forgets everything but the checkpoint. `Metrics` has the same bounds and
bounds the requests that fail and the writes of others (`MaxMishaps` = 2: one at
a start and one later), `Sysfs` the accesses that fail (`MaxFailures` = 1: code
that has met a failure either ends the operation or ignores it). Calls of the
allocator after a failure that it did not notice are left out (`Call`), they are
like those before it. `HwMayFail` is FALSE where the properties are not about
the hardware. Two cores of two threads beside the core of CPU 0 are enough for
two pools beside the reserved one that exchange CPUs and for an HT-free pool;
two containers are enough for every pairwise property and for a reallocation
that fails after one of them was done, the third is there for sums and for
losing CPUs to two others. The configurations are parsed from files by
`ParseNodeConfig`, so no instance starts from a configuration the parser would
not produce; each family has one that prepareConfig rejects half way (it asks
for a CPU of the reserved pool). `Init` leaves any CPUs but CPU 0 offline, as
long as each core has a thread online. Symmetry is only used in runs without
liveness, over container ids, which are never compared or ordered.

For the allocator the order of the threads is any sequence in which each thread
compares as smaller than its successor. Insertion sort, which Go uses for fewer
than twelve elements, guarantees that and, the comparison being none of an
order, no more. For larger machines the order may be yet another one. What the
proofs use of it is only that it lists threads of the set, none of them twice,
as many as are wanted or all (`ThreadCandidates`): the contract holds for any
sorting.

**Fairness.** `PoolSet` assumes weak fairness of the steps of a running
reconciliation only: it is a loop in one goroutine that holds the mutex and
waits for nothing. Nothing is assumed of requests and configurations. The
property `PendingApplied` is checked under `DrainSpec`, which adds that
containers end and the kubelet says so (RemoveContainer is called for each); it
is false even then. The calls of `CpuAllocator` are sequential code that runs to
its end: weak fairness of their steps. `PoolPolicy` assumes that the thread that
serves the kubelet goes on if it can (weak fairness of its steps), that a
running reconciliation does, whichever thread it is of, and strong fairness of
`ApplyConfig` in the thread of the kubelet, which waits for the mutex: a Go
mutex goes to the one that has waited for a millisecond, whoever else asks for
it (starvation mode of sync.Mutex). It assumes nothing of the kubelet, of the
watcher outside a reconciliation, of the file and of faults. `PrepareConfig`,
`Metrics` and `AdmissionWebhook` have no liveness property and no fairness. The
runs of `PrepareConfig`, `CpuAllocator` (a panic) and `AdmissionWebhook`, which
end, and no others leave out the check for deadlocks.

**Mutants.** Each property has a definition next to the one it guards with a
plausible mistake in it ("A mistake: ..." in the comments); with the mistake the
property fails in its run.

## What is proved

`PoolSetProofs` proves, for every set of CPUs, topology, set of containers,
configurations and requests allowed by the assumptions of `NodeConfig` and
`PoolSet`:

- `Invariance`: `Spec => []IInv`, where `IInv` is the conjunction of `TypeOK`,
  `SharedPinnedDisjoint`, `PinnedOwned`, `ExclusivePinned` and `ConfigInForce`;
- `TypeCorrect`, `SharedStaysApart`, `NoCpuIsLost`, `ExclusiveUntilFailure` and
  `RejectionLeavesNoTrace`: each of the five on its own.

None of the five but the types is inductive alone. A release takes the CPUs of
a container out of `pinned`; that nobody else loses theirs needs
`ExclusivePinned`. Taking CPUs keeps `ExclusivePinned` only because they come
from `shared` and `SharedPinnedDisjoint` holds. A rejection keeps the pinned
CPUs owned because the pools of the current configuration existed before, which
is `ConfigInForce`. `PinnedOwned` had to be stated over the containers not in
`todo`, and `ConfigInForce` with the pending configuration during a
reallocation, to be preserved step by step.

The argument: `Handed(ps, cs)` collects what `reconcileConfig` needs of the
pools and containers it is called with, which after a release differ from the
variables. `ActivatedPools` describes the pools after an accepted configuration,
`RestoredPoolsSame` after a rejected one, and `ReconcileSafe` concludes `IInv'`
for both. `TakeCPUsSafe` says that whoever takes CPUs joins the containers that
own theirs; it serves new allocations and reallocations alike. One lemma per
action follows, then `NextIInv` and the theorems.

**The refinement.** `PoolSetProofs` ends with `Refinement`: `Spec =>
KeepsPromise`, that `PoolSet` implements `ExclusiveCpus` under the mapping
`Held` (the CPUs of the containers that have some and wait for no reallocation,
as long as their pool exists), `Owed` (how many CPUs those get that wait for
one) and `reallocFailed`. The promise is about steps where the invariants are
about states: what a container has is not taken from it and given to it again
differently, but for a release, a pool that goes, or a reallocation, which
begins for all at once and lets nobody new in before it has served everyone.
After a reallocation has failed nothing is promised, because the code drops the
error and the containers keep CPUs that others may get (see below).
The proof has one lemma per action. `TakeCPUsKeeps` is the heart: the CPUs taken
are nobody else's because they were shared (`SharedPinnedDisjoint`) and those of
others are pinned (`ExclusivePinned`), so it needs the inductive invariant.
`ReconcileKeeps` maps a reconciliation to `Reset`, or to `Lose` when the
configuration is rejected and a lingering pool goes.

**What the pool set accounts for.** `PoolSetAccounts` draws the conclusions for
containers and pools:

- `ExclusiveMeansExclusive` (`ExclusiveIsExclusive`): no container of an intact
  pool set is told to run on a CPU that another one has exclusively. Within a
  pool that is `IInv`; between pools it is `ConfigInForce` and that an acceptable
  configuration gives no CPU twice (`AcceptableApart`, from the definitions of
  `PoolsOk` and `PoolCpus`).
- `CapacityIsKept` and `CountIsKept` (`CapacityKept`, `ReallocationKeepsCount`):
  action properties, from `IInv` and `AllocationSplits`: with no CPU believed
  offline the allocator splits its set in what it gives and what it leaves.
- `UsageIsNeverAbove` (`UsedNotAbove`): `Spec => []UsedNotAbove`, no pool is
  ever taken to be more in use than the containers that share it make it,
  whatever pools go and come back; and `UsageIsSum` (`UsedIsSum`): it is exactly
  their sum as long as no container is in a pool that is gone, `Spec /\
  []NoOrphans => []UsedIsSum`. Without that it is not the sum, and can be
  negative (see below). The usage is changed by differences and the properties
  are about a sum over the containers, so the proofs follow what is `Missing`
  between the two: no step changes it for a pool that stays, and a pool that
  comes starts with a usage of 0 (`Accounted`, `StepAccounts`), when all that its
  sharers asked for is missing, which is never less than nothing. For a sum to
  change by one container, a fold over a function must not depend on the order
  it takes: `SumTheorems` shows that (`SumStep`) without recursion and without an
  induction rule, by a least counterexample in the number of elements
  (`LeastNat`). `AInv` adds to `IInv` that the containers are finitely many and
  that those still to be reallocated have CPUs, so that the reset of an
  allocation touches no usage.

**Preparing a configuration.** `PrepareConfigProofs` proves that in whatever
order Go visits its maps the loops accept what `PrepareOk` accepts, panic where
`PreparePanics` says, and compute `PoolCpus` and `OfflinedCpus`
(`OrderDecidesNothing`, the property `LoopDecidesPrepareOk`), which is what
`PoolSet` relies on when it uses these operators, for any machine and any
configuration. `CpusGivenOnce` (`AcceptedGivesOnce`) follows from the
definitions. `LInv` has a conjunct for each stage: while the reserved pool takes
cores, that it has those of the CPUs visited and that these are lower than all
others (`AtReserve`); in the loop over the pools, that those visited `Fit`
together and that the accumulators are what they leave; in the loop over the
claims, that the pools served have what the predicate says. Two lemmas carry it.
`LastCoreIsPicked`: the loop of the reservation, which takes whole cores from
the lowest CPU on and cuts the last one, takes the set that `PickReserved`
describes by comparisons. `PassesFits` and `FitsPasses`: a pool passes the
checks against the accumulators if and only if the pools visited fit together
with it, which no longer mentions an order.

**The plugin.** `PoolPolicyProofs` proves `PolicySpec => []PInv`, with `PInv` =
`IInv /\ Threads /\ Checkpoints /\ Agreed /\ Fresh`, and from it all six
invariants of the run and the safety of the pool set under the composition
(`PolicyKeepsPoolSet`). `Threads`: where the two threads can be and which of
them a reconciliation belongs to, so that no operation starts in the middle of
one. `Checkpoints`: what the kubelet and the stub have saved is a pool set that
satisfies the invariant, so that a restart from any checkpoint does. `Agreed`:
containers, assignments and capacities that the plugin, its stub and the kubelet
agree on while nothing was lost (`Known`), even though an answer carries no more
than the differences (`RelayedAll`, `RelayedIncludes`). `Fresh`: the age of the
configuration that each thread carries, compared with that in the directory.
`ToldIsExclusive` applies `ExclusiveIsExclusive` to the checkpoint instead of the
variables.

**The metrics.** `MetricsProofs` proves `MetricsSpec => []MInv` and the four
invariants of the run, over crashes and restarts. Every step is one of the
plugin, its end, or none (`StepsOfPolicy`), so `MInv` starts from `PInv`. It adds
that cache and object hold numbers (`Recorded`), that there is an object and
nothing in the cache but what was measured once Start is past its reconciliation
(`OnlyOurs`; only `MetricsReconcileDone` gets it there, `AnsweredBefore`), that
the object follows (`Followed`), and `CacheCurrent`. The hard case is a
configuration that is rejected: restoreConfig updates no metric, and the cache
stays right because it puts back the pools exactly (`ConfigInForce`).

**The webhook.** `AdmissionWebhookProofs` proves `Spec => []WInv` and the four
invariants of the run, for pods of any number of containers and any number of
pools. In a loop of validatePoolResource, of the pools visited so far only the
last one may have an amount (`Seen`), and in the loop over the limits it is that
of the requests; a container that was passed agrees once patched and is in order
by `VerdictOn` (`Past`), whatever is added to the patch for later ones
(`MutateStage`). A review that ends, ends at the first container that is not in
order (`EndsAtFirst`), so the verdict depends on no order. `SameKind` is why it
does no harm that the kind of a limit is read through the request: with no limit
without a request the two are completed in the same way, or the request is not
completed at all and the review panics.

**The hardware.** `CpuAllocatorProofs` proves `Spec => []HardwareInv`, for any
machine, any CPUs offline at first and any number of failing accesses, and from
it `TopologyComplete`, `OfflineKnown`, and the action properties
`DiscoveryRestores` and `UpdateKeepsContract`. Those speak of the ends of the
operations; `HardwareInv` has to say for each step of one what its loop has done
for the entries it has come to: what is online compared with `before`, which
CPUs are in `changed`, what the System that is being built has
(`AtUp`, `AtScan`, `AtRestore`, `AtUpdate`). `Known` is why `OfflineKnown` is
about the pool set's System between the operations only: during the discovery of
the allocator it is right about what was offline before it. `SetOnlineStep`, what
one write does, serves all the loops.

**The allocator.** `CallInv` is the invariant of a call, whose conjunct `Books`
keeps its accounts: what has been taken and what is left make up what was asked
for, what is still wanted is the difference, and the candidates to come can be
taken and have no CPU in common. From it follows `KeepsContract`
(`AllocatorKeepsContract`). That a call never ends with some of the CPUs and
still wants more, unless all that are usable were tried, is `LastThreads`:
after `StartThreads` there are as many threads to come as are wanted, or all
there are. `OrderListsAll`
shows that the id order of the code lists each unit once (by counting the ids
below one, with the pigeonhole of `FiniteSetTheorems`), and `Listing` that
candidates made from such a list have no CPU in common and leave out no idle
unit. `PackageInv` and `CoreInv` add what the three stages do in turn:
`PackageIsTakenWhole` says that a call which could take a whole free package
gets one, `OneCoreIsSplit` that it splits at most one free core. The latter has
the hypothesis `FewThreads`, that no core has more than two threads, because
only then is it true: of a core that no longer fits when the single threads come,
two threads are online and one is wanted. On a machine with four threads per core
a call that wants three may split several.

With these, what `PoolSet` supposes of the other two parts by the operators of
`Allocation` is proved of their algorithms: `AllocationOutcomes` by
`AllocatorKeepsContract`, and `PartlyUpdated` by `UpdateKeepsItsContract`.

**Assumptions.** CPUs are natural numbers, finitely many, 0 among them;
hyperthreads partition them; `Nil` and the tokens of the parser are not sets of
CPUs; every configuration has the reserved and the default pool (the parser adds
them) and is not one that makes prepareConfig panic (but in `PrepareConfig`,
which has the panic). `Nil` stands for what is not there and is not one of the
things that may be: not a container (`ContainerAssumption`), not a pool (the
code takes `""` for no pool, pool.go:304), not a resource or an outcome of a
review, not an operation on the hardware (`NilAssumption` of the two modules);
what the metrics object holds at first are numbers. A pod is a sequence of
containers with finite lists of resources, whose limits name nothing that the
requests do not (`PodAssumption`). On the machine of `Sysfs` a thread is in one
core and a core in one package, and CPU 0 is never offline
(`TopologyAssumption`, `OfflineAssumption`). TLC evaluates all of them in the
runs.

**Only model-checked.** Liveness and fairness, which the prover cannot treat:
`ReconcileEnds`, `RequestsAnswered`, `CallEnds`. All other
properties of the passing runs are stated by theorems. Two limits remain. The
proofs of `PoolSet` and of the parts it builds on are separate: that a call of
the one is a call of the other is by the construction of the modules, which share
`NodeConfig` and `Allocation`, and not itself a theorem. And the allocator's
order of threads is the one described under *Bounds*, for machines of any size.

## What the code does not do

Five claims of comments are false, and a run shows each:

- **Removed pools stay** (`removed_pools`). "check and mark deleted pools for
  removal" (pool.go:386): nothing sets the mark, and the purge in
  reconcileConfig (417) never purges anything. The pool keeps CPUs that another
  pool has now too.
- **Pools overlap** (`overlapping_pools`). "pool CPUs are available (not taken
  by other pools)" (pool.go:297) holds of configurations. Of pools it does not:
  updateAllocations puts the CPUs a pool had pinned back into its shared set
  (450) after the CPUs of the new configuration were set (420).
- **Exclusive containers without CPUs** (`stale_allocator`). The allocator
  believes CPUs to be offline that were when it first looked. If too few are
  left it returns none, without an error, and keeps those it tried.
- **Pending for ever** (`pending_forever`). A pool that lingers after its
  removal is deleted by the restoreConfig of a later rejected configuration;
  when its last container leaves, ReleaseCPU returns before the retry (606).
- **Negative usage** (`usage_negative`). `used` is the "total allocations in
  shared set" (pool.go:84). A pool that no configuration names any more lingers,
  and containers are still allocated in it; the restoreConfig of a later rejected
  configuration deletes it with them (274). When a configuration names the pool
  again it starts with a usage of 0, and what those containers give back comes
  off that (612).

`PoolSet` has these behaviours. Its properties are stated so that they say what
holds all the same: `ExclusivePinned` until an error was dropped,
`ExclusiveIsExclusive` and `CapacityKept` while the pool set is `Intact`,
`UsedNotAbove` with pools that come and go, and `UsedIsSum` in a run whose
configurations name the same pools.

Other behaviour met on the way, which no comment denies: an allocation from the
ignored or the offline pool succeeds and allocates nothing (570); CPUs of the
offline pool are not taken offline (35, 469-482); a reservation of 0 CPUs leaves
the reserved pool empty, without CPU 0 (230); containers with a request of 0 do
not keep their pool from counting as idle (392); a cpuset of `"*"` for the
reserved pool panics (240).

In the webhook (`pool-admissionwebhook.go`): when a limit was completed and the
request was not, the check of the limit reads the kind through the nil pointer
of the request (137) and the review panics; `VerdictIsOrderFree` counts it as
the verdict it is. A pod that asks for an amount of zero of one pool and for
some of another gets a verdict that depends on the map order (175), and if it is
admitted the plugin may allocate from the pool of which nothing was asked
(pool.go:119), which is why that property and `TakenIsCounted` leave such pods
out, while `AdmittedAgrees` holds for them too. What is added to an init
container has the path `/spec/initcontainers` (289), which the API server cannot
apply. Pods that are left alone still get CPUs from the plugin, of the default
or the reserved pool, that the scheduler has not counted.

In the plugin (`pool-policy-plugin.go`): the assignments that the reconciliation
in Start changes are not in the answer to Start, nor in a later one
(`AssignmentsMatchCheckpoint` leaves these runs out); the container of a lost
answer is released by the next Start while the kubelet runs it; a watcher that
reads the file while Start is in configure may leave the older configuration in
place (`LastConfigWins`); an event before the first Start ends the plugin; a
checkpoint with containers in a pool that the configuration no longer names keeps
the plugin from starting at all; the capacity of a pool that has gone stays
advertised. In the allocator a discovery that failed is never repeated, and the
next allocation that needs it dereferences nil (allocator.go:349). In the
metrics a publication without an object dereferences nil, and after a conflict
every later one fails. After a restart the releases and reallocations in Start
publish the pools that an earlier plugin has left in the object (pool.go:621, 561,
before 778), which is why `OldPoolsForgotten` speaks of what follows Start's
reconciliation.

## Not modelled

The grammar of cpusets and frequencies, JSON, the names and formats of files
under /sys and /proc, sockets, TLS and HTTP headers, command lines, the
generated client: I/O and formatting without state of their own. Clock
frequency limits, which are written and never read back. NUMA nodes, caches and
ReleaseCpus, which nothing asks for. Which of the three files of a directory is
for this node: matching of names. Of the kubelet, whatever is not in its answers
to the plugin and back.

## Plan

1. *(done)* `NodeConfig`, `PrepareConfig`, `Allocation`, `CpuAllocator`,
   `PoolSet` with the invariants proved; `AdmissionWebhook`.
2. *(done)* `PoolPolicy`, `Metrics`, `Sysfs`; `ExclusiveCpus` and the proof that
   `PoolSet` implements it; the whole of a request to the webhook.
3. *(done)* Proofs: the accounting of the pool set (`PoolSetAccounts`), the
   loops of `PrepareConfig`, and the safety of `PoolPolicy`, `Metrics` and
   `AdmissionWebhook`.
4. *(done)* Proofs of the hardware and the allocator (`CpuAllocatorProofs`).
5. What could still be proved: that the calls of the allocator implement a
   single step with one of the `AllocationOutcomes`, as a refinement, so that
   `PoolSet` and `CpuAllocator` could be composed; and a rank that decreases with
   every step of a call, of a preparation and of a reconciliation, as an action
   property: the part of their termination that needs no fairness.
