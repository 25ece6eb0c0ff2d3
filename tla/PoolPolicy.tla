----------------------------- MODULE PoolPolicy ------------------------------
(***************************************************************************)
(* The plugin of cmd/cpu-pool-policy/pool-policy-plugin.go between the     *)
(* kubelet, which calls it through the CPU plugin stub of the vendored     *)
(* kubelet sources, and the watcher of its configuration directory.        *)
(*                                                                         *)
(* Two threads use the pool set: the one that serves the kubelet, whose    *)
(* calls come one at a time, and the watcher.  Both run configure, which   *)
(* reads the configuration and stores it in p.poolCfg before it takes the  *)
(* mutex.  AddContainer and RemoveContainer hold the mutex to their end.   *)
(* Start holds it in configure only; where Start touches the pool set      *)
(* without the mutex the watcher is assumed to be elsewhere (Undisturbed). *)
(*                                                                         *)
(* What the kubelet knows, it knows from the answers of the plugin, and    *)
(* its checkpoint is what a restarted plugin starts from.  The plugin and  *)
(* the kubelet may be restarted, and the answer to a call may be lost.     *)
(***************************************************************************)
EXTENDS PoolSet

CONSTANTS
  Files,        \* contents of the configuration file, Nil if none is found
  NumReserved,  \* CPUs the kubelet reserves
  Requests,     \* what containers ask for: [pool, count] or [pool, share]
  MaxEdits,     \* bound: changes of the configuration directory
  MaxFaults     \* bound: crashes of the plugin, restarts of the kubelet, lost answers

ASSUME FilesAssumption ==
  \A f \in Files \ {Nil} : ~ParseError(f) =>
     {ParseNodeConfig(f, 0), ParseNodeConfig(f, NumReserved)} \subseteq NodeConfigs

ASSUME RequestsAssumption ==
  Requests \subseteq [pool : PoolName \cup {IgnoredPool, OfflinePool}, exclusive : BOOLEAN, amount : Nat]

ASSUME ContainerAssumption == Nil \notin Container

VARIABLES
  nodeFile,  \* the configuration file of this node
  events,    \* events of the watcher that wait to be read
  process,   \* the plugin: "down", "fresh" before the first Start, "up" after
  pc,        \* where the threads are
  parsed,    \* thread -> the configuration it has parsed but not yet stored
  poolCfg,   \* poolPolicy.poolCfg
  removing,  \* the container RemoveContainer is removing, or Nil
  stub,      \* stubState: assignments, pluginState and resources
  kubelet,   \* the same as the kubelet knows them
  edits, faults,  \* how many of each there have been
  lost,      \* has an answer been lost?
  untold,    \* has the kubelet missed a change of an assignment or a resource?
  overtaken  \* has an older configuration come after a newer one?

policyVars == <<nodeFile, events, process, pc, parsed, poolCfg, removing, stub, kubelet,
                edits, faults, lost, untold, overtaken>>
allVars    == <<vars, policyVars>>

watchVars  == <<nodeFile, events, edits>>
configVars == <<parsed, poolCfg, overtaken>>
faultVars  == <<faults, lost, untold>>

Thread == {"request", "watch"}

-----------------------------------------------------------------------------
(* What the plugin tells about the pool set, and what is left of it when   *)
(* the plugin is restarted: the CPUs to be offline are not saved.          *)

Snapshot == [pools |-> pools, containers |-> containers,
             currentCfg |-> currentCfg, pendingCfg |-> pendingCfg]

EmptyMap      == [x \in {} |-> Nil]
EmptySnapshot == [pools |-> EmptyMap, containers |-> EmptyMap,
                  currentCfg |-> Nil, pendingCfg |-> Nil]

(* A mistake: the CPUs others have exclusively are counted in.             *)
GetPoolCPUSetPinned(ps, pool) ==
  IF pool \in DOMAIN ps THEN ps[pool].shared \cup ps[pool].pinned ELSE {}

GetPoolCPUSet(ps, pool) ==
  CASE pool \notin DOMAIN ps -> {}
    [] pool \in DOMAIN ps /\ pool \in {ReservedPool, DefaultPool} ->
         ps[ReservedPool].shared \cup ps[DefaultPool].shared
    [] OTHER -> ps[pool].shared

GetPoolAssignments(ps, cs) ==
  [id \in DOMAIN cs |-> IF cs[id].cpus # {} THEN cs[id].cpus ELSE GetPoolCPUSet(ps, cs[id].pool)]

GetPoolCapacity(ps) ==
  [pool \in DOMAIN ps |-> 1000 * (Cardinality(ps[pool].shared) + Cardinality(ps[pool].pinned))]

(* The entries of one map written over those of another.                   *)
Over(new, map) ==
  [k \in DOMAIN new \cup DOMAIN map |-> IF k \in DOMAIN new THEN new[k] ELSE map[k]]

(* updateState, for a stub that has these assignments.  Two mistakes: the  *)
(* entry of the policy is not renewed, or a resource is declared but once. *)
UpdatedStubStale(assignments) ==
  [cpus     |-> Over(GetPoolAssignments(pools', containers'), assignments),
   data     |-> stub.data,
   capacity |-> Over(GetPoolCapacity(pools'), stub.capacity)]

UpdatedStubOnce(assignments) ==
  [cpus     |-> Over(GetPoolAssignments(pools', containers'), assignments),
   data     |-> Snapshot',
   capacity |-> Over(stub.capacity, GetPoolCapacity(pools'))]

UpdatedStub(assignments) ==
  [cpus     |-> Over(GetPoolAssignments(pools', containers'), assignments),
   data     |-> Snapshot',
   capacity |-> Over(GetPoolCapacity(pools'), stub.capacity)]

-----------------------------------------------------------------------------
(* Answers to the kubelet.  An answer has the new entries of the maps that *)
(* the call has changed, and the state of the policy as it is.             *)

Changed(before, after) ==
  {k \in DOMAIN before \cup DOMAIN after :
     ~(k \in DOMAIN before /\ k \in DOMAIN after /\ before[k] = after[k])}

(* A map a change has been relayed to. *)
Relayed(map, before, after) ==
  Over(Restrict(after, Changed(before, after) \cap DOMAIN after),
       Restrict(map, DOMAIN map \ Changed(before, after)))

Deliver ==
  /\ kubelet' = [cpus     |-> Relayed(kubelet.cpus, stub.cpus, stub'.cpus),
                 data     |-> stub'.data,
                 capacity |-> Relayed(kubelet.capacity, stub.capacity, stub'.capacity)]
  /\ UNCHANGED <<faultVars>>

Lose ==
  /\ faults < MaxFaults
  /\ faults' = faults + 1
  /\ lost' = TRUE
  /\ untold' = (untold \/ stub' # stub)
  /\ UNCHANGED kubelet

Answer(s) ==
  /\ stub' = s
  /\ Deliver \/ Lose

-----------------------------------------------------------------------------
(* The plugin as a process.  A panic ends it, and so does a Start that     *)
(* fails, as the registration with the kubelet then does; it is restarted. *)

NewProcess ==
  /\ pc' = [t \in Thread |-> "idle"]
  /\ parsed' = [t \in Thread |-> Nil]
  /\ poolCfg' = Nil
  /\ removing' = Nil
  /\ events' = 0
  /\ stub' = [cpus |-> EmptyMap, data |-> EmptySnapshot, capacity |-> EmptyMap]
  /\ pools' = EmptyMap /\ containers' = EmptyMap
  /\ currentCfg' = Nil /\ pendingCfg' = Nil
  /\ offlined' = {} /\ stale' = Nil
  /\ phase' = "idle" /\ todo' = {}
  /\ UNCHANGED <<online, reallocFailed>>

Exit ==
  /\ process' = "down"
  /\ NewProcess
  /\ UNCHANGED <<nodeFile, kubelet, edits, faultVars, overtaken>>

Crash ==
  /\ process # "down"
  /\ faults < MaxFaults
  /\ faults' = faults + 1
  /\ process' = "down"
  /\ NewProcess
  /\ UNCHANGED <<nodeFile, kubelet, edits, lost, untold, overtaken>>

(* initPoolPolicy starts the watcher, then the plugin registers.           *)
Launch ==
  /\ process = "down"
  /\ process' = "fresh"
  /\ UNCHANGED <<vars, watchVars, pc, configVars, removing, stub, kubelet,
                 faultVars>>

InitPolicy ==
  /\ Init
  /\ nodeFile \in Files
  /\ events = 0
  /\ process = "down"
  /\ pc = [t \in Thread |-> "idle"]
  /\ parsed = [t \in Thread |-> Nil]
  /\ poolCfg = Nil
  /\ removing = Nil
  /\ stub = [cpus |-> EmptyMap, data |-> EmptySnapshot, capacity |-> EmptyMap]
  /\ kubelet = stub
  /\ edits = 0 /\ faults = 0
  /\ lost = FALSE /\ untold = FALSE /\ overtaken = FALSE

-----------------------------------------------------------------------------
(* configure, of either thread                                             *)

Goto(t, step) == pc' = [pc EXCEPT ![t] = step]

(* The mutex is free, and Start is not using the pool set without it.  A   *)
(* mistake: configure does not take the mutex.                             *)
UnlockedAlways == TRUE

Unlocked ==
  /\ phase = "idle"
  /\ ~(pc["request"] = "finish" /\ removing # Nil)

Undisturbed == pc["request"] # "restore"

(* The new directory is moved into place as a whole, which the watcher of  *)
(* the directory above it notices.                                         *)
EditFile ==
  /\ edits < MaxEdits
  /\ edits' = edits + 1
  /\ nodeFile' \in Files \ {nodeFile}
  /\ events' = IF process = "down" THEN 0 ELSE events + 1
  /\ UNCHANGED <<vars, process, pc, configVars, removing, stub, kubelet,
                 faultVars>>

Parsable == nodeFile # Nil /\ ~ParseError(nodeFile)

(* Before the first Start the watcher knows of no reserved CPUs.           *)
Parsed(f) == ParseNodeConfig(f, IF process = "up" THEN NumReserved ELSE 0)

ReadConfig(t) ==
  /\ IF t = "watch" THEN process # "down" /\ pc[t] = "idle" /\ events > 0
                    ELSE pc[t] = "read"
  /\ IF Parsable
       THEN /\ parsed' = [parsed EXCEPT ![t] = Parsed(nodeFile)]
            /\ Goto(t, "store")
            /\ events' = IF t = "watch" THEN events - 1 ELSE events
            /\ overtaken' = (overtaken \/ process # "up")
            /\ UNCHANGED <<vars, nodeFile, process, poolCfg, removing, stub,
                           kubelet, edits, faultVars>>
       ELSE IF t = "watch"
         THEN /\ events' = events - 1
              /\ UNCHANGED <<vars, nodeFile, process, pc, configVars,
                             removing, stub, kubelet, edits, faultVars>>
         ELSE Exit

(* A mistake: the first configuration stays.                               *)
StoreConfigFirst(t) ==
  /\ pc[t] = "store"
  /\ poolCfg' = IF poolCfg = Nil THEN parsed[t] ELSE poolCfg
  /\ parsed' = [parsed EXCEPT ![t] = Nil]
  /\ Goto(t, "lock")
  /\ UNCHANGED <<vars, watchVars, process, removing, stub, kubelet, faultVars,
                 overtaken>>

StoreConfig(t) ==
  /\ pc[t] = "store"
  /\ poolCfg' = parsed[t]
  /\ parsed' = [parsed EXCEPT ![t] = Nil]
  /\ Goto(t, "lock")
  /\ overtaken' = (overtaken \/ (t = "watch" /\ pc["request"] = "store"))
  /\ UNCHANGED <<vars, watchVars, process, removing, stub, kubelet,
                 faultVars>>

(* A configuration that cannot be applied makes Start fail, and the plugin *)
(* end; the watcher leaves it pending.  Without a pool set the call panics.*)
(* A mistake: Start tries again.                                           *)
ApplyConfigAgain(t) ==
  /\ pc[t] = "lock"
  /\ Unlocked /\ Undisturbed
  /\ Reconcile(poolCfg, pools, containers)
  /\ Goto(t, IF phase' = "reallocate" THEN "reconcile"
             ELSE IF t = "watch" THEN "idle" ELSE "read")
  /\ UNCHANGED <<watchVars, process, configVars, removing, stub, kubelet, faultVars>>

ApplyConfig(t) ==
  /\ pc[t] = "lock"
  /\ Unlocked /\ Undisturbed
  /\ IF process = "fresh" \/ (t = "request" /\ ~CanPrepare(poolCfg, pools))
       THEN Exit
       ELSE /\ Reconcile(poolCfg, pools, containers)
            /\ Goto(t, IF phase' = "idle" THEN "idle" ELSE "reconcile")
            /\ UNCHANGED <<watchVars, process, configVars, removing, stub,
                           kubelet, faultVars>>

(* The rest of a reconciliation, for the thread that has begun it.         *)
ReconcileContainer ==
  /\ \E id \in Container : Reallocate(id)
  /\ UNCHANGED policyVars

ReconcileDone ==
  /\ FinishReconcile
  /\ pc' = [t \in Thread |->
              IF pc[t] # "reconcile" THEN pc[t]
              ELSE IF t = "watch" THEN "idle" ELSE "finish"]
  /\ UNCHANGED <<watchVars, process, configVars, removing, stub, kubelet,
                 faultVars>>

-----------------------------------------------------------------------------
(* Start.  The kubelet calls it when a plugin registers, and again when it *)
(* has been restarted itself.  The stub begins with what the kubelet has   *)
(* saved; the pool set is created anew and restored from it.               *)

Start ==
  /\ pc["request"] = "idle"
  /\ phase = "idle"
  /\ \/ process = "fresh" /\ UNCHANGED faults
     \/ process = "up" /\ faults < MaxFaults /\ faults' = faults + 1
  /\ process' = "up"
  /\ stub' = [kubelet EXCEPT !.capacity = EmptyMap]
  /\ pools' = kubelet.data.pools
  /\ containers' = kubelet.data.containers
  /\ currentCfg' = kubelet.data.currentCfg
  /\ pendingCfg' = kubelet.data.pendingCfg
  /\ offlined' = {}
  /\ Goto("request", "restore")
  /\ UNCHANGED <<online, stale, phase, todo, reallocFailed, watchVars,
                 configVars, removing, kubelet, lost, untold>>

(* Containers the kubelet no longer has give back their CPUs, which may    *)
(* reconcile a configuration that was pending.  A mistake: they are kept.  *)
LingeringKept == {}

Lingering == DOMAIN containers \ DOMAIN stub.cpus

ReleaseLingering ==
  /\ pc["request"] = "restore"
  /\ \E id \in Lingering : ReleaseCPU(id)
  /\ UNCHANGED policyVars

RestoreState ==
  /\ pc["request"] = "restore"
  /\ phase = "idle"
  /\ Lingering = {}
  /\ Goto("request", "read")
  /\ UNCHANGED <<vars, watchVars, process, configVars, removing, stub,
                 kubelet, faultVars>>

(* The answer to Start has all resources and no assignment.                *)
FinishStart ==
  /\ pc["request"] = "finish" /\ removing = Nil
  /\ phase = "idle"
  /\ UNCHANGED vars
  /\ stub' = UpdatedStub(stub.cpus)
  /\ kubelet' = [kubelet EXCEPT !.data = stub'.data, !.capacity = Over(stub'.capacity, @)]
  /\ untold' = (untold \/ stub'.cpus # stub.cpus)
  /\ Goto("request", "idle")
  /\ UNCHANGED <<watchVars, process, configVars, removing, faults, lost>>

-----------------------------------------------------------------------------
(* Requests for containers                                                 *)

Serving == process = "up" /\ pc["request"] = "idle"

(* The branches of AddContainer: a request for whole CPUs is exclusive.  A *)
(* share of a pool that is not for allocation is granted and not recorded. *)
Allocate(id, r) ==
  \/ r.exclusive /\ AllocateCPUs(id, r.pool, r.amount)
  \/ ~r.exclusive /\ AllocateCPU(id, r.pool, r.amount)
  \/ ~r.exclusive /\ ~AllowedPool(r.pool) /\ id \notin DOMAIN containers /\ UNCHANGED vars

(* An allocation that fails changes nothing and is answered by an error.   *)
AddContainer(id, r) ==
  /\ Serving /\ Unlocked
  /\ id \notin DOMAIN kubelet.cpus
  /\ Allocate(id, r)
  /\ Answer(UpdatedStub(stub.cpus))
  /\ UNCHANGED <<watchVars, process, pc, configVars, removing>>

(* The call is repeated: there is nothing to do, and nothing to relay,     *)
(* unless the pool is gone, which is a nil dereference.                    *)
AddContainerAgain(id) ==
  /\ Serving /\ Unlocked
  /\ id \in DOMAIN containers \ DOMAIN kubelet.cpus
  /\ IF containers[id].cpus = {} /\ containers[id].pool \notin DOMAIN pools
       THEN Exit
       ELSE /\ Answer(stub)
            /\ UNCHANGED <<vars, watchVars, process, pc, configVars, removing>>

(* RemoveContainer releases what the container has, which may go on to     *)
(* reconcile a pending configuration, then updates the state.              *)
RemoveContainer(id) ==
  /\ Serving /\ Unlocked
  /\ id \in DOMAIN containers \cup DOMAIN stub.cpus \cup DOMAIN kubelet.cpus
  /\ IF id \in DOMAIN containers THEN ReleaseCPU(id) ELSE UNCHANGED vars
  /\ removing' = id
  /\ Goto("request", IF phase' = "idle" THEN "finish" ELSE "reconcile")
  /\ UNCHANGED <<watchVars, process, configVars, stub, kubelet, faultVars>>

FinishRemove ==
  /\ pc["request"] = "finish" /\ removing # Nil
  /\ UNCHANGED vars
  /\ Answer(UpdatedStub(Delete(stub.cpus, removing)))
  /\ removing' = Nil
  /\ Goto("request", "idle")
  /\ UNCHANGED <<watchVars, process, configVars>>

(* A container that ends while nobody serves is dropped by the kubelet.    *)
ContainerEnds(id) ==
  /\ process # "up"
  /\ id \in DOMAIN kubelet.cpus
  /\ kubelet' = [kubelet EXCEPT !.cpus = Delete(@, id)]
  /\ UNCHANGED <<vars, watchVars, process, pc, configVars, removing, stub,
                 faultVars>>

-----------------------------------------------------------------------------
NextPolicy ==
  \/ EditFile \/ Launch \/ Crash \/ Start
  \/ \E t \in Thread : ReadConfig(t) \/ StoreConfig(t) \/ ApplyConfig(t)
  \/ ReconcileContainer \/ ReconcileDone
  \/ ReleaseLingering \/ RestoreState \/ FinishStart \/ FinishRemove
  \/ \E id \in Container : \/ \E r \in Requests : AddContainer(id, r)
                           \/ AddContainerAgain(id)
                           \/ RemoveContainer(id)
                           \/ ContainerEnds(id)

(* The thread that serves the kubelet keeps running, gets the mutex in the *)
(* end if it waits for it (sync.Mutex hands it over after a millisecond),  *)
(* and a reconciliation, whichever thread has begun it, goes on.           *)
RequestStep ==
  \/ ReadConfig("request") \/ StoreConfig("request")
  \/ ReleaseLingering \/ RestoreState \/ FinishStart \/ FinishRemove

PolicySpec ==
  /\ InitPolicy /\ [][NextPolicy]_allVars
  /\ WF_allVars(RequestStep)
  /\ SF_allVars(ApplyConfig("request"))
  /\ WF_allVars(ReconcileContainer \/ ReconcileDone)

-----------------------------------------------------------------------------
(* Safety                                                                  *)

PolicyTypeOK ==
  /\ TypeOK
  /\ process \in {"down", "fresh", "up"}
  /\ pc["watch"] \in {"idle", "store", "lock", "reconcile"}
  /\ pc["request"] \in {"idle", "restore", "read", "store", "lock", "reconcile", "finish"}
  /\ phase = "reallocate" =>
       "reconcile" \in {pc[t] : t \in Thread} \/ pc["request"] = "restore"
  /\ {pc[t] : t \in Thread} # {"reconcile"}

Quiet == process = "up" /\ \A t \in Thread : pc[t] = "idle"

(* The kubelet's assignments, put together from what every single answer   *)
(* has changed, are those of the pool set in its checkpoint: whatever of   *)
(* requests, reconfigurations by the watcher and restarts came in between. *)
(* Not so if an answer was lost, or if Start has changed an assignment.    *)
AssignmentsMatchCheckpoint ==
  Serving /\ ~untold =>
    kubelet.cpus = GetPoolAssignments(kubelet.data.pools, kubelet.data.containers)

(* A container has an allocation in the pool set exactly if the kubelet    *)
(* knows it, across crashes of the plugin, restarts of the kubelet and     *)
(* containers that end meanwhile, as long as no answer is lost.            *)
RestartKeepsContainers ==
  Serving /\ ~lost => DOMAIN containers = DOMAIN kubelet.cpus

(* The kubelet never holds two containers to the same CPU when one of them *)
(* has it exclusively, as long as it is told of every change, and the pool *)
(* set it was last told of is intact.                                      *)
ToldIntact ==
  LET d == kubelet.data IN
  /\ ~reallocFailed
  /\ \A pool \in DOMAIN d.pools :
       /\ pool \in DOMAIN d.currentCfg
       /\ d.pools[pool].shared \cup d.pools[pool].pinned \subseteq d.pools[pool].cfg
  /\ \A id \in DOMAIN d.containers : d.containers[id].pool \in DOMAIN d.pools

ToldExclusive ==
  ~untold /\ kubelet.data.currentCfg # Nil /\ ToldIntact =>
    \A i \in ExclusiveIn(kubelet.data.containers) \cap DOMAIN kubelet.cpus :
      \A j \in DOMAIN kubelet.cpus \ {i} : kubelet.cpus[i] \cap kubelet.cpus[j] = {}

(* The kubelet advertises the capacity each pool had when it was last told *)
(* of the pool set.                                                        *)
CapacityRelayed ==
  ~lost =>
    \A pool \in DOMAIN kubelet.data.pools :
       kubelet.capacity[pool] = GetPoolCapacity(kubelet.data.pools)[pool]

(* When the threads rest, the configuration they have last taken is that   *)
(* of the file, however the reads and stores of the two were interleaved;  *)
(* unless the watcher overtook Start, or read before there was a Start.    *)
LastConfigWins ==
  Quiet /\ events = 0 /\ ~overtaken /\ Parsable => poolCfg = Parsed(nodeFile)

-----------------------------------------------------------------------------
(* Liveness                                                                *)

(* Every call of the kubelet comes to its end, the watcher and the pending *)
(* configurations notwithstanding.                                         *)
RequestsAnswered == pc["request"] # "idle" ~> pc["request"] = "idle"

=============================================================================
