-------------------------- MODULE PoolPolicyProofs --------------------------
(***************************************************************************)
(* The safety of the plugin, for any number of CPUs, containers, edits and *)
(* faults.  PInv is what every step preserves.  It has four parts: where   *)
(* the threads can be and who may use the pool set then (Threads); that    *)
(* what a checkpoint holds is a pool set that satisfies IInv, so that a    *)
(* restart begins with one (Checkpoints); which containers and values the  *)
(* kubelet and the stub agree on, until an answer is lost (Agreed); and    *)
(* how old the configuration is that a thread carries (Fresh).             *)
(***************************************************************************)
EXTENDS PoolPolicy, PoolSetAccounts

Step == {"idle", "restore", "read", "store", "lock", "reconcile", "finish"}

(* Where the threads are.  RemoveContainer holds the mutex to its end.     *)
Threads ==
  /\ nodeFile \in Files
  /\ events \in Nat
  /\ process \in {"down", "fresh", "up"}
  /\ pc \in [Thread -> Step] /\ pc["watch"] \in {"idle", "store", "lock", "reconcile"}
  /\ parsed \in [Thread -> {Nil} \cup NodeConfigs]
  /\ poolCfg \in {Nil} \cup NodeConfigs
  /\ process # "up" => pc["request"] = "idle"
  /\ process = "down" => pc["watch"] = "idle"
  /\ phase = "reallocate" =>
       pc["request"] \in {"reconcile", "restore"} \/ pc["watch"] = "reconcile"
  /\ \A t \in Thread : pc[t] = "reconcile" => phase = "reallocate"
  /\ ~(pc["request"] = "reconcile" /\ pc["watch"] = "reconcile")
  /\ removing # Nil => pc["request"] \in {"reconcile", "finish"}
  /\ removing # Nil /\ pc["request"] = "finish" => phase = "idle"
  /\ lost \in BOOLEAN /\ untold \in BOOLEAN /\ overtaken \in BOOLEAN

(* A checkpoint is the state of an idle pool set; had a reallocation       *)
(* failed?                                                                 *)
DataSafe(d, failed) ==
  /\ PoolsTyped(d.pools) /\ ContainersTyped(d.containers)
  /\ d.currentCfg \in {Nil} \cup Acceptable
  /\ d.pendingCfg \in {Nil} \cup NodeConfigs
  /\ Apart(d.pools)
  /\ Owned(d.pools, d.containers, DOMAIN d.containers)
  /\ ~failed => Pinned(d.pools, d.containers, ExclusiveIn(d.containers))
  /\ d.currentCfg = Nil => DOMAIN d.pools = {}
  /\ d.currentCfg # Nil =>
       \A pool \in DOMAIN d.currentCfg :
          pool \in DOMAIN d.pools /\ d.pools[pool].cfg = CpusOf[d.currentCfg][pool]

Checkpoints == DataSafe(stub.data, reallocFailed) /\ DataSafe(kubelet.data, reallocFailed)

(* The first map has the entries of the second.                            *)
Includes(f, g) == \A k \in DOMAIN g : k \in DOMAIN f /\ f[k] = g[k]

IsMap(f)  == f = [x \in DOMAIN f |-> f[x]]
IsStub(s) ==
  /\ s = [cpus |-> s.cpus, data |-> s.data, capacity |-> s.capacity]
  /\ IsMap(s.cpus) /\ IsMap(s.capacity)

(* The containers.  In Start those the kubelet has dropped are still to be *)
(* released, and RemoveContainer has yet to remove one from the stub.      *)
SameContainers ==
  /\ DOMAIN kubelet.cpus \subseteq DOMAIN kubelet.data.containers
  /\ process = "up" =>
       /\ DOMAIN kubelet.cpus = DOMAIN stub.cpus
       /\ pc["request"] = "restore" => DOMAIN stub.cpus \subseteq DOMAIN containers
       /\ pc["request"] # "restore" /\ removing = Nil => DOMAIN containers = DOMAIN stub.cpus
       /\ removing # Nil => DOMAIN containers = DOMAIN stub.cpus \ {removing}

(* In the calls of the kubelet other than Start.                           *)
Started == process = "up" /\ (pc["request"] = "idle" \/ removing # Nil)

SameCpus ==
  /\ \A id \in DOMAIN kubelet.cpus :
       kubelet.cpus[id] = GetPoolAssignments(kubelet.data.pools, kubelet.data.containers)[id]
  /\ process = "up" => kubelet.cpus = stub.cpus /\ kubelet.data = stub.data
  /\ Started =>
       stub.cpus = GetPoolAssignments(stub.data.pools, stub.data.containers)

SameCapacities ==
  /\ Includes(kubelet.capacity, GetPoolCapacity(kubelet.data.pools))
  /\ Started => Includes(kubelet.capacity, stub.capacity)
  /\ process = "up" /\ ~Started => DOMAIN stub.capacity = {}

Agreed ==
  /\ IsStub(stub) /\ IsStub(kubelet)
  /\ ~lost \/ ~untold => SameContainers
  /\ ~untold => SameCpus
  /\ ~lost => SameCapacities

(* The configuration the threads carry, when no event waits to be read:    *)
(* the watcher has read the file as it is, or else the last to store a     *)
(* configuration has or will have.                                         *)
Fresh ==
  ~overtaken =>
    /\ process # "up" => pc["watch"] # "store"
    /\ process = "up" /\ events = 0 /\ pc["watch"] = "store" =>
         parsed["watch"] = ParseNodeConfig(nodeFile, NumReserved)
    /\ process = "up" /\ events = 0 /\ Parsable /\ pc["watch"] # "store" =>
         /\ pc["request"] = "store" =>
              parsed["request"] = ParseNodeConfig(nodeFile, NumReserved)
         /\ pc["request"] \notin {"restore", "read", "store"} =>
              poolCfg = ParseNodeConfig(nodeFile, NumReserved)

PInv == IInv /\ Threads /\ Checkpoints /\ Agreed /\ Fresh

-----------------------------------------------------------------------------
(* The pool set                                                            *)

(* Steps of the threads that do not touch the pool set.                    *)
LEMMA StutterSafe == IInv /\ UNCHANGED vars => IInv'
BY NextIInv

(* A plugin that is started anew has an empty pool set.                    *)
LEMMA NewProcessSafe == IInv /\ NewProcess => IInv'
<1> SUFFICES ASSUME IInv, NewProcess PROVE IInv'
  OBVIOUS
<1>1. /\ DOMAIN pools' = {} /\ DOMAIN containers' = {}
      /\ currentCfg' = Nil /\ pendingCfg' = Nil /\ offlined' = {} /\ stale' = Nil
      /\ phase' = "idle" /\ todo' = {}
      /\ UNCHANGED <<online, reallocFailed>>
  BY DEF NewProcess, EmptyMap
<1>2. TypeOK'
  BY <1>1 DEF IInv, TypeOK
<1> QED BY <1>1, <1>2 DEF IInv, SharedPinnedDisjoint, PinnedOwned, ExclusivePinned,
                          ConfigInForce, Settled, ExclusiveIn

(* Start begins with a checkpoint.                                         *)
LEMMA StartSafe ==
  ASSUME IInv, DataSafe(kubelet.data, reallocFailed), Start
  PROVE  IInv'
<1>1. /\ pools' = kubelet.data.pools /\ containers' = kubelet.data.containers
      /\ currentCfg' = kubelet.data.currentCfg /\ pendingCfg' = kubelet.data.pendingCfg
      /\ offlined' = {} /\ phase = "idle"
      /\ UNCHANGED <<online, stale, phase, todo, reallocFailed>>
  BY DEF Start
<1>2. todo = {}
  BY <1>1 DEF IInv, TypeOK
<1>3. TypeOK'
  BY <1>1, <1>2 DEF DataSafe, IInv, TypeOK, PoolsTyped, ContainersTyped
<1>4. SharedPinnedDisjoint' /\ PinnedOwned'
  BY <1>1, <1>2 DEF DataSafe, SharedPinnedDisjoint, PinnedOwned, Apart, Owned
<1>5. ExclusivePinned'
  <2>1. Settled' = ExclusiveIn(containers')
    BY <1>1, <1>2 DEF Settled, ExclusiveIn
  <2> QED BY <1>1, <2>1 DEF DataSafe, ExclusivePinned, Pinned
<1>6. ConfigInForce'
  BY <1>1 DEF DataSafe, ConfigInForce, InForce, CpusOf
<1> QED BY <1>3, <1>4, <1>5, <1>6 DEF IInv

(* Each step of the plugin does to the pool set what PoolSet's own do, or  *)
(* empties it, or takes up a checkpoint.                                   *)
LEMMA PoolsStaySafe ==
  ASSUME PInv, [NextPolicy]_allVars
  PROVE  IInv'
<1> USE DEF PInv
<1>1. ASSUME UNCHANGED vars PROVE IInv'
  BY <1>1, StutterSafe
<1>2. ASSUME NewProcess PROVE IInv'
  BY <1>2, NewProcessSafe
<1>3. CASE EditFile \/ Launch \/ RestoreState \/ FinishStart \/ FinishRemove
  BY <1>1, <1>3 DEF EditFile, Launch, RestoreState, FinishStart, FinishRemove
<1>4. CASE Crash
  BY <1>2, <1>4 DEF Crash
<1>5. CASE Start
  BY <1>5, StartSafe DEF Checkpoints
<1>6. ASSUME NEW t \in Thread, ReadConfig(t) \/ StoreConfig(t) PROVE IInv'
  BY <1>1, <1>2, <1>6 DEF ReadConfig, StoreConfig, Exit
<1>7. ASSUME NEW t \in Thread, ApplyConfig(t) PROVE IInv'
  <2>1. CASE Exit
    BY <1>2, <2>1 DEF Exit
  <2>2. CASE Reconcile(poolCfg, pools, containers)
    <3>1. phase = "idle" /\ poolCfg \in {Nil} \cup NodeConfigs
      BY <1>7 DEF ApplyConfig, Unlocked, Threads
    <3> QED BY <2>2, <3>1, IdleIsHanded, ReconcileSafe
  <2> QED BY <1>7, <2>1, <2>2 DEF ApplyConfig
<1>8. CASE ReconcileContainer \/ ReconcileDone
  BY <1>8, ReallocateSafe, FinishReconcileSafe DEF ReconcileContainer, ReconcileDone
<1>9. CASE ReleaseLingering
  <2>1. PICK id \in Lingering : ReleaseCPU(id)
    BY <1>9 DEF ReleaseLingering
  <2>2. id \in Container
    BY <2>1 DEF Lingering, IInv, TypeOK
  <2> QED BY <2>1, <2>2, ReleaseSafe
<1>10. ASSUME NEW id \in Container, NEW r \in Requests, AddContainer(id, r) PROVE IInv'
  <2>1. r.amount \in Nat
    BY RequestsAssumption
  <2> QED BY <1>1, <1>10, <2>1, AllocateCPUsSafe, AllocateCPUSafe DEF AddContainer, Allocate
<1>11. ASSUME NEW id \in Container, AddContainerAgain(id) \/ ContainerEnds(id) PROVE IInv'
  BY <1>1, <1>2, <1>11 DEF AddContainerAgain, ContainerEnds, Exit
<1>12. ASSUME NEW id \in Container, RemoveContainer(id) PROVE IInv'
  BY <1>1, <1>12, ReleaseSafe DEF RemoveContainer
<1>13. CASE UNCHANGED allVars
  BY <1>1, <1>13 DEF allVars
<1> QED BY <1>3, <1>4, <1>5, <1>6, <1>7, <1>8, <1>9, <1>10, <1>11, <1>12, <1>13
        DEF NextPolicy

-----------------------------------------------------------------------------
(* The threads                                                             *)

(* A plugin that has ended has no thread anywhere.                         *)
LEMMA NewProcessThreads ==
  ASSUME Threads, NewProcess, process' = "down", UNCHANGED <<nodeFile, overtaken>>,
         lost' \in BOOLEAN, untold' \in BOOLEAN
  PROVE  Threads'
BY DEF Threads, NewProcess, Thread, Step

(* What is parsed is a configuration of the node.                          *)
LEMMA ParsedConfig == Threads /\ Parsable => Parsed(nodeFile) \in NodeConfigs
BY FilesAssumption DEF Threads, Parsable, Parsed

(* A reconciliation begins in phase "idle", which the phase may stay in.   *)
LEMMA ReconcilePhase ==
  ASSUME NEW ncfg, NEW ps, NEW cs, Reconcile(ncfg, ps, cs), phase = "idle"
  PROVE  phase' \in {"idle", "reallocate"} /\ DOMAIN containers' = DOMAIN cs
BY DEF Reconcile

(* A release needs an idle pool set, and removes one container.            *)
LEMMA ReleasePhase ==
  ASSUME NEW id, ReleaseCPU(id)
  PROVE  /\ phase = "idle" /\ phase' \in {"idle", "reallocate"}
         /\ id \in DOMAIN containers /\ DOMAIN containers' = DOMAIN containers \ {id}
<1>1. DOMAIN Delete(containers, id) = DOMAIN containers \ {id}
  BY DEF Delete, Restrict
<1> QED BY <1>1, ReconcilePhase DEF ReleaseCPU

(* An allocation leaves the pool set idle.                                 *)
LEMMA AllocatePhase ==
  ASSUME NEW id, NEW r, Allocate(id, r), phase = "idle"
  PROVE  phase' = "idle" /\ UNCHANGED reallocFailed
BY DEF Allocate, AllocateCPUs, AllocateCPU, vars

(* An allocation adds to the containers there are.                         *)
LEMMA AllocateAdds ==
  ASSUME NEW id, NEW r, Allocate(id, r)
  PROVE  DOMAIN containers \subseteq DOMAIN containers'
<1>1. \A value : DOMAIN containers \subseteq DOMAIN Put(containers, id, value)
  BY DEF Put
<1>2. ASSUME NEW pool, NEW count, TakeCPUs(id, pool, count)
      PROVE  DOMAIN containers \subseteq DOMAIN containers'
  <2>1. PICK value : containers' = Put(containers, id, value)
    BY <1>2 DEF TakeCPUs
  <2> QED BY <1>1, <2>1
<1>3. ASSUME NEW pool, NEW req, TakeShare(id, pool, req)
      PROVE  DOMAIN containers \subseteq DOMAIN containers'
  <2>1. PICK value : containers' = Put(containers, id, value)
    BY <1>3 DEF TakeShare
  <2> QED BY <1>1, <2>1
<1> QED BY <1>2, <1>3 DEF Allocate, AllocateCPUs, AllocateCPU, vars

(* Answers leave the flags Boolean.                                        *)
LEMMA AnswerFlags ==
  ASSUME NEW s, Answer(s), Threads
  PROVE  lost' \in BOOLEAN /\ untold' \in BOOLEAN
BY DEF Answer, Deliver, Lose, faultVars, Threads

(* No step takes a thread where it may not be: the two never reconcile at  *)
(* once, and a removal keeps the mutex.                                    *)
LEMMA ThreadsKept ==
  ASSUME PInv, [NextPolicy]_allVars
  PROVE  Threads'
<1> USE DEF PInv
<1>0. phase \in {"idle", "reallocate"} /\ Nil \notin Container
  BY ContainerAssumption DEF IInv, TypeOK
<1>1. ASSUME UNCHANGED <<process, pc, parsed, poolCfg, removing, overtaken, lost, untold>>,
             phase' = phase, nodeFile' \in Files, events' \in Nat
      PROVE  Threads'
  BY <1>1 DEF Threads
<1>2. CASE Exit
  BY <1>2, NewProcessThreads DEF Exit, faultVars, Threads
<1>3. CASE EditFile
  BY <1>1, <1>3 DEF EditFile, configVars, faultVars, vars, Threads
<1>4. CASE Launch
  BY <1>4 DEF Launch, configVars, faultVars, watchVars, vars, Threads
<1>5. CASE Crash
  BY <1>5, NewProcessThreads DEF Crash, Threads
<1>6. CASE Start
  BY <1>6 DEF Start, Goto, configVars, watchVars, Threads, Thread, Step
<1>7. ASSUME NEW t \in Thread, ReadConfig(t) PROVE Threads'
  <2>1. CASE Parsable
    <3>1. /\ pc[t] \in {"idle", "read"} /\ (t = "watch" => process # "down" /\ events > 0)
          /\ (t = "request" => pc[t] = "read")
          /\ parsed' = [parsed EXCEPT ![t] = Parsed(nodeFile)]
          /\ pc' = [pc EXCEPT ![t] = "store"]
          /\ events' = IF t = "watch" THEN events - 1 ELSE events
          /\ overtaken' = (overtaken \/ process # "up")
          /\ UNCHANGED <<phase, nodeFile, process, poolCfg, removing, lost, untold>>
      BY <1>7, <2>1 DEF ReadConfig, Goto, Thread, vars, faultVars
    <3>2. Parsed(nodeFile) \in NodeConfigs
      BY <2>1, ParsedConfig
    <3> QED BY <1>0, <3>1, <3>2 DEF Threads, Thread, Step
  <2>2. CASE ~Parsable /\ t = "watch"
    BY <1>1, <1>7, <2>2 DEF ReadConfig, configVars, faultVars, vars, Threads
  <2> QED BY <1>2, <1>7, <2>1, <2>2 DEF ReadConfig
<1>8. ASSUME NEW t \in Thread, StoreConfig(t) PROVE Threads'
  <2>1. /\ pc[t] = "store" /\ poolCfg' = parsed[t]
        /\ parsed' = [parsed EXCEPT ![t] = Nil] /\ pc' = [pc EXCEPT ![t] = "lock"]
        /\ overtaken' \in BOOLEAN
        /\ UNCHANGED <<phase, nodeFile, events, process, removing, lost, untold>>
    BY <1>8 DEF StoreConfig, Goto, vars, watchVars, faultVars, Threads
  <2> QED BY <1>0, <2>1 DEF Threads, Thread, Step
<1>9. ASSUME NEW t \in Thread, ApplyConfig(t) PROVE Threads'
  <2>1. CASE ~Exit
    <3>1. /\ pc[t] = "lock" /\ Unlocked /\ Undisturbed /\ process # "fresh"
          /\ Reconcile(poolCfg, pools, containers)
          /\ pc' = [pc EXCEPT ![t] = IF phase' = "idle" THEN "idle" ELSE "reconcile"]
          /\ UNCHANGED <<nodeFile, events, process, parsed, poolCfg, overtaken, removing, lost, untold>>
      BY <1>9, <2>1 DEF ApplyConfig, Goto, watchVars, configVars, faultVars
    <3>2. phase = "idle" /\ phase' \in {"idle", "reallocate"}
      BY <3>1, ReconcilePhase DEF Unlocked
    <3> QED BY <3>1, <3>2 DEF Threads, Thread, Step, Unlocked, Undisturbed
  <2> QED BY <1>2, <2>1
<1>10. CASE ReconcileContainer
  <2>1. phase' = phase
    BY <1>10 DEF ReconcileContainer, Reallocate
  <2> QED BY <1>1, <1>10, <2>1 DEF ReconcileContainer, policyVars, Threads
<1>11. CASE ReconcileDone
  <2>1. /\ phase = "reallocate" /\ phase' = "idle"
        /\ pc' = [t \in Thread |->
                     IF pc[t] # "reconcile" THEN pc[t]
                     ELSE IF t = "watch" THEN "idle" ELSE "finish"]
        /\ UNCHANGED <<nodeFile, events, process, parsed, poolCfg, overtaken, removing, lost, untold>>
    BY <1>11 DEF ReconcileDone, FinishReconcile, watchVars, configVars, faultVars
  <2> QED BY <2>1 DEF Threads, Thread, Step
<1>12. CASE ReleaseLingering
  <2>1. phase = "idle" /\ phase' \in {"idle", "reallocate"} /\ pc["request"] = "restore"
    BY <1>12, ReleasePhase DEF ReleaseLingering
  <2> QED BY <1>12, <2>1 DEF ReleaseLingering, policyVars, Threads, Thread
<1>13. CASE RestoreState
  <2>1. /\ pc["request"] = "restore" /\ phase = "idle" /\ pc' = [pc EXCEPT !["request"] = "read"]
        /\ UNCHANGED <<phase, nodeFile, events, process, parsed, poolCfg, overtaken, removing, lost, untold>>
    BY <1>13 DEF RestoreState, Goto, vars, watchVars, configVars, faultVars
  <2> QED BY <2>1 DEF Threads, Thread, Step
<1>14. CASE FinishStart
  <2>1. /\ pc["request"] = "finish" /\ removing = Nil /\ phase = "idle"
        /\ pc' = [pc EXCEPT !["request"] = "idle"] /\ untold' \in BOOLEAN
        /\ UNCHANGED <<phase, nodeFile, events, process, parsed, poolCfg, overtaken, removing, lost>>
    BY <1>14 DEF FinishStart, Goto, vars, watchVars, configVars, Threads
  <2> QED BY <2>1 DEF Threads, Thread, Step
<1>15. CASE FinishRemove
  <2>1. /\ pc["request"] = "finish" /\ removing # Nil /\ removing' = Nil
        /\ pc' = [pc EXCEPT !["request"] = "idle"]
        /\ UNCHANGED <<phase, nodeFile, events, process, parsed, poolCfg, overtaken>>
    BY <1>15 DEF FinishRemove, Goto, vars, watchVars, configVars
  <2>2. lost' \in BOOLEAN /\ untold' \in BOOLEAN
    BY <1>15, AnswerFlags DEF FinishRemove
  <2> QED BY <2>1, <2>2 DEF Threads, Thread, Step
<1>16. ASSUME NEW id \in Container, NEW r \in Requests, AddContainer(id, r) PROVE Threads'
  <2>1. lost' \in BOOLEAN /\ untold' \in BOOLEAN
    BY <1>16, AnswerFlags DEF AddContainer
  <2>2. phase' = phase
    BY <1>16, AllocatePhase DEF AddContainer, Unlocked
  <2> QED BY <1>16, <2>1, <2>2 DEF AddContainer, watchVars, configVars, Threads
<1>17. ASSUME NEW id \in Container, AddContainerAgain(id) PROVE Threads'
  <2>1. CASE ~Exit
    <3>1. lost' \in BOOLEAN /\ untold' \in BOOLEAN
      BY <1>17, <2>1, AnswerFlags DEF AddContainerAgain
    <3> QED BY <1>17, <2>1, <3>1 DEF AddContainerAgain, watchVars, configVars, vars, Threads
  <2> QED BY <1>2, <2>1
<1>18. ASSUME NEW id \in Container, RemoveContainer(id) PROVE Threads'
  <2>1. /\ process = "up" /\ pc["request"] = "idle" /\ phase = "idle" /\ removing' = id
        /\ pc' = [pc EXCEPT !["request"] = IF phase' = "idle" THEN "finish" ELSE "reconcile"]
        /\ UNCHANGED <<nodeFile, events, process, parsed, poolCfg, overtaken, lost, untold>>
    BY <1>18 DEF RemoveContainer, Serving, Unlocked, Goto, watchVars, configVars, faultVars
  <2>2. phase' \in {"idle", "reallocate"}
    BY <1>18, <2>1, ReleasePhase DEF RemoveContainer, vars
  <2> QED BY <2>1, <2>2 DEF Threads, Thread, Step
<1>19. ASSUME NEW id \in Container, ContainerEnds(id) PROVE Threads'
  BY <1>1, <1>19 DEF ContainerEnds, watchVars, configVars, faultVars, vars, Threads
<1>20. CASE UNCHANGED allVars
  BY <1>1, <1>20 DEF allVars, policyVars, vars, Threads
<1> QED BY <1>3, <1>4, <1>5, <1>6, <1>7, <1>8, <1>9, <1>10, <1>11, <1>12, <1>13, <1>14,
           <1>15, <1>16, <1>17, <1>18, <1>19, <1>20 DEF NextPolicy

-----------------------------------------------------------------------------
(* The checkpoints                                                         *)

(* The state of an idle pool set is fit for a checkpoint.                  *)
LEMMA SnapshotSafe ==
  ASSUME IInv', phase' = "idle"
  PROVE  DataSafe(Snapshot', reallocFailed')
<1>1. todo' = {} /\ Settled' = ExclusiveIn(containers')
  BY DEF IInv, TypeOK, Settled, ExclusiveIn
<1>2. /\ PoolsTyped(pools') /\ ContainersTyped(containers') /\ Apart(pools')
      /\ currentCfg' \in {Nil} \cup Acceptable /\ pendingCfg' \in {Nil} \cup NodeConfigs
  BY DEF IInv, TypeOK, PoolsTyped, ContainersTyped, SharedPinnedDisjoint, Apart
<1>3. Owned(pools', containers', DOMAIN containers')
  BY <1>1 DEF IInv, PinnedOwned, Owned
<1>4. ~reallocFailed' => Pinned(pools', containers', ExclusiveIn(containers'))
  BY <1>1 DEF IInv, ExclusivePinned, Pinned
<1>5. /\ currentCfg' = Nil => DOMAIN pools' = {}
      /\ currentCfg' # Nil =>
           \A pool \in DOMAIN currentCfg' :
              pool \in DOMAIN pools' /\ pools'[pool].cfg = CpusOf[currentCfg'][pool]
  BY DEF IInv, ConfigInForce, InForce, CpusOf
<1> QED BY <1>2, <1>3, <1>4, <1>5 DEF DataSafe, Snapshot

(* So is that of no pool set.                                              *)
LEMMA EmptyDataSafe == \A failed : DataSafe(EmptySnapshot, failed)
BY DEF DataSafe, EmptySnapshot, EmptyMap, PoolsTyped, ContainersTyped, Apart, Owned, Pinned,
       ExclusiveIn

(* That a reallocation has failed is not forgotten.                        *)
LEMMA FailureKept ==
  ASSUME [NextPolicy]_allVars
  PROVE  UNCHANGED reallocFailed \/ reallocFailed' = TRUE
<1>1. ASSUME NEW ncfg, NEW ps, NEW cs, Reconcile(ncfg, ps, cs) PROVE UNCHANGED reallocFailed
  BY <1>1 DEF Reconcile
<1>2. ASSUME NEW id, ReleaseCPU(id) PROVE UNCHANGED reallocFailed
  BY <1>1, <1>2 DEF ReleaseCPU
<1>3. ASSUME Exit PROVE UNCHANGED reallocFailed
  BY <1>3 DEF Exit, NewProcess
<1>4. CASE \/ EditFile \/ Launch \/ Crash \/ Start \/ RestoreState \/ FinishStart \/ FinishRemove
           \/ UNCHANGED allVars
  BY <1>4 DEF EditFile, Launch, Crash, NewProcess, Start, RestoreState, FinishStart,
              FinishRemove, allVars, vars
<1>5. ASSUME NEW t \in Thread, ReadConfig(t) \/ StoreConfig(t) \/ ApplyConfig(t)
      PROVE  UNCHANGED reallocFailed
  BY <1>1, <1>3, <1>5 DEF ReadConfig, StoreConfig, ApplyConfig, vars
<1>6. CASE ReconcileContainer \/ ReconcileDone
  BY <1>6 DEF ReconcileContainer, ReconcileDone, Reallocate, FinishReconcile
<1>7. CASE ReleaseLingering
  BY <1>2, <1>7 DEF ReleaseLingering
<1>8. ASSUME NEW id \in Container, NEW r \in Requests, AddContainer(id, r)
      PROVE  UNCHANGED reallocFailed
  BY <1>8, AllocatePhase DEF AddContainer, Unlocked
<1>9. ASSUME NEW id \in Container,
             AddContainerAgain(id) \/ RemoveContainer(id) \/ ContainerEnds(id)
      PROVE  UNCHANGED reallocFailed
  BY <1>2, <1>3, <1>9 DEF AddContainerAgain, RemoveContainer, ContainerEnds, vars
<1> QED BY <1>4, <1>5, <1>6, <1>7, <1>8, <1>9 DEF NextPolicy

(* What a step leaves in the stub and with the kubelet is what was there,  *)
(* nothing, or the state of a pool set that has just become idle.          *)
LEMMA CheckpointsKept ==
  ASSUME PInv, [NextPolicy]_allVars, IInv'
  PROVE  Checkpoints'
<1> USE DEF PInv
<1>1. /\ DataSafe(stub.data, reallocFailed') /\ DataSafe(kubelet.data, reallocFailed')
      /\ DataSafe(EmptySnapshot, reallocFailed')
      /\ phase' = "idle" => DataSafe(Snapshot', reallocFailed')
  BY FailureKept, SnapshotSafe, EmptyDataSafe DEF Checkpoints, DataSafe
<1>2. ASSUME stub'.data \in {stub.data, kubelet.data, EmptySnapshot}
               \/ (phase' = "idle" /\ stub'.data = Snapshot'),
             kubelet'.data \in {stub.data, kubelet.data}
               \/ (phase' = "idle" /\ kubelet'.data = Snapshot')
      PROVE  Checkpoints'
  BY <1>1, <1>2 DEF Checkpoints
<1>3. ASSUME UNCHANGED <<stub, kubelet>> PROVE Checkpoints'
  BY <1>2, <1>3
<1>4. ASSUME NewProcess, UNCHANGED kubelet PROVE Checkpoints'
  BY <1>2, <1>4 DEF NewProcess
<1>5. ASSUME NEW s, Answer(s), s.data = stub.data \/ (phase' = "idle" /\ s.data = Snapshot')
      PROVE  Checkpoints'
  BY <1>2, <1>5 DEF Answer, Deliver, Lose
<1>6. \A a : UpdatedStub(a).data = Snapshot'
  BY DEF UpdatedStub
<1>7. CASE EditFile \/ Launch \/ RestoreState \/ ReconcileContainer \/ ReconcileDone
             \/ ReleaseLingering \/ UNCHANGED allVars
  BY <1>3, <1>7 DEF EditFile, Launch, RestoreState, ReconcileContainer, ReconcileDone,
                    ReleaseLingering, allVars, policyVars
<1>8. CASE Crash
  BY <1>4, <1>8 DEF Crash
<1>9. CASE Start
  <2>1. stub'.data = kubelet.data /\ kubelet' = kubelet
    BY <1>9 DEF Start, Agreed, IsStub
  <2> QED BY <1>2, <2>1
<1>10. ASSUME NEW t \in Thread, ReadConfig(t) \/ StoreConfig(t) \/ ApplyConfig(t)
       PROVE  Checkpoints'
  BY <1>3, <1>4, <1>10 DEF ReadConfig, StoreConfig, ApplyConfig, Exit
<1>11. CASE FinishStart
  <2>1. phase' = "idle" /\ stub'.data = Snapshot' /\ kubelet'.data = stub'.data
    BY <1>6, <1>11 DEF FinishStart, vars, Agreed, IsStub
  <2> QED BY <1>2, <2>1
<1>12. CASE FinishRemove
  <2>1. phase' = "idle" /\ Answer(UpdatedStub(Delete(stub.cpus, removing)))
    BY <1>12 DEF FinishRemove, vars, Threads
  <2> QED BY <1>5, <1>6, <2>1
<1>13. ASSUME NEW id \in Container, NEW r \in Requests, AddContainer(id, r) PROVE Checkpoints'
  <2>1. phase' = "idle" /\ Answer(UpdatedStub(stub.cpus))
    BY <1>13, AllocatePhase DEF AddContainer, Unlocked
  <2> QED BY <1>5, <1>6, <2>1
<1>14. ASSUME NEW id \in Container, AddContainerAgain(id) PROVE Checkpoints'
  BY <1>4, <1>5, <1>14 DEF AddContainerAgain, Exit
<1>15. ASSUME NEW id \in Container, RemoveContainer(id) PROVE Checkpoints'
  BY <1>3, <1>15 DEF RemoveContainer
<1>16. ASSUME NEW id \in Container, ContainerEnds(id) PROVE Checkpoints'
  <2>1. stub' = stub /\ kubelet'.data = kubelet.data
    BY <1>16 DEF ContainerEnds, Agreed, IsStub
  <2> QED BY <1>2, <2>1
<1> QED BY <1>7, <1>8, <1>9, <1>10, <1>11, <1>12, <1>13, <1>14, <1>15, <1>16 DEF NextPolicy

-----------------------------------------------------------------------------
(* Maps that are updated and relayed                                       *)

(* A map written over another.                                             *)
LEMMA Merged ==
  ASSUME NEW f, NEW g
  PROVE  /\ IsMap(Over(f, g)) /\ DOMAIN Over(f, g) = DOMAIN f \cup DOMAIN g
         /\ \A k \in DOMAIN f : Over(f, g)[k] = f[k]
         /\ \A k \in DOMAIN g \ DOMAIN f : Over(f, g)[k] = g[k]
BY DEF Over, IsMap

(* Merging entries for at least the keys of a map replaces it.             *)
LEMMA MergedOver ==
  ASSUME NEW f, NEW g, IsMap(f), DOMAIN g \subseteq DOMAIN f
  PROVE  Over(f, g) = f
<1>1. Over(f, g) = [k \in DOMAIN f |-> f[k]]
  BY DEF Over
<1> QED BY <1>1 DEF IsMap

(* A map without one of its entries.                                       *)
LEMMA DeletedMap ==
  ASSUME NEW f, NEW k
  PROVE  /\ IsMap(Delete(f, k)) /\ DOMAIN Delete(f, k) = DOMAIN f \ {k}
         /\ \A x \in DOMAIN f \ {k} : Delete(f, k)[x] = f[x]
BY DEF Delete, Restrict, IsMap

(* What the new entries of a map are written over, and what is relayed.    *)
Entries(r, ch, after, map) ==
  /\ IsMap(r) /\ DOMAIN r = (ch \cap DOMAIN after) \cup (DOMAIN map \ ch)
  /\ \A k \in ch \cap DOMAIN after : r[k] = after[k]
  /\ \A k \in DOMAIN map \ ch : r[k] = map[k]

(* A map a change has been relayed to.                                     *)
LEMMA RelayedMap ==
  ASSUME NEW map, NEW before, NEW after
  PROVE  Entries(Relayed(map, before, after), Changed(before, after), after, map)
<1> DEFINE ch == Changed(before, after)
           new == Restrict(after, ch \cap DOMAIN after)
           old == Restrict(map, DOMAIN map \ ch)
           r   == Over(new, old)
<1>1. /\ DOMAIN new = ch \cap DOMAIN after /\ \A k \in DOMAIN new : new[k] = after[k]
      /\ DOMAIN old = DOMAIN map \ ch /\ \A k \in DOMAIN old : old[k] = map[k]
  BY DEF Restrict
<1>2. Relayed(map, before, after) = r
  BY DEF Relayed
<1>3. /\ IsMap(r) /\ DOMAIN r = DOMAIN new \cup DOMAIN old
      /\ \A k \in DOMAIN new : r[k] = new[k]
      /\ \A k \in DOMAIN old \ DOMAIN new : r[k] = old[k]
  <2> HIDE DEF new, old
  <2> QED BY Merged
<1> HIDE DEF new, old, ch, r
<1>4. Entries(r, ch, after, map)
  BY <1>1, <1>3 DEF Entries
<1> QED BY <1>2, <1>4 DEF ch, r

(* A map with the keys of the map before gets those of the map after.      *)
LEMMA RelayedDomain ==
  ASSUME NEW map, NEW before, NEW after, DOMAIN map = DOMAIN before
  PROVE  DOMAIN Relayed(map, before, after) = DOMAIN after
<1> DEFINE r == Relayed(map, before, after)
<1>1. Entries(r, Changed(before, after), after, map)
  BY RelayedMap
<1> HIDE DEF r
<1> QED BY <1>1 DEF Entries, Changed, r

(* The same map becomes the same map.                                      *)
LEMMA RelayedAll ==
  ASSUME NEW before, NEW after, IsMap(after)
  PROVE  Relayed(before, before, after) = after
<1> DEFINE r == Relayed(before, before, after)
<1>1. Entries(r, Changed(before, after), after, before)
  BY RelayedMap
<1>2. DOMAIN r = DOMAIN after
  BY RelayedDomain
<1> HIDE DEF r
<1>3. \A k \in DOMAIN after : r[k] = after[k]
  BY <1>1 DEF Entries, Changed
<1>4. r = after
  BY <1>1, <1>2, <1>3 DEF Entries, IsMap
<1> QED BY <1>4 DEF r

(* One that has the entries of the map before gets those of the map after. *)
LEMMA RelayedIncludes ==
  ASSUME NEW map, NEW before, NEW after, Includes(map, before)
  PROVE  Includes(Relayed(map, before, after), after)
<1> DEFINE r == Relayed(map, before, after)
<1>1. Entries(r, Changed(before, after), after, map)
  BY RelayedMap
<1> HIDE DEF r
<1>2. Includes(r, after)
  BY <1>1 DEF Entries, Changed, Includes
<1> QED BY <1>2 DEF r

-----------------------------------------------------------------------------
(* What the kubelet and the stub agree on                                  *)

(* Until an answer is lost that told of a change.                          *)
Known == ~lost \/ ~untold

(* updateState: a stub whose assignments are of containers there are ends  *)
(* with exactly those of the pool set.                                     *)
LEMMA UpdatedStubIs ==
  ASSUME NEW a, NEW u, u = UpdatedStub(a)
  PROVE  /\ IsStub(u) /\ u.data = Snapshot'
         /\ DOMAIN u.cpus = DOMAIN containers' \cup DOMAIN a
         /\ DOMAIN a \subseteq DOMAIN containers' =>
              u.cpus = GetPoolAssignments(pools', containers')
         /\ Includes(u.capacity, GetPoolCapacity(pools'))
<1> DEFINE f == GetPoolAssignments(pools', containers')
           g == GetPoolCapacity(pools')
           cap == stub.capacity
<1>1. u = [cpus |-> Over(f, a), data |-> Snapshot', capacity |-> Over(g, cap)]
  BY DEF UpdatedStub
<1>2. DOMAIN f = DOMAIN containers' /\ IsMap(f)
  BY DEF GetPoolAssignments, IsMap
<1> HIDE DEF f, g, cap
<1>3. IsMap(Over(f, a)) /\ DOMAIN Over(f, a) = DOMAIN f \cup DOMAIN a /\ IsMap(Over(g, cap))
  BY Merged
<1>4. DOMAIN a \subseteq DOMAIN f => Over(f, a) = f
  BY <1>2, MergedOver
<1>5. Includes(Over(g, cap), g)
  BY Merged DEF Includes
<1>6. /\ IsStub(u) /\ u.data = Snapshot'
      /\ u.cpus = Over(f, a) /\ u.capacity = Over(g, cap)
  BY <1>1, <1>3 DEF IsStub
<1> QED BY <1>2, <1>3, <1>4, <1>5, <1>6 DEF f, g

(* An answer is relayed, or it is lost.                                    *)
LEMMA DeliverIs ==
  ASSUME NEW s, IsStub(s), stub' = s, Agreed, Deliver
  PROVE  /\ IsStub(kubelet') /\ kubelet'.data = s.data
         /\ kubelet'.cpus = Relayed(kubelet.cpus, stub.cpus, s.cpus)
         /\ kubelet'.capacity = Relayed(kubelet.capacity, stub.capacity, s.capacity)
         /\ UNCHANGED <<lost, untold>>
<1> DEFINE c == Relayed(kubelet.cpus, stub.cpus, s.cpus)
           p == Relayed(kubelet.capacity, stub.capacity, s.capacity)
<1>1. IsMap(c) /\ IsMap(p)
  BY RelayedMap DEF Entries
<1>2. kubelet' = [cpus |-> c, data |-> s.data, capacity |-> p]
  BY DEF Deliver
<1>3. UNCHANGED <<lost, untold>>
  BY DEF Deliver, faultVars
<1> HIDE DEF c, p
<1>4. IsStub(kubelet') /\ kubelet'.cpus = c /\ kubelet'.capacity = p /\ kubelet'.data = s.data
  BY <1>1, <1>2 DEF IsStub
<1> QED BY <1>3, <1>4 DEF c, p

(* The end of a call of the kubelet other than Start: what the call has    *)
(* done is in the answer.  The assignments it starts from are those of     *)
(* containers that there are.                                              *)
LEMMA AnswerAgreed ==
  ASSUME Threads, Agreed, Started, process' = "up", pc'["request"] = "idle", removing' = Nil,
         NEW a, Answer(UpdatedStub(a)),
         Known => DOMAIN a \subseteq DOMAIN containers'
  PROVE  Agreed'
<1> DEFINE u == UpdatedStub(a)
<1>1. /\ IsStub(u) /\ u.data = Snapshot'
      /\ DOMAIN u.cpus = DOMAIN containers' \cup DOMAIN a
      /\ DOMAIN a \subseteq DOMAIN containers' => u.cpus = GetPoolAssignments(pools', containers')
      /\ Includes(u.capacity, GetPoolCapacity(pools'))
  BY UpdatedStubIs
<1>2. stub' = u /\ (Deliver \/ Lose)
  BY DEF Answer
<1> HIDE DEF u
<1>3. process = "up" /\ Started'
  BY DEF Started
<1>4. Snapshot'.pools = pools' /\ Snapshot'.containers = containers'
  BY DEF Snapshot
<1>5. CASE Deliver
  <2>1. /\ IsStub(kubelet') /\ kubelet'.data = u.data
        /\ kubelet'.cpus = Relayed(kubelet.cpus, stub.cpus, u.cpus)
        /\ kubelet'.capacity = Relayed(kubelet.capacity, stub.capacity, u.capacity)
        /\ UNCHANGED <<lost, untold>>
    BY <1>1, <1>2, <1>5, DeliverIs
  <2>2. ASSUME Known PROVE SameContainers'
    <3>1. DOMAIN u.cpus = DOMAIN containers'
      BY <1>1, <2>2
    <3>2. DOMAIN kubelet'.cpus = DOMAIN u.cpus
      BY <1>3, <2>1, <2>2, RelayedDomain DEF Agreed, SameContainers, Known
    <3> QED BY <1>1, <1>2, <1>4, <2>1, <3>1, <3>2 DEF SameContainers
  <2>3. ASSUME ~untold PROVE SameCpus'
    <3>1. u.cpus = GetPoolAssignments(pools', containers')
      BY <1>1, <2>3 DEF Known
    <3>2. kubelet.cpus = stub.cpus
      BY <1>3, <2>3 DEF Agreed, SameCpus
    <3>3. kubelet'.cpus = u.cpus
      BY <1>1, <2>1, <3>2, RelayedAll DEF IsStub
    <3> QED BY <1>1, <1>2, <1>4, <2>1, <3>1, <3>3 DEF SameCpus
  <2>4. ASSUME ~lost PROVE SameCapacities'
    <3>1. Includes(kubelet.capacity, stub.capacity)
      BY <2>4 DEF Agreed, SameCapacities
    <3>2. Includes(kubelet'.capacity, u.capacity)
      BY <2>1, <3>1, RelayedIncludes
    <3>3. Includes(kubelet'.capacity, GetPoolCapacity(pools'))
      BY <1>1, <3>2 DEF Includes
    <3> QED BY <1>1, <1>2, <1>3, <1>4, <2>1, <3>2, <3>3 DEF SameCapacities
  <2> QED BY <1>1, <1>2, <2>1, <2>2, <2>3, <2>4 DEF Agreed, Known
<1>6. CASE Lose
  <2>1. kubelet' = kubelet /\ lost' = TRUE /\ untold' = (untold \/ u # stub)
    BY <1>2, <1>6 DEF Lose
  <2>2. ASSUME ~untold' PROVE SameContainers' /\ SameCpus'
    <3>1. ~untold /\ u = stub /\ Known
      BY <2>1, <2>2 DEF Known
    <3>2. DOMAIN u.cpus = DOMAIN containers' /\ u.cpus = GetPoolAssignments(pools', containers')
      BY <1>1, <3>1
    <3>3. SameContainers /\ SameCpus
      BY <3>1 DEF Agreed
    <3> QED BY <1>1, <1>2, <1>3, <1>4, <2>1, <3>1, <3>2, <3>3 DEF SameContainers, SameCpus
  <2> QED BY <1>1, <1>2, <2>1, <2>2 DEF Agreed
<1> QED BY <1>2, <1>5, <1>6

(* Steps that change neither what the stub nor what the kubelet has.       *)
LEMMA AgreedStays ==
  ASSUME Agreed, UNCHANGED <<stub, kubelet, lost, untold, process, removing>>,
         DOMAIN containers' = DOMAIN containers,
         pc'["request"] = "restore" <=> pc["request"] = "restore",
         pc'["request"] = "idle" <=> pc["request"] = "idle"
  PROVE  Agreed'
BY DEF Agreed, SameContainers, SameCpus, SameCapacities, Started

(* Steps after which the plugin is not serving.                            *)
LEMMA AgreedDown ==
  ASSUME Agreed, UNCHANGED <<kubelet, lost, untold>>, IsStub(stub'), process' # "up"
  PROVE  Agreed'
BY DEF Agreed, SameContainers, SameCpus, SameCapacities, Started

(* Start takes the assignments and the containers from the kubelet; some   *)
(* of the containers may have ended, and are still to be released.         *)
LEMMA StartAgreed ==
  ASSUME Threads, Agreed, Start
  PROVE  Agreed'
<1>1. /\ pc["request"] = "idle" /\ process' = "up" /\ pc'["request"] = "restore"
      /\ stub' = [kubelet EXCEPT !.capacity = EmptyMap]
      /\ containers' = kubelet.data.containers
      /\ UNCHANGED <<removing, kubelet, lost, untold>>
  BY DEF Start, Goto, Threads, Thread
<1>2. removing' = Nil
  BY <1>1 DEF Threads
<1>3. /\ IsStub(stub') /\ stub'.cpus = kubelet.cpus /\ stub'.data = kubelet.data
      /\ DOMAIN stub'.capacity = {}
  BY <1>1 DEF Agreed, IsStub, EmptyMap, IsMap
<1> QED BY <1>1, <1>2, <1>3 DEF Agreed, SameContainers, SameCpus, SameCapacities, Started

(* The answer to Start has the resources of all pools.                     *)
LEMMA FinishStartAgreed ==
  ASSUME Threads, Agreed, FinishStart
  PROVE  Agreed'
<1> DEFINE u == UpdatedStub(stub.cpus)
<1>1. /\ pc["request"] = "finish" /\ removing = Nil /\ removing' = Nil /\ UNCHANGED vars
      /\ pc'["request"] = "idle" /\ process = "up" /\ process' = "up"
      /\ stub' = u /\ lost' = lost /\ untold' = (untold \/ u.cpus # stub.cpus)
      /\ kubelet' = [kubelet EXCEPT !.data = u.data, !.capacity = Over(u.capacity, kubelet.capacity)]
  BY DEF FinishStart, Goto, Threads, Thread
<1>2. /\ IsStub(u) /\ u.data = Snapshot'
      /\ DOMAIN u.cpus = DOMAIN containers' \cup DOMAIN stub.cpus
      /\ DOMAIN stub.cpus \subseteq DOMAIN containers' =>
            u.cpus = GetPoolAssignments(pools', containers')
      /\ Includes(u.capacity, GetPoolCapacity(pools'))
  BY UpdatedStubIs
<1> HIDE DEF u
<1>3. Snapshot'.pools = pools' /\ Snapshot'.containers = containers' /\ containers' = containers
  BY <1>1 DEF Snapshot, vars
<1>4. /\ IsStub(kubelet') /\ kubelet'.data = u.data /\ kubelet'.cpus = kubelet.cpus
      /\ kubelet'.capacity = Over(u.capacity, kubelet.capacity)
  <2>1. IsMap(Over(u.capacity, kubelet.capacity))
    BY Merged
  <2> QED BY <1>1, <2>1 DEF Agreed, IsStub
<1>5. ASSUME Known' PROVE SameContainers'
  <2>1. Known
    BY <1>1, <1>5 DEF Known
  <2>2. DOMAIN containers = DOMAIN stub.cpus /\ DOMAIN kubelet.cpus = DOMAIN stub.cpus
    BY <1>1, <2>1 DEF Agreed, SameContainers, Known
  <2> QED BY <1>1, <1>2, <1>3, <1>4, <2>2 DEF SameContainers
<1>6. ASSUME ~untold' PROVE SameCpus'
  <2>1. Known /\ ~untold /\ u.cpus = stub.cpus
    BY <1>1, <1>6 DEF Known
  <2>2. kubelet.cpus = stub.cpus /\ DOMAIN containers = DOMAIN stub.cpus
    BY <1>1, <2>1 DEF Agreed, SameContainers, SameCpus, Known
  <2>3. u.cpus = GetPoolAssignments(pools', containers')
    BY <1>2, <1>3, <2>2
  <2> QED BY <1>1, <1>2, <1>3, <1>4, <2>1, <2>2, <2>3 DEF SameCpus
<1>7. ASSUME ~lost' PROVE SameCapacities'
  <2>1. Includes(kubelet'.capacity, u.capacity)
    <3> DEFINE new == u.capacity
               old == kubelet.capacity
    <3> HIDE DEF new, old
    <3>1. Includes(Over(new, old), new)
      BY Merged DEF Includes
    <3> QED BY <1>4, <3>1 DEF new, old
  <2>2. Includes(kubelet'.capacity, GetPoolCapacity(pools'))
    BY <1>2, <2>1 DEF Includes
  <2>3. Started'
    BY <1>1 DEF Started
  <2> QED BY <1>1, <1>2, <1>3, <1>4, <2>1, <2>2, <2>3 DEF SameCapacities
<1> QED BY <1>1, <1>2, <1>4, <1>5, <1>6, <1>7 DEF Agreed, Known

(* No step makes the kubelet and the stub disagree, but one that loses an  *)
(* answer.                                                                 *)
LEMMA AgreedKept ==
  ASSUME PInv, [NextPolicy]_allVars
  PROVE  Agreed'
<1> USE DEF PInv
<1>1. ASSUME NewProcess, UNCHANGED <<kubelet, lost, untold>>, process' = "down" PROVE Agreed'
  <2>1. IsStub(stub')
    BY <1>1 DEF NewProcess, IsStub, IsMap, EmptyMap
  <2> QED BY <1>1, <2>1, AgreedDown
<1>2. CASE Exit
  BY <1>1, <1>2 DEF Exit, faultVars
<1>3. CASE Crash
  BY <1>1, <1>3 DEF Crash
<1>4. CASE EditFile
  BY <1>4, AgreedStays DEF EditFile, vars, configVars, faultVars
<1>5. CASE Launch
  BY <1>5, AgreedDown DEF Launch, faultVars, Agreed
<1>6. CASE Start
  BY <1>6, StartAgreed
<1>7. ASSUME NEW t \in Thread, ReadConfig(t) PROVE Agreed'
  <2>1. CASE ~Exit
    <3>1. UNCHANGED <<vars, stub, kubelet, lost, untold, process, removing>>
      BY <1>7, <2>1 DEF ReadConfig, faultVars, configVars, Thread
    <3>2. pc'["request"] = pc["request"] \/ (pc["request"] = "read" /\ pc'["request"] = "store")
      BY <1>7, <2>1 DEF ReadConfig, Goto, Thread, Threads
    <3> QED BY <3>1, <3>2, AgreedStays DEF vars
  <2> QED BY <1>2, <2>1
<1>8. ASSUME NEW t \in Thread, StoreConfig(t) PROVE Agreed'
  <2>1. UNCHANGED <<vars, stub, kubelet, lost, untold, process, removing>>
    BY <1>8 DEF StoreConfig, faultVars
  <2>2. pc'["request"] = pc["request"] \/ (pc["request"] = "store" /\ pc'["request"] = "lock")
    BY <1>8 DEF StoreConfig, Goto, Thread, Threads
  <2> QED BY <2>1, <2>2, AgreedStays DEF vars
<1>9. ASSUME NEW t \in Thread, ApplyConfig(t) PROVE Agreed'
  <2>1. CASE ~Exit
    <3>1. /\ Reconcile(poolCfg, pools, containers) /\ phase = "idle" /\ pc[t] = "lock"
          /\ pc' = [pc EXCEPT ![t] = IF phase' = "idle" THEN "idle" ELSE "reconcile"]
          /\ t = "request" => CanPrepare(poolCfg, pools)
          /\ UNCHANGED <<stub, kubelet, lost, untold, process, removing>>
      BY <1>9, <2>1 DEF ApplyConfig, Goto, Unlocked, faultVars
    <3>2. DOMAIN containers' = DOMAIN containers
      BY <3>1, ReconcilePhase
    <3>3. CASE t = "watch"
      <4>1. pc'["request"] = pc["request"]
        BY <3>1, <3>3 DEF Threads, Thread
      <4> QED BY <3>1, <3>2, <4>1, AgreedStays
    <3>4. CASE t = "request"
      <4>1. phase' = "reallocate"
        BY <3>1, <3>4, NodeConfigsAssumption DEF Reconcile, CanPrepare, Acceptable
      <4>2. pc["request"] = "lock" /\ pc'["request"] = "reconcile"
        BY <3>1, <3>4, <4>1 DEF Threads, Thread
      <4> QED BY <3>1, <3>2, <4>2, AgreedStays
    <3> QED BY <3>3, <3>4 DEF Thread
  <2> QED BY <1>2, <2>1
<1>10. CASE ReconcileContainer
  <2>1. PICK id \in Container : Reallocate(id)
    BY <1>10 DEF ReconcileContainer
  <2>2. id \in DOMAIN containers
    BY <2>1 DEF Reallocate, IInv, TypeOK
  <2>3. DOMAIN containers' = DOMAIN containers
    BY <2>1, <2>2 DEF Reallocate, TakeCPUs, Put
  <2> QED BY <1>10, <2>3, AgreedStays DEF ReconcileContainer, policyVars
<1>11. CASE ReconcileDone
  <2>1. UNCHANGED <<containers, stub, kubelet, lost, untold, process, removing>>
    BY <1>11 DEF ReconcileDone, FinishReconcile, faultVars
  <2>2. pc'["request"] = pc["request"] \/ (pc["request"] = "reconcile" /\ pc'["request"] = "finish")
    BY <1>11 DEF ReconcileDone, Thread
  <2> QED BY <2>1, <2>2, AgreedStays
<1>12. CASE ReleaseLingering
  <2>1. PICK id \in Lingering : ReleaseCPU(id)
    BY <1>12 DEF ReleaseLingering
  <2>2. DOMAIN containers' = DOMAIN containers \ {id} /\ id \notin DOMAIN stub.cpus
    BY <2>1, ReleasePhase DEF Lingering
  <2>3. pc["request"] = "restore" /\ UNCHANGED policyVars
    BY <1>12 DEF ReleaseLingering
  <2> QED BY <2>2, <2>3 DEF Agreed, SameContainers, SameCpus, SameCapacities, Started,
                            policyVars, Threads
<1>13. CASE RestoreState
  <2>1. /\ pc["request"] = "restore" /\ pc'["request"] = "read"
        /\ UNCHANGED <<containers, stub, kubelet, lost, untold, process, removing>>
    BY <1>13 DEF RestoreState, Goto, vars, faultVars, Threads, Thread
  <2>2. DOMAIN containers \subseteq DOMAIN stub.cpus /\ removing = Nil
    BY <1>13, <2>1 DEF RestoreState, Lingering, Threads
  <2> QED BY <2>1, <2>2 DEF Agreed, SameContainers, SameCpus, SameCapacities, Started
<1>14. CASE FinishStart
  BY <1>14, FinishStartAgreed
<1>15. CASE FinishRemove
  <2> DEFINE a == Delete(stub.cpus, removing)
  <2>1. /\ pc["request"] = "finish" /\ removing # Nil /\ removing' = Nil
        /\ pc'["request"] = "idle" /\ process = "up" /\ process' = "up"
        /\ containers' = containers /\ Answer(UpdatedStub(a))
    BY <1>15 DEF FinishRemove, Goto, Threads, Thread, vars
  <2>2. DOMAIN a = DOMAIN stub.cpus \ {removing}
    BY DeletedMap
  <2>3. Known => DOMAIN a \subseteq DOMAIN containers'
    BY <2>1, <2>2 DEF Agreed, SameContainers, Known
  <2>4. Started
    BY <2>1 DEF Started
  <2> HIDE DEF a
  <2> QED BY <2>1, <2>3, <2>4, AnswerAgreed
<1>16. ASSUME NEW id \in Container, NEW r \in Requests, AddContainer(id, r) PROVE Agreed'
  <2>1. /\ process = "up" /\ pc["request"] = "idle" /\ phase = "idle"
        /\ UNCHANGED <<process, pc, removing>>
        /\ Allocate(id, r) /\ Answer(UpdatedStub(stub.cpus))
    BY <1>16 DEF AddContainer, Serving, Unlocked
  <2>2. Started /\ removing = Nil
    BY <2>1 DEF Started, Threads
  <2>3. DOMAIN containers \subseteq DOMAIN containers'
    BY <2>1, AllocateAdds
  <2>4. Known => DOMAIN stub.cpus \subseteq DOMAIN containers'
    BY <2>1, <2>2, <2>3 DEF Agreed, SameContainers, Known
  <2> QED BY <2>1, <2>2, <2>4, AnswerAgreed
<1>17. ASSUME NEW id \in Container, AddContainerAgain(id) PROVE Agreed'
  <2>1. CASE ~Exit
    <3>1. /\ process = "up" /\ pc["request"] = "idle" /\ Answer(stub)
          /\ id \in DOMAIN containers \ DOMAIN kubelet.cpus
      BY <1>17, <2>1 DEF AddContainerAgain, Serving
    <3>2. lost /\ untold
      BY <3>1 DEF Agreed, SameContainers, Threads
    <3>3. CASE Deliver
      <4>1. IsStub(kubelet') /\ stub' = stub /\ UNCHANGED <<lost, untold>>
        BY <3>1, <3>3, DeliverIs DEF Answer, Agreed
      <4> QED BY <3>2, <4>1 DEF Agreed
    <3>4. CASE Lose
      <4>1. kubelet' = kubelet /\ stub' = stub /\ lost' /\ untold'
        BY <3>1, <3>2, <3>4 DEF Lose, Answer
      <4> QED BY <4>1 DEF Agreed
    <3> QED BY <3>1, <3>3, <3>4 DEF Answer
  <2> QED BY <1>2, <2>1
<1>18. ASSUME NEW id \in Container, RemoveContainer(id) PROVE Agreed'
  <2>1. /\ process = "up" /\ pc["request"] = "idle" /\ removing' = id /\ id # Nil
        /\ pc'["request"] \in {"finish", "reconcile"}
        /\ UNCHANGED <<process, stub, kubelet, lost, untold>>
    BY <1>18, ContainerAssumption DEF RemoveContainer, Serving, Goto, faultVars, Threads, Thread
  <2>2. DOMAIN containers' = DOMAIN containers \ {id}
    BY <1>18, ReleasePhase DEF RemoveContainer, vars
  <2>3. removing = Nil
    BY <2>1 DEF Threads
  <2> QED BY <2>1, <2>2, <2>3 DEF Agreed, SameContainers, SameCpus, SameCapacities, Started
<1>19. ASSUME NEW id \in Container, ContainerEnds(id) PROVE Agreed'
  <2> DEFINE c == Delete(kubelet.cpus, id)
  <2>1. /\ process # "up" /\ UNCHANGED <<process, stub, lost, untold>>
        /\ kubelet' = [kubelet EXCEPT !.cpus = c]
    BY <1>19 DEF ContainerEnds, faultVars
  <2>2. /\ IsMap(c) /\ DOMAIN c = DOMAIN kubelet.cpus \ {id}
        /\ \A x \in DOMAIN c : c[x] = kubelet.cpus[x]
    BY DeletedMap
  <2> HIDE DEF c
  <2>3. /\ IsStub(kubelet') /\ kubelet'.cpus = c /\ kubelet'.data = kubelet.data
        /\ kubelet'.capacity = kubelet.capacity
    BY <2>1, <2>2 DEF Agreed, IsStub
  <2> QED BY <2>1, <2>2, <2>3 DEF Agreed, SameContainers, SameCpus, SameCapacities, Started
<1>20. CASE UNCHANGED allVars
  BY <1>20, AgreedStays DEF allVars, policyVars, vars
<1> QED BY <1>3, <1>4, <1>5, <1>6, <1>7, <1>8, <1>9, <1>10, <1>11, <1>12, <1>13, <1>14,
           <1>15, <1>16, <1>17, <1>18, <1>19, <1>20 DEF NextPolicy

-----------------------------------------------------------------------------
(* The configuration that is in force                                      *)

(* Steps that neither edit, read nor store a configuration.                *)
LEMMA FreshStays ==
  ASSUME Fresh, UNCHANGED <<nodeFile, events, process, parsed, poolCfg, overtaken>>,
         pc'["watch"] = pc["watch"] \/ "store" \notin {pc["watch"], pc'["watch"]},
         \/ pc'["request"] = pc["request"]
         \/ pc'["request"] \in {"restore", "read"}
         \/ /\ pc["request"] \notin {"restore", "read", "store"}
            /\ pc'["request"] # "store"
  PROVE  Fresh'
BY DEF Fresh, Parsable

(* The configuration that is read is that of the file.  The watcher sets   *)
(* overtaken when it stores between the reading and the storing of Start.  *)
LEMMA FreshKept ==
  ASSUME PInv, [NextPolicy]_allVars
  PROVE  Fresh'
<1> USE DEF PInv
<1>1. ASSUME NewProcess, process' = "down" PROVE Fresh'
  BY <1>1 DEF NewProcess, Fresh, Thread
<1>2. CASE Exit \/ Crash
  BY <1>1, <1>2 DEF Exit, Crash
<1>3. CASE EditFile
  <2>1. /\ UNCHANGED <<process, pc, overtaken>>
        /\ process = "up" => events' = events + 1
    BY <1>3 DEF EditFile, configVars
  <2> QED BY <2>1 DEF Fresh, Threads
<1>4. CASE Launch
  BY <1>4 DEF Launch, configVars, Fresh, Threads
<1>5. CASE Start
  <2>1. /\ process' = "up" /\ pc'["request"] = "restore" /\ pc'["watch"] = pc["watch"]
        /\ UNCHANGED <<nodeFile, events, parsed, poolCfg, overtaken>>
    BY <1>5 DEF Start, Goto, watchVars, configVars, Threads, Thread
  <2> QED BY <2>1 DEF Fresh, Parsable
<1>6. ASSUME NEW t \in Thread, ReadConfig(t) PROVE Fresh'
  <2>1. CASE Parsable
    <3>1. /\ pc[t] \in {"idle", "read"} /\ (t = "watch" => pc[t] = "idle" /\ events > 0)
          /\ (t = "request" => pc[t] = "read")
          /\ parsed' = [parsed EXCEPT ![t] = Parsed(nodeFile)]
          /\ pc' = [pc EXCEPT ![t] = "store"]
          /\ events' = IF t = "watch" THEN events - 1 ELSE events
          /\ overtaken' = (overtaken \/ process # "up")
          /\ UNCHANGED <<nodeFile, process, poolCfg>>
      BY <1>6, <2>1 DEF ReadConfig, Goto, Thread
    <3>2. process = "up" => Parsed(nodeFile) = ParseNodeConfig(nodeFile, NumReserved)
      BY DEF Parsed
    <3> HIDE DEF Parsed
    <3>3. CASE t = "watch"
      BY <3>1, <3>2, <3>3 DEF Fresh, Threads, Thread
    <3>4. CASE t = "request"
      BY <3>1, <3>2, <3>4 DEF Fresh, Threads, Thread, Parsable
    <3> QED BY <3>3, <3>4 DEF Thread
  <2>2. CASE ~Parsable /\ t = "watch"
    <3>1. UNCHANGED <<nodeFile, process, pc, overtaken>> /\ pc["watch"] = "idle"
      BY <1>6, <2>2 DEF ReadConfig, configVars
    <3> QED BY <2>2, <3>1 DEF Fresh, Parsable
  <2> QED BY <1>2, <1>6, <2>1, <2>2 DEF ReadConfig
<1>7. ASSUME NEW t \in Thread, StoreConfig(t) PROVE Fresh'
  <2>1. /\ pc[t] = "store" /\ poolCfg' = parsed[t]
        /\ parsed' = [parsed EXCEPT ![t] = Nil] /\ pc' = [pc EXCEPT ![t] = "lock"]
        /\ overtaken' = (overtaken \/ (t = "watch" /\ pc["request"] = "store"))
        /\ UNCHANGED <<nodeFile, events, process>>
    BY <1>7 DEF StoreConfig, Goto, watchVars
  <2>2. CASE t = "watch"
    BY <2>1, <2>2 DEF Fresh, Threads, Thread, Parsable
  <2>3. CASE t = "request"
    BY <2>1, <2>3 DEF Fresh, Threads, Thread, Parsable
  <2> QED BY <2>2, <2>3 DEF Thread
<1>8. ASSUME NEW t \in Thread, ApplyConfig(t) PROVE Fresh'
  <2>1. CASE ~Exit
    <3>1. /\ pc[t] = "lock"
          /\ pc' = [pc EXCEPT ![t] = IF phase' = "idle" THEN "idle" ELSE "reconcile"]
          /\ UNCHANGED <<nodeFile, events, process, parsed, poolCfg, overtaken>>
      BY <1>8, <2>1 DEF ApplyConfig, Goto, watchVars, configVars
    <3> QED BY <3>1, FreshStays DEF Threads, Thread
  <2> QED BY <1>2, <2>1
<1>9. CASE ReconcileContainer \/ ReleaseLingering \/ UNCHANGED allVars
  BY <1>9, FreshStays DEF ReconcileContainer, ReleaseLingering, policyVars, allVars
<1>10. CASE ReconcileDone
  <2>1. pc' = [t \in Thread |->
                 IF pc[t] # "reconcile" THEN pc[t]
                 ELSE IF t = "watch" THEN "idle" ELSE "finish"]
    BY <1>10 DEF ReconcileDone
  <2> QED BY <1>10, <2>1, FreshStays DEF ReconcileDone, watchVars, configVars, Thread
<1>11. CASE RestoreState \/ FinishStart \/ FinishRemove
  BY <1>11, FreshStays DEF RestoreState, FinishStart, FinishRemove, Goto, watchVars, configVars,
                          Threads, Thread
<1>12. ASSUME NEW id \in Container,
              \/ \E r \in Requests : AddContainer(id, r)
              \/ AddContainerAgain(id) /\ ~Exit
              \/ ContainerEnds(id)
       PROVE  Fresh'
  BY <1>12, FreshStays DEF AddContainer, AddContainerAgain, ContainerEnds, watchVars, configVars
<1>13. ASSUME NEW id \in Container, RemoveContainer(id) PROVE Fresh'
  <2>1. /\ pc["request"] = "idle"
        /\ pc' = [pc EXCEPT !["request"] = IF phase' = "idle" THEN "finish" ELSE "reconcile"]
        /\ UNCHANGED <<nodeFile, events, process, parsed, poolCfg, overtaken>>
    BY <1>13 DEF RemoveContainer, Serving, Goto, watchVars, configVars
  <2> QED BY <2>1, FreshStays DEF Threads, Thread
<1> QED BY <1>2, <1>3, <1>4, <1>5, <1>6, <1>7, <1>8, <1>9, <1>10, <1>11, <1>12, <1>13
        DEF NextPolicy

-----------------------------------------------------------------------------
(* The theorems                                                            *)

(* A plugin that has not yet run.                                          *)
LEMMA InitPInv == InitPolicy => PInv
<1> SUFFICES ASSUME InitPolicy PROVE PInv
  OBVIOUS
<1>1. IInv
  BY InitIInv DEF InitPolicy
<1>2. /\ phase = "idle" /\ reallocFailed = FALSE /\ DOMAIN containers = {}
      /\ nodeFile \in Files /\ events = 0 /\ process = "down"
      /\ pc = [t \in Thread |-> "idle"] /\ parsed = [t \in Thread |-> Nil]
      /\ poolCfg = Nil /\ removing = Nil
      /\ stub = [cpus |-> EmptyMap, data |-> EmptySnapshot, capacity |-> EmptyMap]
      /\ kubelet = stub
      /\ lost = FALSE /\ untold = FALSE /\ overtaken = FALSE
  BY DEF InitPolicy, Init
<1>3. Threads
  BY <1>2 DEF Threads, Thread, Step
<1>4. Checkpoints
  BY <1>2, EmptyDataSafe DEF Checkpoints
<1>5. Agreed
  <2>1. /\ IsMap(EmptyMap) /\ DOMAIN EmptyMap = {} /\ DOMAIN EmptySnapshot.containers = {}
        /\ DOMAIN EmptySnapshot.pools = {}
    BY DEF IsMap, EmptyMap, EmptySnapshot
  <2>2. DOMAIN GetPoolCapacity(EmptySnapshot.pools) = {}
    BY <2>1 DEF GetPoolCapacity
  <2> HIDE DEF EmptyMap, EmptySnapshot, GetPoolCapacity
  <2> QED BY <1>2, <2>1, <2>2 DEF Agreed, IsStub, SameContainers, SameCpus, SameCapacities,
                                 Started, Includes
<1>6. Fresh
  BY <1>2 DEF Fresh, Thread
<1> QED BY <1>1, <1>3, <1>4, <1>5, <1>6 DEF PInv

(* The steps.                                                              *)
LEMMA NextPInv == PInv /\ [NextPolicy]_allVars => PInv'
<1> SUFFICES ASSUME PInv, [NextPolicy]_allVars PROVE PInv'
  OBVIOUS
<1>1. IInv'
  BY PoolsStaySafe
<1>2. Threads' /\ Checkpoints' /\ Agreed' /\ Fresh'
  BY <1>1, ThreadsKept, CheckpointsKept, AgreedKept, FreshKept
<1> QED BY <1>1, <1>2 DEF PInv

(* So does the end of the plugin, for whatever reason it ends.             *)
LEMMA ExitPInv == PInv /\ Exit => PInv'
<1> SUFFICES ASSUME PInv, Exit PROVE PInv'
  OBVIOUS
<1>1. /\ NewProcess /\ process' = "down"
      /\ UNCHANGED <<nodeFile, kubelet, lost, untold, overtaken>>
  BY DEF Exit, faultVars
<1>2. IInv'
  BY <1>1, NewProcessSafe DEF PInv
<1>3. Threads'
  BY <1>1, NewProcessThreads DEF PInv, Threads
<1>4. Checkpoints'
  <2>1. stub'.data = EmptySnapshot /\ UNCHANGED reallocFailed
    BY <1>1 DEF NewProcess
  <2> QED BY <1>1, <2>1, EmptyDataSafe DEF PInv, Checkpoints
<1>5. Agreed'
  <2>1. IsStub(stub')
    BY <1>1 DEF NewProcess, IsStub, IsMap, EmptyMap
  <2> QED BY <1>1, <2>1, AgreedDown DEF PInv
<1>6. Fresh'
  BY <1>1 DEF NewProcess, Fresh, Thread
<1> QED BY <1>2, <1>3, <1>4, <1>5, <1>6 DEF PInv

(* Every step of the plugin, of the kubelet and of the watcher preserves   *)
(* the invariant.                                                          *)
THEOREM PolicyInvariance == PolicySpec => []PInv
BY InitPInv, NextPInv, PTL DEF PolicySpec

(* The plugin has the types and the control state it should have: never    *)
(* are both threads in a reconciliation, and one that is under way belongs *)
(* to one of them.                                                         *)
THEOREM PolicyTypeCorrect == PolicySpec => []PolicyTypeOK
<1>1. PInv => PolicyTypeOK
  BY DEF PInv, IInv, Threads, Step, Thread, PolicyTypeOK
<1> QED BY <1>1, PolicyInvariance, PTL

(* The pool set of the plugin keeps what was shown of a pool set alone,    *)
(* across restarts from a checkpoint.                                      *)
THEOREM PolicyKeepsPoolSet ==
  PolicySpec => [](SharedPinnedDisjoint /\ PinnedOwned /\ ExclusivePinned /\ ConfigInForce)
<1>1. PInv => SharedPinnedDisjoint /\ PinnedOwned /\ ExclusivePinned /\ ConfigInForce
  BY DEF PInv, IInv
<1> QED BY <1>1, PolicyInvariance, PTL

(* No restart loses a container, as long as no answer is lost.             *)
THEOREM RestartsKeepContainers == PolicySpec => []RestartKeepsContainers
<1>1. PInv => RestartKeepsContainers
  BY DEF PInv, Threads, Agreed, SameContainers, RestartKeepsContainers, Serving
<1> QED BY <1>1, PolicyInvariance, PTL

(* What the kubelet has put together from the changes it was told of is    *)
(* what its checkpoint assigns.                                            *)
THEOREM AssignmentsAreCheckpointed == PolicySpec => []AssignmentsMatchCheckpoint
<1>1. PInv => AssignmentsMatchCheckpoint
  BY DEF PInv, Agreed, SameCpus, Started, AssignmentsMatchCheckpoint, Serving
<1> QED BY <1>1, PolicyInvariance, PTL

(* The kubelet advertises the capacities of its checkpoint, unless an      *)
(* answer was lost.                                                        *)
THEOREM CapacityIsRelayed == PolicySpec => []CapacityRelayed
<1>1. PInv => CapacityRelayed
  <2>1. \A ps : DOMAIN GetPoolCapacity(ps) = DOMAIN ps
    BY DEF GetPoolCapacity
  <2> HIDE DEF GetPoolCapacity
  <2> QED BY <2>1 DEF PInv, Agreed, SameCapacities, Includes, CapacityRelayed
<1> QED BY <1>1, PolicyInvariance, PTL

(* The last configuration wins, whichever thread has stored it.            *)
THEOREM LastConfigIsTaken == PolicySpec => []LastConfigWins
<1>1. PInv => LastConfigWins
  BY DEF PInv, Fresh, LastConfigWins, Quiet, Parsed, Thread
<1> QED BY <1>1, PolicyInvariance, PTL

(* What a checkpoint assigns is what its pool set has.                     *)
LEMMA AssignedRightly ==
  ASSUME NEW ncfg, NEW ps, NEW cs, IntactUnder(ncfg, ps, cs)
  PROVE  ToldRightly(GetPoolAssignments(ps, cs), ps, cs)
<1> DEFINE told == GetPoolAssignments(ps, cs)
<1>1. {ReservedPool, DefaultPool} \subseteq DOMAIN ps
  BY NodeConfigsAssumption DEF IntactUnder, Acceptable
<1>2. ASSUME NEW id \in DOMAIN cs, cs[id].cpus = {}, NEW k \in told[id]
      PROVE  \E pool \in DOMAIN ps : k \in ps[pool].shared
  <2>1. k \in GetPoolCPUSet(ps, cs[id].pool)
    BY <1>2 DEF GetPoolAssignments
  <2> QED BY <1>1, <2>1 DEF GetPoolCPUSet
<1>3. \A id \in DOMAIN cs : cs[id].cpus # {} => told[id] = cs[id].cpus
  BY DEF GetPoolAssignments
<1> HIDE DEF told
<1>4. ToldRightly(told, ps, cs)
  BY <1>2, <1>3 DEF ToldRightly
<1> QED BY <1>4 DEF told

(* What the kubelet was told is what an intact pool set would tell.        *)
LEMMA PInvToldExclusive == PInv => ToldExclusive
<1> DEFINE d == kubelet.data
           told == GetPoolAssignments(d.pools, d.containers)
<1> SUFFICES ASSUME PInv, ~untold, d.currentCfg # Nil, ToldIntact,
                    NEW i \in ExclusiveIn(d.containers) \cap DOMAIN kubelet.cpus,
                    NEW j \in DOMAIN kubelet.cpus \ {i}
             PROVE  kubelet.cpus[i] \cap kubelet.cpus[j] = {}
  BY DEF ToldExclusive
<1>1. /\ DOMAIN kubelet.cpus \subseteq DOMAIN d.containers
      /\ \A id \in DOMAIN kubelet.cpus : kubelet.cpus[id] = told[id]
  BY DEF PInv, Agreed, SameContainers, SameCpus
<1>2. DataSafe(d, FALSE)
  BY DEF PInv, Checkpoints, DataSafe, ToldIntact
<1>3. DOMAIN d.pools = DOMAIN d.currentCfg
  BY <1>2 DEF DataSafe, ToldIntact
<1>4. IntactUnder(d.currentCfg, d.pools, d.containers)
  BY <1>2, <1>3 DEF DataSafe, ToldIntact, IntactUnder
<1> HIDE DEF d, told
<1>5. told[i] \cap told[j] = {}
  BY <1>1, <1>4, AssignedRightly, IntactIsExclusive DEF told
<1> QED BY <1>1, <1>5

(* The kubelet, which knows the assignments from the changes alone, never  *)
(* holds two containers to a CPU that one of them has exclusively.         *)
THEOREM ToldIsExclusive == PolicySpec => []ToldExclusive
BY PInvToldExclusive, PolicyInvariance, PTL

=============================================================================
