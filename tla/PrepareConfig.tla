--------------------------- MODULE PrepareConfig ----------------------------
(***************************************************************************)
(* prepareConfig and prepareReservedPool of pool.go as the loops they are. *)
(* A Go map is visited in any order, so each pass over the pools takes the *)
(* next pool nondeterministically; the accumulators (available, isolated,  *)
(* offlined, leftover) are the local variables of the function.  What is   *)
(* shown is that no order changes the verdict or the result, and that an   *)
(* accepted configuration never gives a CPU out twice.                     *)
(*                                                                         *)
(* The last check of prepareConfig, on removed pools that are busy, looks  *)
(* at the pools and not at the configuration: it is in module PoolSet.     *)
(***************************************************************************)
EXTENDS NodeConfig

CONSTANT NodeConfigs   \* parsed configurations that may be handed in

ASSUME NodeConfigsAssumption ==
  \A ncfg \in NodeConfigs :
    /\ Nil \notin DOMAIN ncfg
    /\ \A pool \in DOMAIN ncfg : ncfg[pool] \in Config
    /\ \A pool \in DOMAIN ncfg \ {ReservedPool} :
          ncfg[pool].CpuCount # ClaimLeftover => ncfg[pool].Cpus # Nil

VARIABLES
  ncfg,       \* the configuration being prepared
  stage,      \* "check", "reserve", "pools", "leftover" or "done"
  ids,        \* CPU ids the reservation loop has yet to visit
  ncpu,       \* CPUs it still has to reserve
  todo,       \* pools the current loop has yet to visit
  isolated,   \* isolated CPUs nobody has taken
  available,  \* other CPUs nobody has taken
  offlined,   \* CPUs to be taken offline
  leftover,   \* isolation -> the pool that claims what is left, or Nil
  cpus,       \* pool -> its CPUs, as far as they are decided
  result      \* "running", "ok", "error" or "panic"

vars == <<ncfg, stage, ids, ncpu, todo, isolated, available, offlined, leftover, cpus, result>>

TypeOK ==
  /\ \A pool \in DOMAIN ncfg : ncfg[pool] \in Config
  /\ stage \in {"check", "reserve", "pools", "leftover", "done"}
  /\ ids \subseteq CPU
  /\ ncpu \in Int
  /\ todo \subseteq DOMAIN ncfg
  /\ isolated \subseteq Isolated
  /\ available \subseteq CPU \ Isolated
  /\ offlined \subseteq CPU
  /\ leftover \in [BOOLEAN -> DOMAIN ncfg \cup {Nil}]
  /\ cpus \in [DOMAIN ncfg -> SUBSET CpuId]
  /\ result \in {"running", "ok", "error", "panic"}

(* A mistake: the isolated CPUs are not kept apart.                        *)
InitIsolatedAvailable ==
  /\ ncfg \in NodeConfigs
  /\ stage = "check"
  /\ ids = CPU
  /\ ncpu = 0
  /\ todo = {}
  /\ isolated = Isolated
  /\ available = CPU
  /\ offlined = {}
  /\ leftover = [i \in BOOLEAN |-> Nil]
  /\ cpus = [pool \in DOMAIN ncfg |-> {}]
  /\ result = "running"

Init ==
  /\ ncfg \in NodeConfigs
  /\ stage = "check"
  /\ ids = CPU
  /\ ncpu = 0
  /\ todo = {}
  /\ isolated = Isolated
  /\ available = CPU \ Isolated
  /\ offlined = {}
  /\ leftover = [i \in BOOLEAN |-> Nil]
  /\ cpus = [pool \in DOMAIN ncfg |-> {}]
  /\ result = "running"

Stop(verdict) ==
  /\ stage' = "done"
  /\ result' = verdict

-----------------------------------------------------------------------------
(* prepareReservedPool *)

CheckReserved ==
  /\ stage = "check"
  /\ CASE ReservedPool \notin DOMAIN ncfg -> Stop("error") /\ UNCHANGED <<ncpu, todo, cpus>>
       [] ReservedPool \in DOMAIN ncfg /\ ReservedIsExplicit(ncfg) ->
            IF 0 \in ncfg[ReservedPool].Cpus
              THEN /\ stage' = "pools"
                   /\ todo' = DOMAIN ncfg
                   /\ cpus' = [cpus EXCEPT ![ReservedPool] = ncfg[ReservedPool].Cpus]
                   /\ UNCHANGED <<ncpu, result>>
              ELSE Stop("error") /\ UNCHANGED <<ncpu, todo, cpus>>
       [] OTHER -> /\ stage' = "reserve"
                   /\ ncpu' = ncfg[ReservedPool].CpuCount
                   /\ UNCHANGED <<todo, cpus, result>>
  /\ UNCHANGED <<ncfg, ids, isolated, available, offlined, leftover>>

(* The first count elements of a set in the order of their ids; a mistake  *)
(* takes one too many.                                                     *)
FirstOfAndOne(S, count) == {k \in S : Cardinality({j \in S : j < k}) <= count}
FirstOf(S, count) == {k \in S : Cardinality({j \in S : j < k}) < count}

(* One round of the loop: the threads of the core of the lowest id left.   *)
ReserveCore ==
  /\ stage = "reserve"
  /\ ids # {}
  /\ LET id   == Min(ids)
         cset == cpus[ReservedPool]
         tset == ThreadSet[id] \ cset
         size == Cardinality(tset)
     IN IF ncpu < 0
          THEN Stop("panic") /\ UNCHANGED <<ids, ncpu, todo, cpus>>
          ELSE /\ cpus' = [cpus EXCEPT ![ReservedPool] =
                             cset \cup (IF ncpu < size THEN FirstOf(tset, ncpu) ELSE tset)]
               /\ ncpu' = IF ncpu < size THEN 0 ELSE ncpu - size
               /\ ids' = ids \ {id}
               /\ IF ncpu' = 0
                    THEN stage' = "pools" /\ todo' = DOMAIN ncfg /\ UNCHANGED result
                    ELSE UNCHANGED <<stage, todo, result>>
  /\ UNCHANGED <<ncfg, isolated, available, offlined, leftover>>

(* All CPUs visited and some still missing.                                *)
ReserveFails ==
  /\ stage = "reserve"
  /\ ids = {}
  /\ Stop("error")
  /\ UNCHANGED <<ncfg, ids, ncpu, todo, isolated, available, offlined, leftover, cpus>>

-----------------------------------------------------------------------------
(* The loop over the pools *)

NoteLeftover(pool) ==
  LET kind == ncfg[pool].Isolated IN
  /\ stage = "pools" /\ pool \in todo
  /\ ncfg[pool].CpuCount = ClaimLeftover
  /\ IF leftover[kind] # Nil
       THEN Stop("error") /\ UNCHANGED <<todo, leftover>>
       ELSE /\ leftover' = [leftover EXCEPT ![kind] = pool]
            /\ todo' = todo \ {pool}
            /\ UNCHANGED <<stage, result>>
  /\ UNCHANGED <<ncfg, ids, ncpu, isolated, available, offlined, cpus>>

(* Does nobody else have the CPUs of the pool, nor use the siblings an     *)
(* HT-free pool takes offline?  A mistake: the siblings are not checked.   *)
CpusAvailable(pool, requested) ==
  requested \subseteq (IF ncfg[pool].Isolated THEN isolated ELSE available)

CanOfflineUnchecked(siblings, rest) == siblings \subseteq CPU

CanOffline(siblings, rest) ==
  siblings \subseteq rest \/ siblings \subseteq offlined

CheckPool(pool) ==
  LET requested == IF pool = ReservedPool THEN cpus[pool] ELSE ncfg[pool].Cpus
      siblings  == IF ncfg[pool].DisableHT THEN HtSiblings(requested) ELSE {}
      rest      == IF ncfg[pool].Isolated THEN available ELSE available \ requested
  IN
  /\ stage = "pools" /\ pool \in todo
  /\ ncfg[pool].CpuCount # ClaimLeftover
  /\ IF CpusAvailable(pool, requested) /\ CanOffline(siblings, rest)
       THEN /\ isolated' = IF ncfg[pool].Isolated THEN isolated \ requested ELSE isolated
            /\ available' = rest \ siblings
            /\ offlined' = offlined \cup siblings
            /\ cpus' = [cpus EXCEPT ![pool] = requested]
            /\ todo' = todo \ {pool}
            /\ UNCHANGED <<stage, result>>
       ELSE Stop("error") /\ UNCHANGED <<isolated, available, offlined, cpus, todo>>
  /\ UNCHANGED <<ncfg, ids, ncpu, leftover>>

PoolsChecked ==
  /\ stage = "pools"
  /\ todo = {}
  /\ stage' = "leftover"
  /\ todo' = {leftover[i] : i \in BOOLEAN} \ {Nil}
  /\ UNCHANGED <<ncfg, ids, ncpu, isolated, available, offlined, leftover, cpus, result>>

-----------------------------------------------------------------------------
(* The loop over the claims *)

ClaimLeftoverCpus(pool) ==
  LET rest == IF ncfg[pool].Isolated THEN isolated ELSE available IN
  /\ stage = "leftover" /\ pool \in todo
  /\ IF rest = {}
       THEN Stop("error") /\ UNCHANGED <<todo, cpus>>
       ELSE /\ cpus' = [cpus EXCEPT ![pool] = rest]
            /\ todo' = todo \ {pool}
            /\ UNCHANGED <<stage, result>>
  /\ UNCHANGED <<ncfg, ids, ncpu, isolated, available, offlined, leftover>>

LeftoverClaimed ==
  /\ stage = "leftover"
  /\ todo = {}
  /\ Stop("ok")
  /\ UNCHANGED <<ncfg, ids, ncpu, todo, isolated, available, offlined, leftover, cpus>>

Next ==
  \/ CheckReserved
  \/ ReserveCore
  \/ ReserveFails
  \/ \E pool \in DOMAIN ncfg : NoteLeftover(pool) \/ CheckPool(pool) \/ ClaimLeftoverCpus(pool)
  \/ PoolsChecked
  \/ LeftoverClaimed

Spec == Init /\ [][Next]_vars

-----------------------------------------------------------------------------
(* Properties *)

(* Whatever order the maps are visited in, the loops accept exactly the    *)
(* configurations PrepareOk describes, crash on exactly those of           *)
(* PreparePanics, and give each pool the CPUs PoolCpus gives it.           *)
LoopDecidesPrepareOk ==
  stage = "done" =>
    /\ result = "panic" <=> PreparePanics(ncfg)
    /\ result = "ok" <=> PrepareOk(ncfg)
    /\ result = "ok" => cpus = PoolCpus(ncfg) /\ offlined = OfflinedCpus(ncfg)

(* An accepted configuration gives no CPU to two pools, and none of the    *)
(* CPUs it takes offline to any pool ("pool CPUs are available (not taken  *)
(* by other pools)", pool.go:297).                                         *)
CpusGivenOnce ==
  result = "ok" =>
    /\ \A p, q \in DOMAIN ncfg : p # q => cpus[p] \cap cpus[q] = {}
    /\ \A p \in DOMAIN ncfg : cpus[p] \cap offlined = {}

=============================================================================
