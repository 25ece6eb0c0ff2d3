------------------------- MODULE PrepareConfigProofs -------------------------
(***************************************************************************)
(* The loops of prepareConfig decide what module NodeConfig says of a      *)
(* configuration as a whole, for any machine and any configuration, in     *)
(* whatever order the maps are visited.                                    *)
(*                                                                         *)
(* LInv says how far the function has come: the reservation has taken the  *)
(* cores of the CPUs it has visited (Reserving); the pools that were       *)
(* checked would pass all checks among themselves, and the accumulators    *)
(* are what these pools leave (Checked); every claim that was noted is the *)
(* only one of its kind (Noted).  The rest is about sets of pools: what    *)
(* the checks of one more pool mean for those checked before (PassesFits,  *)
(* FitsPasses), and which CPUs the reservation takes (LastCoreIsPicked).   *)
(***************************************************************************)
EXTENDS PrepareConfig, SumTheorems

(* What the invariant says of a configuration nc, as operators of nc.      *)
Claims(nc)  == DOMAIN nc \ ExplicitPools(nc)
Kind(nc, p) == nc[p].Isolated

(* The CPUs some of the pools take, and the siblings they take offline.    *)
Taken(nc, D, kind) == UNION {ExplicitCpus(nc, p) : p \in {q \in D : nc[q].Isolated = kind}}
Down(nc, D)        == UNION {HtSiblings(ExplicitCpus(nc, p)) : p \in {q \in D : nc[q].DisableHT}}

(* The pools D pass the checks among themselves.                           *)
Fit(nc, D) ==
  /\ \A p \in D : ExplicitCpus(nc, p) \subseteq AvailableCpus(nc[p].Isolated)
  /\ \A p, q \in D : p # q => ExplicitCpus(nc, p) \cap ExplicitCpus(nc, q) = {}
  /\ Down(nc, D) \subseteq AvailableCpus(FALSE) \ Taken(nc, D, FALSE)

(* What is left of the CPUs when the pools D have theirs.                  *)
FreeIsolated(nc, D)  == AvailableCpus(TRUE) \ Taken(nc, D, TRUE)
FreeAvailable(nc, D) == (AvailableCpus(FALSE) \ Taken(nc, D, FALSE)) \ Down(nc, D)

(* There is one claim of a kind.                                           *)
OneClaim(nc) == \A kind \in BOOLEAN : \A p, q \in LeftoverPools(nc, kind) : p = q

(* All threads of the cores of the CPUs ks.                                *)
Cores(ks) == UNION {ThreadSet[k] : k \in ks}

(* The CPUs are visited by id, and ks are still to be visited.             *)
Visited(ks) == \A j \in CPU \ ks, k \in ks : j < k

Untouched ==
  /\ isolated = Isolated /\ available = CPU \ Isolated
  /\ offlined = {} /\ leftover = [i \in BOOLEAN |-> Nil]

Reserving ==
  /\ ReservedPool \in DOMAIN ncfg /\ ~ReservedIsExplicit(ncfg)
  /\ Visited(ids)
  /\ cpus[ReservedPool] = Cores(CPU \ ids)
  /\ ncfg[ReservedPool].CpuCount = Cardinality(cpus[ReservedPool]) + ncpu
  /\ ids # CPU => ncpu > 0

Reserved == ReservedOk(ncfg) /\ ~PreparePanics(ncfg) /\ result = "running"

Checked(D) ==
  /\ Fit(ncfg, D)
  /\ isolated = FreeIsolated(ncfg, D)
  /\ available = FreeAvailable(ncfg, D)
  /\ offlined = Down(ncfg, D)
  /\ \A p \in D : cpus[p] = ExplicitCpus(ncfg, p)

Noted(C) ==
  /\ \A p \in C : leftover[Kind(ncfg, p)] = p
  /\ \A kind \in BOOLEAN :
       leftover[kind] # Nil => leftover[kind] \in C /\ Kind(ncfg, leftover[kind]) = kind

(* How far the function has come, stage by stage.                          *)
AtCheck   == /\ result = "running" /\ ids = CPU /\ Untouched
             /\ cpus = [p \in DOMAIN ncfg |-> {}]
AtReserve == result = "running" /\ Untouched /\ Reserving
AtPools   == /\ Reserved /\ cpus[ReservedPool] = ExplicitCpus(ncfg, ReservedPool)
             /\ Checked(ExplicitPools(ncfg) \ todo) /\ Noted(Claims(ncfg) \ todo)
AtLeftover ==
  /\ Reserved /\ OneClaim(ncfg)
  /\ Checked(ExplicitPools(ncfg))
  /\ todo \subseteq Claims(ncfg)
  /\ \A p \in Claims(ncfg) \ todo :
       /\ cpus[p] = LeftoverCpus(ncfg, Kind(ncfg, p))
       /\ LeftoverCpus(ncfg, Kind(ncfg, p)) # {}

LInv ==
  /\ TypeOK /\ ncfg \in NodeConfigs
  /\ stage = "check" => AtCheck
  /\ stage = "reserve" => AtReserve
  /\ stage = "pools" => AtPools
  /\ stage = "leftover" => AtLeftover
  /\ LoopDecidesPrepareOk
  /\ result # "running" => stage = "done"

-----------------------------------------------------------------------------
(* The reservation                                                         *)

(* The least of some CPUs is one of them.                                  *)
LEMMA MinIs ==
  ASSUME NEW S, S \subseteq CPU, S # {}
  PROVE  Min(S) \in S /\ \A k \in S : Min(S) <= k
<1>1. \E n \in S : \A m \in S : n <= m
  BY CPUAssumption, LeastNat
<1> QED BY <1>1 DEF Min

(* Sets of CPUs have a size.                                               *)
LEMMA CpusFinite ==
  ASSUME NEW S, S \subseteq CPU
  PROVE  IsFiniteSet(S) /\ Cardinality(S) \in Nat /\ Cardinality(S) <= Cardinality(CPU)
BY CPUAssumption, FS_Subset, FS_CardinalityType

(* So have the sizes of two that are apart.                                *)
LEMMA CpusApart ==
  ASSUME NEW S, S \subseteq CPU, NEW T, T \subseteq CPU, S \cap T = {}
  PROVE  Cardinality(S \cup T) = Cardinality(S) + Cardinality(T)
<1>1. Cardinality(S \cup T) = Cardinality(S) + Cardinality(T) - Cardinality(S \cap T)
  BY CpusFinite, FS_Union
<1>2. Cardinality(S \cap T) = 0
  BY FS_EmptySet
<1> QED BY <1>1, <1>2, CpusFinite

(* The CPUs of some cores, and the core that comes next.                   *)
LEMMA CoresSplit ==
  ASSUME NEW ks, ks \subseteq CPU, NEW id \in ks
  PROVE  /\ Cores(CPU \ ks) \subseteq CPU
         /\ Cores(CPU \ (ks \ {id})) = Cores(CPU \ ks) \cup ThreadSet[id]
         /\ \A k \in CPU : k \in Cores(CPU \ ks) => ThreadSet[k] \subseteq Cores(CPU \ ks)
BY ThreadSetAssumption DEF Cores

(* Before or at CPU k, in the order in which CPUs are reserved.            *)
Upto(k) == {j \in CPU : ReservedBefore(j, k)}

(* The CPUs cset, then the threads of core id, come first in that order.   *)
InOrder(id, cset) ==
  /\ \A k \in cset : Upto(k) \subseteq cset
  /\ \A k \in ThreadSet[id] :
       Upto(k) = cset \cup ({j \in ThreadSet[id] : j < k} \cup {k})
  /\ \A k \in CPU \ (cset \cup ThreadSet[id]) :
       cset \cup (ThreadSet[id] \cup {k}) \subseteq Upto(k)

(* A reservation ends in a core: it takes the cores before, and the first  *)
(* CPUs of that one.  These are the ones PickReserved picks.               *)
LEMMA LastCore ==
  ASSUME NEW ks, ks \subseteq CPU, ks # {}, Visited(ks),
         NEW id, id = Min(ks),
         NEW cset, cset = Cores(CPU \ ks), id \notin cset
  PROVE  InOrder(id, cset)
<1> DEFINE m(k) == Min(ThreadSet[k])
<1>1. id \in ks /\ id \in CPU /\ \A k \in ks : id <= k
  BY MinIs
<1>2. \A k \in CPU : /\ m(k) \in ThreadSet[k] /\ \A j \in ThreadSet[k] : m(k) <= j
                     /\ k \in ThreadSet[k] /\ ThreadSet[k] \subseteq CPU
                     /\ ThreadSet[m(k)] = ThreadSet[k]
  <2>1. SUFFICES ASSUME NEW k \in CPU
                 PROVE  /\ m(k) \in ThreadSet[k] /\ \A j \in ThreadSet[k] : m(k) <= j
                        /\ k \in ThreadSet[k] /\ ThreadSet[k] \subseteq CPU
                        /\ ThreadSet[m(k)] = ThreadSet[k]
    OBVIOUS
  <2>2. k \in ThreadSet[k] /\ ThreadSet[k] \subseteq CPU
    BY ThreadSetAssumption
  <2>3. m(k) \in ThreadSet[k] /\ \A j \in ThreadSet[k] : m(k) <= j
    BY <2>2, MinIs
  <2> HIDE DEF m
  <2> QED BY <2>2, <2>3, ThreadSetAssumption
<1>3. \A j, k \in CPU : ReservedBefore(j, k) <=> (m(j) < m(k) \/ (ThreadSet[j] = ThreadSet[k] /\ j <= k))
  BY DEF ReservedBefore
<1> HIDE DEF m
<1>4. \A k \in CPU : m(k) \in Nat /\ k \in Nat
  BY <1>2, CPUAssumption
<1>5. \A k \in CPU : k \in cset <=> m(k) \notin ks
  <2>1. ASSUME NEW k \in cset PROVE k \in CPU /\ m(k) \notin ks
    <3>1. PICK v \in CPU \ ks : k \in ThreadSet[v]
      BY DEF Cores
    <3>2. k \in CPU /\ ThreadSet[k] = ThreadSet[v]
      BY <3>1, ThreadSetAssumption
    <3>3. m(k) <= v /\ m(k) \in CPU
      BY <1>2, <3>2
    <3> QED BY <1>4, <3>1, <3>2, <3>3 DEF Visited
  <2>2. ASSUME NEW k \in CPU, m(k) \notin ks PROVE k \in cset
    BY <1>2, <2>2 DEF Cores
  <2> QED BY <2>1, <2>2
<1>6. \A k \in CPU : k \in cset <=> m(k) < id
  <2> SUFFICES ASSUME NEW k \in CPU PROVE k \in cset <=> m(k) < id
    OBVIOUS
  <2>1. m(k) \in CPU /\ m(k) \in Nat /\ id \in Nat
    BY <1>1, <1>2, <1>4, CPUAssumption
  <2>2. m(k) \in ks => id <= m(k)
    BY <1>1
  <2>3. m(k) \notin ks => m(k) < id
    BY <1>1, <2>1 DEF Visited
  <2> QED BY <1>5, <2>1, <2>2, <2>3
<1>7. m(id) = id
  <2>1. m(id) \in Nat /\ id \in Nat /\ m(id) <= id
    BY <1>1, <1>2, <1>4
  <2>2. ~(m(id) < id)
    BY <1>1, <1>6
  <2> QED BY <2>1, <2>2
<1>8. \A k \in CPU : m(k) = id <=> k \in ThreadSet[id]
  <2> SUFFICES ASSUME NEW k \in CPU PROVE m(k) = id <=> k \in ThreadSet[id]
    OBVIOUS
  <2>1. ASSUME m(k) = id PROVE k \in ThreadSet[id]
    BY <1>2, <2>1
  <2>2. ASSUME k \in ThreadSet[id] PROVE m(k) = id
    <3>1. ThreadSet[k] = ThreadSet[id]
      BY <1>1, <2>2, ThreadSetAssumption
    <3>2. m(k) \in ThreadSet[id] /\ id \in ThreadSet[k] /\ m(id) \in Nat
      BY <1>1, <1>2, <1>4, <3>1
    <3>3. m(k) <= id /\ m(id) <= m(k)
      BY <1>1, <1>2, <3>1, <3>2
    <3> QED BY <1>4, <1>7, <3>2, <3>3
  <2> QED BY <2>1, <2>2
<1>9. ASSUME NEW k \in cset PROVE Upto(k) \subseteq cset
  <2>1. k \in CPU
    BY <1>9, ThreadSetAssumption DEF Cores
  <2>2. ASSUME NEW j \in CPU, ReservedBefore(j, k) PROVE m(j) < id
    <3>1. m(j) <= m(k)
      BY <1>2, <1>3, <1>4, <2>1, <2>2 DEF m
    <3> QED BY <1>1, <1>4, <1>6, <2>1, <3>1
  <2> QED BY <1>6, <2>2 DEF Upto
<1>10. ASSUME NEW k \in ThreadSet[id]
       PROVE  Upto(k) = cset \cup ({j \in ThreadSet[id] : j < k} \cup {k})
  <2>1. k \in CPU /\ m(k) = id /\ ThreadSet[k] = ThreadSet[id]
    BY <1>1, <1>2, <1>8, ThreadSetAssumption
  <2>2. \A j \in CPU : ReservedBefore(j, k) <=> j \in cset \/ (j \in ThreadSet[id] /\ j <= k)
    <3> SUFFICES ASSUME NEW j \in CPU
                 PROVE  ReservedBefore(j, k) <=> j \in cset \/ (j \in ThreadSet[id] /\ j <= k)
      OBVIOUS
    <3>1. ThreadSet[j] = ThreadSet[id] <=> j \in ThreadSet[id]
      BY <1>1, <1>2, ThreadSetAssumption
    <3>2. ReservedBefore(j, k) <=> (m(j) < id \/ (ThreadSet[j] = ThreadSet[id] /\ j <= k))
      BY <1>3, <2>1
    <3> QED BY <1>6, <3>1, <3>2
  <2>3. cset \subseteq CPU /\ ThreadSet[id] \subseteq CPU
    BY <1>1, ThreadSetAssumption DEF Cores
  <2> QED BY <1>4, <2>1, <2>2, <2>3 DEF Upto
<1>11. ASSUME NEW k \in CPU \ (cset \cup ThreadSet[id])
       PROVE  cset \cup (ThreadSet[id] \cup {k}) \subseteq Upto(k)
  <2>1. id < m(k)
    BY <1>1, <1>4, <1>6, <1>8
  <2>2. cset \subseteq CPU /\ ThreadSet[id] \subseteq CPU
    BY <1>1, ThreadSetAssumption DEF Cores
  <2>3. \A j \in cset \cup ThreadSet[id] : m(j) < m(k)
    BY <1>1, <1>4, <1>6, <1>8, <2>1, <2>2
  <2>4. ReservedBefore(k, k)
    BY <1>3, <1>4
  <2>5. \A j \in cset \cup ThreadSet[id] : ReservedBefore(j, k)
    BY <1>3, <2>2, <2>3
  <2> QED BY <2>2, <2>4, <2>5 DEF Upto
<1> QED BY <1>9, <1>10, <1>11 DEF InOrder

(* There are as many of them as were to be reserved.                       *)
LEMMA LastCoreIsPicked ==
  ASSUME NEW ks, ks \subseteq CPU, ks # {}, Visited(ks),
         NEW id, id = Min(ks),
         NEW cset, cset = Cores(CPU \ ks), id \notin cset,
         NEW count \in Nat, count <= Cardinality(ThreadSet[id])
  PROVE  cset \cup FirstOf(ThreadSet[id], count) = PickReserved(Cardinality(cset) + count)
<1> DEFINE tset  == ThreadSet[id]
           L(k)  == {j \in tset : j < k}
           n     == Cardinality(cset)
           P     == PickReserved(n + count)
<1>1. /\ \A k \in cset : Upto(k) \subseteq cset
      /\ \A k \in tset : Upto(k) = cset \cup (L(k) \cup {k})
      /\ \A k \in CPU \ (cset \cup tset) : cset \cup (tset \cup {k}) \subseteq Upto(k)
  <2>1. InOrder(id, cset)
    BY LastCore
  <2> QED BY <2>1 DEF InOrder
<1>2. id \in CPU /\ cset \subseteq CPU /\ tset \subseteq CPU
  BY MinIs, ThreadSetAssumption DEF Cores
<1>3. cset \cap tset = {}
  BY <1>2, ThreadSetAssumption DEF Cores
<1>4. n \in Nat /\ Cardinality(tset) \in Nat
  BY <1>2, CpusFinite
<1>5. \A k \in CPU : k \in P <=> Cardinality(Upto(k)) <= n + count
  BY DEF PickReserved, Upto
<1>6. \A k \in tset : k \in FirstOf(tset, count) <=> Cardinality(L(k)) < count
  BY DEF FirstOf
<1>7. FirstOf(tset, count) \subseteq tset /\ P \subseteq CPU
  BY DEF FirstOf, PickReserved
<1> HIDE DEF tset, n, P
<1>8. ASSUME NEW k \in cset PROVE k \in P
  <2>1. Cardinality(Upto(k)) <= n
    BY <1>1, <1>2, CpusFinite, FS_Subset DEF n
  <2>2. Cardinality(Upto(k)) \in Nat
    BY CpusFinite DEF Upto
  <2> QED BY <1>2, <1>4, <1>5, <2>1, <2>2
<1>9. ASSUME NEW k \in tset PROVE k \in P <=> k \in FirstOf(tset, count)
  <2>1. L(k) \subseteq CPU /\ {k} \subseteq CPU /\ L(k) \cap {k} = {}
    <3>1. k \in CPU /\ k \in Nat
      BY <1>2, CPUAssumption
    <3>2. ~(k < k)
      BY <3>1
    <3> QED BY <1>2, <3>1, <3>2
  <2>2. Cardinality(L(k) \cup {k}) = Cardinality(L(k)) + 1
    <3> HIDE DEF L
    <3>1. Cardinality(L(k) \cup {k}) = Cardinality(L(k)) + Cardinality({k})
      BY <2>1, CpusApart
    <3> QED BY <3>1, FS_Singleton
  <2>3. Cardinality(Upto(k)) = n + Cardinality(L(k) \cup {k})
    <3>1. L(k) \cup {k} \subseteq CPU /\ cset \cap (L(k) \cup {k}) = {}
      BY <1>3, <2>1
    <3> HIDE DEF L
    <3> QED BY <1>1, <1>2, <3>1, CpusApart DEF n
  <2>4. Cardinality(L(k)) \in Nat
    BY <2>1, CpusFinite
  <2> HIDE DEF L
  <2> QED BY <1>2, <1>4, <1>5, <1>6, <2>2, <2>3, <2>4
<1>10. ASSUME NEW k \in CPU \ (cset \cup tset) PROVE k \notin P
  <2>1. Cardinality(tset \cup {k}) = Cardinality(tset) + 1
    <3>1. {k} \subseteq CPU /\ tset \cap {k} = {}
      OBVIOUS
    <3>2. Cardinality(tset \cup {k}) = Cardinality(tset) + Cardinality({k})
      BY <1>2, <3>1, CpusApart
    <3> QED BY <3>2, FS_Singleton
  <2>2. Cardinality(cset \cup (tset \cup {k})) = n + Cardinality(tset \cup {k})
    BY <1>2, <1>3, CpusApart DEF n
  <2>3. Cardinality(cset \cup (tset \cup {k})) <= Cardinality(Upto(k))
    <3>1. IsFiniteSet(Upto(k))
      BY CpusFinite DEF Upto
    <3> QED BY <1>1, <3>1, FS_Subset
  <2>4. Cardinality(Upto(k)) \in Nat
    BY CpusFinite DEF Upto
  <2>5. count <= Cardinality(tset)
    BY DEF tset
  <2> QED BY <1>4, <1>5, <2>1, <2>2, <2>3, <2>4, <2>5
<1>11. cset \cup FirstOf(tset, count) = P
  BY <1>2, <1>7, <1>8, <1>9, <1>10
<1> QED BY <1>11 DEF tset, n, P

(* The first |S| CPUs of S are all of S.                                   *)
LEMMA FirstOfAll ==
  ASSUME NEW S, S \subseteq CPU
  PROVE  FirstOf(S, Cardinality(S)) = S
<1>1. ASSUME NEW k \in S PROVE Cardinality({j \in S : j < k}) < Cardinality(S)
  <2> DEFINE L == {j \in S : j < k}
  <2>1. k \in CPU /\ k \in Nat /\ ~(k < k)
    BY CPUAssumption
  <2>2. L \subseteq S \ {k} /\ L \subseteq CPU /\ S \ {k} \subseteq CPU
    BY <2>1
  <2> HIDE DEF L
  <2>3. Cardinality(L) <= Cardinality(S \ {k})
    BY <2>2, CpusFinite, FS_Subset
  <2>4. Cardinality(S \ {k}) = Cardinality(S) - 1
    BY CpusFinite, FS_RemoveElement
  <2>5. Cardinality(L) \in Nat /\ Cardinality(S) \in Nat
    BY <2>2, CpusFinite
  <2>6. Cardinality(L) < Cardinality(S)
    BY <2>3, <2>4, <2>5
  <2> QED BY <2>6 DEF L
<1> QED BY <1>1 DEF FirstOf

-----------------------------------------------------------------------------
(* The checks of a pool                                                    *)

(* The siblings pool p takes offline.                                      *)
Siblings(nc, p) == IF nc[p].DisableHT THEN HtSiblings(ExplicitCpus(nc, p)) ELSE {}

(* What pool p adds to the pools D.                                        *)
Adds(nc, D, p) ==
  /\ Taken(nc, D \cup {p}, TRUE) =
       Taken(nc, D, TRUE) \cup (IF nc[p].Isolated THEN ExplicitCpus(nc, p) ELSE {})
  /\ Taken(nc, D \cup {p}, FALSE) =
       Taken(nc, D, FALSE) \cup (IF nc[p].Isolated THEN {} ELSE ExplicitCpus(nc, p))
  /\ Down(nc, D \cup {p}) = Down(nc, D) \cup Siblings(nc, p)

(* What one more pool adds.                                                *)
LEMMA OneMore ==
  ASSUME NEW nc, NEW D, NEW p, nc[p].Isolated \in BOOLEAN
  PROVE  Adds(nc, D, p)
<1>1. Taken(nc, D \cup {p}, TRUE) =
        Taken(nc, D, TRUE) \cup (IF nc[p].Isolated THEN ExplicitCpus(nc, p) ELSE {})
  BY DEF Taken
<1>2. Taken(nc, D \cup {p}, FALSE) =
        Taken(nc, D, FALSE) \cup (IF nc[p].Isolated THEN {} ELSE ExplicitCpus(nc, p))
  BY DEF Taken
<1>3. Down(nc, D \cup {p}) = Down(nc, D) \cup Siblings(nc, p)
  BY DEF Down, Siblings
<1> QED BY <1>1, <1>2, <1>3 DEF Adds

(* Pools that fit together do so without some of them.                     *)
LEMMA FewerFit ==
  ASSUME NEW nc, NEW E, Fit(nc, E), NEW D, D \subseteq E
  PROVE  Fit(nc, D)
<1>1. Taken(nc, D, FALSE) \subseteq Taken(nc, E, FALSE) /\ Down(nc, D) \subseteq Down(nc, E)
  BY DEF Taken, Down
<1> QED BY <1>1 DEF Fit

(* The CPUs of the pools that fit.                                         *)
LEMMA FitTaken ==
  ASSUME NEW nc, NEW D, NEW kind
  PROVE  \A k : k \in Taken(nc, D, kind) <=>
                 \E q \in D : nc[q].Isolated = kind /\ k \in ExplicitCpus(nc, q)
BY DEF Taken

(* The siblings taken offline.                                             *)
LEMMA FitDown ==
  ASSUME NEW nc, NEW D
  PROVE  \A s : s \in Down(nc, D) <=>
                 \E q \in D : /\ nc[q].DisableHT
                              /\ \E k \in ExplicitCpus(nc, q) : s \in ThreadSet[k] \ {k}
BY DEF Down, HtSiblings

(* The check of pool p after the pools D.                                  *)
RestOf(nc, D, p) ==
  IF nc[p].Isolated THEN FreeAvailable(nc, D) ELSE FreeAvailable(nc, D) \ ExplicitCpus(nc, p)
Passes(nc, D, p) ==
  /\ ExplicitCpus(nc, p) \subseteq
        (IF nc[p].Isolated THEN FreeIsolated(nc, D) ELSE FreeAvailable(nc, D))
  /\ Siblings(nc, p) \subseteq RestOf(nc, D, p) \/ Siblings(nc, p) \subseteq Down(nc, D)

(* CPUs of one kind are not of the other.                                  *)
LEMMA KindsApart ==
  AvailableCpus(TRUE) \cap AvailableCpus(FALSE) = {} /\ \A kind \in BOOLEAN : AvailableCpus(kind) \subseteq CPU
BY IsolatedAssumption DEF AvailableCpus

(* A pool that passes its check fits with those checked before.            *)
LEMMA PassesFits ==
  ASSUME NEW nc, NEW D, NEW p, p \notin D, nc[p].Isolated \in BOOLEAN,
         \A q \in D : nc[q].Isolated \in BOOLEAN,
         Fit(nc, D), Passes(nc, D, p)
  PROVE  Fit(nc, D \cup {p})
<1> DEFINE E == D \cup {p}
           C == ExplicitCpus(nc, p)
           kind == nc[p].Isolated
<1>1. C \subseteq AvailableCpus(kind) /\ C \cap Taken(nc, D, kind) = {} /\ (~kind => C \cap Down(nc, D) = {})
  BY DEF Passes, FreeIsolated, FreeAvailable
<1>2. \A q \in D : C \cap ExplicitCpus(nc, q) = {}
  <2> SUFFICES ASSUME NEW q \in D PROVE C \cap ExplicitCpus(nc, q) = {}
    OBVIOUS
  <2>1. nc[q].Isolated = kind => ExplicitCpus(nc, q) \subseteq Taken(nc, D, kind)
    BY FitTaken
  <2>2. ExplicitCpus(nc, q) \subseteq AvailableCpus(nc[q].Isolated)
    BY DEF Fit
  <2>3. nc[q].Isolated # kind => AvailableCpus(nc[q].Isolated) \cap AvailableCpus(kind) = {}
    BY KindsApart
  <2> QED BY <1>1, <2>1, <2>2, <2>3
<1>3. /\ Taken(nc, E, FALSE) = Taken(nc, D, FALSE) \cup (IF kind THEN {} ELSE C)
      /\ Down(nc, E) = Down(nc, D) \cup Siblings(nc, p)
  <2>1. Adds(nc, D, p)
    BY OneMore
  <2> QED BY <2>1 DEF Adds
<1>4. Down(nc, D) \subseteq AvailableCpus(FALSE) \ Taken(nc, D, FALSE)
  BY DEF Fit
<1>5. Down(nc, D) \subseteq AvailableCpus(FALSE) \ Taken(nc, E, FALSE)
  BY <1>1, <1>3, <1>4
<1>6. Siblings(nc, p) \subseteq AvailableCpus(FALSE) \ Taken(nc, E, FALSE)
  <2>1. CASE Siblings(nc, p) \subseteq RestOf(nc, D, p)
    BY <1>3, <2>1 DEF RestOf, FreeAvailable
  <2>2. CASE Siblings(nc, p) \subseteq Down(nc, D)
    BY <1>5, <2>2
  <2> QED BY <2>1, <2>2 DEF Passes
<1>7. \A q \in E : ExplicitCpus(nc, q) \subseteq AvailableCpus(nc[q].Isolated)
  BY <1>1 DEF Fit
<1>8. \A q, r \in E : q # r => ExplicitCpus(nc, q) \cap ExplicitCpus(nc, r) = {}
  BY <1>2 DEF Fit
<1>9. Down(nc, E) \subseteq AvailableCpus(FALSE) \ Taken(nc, E, FALSE)
  BY <1>3, <1>5, <1>6
<1> QED BY <1>7, <1>8, <1>9 DEF Fit

(* One that fits passes: were a sibling of one of its CPUs taken offline   *)
(* for another pool, that pool would have a sibling of this sibling, and   *)
(* take the CPU of this one offline, or this one a CPU of that one.        *)
LEMMA FitsPasses ==
  ASSUME NEW nc, NEW D, NEW p, p \notin D, nc[p].Isolated \in BOOLEAN,
         \A q \in D : nc[q].Isolated \in BOOLEAN,
         Fit(nc, D \cup {p})
  PROVE  Passes(nc, D, p)
<1> DEFINE E == D \cup {p}
           C == ExplicitCpus(nc, p)
           kind == nc[p].Isolated
<1>1. /\ Taken(nc, E, FALSE) = Taken(nc, D, FALSE) \cup (IF kind THEN {} ELSE C)
      /\ Down(nc, E) = Down(nc, D) \cup Siblings(nc, p)
  <2>1. Adds(nc, D, p)
    BY OneMore
  <2> QED BY <2>1 DEF Adds
<1>2. \A q \in E : ExplicitCpus(nc, q) \subseteq AvailableCpus(nc[q].Isolated)
  BY DEF Fit
<1>3. \A q \in D : C \cap ExplicitCpus(nc, q) = {}
  BY DEF Fit
<1>4. Down(nc, E) \subseteq AvailableCpus(FALSE) \ Taken(nc, E, FALSE)
  BY DEF Fit
<1>5. C \subseteq AvailableCpus(kind) /\ C \cap Taken(nc, D, kind) = {}
  BY <1>2, <1>3, FitTaken
<1>6. ~kind => C \cap Down(nc, D) = {}
  BY <1>1, <1>4
<1>7. Siblings(nc, p) \cap Down(nc, D) = {}
  <2> SUFFICES ASSUME NEW s \in Siblings(nc, p), s \in Down(nc, D) PROVE FALSE
    OBVIOUS
  <2>1. nc[p].DisableHT /\ \E k \in C : s \in ThreadSet[k] \ {k}
    BY DEF Siblings, HtSiblings
  <2>2. PICK k \in C : s \in ThreadSet[k] \ {k}
    BY <2>1
  <2>3. PICK q \in D : nc[q].DisableHT /\ \E j \in ExplicitCpus(nc, q) : s \in ThreadSet[j] \ {j}
    BY FitDown
  <2>4. PICK j \in ExplicitCpus(nc, q) : s \in ThreadSet[j] \ {j}
    BY <2>3
  <2>5. k \in CPU /\ j \in CPU /\ k # j
    BY <1>2, <1>3, KindsApart
  <2>6. j \in ThreadSet[k] \ {k}
    <3>1. ThreadSet[s] = ThreadSet[k] /\ ThreadSet[s] = ThreadSet[j] /\ j \in ThreadSet[j]
      BY <2>2, <2>4, <2>5, ThreadSetAssumption
    <3> QED BY <2>5, <3>1
  <2>7. j \in Siblings(nc, p)
    BY <2>1, <2>6 DEF Siblings, HtSiblings
  <2>8. j \in AvailableCpus(FALSE) /\ j \notin Taken(nc, E, FALSE)
    BY <1>1, <1>4, <2>7
  <2>9. CASE nc[q].Isolated
    BY <1>2, <2>8, <2>9, KindsApart
  <2>10. CASE ~nc[q].Isolated
    BY <1>1, <2>8, <2>10, FitTaken
  <2> QED BY <2>9, <2>10
<1>8. Siblings(nc, p) \subseteq RestOf(nc, D, p)
  <2>1. Siblings(nc, p) \subseteq AvailableCpus(FALSE) \ Taken(nc, E, FALSE)
    BY <1>1, <1>4
  <2>2. CASE kind
    BY <1>1, <1>7, <2>1, <2>2 DEF RestOf, FreeAvailable
  <2>3. CASE ~kind
    BY <1>1, <1>7, <2>1, <2>3 DEF RestOf, FreeAvailable
  <2> QED BY <2>2, <2>3
<1>9. C \subseteq (IF kind THEN FreeIsolated(nc, D) ELSE FreeAvailable(nc, D))
  BY <1>5, <1>6 DEF FreeIsolated, FreeAvailable
<1> QED BY <1>8, <1>9 DEF Passes

(* What is free after a pool that passed.                                  *)
LEMMA FreeAfter ==
  ASSUME NEW nc, NEW D, NEW p, p \notin D, nc[p].Isolated \in BOOLEAN
  PROVE  /\ FreeIsolated(nc, D \cup {p}) =
              IF nc[p].Isolated THEN FreeIsolated(nc, D) \ ExplicitCpus(nc, p) ELSE FreeIsolated(nc, D)
         /\ FreeAvailable(nc, D \cup {p}) = RestOf(nc, D, p) \ Siblings(nc, p)
         /\ Down(nc, D \cup {p}) = Down(nc, D) \cup Siblings(nc, p)
<1>1. /\ Taken(nc, D \cup {p}, TRUE) = Taken(nc, D, TRUE) \cup (IF nc[p].Isolated THEN ExplicitCpus(nc, p) ELSE {})
      /\ Taken(nc, D \cup {p}, FALSE) = Taken(nc, D, FALSE) \cup (IF nc[p].Isolated THEN {} ELSE ExplicitCpus(nc, p))
      /\ Down(nc, D \cup {p}) = Down(nc, D) \cup Siblings(nc, p)
  <2>1. Adds(nc, D, p)
    BY OneMore
  <2> QED BY <2>1 DEF Adds
<1>2. FreeIsolated(nc, D \cup {p}) =
        IF nc[p].Isolated THEN FreeIsolated(nc, D) \ ExplicitCpus(nc, p) ELSE FreeIsolated(nc, D)
  BY <1>1 DEF FreeIsolated
<1>3. FreeAvailable(nc, D \cup {p}) = RestOf(nc, D, p) \ Siblings(nc, p)
  <2>1. CASE nc[p].Isolated
    BY <1>1, <2>1 DEF FreeAvailable, RestOf
  <2>2. CASE ~nc[p].Isolated
    BY <1>1, <2>2 DEF FreeAvailable, RestOf
  <2> QED BY <2>1, <2>2
<1> QED BY <1>1, <1>2, <1>3

(* Before any pool is checked, all CPUs are free.                          *)
LEMMA NoneChecked ==
  ASSUME NEW nc
  PROVE  /\ Fit(nc, {}) /\ Down(nc, {}) = {}
         /\ FreeIsolated(nc, {}) = Isolated /\ FreeAvailable(nc, {}) = CPU \ Isolated
<1>1. Down(nc, {}) = {} /\ \A kind \in BOOLEAN : Taken(nc, {}, kind) = {}
  BY DEF Down, Taken
<1> QED BY <1>1 DEF Fit, FreeIsolated, FreeAvailable, AvailableCpus

(* When all are checked, what is left is for the claims.                   *)
LEMMA AllChecked ==
  ASSUME NEW nc
  PROVE  /\ PoolsOk(nc) <=> ReservedOk(nc) /\ Fit(nc, ExplicitPools(nc)) /\ OneClaim(nc)
         /\ FreeIsolated(nc, ExplicitPools(nc)) = LeftoverCpus(nc, TRUE)
         /\ FreeAvailable(nc, ExplicitPools(nc)) = LeftoverCpus(nc, FALSE)
         /\ Down(nc, ExplicitPools(nc)) = OfflinedCpus(nc)
<1>1. \A kind \in BOOLEAN : Taken(nc, ExplicitPools(nc), kind) = ClaimedCpus(nc, kind)
  BY DEF Taken, ClaimedCpus
<1>2. Down(nc, ExplicitPools(nc)) = OfflinedCpus(nc)
  BY DEF Down, OfflinedCpus
<1>3. PoolsOk(nc) <=> ReservedOk(nc) /\ Fit(nc, ExplicitPools(nc)) /\ OneClaim(nc)
  BY <1>1, <1>2 DEF PoolsOk, Fit, OneClaim
<1>4. FreeIsolated(nc, ExplicitPools(nc)) = LeftoverCpus(nc, TRUE)
  BY <1>1 DEF FreeIsolated, LeftoverCpus
<1>5. FreeAvailable(nc, ExplicitPools(nc)) = LeftoverCpus(nc, FALSE)
  BY <1>1, <1>2 DEF FreeAvailable, LeftoverCpus
<1> QED BY <1>2, <1>3, <1>4, <1>5

-----------------------------------------------------------------------------
(* The steps                                                               *)

(* What the configuration that is being prepared is.                       *)
LEMMA Parsed ==
  ASSUME ncfg \in NodeConfigs
  PROVE  /\ Nil \notin DOMAIN ncfg
         /\ \A p \in DOMAIN ncfg :
              /\ ncfg[p].Isolated \in BOOLEAN /\ ncfg[p].CpuCount \in Int
              /\ ncfg[p].Cpus \in {Nil} \cup SUBSET CpuId
BY NodeConfigsAssumption DEF Config

(* The loop over the pools starts with nothing checked and nothing noted.  *)
LEMMA PoolsStart ==
  ASSUME Untouched, ncfg \in NodeConfigs
  PROVE  Checked(ExplicitPools(ncfg) \ DOMAIN ncfg) /\ Noted(Claims(ncfg) \ DOMAIN ncfg)
<1>1. ExplicitPools(ncfg) \ DOMAIN ncfg = {} /\ Claims(ncfg) \ DOMAIN ncfg = {}
  BY DEF ExplicitPools, Claims
<1>2. Checked({})
  BY NoneChecked DEF Checked, Untouched
<1>3. Noted({})
  BY DEF Noted, Untouched
<1> QED BY <1>1, <1>2, <1>3

(* An error ends the function when the configuration is not one to accept. *)
LEMMA Ended ==
  ASSUME LInv, UNCHANGED ncfg, Stop("error"), TypeOK', ~PrepareOk(ncfg), ~PreparePanics(ncfg)
  PROVE  LInv'
BY DEF LInv, Stop, LoopDecidesPrepareOk

(* The reservation is configured by its CPUs, or is made core by core.     *)
LEMMA CheckReservedStep ==
  ASSUME LInv, CheckReserved
  PROVE  LInv'
<1>1. /\ stage = "check" /\ AtCheck /\ TypeOK /\ ncfg \in NodeConfigs
      /\ UNCHANGED <<ncfg, ids, isolated, available, offlined, leftover>>
  BY DEF LInv, CheckReserved
<1>2. Untouched /\ Untouched'
  BY <1>1 DEF AtCheck, Untouched
<1>3. CASE ReservedPool \notin DOMAIN ncfg
  <2>1. Stop("error") /\ UNCHANGED <<ncpu, todo, cpus>>
    BY <1>3 DEF CheckReserved
  <2>2. TypeOK'
    BY <1>1, <2>1 DEF TypeOK, Stop
  <2>3. ~PrepareOk(ncfg) /\ ~PreparePanics(ncfg)
    BY <1>3 DEF PrepareOk, PoolsOk, ReservedOk, PreparePanics
  <2> QED BY <1>1, <2>1, <2>2, <2>3, Ended
<1>4. CASE ReservedPool \in DOMAIN ncfg /\ ReservedIsExplicit(ncfg) /\ 0 \notin ncfg[ReservedPool].Cpus
  <2>1. Stop("error") /\ UNCHANGED <<ncpu, todo, cpus>>
    BY <1>4 DEF CheckReserved
  <2>2. TypeOK'
    BY <1>1, <2>1 DEF TypeOK, Stop
  <2>3. ~PrepareOk(ncfg) /\ ~PreparePanics(ncfg)
    BY <1>4 DEF PrepareOk, PoolsOk, ReservedOk, PreparePanics
  <2> QED BY <1>1, <2>1, <2>2, <2>3, Ended
<1>5. CASE ReservedPool \in DOMAIN ncfg /\ ReservedIsExplicit(ncfg) /\ 0 \in ncfg[ReservedPool].Cpus
  <2>1. /\ stage' = "pools" /\ todo' = DOMAIN ncfg
        /\ cpus' = [cpus EXCEPT ![ReservedPool] = ncfg[ReservedPool].Cpus]
        /\ UNCHANGED <<ncpu, result>>
    BY <1>5 DEF CheckReserved
  <2>2. ncfg[ReservedPool].Cpus \in SUBSET CpuId
    BY <1>1, <1>5, Parsed DEF ReservedIsExplicit
  <2>3. cpus' \in [DOMAIN ncfg' -> SUBSET CpuId] /\ cpus'[ReservedPool] = ncfg[ReservedPool].Cpus
    BY <1>1, <1>5, <2>1, <2>2 DEF TypeOK
  <2>4. TypeOK'
    BY <1>1, <2>1, <2>3 DEF TypeOK
  <2>5. Reserved'
    BY <1>1, <1>5, <2>1 DEF AtCheck, Reserved, ReservedOk, PreparePanics
  <2>6. cpus'[ReservedPool] = ExplicitCpus(ncfg', ReservedPool)
    BY <1>1, <1>5, <2>3 DEF ExplicitCpus
  <2>7. Checked(ExplicitPools(ncfg) \ todo)' /\ Noted(Claims(ncfg) \ todo)'
    <3>1. Checked(ExplicitPools(ncfg) \ DOMAIN ncfg) /\ Noted(Claims(ncfg) \ DOMAIN ncfg)
      BY <1>1, <1>2, PoolsStart
    <3>2. ExplicitPools(ncfg) \ DOMAIN ncfg = {}
      BY DEF ExplicitPools
    <3> QED BY <1>1, <2>1, <3>1, <3>2 DEF Checked, Noted
  <2>8. AtPools'
    BY <2>5, <2>6, <2>7 DEF AtPools
  <2> QED BY <1>1, <2>1, <2>4, <2>5, <2>8 DEF LInv, LoopDecidesPrepareOk, Reserved
<1>6. CASE ReservedPool \in DOMAIN ncfg /\ ~ReservedIsExplicit(ncfg)
  <2>1. /\ stage' = "reserve" /\ ncpu' = ncfg[ReservedPool].CpuCount
        /\ UNCHANGED <<todo, cpus, result>>
    BY <1>6 DEF CheckReserved
  <2>2. ncpu' \in Int
    BY <1>1, <1>6, <2>1, Parsed
  <2>3. TypeOK'
    BY <1>1, <2>1, <2>2 DEF TypeOK
  <2>4. cpus'[ReservedPool] = {} /\ Cores(CPU \ ids') = {} /\ Visited(ids') /\ ids' = CPU
    BY <1>1, <1>6, <2>1 DEF AtCheck, Cores, Visited
  <2>5. ncfg[ReservedPool].CpuCount = Cardinality(cpus'[ReservedPool]) + ncpu'
    BY <2>1, <2>2, <2>4, FS_EmptySet
  <2>6. Reserving'
    BY <1>1, <1>6, <2>4, <2>5 DEF Reserving
  <2>7. AtReserve'
    BY <1>1, <1>2, <2>1, <2>6 DEF AtReserve, AtCheck
  <2> QED BY <1>1, <2>1, <2>3, <2>7 DEF LInv, LoopDecidesPrepareOk, AtCheck
<1> QED BY <1>3, <1>4, <1>5, <1>6

(* No CPU is left, and more were to be reserved than there are.            *)
LEMMA ReserveFailsStep ==
  ASSUME LInv, ReserveFails
  PROVE  LInv'
<1>1. /\ stage = "reserve" /\ ids = {} /\ AtReserve /\ TypeOK /\ Stop("error")
      /\ UNCHANGED <<ncfg, ids, ncpu, todo, isolated, available, offlined, leftover, cpus>>
  BY DEF LInv, ReserveFails
<1>2. Cores(CPU \ ids) = CPU
  BY <1>1, ThreadSetAssumption DEF Cores
<1>3. ncpu > 0 /\ ncfg[ReservedPool].CpuCount = Cardinality(CPU) + ncpu /\ ncpu \in Int
  BY <1>1, <1>2, CPUAssumption DEF AtReserve, Reserving, TypeOK
<1>4. Cardinality(CPU) \in Nat
  BY CpusFinite
<1>5. ncfg[ReservedPool].CpuCount > Cardinality(CPU) /\ ~(ncfg[ReservedPool].CpuCount < 0)
  BY <1>3, <1>4
<1>6. ncfg[ReservedPool].CpuCount \notin 0 .. Cardinality(CPU)
  BY <1>3, <1>4
<1>7. ~PrepareOk(ncfg) /\ ~PreparePanics(ncfg)
  BY <1>1, <1>5, <1>6 DEF AtReserve, Reserving, PrepareOk, PoolsOk, ReservedOk, PreparePanics
<1>8. TypeOK'
  BY <1>1 DEF TypeOK, Stop
<1> QED BY <1>1, <1>7, <1>8, Ended

(* The loop ends with the CPUs PickReserved picks.                         *)
LEMMA ReserveEnds ==
  ASSUME LInv, AtReserve, NEW count \in Nat, ncfg[ReservedPool].CpuCount = count,
         UNCHANGED <<ncfg, isolated, available, offlined, leftover, result>>,
         stage' = "pools", todo' = DOMAIN ncfg, TypeOK', count <= Cardinality(CPU),
         cpus'[ReservedPool] = PickReserved(count)
  PROVE  LInv'
<1>1. ncfg \in NodeConfigs /\ Untouched /\ Reserving /\ result = "running"
  BY DEF LInv, AtReserve
<1>2. Reserved'
  <2>1. Cardinality(CPU) \in Nat
    BY CpusFinite
  <2>2. count \in 0 .. Cardinality(CPU) /\ ~(count < 0)
    BY <2>1
  <2> QED BY <1>1, <2>2 DEF Reserving, Reserved, ReservedOk, PreparePanics
<1>3. cpus'[ReservedPool] = ExplicitCpus(ncfg', ReservedPool)
  BY <1>1 DEF ExplicitCpus, Reserving
<1>4. Checked(ExplicitPools(ncfg) \ todo)' /\ Noted(Claims(ncfg) \ todo)'
  <2>1. Checked(ExplicitPools(ncfg) \ DOMAIN ncfg) /\ Noted(Claims(ncfg) \ DOMAIN ncfg)
    BY <1>1, PoolsStart
  <2>2. ExplicitPools(ncfg) \ DOMAIN ncfg = {}
    BY DEF ExplicitPools
  <2> QED BY <2>1, <2>2 DEF Checked, Noted
<1>5. AtPools'
  BY <1>2, <1>3, <1>4 DEF AtPools
<1> QED BY <1>1, <1>5 DEF LInv, LoopDecidesPrepareOk

(* A round of the reservation takes a core, or ends in one.                *)
LEMMA ReserveCoreStep ==
  ASSUME LInv, ReserveCore
  PROVE  LInv'
<1> DEFINE id   == Min(ids)
           cset == cpus[ReservedPool]
           tset == ThreadSet[id] \ cset
           size == Cardinality(tset)
           count == ncfg[ReservedPool].CpuCount
<1>1. /\ stage = "reserve" /\ ids # {} /\ AtReserve /\ TypeOK /\ ncfg \in NodeConfigs
      /\ UNCHANGED <<ncfg, isolated, available, offlined, leftover>>
  BY DEF LInv, ReserveCore
<1>2. /\ Reserving /\ Untouched /\ result = "running" /\ ids \subseteq CPU /\ ncpu \in Int
      /\ cpus \in [DOMAIN ncfg -> SUBSET CpuId] /\ ReservedPool \in DOMAIN ncfg
  BY <1>1 DEF AtReserve, TypeOK, Reserving
<1>3. id \in ids /\ id \in CPU /\ \A k \in ids : id <= k
  BY <1>1, <1>2, MinIs
<1>4. /\ cset = Cores(CPU \ ids) /\ cset \subseteq CPU /\ Visited(ids)
      /\ Cores(CPU \ (ids \ {id})) = cset \cup ThreadSet[id]
      /\ \A k \in CPU : k \in cset => ThreadSet[k] \subseteq cset
  <2>1. cset = Cores(CPU \ ids) /\ Visited(ids)
    BY <1>2 DEF Reserving
  <2>2. /\ Cores(CPU \ ids) \subseteq CPU
        /\ Cores(CPU \ (ids \ {id})) = Cores(CPU \ ids) \cup ThreadSet[id]
        /\ \A k \in CPU : k \in Cores(CPU \ ids) => ThreadSet[k] \subseteq Cores(CPU \ ids)
    <3> HIDE DEF id
    <3> QED BY <1>2, <1>3, CoresSplit
  <2> QED BY <2>1, <2>2
<1>5. ThreadSet[id] \subseteq CPU /\ id \in ThreadSet[id] /\ tset \subseteq CPU /\ cset \cap tset = {}
  BY <1>3, ThreadSetAssumption
<1>6. size \in Nat /\ Cardinality(cset) \in Nat /\ count = Cardinality(cset) + ncpu
  BY <1>2, <1>4, <1>5, CpusFinite DEF Reserving
<1>7. cset \cup ThreadSet[id] = cset \cup tset
  OBVIOUS
<1>8. Cardinality(cset \cup tset) = Cardinality(cset) + size
  BY <1>4, <1>5, CpusApart
<1>9. id \notin cset => tset = ThreadSet[id]
  BY <1>3, <1>4, <1>5, ThreadSetAssumption
<1>10. id \in cset => size = 0 /\ tset = {}
  <2>1. id \in cset => tset = {}
    BY <1>3, <1>4
  <2> QED BY <2>1, FS_EmptySet
<1>11. id \in cset => ncpu > 0
  <2>1. id \in cset => ids # CPU
    BY <1>4 DEF Cores
  <2> QED BY <1>2, <2>1 DEF Reserving
<1>12. Visited(ids \ {id})
  <2> SUFFICES ASSUME NEW j \in CPU \ (ids \ {id}), NEW k \in ids \ {id} PROVE j < k
    BY DEF Visited
  <2>1. CASE j = id
    BY <1>2, <1>3, <2>1, CPUAssumption
  <2>2. CASE j \notin ids
    BY <1>4, <2>2 DEF Visited
  <2> QED BY <2>1, <2>2
<1>13. cset \cup tset \subseteq CPU /\ Cardinality(cset \cup tset) <= Cardinality(CPU)
  BY <1>4, <1>5, CpusFinite
<1>14. CASE ncpu < 0
  <2>1. Stop("panic") /\ UNCHANGED <<ids, ncpu, todo, cpus>>
    BY <1>14 DEF ReserveCore
  <2>2. TypeOK'
    BY <1>1, <2>1 DEF TypeOK, Stop
  <2>3. ids = CPU /\ ~(ncpu > 0)
    BY <1>2, <1>14 DEF Reserving
  <2>4. cset = {} /\ Cardinality(cset) = 0
    BY <1>4, <2>3, FS_EmptySet DEF Cores
  <2>5. count < 0 /\ count \notin 0 .. Cardinality(CPU)
    BY <1>2, <1>6, <1>14, <2>4
  <2>6. PreparePanics(ncfg) /\ ~PrepareOk(ncfg)
    BY <1>2, <2>5 DEF Reserving, PreparePanics, PrepareOk, PoolsOk, ReservedOk
  <2> QED BY <1>1, <2>1, <2>2, <2>6 DEF LInv, Stop, LoopDecidesPrepareOk
<1>15. CASE ncpu >= 0
  <2>1. /\ cpus' = [cpus EXCEPT ![ReservedPool] =
                       cset \cup (IF ncpu < size THEN FirstOf(tset, ncpu) ELSE tset)]
        /\ ncpu' = IF ncpu < size THEN 0 ELSE ncpu - size
        /\ ids' = ids \ {id}
        /\ IF ncpu' = 0 THEN stage' = "pools" /\ todo' = DOMAIN ncfg /\ UNCHANGED result
                        ELSE UNCHANGED <<stage, todo, result>>
    <3>1. ~(ncpu < 0)
      BY <1>2, <1>15
    <3> QED BY <3>1 DEF ReserveCore
  <2>2. FirstOf(tset, ncpu) \subseteq tset
    BY DEF FirstOf
  <2>3. /\ cpus' \in [DOMAIN ncfg' -> SUBSET CpuId]
        /\ cpus'[ReservedPool] = cset \cup (IF ncpu < size THEN FirstOf(tset, ncpu) ELSE tset)
    BY <1>1, <1>2, <1>4, <1>5, <2>1, <2>2, CPUAssumption
  <2>4. TypeOK'
    <3>1. ncpu' \in Int /\ ids' \subseteq CPU
      BY <1>2, <1>6, <1>15, <2>1
    <3>2. stage' \in {stage, "pools"} /\ todo' \in {todo, DOMAIN ncfg} /\ result' = result
      BY <2>1
    <3> QED BY <1>1, <2>3, <3>1, <3>2 DEF TypeOK
  <2>5. CASE ncpu > size
    <3>1. ncpu' = ncpu - size /\ ncpu' > 0 /\ UNCHANGED <<stage, todo, result>>
      BY <1>2, <1>6, <2>1, <2>5
    <3>2. cpus'[ReservedPool] = cset \cup tset
      BY <1>2, <1>6, <2>3, <2>5
    <3>3. Cardinality(cpus'[ReservedPool]) = Cardinality(cset) + size
      BY <1>8, <3>2
    <3>4. count = Cardinality(cpus'[ReservedPool]) + ncpu'
      BY <1>2, <1>6, <3>1, <3>3
    <3>5. Reserving'
      <4>1. cpus'[ReservedPool] = Cores(CPU \ ids')
        BY <1>4, <1>7, <2>1, <3>2
      <4>2. Visited(ids')
        BY <1>12, <2>1
      <4> QED BY <1>1, <1>2, <3>1, <3>4, <4>1, <4>2 DEF Reserving
    <3>6. AtReserve'
      BY <1>1, <1>2, <3>1, <3>5 DEF AtReserve, Untouched
    <3> QED BY <1>1, <2>4, <3>1, <3>6 DEF LInv, LoopDecidesPrepareOk, AtReserve
  <2>6. CASE ncpu <= size
    <3>1. id \notin cset /\ tset = ThreadSet[id]
      BY <1>2, <1>9, <1>10, <1>11, <2>6
    <3>2. ncpu' = 0 /\ stage' = "pools" /\ todo' = DOMAIN ncfg /\ UNCHANGED result
      BY <1>2, <1>6, <2>1, <2>6
    <3>3. cpus'[ReservedPool] = cset \cup FirstOf(tset, ncpu)
      <4>1. CASE ncpu < size
        BY <2>3, <4>1
      <4>2. CASE ncpu = size
        BY <1>5, <1>6, <2>3, <4>2, FirstOfAll
      <4>3. ncpu < size \/ ncpu = size
        BY <1>2, <1>6, <2>6
      <4> QED BY <4>1, <4>2, <4>3
    <3>4. cset \cup FirstOf(ThreadSet[id], ncpu) = PickReserved(Cardinality(cset) + ncpu)
      <4>1. ncpu \in Nat /\ ncpu <= Cardinality(ThreadSet[id])
        BY <1>2, <1>15, <2>6, <3>1
      <4> QED BY <1>1, <1>2, <1>4, <3>1, <4>1, LastCoreIsPicked
    <3>5. cpus'[ReservedPool] = PickReserved(count)
      BY <1>6, <3>1, <3>3, <3>4
    <3>6. count \in Nat /\ count <= Cardinality(CPU)
      <4>1. Cardinality(CPU) \in Nat
        BY CpusFinite
      <4> HIDE DEF count, size
      <4> QED BY <1>2, <1>6, <1>8, <1>13, <1>15, <2>6, <4>1
    <3> QED BY <1>1, <1>2, <2>4, <3>2, <3>5, <3>6, ReserveEnds
  <2> QED BY <1>2, <1>6, <2>5, <2>6
<1> QED BY <1>2, <1>14, <1>15

(* A pool that fits with those before it is accepted, no other is.         *)
LEMMA CheckPoolStep ==
  ASSUME LInv, NEW pool \in DOMAIN ncfg, CheckPool(pool)
  PROVE  LInv'
<1> DEFINE requested == IF pool = ReservedPool THEN cpus[pool] ELSE ncfg[pool].Cpus
           siblings  == IF ncfg[pool].DisableHT THEN HtSiblings(requested) ELSE {}
           rest      == IF ncfg[pool].Isolated THEN available ELSE available \ requested
           D         == ExplicitPools(ncfg) \ todo
<1>1. /\ stage = "pools" /\ pool \in todo /\ AtPools /\ TypeOK /\ ncfg \in NodeConfigs
      /\ pool \in ExplicitPools(ncfg) /\ pool \notin D
      /\ UNCHANGED <<ncfg, ids, ncpu, leftover>>
  BY DEF LInv, CheckPool, ExplicitPools
<1>2. Reserved /\ Checked(D) /\ Noted(Claims(ncfg) \ todo)
      /\ cpus[ReservedPool] = ExplicitCpus(ncfg, ReservedPool)
  BY <1>1 DEF AtPools
<1>3. ncfg[pool].Isolated \in BOOLEAN /\ \A q \in D : ncfg[q].Isolated \in BOOLEAN
  BY <1>1, Parsed DEF ExplicitPools
<1>4. requested = ExplicitCpus(ncfg, pool)
  BY <1>2 DEF ExplicitCpus
<1>5. siblings = Siblings(ncfg, pool)
  BY <1>4 DEF Siblings
<1>6. /\ isolated = FreeIsolated(ncfg, D) /\ available = FreeAvailable(ncfg, D)
      /\ offlined = Down(ncfg, D) /\ Fit(ncfg, D)
  BY <1>2 DEF Checked
<1>7. rest = RestOf(ncfg, D, pool)
  BY <1>4, <1>6 DEF RestOf
<1>8. CpusAvailable(pool, requested) /\ CanOffline(siblings, rest) <=> Passes(ncfg, D, pool)
  <2> HIDE DEF requested, siblings, rest, D
  <2> QED BY <1>4, <1>5, <1>6, <1>7 DEF CpusAvailable, CanOffline, Passes
<1>9. CASE ~Passes(ncfg, D, pool)
  <2>1. Stop("error") /\ UNCHANGED <<isolated, available, offlined, cpus, todo>>
    BY <1>8, <1>9 DEF CheckPool
  <2>2. TypeOK'
    BY <1>1, <2>1 DEF TypeOK, Stop
  <2>3. ~Fit(ncfg, D \cup {pool})
    BY <1>1, <1>3, <1>9, FitsPasses
  <2>4. ~Fit(ncfg, ExplicitPools(ncfg))
    <3>1. D \cup {pool} \subseteq ExplicitPools(ncfg)
      BY <1>1
    <3> HIDE DEF D
    <3> QED BY <2>3, <3>1, FewerFit
  <2>5. ~PoolsOk(ncfg)
    BY <2>4, AllChecked
  <2>6. ~PrepareOk(ncfg) /\ ~PreparePanics(ncfg)
    BY <1>2, <2>5 DEF PrepareOk, Reserved
  <2> QED BY <1>1, <2>1, <2>2, <2>6, Ended
<1>10. CASE Passes(ncfg, D, pool)
  <2>1. /\ isolated' = (IF ncfg[pool].Isolated THEN isolated \ requested ELSE isolated)
        /\ available' = rest \ siblings
        /\ offlined' = offlined \cup siblings
        /\ cpus' = [cpus EXCEPT ![pool] = requested]
        /\ todo' = todo \ {pool}
        /\ UNCHANGED <<stage, result>>
    BY <1>8, <1>10 DEF CheckPool
  <2>2. ExplicitPools(ncfg) \ todo' = D \cup {pool} /\ Claims(ncfg) \ todo' = Claims(ncfg) \ todo
    BY <1>1, <2>1 DEF Claims
  <2>3. Fit(ncfg, D \cup {pool})
    BY <1>1, <1>3, <1>6, <1>10, PassesFits
  <2>4. /\ isolated' = FreeIsolated(ncfg, D \cup {pool})
        /\ available' = FreeAvailable(ncfg, D \cup {pool})
        /\ offlined' = Down(ncfg, D \cup {pool})
    <3> HIDE DEF requested, siblings, rest, D
    <3> QED BY <1>1, <1>3, <1>4, <1>5, <1>6, <1>7, <2>1, FreeAfter
  <2>5. requested \subseteq CPU
    <3>1. ExplicitCpus(ncfg, pool) \subseteq AvailableCpus(ncfg[pool].Isolated)
      BY <2>3 DEF Fit
    <3> HIDE DEF requested
    <3> QED BY <1>3, <1>4, <3>1, KindsApart
  <2>6. /\ cpus' \in [DOMAIN ncfg -> SUBSET CpuId] /\ cpus'[pool] = requested
        /\ \A q \in DOMAIN ncfg : q # pool => cpus'[q] = cpus[q]
    <3> HIDE DEF requested
    <3> QED BY <1>1, <2>1, <2>5, CPUAssumption DEF TypeOK
  <2>7. \A q \in D \cup {pool} : cpus'[q] = ExplicitCpus(ncfg, q)
    <3>1. \A q \in D : q # pool /\ q \in DOMAIN ncfg /\ cpus[q] = ExplicitCpus(ncfg, q)
      BY <1>1, <1>2 DEF Checked, ExplicitPools
    <3> HIDE DEF requested, D
    <3> QED BY <1>4, <2>6, <3>1
  <2>8. cpus'[ReservedPool] = ExplicitCpus(ncfg, ReservedPool)
    <3>1. ReservedPool \in DOMAIN ncfg
      BY <1>2 DEF Reserved, ReservedOk
    <3> HIDE DEF requested
    <3> QED BY <1>2, <1>4, <2>6, <3>1
  <2>9. Checked(ExplicitPools(ncfg) \ todo)'
    <3> HIDE DEF D
    <3> QED BY <1>1, <2>2, <2>3, <2>4, <2>7 DEF Checked
  <2>10. Noted(Claims(ncfg) \ todo)'
    BY <1>1, <1>2, <2>2 DEF Noted
  <2>11. AtPools'
    BY <1>1, <1>2, <2>1, <2>8, <2>9, <2>10 DEF AtPools, Reserved
  <2>12. TypeOK'
    <3>1. isolated' \subseteq Isolated /\ available' \subseteq CPU \ Isolated
      BY <2>4 DEF FreeIsolated, FreeAvailable, AvailableCpus
    <3>2. offlined' \subseteq CPU
      BY <2>3, <2>4 DEF Fit, AvailableCpus
    <3>3. todo' \subseteq DOMAIN ncfg
      BY <1>1, <2>1 DEF TypeOK
    <3> HIDE DEF requested, siblings, rest, D
    <3> QED BY <1>1, <2>1, <2>6, <3>1, <3>2, <3>3 DEF TypeOK
  <2>13. stage' = "pools" /\ result' = "running"
    BY <1>1, <1>2, <2>1 DEF Reserved
  <2> QED BY <1>1, <2>11, <2>12, <2>13 DEF LInv, LoopDecidesPrepareOk
<1> QED BY <1>9, <1>10

(* A second claim of a kind is an error.                                   *)
LEMMA NoteLeftoverStep ==
  ASSUME LInv, NEW pool \in DOMAIN ncfg, NoteLeftover(pool)
  PROVE  LInv'
<1> DEFINE kind == ncfg[pool].Isolated
           C    == Claims(ncfg) \ todo
<1>1. /\ stage = "pools" /\ pool \in todo /\ AtPools /\ TypeOK /\ ncfg \in NodeConfigs
      /\ pool \in Claims(ncfg) /\ pool \notin C /\ ncfg[pool].CpuCount = ClaimLeftover
      /\ UNCHANGED <<ncfg, ids, ncpu, isolated, available, offlined, cpus>>
  BY DEF LInv, NoteLeftover, ExplicitPools, Claims
<1>2. /\ Reserved /\ Checked(ExplicitPools(ncfg) \ todo) /\ Noted(C)
      /\ cpus[ReservedPool] = ExplicitCpus(ncfg, ReservedPool)
  BY <1>1 DEF AtPools
<1>3. kind \in BOOLEAN /\ leftover \in [BOOLEAN -> DOMAIN ncfg \cup {Nil}] /\ Nil \notin DOMAIN ncfg
  BY <1>1, Parsed DEF TypeOK
<1>4. CASE leftover[kind] # Nil
  <2>1. Stop("error") /\ UNCHANGED <<todo, leftover>>
    BY <1>4 DEF NoteLeftover
  <2>2. TypeOK'
    BY <1>1, <2>1 DEF TypeOK, Stop
  <2>3. leftover[kind] \in C /\ ncfg[leftover[kind]].Isolated = kind
    BY <1>2, <1>3, <1>4 DEF Noted, Kind
  <2>4. leftover[kind] \in LeftoverPools(ncfg, kind) /\ pool \in LeftoverPools(ncfg, kind)
    BY <1>1, <2>3 DEF LeftoverPools, Claims, ExplicitPools
  <2>5. leftover[kind] # pool
    BY <1>1, <2>3
  <2>6. ~OneClaim(ncfg)
    BY <1>3, <2>4, <2>5 DEF OneClaim
  <2>7. ~PoolsOk(ncfg)
    BY <2>6, AllChecked
  <2>8. ~PrepareOk(ncfg) /\ ~PreparePanics(ncfg)
    BY <1>2, <2>7 DEF PrepareOk, Reserved
  <2> QED BY <1>1, <2>1, <2>2, <2>8, Ended
<1>5. CASE leftover[kind] = Nil
  <2>1. /\ leftover' = [leftover EXCEPT ![kind] = pool]
        /\ todo' = todo \ {pool}
        /\ UNCHANGED <<stage, result>>
    BY <1>5 DEF NoteLeftover
  <2>2. Claims(ncfg) \ todo' = C \cup {pool} /\ ExplicitPools(ncfg) \ todo' = ExplicitPools(ncfg) \ todo
    BY <1>1, <2>1 DEF Claims
  <2>3. leftover' \in [BOOLEAN -> DOMAIN ncfg \cup {Nil}] /\ leftover'[kind] = pool
        /\ \A i \in BOOLEAN : i # kind => leftover'[i] = leftover[i]
    BY <1>3, <2>1
  <2>4. \A p \in C : ncfg[p].Isolated \in BOOLEAN /\ ncfg[p].Isolated # kind /\ leftover[ncfg[p].Isolated] = p
    <3> SUFFICES ASSUME NEW p \in C
                 PROVE  ncfg[p].Isolated \in BOOLEAN /\ ncfg[p].Isolated # kind /\ leftover[ncfg[p].Isolated] = p
      OBVIOUS
    <3>1. p \in DOMAIN ncfg /\ ncfg[p].Isolated \in BOOLEAN
      BY <1>1, Parsed DEF Claims
    <3>2. leftover[ncfg[p].Isolated] = p
      BY <1>2 DEF Noted, Kind
    <3> QED BY <1>3, <1>5, <3>1, <3>2
  <2>5. \A p \in C \cup {pool} : leftover'[ncfg[p].Isolated] = p
    <3> HIDE DEF C
    <3> QED BY <2>3, <2>4
  <2>6. \A i \in BOOLEAN :
          leftover'[i] # Nil => leftover'[i] \in C \cup {pool} /\ ncfg[leftover'[i]].Isolated = i
    <3> SUFFICES ASSUME NEW i \in BOOLEAN, leftover'[i] # Nil
                 PROVE  leftover'[i] \in C \cup {pool} /\ ncfg[leftover'[i]].Isolated = i
      OBVIOUS
    <3>1. CASE i = kind
      BY <2>3, <3>1
    <3>2. CASE i # kind
      BY <1>2, <2>3, <3>2 DEF Noted, Kind
    <3> QED BY <3>1, <3>2
  <2>7. Noted(Claims(ncfg) \ todo)'
    <3> HIDE DEF C
    <3> QED BY <1>1, <2>2, <2>5, <2>6 DEF Noted, Kind
  <2>8. Checked(ExplicitPools(ncfg) \ todo)'
    BY <1>1, <1>2, <2>2 DEF Checked
  <2>9. AtPools'
    BY <1>1, <1>2, <2>1, <2>7, <2>8 DEF AtPools, Reserved
  <2>10. TypeOK'
    BY <1>1, <2>1, <2>3 DEF TypeOK
  <2>11. stage' = "pools" /\ result' = "running"
    BY <1>1, <1>2, <2>1 DEF Reserved
  <2> QED BY <1>1, <2>9, <2>10, <2>11 DEF LInv, LoopDecidesPrepareOk
<1> QED BY <1>4, <1>5

(* All pools were checked; the claims of a kind are at most one.           *)
LEMMA PoolsCheckedStep ==
  ASSUME LInv, PoolsChecked
  PROVE  LInv'
<1>1. /\ stage = "pools" /\ todo = {} /\ AtPools /\ TypeOK /\ ncfg \in NodeConfigs
      /\ stage' = "leftover" /\ todo' = {leftover[i] : i \in BOOLEAN} \ {Nil}
      /\ UNCHANGED <<ncfg, ids, ncpu, isolated, available, offlined, leftover, cpus, result>>
  BY DEF LInv, PoolsChecked
<1>2. Reserved /\ Checked(ExplicitPools(ncfg)) /\ Noted(Claims(ncfg))
  <2>1. ExplicitPools(ncfg) \ todo = ExplicitPools(ncfg) /\ Claims(ncfg) \ todo = Claims(ncfg)
    BY <1>1
  <2>2. Reserved /\ Checked(ExplicitPools(ncfg) \ todo) /\ Noted(Claims(ncfg) \ todo)
    BY <1>1 DEF AtPools
  <2> QED BY <2>1, <2>2
<1>3. \A p \in Claims(ncfg) : p \in DOMAIN ncfg /\ ncfg[p].Isolated \in BOOLEAN /\ leftover[ncfg[p].Isolated] = p
  <2>1. \A p \in Claims(ncfg) : p \in DOMAIN ncfg /\ leftover[ncfg[p].Isolated] = p
    BY <1>2 DEF Noted, Kind, Claims
  <2> QED BY <1>1, <2>1, Parsed
<1>4. todo' = Claims(ncfg)
  <2>1. todo' \subseteq Claims(ncfg)
    BY <1>1, <1>2 DEF Noted
  <2>2. Claims(ncfg) \subseteq todo'
    <3>1. Nil \notin DOMAIN ncfg
      BY <1>1, Parsed
    <3> QED BY <1>1, <1>3, <3>1
  <2> QED BY <2>1, <2>2
<1>5. OneClaim(ncfg)
  <2> SUFFICES ASSUME NEW kind \in BOOLEAN, NEW p \in LeftoverPools(ncfg, kind), NEW q \in LeftoverPools(ncfg, kind)
               PROVE  p = q
    BY DEF OneClaim
  <2>1. p \in Claims(ncfg) /\ q \in Claims(ncfg) /\ ncfg[p].Isolated = kind /\ ncfg[q].Isolated = kind
    BY DEF LeftoverPools, Claims, ExplicitPools
  <2> QED BY <1>3, <2>1
<1>6. AtLeftover'
  <2>1. Reserved' /\ OneClaim(ncfg') /\ todo' \subseteq Claims(ncfg')
    BY <1>1, <1>2, <1>4, <1>5 DEF Reserved
  <2>2. Checked(ExplicitPools(ncfg))'
    BY <1>1, <1>2 DEF Checked
  <2>3. Claims(ncfg') \ todo' = {}
    BY <1>1, <1>4
  <2> QED BY <2>1, <2>2, <2>3 DEF AtLeftover
<1>7. TypeOK'
  BY <1>1, <1>4 DEF TypeOK, Claims
<1> QED BY <1>1, <1>2, <1>6, <1>7 DEF LInv, LoopDecidesPrepareOk, Reserved

(* Any two of the CPUs of accepted pools are apart.                        *)
LEMMA AcceptedApart ==
  ASSUME NEW nc, \A p \in DOMAIN nc : nc[p].Isolated \in BOOLEAN, PoolsOk(nc)
  PROVE  /\ \A p, q \in DOMAIN nc : p # q => PoolCpus(nc)[p] \cap PoolCpus(nc)[q] = {}
         /\ \A p \in DOMAIN nc : PoolCpus(nc)[p] \cap OfflinedCpus(nc) = {}
<1> DEFINE X == ExplicitPools(nc)
           C(p) == PoolCpus(nc)[p]
<1>1. \A p \in DOMAIN nc : C(p) = IF p \in X THEN ExplicitCpus(nc, p)
                                           ELSE LeftoverCpus(nc, nc[p].Isolated)
  BY DEF PoolCpus
<1>2. \A p \in X : /\ ExplicitCpus(nc, p) \subseteq AvailableCpus(nc[p].Isolated)
                    /\ ExplicitCpus(nc, p) \subseteq ClaimedCpus(nc, nc[p].Isolated)
  BY DEF PoolsOk, ClaimedCpus
<1>3. \A kind \in BOOLEAN : /\ LeftoverCpus(nc, kind) \subseteq AvailableCpus(kind)
                             /\ LeftoverCpus(nc, kind) \cap ClaimedCpus(nc, kind) = {}
  BY DEF LeftoverCpus
<1>4. AvailableCpus(TRUE) \cap AvailableCpus(FALSE) = {}
  BY KindsApart
<1>5. X \subseteq DOMAIN nc
  BY DEF ExplicitPools
<1>6. OfflinedCpus(nc) \subseteq AvailableCpus(FALSE) \ ClaimedCpus(nc, FALSE)
  BY DEF PoolsOk
<1>7. \A p \in DOMAIN nc : C(p) \subseteq AvailableCpus(nc[p].Isolated)
  <2> HIDE DEF X, C
  <2> QED BY <1>1, <1>2, <1>3
<1>8. ASSUME NEW p \in DOMAIN nc, NEW q \in DOMAIN nc, p # q PROVE C(p) \cap C(q) = {}
  <2>1. CASE nc[p].Isolated # nc[q].Isolated
    <3>1. AvailableCpus(nc[p].Isolated) \cap AvailableCpus(nc[q].Isolated) = {}
      BY <1>4, <2>1
    <3> HIDE DEF X, C
    <3> QED BY <1>7, <3>1
  <2>2. CASE nc[p].Isolated = nc[q].Isolated /\ p \in X /\ q \in X
    BY <1>1, <1>8, <2>2 DEF PoolsOk
  <2>3. CASE nc[p].Isolated = nc[q].Isolated /\ p \in X /\ q \notin X
    <3> HIDE DEF X, C
    <3> QED BY <1>1, <1>2, <1>3, <2>3
  <2>4. CASE nc[p].Isolated = nc[q].Isolated /\ p \notin X /\ q \in X
    <3> HIDE DEF X, C
    <3> QED BY <1>1, <1>2, <1>3, <2>4
  <2>5. CASE nc[p].Isolated = nc[q].Isolated /\ p \notin X /\ q \notin X
    <3>1. p \in LeftoverPools(nc, nc[p].Isolated) /\ q \in LeftoverPools(nc, nc[p].Isolated)
      BY <2>5 DEF LeftoverPools, ExplicitPools
    <3> QED BY <1>8, <3>1 DEF PoolsOk
  <2> QED BY <2>1, <2>2, <2>3, <2>4, <2>5
<1>9. ASSUME NEW p \in DOMAIN nc PROVE C(p) \cap OfflinedCpus(nc) = {}
  <2>1. CASE nc[p].Isolated
    <3>1. C(p) \subseteq AvailableCpus(TRUE)
      BY <1>7, <2>1
    <3> HIDE DEF C
    <3> QED BY <1>4, <1>6, <3>1
  <2>2. CASE ~nc[p].Isolated /\ p \in X
    <3>1. nc[p].Isolated = FALSE
      BY <2>2
    <3>2. C(p) \subseteq ClaimedCpus(nc, FALSE)
      BY <1>1, <1>2, <2>2, <3>1
    <3> HIDE DEF C
    <3> QED BY <1>6, <3>2
  <2>3. CASE ~nc[p].Isolated /\ p \notin X
    <3>1. nc[p].Isolated = FALSE
      BY <2>3
    <3>2. C(p) = LeftoverCpus(nc, FALSE)
      BY <1>1, <2>3, <3>1
    <3>3. LeftoverCpus(nc, FALSE) \cap OfflinedCpus(nc) = {}
      BY DEF LeftoverCpus
    <3> HIDE DEF C
    <3> QED BY <3>2, <3>3
  <2> QED BY <2>1, <2>2, <2>3
<1> QED BY <1>8, <1>9

(* In the loop over the claims, what is free is what they are to have.     *)
LEMMA RestIsLeftover ==
  ASSUME AtLeftover, ncfg \in NodeConfigs, NEW pool \in DOMAIN ncfg
  PROVE  /\ (IF ncfg[pool].Isolated THEN isolated ELSE available) = LeftoverCpus(ncfg, ncfg[pool].Isolated)
         /\ Fit(ncfg, ExplicitPools(ncfg)) /\ PoolsOk(ncfg) /\ ~PreparePanics(ncfg)
         /\ offlined = OfflinedCpus(ncfg)
<1>1. /\ Fit(ncfg, ExplicitPools(ncfg))
      /\ isolated = FreeIsolated(ncfg, ExplicitPools(ncfg))
      /\ available = FreeAvailable(ncfg, ExplicitPools(ncfg))
      /\ offlined = Down(ncfg, ExplicitPools(ncfg))
  BY DEF AtLeftover, Checked
<1>2. /\ FreeIsolated(ncfg, ExplicitPools(ncfg)) = LeftoverCpus(ncfg, TRUE)
      /\ FreeAvailable(ncfg, ExplicitPools(ncfg)) = LeftoverCpus(ncfg, FALSE)
      /\ Down(ncfg, ExplicitPools(ncfg)) = OfflinedCpus(ncfg)
      /\ PoolsOk(ncfg) <=> ReservedOk(ncfg) /\ Fit(ncfg, ExplicitPools(ncfg)) /\ OneClaim(ncfg)
  BY AllChecked
<1>3. ReservedOk(ncfg) /\ OneClaim(ncfg) /\ ~PreparePanics(ncfg)
  BY DEF AtLeftover, Reserved
<1>4. CASE ncfg[pool].Isolated = TRUE
  BY <1>1, <1>2, <1>3, <1>4
<1>5. CASE ncfg[pool].Isolated = FALSE
  BY <1>1, <1>2, <1>3, <1>5
<1> QED BY <1>4, <1>5, Parsed

(* A claim gets what is left, which must be something.                     *)
LEMMA ClaimLeftoverCpusStep ==
  ASSUME LInv, NEW pool \in DOMAIN ncfg, ClaimLeftoverCpus(pool)
  PROVE  LInv'
<1> DEFINE rest == IF ncfg[pool].Isolated THEN isolated ELSE available
<1>1. /\ stage = "leftover" /\ pool \in todo /\ AtLeftover /\ TypeOK /\ ncfg \in NodeConfigs
      /\ UNCHANGED <<ncfg, ids, ncpu, isolated, available, offlined, leftover>>
  BY DEF LInv, ClaimLeftoverCpus
<1>2. pool \in Claims(ncfg) /\ pool \notin ExplicitPools(ncfg) /\ ncfg[pool].Isolated \in BOOLEAN
  BY <1>1, Parsed DEF AtLeftover, Claims
<1>3. rest = LeftoverCpus(ncfg, ncfg[pool].Isolated) /\ ~PreparePanics(ncfg)
  BY <1>1, RestIsLeftover
<1>4. CASE rest = {}
  <2>1. Stop("error") /\ UNCHANGED <<todo, cpus>>
    BY <1>4 DEF ClaimLeftoverCpus
  <2>2. TypeOK'
    BY <1>1, <2>1 DEF TypeOK, Stop
  <2>3. pool \in LeftoverPools(ncfg, ncfg[pool].Isolated)
    BY <1>2 DEF LeftoverPools, Claims, ExplicitPools
  <2>4. ~PrepareOk(ncfg)
    BY <1>2, <1>3, <1>4, <2>3 DEF PrepareOk
  <2> QED BY <1>1, <1>3, <2>1, <2>2, <2>4, Ended
<1>5. CASE rest # {}
  <2>1. /\ cpus' = [cpus EXCEPT ![pool] = rest]
        /\ todo' = todo \ {pool}
        /\ UNCHANGED <<stage, result>>
    BY <1>5 DEF ClaimLeftoverCpus
  <2>2. rest \subseteq CPU
    BY <1>1, IsolatedAssumption DEF TypeOK
  <2>3. /\ cpus' \in [DOMAIN ncfg -> SUBSET CpuId] /\ cpus'[pool] = rest
        /\ \A q \in DOMAIN ncfg : q # pool => cpus'[q] = cpus[q]
    <3> HIDE DEF rest
    <3> QED BY <1>1, <2>1, <2>2, CPUAssumption DEF TypeOK
  <2>4. TypeOK'
    <3> HIDE DEF rest
    <3> QED BY <1>1, <2>1, <2>3 DEF TypeOK
  <2>5. Checked(ExplicitPools(ncfg))'
    <3>1. \A q \in ExplicitPools(ncfg) : q \in DOMAIN ncfg /\ q # pool
      BY <1>2 DEF ExplicitPools
    <3>2. Checked(ExplicitPools(ncfg))
      BY <1>1 DEF AtLeftover
    <3> HIDE DEF rest
    <3> QED BY <1>1, <2>3, <3>1, <3>2 DEF Checked
  <2>6. \A q \in Claims(ncfg) \ todo' :
          /\ cpus'[q] = LeftoverCpus(ncfg, ncfg[q].Isolated)
          /\ LeftoverCpus(ncfg, ncfg[q].Isolated) # {}
    <3> SUFFICES ASSUME NEW q \in Claims(ncfg) \ todo'
                 PROVE  /\ cpus'[q] = LeftoverCpus(ncfg, ncfg[q].Isolated)
                        /\ LeftoverCpus(ncfg, ncfg[q].Isolated) # {}
      OBVIOUS
    <3> HIDE DEF rest
    <3>1. CASE q = pool
      BY <1>3, <1>5, <2>3, <3>1
    <3>2. CASE q # pool
      <4>1. q \in Claims(ncfg) \ todo /\ q \in DOMAIN ncfg
        BY <2>1, <3>2 DEF Claims
      <4> QED BY <1>1, <2>3, <3>2, <4>1 DEF AtLeftover, Kind
    <3> QED BY <3>1, <3>2
  <2>7. AtLeftover'
    <3>1. Reserved' /\ OneClaim(ncfg') /\ todo' \subseteq Claims(ncfg')
      BY <1>1, <2>1 DEF AtLeftover, Reserved
    <3> HIDE DEF rest
    <3> QED BY <1>1, <2>5, <2>6, <3>1 DEF AtLeftover, Kind
  <2>8. stage' = "leftover" /\ result' = "running"
    BY <1>1, <2>1 DEF AtLeftover, Reserved
  <2> QED BY <1>1, <2>4, <2>7, <2>8 DEF LInv, LoopDecidesPrepareOk
<1> QED BY <1>4, <1>5

(* All checks were passed, and every pool has its CPUs.                    *)
LEMMA LeftoverClaimedStep ==
  ASSUME LInv, LeftoverClaimed
  PROVE  LInv'
<1>1. /\ stage = "leftover" /\ todo = {} /\ AtLeftover /\ TypeOK /\ ncfg \in NodeConfigs /\ Stop("ok")
      /\ UNCHANGED <<ncfg, ids, ncpu, todo, isolated, available, offlined, leftover, cpus>>
  BY DEF LInv, LeftoverClaimed
<1>2. TypeOK'
  BY <1>1 DEF TypeOK, Stop
<1>3. ReservedPool \in DOMAIN ncfg
  BY <1>1 DEF AtLeftover, Reserved, ReservedOk
<1>4. PoolsOk(ncfg) /\ ~PreparePanics(ncfg) /\ offlined = OfflinedCpus(ncfg)
  BY <1>1, <1>3, RestIsLeftover
<1>5. \A p \in Claims(ncfg) : /\ cpus[p] = LeftoverCpus(ncfg, ncfg[p].Isolated)
                             /\ LeftoverCpus(ncfg, ncfg[p].Isolated) # {}
  BY <1>1 DEF AtLeftover, Kind
<1>6. PrepareOk(ncfg)
  <2>1. \A kind \in BOOLEAN : \A p \in LeftoverPools(ncfg, kind) : p \in Claims(ncfg) /\ ncfg[p].Isolated = kind
    BY DEF LeftoverPools, Claims, ExplicitPools
  <2> QED BY <1>4, <1>5, <2>1 DEF PrepareOk
<1>7. cpus = PoolCpus(ncfg)
  <2>1. cpus = [p \in DOMAIN ncfg |-> cpus[p]]
    BY <1>1 DEF TypeOK
  <2>2. \A p \in ExplicitPools(ncfg) : cpus[p] = ExplicitCpus(ncfg, p)
    BY <1>1 DEF AtLeftover, Checked
  <2>3. \A p \in DOMAIN ncfg \ ExplicitPools(ncfg) : cpus[p] = LeftoverCpus(ncfg, ncfg[p].Isolated)
    BY <1>5 DEF Claims
  <2> QED BY <2>1, <2>2, <2>3 DEF PoolCpus
<1>8. LoopDecidesPrepareOk'
  BY <1>1, <1>4, <1>6, <1>7 DEF LoopDecidesPrepareOk, Stop
<1> QED BY <1>1, <1>2, <1>8 DEF LInv, Stop

-----------------------------------------------------------------------------
(* The theorems                                                            *)

(* LInv holds as prepareConfig is entered ...                              *)
LEMMA InitLInv == Init => LInv
<1> SUFFICES ASSUME Init PROVE LInv
  OBVIOUS
<1>1. TypeOK
  BY CPUAssumption, NodeConfigsAssumption DEF Init, TypeOK
<1>2. AtCheck
  BY DEF Init, AtCheck, Untouched
<1> QED BY <1>1, <1>2 DEF Init, LInv, LoopDecidesPrepareOk

(* ... and after every step of its loops.                                  *)
LEMMA NextLInv == LInv /\ [Next]_vars => LInv'
<1> SUFFICES ASSUME LInv, [Next]_vars PROVE LInv'
  OBVIOUS
<1>1. CASE CheckReserved
  BY <1>1, CheckReservedStep
<1>2. CASE ReserveCore
  BY <1>2, ReserveCoreStep
<1>3. CASE ReserveFails
  BY <1>3, ReserveFailsStep
<1>4. ASSUME NEW pool \in DOMAIN ncfg, NoteLeftover(pool) PROVE LInv'
  BY <1>4, NoteLeftoverStep
<1>5. ASSUME NEW pool \in DOMAIN ncfg, CheckPool(pool) PROVE LInv'
  BY <1>5, CheckPoolStep
<1>6. ASSUME NEW pool \in DOMAIN ncfg, ClaimLeftoverCpus(pool) PROVE LInv'
  BY <1>6, ClaimLeftoverCpusStep
<1>7. CASE PoolsChecked
  BY <1>7, PoolsCheckedStep
<1>8. CASE LeftoverClaimed
  BY <1>8, LeftoverClaimedStep
<1>9. CASE UNCHANGED vars
  <2>1. UNCHANGED <<ncfg, stage, ids, ncpu, todo, isolated, available, offlined, leftover, cpus, result>>
    BY <1>9 DEF vars
  <2>2. TypeOK' <=> TypeOK
    BY <2>1 DEF TypeOK
  <2>3. AtCheck' <=> AtCheck
    BY <2>1 DEF AtCheck, Untouched
  <2>4. AtReserve' <=> AtReserve
    BY <2>1 DEF AtReserve, Untouched, Reserving
  <2>5. AtPools' <=> AtPools
    BY <2>1 DEF AtPools, Reserved, Checked, Noted
  <2>6. AtLeftover' <=> AtLeftover
    BY <2>1 DEF AtLeftover, Reserved, Checked
  <2>7. LoopDecidesPrepareOk' <=> LoopDecidesPrepareOk
    BY <2>1 DEF LoopDecidesPrepareOk
  <2> QED BY <2>1, <2>2, <2>3, <2>4, <2>5, <2>6, <2>7 DEF LInv
<1> QED BY <1>1, <1>2, <1>3, <1>4, <1>5, <1>6, <1>7, <1>8, <1>9 DEF Next

(* LInv holds throughout, for any machine and any configurations.          *)
THEOREM PreparationInvariance == Spec => []LInv
BY InitLInv, NextLInv, PTL DEF Spec

(* The local variables of prepareConfig (pool.go:293-441) have their types.*)
THEOREM PreparationTypeCorrect == Spec => []TypeOK
<1>1. LInv => TypeOK
  BY DEF LInv
<1> QED BY <1>1, PreparationInvariance, PTL

(* In whatever order the maps are visited, prepareConfig accepts, refuses  *)
(* and crashes as NodeConfig says, and gives the pools the same CPUs.      *)
THEOREM OrderDecidesNothing == Spec => []LoopDecidesPrepareOk
<1>1. LInv => LoopDecidesPrepareOk
  BY DEF LInv
<1> QED BY <1>1, PreparationInvariance, PTL

(* What prepareConfig accepts gives no CPU to two pools, and none that is  *)
(* to be taken offline to any (pool.go:297).                               *)
THEOREM AcceptedGivesOnce == Spec => []CpusGivenOnce
<1>1. LInv => CpusGivenOnce
  <2> SUFFICES ASSUME LInv, result = "ok" PROVE CpusGivenOnce
    BY DEF CpusGivenOnce
  <2>1. stage = "done" /\ PrepareOk(ncfg) /\ cpus = PoolCpus(ncfg) /\ offlined = OfflinedCpus(ncfg)
        /\ ncfg \in NodeConfigs
    BY DEF LInv, LoopDecidesPrepareOk
  <2>2. PoolsOk(ncfg) /\ \A p \in DOMAIN ncfg : ncfg[p].Isolated \in BOOLEAN
    BY <2>1, Parsed DEF PrepareOk
  <2> QED BY <2>1, <2>2, AcceptedApart DEF CpusGivenOnce
<1> QED BY <1>1, PreparationInvariance, PTL

=============================================================================
