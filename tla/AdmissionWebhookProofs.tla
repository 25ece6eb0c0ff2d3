----------------------- MODULE AdmissionWebhookProofs ------------------------
(***************************************************************************)
(* The properties of AdmissionWebhook, for any pods and pools.             *)
(*                                                                         *)
(* WInv follows the review of a pod.  In a loop, of the pools that were    *)
(* visited (Seen) only the last may have an amount that is not zero; when  *)
(* the loop is over, the amount is that of the only such pool of the list. *)
(* The containers already reviewed are in order (Past): their requests and *)
(* limits agree once patched, and they are not to be denied by VerdictOn.  *)
(***************************************************************************)
EXTENDS AdmissionWebhook, FiniteSetTheorems, TLAPS

(* A list that names no pool of which it asks for nothing, and a list with *)
(* what is added to it.                                                    *)
Plain(list) == PoolsIn(list) = PositivePools(list)

With(list, res) ==
  IF res = Nil THEN list
  ELSE [name \in DOMAIN list \cup {res.name} |-> IF name \in DOMAIN list THEN list[name] ELSE res.quantity]

(* What a loop knows that has visited the pools V of a list.               *)
Seen(list, V, amount, name) ==
  IF V = {} THEN amount = 0
  ELSE name \in V /\ amount = list[name] /\ \A p \in V : p # name => list[p] = 0

(* One pool at most, and the amounts of both kinds are the same.           *)
OnePool(list) ==
  /\ \A p, q \in PoolsIn(list) : p = q
  /\ PoolsIn(list) = {} => CpuIn(list) = 0
  /\ \A p \in PoolsIn(list) : Value(list[p]) = CpuIn(list)

Checks(list, res, amount) == Agree(amount, CpuIn(list), res, res # Nil /\ res.system)

-----------------------------------------------------------------------------
(* Lists                                                                   *)

(* Rounding up: a unit more or less does not matter below a thousand.      *)
LEMMA ValueIs ==
  /\ Value(0) = 0
  /\ \A q \in Nat : Value(q) \in Nat /\ Value(1000 * q) = q /\ (q # 0 => Value(q) # 0)
BY DEF Value

(* A finite set of pools has one element at most, or more than one.        *)
LEMMA AtMostOne ==
  ASSUME NEW S, IsFiniteSet(S)
  PROVE  /\ Cardinality(S) \in Nat
         /\ Cardinality(S) <= 1 <=> \A p, q \in S : p = q
<1>1. Cardinality(S) \in Nat
  BY FS_CardinalityType
<1>2. ASSUME \A p, q \in S : p = q PROVE Cardinality(S) <= 1
  <2>1. CASE S = {}
    BY <2>1, FS_EmptySet
  <2>2. CASE S # {}
    <3>1. PICK p \in S : TRUE
      BY <2>2
    <3>2. S = {p}
      BY <1>2, <3>1
    <3> QED BY <3>2, FS_Singleton
  <2> QED BY <2>1, <2>2
<1>3. ASSUME NEW p \in S, NEW q \in S, p # q PROVE ~(Cardinality(S) <= 1)
  <2>1. IsFiniteSet(S \ {p}) /\ Cardinality(S \ {p}) = Cardinality(S) - 1 /\ Cardinality(S \ {p}) \in Nat
    BY FS_RemoveElement, FS_CardinalityType
  <2>2. S \ {p} # {}
    BY <1>3
  <2>3. Cardinality(S \ {p}) # 0
    BY <2>1, <2>2, FS_EmptySet
  <2> QED BY <1>1, <2>1, <2>3
<1> QED BY <1>1, <1>2, <1>3

(* The pools of a list are finitely many.                                  *)
LEMMA PoolsFinite ==
  ASSUME NEW list, IsList(list)
  PROVE  IsFiniteSet(PoolsIn(list)) /\ IsFiniteSet(PositivePools(list)) /\ CpuIn(list) \in Nat
<1>1. PoolsIn(list) \subseteq DOMAIN list /\ PositivePools(list) \subseteq DOMAIN list
  BY DEF PoolsIn, PositivePools
<1> QED BY <1>1, FS_Subset DEF IsList, CpuIn

(* What may be added to a list.                                            *)
LEMMA AddedIs ==
  ASSUME NEW list, IsList(list), NEW res \in Added(list)
  PROVE  \/ /\ res = Nil /\ ~OneKind(list)
            /\ (Cpu \in DOMAIN list <=> PoolsIn(list) # {})
         \/ /\ res \in Resource /\ res # Nil /\ ~res.system /\ res.name = Default
            /\ res.quantity = 1000 * CpuIn(list)
            /\ PoolsIn(list) = {} /\ Cpu \in DOMAIN list /\ OneKind(list)
         \/ /\ res \in Resource /\ res # Nil /\ res.system /\ res.name = Cpu
            /\ \E p \in PoolsIn(list) : res.quantity = Value(list[p])
            /\ PoolsIn(list) # {} /\ Cpu \notin DOMAIN list /\ OneKind(list)
<1>1. CASE PoolsIn(list) = {} /\ Cpu \notin DOMAIN list
  <2>1. DOMAIN list \cap (Pool \cup {Cpu}) = {}
    BY <1>1 DEF PoolsIn
  <2> QED BY <1>1, <2>1 DEF Added, OneKind
<1>2. CASE PoolsIn(list) = {} /\ Cpu \in DOMAIN list
  <2>1. res = [system |-> FALSE, name |-> Default, quantity |-> 1000 * list[Cpu]]
    BY <1>2 DEF Added, MilliValue
  <2>2. res \in Resource /\ ~res.system /\ res.name = Default /\ res.quantity = 1000 * list[Cpu]
    BY <1>2, <2>1, NameAssumption DEF Resource, IsList
  <2>3. OneKind(list)
    BY <1>2 DEF OneKind, Complete
  <2> QED BY <1>2, <2>2, <2>3, NilAssumption DEF CpuIn
<1>3. CASE PoolsIn(list) # {} /\ Cpu \notin DOMAIN list
  <2>1. PICK p \in PoolsIn(list) : res = [system |-> TRUE, name |-> Cpu, quantity |-> Value(list[p])]
    BY <1>3 DEF Added
  <2>2. Value(list[p]) \in Nat
    BY <2>1, ValueIs DEF IsList, PoolsIn
  <2>3. res \in Resource /\ res.system /\ res.name = Cpu /\ res.quantity = Value(list[p])
    BY <2>1, <2>2 DEF Resource
  <2>4. OneKind(list)
    BY <1>3 DEF OneKind, Complete, PoolsIn
  <2> QED BY <1>3, <2>1, <2>3, <2>4, NilAssumption
<1>4. CASE PoolsIn(list) # {} /\ Cpu \in DOMAIN list
  BY <1>4 DEF Added, OneKind, Complete
<1> QED BY <1>1, <1>2, <1>3, <1>4

(* A list of which the loop has found an amount that is its native one.    *)
LEMMA SeenAgrees ==
  ASSUME NEW list, IsList(list), NEW amount, NEW name,
         Seen(list, PoolsIn(list), amount, name), Value(amount) = CpuIn(list)
  PROVE  /\ Agrees(list)
         /\ Plain(list) \/ (\A p, q \in PoolsIn(list) : p = q) => OnePool(list)
<1>1. IsFiniteSet(PositivePools(list)) /\ CpuIn(list) \in Nat
  BY PoolsFinite
<1>2. \A p \in PoolsIn(list) : list[p] \in Nat
  BY DEF PoolsIn, IsList
<1>3. PositivePools(list) \subseteq PoolsIn(list) /\ \A p \in PositivePools(list) : p = name /\ list[p] = amount
  BY DEF Seen, PositivePools
<1>4. PositivePools(list) = {} => amount = 0
  BY DEF Seen, PositivePools
<1>5. Cardinality(PositivePools(list)) <= 1
  BY <1>1, <1>3, AtMostOne
<1>6. Agrees(list)
  BY <1>3, <1>4, <1>5, ValueIs DEF Agrees, MilliValue
<1>7. ASSUME \A p, q \in PoolsIn(list) : p = q PROVE OnePool(list)
  <2>1. \A p \in PoolsIn(list) : list[p] = amount
    BY <1>7 DEF Seen
  <2>2. PoolsIn(list) = {} => amount = 0
    BY DEF Seen
  <2> QED BY <1>7, <2>1, <2>2, ValueIs DEF OnePool
<1>8. Plain(list) => \A p, q \in PoolsIn(list) : p = q
  BY <1>3 DEF Plain
<1> QED BY <1>6, <1>7, <1>8

(* A list that passes its check agrees, with what was added to it.         *)
LEMMA ListAgrees ==
  ASSUME NEW list, IsList(list), NEW res \in Added(list), NEW amount, NEW name,
         Seen(list, PoolsIn(list), amount, name), Checks(list, res, amount)
  PROVE  Agrees(With(list, res)) /\ (Plain(list) => OnePool(With(list, res)))
<1> DEFINE W == With(list, res)
<1>1. \A p \in DOMAIN list : list[p] \in Nat
  BY DEF IsList
<1>2. CASE res = Nil
  <2>1. W = list /\ Value(amount) = CpuIn(list)
    BY <1>2 DEF With, Checks, Agree, MilliValue
  <2> QED BY <2>1, SeenAgrees
<1>3. CASE /\ res \in Resource /\ res # Nil /\ ~res.system /\ res.name = Default
           /\ res.quantity = 1000 * CpuIn(list)
           /\ PoolsIn(list) = {} /\ Cpu \in DOMAIN list
  <2>1. W = [name_ \in DOMAIN list \cup {Default} |-> IF name_ \in DOMAIN list THEN list[name_] ELSE 1000 * list[Cpu]]
    BY <1>3 DEF With, CpuIn
  <2>2. DOMAIN W = DOMAIN list \cup {Default} /\ Default \notin DOMAIN list
    BY <1>3, <2>1, NameAssumption DEF PoolsIn
  <2>3. W[Default] = 1000 * list[Cpu] /\ W[Cpu] = list[Cpu] /\ list[Cpu] \in Nat
        /\ \A k \in DOMAIN list : W[k] = list[k]
    BY <1>1, <1>3, <2>1, <2>2
  <2>4. IsList(W)
    <3>1. IsFiniteSet(DOMAIN list \cup {Default})
      BY FS_AddElement DEF IsList
    <3>2. \A k \in DOMAIN W : W[k] \in Nat
      BY <1>1, <2>2, <2>3
    <3>3. W = [k \in DOMAIN W |-> W[k]]
      BY <2>1
    <3>4. W \in [DOMAIN W -> Nat]
      <4> HIDE DEF W
      <4> QED BY <3>2, <3>3
    <3> HIDE DEF W
    <3> QED BY <2>2, <3>1, <3>4, NameAssumption DEF IsList
  <2>5. PoolsIn(W) = {Default} /\ CpuIn(W) = list[Cpu]
    <3> HIDE DEF W
    <3> QED BY <1>3, <2>2, <2>3, NameAssumption DEF PoolsIn, CpuIn
  <2>6. Seen(W, PoolsIn(W), 1000 * list[Cpu], Default)
    <3> HIDE DEF W
    <3> QED BY <2>3, <2>5 DEF Seen
  <2>7. Value(1000 * list[Cpu]) = CpuIn(W)
    BY <2>3, <2>5, ValueIs
  <2> HIDE DEF W
  <2>8. \A p, q \in PoolsIn(W) : p = q
    BY <2>5
  <2>9. Agrees(W) /\ OnePool(W)
    BY <2>4, <2>6, <2>7, <2>8, SeenAgrees
  <2> QED BY <2>9 DEF W
<1>4. CASE /\ res \in Resource /\ res # Nil /\ res.system /\ res.name = Cpu
           /\ PoolsIn(list) # {} /\ Cpu \notin DOMAIN list
  <2>1. W = [name_ \in DOMAIN list \cup {Cpu} |-> IF name_ \in DOMAIN list THEN list[name_] ELSE res.quantity]
    BY <1>4 DEF With
  <2>2. DOMAIN W = DOMAIN list \cup {Cpu} /\ W[Cpu] = res.quantity /\ \A k \in DOMAIN list : W[k] = list[k]
    BY <1>4, <2>1
  <2>3. res.quantity \in Nat
    BY <1>4 DEF Resource
  <2>4. IsList(W)
    <3>1. IsFiniteSet(DOMAIN list \cup {Cpu})
      BY FS_AddElement DEF IsList
    <3>2. \A k \in DOMAIN W : W[k] \in Nat
      BY <1>1, <2>2, <2>3
    <3>3. W = [k \in DOMAIN W |-> W[k]]
      BY <2>1
    <3>4. W \in [DOMAIN W -> Nat]
      <4> HIDE DEF W
      <4> QED BY <3>2, <3>3
    <3> HIDE DEF W
    <3> QED BY <2>2, <3>1, <3>4 DEF IsList
  <2>5. PoolsIn(W) = PoolsIn(list) /\ CpuIn(W) = res.quantity
    <3> HIDE DEF W
    <3> QED BY <2>2, NameAssumption DEF PoolsIn, CpuIn
  <2>6. \A p \in PoolsIn(list) : p \in DOMAIN list /\ W[p] = list[p]
    BY <2>2 DEF PoolsIn
  <2>7. Seen(W, PoolsIn(W), amount, name) /\ (Plain(list) => Plain(W))
    <3> HIDE DEF W
    <3> QED BY <2>5, <2>6 DEF Seen, Plain, PositivePools
  <2>8. Value(amount) = CpuIn(W)
    BY <1>4, <2>5 DEF Checks, Agree, MilliValue
  <2> HIDE DEF W
  <2>9. Agrees(W) /\ (Plain(W) => OnePool(W))
    BY <2>4, <2>7, <2>8, SeenAgrees
  <2> QED BY <2>7, <2>9 DEF W
<1> HIDE DEF W
<1> QED BY <1>2, <1>3, <1>4, AddedIs DEF W

(* Of a plain list the check says what VerdictOn says.                     *)
LEMMA PlainChecks ==
  ASSUME NEW list, IsList(list), Plain(list), NEW res \in Added(list), NEW amount, NEW name,
         Seen(list, PoolsIn(list), amount, name)
  PROVE  /\ Checks(list, res, amount) <=> (Complete(list) => Agrees(list))
         /\ \A p, q \in PoolsIn(list) : p = q
         /\ res = Nil <=> ~OneKind(list)
<1>1. \A p \in PoolsIn(list) : p \in PositivePools(list) /\ p = name /\ list[p] = amount /\ list[p] \in Nat
  BY DEF Seen, Plain, PositivePools, PoolsIn, IsList
<1>2. PoolsIn(list) = {} => amount = 0
  BY DEF Seen
<1>3. CASE res = Nil /\ ~OneKind(list) /\ (Cpu \in DOMAIN list <=> PoolsIn(list) # {})
  <2>1. Checks(list, res, amount) <=> Value(amount) = CpuIn(list)
    BY <1>3 DEF Checks, Agree, MilliValue
  <2>2. CASE PoolsIn(list) = {}
    <3>1. CpuIn(list) = 0
      BY <1>3, <2>2 DEF CpuIn
    <3> QED BY <1>1, <1>2, <1>3, <2>1, <2>2, <3>1, ValueIs DEF Complete
  <2>3. CASE PoolsIn(list) # {}
    <3>1. Value(amount) = CpuIn(list) => Agrees(list)
      BY SeenAgrees
    <3>2. Agrees(list) => Value(amount) = CpuIn(list)
      BY <1>1, <2>3 DEF Agrees, MilliValue
    <3>3. Complete(list)
      BY <1>3, <2>3 DEF Complete
    <3> QED BY <1>1, <1>3, <2>1, <3>1, <3>2, <3>3
  <2> QED BY <2>2, <2>3
<1>4. CASE /\ res \in Resource /\ res # Nil /\ ~res.system /\ res.name = Default
           /\ res.quantity = 1000 * CpuIn(list)
           /\ PoolsIn(list) = {} /\ Cpu \in DOMAIN list /\ OneKind(list)
  <2>1. Value(1000 * CpuIn(list)) = CpuIn(list)
    BY PoolsFinite, ValueIs
  <2>2. Checks(list, res, amount)
    BY <1>4, <2>1 DEF Checks, Agree, MilliValue
  <2> QED BY <1>1, <1>4, <2>2 DEF Complete
<1>5. CASE /\ res \in Resource /\ res # Nil /\ res.system /\ res.name = Cpu
           /\ \E p \in PoolsIn(list) : res.quantity = Value(list[p])
           /\ PoolsIn(list) # {} /\ Cpu \notin DOMAIN list /\ OneKind(list)
  <2>1. res.quantity = Value(amount)
    BY <1>1, <1>5
  <2>2. Checks(list, res, amount)
    BY <1>5, <2>1 DEF Checks, Agree, MilliValue
  <2> QED BY <1>1, <1>5, <2>2 DEF Complete
<1> QED BY <1>3, <1>4, <1>5, AddedIs

(* A limit that is completed is so in the place in which the request is:   *)
(* there are no limits without requests.                                   *)
LEMMA SameKind ==
  ASSUME NEW reqs, IsList(reqs), NEW lims, IsList(lims), DOMAIN lims \subseteq DOMAIN reqs,
         NEW req \in Added(reqs), NEW lim \in Added(lims), lim # Nil => req # Nil
  PROVE  /\ PoolsIn(With(lims, lim)) \subseteq PoolsIn(With(reqs, req))
         /\ lim # Nil => lim.system = req.system
<1>1. PoolsIn(lims) \subseteq PoolsIn(reqs) /\ (Cpu \in DOMAIN lims => Cpu \in DOMAIN reqs)
  BY DEF PoolsIn
<1>2. PoolsIn(reqs) \subseteq PoolsIn(With(reqs, req))
  BY DEF PoolsIn, With
<1>3. CASE lim = Nil
  BY <1>1, <1>2, <1>3 DEF With
<1>4. CASE lim # Nil
  <2>1. CASE lim.system
    <3>1. lim.name = Cpu /\ PoolsIn(lims) # {} /\ lim \in Resource
      BY <1>4, <2>1, AddedIs
    <3>2. req.system /\ req \in Resource
      BY <1>1, <1>4, <3>1, AddedIs
    <3>3. PoolsIn(With(lims, lim)) = PoolsIn(lims)
      BY <1>4, <3>1, NameAssumption DEF PoolsIn, With
    <3> QED BY <1>1, <1>2, <2>1, <3>1, <3>2, <3>3 DEF Resource
  <2>2. CASE ~lim.system
    <3>1. lim.name = Default /\ Cpu \in DOMAIN lims /\ PoolsIn(lims) = {} /\ lim \in Resource
      BY <1>4, <2>2, AddedIs
    <3>2. ~req.system /\ req.name = Default /\ req \in Resource /\ req # Nil
      BY <1>1, <1>4, <3>1, AddedIs
    <3>3. PoolsIn(With(lims, lim)) = {Default}
      BY <1>4, <3>1, NameAssumption DEF PoolsIn, With
    <3>4. Default \in PoolsIn(With(reqs, req))
      BY <3>2, NameAssumption DEF PoolsIn, With
    <3> QED BY <2>2, <3>1, <3>2, <3>3, <3>4 DEF Resource
  <2> QED BY <2>1, <2>2
<1> QED BY <1>3, <1>4

-----------------------------------------------------------------------------
(* The invariant                                                           *)

Plainly(c) == Plain(c.requests) /\ Plain(c.limits)

Past(n) ==
  /\ Agrees(Patched(n, "requests")) /\ Agrees(Patched(n, "limits"))
  /\ PositivePools(Patched(n, "limits")) \subseteq PoolsIn(Patched(n, "requests"))
  /\ Plain(pod[n].requests) => OnePool(Patched(n, "requests"))
  /\ Plainly(pod[n]) => VerdictOn(pod[n]) = "allowed"

Reviewing ==
  /\ ~Exempt /\ origin \notin Unserved \cup Malformed
  /\ \A n \in DOMAIN pod : n < pos => Past(n)

(* What is to be added to the container under review is in the patch.      *)
Patching ==
  /\ pos \in DOMAIN pod
  /\ request \in Added(pod[pos].requests) /\ limit \in Added(pod[pos].limits)
  /\ Patched(pos, "requests") = With(pod[pos].requests, request)
  /\ Patched(pos, "limits") = With(pod[pos].limits, limit)

SeenRequests(V) == Seen(pod[pos].requests, V, poolRequest, requestName)
SeenLimits(V)   == Seen(pod[pos].limits, V, poolLimit, requestName) /\ V \subseteq {requestName}

AtRequests == SeenRequests(PoolsIn(pod[pos].requests) \ left) /\ poolLimit = 0
AtLimits ==
  /\ SeenRequests(PoolsIn(pod[pos].requests))
  /\ SeenLimits(PoolsIn(pod[pos].limits) \ left)
AtCompare ==
  /\ SeenRequests(PoolsIn(pod[pos].requests)) /\ SeenLimits(PoolsIn(pod[pos].limits))

Ended ==
  /\ verdict = "allowed" /\ ~Exempt => \A n \in DOMAIN pod : Past(n)
  /\ VerdictIsOrderFree

AtStage ==
  /\ stage = "serve" => pos = 1 /\ ops = {}
  /\ stage = "mutate" => Reviewing /\ \A op \in ops : op.pos < pos
  /\ stage = "requests" => Reviewing /\ Patching /\ AtRequests
  /\ stage = "limits" => Reviewing /\ Patching /\ AtLimits
  /\ stage = "compare" => Reviewing /\ Patching /\ AtCompare
  /\ stage = "done" => Ended

WInv ==
  /\ TypeOK /\ pod \in Pods /\ AtStage
  /\ verdict # Nil => stage = "done"

-----------------------------------------------------------------------------
(* Steps                                                                   *)

(* The containers under review have lists of resources, and their limits   *)
(* name nothing that their requests do not.                                *)
LEMMA PodLists ==
  ASSUME pod \in Pods
  PROVE  /\ Len(pod) \in Nat /\ DOMAIN pod = 1 .. Len(pod)
         /\ \A n \in DOMAIN pod :
              /\ IsList(pod[n].requests) /\ IsList(pod[n].limits)
              /\ DOMAIN pod[n].limits \subseteq DOMAIN pod[n].requests
              /\ PoolsIn(pod[n].limits) \subseteq PoolsIn(pod[n].requests)
BY PodAssumption DEF PoolsIn

(* A container that is past the review stays so while the patch does.      *)
LEMMA PastKept ==
  ASSUME UNCHANGED <<pod, ops>>
  PROVE  \A n \in DOMAIN pod : Past(n) => Past(n)'
BY DEF Past, Patched, Plainly

(* A list with the operations that are about it.                           *)
Merged(list, added) ==
  [name \in DOMAIN list \cup {op.name : op \in added} |->
     IF name \in DOMAIN list THEN list[name] ELSE (CHOOSE op \in added : op.name = name).quantity]

OpsOn(n, which) == {op \in ops : op.pos = n /\ op.list = which}

LEMMA PatchedIs ==
  /\ \A n : Patched(n, "requests") = Merged(pod[n].requests, OpsOn(n, "requests"))
  /\ \A n : Patched(n, "limits") = Merged(pod[n].limits, OpsOn(n, "limits"))
BY DEF Patched, Merged, OpsOn

(* What an operation adds to a list.                                       *)
LEMMA PatchIs ==
  ASSUME NEW list, IsList(list), NEW res, NEW added, NEW p, NEW w,
         added = IF res = Nil THEN {}
                 ELSE {[pos |-> p, list |-> w, name |-> res.name, quantity |-> res.quantity]}
  PROVE  Merged(list, added) = With(list, res)
<1>1. CASE res = Nil
  <2>1. DOMAIN list \cup {op.name : op \in added} = DOMAIN list
    BY <1>1
  <2> QED BY <1>1, <2>1 DEF With, IsList, Merged
<1>2. CASE res # Nil
  <2> DEFINE o == [pos |-> p, list |-> w, name |-> res.name, quantity |-> res.quantity]
  <2>1. added = {o} /\ o.name = res.name /\ o.quantity = res.quantity
    BY <1>2
  <2> HIDE DEF o
  <2>2. {op.name : op \in added} = {res.name}
    BY <2>1
  <2>3. (CHOOSE op \in added : op.name = res.name) = o
    BY <2>1
  <2> QED BY <1>2, <2>1, <2>2, <2>3 DEF With, Merged
<1> QED BY <1>1, <1>2

(* A review that ends at the first container that is not in order, with    *)
(* what there is to say of it.                                             *)
LEMMA EndsAtFirst ==
  ASSUME pod \in Pods, Reviewing, pos \in DOMAIN pod, NEW outcome, outcome # "allowed", End(outcome),
         Plainly(pod[pos]) => VerdictOn(pod[pos]) = outcome
  PROVE  Ended'
<1>1. origin' = origin /\ pod' = pod /\ verdict' = outcome /\ (Exempt' <=> Exempt) /\ (Unambiguous' <=> Unambiguous)
  BY DEF End, Exempt, Unambiguous
<1>2. ~Exempt /\ \A n \in DOMAIN pod : n \in Int
  BY PodLists DEF Reviewing
<1> DEFINE bad == {n \in DOMAIN pod : ~Exempt /\ VerdictOn(pod[n]) # "allowed"}
<1>3. ASSUME Unambiguous PROVE outcome = VerdictOn(pod[CHOOSE n \in bad : \A m \in bad : n <= m]) /\ bad # {}
  <2>1. \A n \in DOMAIN pod : Plainly(pod[n])
    BY <1>3 DEF Unambiguous, Plainly, Plain
  <2>2. \A n \in DOMAIN pod : n < pos => VerdictOn(pod[n]) = "allowed"
    BY <2>1 DEF Reviewing, Past
  <2>3. pos \in bad /\ VerdictOn(pod[pos]) = outcome
    BY <1>2, <2>1
  <2>4. \A m \in bad : pos <= m /\ m \in Int
    BY <1>2, <2>2
  <2> HIDE DEF bad
  <2>5. (CHOOSE n \in bad : \A m \in bad : n <= m) = pos
    BY <2>3, <2>4
  <2> QED BY <2>3, <2>5
<1>4. VerdictIsOrderFree'
  BY <1>1, <1>3 DEF VerdictIsOrderFree
<1> QED BY <1>1, <1>4 DEF Ended

(* Every step keeps the types, and does not change the pod.                *)
LEMMA TypeKept ==
  ASSUME WInv, Next
  PROVE  TypeOK' /\ pod' = pod
<1>1. TypeOK /\ pod \in Pods
  BY DEF WInv
<1>2. /\ Len(pod) \in Nat /\ DOMAIN pod = 1 .. Len(pod)
      /\ \A n \in DOMAIN pod : IsList(pod[n].requests) /\ IsList(pod[n].limits)
  BY <1>1, PodLists
<1>3. pos \in 1 .. Len(pod) + 1 /\ \A op \in ops : op.pos \in 1 .. pos
  BY <1>1, Zenon DEF TypeOK
<1>4. CASE Serve
  BY <1>1, <1>4 DEF Serve, End, TypeOK, Outcomes
<1>5. CASE Mutate
  <2>1. request' \in Resource \cup {Nil} /\ limit' \in Resource \cup {Nil}
    BY <1>2, <1>5, AddedIs DEF Mutate
  <2>2. \A op \in ops' : op.pos \in 1 .. pos
    <3>1. \A res, w : \A op \in Op(res, w) : op.pos = pos
      BY DEF Op
    <3>2. ops' = ops \cup Op(request', "requests") \cup Op(limit', "limits")
      BY <1>5 DEF Mutate
    <3> QED BY <1>2, <1>3, <3>1, <3>2
  <2> QED BY <1>1, <1>2, <1>5, <2>1, <2>2 DEF Mutate, TypeOK, PoolsIn
<1>6. ASSUME NEW name \in Pool, VisitRequest(name) PROVE TypeOK' /\ pod' = pod
  <2>1. pos \in DOMAIN pod /\ name \in DOMAIN pod[pos].requests /\ pod[pos].requests[name] \in Nat
    BY <1>1, <1>2, <1>6 DEF VisitRequest, TypeOK, WInv, AtStage, Patching, IsList
  <2> QED BY <1>1, <1>6, <2>1 DEF VisitRequest, End, TypeOK, Outcomes
<1>7. ASSUME NEW name \in Pool, VisitLimit(name) PROVE TypeOK' /\ pod' = pod
  <2>1. pos \in DOMAIN pod /\ name \in DOMAIN pod[pos].limits /\ pod[pos].limits[name] \in Nat
    BY <1>1, <1>2, <1>7 DEF VisitLimit, TypeOK, WInv, AtStage, Patching, IsList
  <2> QED BY <1>1, <1>7, <2>1 DEF VisitLimit, End, TypeOK, Outcomes
<1>8. CASE RequestsVisited
  BY <1>1, <1>8 DEF RequestsVisited, TypeOK, PoolsIn
<1>9. CASE LimitsVisited
  BY <1>1, <1>9 DEF LimitsVisited, TypeOK
<1>10. CASE Compare
  <2>1. pos \in DOMAIN pod
    BY <1>10 DEF Compare, WInv, AtStage, Patching
  <2>2. pos + 1 \in 1 .. Len(pod) + 1 /\ \A op \in ops : op.pos \in 1 .. pos + 1
    BY <1>2, <1>3, <2>1
  <2>3. /\ pod' = pod /\ origin' = origin /\ request' = request /\ limit' = limit /\ ops' = ops
        /\ (pos' = pos \/ pos' = pos + 1) /\ stage' \in {"done", "mutate"}
        /\ verdict' \in {verdict, "denied", "panic"}
        /\ UNCHANGED <<poolRequest, requestName, poolLimit, left>>
    BY <1>10 DEF Compare, End
  <2> QED BY <1>1, <2>2, <2>3 DEF TypeOK, Outcomes
<1>11. CASE Allow
  BY <1>1, <1>11 DEF Allow, End, TypeOK, Outcomes
<1> QED BY <1>4, <1>5, <1>6, <1>7, <1>8, <1>9, <1>10, <1>11 DEF Next

(* What is known of the review stays while the patch and the pod do.       *)
LEMMA ReviewKept ==
  ASSUME UNCHANGED <<origin, pod, pos, request, limit, ops>>
  PROVE  (Reviewing => Reviewing') /\ (Patching => Patching')
<1>1. Patching => Patching'
  BY DEF Patching, Patched
<1>2. Reviewing => Reviewing'
  BY PastKept DEF Reviewing, Exempt
<1> QED BY <1>1, <1>2

(* Of what is sent, only a pod that is not exempt is reviewed.             *)
LEMMA ServeStage ==
  ASSUME WInv, Serve
  PROVE  AtStage'
<1>1. pod \in Pods /\ pos = 1 /\ ops = {} /\ origin \in Origins
  BY DEF WInv, AtStage, Serve, TypeOK
<1>2. pod' = pod /\ origin' = origin /\ ops' = ops /\ pos' = pos /\ (Exempt' <=> Exempt)
  BY DEF Serve, End, Exempt
<1>3. CASE stage' = "mutate"
  <2>1. ~Exempt /\ origin \notin Unserved \cup Malformed
    BY <1>3 DEF Serve, End
  <2>2. \A n \in DOMAIN pod : ~(n < 1)
    BY <1>1, PodLists
  <2> QED BY <1>1, <1>2, <1>3, <2>1, <2>2 DEF AtStage, Reviewing
<1>4. CASE stage' = "done" /\ origin \in Unserved \cup Malformed /\ verdict' # "allowed"
  BY <1>2, <1>4 DEF AtStage, Ended, VerdictIsOrderFree
<1>5. CASE stage' = "done" /\ Exempt /\ verdict' = "allowed"
  <2>1. {n \in DOMAIN pod' : ~Exempt' /\ VerdictOn(pod'[n]) # "allowed"} = {}
    BY <1>2, <1>5
  <2>2. Ended'
    BY <1>2, <1>5, <2>1 DEF Ended, VerdictIsOrderFree
  <2> QED BY <1>5, <2>2 DEF AtStage
<1> QED BY <1>3, <1>4, <1>5 DEF Serve, End

(* What is added to the lists of a container is in the patch, and changes  *)
(* nothing for the containers before.                                      *)
LEMMA MutateStage ==
  ASSUME WInv, Mutate
  PROVE  AtStage'
<1>1. /\ pod \in Pods /\ Reviewing /\ pos \in DOMAIN pod /\ (\A op \in ops : op.pos < pos)
      /\ pos \in Int
  BY PodLists DEF WInv, AtStage, Mutate
<1>2. /\ pod' = pod /\ pos' = pos /\ origin' = origin /\ stage' = "requests"
      /\ ops' = ops \cup Op(request', "requests") \cup Op(limit', "limits")
      /\ request' \in Added(pod[pos].requests) /\ limit' \in Added(pod[pos].limits)
      /\ poolRequest' = 0 /\ poolLimit' = 0 /\ left' = PoolsIn(pod[pos].requests)
  BY DEF Mutate
<1>3. \A res, w : \A op \in Op(res, w) : op.pos = pos /\ op.list = w
  BY DEF Op
<1>4. ASSUME NEW n \in DOMAIN pod, n < pos, NEW w PROVE OpsOn(n, w)' = OpsOn(n, w)
  BY <1>1, <1>2, <1>3, <1>4 DEF OpsOn
<1>5. OpsOn(pos, "requests")' = Op(request', "requests") /\ OpsOn(pos, "limits")' = Op(limit', "limits")
  BY <1>1, <1>2, <1>3 DEF OpsOn
<1>6. /\ \A n : Patched(n, "requests")' = Merged(pod[n].requests, OpsOn(n, "requests")')
      /\ \A n : Patched(n, "limits")' = Merged(pod[n].limits, OpsOn(n, "limits")')
  BY <1>2 DEF Patched, Merged, OpsOn
<1>7. Patched(pos, "requests")' = With(pod[pos].requests, request')
  <2>1. Merged(pod[pos].requests, Op(request', "requests")) = With(pod[pos].requests, request')
    BY <1>1, PatchIs, PodLists DEF Op
  <2> QED BY <1>2, <1>5, <1>6, <2>1
<1>8. Patched(pos, "limits")' = With(pod[pos].limits, limit')
  <2>1. Merged(pod[pos].limits, Op(limit', "limits")) = With(pod[pos].limits, limit')
    BY <1>1, PatchIs, PodLists DEF Op
  <2> QED BY <1>2, <1>5, <1>6, <2>1
<1>9. Patching'
  BY <1>1, <1>2, <1>7, <1>8 DEF Patching
<1>10. ASSUME NEW n \in DOMAIN pod, n < pos PROVE Past(n)'
  <2>1. Patched(n, "requests")' = Patched(n, "requests") /\ Patched(n, "limits")' = Patched(n, "limits")
    BY <1>4, <1>6, <1>10, PatchedIs
  <2>2. Past(n)
    BY <1>1, <1>10 DEF Reviewing
  <2> QED BY <1>2, <2>1, <2>2 DEF Past
<1>11. Reviewing'
  BY <1>1, <1>2, <1>10 DEF Reviewing, Exempt
<1>12. AtRequests'
  BY <1>2 DEF AtRequests, SeenRequests, Seen
<1> QED BY <1>2, <1>9, <1>11, <1>12 DEF AtStage

(* A second pool with an amount among the requests is one too many.        *)
LEMMA VisitRequestStage ==
  ASSUME WInv, NEW name \in Pool, VisitRequest(name)
  PROVE  AtStage'
<1> DEFINE reqs == pod[pos].requests
           V    == PoolsIn(reqs) \ left
<1>1. /\ pod \in Pods /\ Reviewing /\ Patching /\ pos \in DOMAIN pod /\ name \in left
      /\ Seen(reqs, V, poolRequest, requestName) /\ poolLimit = 0 /\ IsList(reqs)
      /\ name \in PoolsIn(reqs)
  BY PodLists DEF WInv, AtStage, VisitRequest, AtRequests, SeenRequests, Patching, TypeOK, PoolsIn
<1>2. CASE Several(poolRequest)
  <2>1. requestName \in V /\ requestName # name
    BY <1>1, <1>2 DEF Several, MilliValue, Seen
  <2>2. ~(Cardinality(PoolsIn(reqs)) <= 1) /\ Cardinality(PoolsIn(reqs)) \in Nat
    BY <1>1, <2>1, PoolsFinite, AtMostOne
  <2>3. Cardinality(PoolsIn(reqs)) > 1
    BY <2>2
  <2>4. VerdictOn(pod[pos]) = "denied" /\ End("denied")
    BY <1>2, <2>3 DEF VerdictOn, VisitRequest
  <2>5. Ended'
    BY <1>1, <2>4, EndsAtFirst
  <2> QED BY <2>4, <2>5 DEF AtStage, End
<1>3. CASE ~Several(poolRequest)
  <2>1. /\ UNCHANGED <<origin, pod, pos, request, limit, ops, stage, poolLimit>> /\ stage = "requests"
        /\ poolRequest' = reqs[name] /\ requestName' = name /\ left' = left \ {name}
    BY <1>3 DEF VisitRequest
  <2>2. poolRequest = 0
    BY <1>3 DEF Several, MilliValue
  <2>3. PoolsIn(reqs) \ (left \ {name}) = V \cup {name}
    BY <1>1
  <2> HIDE DEF V
  <2>4. Seen(reqs, V \cup {name}, reqs[name], name)
    BY <1>1, <2>2 DEF Seen
  <2>5. AtRequests'
    BY <1>1, <2>1, <2>3, <2>4 DEF AtRequests, SeenRequests
  <2>6. Reviewing' /\ Patching'
    BY <1>1, <2>1, ReviewKept
  <2> QED BY <2>1, <2>5, <2>6 DEF AtStage
<1> QED BY <1>2, <1>3

(* A pool among the limits is the one of the requests.                     *)
LEMMA VisitLimitStage ==
  ASSUME WInv, NEW name \in Pool, VisitLimit(name)
  PROVE  AtStage'
<1> DEFINE reqs == pod[pos].requests
           lims == pod[pos].limits
           V    == PoolsIn(lims) \ left
<1>1. /\ pod \in Pods /\ Reviewing /\ Patching /\ pos \in DOMAIN pod /\ name \in left
      /\ Seen(reqs, PoolsIn(reqs), poolRequest, requestName)
      /\ Seen(lims, V, poolLimit, requestName) /\ V \subseteq {requestName}
      /\ name \in PoolsIn(lims)
  BY DEF WInv, AtStage, VisitLimit, AtLimits, SeenRequests, SeenLimits, Patching, TypeOK, PoolsIn
<1>2. CASE Several(poolLimit) \/ requestName # name
  <2>1. requestName # name
    BY <1>1, <1>2 DEF Several, MilliValue, Seen
  <2>2. ASSUME Plainly(pod[pos]) PROVE ~(PoolsIn(lims) \subseteq PoolsIn(reqs))
    BY <1>1, <2>1, <2>2 DEF Plainly, Plain, PositivePools, Seen
  <2>3. Plainly(pod[pos]) => VerdictOn(pod[pos]) = "denied"
    BY <2>2 DEF VerdictOn
  <2>4. End("denied")
    BY <1>2 DEF VisitLimit
  <2>5. Ended'
    BY <1>1, <2>3, <2>4, EndsAtFirst
  <2> QED BY <2>4, <2>5 DEF AtStage, End
<1>3. CASE ~Several(poolLimit) /\ requestName = name
  <2>1. /\ UNCHANGED <<origin, pod, pos, request, limit, ops, stage, poolRequest, requestName>>
        /\ stage = "limits" /\ poolLimit' = lims[name] /\ left' = left \ {name}
    BY <1>3 DEF VisitLimit
  <2>2. PoolsIn(lims) \ (left \ {name}) = {name}
    BY <1>1, <1>3
  <2>3. Seen(lims, {name}, lims[name], name)
    BY DEF Seen
  <2>4. AtLimits'
    BY <1>1, <1>3, <2>1, <2>2, <2>3 DEF AtLimits, SeenRequests, SeenLimits
  <2>5. Reviewing' /\ Patching'
    BY <1>1, <2>1, ReviewKept
  <2> QED BY <2>1, <2>4, <2>5 DEF AtStage
<1> QED BY <1>2, <1>3

(* From one loop to the next.                                              *)
LEMMA VisitedStage ==
  ASSUME WInv, RequestsVisited \/ LimitsVisited
  PROVE  AtStage'
<1>1. Reviewing /\ Patching
  BY DEF WInv, AtStage, RequestsVisited, LimitsVisited
<1>2. UNCHANGED <<origin, pod, pos, request, limit, ops, poolRequest, requestName, poolLimit>>
  BY DEF RequestsVisited, LimitsVisited
<1>3. Reviewing' /\ Patching'
  BY <1>1, <1>2, ReviewKept
<1>4. CASE RequestsVisited
  <2>1. SeenRequests(PoolsIn(pod[pos].requests) \ left) /\ left = {} /\ poolLimit = 0 /\ stage' = "limits"
        /\ left' = PoolsIn(pod[pos].limits)
    BY <1>4 DEF WInv, AtStage, RequestsVisited, AtRequests
  <2>2. /\ PoolsIn(pod[pos].requests) \ left = PoolsIn(pod[pos].requests)
        /\ PoolsIn(pod[pos].limits) \ left' = {}
    BY <2>1
  <2>3. AtLimits'
    BY <1>2, <2>1, <2>2 DEF AtLimits, SeenRequests, SeenLimits, Seen
  <2> QED BY <1>3, <2>1, <2>3 DEF AtStage
<1>5. CASE LimitsVisited
  <2>1. AtLimits /\ left = {} /\ stage' = "compare"
    BY <1>5 DEF WInv, AtStage, LimitsVisited
  <2>2. PoolsIn(pod[pos].limits) \ left = PoolsIn(pod[pos].limits)
    BY <2>1
  <2>3. AtCompare'
    BY <1>2, <2>1, <2>2 DEF AtLimits, AtCompare, SeenRequests, SeenLimits
  <2> QED BY <1>3, <2>1, <2>3 DEF AtStage
<1> QED BY <1>4, <1>5

(* The comparison of a container, in the order of the code: of its         *)
(* requests, of the kinds of what was added, of its limits.                *)
LEMMA CompareStage ==
  ASSUME WInv, Compare
  PROVE  AtStage'
<1> DEFINE reqs == pod[pos].requests
           lims == pod[pos].limits
<1>1. /\ pod \in Pods /\ Reviewing /\ Patching /\ pos \in DOMAIN pod
      /\ Seen(reqs, PoolsIn(reqs), poolRequest, requestName)
      /\ Seen(lims, PoolsIn(lims), poolLimit, requestName)
  BY DEF WInv, AtStage, Compare, AtCompare, SeenRequests, SeenLimits, Patching
<1>2. /\ IsList(reqs) /\ IsList(lims) /\ DOMAIN lims \subseteq DOMAIN reqs
      /\ PoolsIn(lims) \subseteq PoolsIn(reqs)
      /\ request \in Added(reqs) /\ limit \in Added(lims)
  BY <1>1, PodLists DEF Patching
<1>3. ASSUME Plainly(pod[pos])
      PROVE  /\ Checks(reqs, request, poolRequest) <=> (Complete(reqs) => Agrees(reqs))
             /\ Checks(lims, limit, poolLimit) <=> (Complete(lims) => Agrees(lims))
             /\ request = Nil <=> ~OneKind(reqs)
             /\ limit = Nil <=> ~OneKind(lims)
             /\ ~(Cardinality(PoolsIn(reqs)) > 1)
  <2>1. Plain(reqs) /\ Plain(lims)
    BY <1>3 DEF Plainly
  <2>2. /\ Checks(reqs, request, poolRequest) <=> (Complete(reqs) => Agrees(reqs))
        /\ \A p, q \in PoolsIn(reqs) : p = q
        /\ request = Nil <=> ~OneKind(reqs)
    BY <1>1, <1>2, <2>1, PlainChecks
  <2>3. /\ Checks(lims, limit, poolLimit) <=> (Complete(lims) => Agrees(lims))
        /\ limit = Nil <=> ~OneKind(lims)
    BY <1>1, <1>2, <2>1, PlainChecks
  <2>4. Cardinality(PoolsIn(reqs)) \in Nat /\ Cardinality(PoolsIn(reqs)) <= 1
    BY <1>2, <2>2, PoolsFinite, AtMostOne
  <2> QED BY <2>2, <2>3, <2>4
<1>4. (limit # Nil => request # Nil)
      => Agree(poolLimit, CpuIn(lims), limit, request # Nil /\ request.system) = Checks(lims, limit, poolLimit)
  <2>1. CASE limit = Nil
    BY <2>1 DEF Checks, Agree
  <2>2. CASE limit # Nil /\ request # Nil
    <3>1. limit.system = request.system
      BY <1>2, <2>2, SameKind
    <3> QED BY <2>2, <3>1 DEF Checks
  <2> QED BY <2>1, <2>2
<1>5. CASE ~Checks(reqs, request, poolRequest)
  <2>1. End("denied")
    BY <1>5 DEF Compare, Checks
  <2>2. Plainly(pod[pos]) => VerdictOn(pod[pos]) = "denied"
    BY <1>3, <1>5 DEF VerdictOn
  <2>3. Ended'
    BY <1>1, <2>1, <2>2, EndsAtFirst
  <2> QED BY <2>1, <2>3 DEF AtStage, End
<1>6. CASE Checks(reqs, request, poolRequest) /\ limit # Nil /\ request = Nil
  <2>1. End("panic")
    BY <1>6 DEF Compare, Checks
  <2>2. Plainly(pod[pos]) => VerdictOn(pod[pos]) = "panic"
    BY <1>2, <1>3, <1>6 DEF VerdictOn
  <2>3. Ended'
    BY <1>1, <2>1, <2>2, EndsAtFirst
  <2> QED BY <2>1, <2>3 DEF AtStage, End
<1>7. CASE /\ Checks(reqs, request, poolRequest) /\ ~(limit # Nil /\ request = Nil)
           /\ ~Checks(lims, limit, poolLimit)
  <2>1. End("denied")
    BY <1>4, <1>7 DEF Compare, Checks
  <2>2. Plainly(pod[pos]) => VerdictOn(pod[pos]) = "denied"
    BY <1>2, <1>3, <1>7 DEF VerdictOn
  <2>3. Ended'
    BY <1>1, <2>1, <2>2, EndsAtFirst
  <2> QED BY <2>1, <2>3 DEF AtStage, End
<1>8. CASE /\ Checks(reqs, request, poolRequest) /\ ~(limit # Nil /\ request = Nil)
           /\ Checks(lims, limit, poolLimit)
  <2>1. /\ stage' = "mutate" /\ pos' = pos + 1
        /\ UNCHANGED <<origin, pod, request, limit, verdict, ops>>
    BY <1>4, <1>8 DEF Compare, Checks
  <2>2. /\ Agrees(Patched(pos, "requests")) /\ (Plain(reqs) => OnePool(Patched(pos, "requests")))
        /\ Agrees(Patched(pos, "limits"))
    BY <1>1, <1>2, <1>8, ListAgrees DEF Patching
  <2>3. PoolsIn(Patched(pos, "limits")) \subseteq PoolsIn(Patched(pos, "requests"))
    BY <1>1, <1>2, <1>8, SameKind DEF Patching
  <2>4. PositivePools(Patched(pos, "limits")) \subseteq PoolsIn(Patched(pos, "requests"))
    BY <2>3 DEF PositivePools
  <2>5. Plainly(pod[pos]) => VerdictOn(pod[pos]) = "allowed"
    BY <1>2, <1>3, <1>8 DEF VerdictOn
  <2>6. Past(pos)
    BY <2>2, <2>4, <2>5 DEF Past
  <2>7. /\ \A n \in DOMAIN pod : n \in Int /\ pos \in Int
        /\ \A op \in ops : op.pos \in 1 .. pos
    <3>1. \A op \in ops : op.pos \in 1 .. pos
      BY Zenon DEF WInv, TypeOK
    <3> QED BY <1>1, <3>1, PodLists
  <2>8. \A n \in DOMAIN pod : n < pos + 1 => Past(n)
    BY <1>1, <2>6, <2>7 DEF Reviewing
  <2>9. \A n \in DOMAIN pod' : n < pos' => Past(n)'
    BY <2>1, <2>8, PastKept
  <2>10. Reviewing'
    BY <1>1, <2>1, <2>9 DEF Reviewing, Exempt
  <2>11. \A op \in ops' : op.pos < pos'
    BY <1>1, <2>1, <2>7
  <2> QED BY <2>1, <2>10, <2>11 DEF AtStage
<1> QED BY <1>5, <1>6, <1>7, <1>8

(* With no container left, every one is past the review.                   *)
LEMMA AllowStage ==
  ASSUME WInv, Allow
  PROVE  AtStage'
<1>1. pod \in Pods /\ Reviewing /\ pos \notin DOMAIN pod /\ End("allowed")
  BY DEF WInv, AtStage, Allow
<1>2. pos \in 1 .. Len(pod) + 1
  BY Zenon DEF WInv, TypeOK
<1>3. \A n \in DOMAIN pod : Past(n)
  BY <1>1, <1>2, PodLists DEF Reviewing
<1>4. UNCHANGED <<origin, pod, ops>> /\ verdict' = "allowed" /\ (Exempt' <=> Exempt) /\ (Unambiguous' <=> Unambiguous)
  BY <1>1 DEF End, Exempt, Unambiguous
<1>5. \A n \in DOMAIN pod' : Past(n)'
  BY <1>3, <1>4, PastKept
<1>6. ASSUME Unambiguous PROVE {n \in DOMAIN pod : ~Exempt /\ VerdictOn(pod[n]) # "allowed"} = {}
  BY <1>3, <1>6 DEF Past, Plainly, Plain, Unambiguous
<1>7. VerdictIsOrderFree'
  BY <1>4, <1>6 DEF VerdictIsOrderFree
<1>8. Ended'
  BY <1>5, <1>7 DEF Ended
<1> QED BY <1>1, <1>8 DEF AtStage, End

-----------------------------------------------------------------------------
(* Theorems                                                                *)

(* The review starts within the invariant, and no step leaves it.          *)
THEOREM ReviewInvariance == Spec => []WInv
<1>1. Init => WInv
  <2> SUFFICES ASSUME Init PROVE WInv
    OBVIOUS
  <2>1. /\ Len(pod) \in Nat
        /\ \A n \in DOMAIN pod : IsList(pod[n].requests) /\ IsList(pod[n].limits)
    BY PodLists DEF Init
  <2>2. TypeOK
    BY <2>1 DEF Init, TypeOK
  <2> QED BY <2>2 DEF Init, WInv, AtStage
<1>2. WInv /\ [Next]_vars => WInv'
  <2> SUFFICES ASSUME WInv, [Next]_vars PROVE WInv'
    OBVIOUS
  <2>1. CASE Next
    <3>1. TypeOK' /\ pod' \in Pods
      BY <2>1, TypeKept DEF WInv
    <3>2. AtStage'
      BY <2>1, ServeStage, MutateStage, VisitRequestStage, VisitLimitStage, VisitedStage,
         CompareStage, AllowStage DEF Next
    <3>3. verdict' # Nil => stage' = "done"
      BY <2>1 DEF WInv, Next, Serve, Mutate, VisitRequest, VisitLimit, RequestsVisited,
                  LimitsVisited, Compare, Allow, End
    <3> QED BY <3>1, <3>2, <3>3 DEF WInv
  <2>2. CASE UNCHANGED vars
    <3>1. TypeOK' /\ pod' \in Pods /\ (verdict' # Nil => stage' = "done")
      BY <2>2 DEF WInv, TypeOK, vars
    <3>2. (Reviewing => Reviewing') /\ (Patching => Patching')
      BY <2>2, ReviewKept DEF vars
    <3>3. /\ AtRequests => AtRequests'
          /\ AtLimits => AtLimits'
          /\ AtCompare => AtCompare'
      BY <2>2 DEF vars, AtRequests, AtLimits, AtCompare, SeenRequests, SeenLimits
    <3>4. VerdictIsOrderFree => VerdictIsOrderFree'
      BY <2>2 DEF vars, VerdictIsOrderFree, Exempt, Unambiguous
    <3>5. Ended => Ended'
      BY <2>2, <3>4, PastKept DEF vars, Ended, Exempt
    <3>6. AtStage'
      BY <2>2, <3>2, <3>3, <3>5 DEF WInv, AtStage, vars
    <3> QED BY <3>1, <3>6 DEF WInv
  <2> QED BY <2>1, <2>2
<1> QED BY <1>1, <1>2, PTL DEF Spec

(* The variables of a review are of their types: a loop is within the list *)
(* it is about.                                                            *)
THEOREM ReviewTypeCorrect == Spec => []TypeOK
<1>1. WInv => TypeOK
  BY DEF WInv
<1> QED BY <1>1, ReviewInvariance, PTL

(* An admitted pod, once patched, asks for the same of both kinds.         *)
THEOREM AdmissionAgrees == Spec => []AdmittedAgrees
<1>1. WInv => AdmittedAgrees
  BY NilAssumption DEF Outcomes, WInv, AtStage, Ended, Past, AdmittedAgrees
<1> QED BY <1>1, ReviewInvariance, PTL

(* The verdict is that of the first container that is not in order, in     *)
(* whatever order the lists were visited.                                  *)
THEOREM OrderDecidesNoVerdict == Spec => []VerdictIsOrderFree
<1>1. WInv => VerdictIsOrderFree
  BY DEF WInv, AtStage, Ended, VerdictIsOrderFree
<1> QED BY <1>1, ReviewInvariance, PTL

(* The scheduler counts what the plugin takes for an admitted container.   *)
THEOREM CountedIsTaken == Spec => []TakenIsCounted
<1>1. ASSUME WInv, verdict = "allowed", ~Exempt, Unambiguous, NEW n \in DOMAIN pod,
             NEW taken \in ContainerPoolResources(n), NEW pool \in Pool
      PROVE  LET requests == Patched(n, "requests")
                 counted  == IF pool \in DOMAIN requests THEN Value(requests[pool]) ELSE 0
             IN  counted = IF pool = taken.pool THEN taken.req ELSE 0
  <2> DEFINE R == Patched(n, "requests")
  <2>1. OnePool(R)
    BY <1>1, NilAssumption DEF Outcomes, WInv, AtStage, Ended, Past, Unambiguous, Plain
  <2>2. taken.pool \in PoolsReadFrom(R) /\ taken.req = CpuIn(R)
    BY <1>1 DEF ContainerPoolResources
  <2> HIDE DEF R
  <2>3. (IF pool \in DOMAIN R THEN Value(R[pool]) ELSE 0) = IF pool = taken.pool THEN taken.req ELSE 0
    <3>1. CASE PoolsIn(R) = {}
      BY <2>1, <2>2, <3>1 DEF OnePool, PoolsIn
    <3>2. CASE PoolsIn(R) # {}
      BY <2>1, <2>2, <3>2 DEF OnePool, PoolsReadFrom, PoolsIn
    <3> QED BY <3>1, <3>2
  <2> QED BY <2>3 DEF R
<1>2. WInv => TakenIsCounted
  BY <1>1 DEF TakenIsCounted
<1> QED BY <1>2, ReviewInvariance, PTL

=============================================================================
