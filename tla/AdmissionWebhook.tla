-------------------------- MODULE AdmissionWebhook ---------------------------
(***************************************************************************)
(* The admission webhook of cmd/cpu-pool-admissionwebhook: one request to  *)
(* review a pod.  A container asks for native CPU, for CPU of a pool, or   *)
(* for both; mutatePods adds the one that is missing to its requests and   *)
(* limits and validatePoolResource checks that the two agree.  What the    *)
(* plugin later reads from the pod (GetContainerPoolResources) is here to  *)
(* compare.                                                                *)
(*                                                                         *)
(* Resource lists are Go maps, visited in any order: a step is one entry   *)
(* of a list.  Quantities are in thousandths, of a CPU or of a unit of a   *)
(* pool resource; a unit stands for a thousandth of a CPU.                 *)
(***************************************************************************)
EXTENDS Integers, FiniteSets, Sequences

CONSTANTS
  Pool,         \* names of pool resources, the default pool's included
  Default,      \* resourcePrefix + defaultPool
  Cpu,          \* the name of the native resource
  Reserved,     \* the pool of pods of the system
  Pods,         \* sequences of containers that may come up for review
  OptIn,        \* the flag: review labelled pods only
  Nil           \* a nil pointer

ASSUME NameAssumption == Default \in Pool /\ Cpu \notin Pool
ASSUME OptInAssumption == OptIn \in BOOLEAN

(* A resource list: a map from some names to quantities; and what is added *)
(* to one, to its native ("system") or to its pool resources.              *)
IsList(list) ==
  /\ DOMAIN list \subseteq Pool \cup {Cpu} /\ IsFiniteSet(DOMAIN list)
  /\ list \in [DOMAIN list -> Nat]

Resource == [system : BOOLEAN, name : Pool \cup {Cpu}, quantity : Nat]

Outcomes == {"allowed", "denied", "bad request", "panic"}

ASSUME NilAssumption ==
  /\ Nil \notin Pool \cup {Cpu}
  /\ Nil \notin Resource
  /\ Nil \notin Outcomes

(* The API server fills in missing requests from the limits before it asks.*)
ASSUME PodAssumption ==
  \A p \in Pods :
    /\ Len(p) \in Nat /\ DOMAIN p = 1 .. Len(p)
    /\ \A n \in DOMAIN p :
         /\ IsList(p[n].requests) /\ IsList(p[n].limits)
         /\ DOMAIN p[n].limits \subseteq DOMAIN p[n].requests

(* What may come in: no body or one that is not said to be JSON, a body    *)
(* that is not a review or a review without a request, a request about     *)
(* something that is not or does not read as a pod, a pod of the system,   *)
(* and any other pod, with or without the label that opts in.              *)
Unserved  == {"no body", "not JSON"}
Malformed == {"not a review", "no request", "not a pod", "bad pod"}
Origins   == Unserved \cup Malformed \cup {"system", "unlabelled", "labelled"}

VARIABLES
  origin,        \* what came in
  pod,           \* the containers of the pod, in the order of review
  pos,           \* the one under review
  request,       \* the resource added to its requests, or Nil
  limit,         \* and to its limits
  poolRequest,   \* the variables of validatePoolResource
  requestName,
  poolLimit,
  left,          \* pool entries the current loop has not visited
  stage,         \* "serve", "mutate", "requests", "limits", "compare", or "done"
  verdict,       \* one of Outcomes, or Nil
  ops            \* the patch so far: [pos, list, name, quantity]

vars == <<origin, pod, pos, request, limit, poolRequest, requestName, poolLimit, left, stage, verdict, ops>>

-----------------------------------------------------------------------------
(* Quantities: Value rounds up, MilliValue is exact here.                  *)
Value(q) == (q + 999) \div 1000
MilliValue(q) == q

PoolsIn(list) == DOMAIN list \cap Pool
CpuIn(list)   == IF Cpu \in DOMAIN list THEN list[Cpu] ELSE 0

(* addPoolResourceRequestOrLimit: what may be added to a list.  With more  *)
(* than one pool in it, any of them is the one that is looked at.          *)
Added(list) ==
  IF PoolsIn(list) = {} /\ Cpu \notin DOMAIN list THEN {Nil}
  ELSE IF PoolsIn(list) = {}
    THEN {[system |-> FALSE, name |-> Default, quantity |-> 1000 * MilliValue(list[Cpu])]}
  ELSE IF Cpu \in DOMAIN list THEN {Nil}
  ELSE {[system |-> TRUE, name |-> Cpu, quantity |-> Value(list[p])] : p \in PoolsIn(list)}

(* createOp, if there is something to add.                                 *)
Op(res, list) ==
  IF res = Nil THEN {} ELSE {[pos |-> pos, list |-> list, name |-> res.name, quantity |-> res.quantity]}

Init ==
  /\ origin \in Origins
  /\ pod \in Pods
  /\ pos = 1
  /\ request = Nil /\ limit = Nil
  /\ poolRequest = 0 /\ requestName = Nil /\ poolLimit = 0
  /\ left = {}
  /\ stage = "serve"
  /\ verdict = Nil
  /\ ops = {}

-----------------------------------------------------------------------------
(* Actions                                                                 *)

(* The first error, or the panic, ends the review without a patch.         *)
End(outcome) ==
  stage' = "done" /\ verdict' = outcome /\ UNCHANGED <<origin, pod, pos, request, limit, ops>>

(* Pods the webhook leaves alone.                                          *)
Exempt == origin = "system" \/ (OptIn /\ origin = "unlabelled")

(* serve, and mutatePods up to the first container.                        *)
Serve ==
  /\ stage = "serve"
  /\ \/ origin \in Unserved /\ End("bad request")
     \/ origin \in Malformed /\ End("denied")
     \/ Exempt /\ End("allowed")
     \/ /\ origin \notin Unserved \cup Malformed /\ ~Exempt
        /\ stage' = "mutate"
        /\ UNCHANGED <<origin, pod, pos, request, limit, verdict, ops>>
  /\ UNCHANGED <<poolRequest, requestName, poolLimit, left>>

Mutate ==
  /\ stage = "mutate" /\ pos \in DOMAIN pod
  /\ request' \in Added(pod[pos].requests)
  /\ limit' \in Added(pod[pos].limits)
  /\ ops' = ops \cup Op(request', "requests") \cup Op(limit', "limits")
  /\ poolRequest' = 0 /\ requestName' = Nil /\ poolLimit' = 0
  /\ left' = PoolsIn(pod[pos].requests)
  /\ stage' = "requests"
  /\ UNCHANGED <<origin, pod, pos, verdict>>

(* Has the loop come across a pool before?  A mistake: nobody asks.        *)
SeveralIgnored(quantity) == FALSE
Several(quantity) == MilliValue(quantity) # 0

(* The loop over the requests.                                             *)
VisitRequest(name) ==
  /\ stage = "requests" /\ name \in left
  /\ IF Several(poolRequest)
       THEN End("denied") /\ UNCHANGED <<poolRequest, requestName, left>>
       ELSE /\ poolRequest' = pod[pos].requests[name]
            /\ requestName' = name
            /\ left' = left \ {name}
            /\ UNCHANGED <<origin, pod, pos, request, limit, stage, verdict, ops>>
  /\ UNCHANGED poolLimit

(* A mistake: the second loop goes over the requests once more.            *)
RequestsVisitedAgain ==
  /\ stage = "requests" /\ left = {}
  /\ stage' = "limits"
  /\ left' = PoolsIn(pod[pos].requests)
  /\ UNCHANGED <<origin, pod, pos, request, limit, poolRequest, requestName, poolLimit, verdict, ops>>

RequestsVisited ==
  /\ stage = "requests" /\ left = {}
  /\ stage' = "limits"
  /\ left' = PoolsIn(pod[pos].limits)
  /\ UNCHANGED <<origin, pod, pos, request, limit, poolRequest, requestName, poolLimit, verdict, ops>>

(* The loop over the limits.                                               *)
VisitLimit(name) ==
  /\ stage = "limits" /\ name \in left
  /\ IF Several(poolLimit) \/ requestName # name
       THEN End("denied") /\ UNCHANGED <<poolLimit, left>>
       ELSE /\ poolLimit' = pod[pos].limits[name]
            /\ left' = left \ {name}
            /\ UNCHANGED <<origin, pod, pos, request, limit, stage, verdict, ops>>
  /\ UNCHANGED <<poolRequest, requestName>>

LimitsVisited ==
  /\ stage = "limits" /\ left = {}
  /\ stage' = "compare"
  /\ UNCHANGED <<origin, pod, pos, request, limit, poolRequest, requestName, poolLimit, left, verdict, ops>>

(* Do a native and a pool quantity agree, when res is added in the place   *)
(* that "system" says?  A mistake: one of them has to be big enough.       *)
AgreeAtLeast(pool, cpu, res, system) ==
  LET p == IF res # Nil /\ ~system THEN res.quantity ELSE pool
      c == IF res # Nil /\ system THEN res.quantity ELSE cpu
  IN  Value(p) >= MilliValue(c)

Agree(pool, cpu, res, system) ==
  LET p == IF res # Nil /\ ~system THEN res.quantity ELSE pool
      c == IF res # Nil /\ system THEN res.quantity ELSE cpu
  IN  Value(p) = MilliValue(c)

(* The limit goes in the place of the kind the request has, which is read  *)
(* through the pointer to the request.                                     *)
Compare ==
  LET c == pod[pos] IN
  /\ stage = "compare"
  /\ IF ~Agree(poolRequest, CpuIn(c.requests), request, request # Nil /\ request.system)
       THEN End("denied")
     ELSE IF limit # Nil /\ request = Nil
       THEN End("panic")
     ELSE IF ~Agree(poolLimit, CpuIn(c.limits), limit, request # Nil /\ request.system)
       THEN End("denied")
     ELSE stage' = "mutate" /\ pos' = pos + 1 /\ UNCHANGED <<origin, pod, request, limit, verdict, ops>>
  /\ UNCHANGED <<poolRequest, requestName, poolLimit, left>>

Allow ==
  /\ stage = "mutate" /\ pos \notin DOMAIN pod
  /\ End("allowed")
  /\ UNCHANGED <<poolRequest, requestName, poolLimit, left>>

Next ==
  \/ Serve
  \/ Mutate
  \/ \E name \in Pool : VisitRequest(name) \/ VisitLimit(name)
  \/ RequestsVisited \/ LimitsVisited
  \/ Compare
  \/ Allow

Spec == Init /\ [][Next]_vars

-----------------------------------------------------------------------------
(* Properties                                                              *)

(* Every variable is of its type: a loop visits entries of the list it is  *)
(* about, and the patch does not run ahead of the review.                  *)
TypeOK ==
  LET resource == Resource \cup {Nil}
  IN  /\ origin \in Origins
      /\ \A n \in DOMAIN pod : IsList(pod[n].requests) /\ IsList(pod[n].limits)
      /\ pos \in 1 .. Len(pod) + 1
      /\ request \in resource /\ limit \in resource
      /\ poolRequest \in Nat /\ poolLimit \in Nat /\ requestName \in Pool \cup {Nil}
      /\ left \subseteq Pool
      /\ stage = "requests" => left \subseteq DOMAIN pod[pos].requests
      /\ stage = "limits" => left \subseteq DOMAIN pod[pos].limits
      /\ stage \in {"serve", "mutate", "requests", "limits", "compare", "done"}
      /\ verdict \in Outcomes \cup {Nil}
      /\ \A op \in ops : op.pos \in 1 .. pos

(* A resource list of the pod with the patch applied to it.                *)
Patched(n, which) ==
  LET list  == IF which = "requests" THEN pod[n].requests ELSE pod[n].limits
      added == {op \in ops : op.pos = n /\ op.list = which}
  IN  [name \in DOMAIN list \cup {op.name : op \in added} |->
         IF name \in DOMAIN list THEN list[name] ELSE (CHOOSE op \in added : op.name = name).quantity]

PositivePools(list) == {p \in PoolsIn(list) : list[p] # 0}

(* What the plugin reads from the pod agrees with what the scheduler and   *)
(* the kubelet read: an admitted pod, once patched, asks for the same      *)
(* amount of native CPU and of CPU of a pool, of one pool only, in its     *)
(* requests as in its limits (validatePoolResource), whatever order its    *)
(* lists were visited in.                                                  *)
Agrees(list) ==
  /\ Cardinality(PositivePools(list)) <= 1
  /\ PositivePools(list) = {} => CpuIn(list) = 0
  /\ \A p \in PositivePools(list) : Value(list[p]) = MilliValue(CpuIn(list))

AdmittedAgrees ==
  verdict = "allowed" /\ ~Exempt =>
    \A n \in DOMAIN pod :
      /\ Agrees(Patched(n, "requests"))
      /\ Agrees(Patched(n, "limits"))
      /\ PositivePools(Patched(n, "limits")) \subseteq PoolsIn(Patched(n, "requests"))

(* The verdict does not depend on the order in which maps are visited, for *)
(* a pod that asks for no amount of zero of a pool: it is that of the      *)
(* first container that is not in order.  A container is if it names at    *)
(* most one pool, the same in its limits as in its requests, and what it   *)
(* gives of both kinds agrees; but the check of a limit that was completed *)
(* panics when the request was not (validatePoolResource).  A pod that is  *)
(* left alone is allowed, whatever is in it.                               *)
Unambiguous ==
  \A n \in DOMAIN pod : \A list \in {pod[n].requests, pod[n].limits} : PoolsIn(list) = PositivePools(list)

Complete(list) == Cpu \in DOMAIN list /\ PoolsIn(list) # {}
OneKind(list)  == ~Complete(list) /\ DOMAIN list \cap (Pool \cup {Cpu}) # {}

VerdictOn(c) ==
  IF \/ Cardinality(PoolsIn(c.requests)) > 1
     \/ ~(PoolsIn(c.limits) \subseteq PoolsIn(c.requests))
     \/ Complete(c.requests) /\ ~Agrees(c.requests)
    THEN "denied"
  ELSE IF OneKind(c.limits) /\ ~OneKind(c.requests) THEN "panic"
  ELSE IF Complete(c.limits) /\ ~Agrees(c.limits) THEN "denied"
  ELSE "allowed"

VerdictIsOrderFree ==
  Unambiguous /\ stage = "done" /\ origin \notin Unserved \cup Malformed =>
    LET bad == {n \in DOMAIN pod : ~Exempt /\ VerdictOn(pod[n]) # "allowed"}
    IN  verdict = IF bad = {} THEN "allowed" ELSE VerdictOn(pod[CHOOSE n \in bad : \A m \in bad : n <= m])

(* What the plugin may read from container n of the patched pod (in        *)
(* GetContainerPoolResources): any pool it names, or the one its namespace *)
(* gives it, and its native CPU.  A mistake: the pool is looked up among   *)
(* the limits.                                                             *)
PoolsReadFrom(list) ==
  IF PoolsIn(list) # {} THEN PoolsIn(list) ELSE {IF origin = "system" THEN Reserved ELSE Default}

ContainerPoolLimits(n) ==
  [pool : PoolsReadFrom(Patched(n, "limits")), req : {CpuIn(Patched(n, "requests"))}]

ContainerPoolResources(n) ==
  [pool : PoolsReadFrom(Patched(n, "requests")), req : {CpuIn(Patched(n, "requests"))}]

(* What the scheduler counts is what the plugin takes: the requests of an  *)
(* admitted and patched container name the pool the plugin allocates from, *)
(* with the amount it allocates, and no amount of any other pool.  A pod   *)
(* with an amount of zero is left out: the plugin may take that pool for   *)
(* the one to allocate from.                                               *)
TakenIsCounted ==
  verdict = "allowed" /\ ~Exempt /\ Unambiguous =>
    \A n \in DOMAIN pod : \A taken \in ContainerPoolResources(n) : \A pool \in Pool :
      LET requests == Patched(n, "requests")
          counted  == IF pool \in DOMAIN requests THEN Value(requests[pool]) ELSE 0
      IN  counted = IF pool = taken.pool THEN taken.req ELSE 0

=============================================================================
