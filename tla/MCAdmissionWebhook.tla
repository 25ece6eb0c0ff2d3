------------------------- MODULE MCAdmissionWebhook --------------------------
(***************************************************************************)
(* AdmissionWebhook for pods of one container, which may ask for any       *)
(* combination of native CPU and CPU of two pools, and of two containers,  *)
(* the first of which is one of a few.                                     *)
(***************************************************************************)
EXTENDS AdmissionWebhook

CONSTANT A       \* a pool besides the default one

MCPool == {Default, A}

(* Nothing, one or two thousandths of a CPU: what has to agree, does or    *)
(* does not, and nothing at all of a pool is not the same as no entry.     *)
Amounts(name) == CASE name = Cpu -> {0, 1, 2} [] name = Default -> {0, 1000} [] name = A -> {1000, 2000}

Lists(names) == {list \in [names -> 0 .. 2 \cup {1000, 2000}] : \A name \in names : list[name] \in Amounts(name)}

(* The API server fills in requests from limits before it asks a webhook.  *)
Containers(names) ==
  UNION {[requests : Lists(r), limits : UNION {Lists(l) : l \in SUBSET r}] : r \in SUBSET names}

(* One that gets the default pool, one that gets native CPU, one that is   *)
(* complete, one for which the check of the limit panics.                  *)
Same(list) == [requests |-> list, limits |-> list]
FirstContainers ==
  {Same([name \in {Cpu} |-> 1]),
   Same([name \in {A} |-> 1000]),
   Same([name \in {Cpu, A} |-> IF name = Cpu THEN 1 ELSE 1000]),
   [requests |-> [name \in {Cpu, A} |-> IF name = Cpu THEN 1 ELSE 1000], limits |-> [name \in {Cpu} |-> 1]]}

MCPods ==
  LET all == Containers({Cpu} \cup MCPool)
  IN  {<<c>> : c \in all} \cup {<<c, d>> : c \in FirstContainers, d \in all}

=============================================================================
