---------------------------- MODULE ExclusiveCpus ----------------------------
(***************************************************************************)
(* What a pool set promises to those who hold CPUs exclusively: an         *)
(* abstract specification that module PoolSet implements, without shared   *)
(* CPUs, configurations or hardware.                                       *)
(*                                                                         *)
(* A container gets CPUs that nobody else of its pool holds, and keeps     *)
(* exactly these until it is released, until its pool goes, or until       *)
(* everybody is to get other CPUs.  Then everybody gets as many as before, *)
(* of the same pool, before anybody new gets any.  If that fails, the      *)
(* promise is broken for good: the code drops the error.                   *)
(***************************************************************************)
EXTENDS Integers, FiniteSets

CONSTANTS
  CPU,        \* ids of the CPUs
  Container,  \* container ids
  Pool        \* names of pools

VARIABLES
  held,   \* container -> the pool and the CPUs it holds there
  owed,   \* container -> the pool and the number of CPUs it is to get again
  broken  \* is the promise broken?

vars == <<held, owed, broken>>

Nothing   == [id \in {} |-> {}]
Only(ids) == [id \in ids |-> held[id]]

Init == held = Nothing /\ owed = Nothing /\ broken = FALSE

Take(id) ==
  LET took == held'[id] IN
  /\ ~broken
  /\ DOMAIN held' = DOMAIN held \cup {id}
  /\ \A other \in DOMAIN held : held'[other] = held[other]
  /\ took \in [pool : Pool, cpus : (SUBSET CPU) \ {{}}]
  /\ \A other \in DOMAIN held : held[other].pool = took.pool => held[other].cpus \cap took.cpus = {}
  /\ owed # Nothing =>
       id \in DOMAIN owed /\ owed[id] = [pool |-> took.pool, count |-> Cardinality(took.cpus)]
  /\ owed' = [i \in DOMAIN owed \ {id} |-> owed[i]]
  /\ UNCHANGED broken

(* A container gets nothing of what it is owed: the allocator overrates    *)
(* what is online, and does not say so.                                    *)
Miss(id) ==
  /\ owed' = [i \in DOMAIN owed \ {id} |-> owed[i]]
  /\ UNCHANGED <<held, broken>>

(* One container at most is released, and pools may go at the same time.   *)
AtMostOne == {{}} \cup {{id} : id \in Container}

Lose(released, gone) ==
  /\ ~broken /\ owed = Nothing
  /\ held' = Only({id \in DOMAIN held \ released : held[id].pool \notin gone})
  /\ UNCHANGED <<owed, broken>>

(* Everybody is to get other CPUs.  Those whose pool had gone come back.   *)
Reset(released) ==
  /\ ~broken /\ owed = Nothing
  /\ held' = Nothing
  /\ DOMAIN held \ released \subseteq DOMAIN owed' /\ DOMAIN owed' \subseteq Container \ released
  /\ \A id \in DOMAIN held \ released :
       owed'[id] = [pool |-> held[id].pool, count |-> Cardinality(held[id].cpus)]
  /\ UNCHANGED broken

Break ==
  /\ ~broken /\ owed # Nothing
  /\ held' = Nothing /\ owed' = Nothing
  /\ broken' = TRUE

Next ==
  \/ \E id \in Container \ DOMAIN held : Take(id)
  \/ \E id \in DOMAIN owed : Miss(id)
  \/ \E released \in AtMostOne :
        Reset(released) \/ \E gone \in SUBSET {held[id].pool : id \in DOMAIN held} : Lose(released, gone)
  \/ Break

Spec == Init /\ [][Next]_vars

=============================================================================
