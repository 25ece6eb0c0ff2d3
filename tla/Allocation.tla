----------------------------- MODULE Allocation ------------------------------
(***************************************************************************)
(* What pkg/cpuallocator and pkg/sysfs promise to the pool set: the        *)
(* possible results of taking CPUs from a set, and of taking CPUs on- and  *)
(* offline.  Modules CpuAllocator and Sysfs have the algorithms and check  *)
(* that they keep to this, module PoolSet builds on it.                    *)
(***************************************************************************)
EXTENDS Integers, FiniteSets, FiniteSetsExt

(* The CPUs got and the rest of the set, when count CPUs are taken from    *)
(* the set from: all of it when there are no more; otherwise some of the   *)
(* CPUs the allocator believes to be online.  When too few are, nothing is *)
(* got, there is no error, and what was tried has left the set.  No        *)
(* outcome at all is an error.                                             *)
AllocationOutcomes(offline, from, count) ==
  LET usable == from \ offline IN
  IF Cardinality(from) = count THEN {[got |-> from, rest |-> {}]}
  ELSE IF Cardinality(from) < count THEN {}
  ELSE IF Cardinality(usable) < count THEN {[got |-> {}, rest |-> from \ usable]}
  ELSE {[got |-> S, rest |-> from \ S] : S \in kSubset(count, usable)}

(* The CPUs that may be online after an update that fails: some of those   *)
(* that were offline before are not online yet, or some of those to go     *)
(* offline (CPU 0 never does) are not offline yet.                         *)
PartlyUpdated(all, before, down) ==
  {before \cup S : S \in SUBSET (all \ before)} \cup {all \ S : S \in SUBSET (down \ {0})}

=============================================================================
