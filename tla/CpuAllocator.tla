---------------------------- MODULE CpuAllocator -----------------------------
(***************************************************************************)
(* The CPU allocator of pkg/cpuallocator/allocator.go: one call of         *)
(* allocateCpus, which takes cnt CPUs from the set from.  It prefers whole *)
(* idle packages, then whole idle cores, then single threads, and goes     *)
(* through the candidates of a stage in order, taking what fits.           *)
(*                                                                         *)
(* A step is one round of the loop of a stage, or the change to the next   *)
(* stage.  The order of the threads comes from sort.Slice with a           *)
(* comparison that may put two threads before each other, on ids in the    *)
(* random order of a map: any order in which every thread comes before its *)
(* successor is possible (an insertion sort, which Go uses for fewer than  *)
(* 12 elements, yields no other).                                          *)
(*                                                                         *)
(* What the allocator knows of the hardware is in a System of module Sysfs *)
(* that is discovered once; calls come between the operations of Sysfs.    *)
(***************************************************************************)
EXTENDS Sysfs, Sequences, Functions

VARIABLES
  asked,      \* the call: the set to take from and the number to take
  from,       \* CpuAllocator.from: what has not been taken
  cnt,        \* CpuAllocator.cnt: how many are still wanted
  result,     \* CpuAllocator.result: what has been taken
  stage,      \* "idle", "call", "packages", "cores", "threads", "done", or "panic"
  candidates  \* sets of CPUs the loop of the stage has yet to consider

callVars == <<asked, from, cnt, result, stage, candidates>>
vars     == <<callVars, sysfsVars>>

(* NewCpuAllocator: the System, from which the sets of the packages and    *)
(* the cores come.                                                         *)
Sys == systems["allocator"]

offline         == IF IsKnown("allocator") THEN Sys.offline ELSE {}
PackageSet(pkg) == Sys.packages[pkg]
CoreSet(k)      == Sys.cpus[k].threads
PackageId(k)    == Sys.cpus[k].pkg

NoCall == [from |-> {}, cnt |-> 0]

TypeOK ==
  /\ SysfsTypeOK
  /\ asked \in [from: SUBSET CPU, cnt: Nat]
  /\ from \subseteq asked.from
  /\ result \subseteq asked.from
  /\ cnt \in 0 .. asked.cnt
  /\ stage \in {"idle", "call", "packages", "cores", "threads", "done", "panic"}
  /\ candidates \in Seq(SUBSET CPU)

Init ==
  /\ InitSysfs
  /\ asked = NoCall
  /\ from = {}
  /\ cnt = 0
  /\ result = {}
  /\ stage = "idle"
  /\ candidates = <<>>

-----------------------------------------------------------------------------
(* The candidates of each stage, in order.                                 *)

(* All of its online CPUs can be taken.  A mistake: the offline ones have  *)
(* to be there too.                                                        *)
IdleWithOffline(cset) == cset \subseteq from
Idle(cset) == cset \ offline \subseteq from

(* Ids sorted: the n-th has n - 1 before it.                               *)
InOrder(ids) ==
  [n \in 1 .. Cardinality(ids) |-> CHOOSE k \in ids : Cardinality({j \in ids : j < k}) = n - 1]

IdlePackages ==
  LET pkgs == InOrder({pkg \in DOMAIN Sys.packages : Idle(PackageSet(pkg))}) IN
  [n \in DOMAIN pkgs |-> PackageSet(pkgs[n]) \ offline]

(* A core goes by the first of its online threads.                         *)
IdleCores ==
  LET cores == InOrder({k \in DOMAIN Sys.cpus : Idle(CoreSet(k)) /\ k = Min(CoreSet(k) \ offline)}) IN
  [n \in DOMAIN cores |-> CoreSet(cores[n]) \ offline]

DeadCore == \E k \in DOMAIN Sys.cpus : CoreSet(k) \subseteq offline

Threads == from \ offline

(* The comparison of two threads: each line of it that holds decides, and  *)
(* one that speaks for the other thread does not.                          *)
Comparable(i, j) ==
  LET taken(k)    == Cardinality(PackageSet(PackageId(k)) \cap result)
      leftPkg(k)  == Cardinality(PackageSet(PackageId(k)) \cap from)
      leftCore(k) == Cardinality(CoreSet(k) \cap from)
  IN  \/ taken(i) > taken(j)
      \/ leftPkg(i) < leftPkg(j)
      \/ leftCore(i) < leftCore(j)
      \/ PackageId(i) < PackageId(j)
      \/ i < j

(* The threads the last loop goes through before it breaks.                *)
ThreadOrders ==
  LET n == IF cnt < Cardinality(Threads) THEN cnt ELSE Cardinality(Threads) IN
  {s \in [1 .. n -> Threads] :
     /\ IsInjective(s)
     /\ \A m \in 1 .. n - 1 : Comparable(s[m], s[m + 1])}

-----------------------------------------------------------------------------
(* Actions                                                                 *)

(* A call comes between the operations on the hardware.  The first that    *)
(* needs the System begins with its discovery, which does not depend on    *)
(* what is asked: here it comes just before.  Bound: calls after a failure *)
(* that has not hit the allocator are as those before it, and left out.    *)
Call ==
  /\ stage = "idle" /\ call = Nil
  /\ failures = 0 \/ systems["allocator"] = Failed
  /\ asked' \in [from: SUBSET CPU, cnt: 1 .. Cardinality(CPU)]
  /\ systems["allocator"] # Nil \/ Cardinality(asked'.from) <= asked'.cnt
  /\ from' = asked'.from
  /\ cnt' = asked'.cnt
  /\ stage' = "call"
  /\ UNCHANGED <<sysfsVars, result, candidates>>

(* allocateCpus: an error, the whole set, or the work of an allocator.     *)
TooFew ==
  /\ stage = "call" /\ Cardinality(from) < cnt
  /\ stage' = "done"
  /\ UNCHANGED <<sysfsVars, asked, from, cnt, result, candidates>>

TakeAll ==
  /\ stage = "call" /\ Cardinality(from) = cnt
  /\ stage' = "done"
  /\ result' = from
  /\ from' = {}
  /\ UNCHANGED <<sysfsVars, asked, cnt, candidates>>

(* The discovery is tried once and for all.  If it has failed, there is no *)
(* allocator, which is a nil dereference.                                  *)
StartPackages ==
  /\ stage = "call" /\ Cardinality(from) > cnt
  /\ IF IsKnown("allocator") THEN stage' = "packages" /\ candidates' = IdlePackages
                             ELSE stage' = "panic" /\ UNCHANGED candidates
  /\ UNCHANGED <<sysfsVars, asked, from, cnt, result>>

(* One round of a loop.  Three mistakes: a set is taken whatever its size, *)
(* or not if it is just what is wanted, or the loop does not move on when  *)
(* a set is too big.                                                       *)
ConsiderUnchecked ==
  LET cset == Head(candidates) IN
  /\ candidates # <<>>
  /\ result' = result \cup cset
  /\ from' = from \ cset
  /\ cnt' = cnt - Cardinality(cset)
  /\ candidates' = IF cnt' = 0 THEN <<>> ELSE Tail(candidates)
  /\ UNCHANGED <<sysfsVars, asked, stage>>

ConsiderStrictly ==
  LET cset == Head(candidates) IN
  /\ candidates # <<>>
  /\ IF cnt > Cardinality(cset) \/ stage = "threads"
       THEN /\ result' = result \cup cset
            /\ from' = from \ cset
            /\ cnt' = cnt - Cardinality(cset)
            /\ candidates' = IF cnt' = 0 THEN <<>> ELSE Tail(candidates)
       ELSE candidates' = Tail(candidates) /\ UNCHANGED <<from, cnt, result>>
  /\ UNCHANGED <<sysfsVars, asked, stage>>

ConsiderForever ==
  LET cset == Head(candidates) IN
  /\ candidates # <<>>
  /\ IF cnt >= Cardinality(cset)
       THEN /\ result' = result \cup cset
            /\ from' = from \ cset
            /\ cnt' = cnt - Cardinality(cset)
            /\ candidates' = IF cnt' = 0 THEN <<>> ELSE Tail(candidates)
       ELSE UNCHANGED <<from, cnt, result, candidates>>
  /\ UNCHANGED <<sysfsVars, asked, stage>>

Consider ==
  LET cset == Head(candidates) IN
  /\ candidates # <<>>
  /\ IF cnt >= Cardinality(cset)
       THEN /\ result' = result \cup cset
            /\ from' = from \ cset
            /\ cnt' = cnt - Cardinality(cset)
            /\ candidates' = IF cnt' = 0 THEN <<>> ELSE Tail(candidates)
       ELSE candidates' = Tail(candidates) /\ UNCHANGED <<from, cnt, result>>
  /\ UNCHANGED <<sysfsVars, asked, stage>>

(* A loop ends with as many CPUs as were asked for.                        *)
Finish ==
  /\ stage \in {"packages", "cores", "threads"}
  /\ candidates = <<>> /\ cnt = 0
  /\ stage' = "done"
  /\ UNCHANGED <<sysfsVars, asked, from, cnt, result, candidates>>

(* Picking the idle cores asks a core without online threads for its first *)
(* one, which is out of range.                                             *)
StartCores ==
  /\ stage = "packages" /\ candidates = <<>> /\ cnt > 0
  /\ IF DeadCore THEN stage' = "panic" /\ UNCHANGED candidates
                 ELSE stage' = "cores" /\ candidates' = IdleCores
  /\ UNCHANGED <<sysfsVars, asked, from, cnt, result>>

StartThreads ==
  /\ stage = "cores" /\ candidates = <<>> /\ cnt > 0
  /\ stage' = "threads"
  /\ \E s \in ThreadOrders : candidates' = [n \in DOMAIN s |-> {s[n]}]
  /\ UNCHANGED <<sysfsVars, asked, from, cnt, result>>

(* There are too few threads: nothing is returned, and what was taken      *)
(* stays out of the set.  A mistake: it is returned.                       *)
GiveUpWithSome ==
  /\ stage = "threads" /\ candidates = <<>> /\ cnt > 0
  /\ stage' = "done"
  /\ UNCHANGED <<sysfsVars, asked, from, cnt, result, candidates>>

GiveUp ==
  /\ stage = "threads" /\ candidates = <<>> /\ cnt > 0
  /\ stage' = "done"
  /\ result' = {}
  /\ UNCHANGED <<sysfsVars, asked, from, cnt, candidates>>

Return ==
  /\ stage = "done"
  /\ asked' = NoCall
  /\ from' = {} /\ cnt' = 0 /\ result' = {}
  /\ stage' = "idle"
  /\ UNCHANGED <<sysfsVars, candidates>>

Hardware ==
  /\ stage = "idle"
  /\ NextSysfs
  /\ UNCHANGED callVars

AllocatorStep ==
  \/ TooFew \/ TakeAll \/ StartPackages
  \/ Consider \/ Finish
  \/ StartCores \/ StartThreads \/ GiveUp
  \/ Return

Next == Hardware \/ Call \/ AllocatorStep

(* A call runs in one thread, which nothing else holds up.                 *)
Spec == Init /\ [][Next]_vars /\ WF_vars(AllocatorStep)

-----------------------------------------------------------------------------
(* Properties                                                              *)

(* A call that comes to its end has one of the outcomes that the pool set  *)
(* reckons with, or was refused because the set is too small, which leaves *)
(* the set alone (allocateCpus, allocator.go:338).                         *)
KeepsContract ==
  stage = "done" =>
    LET outcomes == AllocationOutcomes(offline, asked.from, asked.cnt) IN
    IF outcomes = {} THEN result = {} /\ from = asked.from
                     ELSE [got |-> result, rest |-> from] \in outcomes

(* At most one core that was free as a whole is split by a call that takes *)
(* from a bigger set, when cores have at most two threads: the threads     *)
(* taken one by one come from cores that were in use already (preferring   *)
(* idle cores, allocator.go:228-242, makes an exclusive container share    *)
(* few cores with others).                                                 *)
FreeCores == {ThreadSet[k] \ offline : k \in {j \in CPU : ThreadSet[j] \ offline \subseteq asked.from}}

AtMostOneCoreSplit ==
  stage = "done" =>
    Cardinality({core \in FreeCores : core \cap result \notin {{}, core}}) <= 1

(* A call of which a whole free package can be a part gets one.            *)
FreePackages == {p \in {{j \in CPU : PackageOf[j] = PackageOf[k]} \ offline : k \in CPU} : p # {} /\ p \subseteq asked.from}

PackageWhenPossible ==
  /\ stage = "done" /\ result # {}
  /\ \E p \in FreePackages : Cardinality(p) <= asked.cnt
  => \E p \in FreePackages : p \subseteq result

(* A call ends, unless the hardware could not be discovered or a core has  *)
(* no thread online, which makes it panic.                                 *)
CallEnds ==
  stage = "call" ~>
    stage = "idle" \/ (stage = "panic" /\ (systems["allocator"] = Failed \/ DeadCore))

=============================================================================
