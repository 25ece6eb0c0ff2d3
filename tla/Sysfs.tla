------------------------------- MODULE Sysfs ---------------------------------
(***************************************************************************)
(* The CPUs of the machine as pkg/sysfs/system.go discovers them, and how  *)
(* it takes them on- and offline.                                          *)
(*                                                                         *)
(* The plugin has two Systems: the one of the pool set, discovered anew    *)
(* with every pool set, and the one of the allocator, discovered once per  *)
(* process when it is needed for the first time.  Linux shows neither the  *)
(* topology of a CPU that is offline nor, among the hyperthreads of a      *)
(* core, those that are: a discovery takes all CPUs online first, and back *)
(* when it ends.  A step is the write, or the reading, of one CPU; any may *)
(* fail.  The plugin runs one operation at a time.                         *)
(*                                                                         *)
(* Clock frequencies, caches (never looked at), the contents of NUMA nodes *)
(* (never asked for) and the formats of the files are left out.            *)
(***************************************************************************)
EXTENDS Allocation

CONSTANTS
  CPU,          \* ids of the CPUs
  ThreadSet,    \* CPU id -> the hyperthreads of its core, itself included
  PackageOf,    \* CPU id -> id of its package
  OfflineSets,  \* sets of CPUs that may be offline when the plugin starts
  DownSets,     \* sets of CPUs configurations want offline (PoolSet.offlined)
  MaxFailures,  \* bound: reads and writes that fail
  Nil, Failed   \* a System not discovered yet, and one that could not be

ASSUME CPUAssumption == CPU \subseteq Nat /\ IsFiniteSet(CPU) /\ 0 \in CPU

ASSUME TopologyAssumption ==
  /\ ThreadSet \in [CPU -> SUBSET CPU]
  /\ \A k \in CPU : k \in ThreadSet[k]
  /\ \A j, k \in CPU : j \in ThreadSet[k] =>
        ThreadSet[j] = ThreadSet[k] /\ PackageOf[j] = PackageOf[k]
  /\ PackageOf \in [CPU -> Nat]

(* Linux does not let go of CPU 0.                                         *)
ASSUME OfflineAssumption ==
  OfflineSets \subseteq SUBSET (CPU \ {0}) /\ DownSets \subseteq SUBSET CPU

ASSUME MaxFailuresAssumption == MaxFailures \in Nat

VARIABLES
  online,    \* the hardware: CPUs whose online file reads 1
  systems,   \* whose -> System
  call,      \* the operation that runs, or Nil
  failures,  \* how many reads and writes have failed
  leaked     \* has a discovery ended without taking CPUs back offline?

sysfsVars == <<online, systems, call, failures, leaked>>

User == {"pools", "allocator"}

(* An operation: whose it is, what it is at, the CPUs its loop has not     *)
(* come to, those it has changed, whether it has failed, which CPUs were   *)
(* online before, and which are to go offline.                             *)
Operation ==
  [user : User, step : {"up", "scan", "restore", "online", "offline"}, left : SUBSET CPU,
   changed : SUBSET CPU, failed : BOOLEAN, before : SUBSET CPU, down : SUBSET CPU]

ASSUME NilAssumption == Nil \notin Operation

EmptyMap    == [k \in {} |-> Nil]
EmptySystem == [cpus |-> EmptyMap, packages |-> EmptyMap, offline |-> {}]

IsKnown(u) == systems[u] \notin {Nil, Failed}

Running(step) == call # Nil /\ call.step = step

InitSysfs ==
  /\ \E down \in OfflineSets : online = CPU \ down
  /\ systems = [u \in User |-> Nil]
  /\ call = Nil
  /\ failures = 0
  /\ leaked = FALSE

-----------------------------------------------------------------------------
(* SetCpusOnline, for one CPU.  CPU 0 is left out.                         *)

(* What a System knows to be offline, once CPU k has changed to v.  A      *)
(* mistake: a CPU that comes online is not noted.                          *)
RecordedDown(sys, k, v) ==
  IF k \in DOMAIN sys.cpus /\ ~v THEN [sys EXCEPT !.offline = @ \cup {k}] ELSE sys

Recorded(sys, k, v) ==
  IF k \notin DOMAIN sys.cpus THEN sys
  ELSE [sys EXCEPT !.offline = IF v THEN @ \ {k} ELSE @ \cup {k}]

(* The file is read before it is written, to see if that makes a           *)
(* difference.  A mistake: it is not.                                      *)
DiffersAlways(k, v) == TRUE
Differs(k, v) == (k \in online) # v

SetOnline(k, v) ==
  LET changes == k # 0 /\ Differs(k, v) IN
  /\ online' = IF k = 0 THEN online ELSE IF v THEN online \cup {k} ELSE online \ {k}
  /\ call' = [call EXCEPT !.left = @ \ {k},
                          !.changed = IF changes THEN @ \cup {k} ELSE @]
  /\ systems' = IF changes THEN [systems EXCEPT ![call.user] = Recorded(@, k, v)] ELSE systems

(* A read or a write fails.                                                *)
Fails ==
  /\ failures < MaxFailures
  /\ failures' = failures + 1

-----------------------------------------------------------------------------
(* DiscoverSystem.  A mistake: only what is online is looked at.           *)

DiscoverOnline(u) ==
  /\ call = Nil
  /\ u = "pools" \/ systems[u] = Nil
  /\ systems' = [systems EXCEPT ![u] = EmptySystem]
  /\ call' = [user |-> u, step |-> "scan", left |-> online, changed |-> {}, failed |-> FALSE,
              before |-> online, down |-> {}]
  /\ UNCHANGED <<online, failures, leaked>>

Discover(u) ==
  /\ call = Nil
  /\ u = "pools" \/ systems[u] = Nil
  /\ systems' = [systems EXCEPT ![u] = EmptySystem]
  /\ call' = [user |-> u, step |-> "up", left |-> CPU, changed |-> {}, failed |-> FALSE,
              before |-> online, down |-> {}]
  /\ UNCHANGED <<online, failures, leaked>>

(* discoverCpus goes through the entries in the order of their names.  If  *)
(* a CPU cannot be taken online, the ones before it stay online.           *)
TakeUp ==
  /\ Running("up") /\ call.left # {}
  /\ \/ /\ SetOnline(Min(call.left), TRUE)
        /\ UNCHANGED <<failures, leaked>>
     \/ /\ Fails /\ Min(call.left) # 0
        /\ systems' = [systems EXCEPT ![call.user] = Failed]
        /\ call' = Nil
        /\ leaked' = (leaked \/ online # call.before)
        /\ UNCHANGED online

AllUp ==
  /\ Running("up") /\ call.left = {}
  /\ call' = [call EXCEPT !.step = "scan", !.left = CPU]
  /\ UNCHANGED <<online, systems, failures, leaked>>

(* discoverCpu: the kernel lists the threads that are online.              *)
CpuEntry(k) == [pkg |-> PackageOf[k], threads |-> ThreadSet[k] \cap online]

Entered(cpus, k) == [j \in DOMAIN cpus \cup {k} |-> IF j = k THEN CpuEntry(k) ELSE cpus[j]]

(* A CPU that cannot be read fails the discovery, but what is deferred is  *)
(* done: the CPUs that were taken online go back.                          *)
ScanCpu ==
  /\ Running("scan") /\ call.left # {}
  /\ LET k == Min(call.left) IN
       \/ /\ systems' = [systems EXCEPT ![call.user].cpus = Entered(@, k)]
          /\ call' = [call EXCEPT !.left = @ \ {k}]
          /\ UNCHANGED failures
       \/ /\ Fails
          /\ call' = [call EXCEPT !.step = "restore", !.left = call.changed, !.failed = TRUE]
          /\ UNCHANGED systems
  /\ UNCHANGED <<online, leaked>>

AllScanned ==
  /\ Running("scan") /\ call.left = {}
  /\ call' = [call EXCEPT !.step = "restore", !.left = call.changed]
  /\ UNCHANGED <<online, systems, failures, leaked>>

(* A failure to take a CPU back offline is ignored, and the rest stay.     *)
TakeDown ==
  /\ Running("restore")
  /\ \/ /\ \E k \in call.left : SetOnline(k, FALSE)
        /\ UNCHANGED <<failures, leaked>>
     \/ /\ call.left # {} /\ Fails
        /\ call' = [call EXCEPT !.left = {}]
        /\ leaked' = TRUE
        /\ UNCHANGED <<online, systems>>

(* discoverPackages.                                                       *)
PackagesOf(cpus) ==
  [p \in {cpus[k].pkg : k \in DOMAIN cpus} |-> {k \in DOMAIN cpus : cpus[k].pkg = p}]

(* The nodes are read in between, which may fail too.                      *)
FinishDiscovery ==
  /\ Running("restore") /\ call.left = {}
  /\ LET sys == systems[call.user] IN
     \/ /\ ~call.failed /\ UNCHANGED failures
        /\ systems' = [systems EXCEPT ![call.user] = [sys EXCEPT !.packages = PackagesOf(sys.cpus)]]
     \/ /\ IF call.failed THEN UNCHANGED failures ELSE Fails
        /\ systems' = [systems EXCEPT ![call.user] = Failed]
  /\ call' = Nil
  /\ UNCHANGED <<online, leaked>>

-----------------------------------------------------------------------------
(* updateCpuOnlineState of the pool set: all CPUs go online, then the ones *)
(* to be offline go off, each in the random order of a map.  A failure     *)
(* leaves the others as they are.                                          *)

UpdateCpuOnlineState(down) ==
  /\ call = Nil /\ IsKnown("pools")
  /\ call' = [user |-> "pools", step |-> "online", left |-> DOMAIN systems["pools"].cpus,
              changed |-> {}, failed |-> FALSE, before |-> online, down |-> down]
  /\ UNCHANGED <<online, systems, failures, leaked>>

Updating == Running("online") \/ Running("offline")

UpdateEntry ==
  /\ Updating
  /\ \/ /\ \E k \in call.left : SetOnline(k, call.step = "online")
        /\ UNCHANGED failures
     \/ /\ call.left \ {0} # {} /\ Fails
        /\ call' = Nil
        /\ UNCHANGED <<online, systems>>
  /\ UNCHANGED leaked

(* A mistake: CPUs that have been offline before are not taken off again.  *)
UpdatedEntriesOnce ==
  /\ Updating /\ call.left = {}
  /\ call' = IF call.step = "online" /\ call.down # {}
               THEN [call EXCEPT !.step = "offline", !.left = call.before \cap call.down] ELSE Nil
  /\ UNCHANGED <<online, systems, failures, leaked>>

UpdatedEntries ==
  /\ Updating /\ call.left = {}
  /\ call' = IF call.step = "online" /\ call.down # {}
               THEN [call EXCEPT !.step = "offline", !.left = call.down] ELSE Nil
  /\ UNCHANGED <<online, systems, failures, leaked>>

NextSysfs ==
  \/ \E u \in User : Discover(u)
  \/ TakeUp \/ AllUp \/ ScanCpu \/ AllScanned \/ TakeDown \/ FinishDiscovery
  \/ \E down \in DownSets : UpdateCpuOnlineState(down)
  \/ UpdateEntry \/ UpdatedEntries

-----------------------------------------------------------------------------
(* Properties                                                              *)

SysfsTypeOK ==
  /\ online \subseteq CPU /\ 0 \in online
  /\ \A u \in User : IsKnown(u) =>
       DOMAIN systems[u].cpus \subseteq CPU /\ systems[u].offline \subseteq CPU
  /\ call \in Operation \cup {Nil}

(* However many CPUs were offline: a System that has been discovered knows *)
(* all of them, all hyperthreads of each, and all of each package.  (With  *)
(* a thread missing, the allocator would take a core for idle that is not, *)
(* and preparing a configuration would leave a sibling online.)            *)
TopologyComplete ==
  \A u \in User : IsKnown(u) /\ (call = Nil \/ call.user # u \/ Updating) =>
    LET sys == systems[u] IN
    /\ DOMAIN sys.cpus = CPU
    /\ \A k \in CPU : /\ sys.cpus[k].threads = ThreadSet[k]
                      /\ sys.packages[PackageOf[k]] = {j \in CPU : PackageOf[j] = PackageOf[k]}

(* The pool set's System knows which CPUs are offline, through updates     *)
(* that fail half way and through the detour of the allocator's discovery, *)
(* unless a discovery could not take the CPUs back offline.                *)
OfflineKnown ==
  call = Nil /\ IsKnown("pools") /\ ~leaked => systems["pools"].offline = CPU \ online

(* A discovery that ends, successful or not, leaves every CPU as it was,   *)
(* unless it failed to take one up or down.                                *)
DiscoveryRestores ==
  [][(Running("up") \/ Running("restore")) /\ call' = Nil /\ ~leaked' =>
       online' = call.before]_sysfsVars

(* An update ends with the CPUs online that it should leave online, or, if *)
(* it failed, with one of the outcomes that module PoolSet reckons with.   *)
UpdateKeepsContract ==
  [][Updating /\ call' = Nil =>
       IF failures' = failures THEN online' = CPU \ (call.down \ {0})
       ELSE online' \in PartlyUpdated(CPU, call.before, call.down)]_sysfsVars

=============================================================================
