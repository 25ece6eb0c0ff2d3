-------------------------- MODULE CpuAllocatorProofs -------------------------
(***************************************************************************)
(* The hardware and the calls of the allocator, for any machine, whatever  *)
(* is offline at first and however many accesses fail: both Systems know   *)
(* what they should, updates and allocations end as module PoolSet reckons *)
(* with, and packages and cores are taken whole when they can be.          *)
(*                                                                         *)
(* HardwareInv says for every step of an operation what it has done so     *)
(* far; CallInv does for the stages of a call, which PackageInv and        *)
(* CoreInv add to.                                                         *)
(***************************************************************************)
EXTENDS CpuAllocator, SumTheorems, SequenceTheorems

(* The loops of SetCpusOnline and discoverCpus come to an entry they have. *)
LEMMA MinIn == \A S \in SUBSET CPU : S # {} => Min(S) \in S
<1> SUFFICES ASSUME NEW S \in SUBSET CPU, S # {} PROVE Min(S) \in S
  OBVIOUS
<1>1. \E n \in S : \A m \in S : n <= m
  BY LeastNat, CPUAssumption
<1> QED BY <1>1 DEF Min

-----------------------------------------------------------------------------
(* The hardware.  What is read of a CPU when all are online, and a System  *)
(* that has been read in full.                                             *)

FullEntry(k) == [pkg |-> PackageOf[k], threads |-> ThreadSet[k]]

Entries(S) == [k \in S |-> FullEntry(k)]

IsSystem(s) ==
  s = [cpus |-> s.cpus, packages |-> s.packages, offline |-> s.offline] /\ s.offline \subseteq CPU

Complete(s) ==
  IsSystem(s) /\ s.cpus = Entries(CPU) /\ s.packages = PackagesOf(Entries(CPU))

(* The variables.                                                          *)
Shape ==
  /\ online \in SUBSET CPU /\ 0 \in online
  /\ systems = [u \in User |-> systems[u]]
  /\ call \in Operation \cup {Nil}
  /\ failures \in Nat

(* A System that is not being built is complete.                           *)
Building(u) == call # Nil /\ call.user = u /\ ~Updating

Settled == \A u \in User : IsKnown(u) /\ ~Building(u) => Complete(systems[u])

(* The System of the pool set knows what is offline, or was before the     *)
(* allocator's discovery.                                                  *)
Known ==
  IsKnown("pools") /\ ~leaked =>
    /\ call = Nil => systems["pools"].offline = CPU \ online
    /\ call # Nil /\ call.user = "allocator" => systems["pools"].offline = CPU \ call.before

(* A discovery that has taken the CPUs that are not left online, ...       *)
AtUp ==
  Running("up") =>
    /\ systems[call.user] = EmptySystem
    /\ CPU \ call.left \subseteq online /\ call.before \subseteq online
    /\ call.changed = online \ call.before
    /\ 0 \in call.before
    /\ ~call.failed

(* ... that has read them, ...                                             *)
AtScan ==
  Running("scan") =>
    /\ IsSystem(systems[call.user]) /\ systems[call.user].offline = {}
    /\ systems[call.user].cpus = Entries(CPU \ call.left)
    /\ online = CPU
    /\ call.changed = CPU \ call.before
    /\ 0 \in call.before
    /\ ~call.failed

(* ... and that has taken those that are not left back.                    *)
AtRestore ==
  Running("restore") =>
    /\ IsSystem(systems[call.user]) /\ DOMAIN systems[call.user].cpus \subseteq CPU
    /\ ~call.failed => systems[call.user].cpus = Entries(CPU)
    /\ call.changed = CPU \ call.before
    /\ call.left \subseteq call.changed
    /\ 0 \in call.before
    /\ ~leaked => online = CPU \ (call.changed \ call.left)
    /\ ~leaked /\ ~call.failed => systems[call.user].offline = call.changed \ call.left

(* An update that has come to the CPUs that are not left.                  *)
AtUpdate ==
  Updating =>
    /\ call.user = "pools" /\ Complete(systems["pools"])
    /\ ~leaked => systems["pools"].offline = CPU \ online
    /\ Running("online") => call.before \subseteq online /\ CPU \ call.left \subseteq online
    /\ Running("offline") => /\ call.left \subseteq call.down
                             /\ online = CPU \ ((call.down \ call.left) \ {0})

HardwareInv == Shape /\ Settled /\ Known /\ AtUp /\ AtScan /\ AtRestore /\ AtUpdate

(* What one write does to the operation and to its System.                 *)
LEMMA SetOnlineStep ==
  ASSUME Shape, call # Nil, NEW k \in call.left, NEW v \in BOOLEAN, SetOnline(k, v),
         IsSystem(systems[call.user]),
         UNCHANGED leaked, failures' = failures
  PROVE  /\ Shape'
         /\ call' # Nil
         /\ call'.user = call.user /\ call'.step = call.step
         /\ call'.left = call.left \ {k}
         /\ call'.changed = call.changed \cup (IF k # 0 /\ (k \in online) # v THEN {k} ELSE {})
         /\ call'.failed = call.failed /\ call'.before = call.before /\ call'.down = call.down
         /\ online' = IF k = 0 THEN online ELSE IF v THEN online \cup {k} ELSE online \ {k}
         /\ \A u \in User : u # call.user => systems'[u] = systems[u]
         /\ IsSystem(systems'[call.user])
         /\ systems'[call.user].cpus = systems[call.user].cpus
         /\ systems'[call.user].packages = systems[call.user].packages
         /\ systems'[call.user].offline =
              IF k # 0 /\ (k \in online) # v /\ k \in DOMAIN systems[call.user].cpus
                THEN IF v THEN systems[call.user].offline \ {k} ELSE systems[call.user].offline \cup {k}
                ELSE systems[call.user].offline
<1> DEFINE changes == k # 0 /\ (k \in online) # v
           more == IF changes THEN call.changed \cup {k} ELSE call.changed
           sys == systems[call.user]
<1>1. call \in Operation /\ k \in CPU /\ call.user \in User
  BY DEF Shape, Operation
<1>2. call' = [call EXCEPT !.left = @ \ {k}, !.changed = more]
  BY DEF SetOnline, Differs
<1> HIDE DEF more
<1>3. more \in SUBSET CPU
  BY <1>1 DEF more, Operation
<1>4. /\ call' \in Operation
      /\ call'.user = call.user /\ call'.step = call.step
      /\ call'.left = call.left \ {k} /\ call'.changed = more
      /\ call'.failed = call.failed /\ call'.before = call.before /\ call'.down = call.down
  BY <1>1, <1>2, <1>3 DEF Operation
<1>5. call' # Nil
  BY <1>4, NilAssumption
<1>6. online' = IF k = 0 THEN online ELSE IF v THEN online \cup {k} ELSE online \ {k}
  BY DEF SetOnline
<1>7. online' \in SUBSET CPU /\ 0 \in online'
  BY <1>1, <1>6 DEF Shape
<1>8. systems' = [u \in User |-> IF u = call.user /\ changes THEN Recorded(sys, k, v) ELSE systems[u]]
  <2>1. systems' = IF changes THEN [systems EXCEPT ![call.user] = Recorded(@, k, v)] ELSE systems
    BY DEF SetOnline, Differs
  <2>2. systems = [u \in User |-> systems[u]]
    BY DEF Shape
  <2> HIDE DEF changes
  <2> QED BY <1>1, <2>1, <2>2
<1>9. systems' = [u \in User |-> systems'[u]]
  BY <1>8
<1>10. Shape'
  BY <1>4, <1>7, <1>9 DEF Shape
<1>11. /\ IsSystem(Recorded(sys, k, v))
       /\ Recorded(sys, k, v).cpus = sys.cpus /\ Recorded(sys, k, v).packages = sys.packages
       /\ Recorded(sys, k, v).offline =
            IF k \in DOMAIN sys.cpus
              THEN IF v THEN sys.offline \ {k} ELSE sys.offline \cup {k} ELSE sys.offline
  <2> HIDE DEF sys
  <2>1. IsSystem(sys)
    BY DEF sys
  <2>2. Recorded(sys, k, v) =
          [cpus |-> sys.cpus, packages |-> sys.packages,
           offline |-> IF k \in DOMAIN sys.cpus
              THEN IF v THEN sys.offline \ {k} ELSE sys.offline \cup {k} ELSE sys.offline]
    BY <2>1 DEF Recorded, IsSystem
  <2> QED BY <1>1, <2>1, <2>2 DEF IsSystem
<1>12. systems'[call.user] = IF changes THEN Recorded(sys, k, v) ELSE sys
  BY <1>1, <1>8
<1>13. \A u \in User : u # call.user => systems'[u] = systems[u]
  BY <1>8
<1> QED BY <1>4, <1>5, <1>6, <1>10, <1>11, <1>12, <1>13 DEF more

(* An operation is in one place only.                                      *)
LEMMA OnePlace ==
  /\ Running("up") => ~Running("scan") /\ ~Running("restore") /\ ~Updating
  /\ Running("scan") => ~Running("up") /\ ~Running("restore") /\ ~Updating
  /\ Running("restore") => ~Running("up") /\ ~Running("scan") /\ ~Updating
  /\ Updating => ~Running("up") /\ ~Running("scan") /\ ~Running("restore")
BY DEF Running, Updating

LEMMA DiscoverInv ==
  ASSUME HardwareInv, NEW u \in User, Discover(u)
  PROVE  HardwareInv'
<1> USE DEF HardwareInv
<1>1. /\ call = Nil
      /\ systems' = [systems EXCEPT ![u] = EmptySystem]
      /\ call' = [user |-> u, step |-> "up", left |-> CPU, changed |-> {}, failed |-> FALSE,
                  before |-> online, down |-> {}]
      /\ UNCHANGED <<online, failures, leaked>>
  BY DEF Discover
<1>2. call' \in Operation /\ call' # Nil
  <2>1. call' \in Operation
    BY <1>1 DEF Operation, Shape
  <2> QED BY <2>1, NilAssumption
<1>3. systems' = [w \in User |-> IF w = u THEN EmptySystem ELSE systems[w]]
  BY <1>1 DEF Shape
<1>4. Shape'
  BY <1>1, <1>2, <1>3 DEF Shape
<1>5. Running("up")' /\ ~Running("scan")' /\ ~Running("restore")' /\ ~Updating'
  BY <1>1, <1>2 DEF Running, Updating
<1>6. Settled'
  BY <1>1, <1>2, <1>3, <1>5 DEF Settled, Building, IsKnown
<1>7. Known'
  BY <1>1, <1>2, <1>3 DEF Known, IsKnown, User
<1>8. AtUp'
  BY <1>1, <1>3 DEF AtUp, Shape
<1> QED BY <1>4, <1>5, <1>6, <1>7, <1>8 DEF AtScan, AtRestore, AtUpdate

LEMMA TakeUpInv ==
  ASSUME HardwareInv, TakeUp
  PROVE  HardwareInv'
<1> USE DEF HardwareInv
<1> DEFINE k == Min(call.left)
<1>1. Running("up") /\ call # Nil /\ call.step = "up" /\ call.left # {} /\ ~Updating
  BY OnePlace DEF TakeUp, Running
<1>2. call \in Operation /\ call.left \subseteq CPU /\ call.user \in User
  BY <1>1 DEF Shape, Operation
<1>3. k \in call.left
  BY <1>1, <1>2, MinIn
<1> HIDE DEF k
<1>4. CASE SetOnline(k, TRUE) /\ UNCHANGED <<failures, leaked>>
  <2>1. IsSystem(systems[call.user]) /\ DOMAIN systems[call.user].cpus = {}
    BY <1>1 DEF AtUp, IsSystem, EmptySystem, EmptyMap
  <2>2. /\ Shape' /\ call' # Nil
        /\ call'.user = call.user /\ call'.step = call.step /\ call'.left = call.left \ {k}
        /\ call'.changed = call.changed \cup (IF k # 0 /\ (k \in online) # TRUE THEN {k} ELSE {})
        /\ call'.failed = call.failed /\ call'.before = call.before
        /\ online' = IF k = 0 THEN online ELSE online \cup {k}
        /\ \A u \in User : u # call.user => systems'[u] = systems[u]
    BY <1>1, <1>3, <1>4, <2>1, SetOnlineStep
  <2>3. systems'[call.user] = systems[call.user]
    <3>1. Recorded(systems[call.user], k, TRUE) = systems[call.user]
      BY <2>1 DEF Recorded
    <3> QED BY <1>2, <1>4, <3>1 DEF SetOnline, Shape
  <2>4. Running("up")' /\ ~Running("scan")' /\ ~Running("restore")' /\ ~Updating'
    BY <1>1, <2>2 DEF Running, Updating
  <2>5. \A u \in User : systems'[u] = systems[u]
    BY <2>2, <2>3
  <2>6. Settled'
    BY <1>1, <2>2, <2>4, <2>5 DEF Settled, Building, IsKnown
  <2>7. Known'
    BY <1>1, <1>4, <2>2, <2>5 DEF Known, IsKnown, User
  <2>8. AtUp'
    BY <1>1, <1>2, <2>2, <2>3 DEF AtUp, Shape
  <2> QED BY <2>2, <2>4, <2>6, <2>7, <2>8 DEF AtScan, AtRestore, AtUpdate
<1>5. CASE /\ Fails
           /\ systems' = [systems EXCEPT ![call.user] = Failed]
           /\ call' = Nil
           /\ leaked' = (leaked \/ online # call.before)
           /\ UNCHANGED online
  <2>1. systems' = [u \in User |-> IF u = call.user THEN Failed ELSE systems[u]]
    BY <1>5 DEF Shape
  <2>2. Shape'
    BY <1>5, <2>1 DEF Shape, Fails
  <2>3. Settled'
    BY <1>1, <1>5, <2>1 DEF Settled, Building, IsKnown
  <2>4. Known'
    BY <1>1, <1>2, <1>5, <2>1 DEF Known, IsKnown, User
  <2>5. ~Running("up")' /\ ~Running("scan")' /\ ~Running("restore")' /\ ~Updating'
    BY <1>5 DEF Running, Updating
  <2> QED BY <2>2, <2>3, <2>4, <2>5 DEF AtUp, AtScan, AtRestore, AtUpdate
<1> QED BY <1>4, <1>5 DEF TakeUp, k

LEMMA AllUpInv ==
  ASSUME HardwareInv, AllUp
  PROVE  HardwareInv'
<1> USE DEF HardwareInv
<1>1. Running("up") /\ call # Nil /\ call \in Operation /\ call.left = {} /\ ~Updating
  BY OnePlace DEF AllUp, Running, Shape
<1>2. UNCHANGED <<online, systems, failures, leaked>>
  BY DEF AllUp
<1>3. /\ call' \in Operation
      /\ call'.step = "scan" /\ call'.left = CPU /\ call'.user = call.user
      /\ call'.changed = call.changed /\ call'.failed = call.failed /\ call'.before = call.before
  BY <1>1 DEF AllUp, Operation
<1>4. call' # Nil
  BY <1>3, NilAssumption
<1>5. ~Running("up")' /\ ~Running("restore")' /\ ~Updating'
  BY <1>3 DEF Running, Updating
<1>6. Shape'
  BY <1>2, <1>3 DEF Shape
<1>7. Settled'
  BY <1>1, <1>2, <1>3, <1>4, <1>5 DEF Settled, Building, IsKnown
<1>8. Known'
  BY <1>1, <1>2, <1>3, <1>4 DEF Known, IsKnown
<1>9. AtScan'
  <2>1. online = CPU
    BY <1>1 DEF AtUp, Shape
  <2>2. systems[call.user] = EmptySystem
    BY <1>1 DEF AtUp
  <2>3. /\ IsSystem(EmptySystem) /\ EmptySystem.offline = {}
        /\ EmptySystem.cpus = Entries(CPU \ CPU)
    BY DEF IsSystem, EmptySystem, EmptyMap, Entries
  <2> QED BY <1>1, <1>2, <1>3, <2>1, <2>2, <2>3 DEF AtUp, AtScan
<1> QED BY <1>5, <1>6, <1>7, <1>8, <1>9 DEF AtUp, AtRestore, AtUpdate

LEMMA ScanCpuInv ==
  ASSUME HardwareInv, ScanCpu
  PROVE  HardwareInv'
<1> USE DEF HardwareInv
<1> DEFINE k == Min(call.left)
           sys == systems[call.user]
<1>1. Running("scan") /\ call # Nil /\ call \in Operation /\ call.left # {} /\ ~Updating
  BY OnePlace DEF ScanCpu, Running, Shape
<1>2. UNCHANGED <<online, leaked>>
  BY DEF ScanCpu
<1>3. k \in call.left /\ k \in CPU /\ call.user \in User
  <2>1. call.left \in SUBSET CPU /\ call.user \in User
    BY <1>1 DEF Operation
  <2> QED BY <1>1, <2>1, MinIn
<1> HIDE DEF k
<1>4. /\ IsSystem(sys) /\ sys.offline = {} /\ sys.cpus = Entries(CPU \ call.left) /\ online = CPU
      /\ call.changed = CPU \ call.before /\ 0 \in call.before /\ ~call.failed
  BY <1>1 DEF AtScan
<1>5. CASE /\ systems' = [systems EXCEPT ![call.user].cpus = Entered(@, k)]
           /\ call' = [call EXCEPT !.left = @ \ {k}]
           /\ UNCHANGED failures
  <2>1. /\ call' \in Operation
        /\ call'.step = "scan" /\ call'.left = call.left \ {k} /\ call'.user = call.user
        /\ call'.changed = call.changed /\ call'.failed = call.failed /\ call'.before = call.before
    BY <1>1, <1>5 DEF Operation, Running
  <2>2. call' # Nil
    BY <2>1, NilAssumption
  <2>3. ~Running("up")' /\ ~Running("restore")' /\ ~Updating'
    BY <2>1 DEF Running, Updating
  <2>4. CpuEntry(k) = FullEntry(k)
    BY <1>3, <1>4, TopologyAssumption DEF CpuEntry, FullEntry
  <2>5. Entered(Entries(CPU \ call.left), k) = Entries(CPU \ (call.left \ {k}))
    BY <1>3, <2>4 DEF Entered, Entries
  <2>6. systems' = [u \in User |-> IF u = call.user
                     THEN [cpus |-> Entered(sys.cpus, k), packages |-> sys.packages, offline |-> sys.offline]
                     ELSE systems[u]]
    <3>1. systems = [u \in User |-> systems[u]]
      BY DEF Shape
    <3>2. [sys EXCEPT !.cpus = Entered(@, k)] =
            [cpus |-> Entered(sys.cpus, k), packages |-> sys.packages, offline |-> sys.offline]
      BY <1>4 DEF IsSystem
    <3>3. systems' = [systems EXCEPT ![call.user] = [sys EXCEPT !.cpus = Entered(@, k)]]
      BY <1>5
    <3> QED BY <3>1, <3>2, <3>3
  <2>7. /\ systems'[call.user].cpus = Entries(CPU \ (call.left \ {k}))
        /\ systems'[call.user].offline = {} /\ IsSystem(systems'[call.user])
    BY <1>3, <1>4, <2>5, <2>6 DEF IsSystem
  <2>8. \A u \in User : u # call.user => systems'[u] = systems[u]
    BY <2>6
  <2>9. Shape'
    BY <1>2, <1>5, <2>1, <2>6 DEF Shape
  <2>10. Settled'
    BY <1>1, <2>1, <2>2, <2>3, <2>8 DEF Settled, Building, IsKnown
  <2>11. Known'
    BY <1>1, <1>2, <2>1, <2>2, <2>8 DEF Known, IsKnown, User
  <2>12. AtScan'
    BY <1>2, <1>4, <2>1, <2>7 DEF AtScan
  <2> QED BY <2>3, <2>9, <2>10, <2>11, <2>12 DEF AtUp, AtRestore, AtUpdate
<1>6. CASE /\ Fails
           /\ call' = [call EXCEPT !.step = "restore", !.left = call.changed, !.failed = TRUE]
           /\ UNCHANGED systems
  <2>1. /\ call' \in Operation
        /\ call'.step = "restore" /\ call'.left = call.changed /\ call'.user = call.user
        /\ call'.changed = call.changed /\ call'.failed = TRUE /\ call'.before = call.before
    BY <1>1, <1>6 DEF Operation
  <2>2. call' # Nil
    BY <2>1, NilAssumption
  <2>3. ~Running("up")' /\ ~Running("scan")' /\ ~Updating'
    BY <2>1 DEF Running, Updating
  <2>4. Shape'
    BY <1>2, <1>6, <2>1 DEF Shape, Fails
  <2>5. Settled'
    BY <1>1, <1>6, <2>1, <2>2, <2>3 DEF Settled, Building, IsKnown
  <2>6. Known'
    BY <1>1, <1>2, <1>6, <2>1, <2>2 DEF Known, IsKnown
  <2>7. AtRestore'
    BY <1>2, <1>4, <1>6, <2>1 DEF AtRestore, Entries
  <2> QED BY <2>3, <2>4, <2>5, <2>6, <2>7 DEF AtUp, AtScan, AtUpdate
<1> QED BY <1>5, <1>6 DEF ScanCpu, k

LEMMA AllScannedInv ==
  ASSUME HardwareInv, AllScanned
  PROVE  HardwareInv'
<1> USE DEF HardwareInv
<1>1. Running("scan") /\ call # Nil /\ call \in Operation /\ call.left = {} /\ ~Updating
  BY OnePlace DEF AllScanned, Running, Shape
<1>2. UNCHANGED <<online, systems, failures, leaked>>
  BY DEF AllScanned
<1>3. /\ call' \in Operation
      /\ call'.step = "restore" /\ call'.left = call.changed /\ call'.user = call.user
      /\ call'.changed = call.changed /\ call'.failed = call.failed /\ call'.before = call.before
  BY <1>1 DEF AllScanned, Operation
<1>4. call' # Nil
  BY <1>3, NilAssumption
<1>5. ~Running("up")' /\ ~Running("scan")' /\ ~Updating'
  BY <1>3 DEF Running, Updating
<1>6. Shape'
  BY <1>2, <1>3 DEF Shape
<1>7. Settled'
  BY <1>1, <1>2, <1>3, <1>4, <1>5 DEF Settled, Building, IsKnown
<1>8. Known'
  BY <1>1, <1>2, <1>3, <1>4 DEF Known, IsKnown
<1>9. AtRestore'
  <2>1. CPU \ call.left = CPU
    BY <1>1
  <2>2. DOMAIN Entries(CPU) \subseteq CPU
    BY DEF Entries
  <2> QED BY <1>1, <1>2, <1>3, <2>1, <2>2 DEF AtScan, AtRestore
<1> QED BY <1>5, <1>6, <1>7, <1>8, <1>9 DEF AtUp, AtScan, AtUpdate

LEMMA TakeDownInv ==
  ASSUME HardwareInv, TakeDown
  PROVE  HardwareInv'
<1> USE DEF HardwareInv
<1> DEFINE sys == systems[call.user]
<1>1. Running("restore") /\ call # Nil /\ call \in Operation /\ call.step = "restore" /\ ~Updating
  BY OnePlace DEF TakeDown, Running, Shape
<1>2. /\ IsSystem(sys) /\ DOMAIN sys.cpus \subseteq CPU
      /\ ~call.failed => sys.cpus = Entries(CPU)
      /\ call.changed = CPU \ call.before
      /\ call.left \subseteq call.changed
      /\ 0 \in call.before
      /\ ~leaked => online = CPU \ (call.changed \ call.left)
      /\ ~leaked /\ ~call.failed => sys.offline = call.changed \ call.left
  BY <1>1 DEF AtRestore
<1>3. ASSUME NEW k \in call.left, SetOnline(k, FALSE), UNCHANGED <<failures, leaked>>
      PROVE  HardwareInv'
  <2>1. k # 0 /\ k \in CPU
    BY <1>2
  <2>2. /\ Shape' /\ call' # Nil
        /\ call'.user = call.user /\ call'.step = call.step /\ call'.left = call.left \ {k}
        /\ call'.changed = call.changed \cup (IF k # 0 /\ (k \in online) # FALSE THEN {k} ELSE {})
        /\ call'.failed = call.failed /\ call'.before = call.before
        /\ online' = IF k = 0 THEN online ELSE online \ {k}
        /\ \A u \in User : u # call.user => systems'[u] = systems[u]
        /\ IsSystem(systems'[call.user])
        /\ systems'[call.user].cpus = sys.cpus
        /\ systems'[call.user].offline =
             IF k # 0 /\ (k \in online) # FALSE /\ k \in DOMAIN sys.cpus
               THEN sys.offline \cup {k} ELSE sys.offline
    BY <1>1, <1>2, <1>3, SetOnlineStep
  <2>3. ~Running("up")' /\ ~Running("scan")' /\ Running("restore")' /\ ~Updating'
    BY <1>1, <2>2 DEF Running, Updating
  <2>4. Settled'
    BY <1>1, <2>2, <2>3 DEF Settled, Building, IsKnown
  <2>5. Known'
    BY <1>1, <1>3, <2>2 DEF Known, IsKnown, User
  <2>6. call'.changed = call.changed
    BY <1>2, <2>2
  <2>7. ~leaked => k \in online /\ online' = CPU \ (call.changed \ (call.left \ {k}))
    BY <1>2, <2>1, <2>2
  <2>8. ~leaked /\ ~call.failed => systems'[call.user].offline = call.changed \ (call.left \ {k})
    <3>1. ~call.failed => k \in DOMAIN sys.cpus
      BY <1>2, <2>1 DEF Entries
    <3> QED BY <1>2, <2>1, <2>2, <2>7, <3>1
  <2>9. AtRestore'
    BY <1>2, <1>3, <2>2, <2>6, <2>7, <2>8 DEF AtRestore
  <2> QED BY <2>2, <2>3, <2>4, <2>5, <2>9 DEF AtUp, AtScan, AtUpdate
<1>4. CASE /\ Fails
           /\ call' = [call EXCEPT !.left = {}]
           /\ leaked' = TRUE
           /\ UNCHANGED <<online, systems>>
  <2>1. /\ call' \in Operation
        /\ call'.step = "restore" /\ call'.left = {} /\ call'.user = call.user
        /\ call'.changed = call.changed /\ call'.failed = call.failed /\ call'.before = call.before
    BY <1>1, <1>4 DEF Operation
  <2>2. call' # Nil
    BY <2>1, NilAssumption
  <2>3. ~Running("up")' /\ ~Running("scan")' /\ ~Updating'
    BY <2>1 DEF Running, Updating
  <2>4. Shape'
    BY <1>4, <2>1 DEF Shape, Fails
  <2>5. Settled'
    BY <1>1, <1>4, <2>1, <2>2, <2>3 DEF Settled, Building, IsKnown
  <2>6. Known'
    BY <1>4 DEF Known
  <2>7. AtRestore'
    BY <1>2, <1>4, <2>1 DEF AtRestore
  <2> QED BY <2>3, <2>4, <2>5, <2>6, <2>7 DEF AtUp, AtScan, AtUpdate
<1> QED BY <1>3, <1>4 DEF TakeDown

LEMMA FinishDiscoveryInv ==
  ASSUME HardwareInv, FinishDiscovery
  PROVE  HardwareInv'
<1> USE DEF HardwareInv
<1> DEFINE sys == systems[call.user]
<1>1. Running("restore") /\ call # Nil /\ call \in Operation /\ call.left = {} /\ ~Updating
  BY OnePlace DEF FinishDiscovery, Running, Shape
<1>2. /\ IsSystem(sys)
      /\ ~call.failed => sys.cpus = Entries(CPU)
      /\ ~leaked => online = call.before
      /\ ~leaked /\ ~call.failed => sys.offline = CPU \ online
  BY <1>1 DEF AtRestore, Operation
<1>3. call' = Nil /\ UNCHANGED <<online, leaked>>
  BY DEF FinishDiscovery
<1>4. call.user \in User /\ systems = [u \in User |-> systems[u]]
  BY <1>1 DEF Operation, Shape
<1>5. ~Running("up")' /\ ~Running("scan")' /\ ~Running("restore")' /\ ~Updating'
  BY <1>3 DEF Running, Updating
<1>6. CASE /\ ~call.failed /\ UNCHANGED failures
           /\ systems' = [systems EXCEPT ![call.user] = [sys EXCEPT !.packages = PackagesOf(sys.cpus)]]
  <2>1. [sys EXCEPT !.packages = PackagesOf(sys.cpus)] =
          [cpus |-> sys.cpus, packages |-> PackagesOf(sys.cpus), offline |-> sys.offline]
    BY <1>2 DEF IsSystem
  <2>2. systems' = [u \in User |-> IF u = call.user
                     THEN [cpus |-> sys.cpus, packages |-> PackagesOf(sys.cpus), offline |-> sys.offline]
                     ELSE systems[u]]
    BY <1>4, <1>6, <2>1
  <2>3. Complete(systems'[call.user]) /\ systems'[call.user].offline = sys.offline
    BY <1>2, <1>4, <1>6, <2>2 DEF Complete, IsSystem
  <2>4. \A u \in User : u # call.user => systems'[u] = systems[u]
    BY <2>2
  <2>5. Shape'
    BY <1>3, <1>6, <2>2 DEF Shape
  <2>6. Settled'
    BY <1>1, <1>3, <2>3, <2>4 DEF Settled, Building, IsKnown
  <2>7. Known'
    <3>1. CASE call.user = "pools"
      BY <1>2, <1>3, <1>6, <2>3, <3>1 DEF Known
    <3>2. CASE call.user = "allocator"
      BY <1>1, <1>2, <1>3, <2>4, <3>2 DEF Known, IsKnown, User
    <3> QED BY <1>4, <3>1, <3>2 DEF User
  <2> QED BY <1>5, <2>5, <2>6, <2>7 DEF AtUp, AtScan, AtRestore, AtUpdate
<1>7. CASE /\ IF call.failed THEN UNCHANGED failures ELSE Fails
           /\ systems' = [systems EXCEPT ![call.user] = Failed]
  <2>1. systems' = [u \in User |-> IF u = call.user THEN Failed ELSE systems[u]]
    BY <1>4, <1>7
  <2>2. Shape'
    BY <1>3, <1>7, <2>1 DEF Shape, Fails
  <2>3. Settled'
    BY <1>1, <1>3, <2>1 DEF Settled, Building, IsKnown
  <2>4. Known'
    BY <1>1, <1>2, <1>3, <1>4, <2>1 DEF Known, IsKnown, User
  <2> QED BY <1>5, <2>2, <2>3, <2>4 DEF AtUp, AtScan, AtRestore, AtUpdate
<1> QED BY <1>6, <1>7 DEF FinishDiscovery

LEMMA UpdateInv ==
  ASSUME HardwareInv, NEW down \in DownSets, UpdateCpuOnlineState(down)
  PROVE  HardwareInv'
<1> USE DEF HardwareInv
<1>1. /\ call = Nil /\ IsKnown("pools")
      /\ call' = [user |-> "pools", step |-> "online", left |-> DOMAIN systems["pools"].cpus,
                  changed |-> {}, failed |-> FALSE, before |-> online, down |-> down]
      /\ UNCHANGED <<online, systems, failures, leaked>>
  BY DEF UpdateCpuOnlineState
<1>2. Complete(systems["pools"])
  BY <1>1 DEF Settled, Building, User
<1>3. DOMAIN systems["pools"].cpus = CPU
  BY <1>2 DEF Complete, Entries
<1>4. call' \in Operation
  <2>1. down \in SUBSET CPU /\ online \in SUBSET CPU
    BY OfflineAssumption DEF Shape
  <2> QED BY <1>1, <1>3, <2>1 DEF Operation, User
<1>5. call' # Nil
  BY <1>4, NilAssumption
<1>6. Running("online")' /\ ~Running("up")' /\ ~Running("scan")' /\ ~Running("restore")' /\ ~Running("offline")'
  BY <1>1, <1>5 DEF Running
<1>7. Shape'
  BY <1>1, <1>4 DEF Shape
<1>8. Settled'
  BY <1>1 DEF Settled, Building, IsKnown
<1>9. Known'
  BY <1>1, <1>5 DEF Known, IsKnown
<1>10. AtUpdate'
  BY <1>1, <1>2, <1>3, <1>6 DEF AtUpdate, Known
<1> QED BY <1>6, <1>7, <1>8, <1>9, <1>10 DEF AtUp, AtScan, AtRestore

LEMMA UpdateEntryInv ==
  ASSUME HardwareInv, UpdateEntry
  PROVE  HardwareInv'
<1> USE DEF HardwareInv
<1> DEFINE sys == systems["pools"]
<1>1. /\ Updating /\ call # Nil /\ call \in Operation /\ UNCHANGED leaked
      /\ call.step = "online" \/ call.step = "offline"
  BY DEF UpdateEntry, Updating, Running, Shape
<1>2. /\ call.user = "pools" /\ Complete(sys)
      /\ ~leaked => sys.offline = CPU \ online
      /\ Running("online") => call.before \subseteq online /\ CPU \ call.left \subseteq online
      /\ Running("offline") => /\ call.left \subseteq call.down
                               /\ online = CPU \ ((call.down \ call.left) \ {0})
  BY <1>1 DEF AtUpdate
<1>3. ASSUME NEW k \in call.left, SetOnline(k, call.step = "online"), UNCHANGED failures
      PROVE  HardwareInv'
  <2> DEFINE v == call.step = "online"
  <2>1. k \in CPU /\ IsSystem(sys) /\ DOMAIN sys.cpus = CPU
    BY <1>1, <1>2 DEF Complete, Entries, Operation
  <2>2. v \in BOOLEAN
    OBVIOUS
  <2> HIDE DEF v
  <2>3. /\ Shape' /\ call' # Nil
        /\ call'.user = "pools" /\ call'.step = call.step /\ call'.left = call.left \ {k}
        /\ call'.before = call.before /\ call'.down = call.down
        /\ online' = IF k = 0 THEN online ELSE IF v THEN online \cup {k} ELSE online \ {k}
        /\ \A u \in User : u # "pools" => systems'[u] = systems[u]
        /\ IsSystem(systems'["pools"])
        /\ systems'["pools"].cpus = sys.cpus /\ systems'["pools"].packages = sys.packages
        /\ systems'["pools"].offline =
             IF k # 0 /\ (k \in online) # v /\ k \in DOMAIN sys.cpus
               THEN IF v THEN sys.offline \ {k} ELSE sys.offline \cup {k} ELSE sys.offline
    <3>1. SetOnline(k, v) /\ IsSystem(systems[call.user])
      BY <1>2, <1>3, <2>1 DEF v
    <3> QED BY <1>1, <1>2, <1>3, <2>2, <3>1, SetOnlineStep
  <2>4. ~Running("up")' /\ ~Running("scan")' /\ ~Running("restore")' /\ Updating'
    BY <1>1, <2>3 DEF Running, Updating
  <2>5. Complete(systems'["pools"])
    BY <1>2, <2>3 DEF Complete
  <2>6. Settled'
    BY <1>1, <1>2, <2>3, <2>5 DEF Settled, Building, IsKnown, User
  <2>7. Known'
    BY <2>3 DEF Known
  <2>8. ~leaked => systems'["pools"].offline = CPU \ online'
    BY <1>2, <2>1, <2>2, <2>3 DEF Shape
  <2>9. AtUpdate'
    <3>1. CASE call.step = "online"
      <4>1. call'.before \subseteq online' /\ CPU \ call'.left \subseteq online'
        BY <1>1, <1>2, <2>3, <3>1 DEF v, Running, Shape
      <4>2. ~Running("offline")'
        BY <2>3, <3>1 DEF Running
      <4> QED BY <1>1, <2>3, <2>5, <2>8, <4>1, <4>2 DEF AtUpdate
    <3>2. CASE call.step = "offline"
      <4>1. /\ call.left \subseteq call.down
            /\ online = CPU \ ((call.down \ call.left) \ {0})
        BY <1>1, <1>2, <3>2 DEF Running
      <4>2. call'.left \subseteq call'.down
        BY <2>3, <4>1
      <4>3. online' = CPU \ ((call.down \ (call.left \ {k})) \ {0})
        BY <2>3, <3>2, <4>1 DEF v
      <4>4. ~Running("online")'
        BY <2>3, <3>2 DEF Running
      <4> QED BY <1>1, <2>3, <2>5, <2>8, <4>2, <4>3, <4>4 DEF AtUpdate
    <3> QED BY <1>1, <3>1, <3>2
  <2> QED BY <2>3, <2>4, <2>6, <2>7, <2>9 DEF AtUp, AtScan, AtRestore
<1>4. CASE Fails /\ call' = Nil /\ UNCHANGED <<online, systems>>
  <2>1. Shape'
    BY <1>4 DEF Shape, Fails
  <2>2. Settled'
    BY <1>1, <1>4 DEF Settled, Building, IsKnown
  <2>3. Known'
    BY <1>1, <1>2, <1>4 DEF Known, IsKnown
  <2>4. ~Running("up")' /\ ~Running("scan")' /\ ~Running("restore")' /\ ~Updating'
    BY <1>4 DEF Running, Updating
  <2> QED BY <2>1, <2>2, <2>3, <2>4 DEF AtUp, AtScan, AtRestore, AtUpdate
<1> QED BY <1>3, <1>4 DEF UpdateEntry

LEMMA UpdatedEntriesInv ==
  ASSUME HardwareInv, UpdatedEntries
  PROVE  HardwareInv'
<1> USE DEF HardwareInv
<1>1. /\ Updating /\ call # Nil /\ call \in Operation /\ call.left = {}
      /\ UNCHANGED <<online, systems, failures, leaked>>
  BY DEF UpdatedEntries, Updating, Running, Shape
<1>2. /\ call.user = "pools" /\ Complete(systems["pools"])
      /\ ~leaked => systems["pools"].offline = CPU \ online
      /\ Running("online") => CPU \ call.left \subseteq online
  BY <1>1 DEF AtUpdate
<1>3. CASE call.step = "online" /\ call.down # {}
  <2>1. call' = [call EXCEPT !.step = "offline", !.left = call.down]
    BY <1>3 DEF UpdatedEntries
  <2>2. /\ call' \in Operation
        /\ call'.step = "offline" /\ call'.left = call.down /\ call'.user = call.user
        /\ call'.down = call.down
    BY <1>1, <2>1 DEF Operation
  <2>3. call' # Nil
    BY <2>2, NilAssumption
  <2>4. /\ ~Running("up")' /\ ~Running("scan")' /\ ~Running("restore")' /\ ~Running("online")'
        /\ Updating'
    BY <2>2, <2>3 DEF Running, Updating
  <2>5. Shape'
    BY <1>1, <2>2 DEF Shape
  <2>6. Settled'
    BY <1>1, <1>2 DEF Settled, Building, IsKnown
  <2>7. Known'
    BY <1>2, <2>2, <2>3 DEF Known
  <2>8. online = CPU
    BY <1>1, <1>2, <1>3 DEF Running, Shape
  <2>9. AtUpdate'
    BY <1>1, <1>2, <2>2, <2>4, <2>8 DEF AtUpdate
  <2> QED BY <2>4, <2>5, <2>6, <2>7, <2>9 DEF AtUp, AtScan, AtRestore
<1>4. CASE ~(call.step = "online" /\ call.down # {})
  <2>1. call' = Nil
    BY <1>4 DEF UpdatedEntries
  <2>2. Shape'
    BY <1>1, <2>1 DEF Shape
  <2>3. Settled'
    BY <1>1, <2>1 DEF Settled, Building, IsKnown
  <2>4. Known'
    BY <1>1, <1>2, <2>1 DEF Known, IsKnown
  <2>5. ~Running("up")' /\ ~Running("scan")' /\ ~Running("restore")' /\ ~Updating'
    BY <2>1 DEF Running, Updating
  <2> QED BY <2>2, <2>3, <2>4, <2>5 DEF AtUp, AtScan, AtRestore, AtUpdate
<1> QED BY <1>3, <1>4

LEMMA HardwareInitially ==
  ASSUME InitSysfs
  PROVE  HardwareInv
<1>1. /\ systems = [u \in User |-> Nil] /\ call = Nil /\ failures = 0 /\ leaked = FALSE
      /\ \E down \in OfflineSets : online = CPU \ down
  BY DEF InitSysfs
<1>2. online \in SUBSET CPU /\ 0 \in online
  BY <1>1, CPUAssumption, OfflineAssumption
<1>3. Shape
  BY <1>1, <1>2 DEF Shape
<1>4. \A u \in User : ~IsKnown(u)
  BY <1>1 DEF IsKnown
<1>5. ~Running("up") /\ ~Running("scan") /\ ~Running("restore") /\ ~Updating
  BY <1>1 DEF Running, Updating
<1> QED BY <1>3, <1>4, <1>5 DEF HardwareInv, Settled, Known, AtUp, AtScan, AtRestore, AtUpdate, User

LEMMA HardwareStutter ==
  ASSUME HardwareInv, UNCHANGED sysfsVars
  PROVE  HardwareInv'
BY DEF HardwareInv, sysfsVars, Shape, Settled, Known, AtUp, AtScan, AtRestore, AtUpdate,
       IsKnown, Building, Running, Updating

LEMMA HardwareStep ==
  ASSUME HardwareInv, [NextSysfs]_sysfsVars
  PROVE  HardwareInv'
<1>1. ASSUME NEW u \in User, Discover(u) PROVE HardwareInv'
  BY <1>1, DiscoverInv
<1>2. ASSUME NEW down \in DownSets, UpdateCpuOnlineState(down) PROVE HardwareInv'
  BY <1>2, UpdateInv
<1> QED BY <1>1, <1>2, TakeUpInv, AllUpInv, ScanCpuInv, AllScannedInv, TakeDownInv,
           FinishDiscoveryInv, UpdateEntryInv, UpdatedEntriesInv, HardwareStutter DEF NextSysfs

(* Whoever moves, the hardware makes a step or none.                       *)
LEMMA NextIsHardware == [Next]_vars => [NextSysfs]_sysfsVars
BY DEF Next, Hardware, Call, AllocatorStep, TooFew, TakeAll, StartPackages, Consider, Finish,
       StartCores, StartThreads, GiveUp, Return, vars

(* The inductive invariant of the hardware.                                *)
THEOREM HardwareInvariance == Spec => []HardwareInv
<1>1. Init => HardwareInv
  BY HardwareInitially DEF Init
<1>2. HardwareInv /\ [Next]_vars => HardwareInv'
  BY HardwareStep, NextIsHardware
<1> QED BY <1>1, <1>2, PTL DEF Spec

(* A System that has been discovered has every CPU, every thread of each   *)
(* core and every CPU of each package, however many CPUs were offline when *)
(* DiscoverSystem began and whatever failed since.                         *)
THEOREM DiscoveryIsComplete == Spec => []TopologyComplete
<1>1. HardwareInv => TopologyComplete
  <2> SUFFICES ASSUME HardwareInv, NEW u \in User,
                      IsKnown(u) /\ (call = Nil \/ call.user # u \/ Updating),
                      NEW k \in CPU
               PROVE  /\ DOMAIN systems[u].cpus = CPU
                      /\ systems[u].cpus[k].threads = ThreadSet[k]
                      /\ systems[u].packages[PackageOf[k]] = {j \in CPU : PackageOf[j] = PackageOf[k]}
    BY CPUAssumption DEF TopologyComplete
  <2>1. systems[u].cpus = Entries(CPU) /\ systems[u].packages = PackagesOf(Entries(CPU))
    BY DEF HardwareInv, Settled, Building, Complete
  <2>2. DOMAIN Entries(CPU) = CPU /\ \A j \in CPU : Entries(CPU)[j] = FullEntry(j)
    BY DEF Entries
  <2>3. \A j \in CPU : FullEntry(j).pkg = PackageOf[j] /\ FullEntry(j).threads = ThreadSet[j]
    BY DEF FullEntry
  <2>4. PackagesOf(Entries(CPU)) =
          [p \in {PackageOf[j] : j \in CPU} |-> {j \in CPU : PackageOf[j] = p}]
    BY <2>2, <2>3 DEF PackagesOf
  <2>5. systems[u].packages[PackageOf[k]] = {j \in CPU : PackageOf[j] = PackageOf[k]}
    BY <2>1, <2>4
  <2> QED BY <2>1, <2>2, <2>3, <2>5
<1> QED BY <1>1, HardwareInvariance, PTL

(* The System of the pool set knows what is offline, through updates that  *)
(* fail half way and the allocator's discovery in between.                 *)
THEOREM OfflineIsKnown == Spec => []OfflineKnown
<1>1. HardwareInv => OfflineKnown
  BY DEF HardwareInv, Known, OfflineKnown
<1> QED BY <1>1, HardwareInvariance, PTL

(* A discovery that ends leaves every CPU as it was.                       *)
LEMMA RestoresStep ==
  ASSUME HardwareInv, [NextSysfs]_sysfsVars,
         Running("up") \/ Running("restore"), call' = Nil, ~leaked'
  PROVE  online' = call.before
<1>1. call # Nil /\ ~Running("scan") /\ ~Updating /\ call \in Operation
  BY OnePlace DEF Running, HardwareInv, Shape
<1>2. CASE TakeUp
  <2> DEFINE k == Min(call.left)
  <2>1. call.left # {} /\ call.left \in SUBSET CPU /\ Running("up")
    BY <1>1, <1>2 DEF TakeUp, Operation
  <2>2. k \in call.left
    BY <2>1, MinIn
  <2> HIDE DEF k
  <2>3. IsSystem(systems[call.user])
    BY <2>1 DEF HardwareInv, AtUp, IsSystem, EmptySystem
  <2>4. ~(SetOnline(k, TRUE) /\ UNCHANGED <<failures, leaked>>)
    BY <1>1, <2>2, <2>3, SetOnlineStep DEF HardwareInv
  <2> QED BY <1>2, <2>4 DEF TakeUp, k
<1>3. CASE TakeDown
  <2>1. IsSystem(systems[call.user]) /\ Running("restore")
    BY <1>3 DEF HardwareInv, AtRestore, TakeDown
  <2>2. ASSUME NEW k \in call.left, SetOnline(k, FALSE), UNCHANGED <<failures, leaked>> PROVE FALSE
    BY <1>1, <2>1, <2>2, SetOnlineStep DEF HardwareInv
  <2> QED BY <1>3, <2>2 DEF TakeDown
<1>4. CASE FinishDiscovery
  <2>1. Running("restore") /\ call.left = {} /\ UNCHANGED <<online, leaked>>
    BY <1>4 DEF FinishDiscovery
  <2>2. call.changed = CPU \ call.before /\ online = CPU \ (call.changed \ call.left)
    BY <2>1 DEF HardwareInv, AtRestore
  <2>3. call.before \subseteq CPU
    BY <1>1 DEF Operation
  <2> QED BY <2>1, <2>2, <2>3
<1>5. CASE AllUp
  <2>1. call' \in Operation
    BY <1>1, <1>5 DEF AllUp, Operation
  <2> QED BY <2>1, NilAssumption
<1>6. CASE UNCHANGED sysfsVars
  BY <1>1, <1>6 DEF sysfsVars
<1> QED BY <1>1, <1>2, <1>3, <1>4, <1>5, <1>6
        DEF NextSysfs, Discover, ScanCpu, AllScanned, UpdateCpuOnlineState, UpdateEntry, UpdatedEntries

THEOREM DiscoveryLeavesHardware == Spec => DiscoveryRestores
<1>1. HardwareInv /\ [Next]_vars =>
        [(Running("up") \/ Running("restore")) /\ call' = Nil /\ ~leaked' =>
           online' = call.before]_sysfsVars
  BY RestoresStep, NextIsHardware
<1> QED BY <1>1, HardwareInvariance, PTL DEF Spec, DiscoveryRestores

(* An update of what is online ends with an outcome that the pool set      *)
(* reckons with.                                                           *)
LEMMA UpdateKeepsStep ==
  ASSUME HardwareInv, [NextSysfs]_sysfsVars, Updating, call' = Nil
  PROVE  IF failures' = failures THEN online' = CPU \ (call.down \ {0})
         ELSE online' \in PartlyUpdated(CPU, call.before, call.down)
<1>1. /\ call # Nil /\ ~Running("scan") /\ ~Running("up") /\ ~Running("restore")
      /\ call \in Operation /\ failures \in Nat /\ online \subseteq CPU
      /\ Running("online") \/ Running("offline")
  BY OnePlace DEF Running, Updating, HardwareInv, Shape
<1>2. /\ call.user = "pools" /\ IsSystem(systems["pools"])
      /\ Running("online") => call.before \subseteq online /\ CPU \ call.left \subseteq online
      /\ Running("offline") => /\ call.left \subseteq call.down
                               /\ online = CPU \ ((call.down \ call.left) \ {0})
  BY DEF HardwareInv, AtUpdate, Complete
<1>3. CASE UpdateEntry
  <2>1. ASSUME NEW k \in call.left, SetOnline(k, call.step = "online"), UNCHANGED failures PROVE FALSE
    BY <1>1, <1>2, <1>3, <2>1, SetOnlineStep DEF HardwareInv, UpdateEntry
  <2>2. Fails /\ UNCHANGED online
    BY <1>3, <2>1 DEF UpdateEntry
  <2>3. failures' # failures
    BY <1>1, <2>2 DEF Fails
  <2>4. CASE Running("online")
    <3>1. online = call.before \cup (online \ call.before)
      BY <1>2, <2>4
    <3>2. online \ call.before \in SUBSET (CPU \ call.before)
      BY <1>1
    <3> QED BY <2>2, <2>3, <3>1, <3>2 DEF PartlyUpdated
  <2>5. CASE Running("offline")
    <3>1. (call.down \ call.left) \ {0} \in SUBSET (call.down \ {0})
      OBVIOUS
    <3> QED BY <1>2, <2>2, <2>3, <2>5, <3>1 DEF PartlyUpdated
  <2> QED BY <1>1, <2>4, <2>5
<1>4. CASE UpdatedEntries
  <2>1. call.left = {} /\ UNCHANGED <<online, failures>>
    BY <1>4 DEF UpdatedEntries
  <2>2. CASE Running("offline")
    BY <1>2, <2>1, <2>2
  <2>3. CASE Running("online")
    <3>1. CASE call.down = {}
      BY <1>1, <1>2, <2>1, <2>3, <3>1
    <3>2. CASE call.down # {}
      <4>1. call' \in Operation
        BY <1>1, <1>4, <2>3, <3>2 DEF UpdatedEntries, Running, Operation
      <4> QED BY <4>1, NilAssumption
    <3> QED BY <3>1, <3>2
  <2> QED BY <1>1, <2>2, <2>3
<1>5. ~(UNCHANGED sysfsVars)
  BY <1>1 DEF sysfsVars
<1> QED BY <1>1, <1>3, <1>4, <1>5
        DEF NextSysfs, Discover, TakeUp, AllUp, ScanCpu, AllScanned, TakeDown, FinishDiscovery,
            UpdateCpuOnlineState

THEOREM UpdateKeepsItsContract == Spec => UpdateKeepsContract
<1>1. HardwareInv /\ [Next]_vars =>
        [Updating /\ call' = Nil =>
           IF failures' = failures THEN online' = CPU \ (call.down \ {0})
           ELSE online' \in PartlyUpdated(CPU, call.before, call.down)]_sysfsVars
  BY UpdateKeepsStep, NextIsHardware
<1> QED BY <1>1, HardwareInvariance, PTL DEF Spec, UpdateKeepsContract

-----------------------------------------------------------------------------
(* Sequences of sets, as the candidates are.                               *)

(* What the loop leaves after the first candidate.                         *)
LEMMA TailOf ==
  ASSUME NEW S, NEW s \in Seq(S), s # <<>>
  PROVE  /\ Len(s) \in Nat /\ Len(s) >= 1 /\ Head(s) = s[1] /\ Head(s) \in S
         /\ Tail(s) \in Seq(S) /\ Len(Tail(s)) = Len(s) - 1
         /\ \A i \in 1 .. Len(s) - 1 : Tail(s)[i] = s[i + 1]
OBVIOUS

LEMMA SeqOf ==
  ASSUME NEW S, NEW n \in Nat, NEW f, f = [i \in 1 .. n |-> f[i]], \A i \in 1 .. n : f[i] \in S
  PROVE  f \in Seq(S) /\ Len(f) = n
<1>1. f \in [1 .. n -> S]
  OBVIOUS
<1> QED BY <1>1, IsASeq, LenProperties

(* InOrder lists every id once.                                            *)
LEMMA OrderListsAll ==
  ASSUME NEW ids \in SUBSET Nat, IsFiniteSet(ids)
  PROVE  /\ Cardinality(ids) \in Nat /\ DOMAIN InOrder(ids) = 1 .. Cardinality(ids)
         /\ \A n \in 1 .. Cardinality(ids) : InOrder(ids)[n] \in ids
         /\ \A m, n \in 1 .. Cardinality(ids) : InOrder(ids)[m] = InOrder(ids)[n] => m = n
         /\ \A k \in ids : \E n \in 1 .. Cardinality(ids) : InOrder(ids)[n] = k
<1> DEFINE Below(k) == {j \in ids : j < k}
           N == Cardinality(ids)
           place == [k \in ids |-> Cardinality(Below(k)) + 1]
<1>1. N \in Nat /\ \A k \in ids : IsFiniteSet(Below(k)) /\ Cardinality(Below(k)) \in Nat
  <2>1. \A k \in ids : Below(k) \in SUBSET ids
    OBVIOUS
  <2> QED BY <2>1, FS_Subset, FS_CardinalityType
<1>2. ASSUME NEW k \in ids PROVE Cardinality(Below(k)) <= N - 1
  <2>1. Below(k) \in SUBSET (ids \ {k})
    OBVIOUS
  <2>2. IsFiniteSet(ids \ {k}) /\ Cardinality(ids \ {k}) = N - 1
    BY FS_RemoveElement
  <2> QED BY <2>1, <2>2, FS_Subset
<1>3. ASSUME NEW k \in ids, NEW l \in ids, k < l PROVE Cardinality(Below(k)) < Cardinality(Below(l))
  <2>1. Below(k) \in SUBSET (Below(l) \ {k}) /\ k \in Below(l)
    <3>1. \A j \in Below(k) : j \in ids /\ j < l /\ j # k
      BY <1>3
    <3> QED BY <1>3, <3>1
  <2>2. IsFiniteSet(Below(l) \ {k}) /\ Cardinality(Below(l) \ {k}) = Cardinality(Below(l)) - 1
    BY <1>1, <2>1, FS_RemoveElement
  <2>3. Cardinality(Below(k)) <= Cardinality(Below(l) \ {k})
    BY <2>1, <2>2, FS_Subset
  <2> QED BY <1>1, <2>2, <2>3
<1> HIDE DEF Below
<1>4. place \in [ids -> 1 .. N]
  BY <1>1, <1>2
<1>5. IsInjective(place)
  <2>1. ASSUME NEW k \in ids, NEW l \in ids, place[k] = place[l] PROVE k = l
    BY <1>1, <1>3, <2>1
  <2> QED BY <2>1 DEF IsInjective
<1>6. \A n \in 1 .. N : \E k \in ids : place[k] = n
  <2>1. IsFiniteSet(1 .. N) /\ Cardinality(1 .. N) = N
    BY <1>1, FS_Interval
  <2>2. place \in Surjection(ids, 1 .. N)
    BY <1>4, <1>5, <2>1, FS_Injection DEF Injection
  <2> QED BY <2>2 DEF Surjection
<1>7. \A n \in 1 .. N : InOrder(ids)[n] \in ids /\ place[InOrder(ids)[n]] = n
  <2> SUFFICES ASSUME NEW n \in 1 .. N
               PROVE  InOrder(ids)[n] \in ids /\ place[InOrder(ids)[n]] = n
    OBVIOUS
  <2>1. InOrder(ids)[n] = CHOOSE k \in ids : Cardinality(Below(k)) = n - 1
    BY DEF InOrder, Below
  <2>2. \E k \in ids : Cardinality(Below(k)) = n - 1
    BY <1>1, <1>6
  <2>3. InOrder(ids)[n] \in ids /\ Cardinality(Below(InOrder(ids)[n])) = n - 1
    BY <2>1, <2>2
  <2> QED BY <1>1, <2>3
<1>8. DOMAIN InOrder(ids) = 1 .. N
  BY DEF InOrder
<1>9. \A k \in ids : \E n \in 1 .. N : InOrder(ids)[n] = k
  <2> SUFFICES ASSUME NEW k \in ids PROVE \E n \in 1 .. N : InOrder(ids)[n] = k
    OBVIOUS
  <2>1. place[k] \in 1 .. N
    BY <1>4
  <2>2. InOrder(ids)[place[k]] \in ids /\ place[InOrder(ids)[place[k]]] = place[k]
    BY <1>7, <2>1
  <2> QED BY <1>5, <2>1, <2>2 DEF IsInjective
<1> QED BY <1>1, <1>7, <1>8, <1>9

-----------------------------------------------------------------------------
(* The candidates.  They can be taken, and no two have a CPU in common.    *)
Candidates(s, set) ==
  /\ s \in Seq(SUBSET set)
  /\ \A i, j \in 1 .. Len(s) : i # j => s[i] \cap s[j] = {}

(* The online CPUs of the packages, and of the cores.                      *)
Packages == {{j \in CPU : PackageOf[j] = PackageOf[k]} \ offline : k \in CPU}
Cores    == {ThreadSet[k] \ offline : k \in CPU}

(* They are such units, and all that are idle are among them.              *)
Lists(s, units, set) ==
  /\ \A i \in 1 .. Len(s) : s[i] \in units
  /\ \A c \in units : c # {} /\ c \subseteq set => \E i \in 1 .. Len(s) : s[i] = c

(* The units of some ids that can be listed, and their list.               *)
Listable(ids, g, set) ==
  /\ ids \in SUBSET Nat /\ IsFiniteSet(ids)
  /\ \A k \in ids : g[k] \subseteq set
  /\ \A k, l \in ids : k # l => g[k] \cap g[l] = {}

ListOf(s, ids, g) == s = [n \in DOMAIN InOrder(ids) |-> g[InOrder(ids)[n]]]

LEMMA Listing ==
  ASSUME NEW ids, NEW g, NEW set, Listable(ids, g, set), NEW s, ListOf(s, ids, g)
  PROVE  /\ Candidates(s, set)
         /\ \A i \in 1 .. Len(s) : \E k \in ids : s[i] = g[k]
         /\ \A k \in ids : \E i \in 1 .. Len(s) : s[i] = g[k]
<1> USE DEF Listable, ListOf
<1> DEFINE o == InOrder(ids)
           N == Cardinality(ids)
<1>1. /\ N \in Nat /\ DOMAIN o = 1 .. N
      /\ \A n \in 1 .. N : o[n] \in ids
      /\ \A m, n \in 1 .. N : o[m] = o[n] => m = n
      /\ \A k \in ids : \E n \in 1 .. N : o[n] = k
  BY OrderListsAll
<1> HIDE DEF o, N
<1>2. s = [n \in 1 .. N |-> g[o[n]]]
  BY <1>1 DEF o
<1>3. \A n \in 1 .. N : s[n] = g[o[n]] /\ s[n] \in SUBSET set
  BY <1>1, <1>2
<1>4. s \in Seq(SUBSET set) /\ Len(s) = N
  BY <1>1, <1>2, <1>3, SeqOf
<1>5. \A i, j \in 1 .. N : i # j => s[i] \cap s[j] = {}
  <2> SUFFICES ASSUME NEW i \in 1 .. N, NEW j \in 1 .. N, i # j PROVE s[i] \cap s[j] = {}
    OBVIOUS
  <2>1. o[i] \in ids /\ o[j] \in ids /\ o[i] # o[j]
    BY <1>1
  <2>2. g[o[i]] \cap g[o[j]] = {}
    BY <2>1
  <2> QED BY <1>3, <2>2
<1>6. Candidates(s, set)
  BY <1>3, <1>4, <1>5 DEF Candidates
<1>7. \A i \in 1 .. N : \E k \in ids : s[i] = g[k]
  BY <1>1, <1>3
<1>8. \A k \in ids : \E i \in 1 .. N : s[i] = g[k]
  <2> SUFFICES ASSUME NEW k \in ids PROVE \E i \in 1 .. N : s[i] = g[k]
    OBVIOUS
  <2>1. PICK n \in 1 .. N : o[n] = k
    BY <1>1
  <2> QED BY <1>3, <2>1
<1> QED BY <1>4, <1>6, <1>7, <1>8

LEMMA CompleteSystem ==
  ASSUME IsKnown("allocator"), Complete(Sys)
  PROVE  /\ offline = Sys.offline /\ offline \subseteq CPU
         /\ DOMAIN Sys.cpus = CPU /\ DOMAIN Sys.packages = {PackageOf[k] : k \in CPU}
         /\ \A k \in CPU : CoreSet(k) = ThreadSet[k] /\ PackageId(k) = PackageOf[k]
         /\ \A p \in DOMAIN Sys.packages : PackageSet(p) = {j \in CPU : PackageOf[j] = p}
<1>1. /\ Sys.cpus = Entries(CPU) /\ Sys.packages = PackagesOf(Entries(CPU))
      /\ offline = Sys.offline /\ offline \subseteq CPU
  BY DEF Complete, IsSystem, offline
<1>2. DOMAIN Entries(CPU) = CPU /\ \A j \in CPU : Entries(CPU)[j] = FullEntry(j)
  BY DEF Entries
<1>3. \A j \in CPU : FullEntry(j).pkg = PackageOf[j] /\ FullEntry(j).threads = ThreadSet[j]
  BY DEF FullEntry
<1>4. PackagesOf(Entries(CPU)) =
        [p \in {PackageOf[j] : j \in CPU} |-> {j \in CPU : PackageOf[j] = p}]
  BY <1>2, <1>3 DEF PackagesOf
<1> QED BY <1>1, <1>2, <1>3, <1>4 DEF CoreSet, PackageId, PackageSet

LEMMA PackageCandidates ==
  ASSUME IsKnown("allocator"), Complete(Sys), from \subseteq CPU
  PROVE  Candidates(IdlePackages, from \ offline) /\ Lists(IdlePackages, Packages, from)
<1> DEFINE ids == {pkg \in DOMAIN Sys.packages : Idle(PackageSet(pkg))}
           g == [p \in ids |-> PackageSet(p) \ offline]
           s == IdlePackages
<1>1. /\ offline \subseteq CPU
      /\ DOMAIN Sys.packages = {PackageOf[k] : k \in CPU}
      /\ \A p \in DOMAIN Sys.packages : PackageSet(p) = {j \in CPU : PackageOf[j] = p}
  BY CompleteSystem
<1>2. ids \in SUBSET Nat /\ IsFiniteSet(ids)
  <2> DEFINE T == {PackageOf[k] : k \in CPU}
  <2>1. PackageOf \in Surjection(CPU, T)
    BY TopologyAssumption DEF Surjection
  <2>2. IsFiniteSet(T)
    BY <2>1, CPUAssumption, FS_Surjection
  <2>3. T \subseteq Nat
    BY TopologyAssumption
  <2>4. ids \in SUBSET T
    BY <1>1
  <2> HIDE DEF T, ids
  <2> QED BY <2>2, <2>3, <2>4, FS_Subset
<1>3. \A k \in ids : g[k] \subseteq from \ offline
  BY DEF Idle
<1>4. \A k, l \in ids : k # l => g[k] \cap g[l] = {}
  BY <1>1
<1>5. s = [n \in DOMAIN InOrder(ids) |-> g[InOrder(ids)[n]]]
  <2> HIDE DEF ids
  <2>1. \A n \in DOMAIN InOrder(ids) : InOrder(ids)[n] \in ids
    BY <1>2, OrderListsAll
  <2>2. s = [n \in DOMAIN InOrder(ids) |-> PackageSet(InOrder(ids)[n]) \ offline]
    BY DEF IdlePackages, ids
  <2> QED BY <2>1, <2>2
<1> HIDE DEF g, s
<1>6. /\ Candidates(s, from \ offline)
      /\ \A i \in 1 .. Len(s) : \E k \in ids : s[i] = g[k]
      /\ \A k \in ids : \E i \in 1 .. Len(s) : s[i] = g[k]
  <2> HIDE DEF ids
  <2>1. Listable(ids, g, from \ offline) /\ ListOf(s, ids, g)
    BY <1>2, <1>3, <1>4, <1>5 DEF Listable, ListOf
  <2> QED BY <2>1, Listing
<1>7. \A p \in ids : g[p] \in Packages
  BY <1>1 DEF g, Packages
<1>8. \A c \in Packages : c \subseteq from => \E p \in ids : g[p] = c
  BY <1>1 DEF g, Packages, Idle
<1> HIDE DEF ids
<1>9. Lists(s, Packages, from)
  BY <1>6, <1>7, <1>8 DEF Lists
<1> QED BY <1>6, <1>9 DEF s

LEMMA CoreCandidates ==
  ASSUME IsKnown("allocator"), Complete(Sys), from \subseteq CPU
  PROVE  Candidates(IdleCores, from \ offline) /\ Lists(IdleCores, Cores, from)
<1> DEFINE ids == {k \in DOMAIN Sys.cpus : Idle(CoreSet(k)) /\ k = Min(CoreSet(k) \ offline)}
           g == [k \in ids |-> CoreSet(k) \ offline]
           s == IdleCores
<1>1. /\ offline \subseteq CPU /\ DOMAIN Sys.cpus = CPU
      /\ \A k \in CPU : CoreSet(k) = ThreadSet[k]
  BY CompleteSystem
<1>2. ids \in SUBSET Nat /\ IsFiniteSet(ids)
  <2>1. ids \in SUBSET CPU
    BY <1>1
  <2> HIDE DEF ids
  <2> QED BY <2>1, CPUAssumption, FS_Subset
<1>3. \A k \in ids : g[k] \subseteq from \ offline
  BY DEF Idle
<1>4. \A k, l \in ids : k # l => g[k] \cap g[l] = {}
  <2> SUFFICES ASSUME NEW k \in ids, NEW l \in ids, NEW j, j \in g[k], j \in g[l] PROVE k = l
    OBVIOUS
  <2>1. k \in CPU /\ l \in CPU /\ g[k] = ThreadSet[k] \ offline /\ g[l] = ThreadSet[l] \ offline
    BY <1>1
  <2>2. j \in CPU
    BY <2>1, TopologyAssumption
  <2>3. ThreadSet[k] = ThreadSet[l]
    BY <2>1, <2>2, TopologyAssumption
  <2> QED BY <1>1, <2>1, <2>3
<1>5. s = [n \in DOMAIN InOrder(ids) |-> g[InOrder(ids)[n]]]
  <2> HIDE DEF ids
  <2>1. \A n \in DOMAIN InOrder(ids) : InOrder(ids)[n] \in ids
    BY <1>2, OrderListsAll
  <2>2. s = [n \in DOMAIN InOrder(ids) |-> CoreSet(InOrder(ids)[n]) \ offline]
    BY DEF IdleCores, ids
  <2> QED BY <2>1, <2>2
<1> HIDE DEF g, s
<1>6. /\ Candidates(s, from \ offline)
      /\ \A i \in 1 .. Len(s) : \E k \in ids : s[i] = g[k]
      /\ \A k \in ids : \E i \in 1 .. Len(s) : s[i] = g[k]
  <2> HIDE DEF ids
  <2>1. Listable(ids, g, from \ offline) /\ ListOf(s, ids, g)
    BY <1>2, <1>3, <1>4, <1>5 DEF Listable, ListOf
  <2> QED BY <2>1, Listing
<1>7. \A k \in ids : g[k] \in Cores
  BY <1>1 DEF g, Cores
<1>8. ASSUME NEW c \in Cores, c # {}, c \subseteq from PROVE \E k \in ids : g[k] = c
  <2>1. PICK j \in CPU : c = ThreadSet[j] \ offline
    BY DEF Cores
  <2>2. c \in SUBSET CPU
    BY <2>1, TopologyAssumption
  <2>3. Min(c) \in c
    BY <1>8, <2>2, MinIn
  <2>4. Min(c) \in CPU /\ ThreadSet[Min(c)] = ThreadSet[j]
    BY <2>1, <2>2, <2>3, TopologyAssumption
  <2>5. CoreSet(Min(c)) \ offline = c
    BY <1>1, <2>1, <2>4
  <2>6. Min(c) \in ids
    BY <1>1, <1>8, <2>4, <2>5 DEF Idle
  <2> QED BY <2>5, <2>6 DEF g
<1> HIDE DEF ids
<1>9. Lists(s, Cores, from)
  BY <1>6, <1>7, <1>8 DEF Lists
<1> QED BY <1>6, <1>9 DEF s

-----------------------------------------------------------------------------
(* A call.                                                                 *)
Working == stage \in {"packages", "cores", "threads"}

CallType ==
  /\ asked \in [from: SUBSET CPU, cnt: Nat]
  /\ from \subseteq asked.from
  /\ result \subseteq asked.from
  /\ cnt \in 0 .. asked.cnt
  /\ stage \in {"idle", "call", "packages", "cores", "threads", "done", "panic"}
  /\ candidates \in Seq(SUBSET CPU)

(* Before, after and at the beginning of a call.                           *)
Around ==
  /\ stage # "idle" => call = Nil
  /\ stage = "idle" => asked = NoCall /\ from = {} /\ cnt = 0 /\ result = {}
  /\ stage = "call" => from = asked.from /\ cnt = asked.cnt /\ cnt > 0 /\ result = {}
  /\ ~Working => candidates = <<>>

(* During the work of an allocator: what was asked for has been taken, is  *)
(* still wanted, or is left, and the candidates can be taken.              *)
Books ==
  Working =>
    /\ IsKnown("allocator")
    /\ Cardinality(asked.from) > asked.cnt
    /\ from = asked.from \ result
    /\ Cardinality(result) + cnt = asked.cnt
    /\ result \cap offline = {}
    /\ Candidates(candidates, from \ offline)
    /\ cnt = 0 => candidates = <<>>

(* There are as many threads to come as are wanted, or all that can be     *)
(* taken are to come.                                                      *)
LastThreads ==
  stage = "threads" /\ cnt > 0 =>
    /\ \A i \in 1 .. Len(candidates) : Cardinality(candidates[i]) = 1
    /\ \/ Len(candidates) = cnt
       \/ \A k \in from \ offline : \E i \in 1 .. Len(candidates) : k \in candidates[i]

CallInv == CallType /\ Around /\ Books /\ LastThreads /\ KeepsContract

(* What does not change while the hardware does not.                       *)
LEMMA Steady ==
  ASSUME UNCHANGED sysfsVars
  PROVE  /\ offline' = offline /\ call' = call /\ Sys' = Sys
         /\ \A u \in User : IsKnown(u)' = IsKnown(u)
         /\ Packages' = Packages /\ Cores' = Cores
BY DEF sysfsVars, offline, Sys, IsKnown, Packages, Cores

LEMMA AllocatorComplete ==
  ASSUME HardwareInv, call = Nil, IsKnown("allocator")
  PROVE  Complete(Sys)
BY DEF HardwareInv, Settled, Building, Sys, User

(* The sets of a call are finite.                                          *)
LEMMA CallFinite ==
  ASSUME CallType
  PROVE  /\ asked.from \in SUBSET CPU /\ asked.cnt \in Nat /\ cnt \in Nat
         /\ \A S \in SUBSET CPU : IsFiniteSet(S) /\ Cardinality(S) \in Nat
         /\ \A S \in SUBSET CPU : S # {} => Cardinality(S) > 0
<1>1. \A S \in SUBSET CPU : IsFiniteSet(S) /\ Cardinality(S) \in Nat
  BY CPUAssumption, FS_Subset, FS_CardinalityType
<1>2. \A S \in SUBSET CPU : S # {} => Cardinality(S) > 0
  BY <1>1, FS_EmptySet
<1> QED BY <1>1, <1>2 DEF CallType

(* One round of a loop, in terms of what it does.                          *)
LEMMA ConsiderStep ==
  ASSUME CallInv, Consider
  PROVE  LET cset == candidates[1] IN
         /\ Working /\ cnt > 0 /\ Len(candidates) \in Nat /\ Len(candidates) >= 1
         /\ cset \in SUBSET (from \ offline) /\ cset \subseteq CPU
         /\ Cardinality(cset) \in Nat
         /\ UNCHANGED <<asked, stage>> /\ UNCHANGED sysfsVars
         /\ \/ /\ Cardinality(cset) <= cnt
               /\ result' = result \cup cset /\ from' = from \ cset
               /\ cnt' = cnt - Cardinality(cset)
            \/ /\ Cardinality(cset) > cnt
               /\ UNCHANGED <<result, from, cnt>>
         /\ \/ cnt' = 0 /\ candidates' = <<>>
            \/ /\ cnt' # 0 /\ candidates' \in Seq(SUBSET (from \ offline))
               /\ Len(candidates') = Len(candidates) - 1
               /\ \A i \in 1 .. Len(candidates') : candidates'[i] = candidates[i + 1]
<1> DEFINE cset == candidates[1]
<1>1. candidates # <<>> /\ Working
  BY DEF Consider, CallInv, Around
<1>2. candidates \in Seq(SUBSET (from \ offline)) /\ cnt # 0 /\ cnt \in Nat
  BY <1>1, CallFinite DEF CallInv, Books, Candidates
<1>3. /\ Len(candidates) \in Nat /\ Len(candidates) >= 1
      /\ Head(candidates) = cset /\ cset \in SUBSET (from \ offline)
      /\ Tail(candidates) \in Seq(SUBSET (from \ offline))
      /\ Len(Tail(candidates)) = Len(candidates) - 1
      /\ \A i \in 1 .. Len(candidates) - 1 : Tail(candidates)[i] = candidates[i + 1]
  BY <1>1, <1>2, TailOf
<1>4. cset \subseteq CPU /\ Cardinality(cset) \in Nat
  BY <1>3, CallFinite DEF CallInv, CallType
<1>5. /\ UNCHANGED <<asked, stage>> /\ UNCHANGED sysfsVars
      /\ IF cnt >= Cardinality(cset)
           THEN /\ result' = result \cup cset
                /\ from' = from \ cset
                /\ cnt' = cnt - Cardinality(cset)
                /\ candidates' = IF cnt' = 0 THEN <<>> ELSE Tail(candidates)
           ELSE candidates' = Tail(candidates) /\ UNCHANGED <<from, cnt, result>>
  BY <1>3 DEF Consider
<1> HIDE DEF cset
<1>6. \/ /\ Cardinality(cset) <= cnt
         /\ result' = result \cup cset /\ from' = from \ cset
         /\ cnt' = cnt - Cardinality(cset)
      \/ /\ Cardinality(cset) > cnt
         /\ UNCHANGED <<result, from, cnt>>
  BY <1>2, <1>4, <1>5
<1>7. \/ cnt' = 0 /\ candidates' = <<>>
      \/ cnt' # 0 /\ candidates' = Tail(candidates)
  BY <1>2, <1>4, <1>5
<1>8. \/ cnt' = 0 /\ candidates' = <<>>
      \/ /\ cnt' # 0 /\ candidates' \in Seq(SUBSET (from \ offline))
         /\ Len(candidates') = Len(candidates) - 1
         /\ \A i \in 1 .. Len(candidates') : candidates'[i] = candidates[i + 1]
  BY <1>3, <1>7
<1>9. cnt > 0
  BY <1>2
<1> QED BY <1>1, <1>3, <1>4, <1>5, <1>6, <1>8, <1>9, Zenon DEF cset

LEMMA ConsiderInv ==
  ASSUME CallInv, Consider
  PROVE  CallInv'
<1> DEFINE cset == candidates[1]
           n == Len(candidates)
<1>1. /\ Working /\ cnt > 0 /\ n \in Nat /\ n >= 1
      /\ cset \in SUBSET (from \ offline) /\ cset \subseteq CPU /\ Cardinality(cset) \in Nat
      /\ UNCHANGED <<asked, stage>> /\ UNCHANGED sysfsVars
  BY ConsiderStep
<1>2. \/ /\ Cardinality(cset) <= cnt
         /\ result' = result \cup cset /\ from' = from \ cset
         /\ cnt' = cnt - Cardinality(cset)
      \/ /\ Cardinality(cset) > cnt
         /\ UNCHANGED <<result, from, cnt>>
  BY ConsiderStep
<1>3. \/ cnt' = 0 /\ candidates' = <<>>
      \/ /\ cnt' # 0 /\ candidates' \in Seq(SUBSET (from \ offline))
         /\ Len(candidates') = n - 1
         /\ \A i \in 1 .. Len(candidates') : candidates'[i] = candidates[i + 1]
  BY ConsiderStep
<1>4. /\ asked.from \in SUBSET CPU /\ asked.cnt \in Nat /\ cnt \in Nat
      /\ from \subseteq asked.from /\ result \subseteq asked.from /\ cnt <= asked.cnt
      /\ IsFiniteSet(result) /\ Cardinality(result) \in Nat /\ IsFiniteSet(cset)
  BY <1>1, CallFinite DEF CallInv, CallType
<1>5. /\ IsKnown("allocator") /\ Cardinality(asked.from) > asked.cnt
      /\ from = asked.from \ result /\ Cardinality(result) + cnt = asked.cnt
      /\ result \cap offline = {}
      /\ candidates \in Seq(SUBSET (from \ offline))
      /\ \A i, j \in 1 .. n : i # j => candidates[i] \cap candidates[j] = {}
  BY <1>1 DEF CallInv, Books, Candidates
<1>6. /\ offline' = offline /\ call' = call /\ IsKnown("allocator")'
  BY <1>1, <1>5, Steady DEF User
<1>7. \A i \in 1 .. n : candidates[i] \in SUBSET (from \ offline)
  BY <1>5
<1> HIDE DEF cset, n
<1>8. /\ from' = asked.from \ result' /\ from' \subseteq from
      /\ result' \subseteq asked.from /\ result' \cap offline = {}
  BY <1>1, <1>2, <1>4, <1>5
<1>9. cnt' \in Nat /\ cnt' <= cnt /\ Cardinality(result') + cnt' = asked.cnt
  <2>1. CASE /\ Cardinality(cset) <= cnt
             /\ result' = result \cup cset /\ from' = from \ cset
             /\ cnt' = cnt - Cardinality(cset)
    <3>1. result \cap cset = {}
      BY <1>1, <1>5
    <3>2. Cardinality(result \cup cset) = Cardinality(result) + Cardinality(cset) - Cardinality(result \cap cset)
      BY <1>4, FS_Union
    <3>3. Cardinality(result \cap cset) = 0
      BY <3>1, FS_EmptySet
    <3> QED BY <1>1, <1>4, <1>5, <2>1, <3>2, <3>3
  <2>2. CASE UNCHANGED <<result, from, cnt>>
    BY <1>4, <1>5, <2>2
  <2> QED BY <1>2, <2>1, <2>2
<1>10. Candidates(candidates', from' \ offline)
  <2>1. CASE candidates' = <<>>
    BY <2>1 DEF Candidates
  <2>2. CASE candidates' # <<>>
    <3>1. /\ candidates' \in Seq(SUBSET (from \ offline)) /\ Len(candidates') = n - 1
          /\ \A i \in 1 .. n - 1 : candidates'[i] = candidates[i + 1]
      BY <1>3, <2>2
    <3>2. \A i \in 1 .. n - 1 : candidates'[i] \in SUBSET (from \ offline) /\ candidates'[i] \cap cset = {}
      <4> SUFFICES ASSUME NEW i \in 1 .. n - 1
                   PROVE  candidates'[i] \in SUBSET (from \ offline) /\ candidates'[i] \cap cset = {}
        OBVIOUS
      <4>1. i + 1 \in 1 .. n /\ 1 \in 1 .. n /\ i + 1 # 1
        BY <1>1
      <4>2. candidates[i + 1] \cap candidates[1] = {} /\ candidates[i + 1] \in SUBSET (from \ offline)
        BY <1>5, <1>7, <4>1
      <4> QED BY <3>1, <4>2 DEF cset
    <3>3. \A i \in 1 .. n - 1 : candidates'[i] \in SUBSET (from' \ offline)
      BY <1>2, <3>2
    <3>4. candidates' \in Seq(SUBSET (from' \ offline))
      BY <1>1, <3>1, <3>3, SeqOf
    <3>5. \A i, j \in 1 .. n - 1 : i # j => candidates'[i] \cap candidates'[j] = {}
      <4> SUFFICES ASSUME NEW i \in 1 .. n - 1, NEW j \in 1 .. n - 1, i # j
                   PROVE  candidates'[i] \cap candidates'[j] = {}
        OBVIOUS
      <4>1. i + 1 \in 1 .. n /\ j + 1 \in 1 .. n /\ i + 1 # j + 1
        BY <1>1
      <4>2. candidates[i + 1] \cap candidates[j + 1] = {}
        BY <1>5, <4>1
      <4> QED BY <3>1, <4>2
    <3> QED BY <3>1, <3>4, <3>5 DEF Candidates
  <2> QED BY <2>1, <2>2
<1>11. Books'
  BY <1>1, <1>3, <1>5, <1>6, <1>8, <1>9, <1>10 DEF Books, Working
<1>12. candidates' \in Seq(SUBSET CPU)
  <2>1. \A S, T : S \subseteq T => Seq(S) \subseteq Seq(T)
    BY SeqMonotonic
  <2>2. SUBSET (from' \ offline) \subseteq SUBSET CPU
    BY <1>4, <1>8
  <2> QED BY <1>10, <2>1, <2>2 DEF Candidates
<1>13. CallType'
  BY <1>1, <1>4, <1>8, <1>9, <1>12 DEF CallInv, CallType
<1>14. Around'
  BY <1>1, <1>6 DEF CallInv, Around, Working
<1>15. LastThreads'
  <2> SUFFICES ASSUME stage = "threads", cnt' > 0
               PROVE  /\ \A i \in 1 .. Len(candidates') : Cardinality(candidates'[i]) = 1
                      /\ \/ Len(candidates') = cnt'
                         \/ \A k \in from' \ offline : \E i \in 1 .. Len(candidates') : k \in candidates'[i]
    BY <1>1, <1>6 DEF LastThreads
  <2>1. /\ Len(candidates') = n - 1
        /\ \A i \in 1 .. n - 1 : candidates'[i] = candidates[i + 1]
    BY <1>3, <1>9
  <2>2. /\ \A i \in 1 .. n : Cardinality(candidates[i]) = 1
        /\ n = cnt \/ \A k \in from \ offline : \E i \in 1 .. n : k \in candidates[i]
    BY <1>1 DEF CallInv, LastThreads, n
  <2>3. Cardinality(cset) = 1
    BY <1>1, <2>2 DEF cset
  <2>4. from' = from \ cset /\ cnt' = cnt - 1
    BY <1>1, <1>2, <1>4, <2>3
  <2>5. \A i \in 1 .. n - 1 : Cardinality(candidates'[i]) = 1
    <3>1. \A i \in 1 .. n - 1 : i + 1 \in 1 .. n
      BY <1>1
    <3> QED BY <2>1, <2>2, <3>1
  <2>6. CASE n = cnt
    BY <2>1, <2>4, <2>5, <2>6
  <2>7. CASE \A k \in from \ offline : \E i \in 1 .. n : k \in candidates[i]
    <3> SUFFICES ASSUME NEW k \in from' \ offline PROVE \E i \in 1 .. n - 1 : k \in candidates'[i]
      BY <2>1, <2>5
    <3>1. PICK i \in 1 .. n : k \in candidates[i]
      BY <2>4, <2>7
    <3>2. i # 1
      BY <2>4, <3>1 DEF cset
    <3>3. i - 1 \in 1 .. n - 1 /\ (i - 1) + 1 = i
      BY <1>1, <3>1, <3>2
    <3> QED BY <2>1, <3>1, <3>3
  <2> QED BY <2>2, <2>6, <2>7
<1>16. KeepsContract'
  BY <1>1 DEF KeepsContract, Working
<1> QED BY <1>11, <1>13, <1>14, <1>15, <1>16 DEF CallInv

(* What holds of a call in whose work the first candidates are looked for. *)
LEMMA StageInv ==
  ASSUME CallInv, UNCHANGED <<asked, from, cnt, result>>, UNCHANGED sysfsVars,
         stage \in {"call", "packages", "cores"}, stage' \in {"packages", "cores", "threads"},
         IsKnown("allocator"), Cardinality(asked.from) > asked.cnt,
         from = asked.from \ result, Cardinality(result) + cnt = asked.cnt, result \cap offline = {},
         cnt > 0, Candidates(candidates', from \ offline)
  PROVE  CallType' /\ Around' /\ Books' /\ KeepsContract'
<1>1. offline' = offline /\ call' = call /\ IsKnown("allocator")'
  BY Steady DEF User
<1>2. from \ offline \subseteq CPU /\ cnt \in Nat
  BY CallFinite DEF CallInv, CallType
<1>3. candidates' \in Seq(SUBSET CPU)
  <2>1. \A S, T : S \subseteq T => Seq(S) \subseteq Seq(T)
    BY SeqMonotonic
  <2>2. SUBSET (from \ offline) \subseteq SUBSET CPU
    BY <1>2
  <2> QED BY <2>1, <2>2 DEF Candidates
<1>4. CallType'
  BY <1>3 DEF CallInv, CallType
<1>5. Around'
  BY <1>1 DEF CallInv, Around, Working
<1>6. Books'
  <2>1. cnt' # 0
    BY <1>2
  <2>2. Candidates(candidates, from \ offline)'
    BY <1>1 DEF Candidates
  <2>3. /\ IsKnown("allocator")' /\ (Cardinality(asked.from) > asked.cnt)'
        /\ (from = asked.from \ result)' /\ (Cardinality(result) + cnt = asked.cnt)'
        /\ (result \cap offline = {})'
    BY <1>1
  <2> QED BY <2>1, <2>2, <2>3 DEF Books
<1>7. KeepsContract'
  BY DEF KeepsContract
<1> QED BY <1>4, <1>5, <1>6, <1>7

LEMMA CallStartInv ==
  ASSUME CallInv, Call
  PROVE  CallInv'
<1>1. /\ stage = "idle" /\ call = Nil /\ stage' = "call"
      /\ asked' \in [from: SUBSET CPU, cnt: 1 .. Cardinality(CPU)]
      /\ from' = asked'.from /\ cnt' = asked'.cnt
      /\ UNCHANGED sysfsVars /\ UNCHANGED <<result, candidates>>
  BY DEF Call
<1>2. result = {} /\ candidates = <<>>
  BY <1>1 DEF CallInv, Around, Working
<1>3. asked'.cnt \in Nat /\ asked'.cnt > 0 /\ asked' \in [from: SUBSET CPU, cnt: Nat]
  BY <1>1
<1>4. CallType'
  BY <1>1, <1>2, <1>3 DEF CallType, CallInv
<1>5. call' = call
  BY <1>1, Steady
<1>6. Around'
  BY <1>1, <1>2, <1>3, <1>5 DEF Around, Working
<1>7. Books' /\ LastThreads' /\ KeepsContract'
  BY <1>1 DEF Books, LastThreads, KeepsContract, Working
<1> QED BY <1>4, <1>6, <1>7 DEF CallInv

LEMMA TooFewInv ==
  ASSUME CallInv, TooFew
  PROVE  CallInv'
<1>1. /\ stage = "call" /\ stage' = "done" /\ Cardinality(from) < cnt
      /\ UNCHANGED sysfsVars /\ UNCHANGED <<asked, from, cnt, result, candidates>>
  BY DEF TooFew
<1>2. from = asked.from /\ cnt = asked.cnt /\ result = {} /\ candidates = <<>> /\ call = Nil
  BY <1>1 DEF CallInv, Around, Working
<1>3. offline' = offline /\ call' = call
  BY <1>1, Steady
<1>4. CallType' /\ Around' /\ Books' /\ LastThreads'
  BY <1>1, <1>2, <1>3 DEF CallInv, CallType, Around, Books, LastThreads, Working
<1>5. KeepsContract'
  <2>1. Cardinality(asked.from) \in Nat /\ asked.cnt \in Nat
    BY CallFinite DEF CallInv
  <2>2. AllocationOutcomes(offline, asked.from, asked.cnt) = {}
    BY <1>1, <1>2, <2>1 DEF AllocationOutcomes
  <2> QED BY <1>1, <1>2, <1>3, <2>2 DEF KeepsContract
<1> QED BY <1>4, <1>5 DEF CallInv

LEMMA TakeAllInv ==
  ASSUME CallInv, TakeAll
  PROVE  CallInv'
<1>1. /\ stage = "call" /\ stage' = "done" /\ Cardinality(from) = cnt
      /\ result' = from /\ from' = {}
      /\ UNCHANGED sysfsVars /\ UNCHANGED <<asked, cnt, candidates>>
  BY DEF TakeAll
<1>2. from = asked.from /\ cnt = asked.cnt /\ candidates = <<>> /\ call = Nil
  BY <1>1 DEF CallInv, Around, Working
<1>3. offline' = offline /\ call' = call
  BY <1>1, Steady
<1>4. CallType' /\ Around' /\ Books' /\ LastThreads'
  BY <1>1, <1>2, <1>3 DEF CallInv, CallType, Around, Books, LastThreads, Working
<1>5. KeepsContract'
  <2>1. AllocationOutcomes(offline, asked.from, asked.cnt) = {[got |-> asked.from, rest |-> {}]}
    BY <1>1, <1>2 DEF AllocationOutcomes
  <2> QED BY <1>1, <1>2, <1>3, <2>1 DEF KeepsContract
<1> QED BY <1>4, <1>5 DEF CallInv

LEMMA StartPackagesInv ==
  ASSUME HardwareInv, CallInv, StartPackages
  PROVE  CallInv'
<1>1. /\ stage = "call" /\ Cardinality(from) > cnt
      /\ IF IsKnown("allocator") THEN stage' = "packages" /\ candidates' = IdlePackages
                                 ELSE stage' = "panic" /\ UNCHANGED candidates
      /\ UNCHANGED sysfsVars /\ UNCHANGED <<asked, from, cnt, result>>
  BY DEF StartPackages
<1>2. /\ from = asked.from /\ cnt = asked.cnt /\ cnt > 0 /\ result = {}
      /\ candidates = <<>> /\ call = Nil
  BY <1>1 DEF CallInv, Around, Working
<1>3. CASE IsKnown("allocator")
  <2>1. Candidates(candidates', from \ offline)
    BY <1>1, <1>2, <1>3, AllocatorComplete, PackageCandidates DEF CallInv, CallType
  <2>2. from = asked.from \ result /\ result \cap offline = {}
    BY <1>2
  <2>3. Cardinality(result) + cnt = asked.cnt
    BY <1>2, FS_EmptySet, CallFinite DEF CallInv
  <2>4. CallType' /\ Around' /\ Books' /\ KeepsContract'
    BY <1>1, <1>2, <1>3, <2>1, <2>2, <2>3, StageInv
  <2>5. LastThreads'
    BY <1>1, <1>3 DEF LastThreads
  <2> QED BY <2>4, <2>5 DEF CallInv
<1>4. CASE ~IsKnown("allocator")
  <2>1. call' = call
    BY <1>1, Steady
  <2> QED BY <1>1, <1>2, <1>4, <2>1
          DEF CallInv, CallType, Around, Books, LastThreads, KeepsContract, Working
<1> QED BY <1>3, <1>4

LEMMA StartCoresInv ==
  ASSUME HardwareInv, CallInv, StartCores
  PROVE  CallInv'
<1>1. /\ stage = "packages" /\ candidates = <<>> /\ cnt > 0
      /\ IF DeadCore THEN stage' = "panic" /\ UNCHANGED candidates
                     ELSE stage' = "cores" /\ candidates' = IdleCores
      /\ UNCHANGED sysfsVars /\ UNCHANGED <<asked, from, cnt, result>>
  BY DEF StartCores
<1>2. /\ IsKnown("allocator") /\ Cardinality(asked.from) > asked.cnt
      /\ from = asked.from \ result /\ Cardinality(result) + cnt = asked.cnt
      /\ result \cap offline = {} /\ call = Nil
  BY <1>1 DEF CallInv, Around, Books, Working
<1>3. CASE ~DeadCore
  <2>1. from \subseteq CPU
    BY DEF CallInv, CallType
  <2>2. Candidates(candidates', from \ offline)
    BY <1>1, <1>2, <1>3, <2>1, AllocatorComplete, CoreCandidates
  <2>3. CallType' /\ Around' /\ Books' /\ KeepsContract'
    BY <1>1, <1>2, <1>3, <2>2, StageInv
  <2>4. LastThreads'
    BY <1>1, <1>3 DEF LastThreads
  <2> QED BY <2>3, <2>4 DEF CallInv
<1>4. CASE DeadCore
  <2>1. call' = call
    BY <1>1, Steady
  <2> QED BY <1>1, <1>2, <1>4, <2>1
          DEF CallInv, CallType, Around, Books, LastThreads, KeepsContract, Working
<1> QED BY <1>3, <1>4

(* The threads the last loop goes through.                                 *)
LEMMA ThreadCandidates ==
  ASSUME CallType, StartThreads
  PROVE  /\ Candidates(candidates', from \ offline) /\ Len(candidates') \in Nat
         /\ \A i \in 1 .. Len(candidates') : \E k \in from \ offline : candidates'[i] = {k}
         /\ \/ Len(candidates') = cnt
            \/ \A k \in from \ offline : \E i \in 1 .. Len(candidates') : k \in candidates'[i]
<1>1. PICK s \in ThreadOrders : candidates' = [n \in DOMAIN s |-> {s[n]}]
  BY DEF StartThreads
<1> DEFINE c == candidates'
           n == IF cnt < Cardinality(Threads) THEN cnt ELSE Cardinality(Threads)
<1>2. /\ IsFiniteSet(Threads) /\ Cardinality(Threads) \in Nat /\ cnt \in Nat
      /\ Threads = from \ offline
  <2>1. Threads \in SUBSET CPU
    BY DEF Threads, CallType
  <2> QED BY <2>1, CallFinite DEF Threads
<1>3. n \in Nat
  BY <1>2
<1>4. s \in [1 .. n -> Threads] /\ IsInjective(s)
  BY DEF ThreadOrders
<1>5. n = cnt \/ n = Cardinality(Threads)
  OBVIOUS
<1> HIDE DEF n, c
<1>6. /\ c = [i \in 1 .. n |-> c[i]] /\ \A i \in 1 .. n : c[i] = {s[i]} /\ s[i] \in Threads
  BY <1>1, <1>4 DEF c
<1>7. c \in Seq(SUBSET Threads) /\ Len(c) = n
  <2>1. \A i \in 1 .. n : c[i] \in SUBSET Threads
    BY <1>6
  <2> QED BY <1>3, <1>6, <2>1, SeqOf
<1>8. \A i, j \in 1 .. n : i # j => c[i] \cap c[j] = {}
  BY <1>4, <1>6 DEF IsInjective
<1>9. n = Cardinality(Threads) => \A k \in Threads : \E i \in 1 .. n : k \in c[i]
  <2> SUFFICES ASSUME n = Cardinality(Threads) PROVE \A k \in Threads : \E i \in 1 .. n : s[i] = k
    BY <1>6
  <2>1. Cardinality(1 .. n) = n
    BY <1>3, FS_Interval
  <2>2. s \in Injection(1 .. n, Threads)
    BY <1>4 DEF Injection
  <2>3. s \in Surjection(1 .. n, Threads)
    BY <1>2, <2>1, <2>2, FS_Injection
  <2> QED BY <2>3 DEF Surjection
<1>10. Candidates(c, from \ offline)
  BY <1>2, <1>7, <1>8 DEF Candidates
<1> QED BY <1>2, <1>3, <1>5, <1>6, <1>7, <1>9, <1>10 DEF c

LEMMA StartThreadsInv ==
  ASSUME CallInv, StartThreads
  PROVE  CallInv'
<1>1. /\ stage = "cores" /\ candidates = <<>> /\ cnt > 0 /\ stage' = "threads"
      /\ UNCHANGED sysfsVars /\ UNCHANGED <<asked, from, cnt, result>>
  BY DEF StartThreads
<1>2. /\ IsKnown("allocator") /\ Cardinality(asked.from) > asked.cnt
      /\ from = asked.from \ result /\ Cardinality(result) + cnt = asked.cnt
      /\ result \cap offline = {}
  BY <1>1 DEF CallInv, Books, Working
<1>3. /\ Candidates(candidates', from \ offline) /\ Len(candidates') \in Nat
      /\ \A i \in 1 .. Len(candidates') : \E k \in from \ offline : candidates'[i] = {k}
      /\ \/ Len(candidates') = cnt
         \/ \A k \in from \ offline : \E i \in 1 .. Len(candidates') : k \in candidates'[i]
  BY ThreadCandidates DEF CallInv
<1>4. CallType' /\ Around' /\ Books' /\ KeepsContract'
  BY <1>1, <1>2, <1>3, StageInv
<1>5. \A i \in 1 .. Len(candidates') : Cardinality(candidates'[i]) = 1
  BY <1>3, FS_Singleton
<1>6. offline' = offline
  BY <1>1, Steady
<1>7. LastThreads'
  BY <1>1, <1>3, <1>5, <1>6 DEF LastThreads
<1> QED BY <1>4, <1>7 DEF CallInv

LEMMA FinishInv ==
  ASSUME CallInv, Finish
  PROVE  CallInv'
<1>1. /\ Working /\ candidates = <<>> /\ cnt = 0 /\ stage' = "done"
      /\ UNCHANGED sysfsVars /\ UNCHANGED <<asked, from, cnt, result, candidates>>
  BY DEF Finish, Working
<1>2. /\ Cardinality(asked.from) > asked.cnt /\ result \subseteq asked.from
      /\ from = asked.from \ result /\ Cardinality(result) + cnt = asked.cnt
      /\ result \cap offline = {} /\ call = Nil
  BY <1>1 DEF CallInv, CallType, Around, Books, Working
<1>3. offline' = offline /\ call' = call
  BY <1>1, Steady
<1>4. CallType' /\ Around' /\ Books' /\ LastThreads'
  BY <1>1, <1>2, <1>3 DEF CallInv, CallType, Around, Books, LastThreads, Working
<1>5. KeepsContract'
  <2> DEFINE usable == asked.from \ offline
  <2>1. /\ Cardinality(asked.from) \in Nat /\ asked.cnt \in Nat /\ Cardinality(result) \in Nat
        /\ IsFiniteSet(usable) /\ Cardinality(usable) \in Nat
    BY <1>2, CallFinite DEF CallInv
  <2>2. result \in SUBSET usable
    BY <1>2
  <2>3. Cardinality(result) = asked.cnt
    BY <1>1, <1>2, <2>1
  <2>4. Cardinality(usable) >= asked.cnt
    BY <2>1, <2>2, <2>3, FS_Subset
  <2>5. AllocationOutcomes(offline, asked.from, asked.cnt) =
          {[got |-> S, rest |-> asked.from \ S] : S \in kSubset(asked.cnt, usable)}
    BY <1>2, <2>1, <2>4 DEF AllocationOutcomes
  <2>6. result \in kSubset(asked.cnt, usable)
    BY <2>2, <2>3 DEF kSubset
  <2>7. [got |-> result, rest |-> from] \in AllocationOutcomes(offline, asked.from, asked.cnt)
    BY <1>2, <2>5, <2>6
  <2> QED BY <1>1, <1>3, <2>7 DEF KeepsContract
<1> QED BY <1>4, <1>5 DEF CallInv

LEMMA GiveUpInv ==
  ASSUME CallInv, GiveUp
  PROVE  CallInv'
<1>1. /\ stage = "threads" /\ Working /\ candidates = <<>> /\ cnt > 0 /\ stage' = "done" /\ result' = {}
      /\ UNCHANGED sysfsVars /\ UNCHANGED <<asked, from, cnt, candidates>>
  BY DEF GiveUp, Working
<1>2. /\ Cardinality(asked.from) > asked.cnt /\ result \subseteq asked.from
      /\ from = asked.from \ result /\ Cardinality(result) + cnt = asked.cnt
      /\ result \cap offline = {} /\ call = Nil
  BY <1>1 DEF CallInv, CallType, Around, Books, Working
<1>3. offline' = offline /\ call' = call
  BY <1>1, Steady
<1>4. CallType' /\ Around' /\ Books' /\ LastThreads'
  BY <1>1, <1>2, <1>3 DEF CallInv, CallType, Around, Books, LastThreads, Working
<1>5. KeepsContract'
  <2> DEFINE usable == asked.from \ offline
  <2>1. /\ Cardinality(asked.from) \in Nat /\ asked.cnt \in Nat /\ Cardinality(result) \in Nat
        /\ cnt \in Nat
    BY <1>2, CallFinite DEF CallInv
  <2>2. from \ offline = {}
    <3>1. \A k \in from \ offline : \E i \in 1 .. Len(candidates) : k \in candidates[i]
      BY <1>1 DEF CallInv, LastThreads
    <3> QED BY <1>1, <3>1
  <2>3. usable = result
    BY <1>2, <2>2
  <2>4. Cardinality(usable) < asked.cnt
    <3>1. Cardinality(result) < asked.cnt
      BY <1>1, <1>2, <2>1
    <3> QED BY <2>3, <3>1
  <2>5. AllocationOutcomes(offline, asked.from, asked.cnt) = {[got |-> {}, rest |-> asked.from \ usable]}
    BY <1>2, <2>1, <2>4 DEF AllocationOutcomes
  <2>6. asked.from \ usable = from
    BY <1>2, <2>3
  <2> QED BY <1>1, <1>3, <2>5, <2>6 DEF KeepsContract
<1> QED BY <1>4, <1>5 DEF CallInv

LEMMA ReturnInv ==
  ASSUME CallInv, Return
  PROVE  CallInv'
BY DEF Return, CallInv, CallType, Around, Books, LastThreads, KeepsContract, Working, NoCall

LEMMA CallInitially ==
  ASSUME Init
  PROVE  CallInv
BY DEF Init, InitSysfs, CallInv, CallType, Around, Books, LastThreads, KeepsContract, Working, NoCall

(* The hardware moves between calls only.                                  *)
LEMMA CallHardware ==
  ASSUME CallInv, Hardware \/ UNCHANGED vars
  PROVE  CallInv'
<1>1. UNCHANGED callVars /\ (stage = "idle" \/ UNCHANGED sysfsVars)
  BY DEF Hardware, vars
<1>2. CASE stage = "idle"
  BY <1>1, <1>2 DEF callVars, CallInv, CallType, Around, Books, LastThreads, KeepsContract, Working
<1>3. CASE UNCHANGED sysfsVars
  <2>1. offline' = offline /\ call' = call /\ IsKnown("allocator")' = IsKnown("allocator")
    BY <1>3, Steady DEF User
  <2> QED BY <1>1, <2>1 DEF callVars, CallInv, CallType, Around, Books, LastThreads, KeepsContract,
             Working, Candidates
<1> QED BY <1>1, <1>2, <1>3

LEMMA CallStep ==
  ASSUME HardwareInv, CallInv, [Next]_vars
  PROVE  CallInv'
BY CallHardware, CallStartInv, TooFewInv, TakeAllInv, StartPackagesInv, ConsiderInv, FinishInv,
   StartCoresInv, StartThreadsInv, GiveUpInv, ReturnInv DEF Next, AllocatorStep

(* The inductive invariant of a call.                                      *)
THEOREM CallInvariance == Spec => [](HardwareInv /\ CallInv)
<1>1. Init => HardwareInv /\ CallInv
  BY HardwareInitially, CallInitially DEF Init
<1>2. HardwareInv /\ CallInv /\ [Next]_vars => HardwareInv' /\ CallInv'
  BY HardwareStep, NextIsHardware, CallStep
<1> QED BY <1>1, <1>2, PTL DEF Spec

LEMMA SystemsTyped ==
  ASSUME HardwareInv
  PROVE  SysfsTypeOK
<1> SUFFICES ASSUME NEW u \in User, IsKnown(u)
             PROVE  DOMAIN systems[u].cpus \subseteq CPU /\ systems[u].offline \subseteq CPU
  BY DEF SysfsTypeOK, HardwareInv, Shape
<1>1. CASE ~Building(u)
  BY <1>1 DEF HardwareInv, Settled, Complete, IsSystem, Entries
<1>2. CASE Building(u)
  <2>1. call \in Operation /\ call.user = u /\ (Running("up") \/ Running("scan") \/ Running("restore"))
    BY <1>2 DEF HardwareInv, Shape, Building, Updating, Running, Operation
  <2>2. CASE Running("up")
    BY <2>1, <2>2 DEF HardwareInv, AtUp, EmptySystem, EmptyMap
  <2>3. CASE Running("scan")
    BY <2>1, <2>3 DEF HardwareInv, AtScan, Entries
  <2>4. CASE Running("restore")
    BY <2>1, <2>4 DEF HardwareInv, AtRestore, IsSystem
  <2> QED BY <2>1, <2>2, <2>3, <2>4
<1> QED BY <1>1, <1>2

(* What the operations on the hardware and a call of the allocator keep    *)
(* has the right type.                                                     *)
THEOREM AllocatorTypeCorrect == Spec => []TypeOK
<1>1. HardwareInv /\ CallInv => TypeOK
  BY SystemsTyped DEF CallInv, CallType, TypeOK
<1> QED BY <1>1, CallInvariance, PTL

(* allocateCpus takes what it was asked for, from the CPUs that can be     *)
(* taken, or nothing, as the pool set reckons with.                        *)
THEOREM AllocatorKeepsContract == Spec => []KeepsContract
<1>1. CallInv => KeepsContract
  BY DEF CallInv
<1> QED BY <1>1, CallInvariance, PTL

-----------------------------------------------------------------------------
(* A whole package.  While packages are considered, one has been taken, or *)
(* nothing has and all that fit are to come; then, one has been taken, or  *)
(* none fits.                                                              *)
GotPackage == \E p \in FreePackages : p \subseteq result

PackageInv ==
  /\ stage = "packages" =>
       /\ \A i \in 1 .. Len(candidates) : candidates[i] \in Packages
       /\ \/ GotPackage
          \/ /\ result = {}
             /\ \A p \in FreePackages : Cardinality(p) <= cnt =>
                   \E i \in 1 .. Len(candidates) : candidates[i] = p
  /\ stage \in {"cores", "threads"} =>
       GotPackage \/ \A p \in FreePackages : ~(Cardinality(p) <= asked.cnt)
  /\ PackageWhenPossible

LEMMA FreePackageIs ==
  FreePackages = {p \in Packages : p # {} /\ p \subseteq asked.from}
BY DEF FreePackages, Packages

LEMMA FreePackagesSteady ==
  ASSUME UNCHANGED sysfsVars, UNCHANGED asked
  PROVE  FreePackages' = FreePackages
<1>1. Packages' = Packages
  BY Steady
<1>2. FreePackages' = {p \in Packages' : p # {} /\ p \subseteq asked'.from}
  BY DEF FreePackages, Packages
<1> QED BY <1>1, <1>2, FreePackageIs

LEMMA FreePackageSize ==
  ASSUME CallType
  PROVE  \A p \in FreePackages : IsFiniteSet(p) /\ Cardinality(p) \in Nat /\ Cardinality(p) > 0
<1>1. \A p \in FreePackages : p \in SUBSET CPU /\ p # {}
  BY FreePackageIs DEF CallType
<1> QED BY <1>1, CallFinite

LEMMA ConsiderPackage ==
  ASSUME CallInv, PackageInv, Consider
  PROVE  PackageInv'
<1> DEFINE cset == candidates[1]
           n == Len(candidates)
<1>1. /\ cnt > 0 /\ n \in Nat /\ n >= 1
      /\ cset \in SUBSET (from \ offline) /\ Cardinality(cset) \in Nat
      /\ UNCHANGED <<asked, stage>> /\ UNCHANGED sysfsVars /\ Working
  BY ConsiderStep
<1>2. \/ /\ Cardinality(cset) <= cnt
         /\ result' = result \cup cset /\ from' = from \ cset
         /\ cnt' = cnt - Cardinality(cset)
      \/ /\ Cardinality(cset) > cnt
         /\ UNCHANGED <<result, from, cnt>>
  BY ConsiderStep
<1>3. \/ cnt' = 0 /\ candidates' = <<>>
      \/ /\ cnt' # 0 /\ candidates' \in Seq(SUBSET (from \ offline))
         /\ Len(candidates') = n - 1
         /\ \A i \in 1 .. Len(candidates') : candidates'[i] = candidates[i + 1]
  BY ConsiderStep
<1>4. /\ FreePackages' = FreePackages /\ Packages' = Packages
      /\ from \subseteq asked.from /\ cnt \in Nat
  BY <1>1, FreePackagesSteady, Steady, CallFinite DEF CallInv, CallType
<1>5. \A p \in FreePackages : Cardinality(p) \in Nat /\ Cardinality(p) > 0
  BY FreePackageSize DEF CallInv
<1>6. GotPackage => GotPackage'
  BY <1>2, <1>4 DEF GotPackage
<1> HIDE DEF cset, n
<1>7. ASSUME stage = "packages"
      PROVE  /\ \A i \in 1 .. Len(candidates') : candidates'[i] \in Packages
             /\ \/ GotPackage'
                \/ /\ result' = {}
                   /\ \A p \in FreePackages : Cardinality(p) <= cnt' =>
                         \E i \in 1 .. Len(candidates') : candidates'[i] = p
  <2>1. /\ \A i \in 1 .. n : candidates[i] \in Packages
        /\ \/ GotPackage
           \/ /\ result = {}
              /\ \A p \in FreePackages : Cardinality(p) <= cnt => \E i \in 1 .. n : candidates[i] = p
    BY <1>7 DEF PackageInv, n
  <2>2. \A i \in 1 .. Len(candidates') : candidates'[i] \in Packages
    <3>1. CASE candidates' = <<>>
      BY <3>1
    <3>2. CASE candidates' # <<>>
      <4>1. \A i \in 1 .. n - 1 : i + 1 \in 1 .. n
        BY <1>1
      <4> QED BY <1>3, <2>1, <3>2, <4>1
    <3> QED BY <3>1, <3>2
  <2>3. CASE GotPackage
    BY <1>6, <2>2, <2>3
  <2>4. CASE /\ result = {}
             /\ \A p \in FreePackages : Cardinality(p) <= cnt => \E i \in 1 .. n : candidates[i] = p
    <3>1. cset \in Packages
      BY <1>1, <2>1 DEF cset
    <3>2. CASE Cardinality(cset) <= cnt /\ cset # {}
      <4>1. cset \in FreePackages
        BY <1>1, <1>4, <3>1, <3>2, FreePackageIs
      <4>2. cset \subseteq result'
        BY <1>1, <1>2, <1>4, <3>2
      <4>3. GotPackage'
        BY <1>4, <4>1, <4>2 DEF GotPackage
      <4> QED BY <2>2, <4>3
    <3>3. CASE ~(Cardinality(cset) <= cnt /\ cset # {})
      <4>1. result' = {} /\ cnt' = cnt
        <5>1. CASE Cardinality(cset) > cnt
          BY <1>1, <1>2, <1>4, <2>4, <5>1
        <5>2. CASE Cardinality(cset) <= cnt
          <6>1. cset = {} /\ Cardinality(cset) = 0
            BY <3>3, <5>2, FS_EmptySet
          <6> QED BY <1>1, <1>2, <1>4, <2>4, <5>2, <6>1
        <5> QED BY <1>1, <1>4, <5>1, <5>2
      <4>2. \A p \in FreePackages : Cardinality(p) <= cnt => p # cset
        BY <1>1, <1>4, <1>5, <3>3, FS_EmptySet
      <4>3. Len(candidates') = n - 1 /\ \A i \in 1 .. n - 1 : candidates'[i] = candidates[i + 1]
        BY <1>1, <1>3, <4>1
      <4>4. ASSUME NEW p \in FreePackages, Cardinality(p) <= cnt
            PROVE  \E i \in 1 .. n - 1 : candidates'[i] = p
        <5>1. PICK i \in 1 .. n : candidates[i] = p
          BY <2>4, <4>4
        <5>2. i # 1
          BY <4>2, <4>4, <5>1 DEF cset
        <5>3. i - 1 \in 1 .. n - 1 /\ (i - 1) + 1 = i
          BY <1>1, <5>1, <5>2
        <5> QED BY <4>3, <5>1, <5>3
      <4> QED BY <2>2, <4>1, <4>3, <4>4
    <3> QED BY <3>2, <3>3
  <2> QED BY <2>1, <2>3, <2>4
<1>8. PackageWhenPossible'
  BY <1>1 DEF PackageWhenPossible, Working
<1>9. stage \in {"cores", "threads"} =>
        GotPackage' \/ \A p \in FreePackages : ~(Cardinality(p) <= asked.cnt)
  BY <1>6 DEF PackageInv
<1> QED BY <1>1, <1>4, <1>7, <1>8, <1>9 DEF PackageInv

LEMMA PackageStep ==
  ASSUME HardwareInv, CallInv, PackageInv, [Next]_vars
  PROVE  PackageInv'
<1>1. CASE Hardware \/ UNCHANGED vars
  <2>1. UNCHANGED callVars /\ (stage = "idle" \/ UNCHANGED sysfsVars)
    BY <1>1 DEF Hardware, vars
  <2>2. CASE stage = "idle"
    BY <2>1, <2>2 DEF callVars, PackageInv, PackageWhenPossible
  <2>3. CASE UNCHANGED sysfsVars
    <3>1. FreePackages' = FreePackages /\ Packages' = Packages
      BY <2>1, <2>3, FreePackagesSteady, Steady DEF callVars
    <3> QED BY <2>1, <3>1 DEF callVars, PackageInv, PackageWhenPossible, GotPackage
  <2> QED BY <2>1, <2>2, <2>3
<1>2. CASE Call \/ Return
  BY <1>2 DEF Call, Return, PackageInv, PackageWhenPossible
<1>3. CASE TooFew
  BY <1>3 DEF TooFew, PackageInv, PackageWhenPossible, CallInv, Around
<1>4. CASE TakeAll
  <2>1. stage = "call" /\ stage' = "done" /\ result' = from /\ UNCHANGED sysfsVars /\ UNCHANGED asked
    BY <1>4 DEF TakeAll
  <2>2. from = asked.from
    BY <2>1 DEF CallInv, Around
  <2>3. FreePackages' = FreePackages
    BY <2>1, FreePackagesSteady
  <2>4. \A p \in FreePackages : p \subseteq result'
    BY <2>1, <2>2, FreePackageIs
  <2> QED BY <2>1, <2>3, <2>4 DEF PackageInv, PackageWhenPossible
<1>5. CASE StartPackages
  <2>1. /\ stage = "call" /\ UNCHANGED sysfsVars /\ UNCHANGED <<asked, from, cnt, result>>
        /\ \/ stage' = "packages" /\ candidates' = IdlePackages /\ IsKnown("allocator")
           \/ stage' = "panic"
    BY <1>5 DEF StartPackages
  <2>2. from = asked.from /\ result = {} /\ call = Nil /\ from \subseteq CPU
    BY <2>1 DEF CallInv, CallType, Around
  <2>3. FreePackages' = FreePackages /\ Packages' = Packages
    BY <2>1, FreePackagesSteady, Steady
  <2>4. CASE stage' = "panic"
    BY <2>4 DEF PackageInv, PackageWhenPossible
  <2>5. CASE stage' = "packages" /\ candidates' = IdlePackages /\ IsKnown("allocator")
    <3>1. Lists(candidates', Packages, from)
      BY <2>2, <2>5, AllocatorComplete, PackageCandidates
    <3>2. \A i \in 1 .. Len(candidates') : candidates'[i] \in Packages
      BY <3>1 DEF Lists
    <3>3. \A p \in FreePackages : \E i \in 1 .. Len(candidates') : candidates'[i] = p
      BY <2>2, <3>1, FreePackageIs DEF Lists
    <3> QED BY <2>1, <2>2, <2>3, <2>5, <3>2, <3>3 DEF PackageInv, PackageWhenPossible
  <2> QED BY <2>1, <2>4, <2>5
<1>6. CASE Consider
  BY <1>6, ConsiderPackage
<1>7. CASE StartCores \/ StartThreads \/ Finish
  <2>1. /\ UNCHANGED sysfsVars /\ UNCHANGED <<asked, from, cnt, result>>
        /\ Working /\ candidates = <<>> /\ stage' \in {"cores", "threads", "done", "panic"}
    BY <1>7 DEF StartCores, StartThreads, Finish, Working
  <2>2. FreePackages' = FreePackages
    BY <2>1, FreePackagesSteady
  <2>3. GotPackage \/ \A p \in FreePackages : ~(Cardinality(p) <= asked.cnt)
    <3>1. CASE stage = "packages" /\ ~GotPackage
      <4>1. result = {} /\ Len(candidates) = 0
        BY <2>1, <3>1 DEF PackageInv
      <4>2. \A p \in FreePackages : ~(Cardinality(p) <= cnt)
        BY <3>1, <4>1 DEF PackageInv
      <4>3. cnt = asked.cnt
        <5>1. Cardinality(result) + cnt = asked.cnt /\ cnt \in Nat
          BY <2>1, CallFinite DEF CallInv, Books
        <5> QED BY <4>1, <5>1, FS_EmptySet
      <4> QED BY <4>2, <4>3
    <3> QED BY <2>1, <3>1 DEF PackageInv, Working
  <2>4. GotPackage' = GotPackage
    BY <2>1, <2>2 DEF GotPackage
  <2> QED BY <2>1, <2>2, <2>3, <2>4 DEF PackageInv, PackageWhenPossible, GotPackage
<1>8. CASE GiveUp
  BY <1>8 DEF GiveUp, PackageInv, PackageWhenPossible
<1> QED BY <1>1, <1>2, <1>3, <1>4, <1>5, <1>6, <1>7, <1>8 DEF Next, AllocatorStep

(* A call of which a whole free package can be a part gets one.            *)
THEOREM PackageIsTakenWhole == Spec => []PackageWhenPossible
<1>1. Init => PackageInv
  BY DEF Init, PackageInv, PackageWhenPossible
<1>2. HardwareInv /\ CallInv /\ PackageInv /\ [Next]_vars => PackageInv'
  BY PackageStep
<1>3. PackageInv => PackageWhenPossible
  BY DEF PackageInv
<1> QED BY <1>1, <1>2, <1>3, CallInvariance, PTL DEF Spec

-----------------------------------------------------------------------------
(* Whole cores, when a core has at most two threads.  Until single threads *)
(* are taken, free cores are taken as a whole or not at all, and a core    *)
(* that is not taken, nor to come, does not fit: when single threads are   *)
(* taken, it has two, one is wanted, and it is the only core to be split.  *)
FewThreads == \A k \in CPU : Cardinality(ThreadSet[k]) <= 2

Whole(set) == \A c \in FreeCores : c \subseteq set \/ c \cap set = {}

SplitCores == {core \in FreeCores : core \cap result \notin {{}, core}}

CoreInv ==
  /\ stage \in {"packages", "cores"} =>
       Whole(result) /\ \A i \in 1 .. Len(candidates) : Whole(candidates[i])
  /\ stage = "cores" =>
       \A c \in FreeCores : \/ c \subseteq result
                            \/ Cardinality(c) > cnt
                            \/ \E i \in 1 .. Len(candidates) : candidates[i] = c
  /\ stage = "threads" /\ cnt > 0 =>
       Whole(result) /\ \A c \in FreeCores : c \subseteq result \/ cnt = 1
  /\ stage \in {"threads", "done"} => \E x : SplitCores \subseteq {x}

LEMMA FreeCoreIs ==
  FreeCores = {c \in Cores : c \subseteq asked.from}
BY DEF FreeCores, Cores

LEMMA FreeCoresSteady ==
  ASSUME UNCHANGED sysfsVars, UNCHANGED asked
  PROVE  FreeCores' = FreeCores
<1>1. Cores' = Cores
  BY Steady
<1>2. FreeCores' = {c \in Cores' : c \subseteq asked'.from}
  BY DEF FreeCores, Cores
<1> QED BY <1>1, <1>2, FreeCoreIs

LEMMA FreeCoreSize ==
  ASSUME CallType, FewThreads
  PROVE  \A c \in FreeCores : /\ c \in SUBSET CPU /\ IsFiniteSet(c) /\ Cardinality(c) \in Nat
                              /\ Cardinality(c) <= 2 /\ (c # {} => Cardinality(c) > 0)
<1> SUFFICES ASSUME NEW c \in FreeCores
             PROVE  /\ c \in SUBSET CPU /\ IsFiniteSet(c) /\ Cardinality(c) \in Nat
                    /\ Cardinality(c) <= 2 /\ (c # {} => Cardinality(c) > 0)
  OBVIOUS
<1>1. PICK k \in CPU : c = ThreadSet[k] \ offline
  BY DEF FreeCores
<1>2. ThreadSet[k] \in SUBSET CPU /\ c \in SUBSET CPU /\ c \in SUBSET ThreadSet[k]
  BY <1>1, TopologyAssumption
<1>3. Cardinality(c) <= Cardinality(ThreadSet[k])
  BY <1>2, CallFinite, FS_Subset
<1>4. Cardinality(ThreadSet[k]) <= 2 /\ Cardinality(ThreadSet[k]) \in Nat /\ Cardinality(c) \in Nat
  BY <1>2, CallFinite DEF FewThreads
<1> QED BY <1>2, <1>3, <1>4, CallFinite

(* Cores are the same or have nothing in common, and each is in a package. *)
LEMMA UnitsAreWhole ==
  /\ \A c \in Cores : Whole(c)
  /\ \A p \in Packages : Whole(p)
<1>1. ASSUME NEW c \in Cores, NEW d \in FreeCores PROVE d \subseteq c \/ d \cap c = {}
  <2> SUFFICES ASSUME NEW t, t \in d, t \in c PROVE d \subseteq c
    OBVIOUS
  <2>1. PICK j \in CPU : c = ThreadSet[j] \ offline
    BY DEF Cores
  <2>2. PICK k \in CPU : d = ThreadSet[k] \ offline
    BY DEF FreeCores
  <2>3. t \in CPU /\ t \in ThreadSet[j] /\ t \in ThreadSet[k]
    BY <2>1, <2>2, TopologyAssumption
  <2>4. ThreadSet[j] = ThreadSet[k]
    BY <2>3, TopologyAssumption
  <2> QED BY <2>1, <2>2, <2>4
<1>2. ASSUME NEW p \in Packages, NEW d \in FreeCores PROVE d \subseteq p \/ d \cap p = {}
  <2> SUFFICES ASSUME NEW t, t \in d, t \in p PROVE d \subseteq p
    OBVIOUS
  <2>1. PICK j \in CPU : p = {i \in CPU : PackageOf[i] = PackageOf[j]} \ offline
    BY DEF Packages
  <2>2. PICK k \in CPU : d = ThreadSet[k] \ offline
    BY DEF FreeCores
  <2>3. \A i \in ThreadSet[k] : i \in CPU /\ PackageOf[i] = PackageOf[k]
    BY TopologyAssumption
  <2> QED BY <2>1, <2>2, <2>3
<1> QED BY <1>1, <1>2 DEF Whole

LEMMA ConsiderCore ==
  ASSUME FewThreads, CallInv, CoreInv, Consider
  PROVE  CoreInv'
<1> DEFINE cset == candidates[1]
           n == Len(candidates)
<1>1. /\ cnt > 0 /\ n \in Nat /\ n >= 1
      /\ cset \in SUBSET (from \ offline) /\ Cardinality(cset) \in Nat
      /\ UNCHANGED <<asked, stage>> /\ UNCHANGED sysfsVars /\ Working
  BY ConsiderStep
<1>2. \/ /\ Cardinality(cset) <= cnt
         /\ result' = result \cup cset /\ from' = from \ cset
         /\ cnt' = cnt - Cardinality(cset)
      \/ /\ Cardinality(cset) > cnt
         /\ UNCHANGED <<result, from, cnt>>
  BY ConsiderStep
<1>3. \/ cnt' = 0 /\ candidates' = <<>>
      \/ /\ cnt' # 0 /\ candidates' \in Seq(SUBSET (from \ offline))
         /\ Len(candidates') = n - 1
         /\ \A i \in 1 .. Len(candidates') : candidates'[i] = candidates[i + 1]
  BY ConsiderStep
<1>4. FreeCores' = FreeCores /\ cnt \in Nat /\ cnt' \in Nat /\ cnt' <= cnt
  BY <1>1, <1>2, FreeCoresSteady, CallFinite DEF CallInv
<1>5. \A c \in FreeCores : Cardinality(c) \in Nat /\ (c # {} => Cardinality(c) > 0)
  BY FreeCoreSize DEF CallInv
<1> HIDE DEF cset, n
<1>6. ASSUME stage \in {"packages", "cores"}
      PROVE  /\ \A c \in FreeCores : c \subseteq result' \/ c \cap result' = {}
             /\ \A i \in 1 .. Len(candidates') :
                  \A c \in FreeCores : c \subseteq candidates'[i] \/ c \cap candidates'[i] = {}
  <2>1. /\ \A c \in FreeCores : c \subseteq result \/ c \cap result = {}
        /\ \A i \in 1 .. n : \A c \in FreeCores : c \subseteq candidates[i] \/ c \cap candidates[i] = {}
    BY <1>6 DEF CoreInv, Whole, n
  <2>2. \A c \in FreeCores : c \subseteq cset \/ c \cap cset = {}
    BY <1>1, <2>1 DEF cset
  <2>3. \A c \in FreeCores : c \subseteq result' \/ c \cap result' = {}
    BY <1>2, <2>1, <2>2
  <2>4. \A i \in 1 .. Len(candidates') :
          \A c \in FreeCores : c \subseteq candidates'[i] \/ c \cap candidates'[i] = {}
    <3>1. CASE candidates' = <<>>
      BY <3>1
    <3>2. CASE candidates' # <<>>
      <4>1. \A i \in 1 .. n - 1 : i + 1 \in 1 .. n
        BY <1>1
      <4> QED BY <1>3, <2>1, <3>2, <4>1
    <3> QED BY <3>1, <3>2
  <2> QED BY <2>3, <2>4
<1>7. ASSUME stage = "cores", NEW c \in FreeCores
      PROVE  \/ c \subseteq result'
             \/ Cardinality(c) > cnt'
             \/ \E i \in 1 .. Len(candidates') : candidates'[i] = c
  <2>1. CASE c \subseteq result
    BY <1>2, <2>1
  <2>2. CASE Cardinality(c) > cnt
    BY <1>4, <1>5, <2>2
  <2>3. CASE \E i \in 1 .. n : candidates[i] = c
    <3>1. PICK i \in 1 .. n : candidates[i] = c
      BY <2>3
    <3>2. CASE i = 1
      BY <1>2, <1>4, <1>5, <3>1, <3>2 DEF cset
    <3>3. CASE i # 1
      <4>1. CASE cnt' = 0
        BY <1>5, <4>1
      <4>2. CASE cnt' # 0
        <5>1. i - 1 \in 1 .. n - 1 /\ (i - 1) + 1 = i
          BY <1>1, <3>1, <3>3
        <5> QED BY <1>3, <3>1, <4>2, <5>1
      <4> QED BY <4>1, <4>2
    <3> QED BY <3>2, <3>3
  <2> QED BY <1>7, <2>1, <2>2, <2>3 DEF CoreInv, n
<1>8. ASSUME stage = "threads"
      PROVE  /\ cnt' > 0 => /\ \A c \in FreeCores : c \subseteq result' \/ c \cap result' = {}
                            /\ \A c \in FreeCores : c \subseteq result' \/ cnt' = 1
             /\ \E x : {c \in FreeCores : c \cap result' \notin {{}, c}} \subseteq {x}
  <2>1. /\ \A c \in FreeCores : c \subseteq result \/ c \cap result = {}
        /\ \A c \in FreeCores : c \subseteq result \/ cnt = 1
    BY <1>1, <1>8 DEF CoreInv, Whole
  <2>2. Cardinality(cset) = 1 /\ IsFiniteSet(cset)
    <3>1. \A i \in 1 .. n : Cardinality(candidates[i]) = 1
      BY <1>1, <1>8 DEF CallInv, LastThreads, n
    <3>2. cset \in SUBSET CPU
      BY ConsiderStep DEF cset
    <3> QED BY <1>1, <3>1, <3>2, CallFinite DEF CallInv, cset
  <2>3. PICK t : cset = {t}
    BY <2>2, FS_Singleton
  <2>4. result' = result \cup {t} /\ cnt' = cnt - 1
    BY <1>1, <1>2, <1>4, <2>2, <2>3
  <2>5. cnt' > 0 => \A c \in FreeCores : c \subseteq result'
    BY <1>4, <2>1, <2>4
  <2>6. \A c \in FreeCores : c \cap result' \notin {{}, c} => t \in c
    BY <2>1, <2>4
  <2>7. \A c \in FreeCores : t \in c => c = ThreadSet[t] \ offline
    BY TopologyAssumption DEF FreeCores
  <2>8. {c \in FreeCores : c \cap result' \notin {{}, c}} \subseteq {ThreadSet[t] \ offline}
    BY <2>6, <2>7
  <2> QED BY <2>5, <2>8
<1> QED BY <1>1, <1>4, <1>6, <1>7, <1>8 DEF CoreInv, Whole, SplitCores, Working

LEMMA CoreStep ==
  ASSUME FewThreads, HardwareInv, CallInv, CoreInv, [Next]_vars
  PROVE  CoreInv'
<1>1. CASE Hardware \/ UNCHANGED vars
  <2>1. UNCHANGED callVars /\ (stage = "idle" \/ UNCHANGED sysfsVars)
    BY <1>1 DEF Hardware, vars
  <2>2. CASE stage = "idle"
    BY <2>1, <2>2 DEF callVars, CoreInv
  <2>3. CASE UNCHANGED sysfsVars
    <3>1. FreeCores' = FreeCores
      BY <2>1, <2>3, FreeCoresSteady DEF callVars
    <3> QED BY <2>1, <3>1 DEF callVars, CoreInv, Whole, SplitCores
  <2> QED BY <2>1, <2>2, <2>3
<1>2. CASE Call \/ Return
  BY <1>2 DEF Call, Return, CoreInv
<1>3. CASE TooFew \/ GiveUp
  <2>1. stage' = "done" /\ result' = {}
    BY <1>3 DEF TooFew, GiveUp, CallInv, Around
  <2>2. SplitCores' = {}
    BY <2>1 DEF SplitCores
  <2> QED BY <2>1, <2>2 DEF CoreInv
<1>4. CASE TakeAll
  <2>1. stage = "call" /\ stage' = "done" /\ result' = from /\ UNCHANGED sysfsVars /\ UNCHANGED asked
    BY <1>4 DEF TakeAll
  <2>2. from = asked.from
    BY <2>1 DEF CallInv, Around
  <2>3. FreeCores' = FreeCores
    BY <2>1, FreeCoresSteady
  <2>4. SplitCores' = {}
    BY <2>1, <2>2, <2>3, FreeCoreIs DEF SplitCores
  <2> QED BY <2>1, <2>4 DEF CoreInv
<1>5. CASE StartPackages
  <2>1. /\ stage = "call" /\ UNCHANGED sysfsVars /\ UNCHANGED <<asked, from, cnt, result>>
        /\ \/ stage' = "packages" /\ candidates' = IdlePackages /\ IsKnown("allocator")
           \/ stage' = "panic"
    BY <1>5 DEF StartPackages
  <2>2. from = asked.from /\ result = {} /\ call = Nil /\ from \subseteq CPU
    BY <2>1 DEF CallInv, CallType, Around
  <2>3. FreeCores' = FreeCores
    BY <2>1, FreeCoresSteady
  <2>4. CASE stage' = "panic"
    BY <2>4 DEF CoreInv
  <2>5. CASE stage' = "packages" /\ candidates' = IdlePackages /\ IsKnown("allocator")
    <3>1. Lists(candidates', Packages, from)
      BY <2>2, <2>5, AllocatorComplete, PackageCandidates
    <3>2. \A i \in 1 .. Len(candidates') : Whole(candidates'[i])
      BY <3>1, UnitsAreWhole DEF Lists
    <3> QED BY <2>1, <2>2, <2>3, <2>5, <3>2 DEF CoreInv, Whole
  <2> QED BY <2>1, <2>4, <2>5
<1>6. CASE Consider
  BY <1>6, ConsiderCore
<1>7. CASE Finish
  <2>1. /\ UNCHANGED sysfsVars /\ UNCHANGED <<asked, from, cnt, result>> /\ Working /\ stage' = "done"
    BY <1>7 DEF Finish, Working
  <2>2. FreeCores' = FreeCores
    BY <2>1, FreeCoresSteady
  <2>3. SplitCores' = SplitCores
    BY <2>1, <2>2 DEF SplitCores
  <2>4. \E x : SplitCores \subseteq {x}
    <3>1. CASE stage = "threads"
      BY <3>1 DEF CoreInv
    <3>2. CASE stage \in {"packages", "cores"}
      <4>1. \A c \in FreeCores : c \subseteq result \/ c \cap result = {}
        BY <3>2 DEF CoreInv, Whole
      <4>2. SplitCores = {}
        BY <4>1 DEF SplitCores
      <4> QED BY <4>2
    <3> QED BY <2>1, <3>1, <3>2 DEF Working
  <2> QED BY <2>1, <2>3, <2>4 DEF CoreInv
<1>8. CASE StartCores
  <2>1. /\ stage = "packages" /\ UNCHANGED sysfsVars /\ UNCHANGED <<asked, from, cnt, result>>
        /\ \/ stage' = "cores" /\ candidates' = IdleCores
           \/ stage' = "panic"
    BY <1>8 DEF StartCores
  <2>2. from = asked.from \ result /\ IsKnown("allocator") /\ call = Nil /\ from \subseteq CPU
    BY <2>1 DEF CallInv, CallType, Around, Books, Working
  <2>3. FreeCores' = FreeCores
    BY <2>1, FreeCoresSteady
  <2>4. CASE stage' = "panic"
    BY <2>4 DEF CoreInv
  <2>5. CASE stage' = "cores" /\ candidates' = IdleCores
    <3>1. Lists(candidates', Cores, from)
      BY <2>2, <2>5, AllocatorComplete, CoreCandidates
    <3>2. \A i \in 1 .. Len(candidates') : Whole(candidates'[i])
      BY <3>1, UnitsAreWhole DEF Lists
    <3>3. Whole(result)
      BY <2>1 DEF CoreInv
    <3>4. \A c \in FreeCores : c \subseteq result \/ \E i \in 1 .. Len(candidates') : candidates'[i] = c
      <4> SUFFICES ASSUME NEW c \in FreeCores, ~(c \subseteq result)
                   PROVE  \E i \in 1 .. Len(candidates') : candidates'[i] = c
        OBVIOUS
      <4>1. c \in Cores /\ c \subseteq asked.from /\ c \cap result = {} /\ c # {}
        BY <3>3, FreeCoreIs DEF Whole
      <4> QED BY <2>2, <3>1, <4>1 DEF Lists
    <3> QED BY <2>1, <2>3, <2>5, <3>2, <3>3, <3>4 DEF CoreInv, Whole
  <2> QED BY <2>1, <2>4, <2>5
<1>9. CASE StartThreads
  <2>1. /\ stage = "cores" /\ stage' = "threads" /\ candidates = <<>> /\ cnt > 0
        /\ UNCHANGED sysfsVars /\ UNCHANGED <<asked, from, cnt, result>>
    BY <1>9 DEF StartThreads
  <2>2. FreeCores' = FreeCores
    BY <2>1, FreeCoresSteady
  <2>3. \A c \in FreeCores : c \subseteq result \/ c \cap result = {}
    BY <2>1 DEF CoreInv, Whole
  <2>4. ASSUME NEW c \in FreeCores PROVE c \subseteq result \/ cnt = 1
    <3>1. c \subseteq result \/ Cardinality(c) > cnt
      BY <2>1 DEF CoreInv
    <3>2. Cardinality(c) \in Nat /\ Cardinality(c) <= 2 /\ cnt \in Nat
      BY FreeCoreSize, CallFinite DEF CallInv
    <3> QED BY <2>1, <3>1, <3>2
  <2>5. {c \in FreeCores : c \cap result \notin {{}, c}} \subseteq {{}}
    BY <2>3
  <2> QED BY <2>1, <2>2, <2>3, <2>4, <2>5 DEF CoreInv, Whole, SplitCores
<1> QED BY <1>1, <1>2, <1>3, <1>4, <1>5, <1>6, <1>7, <1>8, <1>9 DEF Next, AllocatorStep

(* At most one free core is split by a call, when no core has more than    *)
(* two threads.                                                            *)
THEOREM OneCoreIsSplit ==
  ASSUME FewThreads
  PROVE  Spec => []AtMostOneCoreSplit
<1>1. Init => CoreInv
  BY DEF Init, CoreInv
<1>2. HardwareInv /\ CallInv /\ CoreInv /\ [Next]_vars => CoreInv'
  BY CoreStep
<1>3. CoreInv => AtMostOneCoreSplit
  <2> SUFFICES ASSUME CoreInv, stage = "done" PROVE Cardinality(SplitCores) <= 1
    BY DEF AtMostOneCoreSplit, SplitCores
  <2>1. PICK x : SplitCores \subseteq {x}
    BY DEF CoreInv
  <2>2. IsFiniteSet({x}) /\ Cardinality({x}) = 1
    BY FS_Singleton
  <2> QED BY <2>1, <2>2, FS_Subset
<1> QED BY <1>1, <1>2, <1>3, CallInvariance, PTL DEF Spec

=============================================================================
