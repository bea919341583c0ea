---------------------------- MODULE ZoneBenchProofs ----------------------------
(***************************************************************************)
(* Theorems about ZoneBench for any number of workers and of zones per     *)
(* worker, any device and any buffer: bench changes only zones it found    *)
(* empty, counts exactly what it wrote, and its main thread and workers    *)
(* use handles and the raw device one after the other.                     *)
(***************************************************************************)
EXTENDS ZoneBench, ZoneAllocatorProofs, FiniteSetTheorems

-----------------------------------------------------------------------------
(* The inductive invariant                                                 *)

\* The workers exist.
Spawned == list # {}

\* The places of w's handles in Slots.
Turns(w) == {i \in DOMAIN Slots : \E k \in 1 .. ZonesPerWorker : i = (w - 1) * ZonesPerWorker + k}

\* The zones that were empty when bench began.
Fresh == {z \in Zones : before[z].cond = "Empty"}

\* Types, with how much of a zone is counted.
CountsTyped ==
    /\ stage \in Stages /\ made \in 0 .. Len(Slots) /\ joined \in 0 .. NrWorkers
    /\ list \subseteq Zones /\ toReset \subseteq list
    /\ worker \in [Workers -> Workings]
    /\ zoneBytes \in [Threads -> 0 .. ZoneCap] /\ total \in Nat
    /\ before \in DriveState /\ Coherent(before)

\* What main's place in its code says of the workers.
MainInv ==
    /\ stage = "Allocate" => ~Spawned
    /\ stage \in {"Join", "Reset", "Done"} => Spawned
    /\ Spawned => \A w \in Workers : worker[w] # "Unborn"
    /\ ~Spawned => /\ joined = 0
                   /\ worker = [w \in Workers |-> "Unborn"]
                   /\ zoneBytes = [s \in Threads |-> 0]
    /\ \A w \in 1 .. joined : worker[w] = "Ok"
    /\ stage \in {"Reset", "Done"} => joined = NrWorkers
    /\ stage = "Done" => toReset = {}

\* Only main calls the allocator, for one handle after the other.
CallsInv ==
    /\ \A t \in Threads : pc[t] # "Idle" => \E i \in DOMAIN Slots : t = Slots[i]
    /\ \A t \in Threads : pc[t] \notin {"Idle", "Held"} =>
           stage = "Allocate" /\ made < Len(Slots) /\ t = NextSlot
    /\ \A t \in Threads : outcome[t] \notin {"None", "Pending", "Ok"} => pc[t] = "Idle"
    /\ stage = "Allocate" =>
           \A i \in 1 .. made : pc[Slots[i]] = "Held" /\ handle[Slots[i]].wp = 0

\* Zones in use when bench began stay as they are, and are never allocated.
FreshInv ==
    /\ \A z \in Zones \ Fresh :
           drive[z].wp = before[z].wp /\ drive[z].cond # "Empty"
    /\ \A t \in Threads : seen[t] \subseteq Fresh
    /\ \A t \in Threads :
           pc[t] \in {"Try", "Construct", "Rollback", "Held"} => target[t] \in Fresh
    /\ ~Spawned => \A z \in Zones : drive[z].wp = before[z].wp

Full(z) == drive[z].cond = "Full"
Part(z) == drive[z].wp # 0 /\ ~Full(z)

\* Handle i of a worker that has not failed: what it counted is what the handle
\* wrote, and what the drive holds.
InStep(z, s) ==
    /\ zoneBytes[s] = handle[s].wp
    /\ \/ handle[s].wp < ZoneCap /\ drive[z].wp = handle[s].wp
       \/ handle[s].wp = ZoneCap /\ Full(z)

\* A zone whose turn has not come.
Waiting(z, s) == drive[z].wp = 0 /\ handle[s].wp = 0 /\ zoneBytes[s] = 0

\* place[i] is the zone main allocated for handle i.
PlacesInv(place) ==
    /\ \A i, j \in DOMAIN Slots : i # j => place[i] # place[j]
    /\ list = {place[i] : i \in DOMAIN Slots}
    /\ \A z \in Zones \ list : drive[z].wp = before[z].wp
    /\ \A i \in DOMAIN Slots : Live(Slots[i]) => handle[Slots[i]].zone = place[i]

\* What becomes of the zones of worker w: it fills them in turn; only the one it
\* failed at stays in part.
WorkInv(place, w) ==
    /\ \A i \in Turns(w) :
           /\ Live(Slots[i]) => /\ worker[w] \in {"Running", "Failing"}
                                /\ worker[w] = "Running" => InStep(place[i], Slots[i])
                                /\ \A j \in Turns(w) : i < j =>
                                       Live(Slots[j]) /\ Waiting(place[j], Slots[j])
           /\ ~Live(Slots[i]) /\ worker[w] \in {"Running", "Ok"} =>
                  /\ zoneBytes[Slots[i]] = ZoneCap
                  /\ Full(place[i]) \/ drive[place[i]].wp = 0
                  /\ stage = "Join" => Full(place[i])
           /\ stage = "Reset" /\ place[i] \in toReset => Full(place[i])
           /\ stage \in {"Reset", "Done"} /\ place[i] \notin toReset =>
                  drive[place[i]].wp = 0
    /\ \A i, j \in Turns(w) : Part(place[i]) /\ Part(place[j]) => i = j

SpawnedInv(place) == PlacesInv(place) /\ \A w \in Workers : WorkInv(place, w)

\* The sectors that were counted: for each handle those of its zone.
Counted == {p \in (DOMAIN Slots) \X (0 .. ZoneCap - 1) : p[2] < zoneBytes[Slots[p[1]]]}

TotalInv == total = Cardinality(Counted)

BenchInv ==
    /\ AllocatorInv /\ revoked = {}
    /\ CountsTyped /\ MainInv /\ CallsInv /\ FreshInv /\ TotalInv
    /\ Spawned => \E place \in [DOMAIN Slots -> Fresh] : SpawnedInv(place)

-----------------------------------------------------------------------------
(* The slots, and whose they are                                           *)

LEMMA SlotsFacts ==
    /\ Slots \in [DOMAIN Slots -> Threads]
    /\ DOMAIN Slots = 1 .. Len(Slots) /\ Len(Slots) \in Nat \ {0}
    /\ \A i, j \in DOMAIN Slots : Slots[i] = Slots[j] => i = j
<1>1. NrWorkers * ZonesPerWorker \in Nat \ {0}
  <2> DEFINE m == NrWorkers
             n == ZonesPerWorker
  <2>1. m \in Nat \ {0} /\ n \in Nat \ {0}
    BY BenchAssumption
  <2> HIDE DEF m, n
  <2>2. m * n \in Nat \ {0}
    BY <2>1
  <2> QED BY <2>2 DEF m, n
<1> QED BY <1>1, BenchAssumption

\* Every handle is one worker's.
LEMMA TurnsCover ==
    /\ \A i \in DOMAIN Slots : \E w \in Workers : i \in Turns(w)
    /\ \A w, v \in Workers : \A i \in DOMAIN Slots : i \in Turns(w) /\ i \in Turns(v) => w = v
<1> DEFINE n == ZonesPerWorker
           m == NrWorkers
<1>1. n \in Nat \ {0} /\ m \in Nat \ {0} /\ Len(Slots) = m * n
  BY BenchAssumption
<1>2. Workers = 1 .. m /\ DOMAIN Slots = 1 .. m * n
  BY <1>1, SlotsFacts DEF Workers
<1>3. \A w, i : i \in Turns(w) <=> i \in DOMAIN Slots /\ \E k \in 1 .. n : i = (w - 1) * n + k
  BY DEF Turns
<1> HIDE DEF n, m
<1>4. ASSUME NEW i \in DOMAIN Slots PROVE \E w \in Workers : i \in Turns(w)
  <2> DEFINE q == (i - 1) \div n
  <2>1. i \in Nat /\ 1 <= i /\ i <= m * n
    BY <1>1, <1>2
  <2>2. q \in Nat /\ n * q <= i - 1 /\ i - 1 < n * q + n
    BY <1>1, <2>1
  <2> HIDE DEF q
  <2>3. q < m
    <3> SUFFICES ASSUME q >= m PROVE FALSE
      BY <1>1, <2>2
    <3>1. n * m <= n * q
      BY <1>1, <2>2
    <3> QED BY <1>1, <2>1, <2>2, <3>1
  <2> DEFINE v == q + 1
             k == i - n * q
  <2>4. v \in Workers /\ k \in 1 .. n /\ i = (v - 1) * n + k
    BY <1>1, <1>2, <2>1, <2>2, <2>3
  <2> HIDE DEF v, k
  <2>5. i \in Turns(v)
    BY <1>3, <2>4
  <2> QED BY <2>4, <2>5
<1>5. ASSUME NEW w \in Workers, NEW v \in Workers, NEW i \in DOMAIN Slots,
             i \in Turns(w), i \in Turns(v), w < v
      PROVE  FALSE
  <2>1. PICK k \in 1 .. n : i = (w - 1) * n + k
    BY <1>3, <1>5
  <2>2. PICK j \in 1 .. n : i = (v - 1) * n + j
    BY <1>3, <1>5
  <2>3. w \in Nat /\ v \in Nat /\ k \in Nat /\ j \in Nat /\ k <= n /\ 1 <= j /\ 1 <= w
    BY <1>1, <1>2
  <2>4. (v - 1) * n >= w * n
    BY <1>1, <1>5, <2>3
  <2>5. w * n = (w - 1) * n + n
    BY <1>1, <2>3
  <2> QED BY <1>1, <2>1, <2>2, <2>3, <2>4, <2>5
<1> QED
  <2>1. ASSUME NEW w \in Workers, NEW v \in Workers, NEW i \in DOMAIN Slots,
               i \in Turns(w), i \in Turns(v)
        PROVE  w = v
    BY <1>1, <1>2, <1>5, <2>1
  <2> QED BY <1>4, <2>1

LEMMA GivenTurns ==
    ASSUME NEW w \in Workers
    PROVE  Given(w) = {Slots[i] : i \in Turns(w)}
<1> DEFINE n == ZonesPerWorker
           m == NrWorkers
<1>1. n \in Nat \ {0} /\ m \in Nat \ {0} /\ DOMAIN Slots = 1 .. m * n /\ w \in 1 .. m
  BY BenchAssumption, SlotsFacts DEF Workers
<1>2. \A k \in 1 .. n : (w - 1) * n + k \in DOMAIN Slots
  <2> TAKE k \in 1 .. n
  <2> HIDE DEF n, m
  <2>1. (w - 1) * n <= (m - 1) * n /\ (w - 1) * n >= 0 /\ (w - 1) * n \in Int
    BY <1>1
  <2>2. (m - 1) * n = m * n - n /\ m * n \in Nat
    BY <1>1
  <2> QED BY <1>1, <2>1, <2>2
<1>3. \A k \in 1 .. n : Slots[(w - 1) * n + k] \in {Slots[i] : i \in Turns(w)}
  BY <1>2 DEF Turns
<1>4. \A i \in Turns(w) : \E k \in 1 .. n : i = (w - 1) * n + k
  BY DEF Turns
<1> QED BY <1>3, <1>4 DEF Given

\* The handle a worker works on, and those it has dropped.
LEMMA CurrentTurn ==
    ASSUME NEW w \in Workers, NEW s \in Threads, IsCurrent(w, s)
    PROVE  \E i \in Turns(w) :
               /\ s = Slots[i] /\ Live(s)
               /\ \A j \in Turns(w) : j < i => ~Live(Slots[j])
<1>1. PICK i \in DOMAIN Slots :
          /\ s = Slots[i] /\ s \in Given(w) /\ Live(s)
          /\ \A j \in 1 .. i - 1 : Slots[j] \in Given(w) => ~Live(Slots[j])
  BY DEF IsCurrent
<1>2. i \in Turns(w)
  BY <1>1, GivenTurns, SlotsFacts DEF Turns
<1>3. ASSUME NEW j \in Turns(w), j < i PROVE ~Live(Slots[j])
  <2>1. j \in 1 .. i - 1
    BY <1>3, SlotsFacts DEF Turns
  <2>2. Slots[j] \in Given(w)
    BY GivenTurns
  <2> QED BY <1>1, <2>1, <2>2
<1> QED BY <1>1, <1>2, <1>3

-----------------------------------------------------------------------------
(* What a step may leave as it was                                         *)

\* A write that ends within the capacity: where the drive stands afterwards.
LEMMA WriteTo ==
    ASSUME TypeOK, NEW s \in Threads, Live(s), IsSequential(handle[s].zone),
           handle[s].wp < ZoneCap, drive[handle[s].zone].wp = handle[s].wp,
           NEW k \in 0 .. MaxBuf, handle[s].wp + k <= ZoneCap, Lands(s, k)
    PROVE  /\ \A x \in Zones \ {handle[s].zone} : drive'[x] = drive[x]
           /\ handle[s].wp + k < ZoneCap => drive'[handle[s].zone].wp = handle[s].wp + k
           /\ handle[s].wp + k = ZoneCap => drive'[handle[s].zone].cond = "Full"
<1> DEFINE z == handle[s].zone
           off == handle[s].wp
<1>1. /\ z \in Zones /\ off \in Nat /\ k \in Nat /\ drive \in DriveState
      /\ ZoneLen \in Nat \ {0} /\ ZoneCap \in Nat \ {0} /\ ZoneCap <= ZoneLen
  BY DriveAssumption, HandleAssumption DEF TypeOK, Live
<1>2. drive' = Landed(drive, z, off, k) /\ off + k <= ZoneLen
  BY <1>1 DEF Lands
<1>3. \A x \in Zones \ {z} : drive'[x] = drive[x]
  BY <1>1, <1>2, LandedElsewhere
<1>4. drive'[z] = IF k > 0 THEN Advance(z, drive[z], off + k) ELSE drive[z]
  BY <1>1, <1>2 DEF Landed
<1>5. CASE k = 0
  BY <1>1, <1>3, <1>4, <1>5
<1>6. CASE k > 0
  BY <1>1, <1>3, <1>4, <1>6 DEF Advance
<1> QED BY <1>1, <1>5, <1>6

\* The drive closes zones on its own: no pointer moves, no zone becomes full,
\* none becomes empty.
LEMMA CloseKeeps ==
    ASSUME TypeOK, DriveCloses
    PROVE  \A z \in Zones :
               /\ drive'[z].wp = drive[z].wp
               /\ drive'[z].cond = "Full" <=> drive[z].cond = "Full"
               /\ drive'[z].cond = "Empty" <=> drive[z].cond = "Empty"
<1>1. PICK y \in Zones : drive' \in ImplicitCloseStates(drive, y)
  BY DEF DriveCloses
<1>2. drive[y].cond = "ImplicitlyOpen" /\ drive' = Sets(drive, y, "Closed", drive[y].wp)
  BY <1>1 DEF ImplicitCloseStates
<1> QED BY <1>2 DEF Sets, TypeOK, DriveState

\* A step that leaves the handles of worker w, their zones and their counts.
LEMMA WorkKept ==
    ASSUME NEW place, NEW w \in Workers, WorkInv(place, w),
           worker'[w] = worker[w], stage' \in {stage, "Failed"}, toReset' = toReset,
           \A i \in Turns(w) :
               /\ handle'[Slots[i]] = handle[Slots[i]]
               /\ zoneBytes'[Slots[i]] = zoneBytes[Slots[i]]
               /\ drive'[place[i]].wp = drive[place[i]].wp
               /\ drive'[place[i]].cond = "Full" <=> drive[place[i]].cond = "Full"
    PROVE  WorkInv(place, w)'
<1>1. \A i \in Turns(w) : /\ Live(Slots[i])' <=> Live(Slots[i])
                          /\ Full(place[i])' <=> Full(place[i])
                          /\ Part(place[i])' <=> Part(place[i])
  BY DEF Live, Full, Part
<1>2. \A i \in Turns(w) : /\ InStep(place[i], Slots[i])' <=> InStep(place[i], Slots[i])
                          /\ Waiting(place[i], Slots[i])' <=> Waiting(place[i], Slots[i])
  BY DEF InStep, Waiting, Full
<1> HIDE DEF Live, Full, Part, InStep, Waiting
<1> QED BY <1>1, <1>2 DEF WorkInv

\* The places of the zones are kept by every step that takes no handle anew.
LEMMA PlacesKept ==
    ASSUME NEW place, PlacesInv(place), list' = list, before' = before,
           \A z \in Zones \ list : drive'[z].wp = drive[z].wp,
           \A i \in DOMAIN Slots : handle'[Slots[i]].zone \in {handle[Slots[i]].zone, NoZone}
    PROVE  PlacesInv(place)'
BY DEF PlacesInv, Live

-----------------------------------------------------------------------------
(* Every step is one of the allocator's, or a reset of a free zone         *)

LEMMA FreshFacts ==
    ASSUME CountsTyped
    PROVE  \A z \in Fresh : z \in Zones /\ IsSequential(z) /\ before[z].wp = 0
BY DEF CountsTyped, Fresh, Coherent, DriveState

\* The handle i of worker w.
LEMMA HandleOf ==
    ASSUME BenchInv, NEW place \in [DOMAIN Slots -> Fresh], SpawnedInv(place),
           NEW w \in Workers, NEW i \in Turns(w), Live(Slots[i])
    PROVE  /\ i \in DOMAIN Slots /\ Slots[i] \in Threads /\ pc[Slots[i]] = "Held"
           /\ handle[Slots[i]].zone = place[i] /\ place[i] \in Zones
           /\ IsSequential(place[i]) /\ Capacity(place[i]) = ZoneCap
           /\ handle[Slots[i]].wp \in Nat
           /\ zoneBytes[Slots[i]] \in 0 .. ZoneCap
           /\ Remaining(Slots[i]) = ZoneCap - zoneBytes[Slots[i]]
           /\ worker[w] \in {"Running", "Failing"}
           /\ worker[w] = "Running" => InStep(place[i], Slots[i])
<1>1. i \in DOMAIN Slots /\ Slots[i] \in Threads
  BY SlotsFacts DEF Turns
<1>2. pc[Slots[i]] = "Held"
  BY <1>1 DEF BenchInv, AllocatorInv, OneOwner
<1>3. handle[Slots[i]].zone = place[i] /\ place[i] \in Fresh
  BY <1>1 DEF SpawnedInv, PlacesInv
<1>4. place[i] \in Zones /\ IsSequential(place[i])
  BY <1>3, FreshFacts DEF BenchInv
<1>5. handle[Slots[i]].wp \in Nat /\ zoneBytes[Slots[i]] \in 0 .. ZoneCap
  BY <1>1, DriveAssumption DEF BenchInv, AllocatorInv, TypeInv, TypeOK, CountsTyped
<1>6. /\ worker[w] \in {"Running", "Failing"}
      /\ worker[w] = "Running" => InStep(place[i], Slots[i])
  BY DEF SpawnedInv, WorkInv
<1> QED BY <1>1, <1>2, <1>3, <1>4, <1>5, <1>6 DEF Remaining, Capacity

\* The worker's write is what its handle still takes.
LEMMA WriteFits ==
    ASSUME BenchInv, NEW place \in [DOMAIN Slots -> Fresh], SpawnedInv(place),
           NEW w \in Workers, NEW i \in Turns(w), Live(Slots[i]), worker[w] = "Running",
           Remaining(Slots[i]) > 0
    PROVE  LET s == Slots[i]
               n == Least(Remaining(s), MaxBuf)
           IN  /\ n \in 1 .. MaxBuf /\ Fits(s, n)
               /\ handle[s].wp + n <= ZoneCap /\ handle[s].wp < ZoneCap
               /\ drive[handle[s].zone].wp = handle[s].wp
               /\ ~AtCapacity(s)
<1> DEFINE s == Slots[i]
           n == Least(Remaining(s), MaxBuf)
<1>1. /\ handle[s].zone = place[i] /\ Capacity(place[i]) = ZoneCap
      /\ handle[s].wp \in Nat /\ Remaining(s) = ZoneCap - zoneBytes[s]
      /\ InStep(place[i], s)
  BY HandleOf
<1>2. zoneBytes[s] = handle[s].wp /\ handle[s].wp < ZoneCap /\ drive[place[i]].wp = handle[s].wp
  BY <1>1, DriveAssumption DEF InStep
<1>3. MaxBuf \in Nat \ {0} /\ ZoneCap \in Nat
  BY DriveAssumption, HandleAssumption
<1>4. n \in 1 .. MaxBuf /\ handle[s].wp + n <= ZoneCap
  BY <1>1, <1>2, <1>3 DEF Least
<1>5. ~AtCapacity(s) /\ Fits(s, n)
  BY <1>1, <1>2, <1>3, <1>4 DEF AtCapacity, Fits
<1> QED BY <1>1, <1>2, <1>4, <1>5

\* A worker exists only once its zones are placed.
LEMMA WorkSpawned ==
    ASSUME BenchInv, NEW w \in Workers, worker[w] # "Unborn"
    PROVE  Spawned
BY DEF BenchInv, MainInv

\* When all workers have been joined, their handles are gone.
LEMMA NoneLive ==
    ASSUME BenchInv, Spawned, joined = NrWorkers
    PROVE  \A u \in Threads : ~Live(u)
<1> SUFFICES ASSUME NEW u \in Threads, Live(u) PROVE FALSE
  OBVIOUS
<1>1. PICK place \in [DOMAIN Slots -> Fresh] : SpawnedInv(place)
  BY DEF BenchInv
<1>2. pc[u] = "Held"
  BY DEF BenchInv, AllocatorInv, OneOwner
<1>3. PICK i \in DOMAIN Slots : u = Slots[i]
  BY <1>2 DEF BenchInv, CallsInv
<1>4. PICK w \in Workers : i \in Turns(w)
  BY TurnsCover
<1>5. worker[w] = "Ok"
  BY DEF BenchInv, MainInv, Workers
<1>6. worker[w] \in {"Running", "Failing"}
  BY <1>1, <1>3, <1>4 DEF SpawnedInv, WorkInv
<1> QED BY <1>5, <1>6

LEMMA WriteUses ==
    ASSUME BenchInv, NEW w \in Workers, WriteZone(w)
    PROVE  \E s \in Threads : UseHandle(s)
<1>1. worker[w] = "Running" /\ UNCHANGED allocatorVars
  BY DEF WriteZone
<1>2. PICK s \in Threads :
          /\ IsCurrent(w, s) /\ Remaining(s) > 0
          /\ WriteSequential(s, Least(Remaining(s), MaxBuf))
  BY DEF WriteZone
<1>3. PICK i \in Turns(w) : s = Slots[i] /\ Live(s)
  BY <1>2, CurrentTurn
<1>4. PICK place \in [DOMAIN Slots -> Fresh] : SpawnedInv(place)
  BY <1>1, WorkSpawned DEF BenchInv
<1>5. pc[s] = "Held"
  BY <1>3, <1>4, HandleOf
<1>6. Least(Remaining(s), MaxBuf) \in 1 .. MaxBuf /\ Fits(s, Least(Remaining(s), MaxBuf))
  BY <1>1, <1>2, <1>3, <1>4, WriteFits
<1>7. Operate(s)
  BY <1>2, <1>6 DEF Operate
<1> QED BY <1>1, <1>5, <1>7 DEF UseHandle

\* What ResetListed commands: one of the listed zones, or nothing.
RawReset ==
    /\ \E z \in toReset : drive' \in ResetStates(drive, z) \cup {drive}
    /\ UNCHANGED <<handle, left, result, goal, turn, synced, allocatorVars>>

LEMMA BenchSteps ==
    ASSUME BenchInv, [BenchNext]_allVars
    PROVE  [AllocatorNext]_vars \/ (RawReset /\ stage = "Reset")
<1>1. CASE AllocateNext
  <2>1. NextSlot \in Threads
    BY <1>1, SlotsFacts DEF AllocateNext, NextSlot, BenchInv, CountsTyped
  <2> QED BY <1>1, <2>1 DEF AllocateNext, AllocatorNext, Begin
<1>2. CASE AllocateFails \/ Spawn \/ Join \/ Flush \/ Finish
  BY <1>2 DEF AllocateFails, Spawn, Join, Flush, Finish
<1>3. CASE ResetNext
  <2>1. NextSlot \in Threads
    BY <1>3, SlotsFacts DEF ResetNext, NextSlot, BenchInv, CountsTyped
  <2>2. UseHandle(NextSlot)
    BY <1>3 DEF ResetNext, UseHandle, Operate
  <2> QED BY <2>1, <2>2 DEF AllocatorNext
<1>4. CASE DropMade
  BY <1>4 DEF DropMade, AllocatorNext
<1>5. CASE ResetListed
  BY <1>5 DEF ResetListed, RawReset
<1>6. ASSUME NEW w \in Workers, WriteZone(w) PROVE [AllocatorNext]_vars
  BY <1>6, WriteUses DEF AllocatorNext
<1>7. ASSUME NEW w \in Workers, DropNext(w) PROVE [AllocatorNext]_vars
  BY <1>7 DEF DropNext, AllocatorNext
<1>8. ASSUME NEW w \in Workers, EndWorker(w) PROVE [AllocatorNext]_vars
  BY <1>8 DEF EndWorker
<1>9. CASE DriveCloses /\ UNCHANGED <<allocatorVars, benchVars>>
  BY <1>9 DEF AllocatorNext
<1>10. CASE UNCHANGED allVars
  BY <1>10 DEF allVars
<1> QED
  BY <1>1, <1>2, <1>3, <1>4, <1>5, <1>6, <1>7, <1>8, <1>9, <1>10
     DEF BenchNext, Main, Work

\* The allocator's invariant holds of bench, whose resets through the raw device
\* are no step of the allocator.
LEMMA BenchAllocator ==
    ASSUME BenchInv, [BenchNext]_allVars
    PROVE  AllocatorInv'
<1>1. AllocatorInv
  BY DEF BenchInv
<1>2. CASE [AllocatorNext]_vars
  BY <1>1, <1>2, NextAllocatorInv
<1>3. CASE RawReset
  <2>1. drive' \in DriveState /\ Coherent(drive')
    <3>1. PICK z \in toReset : drive' \in ResetStates(drive, z) \cup {drive}
      BY <1>3 DEF RawReset
    <3>2. z \in Zones /\ drive \in DriveState /\ Coherent(drive)
      BY <1>1 DEF BenchInv, CountsTyped, AllocatorInv, TypeInv, TypeOK
    <3> QED BY <3>1, <3>2, ManageType
  <2>2. UNCHANGED <<handle, left, result, goal, turn, synced>>
        /\ UNCHANGED <<allocated, holder, pc, target, seen, cursor, outcome, revoked, lent>>
    BY <1>3 DEF RawReset, allocatorVars
  <2>3. TypeInv'
    BY <1>1, <2>1, <2>2 DEF AllocatorInv, TypeInv, TypeOK, Live
  <2>4. AllocatorTypeOK' /\ Targeted'
    BY <1>1, <2>2 DEF AllocatorInv, AllocatorTypeOK, Targeted
  <2>5. AllocatedExact' /\ OneOwner'
    BY <1>1, <2>2, OwnersKept DEF AllocatorInv, Live, Owner
  <2> QED BY <2>3, <2>4, <2>5 DEF AllocatorInv
<1> QED BY <1>2, <1>3, BenchSteps

\* bench never calls release().
LEMMA NothingRevoked ==
    ASSUME BenchInv, [BenchNext]_allVars
    PROVE  revoked' = {}
<1>0. revoked = {}
  BY DEF BenchInv
<1>1. ASSUME NEW t \in Threads, Allocate(t) \/ Continue(t) \/ DropHandle(t) PROVE revoked' = {}
  <2>1. CASE Allocate(t) \/ ReportBatch(t) \/ ReportFails(t) \/ Lock(t)
    BY <1>0, <2>1 DEF Allocate, ReportBatch, ReportFails, Lock
  <2>2. CASE Scan(t)
    BY <1>0, <2>2 DEF Scan
  <2>3. CASE TryAllocate(t)
    BY <1>0, <2>3 DEF TryAllocate
  <2>4. CASE Construct(t)
    BY <1>0, <2>4 DEF Construct
  <2>5. CASE Rollback(t)
    BY <1>0, <2>5 DEF Rollback, StillShared
  <2>6. CASE DropHandle(t)
    BY <1>0, <2>6 DEF DropHandle, StillShared
  <2> QED BY <1>1, <2>1, <2>2, <2>3, <2>4, <2>5, <2>6 DEF Continue
<1>2. CASE AllocateNext \/ DropMade
  <2>1. CASE AllocateNext
    <3>1. NextSlot \in Threads
      BY <2>1, SlotsFacts DEF AllocateNext, NextSlot, BenchInv, CountsTyped
    <3> QED BY <1>1, <2>1, <3>1 DEF AllocateNext
  <2>2. CASE DropMade
    BY <1>1, <2>2 DEF DropMade
  <2> QED BY <1>2, <2>1, <2>2
<1>3. ASSUME NEW w \in Workers, Work(w) PROVE revoked' = {}
  BY <1>0, <1>1, <1>3 DEF Work, WriteZone, DropNext, EndWorker, allocatorVars, vars
<1>4. CASE \/ AllocateFails \/ ResetNext \/ Spawn \/ Join \/ Flush \/ ResetListed \/ Finish
           \/ DriveCloses /\ UNCHANGED <<allocatorVars, benchVars>>
           \/ UNCHANGED allVars
  BY <1>0, <1>4 DEF AllocateFails, ResetNext, Spawn, Join, Flush, ResetListed, Finish, allVars, vars,
              allocatorVars
<1> QED BY <1>2, <1>3, <1>4 DEF BenchNext, Main

\* A step of bench is a step of ZoneHandle that respects Exclusive, those of the
\* raw device included.
LEMMA BenchHandles ==
    ASSUME BenchInv, [BenchNext]_allVars
    PROVE  [HandleNext]_handleVars
<1>1. CASE [AllocatorNext]_vars
  <2>1. ~ \E t \in Threads, i \in revoked : NewInner(t, i)
    BY DEF BenchInv
  <2> QED BY <1>1, <2>1, StepRefines DEF BenchInv
<1>2. CASE RawReset /\ stage = "Reset"
  <2>1. PICK z \in toReset : drive' \in ResetStates(drive, z) \cup {drive}
    BY <1>2 DEF RawReset
  <2>2. z \in Zones
    BY DEF BenchInv, CountsTyped
  <2>3. Exclusive(z)
    <3>1. \A u \in Threads : ~Live(u)
      BY <1>2, NoneLive DEF BenchInv, MainInv
    <3> QED BY <2>2, <3>1, DriveAssumption DEF Exclusive, Live, NoZone, Zones
  <2>4. CASE drive' \in ResetStates(drive, z)
    <3>1. RawManage(z)
      BY <1>2, <2>3, <2>4 DEF RawManage, Commands, RawReset
    <3> QED BY <2>2, <3>1 DEF HandleNext
  <2>5. CASE drive' = drive
    BY <1>2, <2>5 DEF RawReset, handleVars
  <2> QED BY <2>1, <2>4, <2>5
<1> QED BY <1>1, <1>2, BenchSteps

-----------------------------------------------------------------------------
(* Before the workers exist                                                *)

\* The parts of the invariant that are not the allocator's.
RestInv ==
    /\ CountsTyped /\ MainInv /\ CallsInv /\ FreshInv /\ TotalInv
    /\ Spawned => \E place \in [DOMAIN Slots -> Fresh] : SpawnedInv(place)

LEMMA TotalKept ==
    ASSUME TotalInv, zoneBytes' = zoneBytes, total' = total
    PROVE  TotalInv'
BY DEF TotalInv, Counted

\* A step of a call of t that is no use of a handle: it takes only zones that it
\* saw empty, which were so when bench began.
LEMMA CallEffect ==
    ASSUME AllocatorInv, CallsInv, FreshInv, NEW t \in Threads, Allocate(t) \/ Continue(t)
    PROVE  /\ drive' = drive
           /\ \A u \in Threads \ {t} :
                  /\ pc'[u] = pc[u] /\ outcome'[u] = outcome[u] /\ handle'[u] = handle[u]
                  /\ seen'[u] = seen[u] /\ target'[u] = target[u]
           /\ seen'[t] \subseteq Fresh
           /\ pc'[t] \in {"Try", "Construct", "Rollback", "Held"} => target'[t] \in Fresh
           /\ outcome'[t] \notin {"None", "Pending", "Ok"} => pc'[t] = "Idle"
<1> DEFINE Others == \A u \in Threads \ {t} :
                         /\ pc'[u] = pc[u] /\ outcome'[u] = outcome[u] /\ handle'[u] = handle[u]
                         /\ seen'[u] = seen[u] /\ target'[u] = target[u]
           Own == /\ seen'[t] \subseteq Fresh
                  /\ pc'[t] \in {"Try", "Construct", "Rollback", "Held"} => target'[t] \in Fresh
                  /\ outcome'[t] \notin {"None", "Pending", "Ok"} => pc'[t] = "Idle"
<1>1. /\ pc \in [Threads -> Labels] /\ outcome \in [Threads -> Outcomes]
      /\ seen \in [Threads -> SUBSET Zones] /\ target \in [Threads -> Indices \cup {NoZone}]
  BY DEF AllocatorInv, AllocatorTypeOK
<1>2. /\ seen[t] \subseteq Fresh
      /\ pc[t] \in {"Try", "Construct", "Rollback", "Held"} => target[t] \in Fresh
      /\ outcome[t] \notin {"None", "Pending", "Ok"} => pc[t] = "Idle"
      /\ \A z \in Zones : drive[z].cond = "Empty" => z \in Fresh
  BY DEF FreshInv, CallsInv
<1>3. CASE Allocate(t)
  BY <1>1, <1>2, <1>3 DEF Allocate, Goto, handleVars
<1>4. CASE ReportBatch(t)
  <2>1. seen'[t] \subseteq Fresh
    BY <1>1, <1>2, <1>4 DEF ReportBatch, Batch
  <2>2. UNCHANGED <<drive, handle, target, outcome>> /\ pc'[t] \in {"Lock", "Report"}
        /\ pc[t] = "Report"
    BY <1>1, <1>4 DEF ReportBatch, Goto, handleVars
  <2>3. Others
    BY <1>1, <1>4 DEF ReportBatch, Goto, handleVars
  <2> QED BY <1>2, <2>1, <2>2, <2>3
<1>5. CASE ReportFails(t)
  BY <1>1, <1>2, <1>5 DEF ReportFails, Fail, Goto, handleVars
<1>6. CASE Lock(t)
  BY <1>1, <1>2, <1>6 DEF Lock, Goto, handleVars
<1>7. CASE Scan(t)
  <2>1. CASE Suitable(t) = {}
    BY <1>1, <1>2, <1>7, <2>1 DEF Scan, Fail, Goto, handleVars
  <2>2. CASE Suitable(t) # {}
    <3>1. PICK i \in Suitable(t) : target' = [target EXCEPT ![t] = i]
      BY <1>7, <2>2 DEF Scan
    <3>2. i \in Fresh
      BY <1>2 DEF Suitable
    <3> QED BY <1>1, <1>2, <1>7, <2>2, <3>1, <3>2 DEF Scan, Goto, handleVars
  <2> QED BY <2>1, <2>2
<1>8. CASE TryAllocate(t)
  BY <1>1, <1>2, <1>8 DEF TryAllocate, Fail, Goto, handleVars
<1>9. CASE Construct(t)
  <2>1. pc[t] = "Construct" /\ NewInner(t, target[t]) /\ target[t] \in Indices
    BY <1>9 DEF Construct, AllocatorInv, Targeted
  <2>2. \A u \in Threads \ {t} : handle'[u] = handle[u]
    BY <2>1, NewInnerKeeps DEF AllocatorInv
  <2>3. drive' = drive /\ target' = target
    BY <1>9, <2>1 DEF NewInner, Construct
  <2>4. pc'[t] \in {"Held", "Rollback"}
    BY <1>1, <1>9 DEF Construct, Goto
  <2>5. outcome'[t] \in {"Ok", outcome[t]} /\ seen'[t] \in {{}, seen[t]}
    BY <1>1, <1>9 DEF Construct
  <2>6. Others
    BY <1>1, <1>9, <2>2 DEF Construct, Goto
  <2>7. Own
    BY <1>2, <2>1, <2>3, <2>4, <2>5
  <2> QED BY <2>3, <2>6, <2>7
<1>10. CASE Rollback(t)
  BY <1>1, <1>2, <1>10 DEF Rollback, Fail, Goto, handleVars
<1> QED BY <1>3, <1>4, <1>5, <1>6, <1>7, <1>8, <1>9, <1>10 DEF Continue

LEMMA AllocateNextInv == BenchInv /\ AllocateNext => RestInv'
<1> SUFFICES ASSUME BenchInv, AllocateNext PROVE RestInv'
  OBVIOUS
<1> DEFINE t == NextSlot
<1>1. /\ stage = "Allocate" /\ made < Len(Slots) /\ made \in Nat
      /\ UNCHANGED <<stage, made, list, toReset, joined, worker, zoneBytes, total, before>>
      /\ Allocate(t) \/ Continue(t)
  BY SlotsFacts DEF AllocateNext, benchVars, BenchInv, CountsTyped
<1>2. t \in Threads /\ made + 1 \in DOMAIN Slots /\ t = Slots[made + 1]
  BY <1>1, SlotsFacts DEF NextSlot
<1>3. CountsTyped' /\ MainInv' /\ TotalInv' /\ ~Spawned'
  BY <1>1, TotalKept DEF BenchInv, CountsTyped, MainInv, Spawned
<1> HIDE DEF t
<1>4. /\ drive' = drive
      /\ \A u \in Threads \ {t} :
             /\ pc'[u] = pc[u] /\ outcome'[u] = outcome[u] /\ handle'[u] = handle[u]
             /\ seen'[u] = seen[u] /\ target'[u] = target[u]
      /\ seen'[t] \subseteq Fresh
      /\ pc'[t] \in {"Try", "Construct", "Rollback", "Held"} => target'[t] \in Fresh
      /\ outcome'[t] \notin {"None", "Pending", "Ok"} => pc'[t] = "Idle"
  BY <1>1, <1>2, CallEffect DEF BenchInv
<1>5. NextSlot' = t
  BY <1>1 DEF NextSlot, t
<1>6. CallsInv'
  <2>1. \A i \in 1 .. made : i \in DOMAIN Slots /\ Slots[i] \in Threads \ {t}
    BY <1>1, <1>2, SlotsFacts
  <2> QED BY <1>1, <1>2, <1>4, <1>5, <2>1 DEF BenchInv, CallsInv, t
<1>7. FreshInv'
  BY <1>1, <1>2, <1>3, <1>4 DEF BenchInv, FreshInv, Fresh, MainInv
<1> QED BY <1>3, <1>6, <1>7 DEF RestInv

LEMMA AllocateFailsInv == BenchInv /\ AllocateFails => RestInv'
<1> SUFFICES ASSUME BenchInv, AllocateFails PROVE RestInv'
  OBVIOUS
<1>1. /\ stage = "Allocate" /\ made < Len(Slots) /\ stage' = "Failed"
      /\ outcome[NextSlot] \notin {"None", "Pending", "Ok"}
      /\ UNCHANGED <<made, list, toReset, joined, worker, zoneBytes, total, before>>
      /\ UNCHANGED <<drive, handle, pc, target, seen, outcome>>
  BY DEF AllocateFails, vars, handleVars, allocatorVars
<1>2. NextSlot \in Threads
  BY <1>1, SlotsFacts DEF NextSlot, BenchInv, CountsTyped
<1>3. CountsTyped' /\ MainInv' /\ TotalInv' /\ ~Spawned'
  BY <1>1, TotalKept DEF BenchInv, CountsTyped, MainInv, Spawned, Stages
<1>4. CallsInv'
  BY <1>1, <1>2 DEF BenchInv, CallsInv
<1>5. FreshInv'
  BY <1>1, <1>3 DEF BenchInv, FreshInv, Fresh, MainInv
<1> QED BY <1>3, <1>4, <1>5 DEF RestInv

LEMMA ResetNextInv == BenchInv /\ ResetNext => RestInv'
<1> SUFFICES ASSUME BenchInv, ResetNext PROVE RestInv'
  OBVIOUS
<1> DEFINE t == NextSlot
           z == handle[t].zone
<1>1. /\ stage = "Allocate" /\ made < Len(Slots) /\ pc[t] = "Held" /\ ResetZone(t)
      /\ IF result'[t] = "Ok" THEN made' = made + 1 /\ stage' = stage
                              ELSE stage' = "Failed" /\ made' = made
      /\ UNCHANGED <<list, toReset, joined, worker, zoneBytes, total, before>>
      /\ UNCHANGED <<pc, target, seen, outcome>>
      /\ made \in 0 .. Len(Slots)
  BY DEF ResetNext, allocatorVars, BenchInv, CountsTyped
<1>2. t \in Threads /\ made + 1 \in DOMAIN Slots /\ t = Slots[made + 1]
  BY <1>1, SlotsFacts DEF NextSlot
<1>3. CountsTyped' /\ MainInv' /\ TotalInv' /\ ~Spawned'
  BY <1>1, TotalKept DEF BenchInv, CountsTyped, MainInv, Spawned, Stages
<1>4. z \in Fresh
  BY <1>1, <1>2 DEF BenchInv, AllocatorInv, OneOwner, FreshInv
<1> HIDE DEF t
<1>5. /\ drive' \in {Sets(drive, z, "Empty", 0), drive}
      /\ result'[t] = "Ok" => handle'[t].wp = 0
      /\ \A u \in Threads \ {t} : handle'[u] = handle[u]
  BY <1>1, <1>2
     DEF ResetZone, ManageSets, ManageFails, ResetStates, BenchInv, AllocatorInv, TypeInv, TypeOK
<1>6. CallsInv'
  <2>1. \A i \in 1 .. made : i \in DOMAIN Slots /\ Slots[i] \in Threads \ {t}
    BY <1>1, <1>2, SlotsFacts
  <2>2. \A u \in Threads : pc[u] \in {"Idle", "Held"}
    BY <1>1, <1>2 DEF BenchInv, CallsInv, t
  <2>3. CASE result'[t] = "Ok"
    <3>1. \A i \in 1 .. made' : i \in 1 .. made \/ Slots[i] = t
      BY <1>1, <1>2, <2>3
    <3> QED BY <1>1, <1>2, <1>5, <2>1, <2>2, <2>3, <3>1 DEF BenchInv, CallsInv
  <2>4. CASE result'[t] # "Ok"
    BY <1>1, <2>2, <2>4 DEF BenchInv, CallsInv
  <2> QED BY <2>3, <2>4
<1>7. FreshInv'
  <2>1. drive \in DriveState /\ z \in Zones /\ before[z].wp = 0
    BY <1>4, FreshFacts DEF BenchInv, AllocatorInv, TypeInv, TypeOK
  <2>2. \A y \in Zones : drive[y].wp = before[y].wp
    BY <1>1 DEF BenchInv, MainInv, FreshInv
  <2>3. \A y \in Zones : drive'[y].wp = before[y].wp
    BY <1>5, <2>1, <2>2 DEF Sets, DriveState
  <2>4. \A y \in Zones \ Fresh : drive'[y] = drive[y]
    BY <1>4, <1>5, <2>1 DEF Sets, DriveState
  <2> QED BY <1>1, <2>3, <2>4 DEF BenchInv, FreshInv, Fresh
<1> QED BY <1>3, <1>6, <1>7 DEF RestInv

\* A handle is dropped: by a worker, or by main with no worker about.
LEMMA DropEffect ==
    ASSUME AllocatorInv, CallsInv, FreshInv, NEW s \in Threads, DropHandle(s),
           UNCHANGED benchVars, stage # "Allocate"
    PROVE  /\ CallsInv' /\ FreshInv' /\ drive' = drive
           /\ ~Live(s)' /\ \A u \in Threads \ {s} : handle'[u] = handle[u]
           /\ \A u \in Threads : handle'[u].zone \in {handle[u].zone, NoZone}
<1>1. /\ handle' = [handle EXCEPT ![s] = NoHandle] /\ drive' = drive
      /\ pc' = [pc EXCEPT ![s] = "Idle"] /\ target' = [target EXCEPT ![s] = NoZone]
      /\ seen' = [seen EXCEPT ![s] = {}] /\ outcome' = [outcome EXCEPT ![s] = "None"]
  BY DEF DropHandle, Drop, Fail, Goto
<1>2. UNCHANGED <<stage, made, list, before>>
  BY DEF benchVars
<1>3. ~Live(s)' /\ \A u \in Threads \ {s} : handle'[u] = handle[u]
  BY <1>1 DEF AllocatorInv, TypeInv, TypeOK, Live, NoHandle
<1>4. \A u \in Threads : handle'[u].zone \in {handle[u].zone, NoZone}
  BY <1>3 DEF Live
<1>5. \A u \in Threads : pc'[u] \in {pc[u], "Idle"} /\ seen'[u] \subseteq seen[u]
                         /\ (pc'[u] = "Idle" \/ target'[u] = target[u])
                         /\ (outcome'[u] = "None" \/ (outcome'[u] = outcome[u] /\ pc'[u] = pc[u]))
  BY <1>1 DEF AllocatorInv, AllocatorTypeOK
<1>6. CallsInv'
  BY <1>2, <1>5 DEF CallsInv
<1>7. FreshInv'
  BY <1>1, <1>2, <1>5 DEF FreshInv, Fresh, Spawned
<1> QED BY <1>1, <1>3, <1>4, <1>6, <1>7

LEMMA DropMadeInv == BenchInv /\ DropMade => RestInv'
<1> SUFFICES ASSUME BenchInv, DropMade PROVE RestInv'
  OBVIOUS
<1>1. PICK s \in Threads : DropHandle(s)
  BY DEF DropMade
<1>2. stage = "Failed" /\ UNCHANGED benchVars /\ ~Spawned
  BY DEF DropMade, Spawned
<1>3. CallsInv' /\ FreshInv'
  BY <1>1, <1>2, DropEffect DEF BenchInv
<1>4. CountsTyped' /\ MainInv' /\ TotalInv' /\ ~Spawned'
  BY <1>2, TotalKept DEF BenchInv, CountsTyped, MainInv, Spawned, benchVars
<1> QED BY <1>3, <1>4 DEF RestInv

\* main hands its handles to the workers.
LEMMA SpawnInv == BenchInv /\ Spawn => RestInv'
<1> SUFFICES ASSUME BenchInv, Spawn PROVE RestInv'
  OBVIOUS
<1>0. PICK place : place = [i \in DOMAIN Slots |-> target[Slots[i]]]
  OBVIOUS
<1>1. /\ stage = "Allocate" /\ made = Len(Slots) /\ list' = allocated /\ stage' = "Join"
      /\ worker' = [w \in Workers |-> "Running"]
      /\ UNCHANGED <<made, toReset, joined, zoneBytes, total, before>>
      /\ UNCHANGED <<drive, handle, pc, target, seen, outcome>>
  BY DEF Spawn, vars, handleVars, allocatorVars
<1>2. ~Spawned /\ joined = 0 /\ zoneBytes = [s \in Threads |-> 0] /\ toReset = {}
  BY <1>1 DEF BenchInv, MainInv, CountsTyped, Spawned
<1>3. \A i \in DOMAIN Slots : pc[Slots[i]] = "Held" /\ handle[Slots[i]].wp = 0
  BY <1>1, SlotsFacts DEF BenchInv, CallsInv
<1>4. \A i \in DOMAIN Slots :
          /\ Slots[i] \in Threads
          /\ Live(Slots[i]) /\ handle[Slots[i]].zone = place[i] /\ place[i] \in Fresh
  BY <1>0, <1>3, SlotsFacts DEF BenchInv, AllocatorInv, OneOwner, FreshInv
<1>5. allocated = {place[i] : i \in DOMAIN Slots}
  <2>1. \A t \in Threads : Owner(t) => \E i \in DOMAIN Slots : t = Slots[i]
    BY DEF BenchInv, CallsInv, Owner
  <2>2. \A i \in DOMAIN Slots : Owner(Slots[i])
    BY <1>3 DEF Owner
  <2>3. allocated = Owned
    BY DEF BenchInv, AllocatorInv, AllocatedExact
  <2> QED BY <1>0, <1>4, <2>1, <2>2, <2>3 DEF Owned
<1>6. \A i, j \in DOMAIN Slots : i # j => place[i] # place[j]
  BY <1>0, <1>3, <1>4, SlotsFacts DEF BenchInv, AllocatorInv, OneOwner, Owner
<1>7. place \in [DOMAIN Slots -> Fresh]
  BY <1>0, <1>4
<1>8. \A z \in Fresh : z \in Zones /\ before[z].wp = 0
  BY FreshFacts DEF BenchInv
<1>9. \A z \in Zones : drive[z].wp = before[z].wp
  BY <1>2 DEF BenchInv, FreshInv
<1>10. Spawned'
  <2>1. 1 \in DOMAIN Slots
    BY SlotsFacts
  <2>2. place[1] \in list'
    BY <1>1, <1>5, <2>1
  <2> QED BY <2>2 DEF Spawned
<1>11. CountsTyped' /\ TotalInv'
  <2>1. list' \subseteq Zones
    BY <1>1, <1>5, <1>7, <1>8
  <2>2. worker' \in [Workers -> Workings]
    BY <1>1 DEF Workings
  <2> QED BY <1>1, <1>2, <2>1, <2>2, TotalKept DEF BenchInv, CountsTyped, Stages
<1>12. MainInv'
  BY <1>1, <1>2, <1>10 DEF BenchInv, MainInv
<1>13. CallsInv'
  BY <1>1 DEF BenchInv, CallsInv
<1>14. FreshInv'
  BY <1>1, <1>10 DEF BenchInv, FreshInv, Fresh
<1>15. PlacesInv(place)'
  BY <1>1, <1>4, <1>5, <1>6, <1>9 DEF PlacesInv
<1>16. ASSUME NEW w \in Workers PROVE WorkInv(place, w)'
  <2>1. \A i \in Turns(w) :
            /\ i \in DOMAIN Slots /\ Live(Slots[i])' /\ worker'[w] = "Running"
            /\ drive'[place[i]].wp = 0 /\ handle'[Slots[i]].wp = 0 /\ zoneBytes'[Slots[i]] = 0
    BY <1>1, <1>2, <1>3, <1>4, <1>7, <1>8, <1>9 DEF Turns, Live
  <2>2. ZoneCap > 0
    BY DriveAssumption
  <2>3. \A i \in Turns(w) : InStep(place[i], Slots[i])' /\ Waiting(place[i], Slots[i])'
                            /\ ~Part(place[i])'
    BY <2>1, <2>2 DEF InStep, Waiting, Part
  <2> QED BY <1>1, <2>1, <2>3 DEF WorkInv
<1>17. Fresh' = Fresh
  BY <1>1 DEF Fresh
<1> QED BY <1>7, <1>11, <1>12, <1>13, <1>14, <1>15, <1>16, <1>17 DEF RestInv, SpawnedInv

-----------------------------------------------------------------------------
(* The workers                                                             *)

\* Turns are numbers, and their zones differ.
LEMMA TurnsOrdered ==
    ASSUME NEW w \in Workers
    PROVE  \A i, j \in Turns(w) : i \in DOMAIN Slots /\ (i < j \/ j < i \/ i = j)
BY SlotsFacts DEF Turns

\* A write to the zone of the first handle that w has left.
LEMMA TurnWritten ==
    ASSUME NEW place, NEW w \in Workers, WorkInv(place, w), NEW i \in Turns(w),
           worker[w] = "Running", worker'[w] \in {"Running", "Failing"},
           stage' = stage, stage \notin {"Reset", "Done"}, toReset' = toReset,
           Live(Slots[i]), Live(Slots[i])',
           \A j \in Turns(w) : j < i => ~Live(Slots[j]),
           worker'[w] = "Running" => InStep(place[i], Slots[i])',
           \A j \in Turns(w) \ {i} :
               /\ handle'[Slots[j]] = handle[Slots[j]]
               /\ zoneBytes'[Slots[j]] = zoneBytes[Slots[j]]
               /\ drive'[place[j]] = drive[place[j]]
    PROVE  WorkInv(place, w)'
<1>1. \A j \in Turns(w) \ {i} :
          /\ Live(Slots[j])' <=> Live(Slots[j])
          /\ Full(place[j])' <=> Full(place[j])
          /\ Part(place[j])' <=> Part(place[j])
          /\ InStep(place[j], Slots[j])' <=> InStep(place[j], Slots[j])
          /\ Waiting(place[j], Slots[j])' <=> Waiting(place[j], Slots[j])
  BY DEF Live, Full, Part, InStep, Waiting
<1>2. \A j \in Turns(w) : i < j => Live(Slots[j]) /\ Waiting(place[j], Slots[j])
  BY DEF WorkInv
<1>3. \A j \in Turns(w) : j < i =>
          /\ zoneBytes[Slots[j]] = ZoneCap
          /\ Full(place[j]) \/ drive[place[j]].wp = 0
          /\ stage = "Join" => Full(place[j])
  BY DEF WorkInv
<1>4. \A j \in Turns(w) \ {i} : ~Part(place[j])
  BY <1>2, <1>3, TurnsOrdered DEF Part, Waiting
<1>5. \A j \in Turns(w) : i < j => InStep(place[j], Slots[j])
  BY <1>2 DEF WorkInv
<1> HIDE DEF Live, Full, Part, InStep, Waiting
<1>6. ASSUME NEW j \in Turns(w)
      PROVE  /\ Live(Slots[j])' =>
                    /\ worker'[w] = "Running" => InStep(place[j], Slots[j])'
                    /\ \A k \in Turns(w) : j < k =>
                           Live(Slots[k])' /\ Waiting(place[k], Slots[k])'
             /\ ~Live(Slots[j])' =>
                    /\ zoneBytes'[Slots[j]] = ZoneCap
                    /\ Full(place[j])' \/ drive'[place[j]].wp = 0
                    /\ stage = "Join" => Full(place[j])'
  <2>1. CASE j = i
    <3>1. \A k \in Turns(w) : i < k => k # i
      BY TurnsOrdered, SlotsFacts
    <3> QED BY <1>1, <1>2, <2>1, <3>1
  <2>2. CASE j < i
    BY <1>1, <1>3, <2>2, SlotsFacts DEF Turns
  <2>3. CASE i < j
    <3>1. \A k \in Turns(w) : j < k => i < k /\ k # i
      BY <2>3, SlotsFacts DEF Turns
    <3>2. j # i
      BY <2>3, SlotsFacts DEF Turns
    <3> QED BY <1>1, <1>2, <1>5, <2>3, <3>1, <3>2
  <2> QED BY <2>1, <2>2, <2>3, TurnsOrdered
<1>7. \A j, k \in Turns(w) : Part(place[j])' /\ Part(place[k])' => j = k
  BY <1>1, <1>4
<1> QED BY <1>6, <1>7 DEF WorkInv

\* The first handle that w has left is dropped.
LEMMA TurnDropped ==
    ASSUME NEW place, NEW w \in Workers, WorkInv(place, w), NEW i \in Turns(w),
           worker'[w] = worker[w], stage' = stage, toReset' = toReset,
           Live(Slots[i]), ~Live(Slots[i])',
           \A j \in Turns(w) : j < i => ~Live(Slots[j]),
           worker[w] = "Running" => zoneBytes[Slots[i]] = ZoneCap,
           \A j \in Turns(w) \ {i} : handle'[Slots[j]] = handle[Slots[j]],
           drive' = drive, zoneBytes' = zoneBytes
    PROVE  WorkInv(place, w)'
<1>1. \A j \in Turns(w) \ {i} :
          /\ Live(Slots[j])' <=> Live(Slots[j])
          /\ InStep(place[j], Slots[j])' <=> InStep(place[j], Slots[j])
          /\ Waiting(place[j], Slots[j])' <=> Waiting(place[j], Slots[j])
  BY DEF Live, InStep, Waiting, Full
<1>2. \A j \in Turns(w) : (Full(place[j])' <=> Full(place[j])) /\ (Part(place[j])' <=> Part(place[j]))
  BY DEF Full, Part
<1>3. worker[w] = "Running" => Full(place[i])
  <2>1. ZoneCap \in Nat
    BY DriveAssumption
  <2>2. worker[w] = "Running" => InStep(place[i], Slots[i])
    BY DEF WorkInv
  <2> QED BY <2>1, <2>2 DEF InStep
<1>4. worker[w] \in {"Running", "Failing"}
  BY DEF WorkInv
<1>5. \A j, k \in Turns(w) : Live(Slots[j])' /\ j < k => k # i
  <2> SUFFICES ASSUME NEW j \in Turns(w), Live(Slots[j])', j < i PROVE FALSE
    OBVIOUS
  <2>1. j # i
    OBVIOUS
  <2> QED BY <1>1, <2>1
<1> HIDE DEF Live, Full, Part, InStep, Waiting
<1>6. ASSUME NEW j \in Turns(w)
      PROVE  /\ Live(Slots[j])' =>
                    /\ worker[w] = "Running" => InStep(place[j], Slots[j])'
                    /\ \A k \in Turns(w) : j < k =>
                           Live(Slots[k])' /\ Waiting(place[k], Slots[k])'
             /\ ~Live(Slots[j])' /\ worker[w] \in {"Running", "Ok"} =>
                    /\ zoneBytes[Slots[j]] = ZoneCap
                    /\ Full(place[j])' \/ drive[place[j]].wp = 0
                    /\ stage = "Join" => Full(place[j])'
  <2>1. CASE j = i
    BY <1>2, <1>3, <1>4, <2>1
  <2>2. CASE j # i
    BY <1>1, <1>2, <1>5, <2>2 DEF WorkInv
  <2> QED BY <2>1, <2>2
<1>7. ASSUME NEW j \in Turns(w)
      PROVE  /\ stage = "Reset" /\ place[j] \in toReset => Full(place[j])'
             /\ stage \in {"Reset", "Done"} /\ place[j] \notin toReset => drive[place[j]].wp = 0
  BY <1>2 DEF WorkInv
<1>8. \A j, k \in Turns(w) : Part(place[j])' /\ Part(place[k])' => j = k
  BY <1>2 DEF WorkInv
<1> QED BY <1>4, <1>6, <1>7, <1>8 DEF WorkInv

\* k more sectors of handle i are counted.
LEMMA CountMore ==
    ASSUME CountsTyped, TotalInv, NEW i \in DOMAIN Slots, NEW k \in Nat,
           zoneBytes[Slots[i]] + k <= ZoneCap,
           zoneBytes' = [zoneBytes EXCEPT ![Slots[i]] = @ + k], total' = total + k
    PROVE  TotalInv'
<1> DEFINE b == zoneBytes[Slots[i]]
           New == {i} \X (b .. b + k - 1)
<1>1. /\ Slots[i] \in Threads /\ b \in Nat /\ ZoneCap \in Nat
      /\ DOMAIN Slots = 1 .. Len(Slots) /\ Len(Slots) \in Nat
  BY SlotsFacts, DriveAssumption DEF CountsTyped
<1>2. \A j \in DOMAIN Slots : zoneBytes'[Slots[j]] = IF j = i THEN b + k ELSE zoneBytes[Slots[j]]
  BY SlotsFacts DEF CountsTyped
<1>3. IsFiniteSet(New) /\ Cardinality(New) = k
  <2>1. IsFiniteSet({i}) /\ Cardinality({i}) = 1
    BY FS_Singleton
  <2> DEFINE top == b + k - 1
             U == b .. top
  <2>2. b \in Int /\ top \in Int /\ top - b + 1 = k /\ (b > top <=> k = 0)
    BY <1>1
  <2> HIDE DEF top, b
  <2>3. IsFiniteSet(U) /\ Cardinality(U) = IF b > top THEN 0 ELSE top - b + 1
    BY <2>2, FS_Interval
  <2>4. Cardinality(U) = k
    BY <2>2, <2>3
  <2> HIDE DEF U
  <2>5. IsFiniteSet({i} \X U) /\ Cardinality({i} \X U) = 1 * k
    <3>1. Cardinality({i} \X U) = Cardinality({i}) * Cardinality(U)
      BY <2>1, <2>3, FS_Product
    <3>2. IsFiniteSet({i} \X U)
      BY <2>1, <2>3, FS_Product
    <3> QED BY <2>1, <2>4, <3>1, <3>2
  <2> QED BY <2>5 DEF U, top
<1>4. IsFiniteSet(Counted)
  <2>1. IsFiniteSet(DOMAIN Slots) /\ IsFiniteSet(0 .. ZoneCap - 1)
    BY <1>1, FS_Interval
  <2>2. IsFiniteSet((DOMAIN Slots) \X (0 .. ZoneCap - 1))
    BY <2>1, FS_Product
  <2>3. Counted \in SUBSET ((DOMAIN Slots) \X (0 .. ZoneCap - 1))
    BY DEF Counted
  <2> QED BY <2>2, <2>3, FS_Subset
<1>5. Counted \cap New = {}
  BY <1>1 DEF Counted
<1>6. Counted' = Counted \cup New
  <2>1. ASSUME NEW p \in Counted' PROVE p \in Counted \cup New
    <3>1. p \in (DOMAIN Slots) \X (0 .. ZoneCap - 1) /\ p[2] < zoneBytes'[Slots[p[1]]]
      BY <2>1 DEF Counted
    <3>2. CASE p[1] # i \/ p[2] < b
      BY <1>2, <3>1, <3>2 DEF Counted
    <3>3. CASE p[1] = i /\ ~(p[2] < b)
      <4>1. p = <<i, p[2]>> /\ p[2] \in b .. b + k - 1
        BY <1>1, <1>2, <3>1, <3>3
      <4> QED BY <4>1
    <3> QED BY <3>2, <3>3
  <2>2. ASSUME NEW p \in New PROVE p \in Counted'
    <3>1. p[1] = i /\ p[2] \in b .. b + k - 1 /\ p = <<p[1], p[2]>>
      BY <2>2
    <3>2. p \in (DOMAIN Slots) \X (0 .. ZoneCap - 1)
      BY <1>1, <3>1
    <3> QED BY <1>1, <1>2, <3>1, <3>2 DEF Counted
  <2>3. ASSUME NEW p \in Counted PROVE p \in Counted'
    <3>1. p \in (DOMAIN Slots) \X (0 .. ZoneCap - 1) /\ p[2] < zoneBytes[Slots[p[1]]]
      BY <2>3 DEF Counted
    <3>2. p[2] < zoneBytes'[Slots[p[1]]]
      BY <1>1, <1>2, <3>1
    <3> QED BY <3>1, <3>2 DEF Counted
  <2> QED BY <2>1, <2>2, <2>3
<1>7. Cardinality(Counted') = Cardinality(Counted) + k
  <2>1. Cardinality(Counted) \in Nat
    BY <1>4, FS_CardinalityType
  <2>2. Cardinality(Counted \cup New) = Cardinality(Counted) + Cardinality(New) - Cardinality(Counted \cap New)
    BY <1>3, <1>4, FS_Union
  <2>3. Cardinality(Counted \cap New) = 0
    BY <1>5, FS_EmptySet
  <2> HIDE DEF New
  <2> QED BY <1>3, <1>6, <2>1, <2>2, <2>3
<1> QED BY <1>7 DEF TotalInv

\* Steps of a worker or of main while the workers' zones are placed: what the
\* parts of the invariant that are not the workers' need.
LEMMA SpawnedFrame ==
    ASSUME BenchInv, Spawned, list' = list, before' = before, made' = made,
           UNCHANGED <<pc, seen, target, outcome>>, stage' # "Allocate",
           \A z \in Zones \ list : /\ drive'[z].wp = drive[z].wp
                                   /\ drive'[z].cond = "Empty" => drive[z].cond = "Empty"
    PROVE  CallsInv' /\ FreshInv' /\ Spawned' /\ stage # "Allocate" /\ Fresh' = Fresh
<1>1. stage # "Allocate" /\ Spawned' /\ Fresh' = Fresh
  BY DEF BenchInv, MainInv, Spawned, Fresh
<1>2. CallsInv'
  BY <1>1 DEF BenchInv, CallsInv
<1>3. Zones \ Fresh \subseteq Zones \ list
  <2>1. PICK place \in [DOMAIN Slots -> Fresh] : SpawnedInv(place)
    BY DEF BenchInv
  <2> QED BY <2>1 DEF SpawnedInv, PlacesInv
<1>4. FreshInv'
  BY <1>1, <1>3 DEF BenchInv, FreshInv
<1> QED BY <1>1, <1>2, <1>4

\* Where the invariant holds for one placing, it holds.
LEMMA Together ==
    ASSUME NEW place \in [DOMAIN Slots -> Fresh], Fresh' = Fresh,
           CountsTyped', MainInv', CallsInv', FreshInv', TotalInv',
           PlacesInv(place)', \A w \in Workers : WorkInv(place, w)'
    PROVE  RestInv'
<1>1. SpawnedInv(place)'
  BY DEF SpawnedInv
<1>2. \E p \in [DOMAIN Slots -> Fresh'] : SpawnedInv(p)'
  BY <1>1
<1> QED BY <1>2 DEF RestInv

\* The zones of different handles differ.
LEMMA PlacesDiffer ==
    ASSUME NEW place \in [DOMAIN Slots -> Fresh], PlacesInv(place), CountsTyped,
           NEW i \in DOMAIN Slots
    PROVE  /\ place[i] \in list /\ place[i] \in Zones
           /\ \A j \in DOMAIN Slots \ {i} :
                  Slots[j] # Slots[i] /\ place[j] # place[i] /\ place[j] \in Zones
           /\ \A w, v \in Workers : i \in Turns(w) /\ v # w =>
                  \A j \in Turns(v) : j # i /\ j \in DOMAIN Slots
<1>1. \A j \in DOMAIN Slots : place[j] \in Zones
  BY FreshFacts
<1>2. \A w, v \in Workers : i \in Turns(w) /\ v # w =>
          \A j \in Turns(v) : j # i /\ j \in DOMAIN Slots
  <2>1. \A v \in Workers : \A j \in Turns(v) : j \in DOMAIN Slots
    BY TurnsOrdered
  <2> QED BY <2>1, TurnsCover
<1> QED BY <1>1, <1>2, SlotsFacts DEF PlacesInv

LEMMA WriteZoneInv ==
    ASSUME BenchInv, NEW w \in Workers, WriteZone(w)
    PROVE  RestInv'
<1>1. /\ worker[w] = "Running"
      /\ UNCHANGED <<stage, made, list, toReset, joined, before>>
      /\ UNCHANGED <<pc, seen, target, outcome>>
  BY DEF WriteZone, allocatorVars
<1>2. Spawned
  BY <1>1, WorkSpawned
<1>3. PICK s \in Threads :
          /\ IsCurrent(w, s) /\ Remaining(s) > 0
          /\ WriteSequential(s, Least(Remaining(s), MaxBuf))
          /\ IF result'[s] = "Ok"
             THEN /\ zoneBytes' = [zoneBytes EXCEPT ![s] = @ + Count(s)]
                  /\ total' = total + Count(s)
                  /\ UNCHANGED worker
             ELSE worker' = [worker EXCEPT ![w] = "Failing"] /\ UNCHANGED <<zoneBytes, total>>
  BY DEF WriteZone
<1>4. PICK i \in Turns(w) :
          s = Slots[i] /\ Live(s) /\ \A j \in Turns(w) : j < i => ~Live(Slots[j])
  BY <1>3, CurrentTurn
<1>5. PICK place \in [DOMAIN Slots -> Fresh] : SpawnedInv(place)
  BY <1>2 DEF BenchInv
<1> DEFINE n == Least(Remaining(s), MaxBuf)
           z == place[i]
<1>6. /\ i \in DOMAIN Slots /\ handle[s].zone = z /\ IsSequential(z) /\ z \in Zones
      /\ handle[s].wp \in Nat /\ InStep(z, s)
  BY <1>1, <1>4, <1>5, HandleOf
<1>7. /\ n \in 1 .. MaxBuf /\ handle[s].wp + n <= ZoneCap /\ handle[s].wp < ZoneCap
      /\ drive[z].wp = handle[s].wp /\ ~AtCapacity(s)
  BY <1>1, <1>3, <1>4, <1>5, <1>6, WriteFits
<1>8. /\ TypeOK /\ CountsTyped /\ TotalInv /\ PlacesInv(place)
      /\ handle \in [Threads -> [zone : Zones \cup {NoZone}, wp : 0 .. 2 * ZoneLen]]
      /\ result \in [Threads -> Results] /\ worker \in [Workers -> Workings]
      /\ zoneBytes \in [Threads -> 0 .. ZoneCap] /\ ZoneCap \in Nat /\ MaxBuf \in Nat
  BY <1>5, DriveAssumption, HandleAssumption
     DEF BenchInv, AllocatorInv, TypeInv, TypeOK, CountsTyped, SpawnedInv
<1> HIDE DEF n, z
<1>9. stage \notin {"Reset", "Done", "Allocate"}
  BY <1>1, <1>2 DEF BenchInv, MainInv, Workers
\* A write of k sectors that returns, and one that fails.
<1>10. PICK k \in 0 .. n :
          /\ Lands(s, k)
          /\ \/ /\ handle' = [handle EXCEPT ![s].wp = @ + k] /\ worker' = worker
                /\ zoneBytes' = [zoneBytes EXCEPT ![s] = @ + k] /\ total' = total + k
             \/ /\ handle' = handle /\ worker' = [worker EXCEPT ![w] = "Failing"]
                /\ UNCHANGED <<zoneBytes, total>>
  <2>1. CASE Refuses(s)
    BY <1>7, <2>1 DEF Refuses
  <2>2. ASSUME NEW k \in 0 .. n, Writes(s, k), result' = [result EXCEPT ![s] = "Ok"]
        PROVE  /\ Lands(s, k) /\ handle' = [handle EXCEPT ![s].wp = @ + k] /\ worker' = worker
               /\ zoneBytes' = [zoneBytes EXCEPT ![s] = @ + k] /\ total' = total + k
    <3>1. result'[s] = "Ok"
      BY <1>8, <2>2
    <3>2. Count(s) = k
      BY <1>6, <1>8, <2>2 DEF Count, Writes
    <3> QED BY <1>3, <2>2, <3>1, <3>2 DEF Writes
  <2>3. CASE WriteFails(s, n) /\ result' = [result EXCEPT ![s] = "Error"]
    <3>1. result'[s] # "Ok"
      BY <1>8, <2>3
    <3> QED BY <1>3, <2>3, <3>1 DEF WriteFails
  <2> QED BY <1>3, <2>1, <2>2, <2>3 DEF WriteSequential, n
<1>11. /\ \A x \in Zones \ {z} : drive'[x] = drive[x]
       /\ handle[s].wp + k < ZoneCap => drive'[z].wp = handle[s].wp + k
       /\ handle[s].wp + k = ZoneCap => drive'[z].cond = "Full"
       /\ handle[s].wp + k <= ZoneCap /\ k \in 0 .. MaxBuf
  <2>1. k \in 0 .. MaxBuf /\ handle[s].wp + k <= ZoneCap
    BY <1>6, <1>7, <1>8, <1>10
  <2> QED BY <1>4, <1>6, <1>7, <1>8, <1>10, <2>1, WriteTo
<1>12. /\ \A u \in Threads \ {s} : handle'[u] = handle[u] /\ zoneBytes'[u] = zoneBytes[u]
       /\ handle'[s].zone = handle[s].zone
       /\ worker'[w] \in {"Running", "Failing"}
       /\ \A v \in Workers \ {w} : worker'[v] = worker[v]
  BY <1>1, <1>8, <1>10
<1>13. worker'[w] = "Running" => InStep(z, s)'
  <2> SUFFICES ASSUME worker'[w] = "Running" PROVE InStep(z, s)'
    OBVIOUS
  <2>1. handle'[s].wp = handle[s].wp + k /\ zoneBytes'[s] = zoneBytes[s] + k
    BY <1>8, <1>10
  <2>2. zoneBytes[s] = handle[s].wp
    BY <1>6 DEF InStep
  <2> QED BY <1>6, <1>8, <1>11, <2>1, <2>2 DEF InStep, Full
<1>14. /\ z \in list /\ z = place[i]
       /\ \A j \in DOMAIN Slots \ {i} : Slots[j] # s /\ place[j] # z /\ place[j] \in Zones
       /\ \A v \in Workers \ {w} : \A j \in Turns(v) : j # i /\ j \in DOMAIN Slots
  BY <1>4, <1>6, <1>8, PlacesDiffer DEF z
<1>15. \A j \in DOMAIN Slots \ {i} :
           /\ handle'[Slots[j]] = handle[Slots[j]]
           /\ zoneBytes'[Slots[j]] = zoneBytes[Slots[j]]
           /\ drive'[place[j]] = drive[place[j]]
  BY <1>11, <1>12, <1>14, SlotsFacts
<1>16. WorkInv(place, w)'
  <2>1. \A j \in Turns(w) \ {i} : j \in DOMAIN Slots \ {i}
    BY TurnsOrdered
  <2>2. Live(Slots[i])'
    BY <1>4, <1>12 DEF Live
  <2>3. WorkInv(place, w)
    BY <1>5 DEF SpawnedInv
  <2> QED BY <1>1, <1>4, <1>9, <1>12, <1>13, <1>14, <1>15, <2>1, <2>2, <2>3, TurnWritten
<1>17. ASSUME NEW v \in Workers \ {w} PROVE WorkInv(place, v)'
  <2>1. WorkInv(place, v)
    BY <1>5 DEF SpawnedInv
  <2> QED BY <1>1, <1>12, <1>14, <1>15, <2>1, WorkKept
<1>18. PlacesInv(place)'
  <2>1. \A x \in Zones \ list : drive'[x].wp = drive[x].wp
    BY <1>11, <1>14
  <2>2. \A j \in DOMAIN Slots : handle'[Slots[j]].zone = handle[Slots[j]].zone
    BY <1>4, <1>12, <1>15
  <2> QED BY <1>1, <1>8, <2>1, <2>2, PlacesKept
<1>19. CallsInv' /\ FreshInv' /\ Fresh' = Fresh
  <2>1. \A x \in Zones \ list : drive'[x] = drive[x]
    BY <1>11, <1>14
  <2> QED BY <1>1, <1>2, <1>9, <2>1, SpawnedFrame
<1>20. TotalInv'
  <2>1. CASE zoneBytes' = zoneBytes /\ total' = total
    BY <1>8, <2>1, TotalKept
  <2>2. CASE zoneBytes' = [zoneBytes EXCEPT ![s] = @ + k] /\ total' = total + k
    <3>1. k \in Nat /\ zoneBytes[s] + k <= ZoneCap
      BY <1>6, <1>11 DEF InStep
    <3> QED BY <1>4, <1>6, <1>8, <2>2, <3>1, CountMore
  <2> QED BY <1>10, <2>1, <2>2
<1>21. CountsTyped'
  <2>1. zoneBytes' \in [Threads -> 0 .. ZoneCap] /\ total' \in Nat
    <3>1. zoneBytes[s] + k \in 0 .. ZoneCap /\ total \in Nat /\ k \in Nat
      BY <1>6, <1>8, <1>11 DEF InStep, CountsTyped
    <3> QED BY <1>8, <1>10, <3>1
  <2>2. worker' \in [Workers -> Workings]
    BY <1>8, <1>10 DEF Workings
  <2> QED BY <1>1, <1>8, <2>1, <2>2 DEF CountsTyped
<1>22. MainInv'
  <2>1. \A v \in 1 .. joined : v \in Workers /\ v # w
    <3>1. joined \in 0 .. NrWorkers /\ NrWorkers \in Nat /\ Workers = 1 .. NrWorkers
      BY BenchAssumption DEF BenchInv, CountsTyped, Workers
    <3>2. \A v \in 1 .. joined : worker[v] = "Ok"
      BY DEF BenchInv, MainInv
    <3> QED BY <1>1, <3>1, <3>2
  <2> QED BY <1>1, <1>2, <1>9, <1>12, <2>1 DEF BenchInv, MainInv, Spawned
<1> QED BY <1>16, <1>17, <1>18, <1>19, <1>20, <1>21, <1>22, Together

LEMMA DropNextInv ==
    ASSUME BenchInv, NEW w \in Workers, DropNext(w)
    PROVE  RestInv'
<1>1. PICK s \in Threads :
          /\ IsCurrent(w, s)
          /\ worker[w] = "Failing" \/ (worker[w] = "Running" /\ Remaining(s) = 0)
          /\ DropHandle(s)
  BY DEF DropNext
<1>2. UNCHANGED benchVars
      /\ UNCHANGED <<stage, made, list, toReset, joined, worker, zoneBytes, total, before>>
  BY DEF DropNext, benchVars
<1>3. Spawned /\ stage # "Allocate"
  <2>1. Spawned
    BY <1>1, WorkSpawned
  <2> QED BY <2>1 DEF BenchInv, MainInv
<1>4. PICK i \in Turns(w) :
          s = Slots[i] /\ Live(s) /\ \A j \in Turns(w) : j < i => ~Live(Slots[j])
  BY <1>1, CurrentTurn
<1>5. PICK place \in [DOMAIN Slots -> Fresh] : SpawnedInv(place)
  BY <1>3 DEF BenchInv
<1>6. i \in DOMAIN Slots /\ (worker[w] = "Running" => zoneBytes[s] = ZoneCap)
  <2>1. /\ zoneBytes[s] \in 0 .. ZoneCap /\ Remaining(s) = ZoneCap - zoneBytes[s]
        /\ i \in DOMAIN Slots
    BY <1>4, <1>5, HandleOf
  <2>2. ZoneCap \in Nat
    BY DriveAssumption
  <2> QED BY <1>1, <2>1, <2>2
<1>7. /\ CallsInv' /\ FreshInv' /\ drive' = drive
      /\ ~Live(s)' /\ \A u \in Threads \ {s} : handle'[u] = handle[u]
      /\ \A u \in Threads : handle'[u].zone \in {handle[u].zone, NoZone}
  BY <1>1, <1>2, <1>3, DropEffect DEF BenchInv
<1>8. /\ \A j \in DOMAIN Slots \ {i} : handle'[Slots[j]] = handle[Slots[j]]
      /\ \A j \in DOMAIN Slots : handle'[Slots[j]].zone \in {handle[Slots[j]].zone, NoZone}
  BY <1>4, <1>6, <1>7, SlotsFacts
<1>9. WorkInv(place, w)'
  <2>1. \A j \in Turns(w) \ {i} : j \in DOMAIN Slots \ {i}
    BY TurnsOrdered
  <2>2. WorkInv(place, w)
    BY <1>5 DEF SpawnedInv
  <2> QED BY <1>2, <1>4, <1>6, <1>7, <1>8, <2>1, <2>2, TurnDropped
<1>10. PlacesInv(place)'
  BY <1>2, <1>5, <1>7, <1>8, PlacesKept DEF SpawnedInv
<1>11. ASSUME NEW v \in Workers \ {w} PROVE WorkInv(place, v)'
  <2>1. \A j \in Turns(v) : j # i /\ j \in DOMAIN Slots
    BY <1>4, <1>6, TurnsCover, TurnsOrdered
  <2>2. WorkInv(place, v)
    BY <1>5 DEF SpawnedInv
  <2> QED BY <1>2, <1>7, <1>8, <2>1, <2>2, WorkKept
<1>12. CountsTyped' /\ MainInv' /\ TotalInv' /\ Fresh' = Fresh
  BY <1>2, TotalKept DEF BenchInv, CountsTyped, MainInv, Spawned, Fresh
<1> QED BY <1>7, <1>9, <1>10, <1>11, <1>12, Together

LEMMA EndWorkerInv ==
    ASSUME BenchInv, NEW w \in Workers, EndWorker(w)
    PROVE  RestInv'
<1>1. /\ worker[w] \in {"Running", "Failing"} /\ ~HasHandles(w)
      /\ worker' = [worker EXCEPT ![w] = IF @ = "Running" THEN "Ok" ELSE "Err"]
      /\ UNCHANGED <<stage, made, list, toReset, joined, zoneBytes, total, before>>
      /\ UNCHANGED <<drive, handle, pc, target, seen, outcome>>
  BY DEF EndWorker, vars, handleVars, allocatorVars
<1>2. Spawned /\ stage # "Allocate"
  <2>1. Spawned
    BY <1>1, WorkSpawned
  <2> QED BY <2>1 DEF BenchInv, MainInv
<1>3. PICK place \in [DOMAIN Slots -> Fresh] : SpawnedInv(place)
  BY <1>2 DEF BenchInv
<1>4. /\ worker \in [Workers -> Workings]
      /\ worker'[w] = IF worker[w] = "Running" THEN "Ok" ELSE "Err"
      /\ \A v \in Workers \ {w} : worker'[v] = worker[v]
  BY <1>1 DEF BenchInv, CountsTyped
<1>5. WorkInv(place, w)'
  <2>1. \A i \in Turns(w) : ~Live(Slots[i])
    <3>1. \A i \in Turns(w) : Slots[i] \in Given(w)
      BY GivenTurns
    <3> QED BY <1>1, <3>1 DEF HasHandles
  <2>2. WorkInv(place, w)
    BY <1>3 DEF SpawnedInv
  <2>3. \A i \in Turns(w) : /\ ~Live(Slots[i])'
                            /\ Full(place[i])' <=> Full(place[i])
                            /\ Part(place[i])' <=> Part(place[i])
    BY <1>1, <2>1 DEF Live, Full, Part
  <2>4. worker'[w] \in {"Running", "Ok"} => worker[w] = "Running"
    BY <1>4
  <2> HIDE DEF Live, Full, Part
  <2> QED BY <1>1, <2>1, <2>2, <2>3, <2>4 DEF WorkInv
<1>6. ASSUME NEW v \in Workers \ {w} PROVE WorkInv(place, v)'
  <2>1. WorkInv(place, v)
    BY <1>3 DEF SpawnedInv
  <2> QED BY <1>1, <1>4, <2>1, WorkKept
<1>7. PlacesInv(place)'
  BY <1>1, <1>3, PlacesKept DEF SpawnedInv
<1>8. CallsInv' /\ FreshInv' /\ Spawned' /\ Fresh' = Fresh
  BY <1>1, <1>2, SpawnedFrame
<1>9. CountsTyped' /\ TotalInv'
  <2>1. worker' \in [Workers -> Workings]
    BY <1>1, <1>4 DEF Workings
  <2> QED BY <1>1, <2>1, TotalKept DEF BenchInv, CountsTyped
<1>10. MainInv'
  <2>1. \A v \in Workers : worker'[v] # "Unborn"
    BY <1>2, <1>4 DEF BenchInv, MainInv
  <2>2. \A v \in 1 .. joined : worker'[v] = "Ok"
    <3>1. joined \in 0 .. NrWorkers /\ NrWorkers \in Nat /\ Workers = 1 .. NrWorkers
      BY BenchAssumption DEF BenchInv, CountsTyped, Workers
    <3>2. \A v \in 1 .. joined : worker[v] = "Ok"
      BY DEF BenchInv, MainInv
    <3> QED BY <1>1, <1>4, <3>1, <3>2
  <2> QED BY <1>1, <1>2, <1>8, <2>1, <2>2 DEF BenchInv, MainInv, Spawned
<1> QED BY <1>5, <1>6, <1>7, <1>8, <1>9, <1>10, Together

-----------------------------------------------------------------------------
(* The main thread once the workers exist                                  *)

LEMMA JoinInv == BenchInv /\ Join => RestInv'
<1> SUFFICES ASSUME BenchInv, Join PROVE RestInv'
  OBVIOUS
<1>1. /\ stage = "Join" /\ joined < NrWorkers
      /\ \/ worker[joined + 1] = "Ok" /\ joined' = joined + 1 /\ stage' = stage
         \/ stage' = "Failed" /\ joined' = joined
      /\ UNCHANGED <<made, list, toReset, worker, zoneBytes, total, before>>
      /\ UNCHANGED <<drive, handle, pc, target, seen, outcome>>
  BY DEF Join, vars, handleVars, allocatorVars
<1>2. Spawned
  BY <1>1 DEF BenchInv, MainInv
<1>3. PICK place \in [DOMAIN Slots -> Fresh] : SpawnedInv(place)
  BY <1>2 DEF BenchInv
<1>4. ASSUME NEW w \in Workers PROVE WorkInv(place, w)'
  <2>1. WorkInv(place, w)
    BY <1>3 DEF SpawnedInv
  <2> QED BY <1>1, <2>1, WorkKept
<1>5. PlacesInv(place)'
  BY <1>1, <1>3, PlacesKept DEF SpawnedInv
<1>6. CallsInv' /\ FreshInv' /\ Spawned' /\ Fresh' = Fresh
  BY <1>1, <1>2, SpawnedFrame
<1>7. NrWorkers \in Nat /\ joined \in 0 .. NrWorkers
  BY BenchAssumption DEF BenchInv, CountsTyped
<1>8. CountsTyped' /\ TotalInv'
  BY <1>1, <1>7, TotalKept DEF BenchInv, CountsTyped, Stages
<1>9. MainInv'
  <2>1. \A v \in 1 .. joined' : worker'[v] = "Ok"
    <3>1. \A v \in 1 .. joined' : v \in 1 .. joined \/ (v = joined + 1 /\ joined' = joined + 1)
      BY <1>1, <1>7
    <3>2. \A v \in 1 .. joined : worker[v] = "Ok"
      BY DEF BenchInv, MainInv
    <3>3. joined' = joined + 1 => worker[joined + 1] = "Ok"
      BY <1>1, <1>7
    <3> QED BY <1>1, <3>1, <3>2, <3>3
  <2> QED BY <1>1, <1>2, <1>6, <2>1 DEF BenchInv, MainInv
<1> QED BY <1>4, <1>5, <1>6, <1>8, <1>9, Together

LEMMA FlushInv == BenchInv /\ Flush => RestInv'
<1> SUFFICES ASSUME BenchInv, Flush PROVE RestInv'
  OBVIOUS
<1>1. /\ stage = "Join" /\ joined = NrWorkers
      /\ \/ stage' = "Reset" /\ toReset' = list
         \/ stage' = "Failed" /\ toReset' = toReset
      /\ UNCHANGED <<made, list, joined, worker, zoneBytes, total, before>>
      /\ UNCHANGED <<drive, handle, pc, target, seen, outcome>>
  BY DEF Flush, vars, handleVars, allocatorVars
<1>2. Spawned
  BY <1>1 DEF BenchInv, MainInv
<1>3. PICK place \in [DOMAIN Slots -> Fresh] : SpawnedInv(place)
  BY <1>2 DEF BenchInv
<1>4. ASSUME NEW w \in Workers PROVE WorkInv(place, w)'
  <2>1. WorkInv(place, w)
    BY <1>3 DEF SpawnedInv
  <2>2. CASE stage' = "Reset" /\ toReset' = list
    <3>1. \A i \in Turns(w) : i \in DOMAIN Slots /\ Slots[i] \in Threads /\ place[i] \in list
      BY <1>3, TurnsOrdered, SlotsFacts DEF SpawnedInv, PlacesInv
    <3>2. worker[w] = "Ok"
      BY <1>1 DEF BenchInv, MainInv, Workers
    <3>3. \A i \in Turns(w) : ~Live(Slots[i])
      BY <2>1, <3>2 DEF WorkInv
    <3>4. \A i \in Turns(w) : Full(place[i]) /\ zoneBytes[Slots[i]] = ZoneCap
      BY <1>1, <2>1, <3>2, <3>3 DEF WorkInv
    <3>5. \A i \in Turns(w) : ~Live(Slots[i])' /\ Full(place[i])' /\ ~Part(place[i])'
      BY <1>1, <3>3, <3>4 DEF Live, Full, Part
    <3> HIDE DEF Live, Full, Part
    <3> QED BY <1>1, <2>2, <3>1, <3>4, <3>5 DEF WorkInv
  <2>3. CASE stage' = "Failed" /\ toReset' = toReset
    BY <1>1, <2>1, <2>3, WorkKept
  <2> QED BY <1>1, <2>2, <2>3
<1>5. PlacesInv(place)'
  BY <1>1, <1>3, PlacesKept DEF SpawnedInv
<1>6. CallsInv' /\ FreshInv' /\ Spawned' /\ Fresh' = Fresh
  BY <1>1, <1>2, SpawnedFrame
<1>7. CountsTyped' /\ TotalInv'
  BY <1>1, TotalKept DEF BenchInv, CountsTyped, Stages
<1>8. MainInv'
  BY <1>1, <1>2, <1>6 DEF BenchInv, MainInv
<1> QED BY <1>4, <1>5, <1>6, <1>7, <1>8, Together

LEMMA ResetListedInv == BenchInv /\ ResetListed => RestInv'
<1> SUFFICES ASSUME BenchInv, ResetListed PROVE RestInv'
  OBVIOUS
<1>1. /\ stage = "Reset"
      /\ UNCHANGED <<made, list, joined, worker, zoneBytes, total, before>>
      /\ UNCHANGED <<handle, pc, target, seen, outcome>>
  BY DEF ResetListed, allocatorVars
<1>2. PICK z \in toReset :
          \/ drive' \in ResetStates(drive, z) /\ toReset' = toReset \ {z} /\ stage' = stage
          \/ /\ drive' \in ResetStates(drive, z) \cup {drive}
             /\ stage' = "Failed" /\ toReset' = toReset
  BY DEF ResetListed
<1>3. z \in list /\ list \subseteq Zones /\ drive \in DriveState
  BY DEF BenchInv, CountsTyped, AllocatorInv, TypeInv, TypeOK
<1>4. Spawned /\ joined = NrWorkers
  BY <1>1 DEF BenchInv, MainInv
<1>5. PICK place \in [DOMAIN Slots -> Fresh] : SpawnedInv(place)
  BY <1>4 DEF BenchInv
<1>6. /\ \A x \in Zones \ {z} : drive'[x] = drive[x]
      /\ drive'[z].wp = 0 \/ (drive' = drive /\ stage' = "Failed")
  BY <1>2, <1>3 DEF ResetStates, Sets, DriveState
<1>7. ASSUME NEW w \in Workers PROVE WorkInv(place, w)'
  <2>1. WorkInv(place, w) /\ PlacesInv(place)
    BY <1>5 DEF SpawnedInv
  <2>2. \A i \in Turns(w) : i \in DOMAIN Slots /\ Slots[i] \in Threads /\ place[i] \in Zones
    BY <1>3, <2>1, TurnsOrdered, SlotsFacts DEF PlacesInv
  <2>3. \A i \in Turns(w) : ~Live(Slots[i])
    BY <1>4, <2>2, NoneLive
  <2>4. worker[w] = "Ok"
    BY <1>4 DEF BenchInv, MainInv, Workers
  <2>5. \A i \in Turns(w) : ~Live(Slots[i])'
    BY <1>1, <2>3 DEF Live
  <2>6. \A i \in Turns(w) :
            \/ /\ Full(place[i])' <=> Full(place[i])
               /\ Part(place[i])' <=> Part(place[i])
               /\ drive'[place[i]].wp = drive[place[i]].wp
            \/ drive'[place[i]].wp = 0 /\ ~Part(place[i])' /\ place[i] = z
    BY <1>6, <2>2 DEF Full, Part
  <2>7. stage' = "Reset" => toReset' = toReset \ {z} /\ drive'[z].wp = 0
    BY <1>2, <1>6
  <2>8. stage' \in {"Reset", "Failed"}
    BY <1>1, <1>2
  <2> HIDE DEF Live, Full, Part
  <2>9. ASSUME NEW i \in Turns(w)
        PROVE  /\ zoneBytes'[Slots[i]] = ZoneCap
               /\ Full(place[i])' \/ drive'[place[i]].wp = 0
               /\ stage' = "Reset" /\ place[i] \in toReset' => Full(place[i])'
               /\ stage' = "Reset" /\ place[i] \notin toReset' => drive'[place[i]].wp = 0
    <3>1. /\ zoneBytes[Slots[i]] = ZoneCap
          /\ Full(place[i]) \/ drive[place[i]].wp = 0
          /\ place[i] \in toReset => Full(place[i])
          /\ place[i] \notin toReset => drive[place[i]].wp = 0
      BY <1>1, <2>1, <2>3, <2>4 DEF WorkInv
    <3>2. CASE place[i] = z
      BY <1>1, <2>6, <2>7, <3>1, <3>2
    <3>3. CASE place[i] # z
      BY <1>1, <2>6, <2>7, <3>1, <3>3
    <3> QED BY <3>2, <3>3
  <2>10. \A i, j \in Turns(w) : Part(place[i])' /\ Part(place[j])' => i = j
    BY <2>1, <2>6 DEF WorkInv
  <2> QED BY <2>5, <2>8, <2>9, <2>10 DEF WorkInv
<1>8. PlacesInv(place)'
  BY <1>1, <1>3, <1>5, <1>6, PlacesKept DEF SpawnedInv
<1>9. CallsInv' /\ FreshInv' /\ Spawned' /\ Fresh' = Fresh
  BY <1>1, <1>2, <1>3, <1>4, <1>6, SpawnedFrame
<1>10. CountsTyped' /\ TotalInv'
  BY <1>1, <1>2, TotalKept DEF BenchInv, CountsTyped, Stages
<1>11. MainInv'
  BY <1>1, <1>2, <1>4, <1>9 DEF BenchInv, MainInv
<1> QED BY <1>7, <1>8, <1>9, <1>10, <1>11, Together

LEMMA FinishInv == BenchInv /\ Finish => RestInv'
<1> SUFFICES ASSUME BenchInv, Finish PROVE RestInv'
  OBVIOUS
<1>1. /\ stage = "Reset" /\ toReset = {} /\ stage' = "Done"
      /\ UNCHANGED <<made, list, toReset, joined, worker, zoneBytes, total, before>>
      /\ UNCHANGED <<drive, handle, pc, target, seen, outcome>>
  BY DEF Finish, vars, handleVars, allocatorVars
<1>2. Spawned
  BY <1>1 DEF BenchInv, MainInv
<1>3. PICK place \in [DOMAIN Slots -> Fresh] : SpawnedInv(place)
  BY <1>2 DEF BenchInv
<1>4. ASSUME NEW w \in Workers PROVE WorkInv(place, w)'
  <2>1. WorkInv(place, w)
    BY <1>3 DEF SpawnedInv
  <2>2. \A i \in Turns(w) : /\ Live(Slots[i])' <=> Live(Slots[i])
                            /\ Full(place[i])' <=> Full(place[i])
                            /\ Part(place[i])' <=> Part(place[i])
                            /\ InStep(place[i], Slots[i])' <=> InStep(place[i], Slots[i])
                            /\ Waiting(place[i], Slots[i])' <=> Waiting(place[i], Slots[i])
    BY <1>1 DEF Live, Full, Part, InStep, Waiting
  <2> HIDE DEF Live, Full, Part, InStep, Waiting
  <2> QED BY <1>1, <2>1, <2>2 DEF WorkInv
<1>5. PlacesInv(place)'
  BY <1>1, <1>3, PlacesKept DEF SpawnedInv
<1>6. CallsInv' /\ FreshInv' /\ Spawned' /\ Fresh' = Fresh
  BY <1>1, <1>2, SpawnedFrame
<1>7. CountsTyped' /\ TotalInv'
  BY <1>1, TotalKept DEF BenchInv, CountsTyped, Stages
<1>8. MainInv'
  BY <1>1, <1>2, <1>6 DEF BenchInv, MainInv
<1> QED BY <1>4, <1>5, <1>6, <1>7, <1>8, Together

\* The drive closes a zone, or nothing happens.
LEMMA QuietInv ==
    ASSUME BenchInv, UNCHANGED benchVars, UNCHANGED <<handle, pc, target, seen, outcome>>,
           \A z \in Zones : /\ drive'[z].wp = drive[z].wp
                            /\ drive'[z].cond = "Full" <=> drive[z].cond = "Full"
                            /\ drive'[z].cond = "Empty" <=> drive[z].cond = "Empty"
    PROVE  RestInv'
<1>1. UNCHANGED <<stage, made, list, toReset, joined, worker, zoneBytes, total, before>>
  BY DEF benchVars
<1>2. CountsTyped' /\ MainInv' /\ TotalInv' /\ Fresh' = Fresh
  BY <1>1, TotalKept DEF BenchInv, CountsTyped, MainInv, Spawned, Fresh
<1>3. CallsInv'
  <2>1. NextSlot' = NextSlot
    BY <1>1 DEF NextSlot
  <2> QED BY <1>1, <2>1 DEF BenchInv, CallsInv
<1>4. FreshInv'
  BY <1>1, <1>2 DEF BenchInv, FreshInv, Spawned
<1>5. CASE ~Spawned
  BY <1>1, <1>2, <1>3, <1>4, <1>5 DEF RestInv, Spawned
<1>6. CASE Spawned
  <2>1. PICK place \in [DOMAIN Slots -> Fresh] : SpawnedInv(place)
    BY <1>6 DEF BenchInv
  <2>2. PlacesInv(place)'
    <3>1. \A z \in Zones \ list : drive'[z].wp = drive[z].wp
      OBVIOUS
    <3>2. \A i \in DOMAIN Slots : handle'[Slots[i]].zone \in {handle[Slots[i]].zone, NoZone}
      OBVIOUS
    <3> QED BY <1>1, <2>1, <3>1, <3>2, PlacesKept DEF SpawnedInv
  <2>3. ASSUME NEW w \in Workers PROVE WorkInv(place, w)'
    <3>1. \A i \in Turns(w) : place[i] \in Zones
      BY <2>1, TurnsOrdered, FreshFacts DEF BenchInv
    <3>2. WorkInv(place, w)
      BY <2>1 DEF SpawnedInv
    <3>3. \A i \in Turns(w) :
              /\ handle'[Slots[i]] = handle[Slots[i]]
              /\ zoneBytes'[Slots[i]] = zoneBytes[Slots[i]]
              /\ drive'[place[i]].wp = drive[place[i]].wp
              /\ drive'[place[i]].cond = "Full" <=> drive[place[i]].cond = "Full"
      BY <1>1, <3>1
    <3> QED BY <1>1, <3>2, <3>3, WorkKept
  <2> QED BY <1>2, <1>3, <1>4, <2>2, <2>3, Together
<1> QED BY <1>5, <1>6

-----------------------------------------------------------------------------
(* The invariant                                                           *)

LEMMA InitBenchInv == BenchInit => BenchInv
<1> SUFFICES ASSUME BenchInit PROVE BenchInv
  OBVIOUS
<1>1. AllocatorInv /\ revoked = {}
  BY InitAllocatorInv DEF BenchInit, AllocatorInit
<1>2. /\ stage = "Allocate" /\ made = 0 /\ list = {} /\ toReset = {} /\ joined = 0
      /\ worker = [w \in Workers |-> "Unborn"]
      /\ zoneBytes = [s \in Threads |-> 0] /\ total = 0 /\ before = drive
  BY DEF BenchInit
<1>3. /\ pc = [t \in Threads |-> "Idle"] /\ seen = [t \in Threads |-> {}]
      /\ outcome = [t \in Threads |-> "None"]
      /\ drive \in DriveState /\ Coherent(drive)
  BY DEF BenchInit, AllocatorInit, HandleInit
<1>4. /\ NrWorkers \in Nat \ {0} /\ ZoneCap \in Nat \ {0} /\ Len(Slots) \in Nat \ {0}
      /\ \A i \in DOMAIN Slots : Slots[i] \in Threads
  BY BenchAssumption, DriveAssumption, SlotsFacts
<1>5. CountsTyped
  BY <1>2, <1>3, <1>4 DEF CountsTyped, Stages, Workings
<1>6. MainInv
  BY <1>2, <1>4 DEF MainInv, Spawned
<1>7. CallsInv
  BY <1>2, <1>3, <1>4 DEF CallsInv
<1>8. FreshInv
  BY <1>2, <1>3 DEF FreshInv, Fresh
<1>9. TotalInv
  <2>1. Counted = {}
    BY <1>2, <1>4 DEF Counted
  <2>2. Cardinality({}) = 0
    BY FS_EmptySet
  <2> QED BY <1>2, <2>1, <2>2 DEF TotalInv
<1> QED BY <1>1, <1>2, <1>5, <1>6, <1>7, <1>8, <1>9 DEF BenchInv, Spawned

LEMMA NextBenchInv == BenchInv /\ [BenchNext]_allVars => BenchInv'
<1> SUFFICES ASSUME BenchInv, [BenchNext]_allVars PROVE BenchInv'
  OBVIOUS
<1>1. AllocatorInv' /\ revoked' = {}
  BY BenchAllocator, NothingRevoked DEF BenchInv
<1>2. ASSUME Main PROVE RestInv'
  BY <1>2, AllocateNextInv, AllocateFailsInv, ResetNextInv, DropMadeInv, SpawnInv, JoinInv,
     FlushInv, ResetListedInv, FinishInv DEF Main
<1>3. ASSUME NEW w \in Workers, Work(w) PROVE RestInv'
  BY <1>3, WriteZoneInv, DropNextInv, EndWorkerInv DEF Work
<1>4. ASSUME DriveCloses, UNCHANGED <<allocatorVars, benchVars>> PROVE RestInv'
  <2>1. TypeOK
    BY DEF BenchInv, AllocatorInv, TypeInv
  <2>2. UNCHANGED benchVars /\ UNCHANGED <<handle, pc, target, seen, outcome>>
    BY <1>4 DEF DriveCloses, allocatorVars
  <2> QED BY <1>4, <2>1, <2>2, CloseKeeps, QuietInv
<1>5. ASSUME UNCHANGED allVars PROVE RestInv'
  <2>1. UNCHANGED benchVars /\ UNCHANGED <<drive, handle, pc, target, seen, outcome>>
    BY <1>5 DEF allVars, vars, handleVars, allocatorVars
  <2> QED BY <2>1, QuietInv
<1>6. RestInv'
  BY <1>2, <1>3, <1>4, <1>5 DEF BenchNext
<1> QED BY <1>1, <1>6 DEF BenchInv, RestInv

THEOREM BenchInvariant == BenchSpec => []BenchInv
<1> QED BY InitBenchInv, NextBenchInv, PTL DEF BenchSpec

-----------------------------------------------------------------------------
(* What bench does to a device                                             *)

\* Type correctness of bench.
THEOREM BenchTyping == BenchSpec => []BenchTypeOK
<1>1. BenchInv => BenchTypeOK
  <2> SUFFICES ASSUME BenchInv PROVE BenchTypeOK
    OBVIOUS
  <2>1. 0 .. ZoneCap \subseteq 0 .. ZoneLen
    BY DriveAssumption
  <2>2. zoneBytes \in [Threads -> 0 .. ZoneLen]
    BY <2>1 DEF BenchInv, CountsTyped
  <2> QED BY <2>2 DEF BenchInv, CountsTyped, AllocatorInv, BenchTypeOK
<1> QED BY <1>1, BenchInvariant, PTL

\* bench uses its handles as ZoneHandle's contract asks, its resets through the
\* raw device included: by then no handle is left.
THEOREM BenchImplementsHandles == BenchSpec => HandleSpec
<1>1. BenchInit => HandleInit
  BY DEF BenchInit, AllocatorInit
<1> QED BY <1>1, BenchHandles, BenchInvariant, PTL DEF BenchSpec, HandleSpec

\* A zone that is changed and not full is the one that a worker works on.
LEMMA PartsBounded ==
    ASSUME BenchInv
    PROVE  Cardinality({z \in Touched : drive[z].cond # "Full"}) <= NrWorkers
<1> DEFINE P == {z \in Touched : drive[z].cond # "Full"}
<1>1. NrWorkers \in Nat
  BY BenchAssumption
<1>2. CASE ~Spawned
  <2>1. P = {}
    BY <1>2 DEF BenchInv, FreshInv, Touched
  <2> HIDE DEF P
  <2>2. Cardinality(P) = 0
    BY <2>1, FS_EmptySet
  <2> QED BY <1>1, <2>2 DEF P
<1>3. CASE Spawned
  <2>1. PICK place \in [DOMAIN Slots -> Fresh] : SpawnedInv(place)
    BY <1>3 DEF BenchInv
  <2> DEFINE Of(z, w) == \E i \in Turns(w) : place[i] = z
             f == [z \in P |-> CHOOSE w \in Workers : Of(z, w)]
  <2>2. ASSUME NEW z \in P PROVE Part(z) /\ \E w \in Workers : Of(z, w)
    <3>1. z \in Zones /\ drive[z].wp # before[z].wp /\ ~Full(z)
      BY DEF Touched, Full
    <3>2. z \in list
      BY <2>1, <3>1 DEF SpawnedInv, PlacesInv
    <3>3. PICK i \in DOMAIN Slots : place[i] = z
      BY <2>1, <3>2 DEF SpawnedInv, PlacesInv
    <3>4. before[z].wp = 0
      BY <3>3, FreshFacts DEF BenchInv
    <3>5. PICK w \in Workers : i \in Turns(w)
      BY TurnsCover
    <3> QED BY <3>1, <3>3, <3>4, <3>5 DEF Part
  <2> HIDE DEF P, Of
  <2>3. \A z \in P : f[z] \in Workers /\ Of(z, f[z])
    BY <2>2
  <2> HIDE DEF f
  <2>4. \A y, z \in P : f[y] = f[z] => y = z
    <3> SUFFICES ASSUME NEW y \in P, NEW z \in P, f[y] = f[z] PROVE y = z
      OBVIOUS
    <3>1. PICK i \in Turns(f[z]) : place[i] = z
      BY <2>3 DEF Of
    <3>2. PICK j \in Turns(f[z]) : place[j] = y
      BY <2>3 DEF Of
    <3>3. i = j
      BY <2>1, <2>2, <2>3, <3>1, <3>2 DEF SpawnedInv, WorkInv
    <3> QED BY <3>1, <3>2, <3>3
  <2>5. f \in Injection(P, Workers)
    BY <2>3, <2>4 DEF f, Injection, IsInjective
  <2>6. IsFiniteSet(Workers) /\ Cardinality(Workers) = NrWorkers
    <3>1. /\ IsFiniteSet(1 .. NrWorkers)
          /\ Cardinality(1 .. NrWorkers) = IF 1 > NrWorkers THEN 0 ELSE NrWorkers - 1 + 1
      BY <1>1, FS_Interval
    <3> QED BY <1>1, <3>1, BenchAssumption DEF Workers
  <2>7. Cardinality(P) <= Cardinality(Workers)
    BY <2>5, <2>6, FS_Injection
  <2> QED BY <2>6, <2>7 DEF P
<1> QED BY <1>2, <1>3

\* bench changes only zones that were empty, never leaves more zones written in
\* part than it has workers, and after success leaves every zone as it was.
THEOREM BenchLeavesNoTrace == BenchSpec => []BenchFootprint
<1>1. BenchInv => BenchFootprint
  <2> SUFFICES ASSUME BenchInv PROVE BenchFootprint
    OBVIOUS
  <2>1. \A z \in Touched : before[z].cond = "Empty"
    BY DEF BenchInv, FreshInv, Fresh, Touched
  <2>2. ASSUME stage = "Done", NEW z \in Touched PROVE FALSE
    <3>1. Spawned /\ toReset = {}
      BY <2>2 DEF BenchInv, MainInv
    <3>2. PICK place \in [DOMAIN Slots -> Fresh] : SpawnedInv(place)
      BY <3>1 DEF BenchInv
    <3>3. z \in Zones /\ drive[z].wp # before[z].wp
      BY DEF Touched
    <3>4. z \in list
      BY <3>2, <3>3 DEF SpawnedInv, PlacesInv
    <3>5. PICK i \in DOMAIN Slots : place[i] = z
      BY <3>2, <3>4 DEF SpawnedInv, PlacesInv
    <3>6. PICK w \in Workers : i \in Turns(w)
      BY TurnsCover
    <3>7. drive[z].wp = 0
      BY <2>2, <3>1, <3>2, <3>5, <3>6 DEF SpawnedInv, WorkInv
    <3>8. before[z].wp = 0
      BY <3>5, FreshFacts DEF BenchInv
    <3> QED BY <3>3, <3>7, <3>8
  <2> QED BY <2>1, <2>2, PartsBounded DEF BenchFootprint
<1> QED BY <1>1, BenchInvariant, PTL

\* When the results are printed, the snapshot has a zone for every handle, each
\* of them is full, and the total is what they hold.
THEOREM BenchFillsAll == BenchSpec => []BenchFills
<1>1. BenchInv => BenchFills
  <2> SUFFICES ASSUME BenchInv, stage = "Reset", toReset = list
               PROVE  /\ Cardinality(list) = Len(Slots)
                      /\ total = Len(Slots) * ZoneCap
                      /\ \A z \in list : drive[z].cond = "Full"
    BY DEF BenchFills
  <2>1. Spawned /\ joined = NrWorkers
    BY DEF BenchInv, MainInv
  <2>2. PICK place \in [DOMAIN Slots -> Fresh] : SpawnedInv(place)
    BY <2>1 DEF BenchInv
  <2>3. list = {place[i] : i \in DOMAIN Slots}
        /\ \A i, j \in DOMAIN Slots : i # j => place[i] # place[j]
    BY <2>2 DEF SpawnedInv, PlacesInv
  <2>4. ASSUME NEW i \in DOMAIN Slots
        PROVE  zoneBytes[Slots[i]] = ZoneCap /\ Full(place[i])
    <3>1. PICK w \in Workers : i \in Turns(w)
      BY TurnsCover
    <3>2. worker[w] = "Ok" /\ ~Live(Slots[i])
      BY <2>1, NoneLive, SlotsFacts DEF BenchInv, MainInv, Workers
    <3>3. place[i] \in toReset
      BY <2>3
    <3>4. WorkInv(place, w)
      BY <2>2 DEF SpawnedInv
    <3> QED BY <3>1, <3>2, <3>3, <3>4 DEF WorkInv
  <2>5. \A z \in list : drive[z].cond = "Full"
    BY <2>3, <2>4 DEF Full
  <2>6. DOMAIN Slots = 1 .. Len(Slots) /\ Len(Slots) \in Nat \ {0} /\ ZoneCap \in Nat \ {0}
    BY SlotsFacts, DriveAssumption
  <2>7. IsFiniteSet(DOMAIN Slots) /\ Cardinality(DOMAIN Slots) = Len(Slots)
    <3> DEFINE n == Len(Slots)
    <3>1. n \in Int /\ n > 0 /\ DOMAIN Slots = 1 .. n
      BY <2>6
    <3> HIDE DEF n
    <3>2. IsFiniteSet(1 .. n) /\ Cardinality(1 .. n) = IF 1 > n THEN 0 ELSE n - 1 + 1
      BY <3>1, FS_Interval
    <3>3. Cardinality(1 .. n) = n
      BY <3>1, <3>2
    <3> QED BY <3>1, <3>2, <3>3 DEF n
  <2>8. Cardinality(list) = Len(Slots)
    <3>1. place \in [DOMAIN Slots -> list] /\ \A z \in list : \E i \in DOMAIN Slots : place[i] = z
      BY <2>3
    <3>2. place \in Injection(DOMAIN Slots, list) /\ place \in Surjection(DOMAIN Slots, list)
      BY <2>3, <3>1 DEF Injection, IsInjective, Surjection
    <3>3. ExistsBijection(DOMAIN Slots, list)
      BY <3>2 DEF ExistsBijection, Bijection
    <3> QED BY <2>7, <3>3, FS_Bijection
  <2>9. total = Len(Slots) * ZoneCap
    <3> DEFINE U == 0 .. ZoneCap - 1
    <3>1. Counted = (DOMAIN Slots) \X U
      <4>1. \A p \in (DOMAIN Slots) \X U : p[2] < zoneBytes[Slots[p[1]]]
        BY <2>4, <2>6
      <4> QED BY <4>1 DEF Counted
    <3>2. IsFiniteSet(U) /\ Cardinality(U) = ZoneCap
      <4> DEFINE top == ZoneCap - 1
      <4>1. top \in Int /\ top >= 0 /\ top - 0 + 1 = ZoneCap
        BY <2>6
      <4> HIDE DEF top
      <4>2. IsFiniteSet(0 .. top) /\ Cardinality(0 .. top) = IF 0 > top THEN 0 ELSE top - 0 + 1
        BY <4>1, FS_Interval
      <4>3. Cardinality(0 .. top) = ZoneCap
        BY <4>1, <4>2
      <4> QED BY <4>2, <4>3 DEF top
    <3> HIDE DEF U
    <3>3. Cardinality((DOMAIN Slots) \X U) = Cardinality(DOMAIN Slots) * Cardinality(U)
      BY <2>7, <3>2, FS_Product
    <3>4. total = Cardinality(Counted)
      BY DEF BenchInv, TotalInv
    <3> QED BY <2>7, <3>1, <3>2, <3>3, <3>4
  <2> QED BY <2>5, <2>8, <2>9
<1> QED BY <1>1, BenchInvariant, PTL

=============================================================================
