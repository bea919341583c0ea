-------------------------- MODULE ZoneHandleProofs --------------------------
(***************************************************************************)
(* Theorems about ZoneHandle for any number of threads and zones, any zone *)
(* length and capacity and any buffer length up to a zone.                 *)
(***************************************************************************)
EXTENDS ZoneHandle, TLAPS

-----------------------------------------------------------------------------
(* Lemmas about the drive                                                  *)

\* A write of any length leaves a drive state.
LEMMA LandedType ==
    ASSUME NEW d \in DriveState, Coherent(d), NEW z \in Zones,
           NEW off \in 0 .. ZoneLen - 1, NEW k \in 0 .. ZoneLen
    PROVE  Landed(d, z, off, k) \in DriveState /\ Coherent(Landed(d, z, off, k))
<1> USE DriveAssumption
<1>1. ASSUME NEW x \in Zones, NEW w \in 0 .. ZoneLen
      PROVE  LET a == Advance(x, d[x], w) IN
             /\ a \in [cond : Condition, wp : 0 .. ZoneLen]
             /\ a.cond = "NotWritePointer" <=> ~IsSequential(x)
             /\ a.cond = "NotWritePointer" => a.wp = 0
             /\ a.cond = "Empty" => a.wp = 0
             /\ a.cond = "Full" => a.wp = ZoneLen
             /\ a.cond \in Open \cup {"Closed"} => a.wp < ZoneCap
  BY DEF Advance, DriveState, Coherent, Condition, Open
<1>2. ASSUME NEW x \in Zones
      PROVE  \/ Landed(d, z, off, k)[x] = d[x]
             \/ \E w \in 0 .. ZoneLen : Landed(d, z, off, k)[x] = Advance(x, d[x], w)
  BY DEF Landed
<1>3. Landed(d, z, off, k) = [x \in Zones |-> Landed(d, z, off, k)[x]]
  BY DEF Landed
<1> DEFINE e == Landed(d, z, off, k)
<1>4. ASSUME NEW x \in Zones
      PROVE  /\ e[x] \in [cond : Condition, wp : 0 .. ZoneLen]
             /\ e[x].cond = "NotWritePointer" <=> ~IsSequential(x)
             /\ e[x].cond = "NotWritePointer" => e[x].wp = 0
             /\ e[x].cond = "Empty" => e[x].wp = 0
             /\ e[x].cond = "Full" => e[x].wp = ZoneLen
             /\ e[x].cond \in Open \cup {"Closed"} => e[x].wp < ZoneCap
  <2>1. CASE e[x] = d[x]
    BY <2>1 DEF DriveState, Coherent
  <2>2. CASE \E w \in 0 .. ZoneLen : e[x] = Advance(x, d[x], w)
    BY <2>2, <1>1
  <2> QED BY <1>2, <2>1, <2>2
<1>5. e \in DriveState
  BY <1>3, <1>4 DEF DriveState
<1>6. Coherent(e)
  BY <1>4 DEF Coherent
<1> QED BY <1>5, <1>6

\* Management commands leave drive states, and touch one zone.
LEMMA ManageType ==
    ASSUME NEW d \in DriveState, Coherent(d), NEW z \in Zones,
           NEW e \in ResetStates(d, z) \cup FinishStates(d, z) \cup OpenStates(d, z)
                     \cup CloseStates(d, z) \cup ImplicitCloseStates(d, z)
    PROVE  /\ e \in DriveState
           /\ Coherent(e)
           /\ \A x \in Zones \ {z} : e[x] = d[x]
<1> USE DriveAssumption
<1>1. PICK c \in Condition, w \in 0 .. ZoneLen :
         /\ e = Sets(d, z, c, w)
         /\ IsSequential(z)
         /\ c # "NotWritePointer"
         /\ c = "Empty" => w = 0
         /\ c = "Full" => w = ZoneLen
         /\ c \in Open \cup {"Closed"} => w < ZoneCap
  BY DEF ResetStates, FinishStates, OpenStates, CloseStates, ImplicitCloseStates,
         DriveState, Coherent, Condition, Open
<1>2. /\ e \in DriveState
      /\ e[z] = [cond |-> c, wp |-> w]
      /\ \A x \in Zones \ {z} : e[x] = d[x]
  BY <1>1 DEF Sets, DriveState
<1>3. Coherent(e)
  BY <1>1, <1>2 DEF Coherent
<1> QED BY <1>2, <1>3

\* A write that ends within its zone changes no other zone.
LEMMA LandedElsewhere ==
    ASSUME NEW d \in DriveState, NEW z \in Zones, NEW off \in Nat, NEW k \in Nat,
           off + k <= ZoneLen
    PROVE  \A x \in Zones \ {z} : Landed(d, z, off, k)[x] = d[x]
BY DriveAssumption DEF Landed

\* Where the pointer of the zone stands after such a write.
LEMMA LandedHere ==
    ASSUME NEW d \in DriveState, NEW z \in Zones, IsSequential(z),
           NEW off \in 0 .. ZoneCap - 1, NEW k \in Nat \ {0}, off + k <= ZoneCap,
           CanLand(d, z, off, k)
    PROVE  LET e == Landed(d, z, off, k) IN
           \/ e[z].wp = off + k
           \/ e[z].cond = "Full" /\ off + k >= ZoneCap
<1> USE DriveAssumption
<1>1. d[z].wp = off
  <2>1. AcceptsSector(d, z, off, 0) BY DEF CanLand
  <2> QED BY <2>1 DEF AcceptsSector
<1>2. Landed(d, z, off, k)[z] = Advance(z, d[z], off + k)
  BY DEF Landed
<1> QED BY <1>1, <1>2 DEF Advance, DriveState

-----------------------------------------------------------------------------
(* Type correctness                                                        *)

\* Only a live handle is inside write_all_sequential.
TypeInv == TypeOK /\ \A t \in Threads : left[t] > 0 => Live(t)

\* What a pwrite at the pointer of a live handle does to the drive.
LEMMA LandsType ==
    ASSUME TypeOK, NEW t \in Threads, Live(t), ~AtCapacity(t),
           NEW k \in 0 .. MaxBuf, Lands(t, k)
    PROVE  /\ drive' \in DriveState /\ Coherent(drive')
           /\ handle[t].zone \in Zones
           /\ handle[t].wp \in 0 .. Capacity(handle[t].zone) - 1
           /\ handle[t].wp + k \in 0 .. 2 * ZoneLen
<1> USE DriveAssumption, HandleAssumption
<1> DEFINE z == handle[t].zone
           off == handle[t].wp
<1>1. z \in Zones /\ off \in 0 .. 2 * ZoneLen
  BY DEF TypeOK, Live
<1>2. Capacity(z) \in 1 .. ZoneLen
  BY DEF Capacity
<1>3. off \in 0 .. Capacity(z) - 1
  BY <1>1, <1>2 DEF AtCapacity
<1>4. drive' \in DriveState /\ Coherent(drive')
  BY <1>1, <1>2, <1>3, LandedType DEF Lands, TypeOK
<1> QED BY <1>1, <1>2, <1>3, <1>4

LEMMA OperateTyping ==
    ASSUME TypeInv, NEW t \in Threads, Operate(t)
    PROVE  TypeInv'
<1> USE DriveAssumption, HandleAssumption DEF TypeInv, TypeOK, Live, Idle, Results
<1>1. ASSUME NEW n \in 1 .. MaxBuf, WriteSequential(t, n)
      PROVE  TypeInv'
  <2>1. CASE Refuses(t)
    BY <1>1, <2>1 DEF WriteSequential, Refuses, Writes, WriteFails
  <2>2. ASSUME NEW k \in 0 .. n, Writes(t, k)
        PROVE  TypeInv'
    BY <1>1, <2>2, LandsType DEF WriteSequential, Writes
  <2>3. CASE WriteFails(t, n)
    BY <1>1, <2>3, LandsType DEF WriteSequential, WriteFails
  <2> QED BY <1>1, <2>1, <2>2, <2>3 DEF WriteSequential
<1>2. ASSUME NEW n \in 1 .. MaxBuf, BeginWriteAll(t, n)
      PROVE  TypeInv'
  BY <1>2 DEF BeginWriteAll
<1>3. CASE WriteAllStep(t)
  <2>0. left[t] \in 1 .. MaxBuf /\ Live(t)
    BY <1>3 DEF WriteAllStep
  <2>1. CASE Refuses(t) /\ Return(t, "ZoneFull")
    BY <2>1 DEF Refuses, Return
  <2>2. CASE WriteFails(t, left[t]) /\ Return(t, "Error")
    BY <2>0, <2>2, LandsType DEF WriteFails, Return
  <2>3. CASE Writes(t, 0) /\ Return(t, "ZoneFull")
    BY <2>0, <2>3, LandsType DEF Writes, Return
  <2>4. CASE Writes(t, left[t]) /\ Return(t, "Ok")
    BY <2>0, <2>4, LandsType DEF Writes, Return
  <2>5. ASSUME NEW k \in 1 .. left[t] - 1, Writes(t, k),
               Remain(t, k)
        PROVE  TypeInv'
    BY <2>0, <2>5, LandsType DEF Writes, Remain
  <2> QED BY <1>3, <2>1, <2>2, <2>3, <2>4, <2>5 DEF WriteAllStep
<1>4. CASE ResetZone(t)
  <2>1. drive' \in DriveState /\ Coherent(drive')
    BY <1>4, ManageType DEF ResetZone, ManageSets, ManageFails
  <2>2. /\ handle' = handle \/ handle' = [handle EXCEPT ![t].wp = 0]
        /\ result' \in [Threads -> Results]
        /\ synced' \in [Threads -> BOOLEAN]
        /\ UNCHANGED <<left, goal, turn>>
    BY <1>4 DEF ResetZone, ManageSets, ManageFails
  <2>3. handle' \in [Threads -> [zone : Zones \cup {NoZone}, wp : 0 .. 2 * ZoneLen]]
    BY <2>2
  <2>4. \A u \in Threads : handle'[u].zone = handle[u].zone
    BY <2>2
  <2> QED BY <2>1, <2>2, <2>3, <2>4
<1>5. CASE FinishZone(t)
  <2>1. drive' \in DriveState /\ Coherent(drive')
    BY <1>5, ManageType DEF FinishZone, ManageSets, ManageFails
  <2>2. /\ handle' = handle \/ handle' = [handle EXCEPT ![t].wp = ZoneLen]
        /\ result' \in [Threads -> Results]
        /\ synced' \in [Threads -> BOOLEAN]
        /\ UNCHANGED <<left, goal, turn>>
    BY <1>5 DEF FinishZone, ManageSets, ManageFails
  <2>3. handle' \in [Threads -> [zone : Zones \cup {NoZone}, wp : 0 .. 2 * ZoneLen]]
    BY <2>2
  <2>4. \A u \in Threads : handle'[u].zone = handle[u].zone
    BY <2>2
  <2> QED BY <2>1, <2>2, <2>3, <2>4
<1>6. CASE OpenZone(t) \/ CloseZone(t)
  BY <1>6, ManageType DEF OpenZone, CloseZone, ManageOnly, ManageFails
<1> QED BY <1>1, <1>2, <1>3, <1>4, <1>5, <1>6 DEF Operate

LEMMA NewInnerTyping ==
    ASSUME TypeInv, NEW t \in Threads, NEW i \in Indices, NewInner(t, i)
    PROVE  TypeInv'
<1> USE DriveAssumption, HandleAssumption DEF TypeInv, TypeOK, Live
<1>1. CASE NewSucceeds(t, i)
  <2>1. ASSUME NEW p \in ReportedPointers(drive, i), i \in Zones
        PROVE  UnwrapOrStart(p) \in 0 .. ZoneLen
    BY <2>1 DEF ReportedPointers, UnwrapOrStart, NoPointer, DriveState
  <2> QED BY <1>1, <2>1 DEF NewInner, NewSucceeds, Results
<1>2. CASE NewFails(t, i)
  BY <1>2 DEF NewInner, NewFails, Results
<1> QED BY <1>1, <1>2 DEF NewInner

LEMMA NextTyping == TypeInv /\ [HandleNext]_handleVars => TypeInv'
<1> SUFFICES ASSUME TypeInv, [HandleNext]_handleVars PROVE TypeInv'
  OBVIOUS
<1> USE DriveAssumption, HandleAssumption DEF TypeInv, TypeOK, Live
<1>1. ASSUME NEW t \in Threads, NEW i \in Indices, NewInner(t, i)
      PROVE  TypeInv'
  BY <1>1, NewInnerTyping
<1>2. ASSUME NEW t \in Threads, Drop(t)
      PROVE  TypeInv'
  BY <1>2 DEF Drop, Idle, NoHandle, Results
<1>3. ASSUME NEW t \in Threads, Operate(t)
      PROVE  TypeInv'
  BY <1>3, OperateTyping
<1>4. CASE DriveCloses
  BY <1>4, ManageType DEF DriveCloses
<1>5. CASE UNCHANGED handleVars
  BY <1>5 DEF handleVars
<1>6. ASSUME NEW z \in Zones, RawManage(z)
      PROVE  TypeInv'
  BY <1>6, ManageType DEF RawManage, Commands
<1> QED BY <1>1, <1>2, <1>3, <1>4, <1>5, <1>6 DEF HandleNext

\* Every handle points into or just past its zone, and the drive's zones stay
\* coherent whatever the handles do.
THEOREM HandleTyping == HandleSpec => []TypeOK
<1>1. HandleInit => TypeInv
  BY DriveAssumption, HandleAssumption
     DEF HandleInit, TypeInv, TypeOK, NoHandle, Results, Live
<1> QED BY <1>1, NextTyping, PTL DEF HandleSpec, TypeInv

-----------------------------------------------------------------------------
(* What the methods of a handle and its constructor leave to others        *)

LEMMA OperateKeeps ==
    ASSUME TypeInv, NEW t \in Threads, Operate(t)
    PROVE  /\ Live(t)
           /\ \A u \in Threads : handle'[u].zone = handle[u].zone
           /\ \A u \in Threads \ {t} : result'[u] = result[u] /\ left'[u] = left[u]
<1> USE DEF TypeInv, TypeOK
<1>1. ASSUME NEW n \in 1 .. MaxBuf, WriteSequential(t, n) \/ BeginWriteAll(t, n)
      PROVE  /\ Live(t)
             /\ \A u \in Threads : handle'[u].zone = handle[u].zone
             /\ \A u \in Threads \ {t} : result'[u] = result[u] /\ left'[u] = left[u]
  BY <1>1 DEF WriteSequential, BeginWriteAll, Refuses, Writes, WriteFails, Idle
<1>2. CASE WriteAllStep(t)
  <2>1. Live(t)
    BY <1>2 DEF WriteAllStep
  <2>2. \/ handle' = handle
        \/ \E k \in 0 .. left[t] : handle' = [handle EXCEPT ![t].wp = @ + k]
    BY <1>2 DEF WriteAllStep, Refuses, Writes, WriteFails
  <2>3. \A u \in Threads : handle'[u].zone = handle[u].zone
    BY <2>2
  <2>4. \A u \in Threads \ {t} : result'[u] = result[u] /\ left'[u] = left[u]
    BY <1>2 DEF WriteAllStep, Return, Remain
  <2> QED BY <2>1, <2>3, <2>4
<1>3. CASE ResetZone(t) \/ FinishZone(t)
  BY <1>3 DEF ResetZone, FinishZone, ManageSets, ManageFails, Idle
<1>4. CASE OpenZone(t) \/ CloseZone(t)
  BY <1>4 DEF OpenZone, CloseZone, ManageOnly, ManageFails, Idle
<1> QED BY <1>1, <1>2, <1>3, <1>4 DEF Operate

LEMMA NewInnerKeeps ==
    ASSUME TypeInv, NEW t \in Threads, NEW i \in Indices, NewInner(t, i)
    PROVE  /\ \A u \in Threads \ {t} : handle'[u] = handle[u] /\ result'[u] = result[u]
           /\ \/ result'[t] = "Ok" /\ i \in Zones /\ handle'[t].zone = i
              \/ result'[t] \in {"InvalidRange", "Error"} /\ handle' = handle
BY DEF TypeInv, TypeOK, NewInner, NewSucceeds, NewFails

-----------------------------------------------------------------------------
(* The tracked write pointer                                               *)

HandlesExclusive ==
    \A t, u \in Threads : t # u /\ Live(t) => handle[u].zone # handle[t].zone

\* What write_all_sequential still has to write was allowed by its caller.
LeftFits == \A t \in Threads : left[t] > 0 => Fits(t, left[t])

\* The inductive invariant: the pointer is right because nobody else writes to
\* the zone, and a neighbour's write cannot reach it.
HandleInv == TypeInv /\ HandlesExclusive /\ LeftFits /\ PointerTracksDevice

\* No accepted write goes past the capacity of its zone.
LEMMA WithinZone ==
    ASSUME NoSpill, TypeOK, NEW t \in Threads, Live(t), ~AtCapacity(t),
           NEW n \in 1 .. MaxBuf, Fits(t, n), NEW k \in 0 .. n, Lands(t, k)
    PROVE  /\ handle[t].wp + k <= Capacity(handle[t].zone)
           /\ Capacity(handle[t].zone) <= ZoneLen
<1> USE DriveAssumption, HandleAssumption
<1> DEFINE z == handle[t].zone
           off == handle[t].wp
<1>1. z \in Zones /\ off \in 0 .. Capacity(z) - 1 /\ Capacity(z) \in 1 .. ZoneLen
  BY LandsType DEF Capacity
<1>2. CASE Clamped
  BY <1>1, <1>2 DEF Fits, AtCapacity
<1>3. CASE ZoneCap < ZoneLen /\ Conventional = {}
  <2>1. Capacity(z) = ZoneCap /\ IsSequential(z)
    BY <1>3 DEF Capacity, IsSequential
  <2>2. SUFFICES ASSUME off + k > ZoneCap PROVE FALSE
    BY <1>1, <2>1
  <2>3. ZoneCap - off \in 0 .. k - 1
    BY <1>1, <2>1, <2>2
  <2>4. AcceptsSector(drive, z, off, ZoneCap - off)
    BY <2>3 DEF Lands, CanLand
  <2> QED BY <1>1, <1>3, <2>1, <2>4 DEF AcceptsSector
<1> QED BY <1>2, <1>3 DEF NoSpill

\* A write by t changes its own zone only, and a pointer that tracked the drive
\* and moves by what landed tracks it still.
LEMMA WriteEffect ==
    ASSUME NoSpill, TypeOK, NEW t \in Threads, Live(t), ~AtCapacity(t),
           NEW n \in 1 .. MaxBuf, Fits(t, n), NEW k \in 0 .. n, Lands(t, k)
    PROVE  /\ \A x \in Zones \ {handle[t].zone} : drive'[x] = drive[x]
           /\ Writes(t, k) /\ (k > 0 \/ Tracks(t)) => Tracks(t)'
<1> USE DriveAssumption, HandleAssumption
<1> DEFINE z == handle[t].zone
           off == handle[t].wp
<1>1. /\ z \in Zones /\ off \in 0 .. Capacity(z) - 1
      /\ Capacity(z) \in 1 .. ZoneLen /\ off + k <= Capacity(z)
  BY LandsType, WithinZone DEF Capacity
<1>2. /\ drive \in DriveState
      /\ CanLand(drive, z, off, k)
      /\ drive' = Landed(drive, z, off, k)
  BY DEF TypeOK, Lands
<1>3. \A x \in Zones \ {z} : drive'[x] = drive[x]
  BY <1>1, <1>2, LandedElsewhere
<1>4. ASSUME Writes(t, k), k > 0 \/ Tracks(t) PROVE Tracks(t)'
  <2>1. handle'[t].zone = z /\ handle'[t].wp = off + k
    BY <1>4 DEF Writes, TypeOK
  <2>2. CASE ~IsSequential(z)
    BY <2>1, <2>2 DEF Tracks, IsSequential
  <2>3. CASE IsSequential(z) /\ k > 0
    <3>1. \/ drive'[z].wp = off + k
          \/ drive'[z].cond = "Full" /\ off + k >= ZoneCap
      BY <1>1, <1>2, <2>3, LandedHere DEF Capacity
    <3> QED BY <2>1, <3>1 DEF Tracks
  <2>4. CASE IsSequential(z) /\ k = 0
    <3>1. drive'[z] = drive[z]
      BY <1>1, <1>2, <2>4 DEF Landed
    <3> QED BY <1>1, <1>4, <2>1, <2>4, <3>1 DEF Tracks, IsSequential
  <2> QED BY <2>2, <2>3, <2>4
<1> QED BY <1>3, <1>4

\* What a method of t's handle leaves alone.
Frame(t) ==
    /\ Live(t)
    /\ \A x \in Zones \ {handle[t].zone} : drive'[x] = drive[x]
    /\ handle'[t].zone = handle[t].zone
    /\ \A u \in Threads \ {t} :
           /\ handle'[u] = handle[u]
           /\ left'[u] = left[u]
           /\ goal'[u] = goal[u]
           /\ result'[u] = result[u]
           /\ synced'[u] = synced[u]

\* While no call failed the pointer of t's handle is the drive's.
Good(t) == synced[t] => Tracks(t)

LEMMA OperateStep ==
    ASSUME NoSpill, TypeInv, LeftFits, NEW t \in Threads, Operate(t)
    PROVE  /\ Frame(t)
           /\ Good(t) => Good(t)'
           /\ left'[t] > 0 => Fits(t, left[t])'
<1> USE DriveAssumption, HandleAssumption DEF TypeInv, Good
<1>0. Live(t)
  BY DEF Operate, WriteSequential, BeginWriteAll, WriteAllStep, ResetZone,
         FinishZone, OpenZone, CloseZone, ManageOnly, Idle
<1>1. handle[t].zone \in Zones
  BY <1>0 DEF TypeOK, Live
<1>2. ASSUME NEW n \in 1 .. MaxBuf, Fits(t, n), NEW k \in 0 .. n, Writes(t, k)
      PROVE  /\ \A x \in Zones \ {handle[t].zone} : drive'[x] = drive[x]
             /\ handle' = [handle EXCEPT ![t].wp = @ + k]
             /\ synced' = synced
             /\ Good(t) => Good(t)'
             /\ \A m \in 1 .. n - k : Fits(t, m)'
  <2>1. \A x \in Zones \ {handle[t].zone} : drive'[x] = drive[x]
    BY <1>0, <1>2, WriteEffect DEF Writes
  <2>2. Good(t) => Good(t)'
    BY <1>0, <1>1, <1>2, WriteEffect DEF Writes
  <2>3. handle' = [handle EXCEPT ![t].wp = @ + k] /\ synced' = synced
    BY <1>2 DEF Writes
  <2>4. ASSUME NEW m \in 1 .. n - k PROVE Fits(t, m)'
    <3>1. handle'[t].zone = handle[t].zone /\ handle'[t].wp = handle[t].wp + k
      BY <2>3 DEF TypeOK
    <3>2. Clamped => handle[t].wp + n <= Capacity(handle[t].zone)
      BY <1>2 DEF Fits, Writes
    <3>3. handle[t].wp \in Nat /\ Capacity(handle[t].zone) \in Nat
      BY DEF TypeOK, Capacity
    <3> QED BY <3>1, <3>2, <3>3 DEF Fits, Capacity, IsSequential
  <2> QED BY <2>1, <2>2, <2>3, <2>4
<1>3. ASSUME NEW n \in 1 .. MaxBuf, Fits(t, n), WriteFails(t, n)
      PROVE  /\ \A x \in Zones \ {handle[t].zone} : drive'[x] = drive[x]
             /\ handle' = handle
             /\ synced' = [synced EXCEPT ![t] = FALSE]
  BY <1>0, <1>3, WriteEffect DEF WriteFails
<1>4. ASSUME NEW n \in 1 .. MaxBuf, Fits(t, n), WriteSequential(t, n)
      PROVE  Frame(t) /\ (Good(t) => Good(t)') /\ left'[t] = 0
  <2>1. /\ left' = left /\ left[t] = 0 /\ goal' = goal
        /\ \A u \in Threads \ {t} : result'[u] = result[u]
    BY <1>4 DEF WriteSequential, Idle, TypeOK
  <2>2. CASE Refuses(t)
    BY <1>0, <1>1, <2>1, <2>2 DEF Refuses, Frame, Tracks
  <2>3. ASSUME NEW k \in 0 .. n, Writes(t, k) PROVE Frame(t) /\ (Good(t) => Good(t)')
    <3>1. /\ \A x \in Zones \ {handle[t].zone} : drive'[x] = drive[x]
          /\ handle' = [handle EXCEPT ![t].wp = @ + k]
          /\ synced' = synced
          /\ Good(t) => Good(t)'
      BY <1>2, <1>4, <2>3
    <3> QED BY <1>0, <2>1, <3>1 DEF Frame, TypeOK
  <2>4. CASE WriteFails(t, n)
    <3>1. /\ \A x \in Zones \ {handle[t].zone} : drive'[x] = drive[x]
          /\ handle' = handle
          /\ synced' = [synced EXCEPT ![t] = FALSE]
      BY <1>3, <1>4, <2>4
    <3> QED BY <1>0, <2>1, <3>1 DEF Frame, TypeOK
  <2> QED BY <1>4, <2>1, <2>2, <2>3, <2>4 DEF WriteSequential
<1>5. ASSUME NEW n \in 1 .. MaxBuf, Fits(t, n), BeginWriteAll(t, n)
      PROVE  Frame(t) /\ (Good(t) => Good(t)') /\ (left'[t] > 0 => Fits(t, left[t])')
  BY <1>0, <1>1, <1>5
     DEF BeginWriteAll, Frame, Tracks, Fits, AtCapacity, TypeOK, Capacity, IsSequential
<1>6. ASSUME WriteAllStep(t)
      PROVE  Frame(t) /\ (Good(t) => Good(t)') /\ (left'[t] > 0 => Fits(t, left[t])')
  <2>1. left \in [Threads -> 0 .. MaxBuf] /\ left[t] \in 1 .. MaxBuf /\ Fits(t, left[t])
    BY <1>6 DEF WriteAllStep, LeftFits, TypeOK
  <2>2. CASE Refuses(t) /\ Return(t, "ZoneFull")
    BY <1>0, <1>1, <2>1, <2>2 DEF Refuses, Return, Frame, Tracks
  <2>3. CASE WriteFails(t, left[t]) /\ Return(t, "Error")
    BY <1>0, <1>3, <2>1, <2>3 DEF Return, Frame, TypeOK
  <2>4. CASE Writes(t, 0) /\ Return(t, "ZoneFull")
    BY <1>0, <1>2, <2>1, <2>4 DEF Return, Frame, TypeOK
  <2>5. CASE Writes(t, left[t]) /\ Return(t, "Ok")
    BY <1>0, <1>2, <2>1, <2>5 DEF Return, Frame, TypeOK
  <2>6. ASSUME NEW k \in 1 .. left[t] - 1, Writes(t, k),
               Remain(t, k)
        PROVE  Frame(t) /\ (Good(t) => Good(t)') /\ (left'[t] > 0 => Fits(t, left[t])')
    <3>1. Frame(t) /\ (Good(t) => Good(t)')
      BY <1>0, <1>2, <2>1, <2>6 DEF Frame, TypeOK, Remain
    <3>2. left'[t] = left[t] - k /\ left[t] - k \in 1 .. left[t] - k
      BY <2>1, <2>6 DEF Remain
    <3>3. \A m \in 1 .. left[t] - k : Fits(t, m)'
      BY <1>2, <2>1, <2>6
    <3> QED BY <3>1, <3>2, <3>3 DEF Fits
  <2> QED BY <1>6, <2>2, <2>3, <2>4, <2>5, <2>6 DEF WriteAllStep
<1>7. CASE ResetZone(t)
  <2>1. \A x \in Zones \ {handle[t].zone} : drive'[x] = drive[x]
    BY <1>1, <1>7, ManageType DEF ResetZone, ManageSets, ManageFails, TypeOK
  <2>2. synced'[t] => /\ IsSequential(handle[t].zone)
                      /\ drive' = Sets(drive, handle[t].zone, "Empty", 0)
                      /\ handle' = [handle EXCEPT ![t].wp = 0]
    BY <1>7 DEF ResetZone, ManageSets, ManageFails, ResetStates, TypeOK
  <2>3. Good(t)'
    BY <1>1, <2>2 DEF Sets, Tracks, TypeOK, DriveState
  <2>4. Frame(t) /\ left'[t] = 0
    BY <1>0, <1>7, <2>1 DEF ResetZone, ManageSets, ManageFails, Frame, TypeOK, Idle
  <2> QED BY <2>3, <2>4
<1>8. CASE FinishZone(t)
  <2>1. \A x \in Zones \ {handle[t].zone} : drive'[x] = drive[x]
    BY <1>1, <1>8, ManageType DEF FinishZone, ManageSets, ManageFails, TypeOK
  <2>2. synced'[t] => /\ IsSequential(handle[t].zone)
                      /\ drive' = Sets(drive, handle[t].zone, "Full", ZoneLen)
                      /\ handle' = [handle EXCEPT ![t].wp = ZoneLen]
    BY <1>8 DEF FinishZone, ManageSets, ManageFails, FinishStates, TypeOK
  <2>3. Good(t)'
    BY <1>1, <2>2 DEF Sets, Tracks, TypeOK, DriveState
  <2>4. Frame(t) /\ left'[t] = 0
    BY <1>0, <1>8, <2>1 DEF FinishZone, ManageSets, ManageFails, Frame, TypeOK, Idle
  <2> QED BY <2>3, <2>4
<1>9. CASE OpenZone(t) \/ CloseZone(t)
  <2>1. PICK e \in OpenStates(drive, handle[t].zone) \cup CloseStates(drive, handle[t].zone)
                  \cup {drive} : drive' = e
    BY <1>9 DEF OpenZone, CloseZone, ManageOnly, ManageFails
  <2>2. \A x \in Zones \ {handle[t].zone} : drive'[x] = drive[x]
    BY <1>1, <2>1, ManageType DEF TypeOK
  <2>3. /\ UNCHANGED <<handle, left, goal, synced>> /\ left[t] = 0
        /\ \A u \in Threads \ {t} : result'[u] = result[u]
    BY <1>9 DEF OpenZone, CloseZone, ManageOnly, ManageFails, Idle, TypeOK
  <2>4. drive'[handle[t].zone].wp = drive[handle[t].zone].wp
        /\ (drive[handle[t].zone].cond = "Full" => drive' = drive)
    BY <1>1, <2>1 DEF OpenStates, CloseStates, Sets, TypeOK, DriveState, Open
  <2>5. Good(t) => Good(t)'
    BY <1>1, <2>3, <2>4 DEF Tracks
  <2> QED BY <1>0, <2>2, <2>3, <2>5 DEF Frame
<1> QED BY <1>4, <1>5, <1>6, <1>7, <1>8, <1>9 DEF Operate

LEMMA NextLeftFits ==
    ASSUME NoSpill, TypeInv, LeftFits, [HandleNext]_handleVars
    PROVE  LeftFits'
<1> USE DEF TypeInv
<1>1. ASSUME NEW t \in Threads, Operate(t)
      PROVE  LeftFits'
  BY <1>1, OperateStep DEF LeftFits, Frame, Fits, AtCapacity, Capacity, IsSequential
<1>2. ASSUME NEW t \in Threads, (\E i \in Indices : NewInner(t, i)) \/ Drop(t)
      PROVE  LeftFits'
  <2>1. left' = left /\ left[t] = 0
    BY <1>2 DEF NewInner, Drop, Idle, TypeOK
  <2>2. \A u \in Threads \ {t} : handle'[u] = handle[u]
    BY <1>2 DEF NewInner, NewSucceeds, NewFails, Drop, TypeOK
  <2> QED BY <2>1, <2>2 DEF LeftFits, Fits, AtCapacity, Capacity, IsSequential
<1>3. CASE DriveCloses \/ (\E z \in Zones : RawManage(z)) \/ UNCHANGED handleVars
  BY <1>3 DEF DriveCloses, RawManage, Commands, handleVars, LeftFits, Fits, AtCapacity
<1> QED BY <1>1, <1>2, <1>3 DEF HandleNext

LEMMA NextExclusive ==
    ASSUME NoSpill, TypeInv, LeftFits, HandlesExclusive, [HandleNext]_handleVars
    PROVE  HandlesExclusive'
<1>1. ASSUME NEW t \in Threads, Operate(t) PROVE HandlesExclusive'
  BY <1>1, OperateStep DEF Frame, HandlesExclusive, Live
<1>2. ASSUME NEW t \in Threads, NEW i \in Indices, Exclusive(i), NewInner(t, i)
      PROVE  HandlesExclusive'
  BY <1>2, NewInnerKeeps DEF HandlesExclusive, Live, Exclusive
<1>3. ASSUME NEW t \in Threads, Drop(t) PROVE HandlesExclusive'
  BY <1>3 DEF Drop, Idle, NoHandle, HandlesExclusive, Live, TypeInv, TypeOK
<1>4. CASE UNCHANGED handle
  BY <1>4 DEF HandlesExclusive, Live
<1>5. CASE DriveCloses \/ (\E z \in Zones : RawManage(z)) \/ UNCHANGED handleVars
  BY <1>4, <1>5 DEF DriveCloses, RawManage, Commands, handleVars
<1> QED BY <1>1, <1>2, <1>3, <1>5 DEF HandleNext

LEMMA NextHandleInv ==
    ASSUME Platform = "linux", NoSpill, HandleInv, [HandleNext]_handleVars
    PROVE  HandleInv'
<1> USE DEF HandleInv
<1>1. TypeInv' /\ LeftFits' /\ HandlesExclusive'
  BY NextTyping, NextLeftFits, NextExclusive
<1>2. ASSUME NEW t \in Threads, Operate(t)
      PROVE  PointerTracksDevice'
  <2>1. Frame(t) /\ Good(t)'
    BY <1>2, OperateStep DEF Good, PointerTracksDevice, Frame
  <2>2. ASSUME NEW u \in Threads \ {t}, Live(u)', synced'[u]
        PROVE  Tracks(u)'
    <3>1. Tracks(u) /\ handle[u].zone \in Zones \ {handle[t].zone}
      BY <2>1, <2>2 DEF Frame, HandlesExclusive, Live, PointerTracksDevice, TypeInv, TypeOK
    <3> QED BY <2>1, <3>1 DEF Frame, Tracks
  <2> QED BY <2>1, <2>2 DEF PointerTracksDevice, Good
<1>3. ASSUME NEW t \in Threads, NEW i \in Indices, Exclusive(i), NewInner(t, i)
      PROVE  PointerTracksDevice'
  <2>1. CASE NewSucceeds(t, i)
    <3>1. PICK p \in ReportedPointers(drive, i) :
             handle' = [handle EXCEPT ![t] = [zone |-> i, wp |-> UnwrapOrStart(p)]]
      BY <2>1 DEF NewSucceeds
    <3>2. i \in Zones /\ drive' = drive /\ synced' = [synced EXCEPT ![t] = TRUE]
      BY <1>3, <2>1 DEF NewInner, NewSucceeds
    <3>3. IsSequential(i) => UnwrapOrStart(p) = drive[i].wp
      BY <3>1, <3>2 DEF ReportedPointers, UnwrapOrStart, NoPointer,
                        TypeInv, TypeOK, DriveState, Coherent
    <3> QED BY <3>1, <3>2, <3>3 DEF PointerTracksDevice, Tracks, Live, TypeInv, TypeOK
  <2>2. CASE NewFails(t, i)
    BY <1>3, <2>2 DEF NewInner, NewFails, PointerTracksDevice, Live, Tracks
  <2> QED BY <1>3, <2>1, <2>2 DEF NewInner
<1>4. ASSUME NEW t \in Threads, Drop(t)
      PROVE  PointerTracksDevice'
  BY <1>4 DEF Drop, Idle, NoHandle, PointerTracksDevice, Live, Tracks,
              TypeInv, TypeOK
<1>5. CASE DriveCloses
  <2>1. PICK z \in Zones : drive' \in ImplicitCloseStates(drive, z)
    BY <1>5 DEF DriveCloses
  <2>2. \A x \in Zones :
           /\ drive'[x].wp = drive[x].wp
           /\ drive[x].cond = "Full" => drive'[x].cond = "Full"
    BY <2>1 DEF ImplicitCloseStates, Sets, TypeInv, TypeOK, DriveState
  <2>3. UNCHANGED <<handle, synced>>
    BY <1>5 DEF DriveCloses
  <2>4. ASSUME NEW u \in Threads, Live(u)', synced'[u]
        PROVE  Tracks(u)'
    <3>1. Tracks(u) /\ handle[u].zone \in Zones
      BY <2>3, <2>4 DEF PointerTracksDevice, Live, TypeInv, TypeOK
    <3>2. handle'[u] = handle[u]
      BY <2>3
    <3> QED BY <2>2, <3>1, <3>2 DEF Tracks
  <2> QED BY <1>1, <2>4 DEF PointerTracksDevice
<1>6. CASE UNCHANGED handleVars
  BY <1>1, <1>6 DEF handleVars, PointerTracksDevice, Live, Tracks
<1>7. ASSUME NEW z \in Zones, RawManage(z)
      PROVE  PointerTracksDevice'
  <2>1. /\ UNCHANGED <<handle, synced>>
        /\ \A x \in Zones \ {z} : drive'[x] = drive[x]
        /\ \A u \in Threads : handle[u].zone # z
    BY <1>7, ManageType DEF RawManage, Commands, Exclusive, TypeInv, TypeOK
  <2>2. ASSUME NEW u \in Threads, Live(u)', synced'[u]
        PROVE  Tracks(u)'
    <3>1. Tracks(u) /\ handle[u].zone \in Zones \ {z} /\ handle'[u] = handle[u]
      BY <2>1, <2>2 DEF PointerTracksDevice, Live, TypeInv, TypeOK
    <3> QED BY <2>1, <3>1 DEF Tracks
  <2> QED BY <2>2 DEF PointerTracksDevice
<1> QED BY <1>1, <1>2, <1>3, <1>4, <1>5, <1>6, <1>7 DEF HandleNext

LEMMA InitHandleInv == HandleInit => HandleInv
BY DriveAssumption, HandleAssumption
   DEF HandleInit, HandleInv, TypeInv, TypeOK, NoHandle, Results, Live,
       HandlesExclusive, LeftFits, PointerTracksDevice

\* On Linux, and when no write can spill into the next zone, a handle none of
\* whose calls failed since its pointer was last set stands where the drive
\* stands, for any number of threads, zones and sectors.
THEOREM PointerTracking ==
    ASSUME Platform = "linux", NoSpill
    PROVE  HandleSpec => []PointerTracksDevice
<1>1. HandleInit => HandleInv
  BY InitHandleInv
<1>2. HandleInv /\ [HandleNext]_handleVars => HandleInv'
  BY NextHandleInv
<1> QED BY <1>1, <1>2, PTL DEF HandleSpec, HandleInv

\* On either platform a step moves one write pointer at most, that of a live
\* handle's zone or that of a zone the raw device resets or finishes.
THEOREM WritesContained ==
    ASSUME NoSpill
    PROVE  HandleSpec => WritesStayInZone
<1> DEFINE Inv == TypeInv /\ LeftFits
           Contained == \A z \in Zones : drive'[z].wp # drive[z].wp =>
                           /\ Exclusive(z) => drive'[z].cond \in {"Empty", "Full"}
                           /\ \A x \in Zones \ {z} : drive'[x] = drive[x]
<1>1. HandleInit => Inv
  BY InitHandleInv DEF HandleInv
<1>2. Inv /\ [HandleNext]_handleVars => Inv'
  BY NextTyping, NextLeftFits
<1>3. ASSUME Inv, [HandleNext]_handleVars
      PROVE  Contained
  <2>1. ASSUME NEW t \in Threads, Operate(t) PROVE Contained
    BY <1>3, <2>1, OperateStep DEF Frame, Exclusive
  <2>2. ASSUME NEW t \in Threads, (\E i \in Indices : NewInner(t, i)) \/ Drop(t)
        PROVE  Contained
    BY <2>2 DEF NewInner, Drop
  <2>3. CASE DriveCloses
    BY <1>3, <2>3 DEF DriveCloses, ImplicitCloseStates, Sets, TypeInv, TypeOK, DriveState
  <2>4. CASE UNCHANGED handleVars
    BY <2>4 DEF handleVars
  <2>5. ASSUME NEW x \in Zones, RawManage(x) PROVE Contained
    <3>1. \A z \in Zones \ {x} : drive'[z] = drive[z]
      BY <1>3, <2>5, ManageType DEF RawManage, Commands, TypeInv, TypeOK
    <3>2. drive'[x].wp # drive[x].wp => drive'[x].cond \in {"Empty", "Full"}
      BY <1>3, <2>5 DEF RawManage, Commands, ResetStates, FinishStates, OpenStates, CloseStates,
                        Sets, TypeInv, TypeOK, DriveState
    <3> QED BY <3>1, <3>2
  <2> QED BY <1>3, <2>1, <2>2, <2>3, <2>4, <2>5 DEF HandleNext
<1> QED BY <1>1, <1>2, <1>3, PTL DEF HandleSpec, WritesStayInZone

-----------------------------------------------------------------------------
(* What the writes return                                                  *)

\* Inside write_all_sequential the pointer and what remains add up to the goal.
GoalInv ==
    \A t \in Threads : left[t] > 0 =>
        goal[t] = handle[t].wp + left[t] /\ result[t] = "Pending"

LEMMA NextGoal ==
    ASSUME NoSpill, TypeInv, LeftFits, GoalInv, [HandleNext]_handleVars
    PROVE  GoalInv'
<1> USE DEF TypeInv, TypeOK
<1>1. ASSUME NEW t \in Threads, Operate(t)
      PROVE  GoalInv'
  <2>1. Frame(t)
    BY <1>1, OperateStep
  <2>2. SUFFICES ASSUME left'[t] > 0
                 PROVE  goal'[t] = handle'[t].wp + left'[t] /\ result'[t] = "Pending"
    BY <2>1 DEF Frame, GoalInv
  <2>3. ASSUME NEW n \in 1 .. MaxBuf, BeginWriteAll(t, n)
        PROVE  goal'[t] = handle'[t].wp + left'[t] /\ result'[t] = "Pending"
    BY <2>3 DEF BeginWriteAll
  <2>4. CASE WriteAllStep(t)
    <3>1. PICK k \in 1 .. left[t] - 1 :
             /\ Writes(t, k)
             /\ Remain(t, k)
      BY <2>2, <2>4 DEF WriteAllStep, Return
    <3>2. handle'[t].wp = handle[t].wp + k
      BY <3>1 DEF Writes
    <3>3. left[t] > 0
      BY <2>4 DEF WriteAllStep
    <3> QED BY <3>1, <3>2, <3>3 DEF GoalInv, Remain
  <2>5. CASE \E n \in 1 .. MaxBuf : WriteSequential(t, n)
    BY <2>2, <2>5 DEF WriteSequential, Idle
  <2>6. CASE ResetZone(t) \/ FinishZone(t) \/ OpenZone(t) \/ CloseZone(t)
    BY <2>2, <2>6 DEF ResetZone, FinishZone, OpenZone, CloseZone, ManageOnly, Idle
  <2> QED BY <1>1, <2>3, <2>4, <2>5, <2>6 DEF Operate
<1>2. ASSUME NEW t \in Threads, (\E i \in Indices : NewInner(t, i)) \/ Drop(t)
      PROVE  GoalInv'
  <2>1. UNCHANGED <<left, goal>> /\ left[t] = 0
    BY <1>2 DEF NewInner, Drop, Idle
  <2>2. \A u \in Threads \ {t} : handle'[u] = handle[u] /\ result'[u] = result[u]
    BY <1>2 DEF NewInner, NewSucceeds, NewFails, Drop
  <2> QED BY <2>1, <2>2 DEF GoalInv
<1>3. CASE DriveCloses \/ (\E z \in Zones : RawManage(z)) \/ UNCHANGED handleVars
  BY <1>3 DEF DriveCloses, RawManage, Commands, handleVars, GoalInv
<1> QED BY <1>1, <1>2, <1>3 DEF HandleNext

LEMMA InitGoal == HandleInit => TypeInv /\ LeftFits /\ GoalInv
BY InitHandleInv DEF HandleInv, HandleInit, GoalInv

\* What write_all_sequential reports as written is on the medium, whatever
\* partial writes it took, and whatever failed before it.
THEOREM WriteAllDelivered ==
    ASSUME NoSpill
    PROVE  HandleSpec => WriteAllDelivers
<1> DEFINE Inv == TypeInv /\ LeftFits /\ GoalInv
           Delivers == \A t \in Threads :
                          left[t] > 0 /\ left'[t] = 0 /\ result'[t] = "Ok" =>
                              /\ handle'[t].wp = goal[t]
                              /\ Tracks(t)'
<1>1. Inv /\ [HandleNext]_handleVars => Inv'
  BY NextTyping, NextLeftFits, NextGoal
<1>2. ASSUME Inv, [HandleNext]_handleVars
      PROVE  Delivers
  <2> SUFFICES ASSUME NEW t \in Threads,
                      left[t] > 0, left'[t] = 0, result'[t] = "Ok"
               PROVE  handle'[t].wp = goal[t] /\ Tracks(t)'
    OBVIOUS
  <2> USE <1>2
  <2>1. \A u \in Threads : Operate(u) => u = t
    BY OperateStep DEF Frame
  <2>2. \A u \in Threads : ~(\E i \in Indices : NewInner(u, i)) /\ ~Drop(u)
    BY DEF NewInner, Drop
  <2>3. Operate(t)
    BY <2>1, <2>2 DEF HandleNext, DriveCloses, RawManage, Commands, handleVars
  <2>4. WriteAllStep(t)
    BY <2>3 DEF Operate, WriteSequential, BeginWriteAll, ResetZone, FinishZone,
                OpenZone, CloseZone, ManageOnly, Idle
  <2>5. Writes(t, left[t])
    BY <2>4 DEF WriteAllStep, Return, Remain, GoalInv, TypeInv, TypeOK
  <2>6. handle'[t].wp = goal[t]
    BY <2>5 DEF Writes, GoalInv, TypeInv, TypeOK
  <2>7. Live(t) /\ left[t] \in 1 .. MaxBuf /\ Fits(t, left[t])
    BY DEF LeftFits, TypeInv, TypeOK
  <2>8. ~AtCapacity(t) /\ Lands(t, left[t])
    BY <2>5 DEF Writes
  <2>9. Tracks(t)'
    BY <2>5, <2>7, <2>8, WriteEffect DEF TypeInv
  <2> QED BY <2>6, <2>9
<1> QED BY InitGoal, <1>1, <1>2, PTL DEF HandleSpec, WriteAllDelivers

\* On Linux a full zone is refused before any pwrite.
THEOREM FullZonesRefused ==
    ASSUME Platform = "linux", NoSpill
    PROVE  HandleSpec => FullZoneIsRefused
<1> DEFINE Refused == \A t \in Threads, n \in 1 .. MaxBuf :
                         /\ Idle(t) /\ synced[t]
                         /\ drive[handle[t].zone].cond = "Full"
                         /\ WriteSequential(t, n)
                         => result'[t] = "ZoneFull" /\ UNCHANGED drive
<1>1. HandleInv /\ [HandleNext]_handleVars => HandleInv'
  BY NextHandleInv
<1>2. ASSUME HandleInv
      PROVE  Refused
  <2> SUFFICES ASSUME NEW t \in Threads, NEW n \in 1 .. MaxBuf, Idle(t), synced[t],
                      drive[handle[t].zone].cond = "Full", WriteSequential(t, n)
               PROVE  result'[t] = "ZoneFull" /\ UNCHANGED drive
    OBVIOUS
  <2> USE <1>2, DriveAssumption DEF HandleInv, TypeInv, TypeOK
  <2>1. handle[t].zone \in Zones /\ Tracks(t)
    BY DEF Idle, Live, PointerTracksDevice
  <2>2. /\ IsSequential(handle[t].zone)
        /\ drive[handle[t].zone].wp = ZoneLen
    BY <2>1 DEF Coherent
  <2>3. AtCapacity(t)
    BY <2>1, <2>2 DEF Tracks, AtCapacity, Capacity
  <2> QED BY <2>3 DEF WriteSequential, Refuses, Writes, WriteFails
<1> QED BY InitHandleInv, <1>1, <1>2, PTL DEF HandleSpec, FullZoneIsRefused

\* What remaining_capacity returns for the zone of a handle, with any capacity: of a
\* zone that is not full the sectors its handle still writes, and the drive
\* takes; of a full one the capacity less the length, which is 0 or underflows.
RemainingExact ==
    \A t \in Threads : Live(t) /\ synced[t] /\ IsSequential(handle[t].zone) =>
        LET z == handle[t].zone IN
        \A p \in ReportedPointers(drive, z) :
            LET r == RemainingCapacity(z, p) IN
            IF drive[z].cond = "Full"
            THEN AtCapacity(t) /\ r = ZoneCap - ZoneLen
            ELSE /\ ~AtCapacity(t)
                 /\ r = ZoneCap - handle[t].wp
                 /\ CanLand(drive, z, handle[t].wp, r)

LEMMA RemainingByInv ==
    ASSUME Platform = "linux", HandleInv
    PROVE  RemainingExact
<1> SUFFICES ASSUME NEW t \in Threads, Live(t), synced[t], IsSequential(handle[t].zone),
                    NEW p \in ReportedPointers(drive, handle[t].zone)
             PROVE  LET z == handle[t].zone
                        r == RemainingCapacity(z, p)
                    IN  IF drive[z].cond = "Full"
                        THEN AtCapacity(t) /\ r = ZoneCap - ZoneLen
                        ELSE /\ ~AtCapacity(t)
                             /\ r = ZoneCap - handle[t].wp
                             /\ CanLand(drive, z, handle[t].wp, r)
  BY DEF RemainingExact
<1> DEFINE z == handle[t].zone
<1> USE DriveAssumption DEF HandleInv, TypeInv, TypeOK
<1>1. z \in Zones /\ Tracks(t) /\ Capacity(z) = ZoneCap
  BY DEF Live, PointerTracksDevice, Capacity
<1>2. drive[z].wp \in 0 .. ZoneLen /\ p = drive[z].wp /\ p # NoPointer
  BY <1>1 DEF ReportedPointers, Coherent, DriveState, NoPointer
<1>3. RemainingCapacity(z, p) = ZoneCap - drive[z].wp
  BY <1>1, <1>2 DEF RemainingCapacity
<1>4. CASE drive[z].cond = "Full"
  <2>1. drive[z].wp = ZoneLen /\ handle[t].wp >= ZoneCap
    BY <1>1, <1>4 DEF Coherent, Tracks
  <2> QED BY <1>1, <1>3, <1>4, <2>1 DEF AtCapacity
<1>5. CASE drive[z].cond # "Full"
  <2>1. handle[t].wp = drive[z].wp
    BY <1>1, <1>5 DEF Tracks
  <2>2. drive[z].wp < ZoneCap
    BY <1>1, <1>5 DEF Coherent, DriveState, Condition
  <2>3. CanLand(drive, z, handle[t].wp, ZoneCap - drive[z].wp)
    BY <1>1, <2>1, <2>2 DEF CanLand, AcceptsSector
  <2> QED BY <1>1, <1>2, <1>3, <1>5, <2>1, <2>2, <2>3 DEF AtCapacity
<1> QED BY <1>4, <1>5

\* On Linux remaining_capacity is what the zone's handle still writes, except of a
\* full zone with a capacity below its length.
THEOREM RemainingUnlessFull ==
    ASSUME Platform = "linux", NoSpill
    PROVE  HandleSpec => []RemainingExact
<1>1. HandleInv /\ [HandleNext]_handleVars => HandleInv'
  BY NextHandleInv
<1>2. HandleInv => RemainingExact
  BY RemainingByInv
<1> QED BY InitHandleInv, <1>1, <1>2, PTL DEF HandleSpec

\* On Linux and with full capacity the report's remaining capacity is what the
\* zone's handle still writes.
THEOREM RemainingWritable ==
    ASSUME Platform = "linux", NoSpill, ZoneCap = ZoneLen
    PROVE  HandleSpec => []RemainingIsWritable
<1>1. HandleInv /\ [HandleNext]_handleVars => HandleInv'
  BY NextHandleInv
<1>2. HandleInv => RemainingIsWritable
  <2> SUFFICES ASSUME HandleInv, NEW t \in Threads, Live(t), synced[t],
                      IsSequential(handle[t].zone),
                      NEW p \in ReportedPointers(drive, handle[t].zone)
               PROVE  LET z == handle[t].zone
                          r == RemainingCapacity(z, p)
                      IN  /\ AtCapacity(t) <=> r = 0
                          /\ ~AtCapacity(t) => /\ r = Capacity(z) - handle[t].wp
                                               /\ CanLand(drive, z, handle[t].wp, r)
    BY DEF RemainingIsWritable
  <2>1. Capacity(handle[t].zone) = ZoneCap
    BY DEF Capacity
  <2>2. ZoneCap \in Nat /\ ZoneCap - ZoneLen = 0
    BY DriveAssumption
  <2>3. handle[t].wp \in Nat
    BY DriveAssumption DEF HandleInv, TypeInv, TypeOK, Live
  <2>4. RemainingExact
    BY RemainingByInv
  <2>5. CASE drive[handle[t].zone].cond = "Full"
    BY <2>2, <2>4, <2>5 DEF RemainingExact
  <2>6. CASE drive[handle[t].zone].cond # "Full"
    BY <2>1, <2>2, <2>3, <2>4, <2>6 DEF RemainingExact, AtCapacity
  <2> QED BY <2>5, <2>6
<1> QED BY InitHandleInv, <1>1, <1>2, PTL DEF HandleSpec

-----------------------------------------------------------------------------
(* The tracked write pointer on either platform                            *)

\* PointerTracksDevice on either platform, but for full zones: FreeBSD reports some
\* of them without pointer, and new takes the zone's start for it.  Nothing else
\* makes a pointer wrong, and a reset makes this one right.  (new_inner.)
TracksUnlessFull(t) == Tracks(t) \/ drive[handle[t].zone].cond = "Full"

PointerTracksUnlessFull ==
    \A t \in Threads : Live(t) /\ synced[t] => TracksUnlessFull(t)

\* A full zone takes no sector at a place below its capacity.
LEMMA FullTakesNothing ==
    ASSUME TypeOK, NEW t \in Threads, Live(t), ~AtCapacity(t),
           IsSequential(handle[t].zone), drive[handle[t].zone].cond = "Full",
           NEW k \in Nat, Lands(t, k)
    PROVE  drive'[handle[t].zone] = drive[handle[t].zone]
<1> USE DriveAssumption
<1> DEFINE z == handle[t].zone
           off == handle[t].wp
<1>1. z \in Zones /\ off \in Nat /\ off < ZoneCap /\ ZoneCap <= ZoneLen
  BY DEF TypeOK, Live, AtCapacity, Capacity
<1>2. drive[z].wp = ZoneLen /\ ZoneLen \in Nat /\ ZoneCap \in Nat
  BY <1>1 DEF TypeOK, Coherent
<1>3. ~AcceptsSector(drive, z, off, 0)
  BY <1>1, <1>2 DEF AcceptsSector
<1>4. k = 0
  BY <1>3 DEF Lands, CanLand
<1> QED BY <1>1, <1>4 DEF Lands, Landed

LEMMA OperateUnlessFull ==
    ASSUME NoSpill, TypeInv, LeftFits, NEW t \in Threads, Operate(t),
           synced[t] => TracksUnlessFull(t)
    PROVE  synced'[t] => TracksUnlessFull(t)'
<1> USE DriveAssumption, HandleAssumption DEF TypeInv
<1> DEFINE z == handle[t].zone
<1>1. Frame(t) /\ (Good(t) => Good(t)')
  BY OperateStep
<1>2. Live(t) /\ z \in Zones /\ handle'[t].zone = z
  BY <1>1 DEF Frame, Live, TypeOK
<1>3. CASE Good(t)
  BY <1>1, <1>3 DEF Good, TracksUnlessFull
<1>4. CASE ~Good(t)
  <2>1. IsSequential(z) /\ drive[z].cond = "Full"
    BY <1>4 DEF Good, TracksUnlessFull, Tracks
  <2>2. SUFFICES ASSUME synced'[t] PROVE Tracks(t)' \/ drive'[z].cond = "Full"
    BY <1>2 DEF TracksUnlessFull
  <2>3. ASSUME NEW k \in Nat, Writes(t, k) PROVE drive'[z].cond = "Full"
    BY <1>2, <2>1, <2>3, FullTakesNothing DEF Writes
  <2>4. ASSUME NEW n \in 1 .. MaxBuf, WriteFails(t, n) PROVE FALSE
    BY <2>2, <2>4 DEF WriteFails, TypeOK
  <2>5. ASSUME NEW n \in 1 .. MaxBuf, WriteSequential(t, n)
        PROVE  drive'[z].cond = "Full"
    BY <2>1, <2>3, <2>4, <2>5 DEF WriteSequential, Refuses
  <2>6. CASE WriteAllStep(t)
    <3>1. left[t] \in 1 .. MaxBuf
      BY <2>6 DEF WriteAllStep, TypeOK
    <3> QED BY <2>1, <2>3, <2>4, <2>6, <3>1 DEF WriteAllStep, Refuses
  <2>7. ASSUME NEW n \in 1 .. MaxBuf, BeginWriteAll(t, n)
        PROVE  drive'[z].cond = "Full"
    BY <2>1, <2>7 DEF BeginWriteAll
  <2>8. CASE ResetZone(t)
    <3>1. /\ drive' = Sets(drive, z, "Empty", 0)
          /\ handle' = [handle EXCEPT ![t].wp = 0]
      BY <2>2, <2>8 DEF ResetZone, ManageSets, ManageFails, ResetStates, TypeOK
    <3> QED BY <1>2, <3>1 DEF Sets, Tracks, TypeOK, DriveState
  <2>9. CASE FinishZone(t)
    <3>1. drive' = Sets(drive, z, "Full", ZoneLen)
      BY <2>2, <2>9 DEF FinishZone, ManageSets, ManageFails, FinishStates, TypeOK
    <3> QED BY <1>2, <3>1 DEF Sets, TypeOK, DriveState
  <2>10. CASE OpenZone(t) \/ CloseZone(t)
    <3>1. drive' \in OpenStates(drive, z) \cup CloseStates(drive, z) \cup {drive}
      BY <2>10 DEF OpenZone, CloseZone, ManageOnly, ManageFails
    <3>2. drive' = drive
      BY <1>2, <2>1, <3>1 DEF OpenStates, CloseStates, Sets, TypeOK, DriveState, Open
    <3> QED BY <2>1, <3>2
  <2> QED BY <2>5, <2>6, <2>7, <2>8, <2>9, <2>10 DEF Operate
<1> QED BY <1>3, <1>4

\* The inductive invariant, as HandleInv but with what either platform keeps.
PlatformInv == TypeInv /\ HandlesExclusive /\ LeftFits /\ PointerTracksUnlessFull

LEMMA NextPlatformInv ==
    ASSUME NoSpill, PlatformInv, [HandleNext]_handleVars
    PROVE  PlatformInv'
<1> USE DEF PlatformInv
<1>1. TypeInv' /\ LeftFits' /\ HandlesExclusive'
  BY NextTyping, NextLeftFits, NextExclusive
<1>2. ASSUME NEW u \in Threads, Live(u), synced[u], handle'[u] = handle[u],
             drive'[handle[u].zone].wp = drive[handle[u].zone].wp,
             drive[handle[u].zone].cond = "Full" => drive'[handle[u].zone].cond = "Full"
      PROVE  TracksUnlessFull(u)'
  BY <1>2 DEF PointerTracksUnlessFull, TracksUnlessFull, Tracks
<1>3. ASSUME NEW t \in Threads, Operate(t), NEW u \in Threads, Live(u)', synced'[u]
      PROVE  TracksUnlessFull(u)'
  <2>1. Frame(t)
    BY <1>3, OperateStep
  <2>2. CASE u = t
    BY <1>3, <2>1, <2>2, OperateUnlessFull DEF Frame, PointerTracksUnlessFull
  <2>3. CASE u # t
    <3>1. /\ handle'[u] = handle[u] /\ Live(u) /\ synced[u]
          /\ handle[u].zone \in Zones \ {handle[t].zone}
      BY <1>3, <2>1, <2>3 DEF Frame, Live, HandlesExclusive, TypeInv, TypeOK
    <3>2. drive'[handle[u].zone] = drive[handle[u].zone]
      BY <2>1, <3>1 DEF Frame
    <3> QED BY <1>2, <3>1, <3>2
  <2> QED BY <2>2, <2>3
<1>4. ASSUME NEW t \in Threads, NEW i \in Indices, NewInner(t, i),
             NEW u \in Threads, Live(u)', synced'[u]
      PROVE  TracksUnlessFull(u)'
  <2>1. drive' = drive
    BY <1>4 DEF NewInner
  <2>2. CASE NewSucceeds(t, i) /\ u = t
    <3>1. PICK p \in ReportedPointers(drive, i) :
             handle' = [handle EXCEPT ![t] = [zone |-> i, wp |-> UnwrapOrStart(p)]]
      BY <2>2 DEF NewSucceeds
    <3>2. i \in Zones /\ handle'[u].zone = i /\ handle'[u].wp = UnwrapOrStart(p)
      BY <2>2, <3>1 DEF NewSucceeds, TypeInv, TypeOK
    <3>3. IsSequential(i) => UnwrapOrStart(p) = drive[i].wp \/ drive[i].cond = "Full"
      BY <3>1, <3>2 DEF ReportedPointers, UnwrapOrStart, NoPointer,
                        TypeInv, TypeOK, DriveState, Coherent
    <3> QED BY <2>1, <3>2, <3>3 DEF TracksUnlessFull, Tracks
  <2>3. CASE NewFails(t, i) \/ u # t
    <3>1. handle'[u] = handle[u] /\ Live(u) /\ synced[u]
      BY <1>4, <2>3 DEF NewInner, NewSucceeds, NewFails, Live, TypeInv, TypeOK
    <3> QED BY <1>2, <2>1, <3>1
  <2> QED BY <1>4, <2>2, <2>3 DEF NewInner
<1>5. ASSUME NEW t \in Threads, Drop(t), NEW u \in Threads, Live(u)', synced'[u]
      PROVE  TracksUnlessFull(u)'
  <2>1. u # t /\ handle'[u] = handle[u] /\ Live(u) /\ synced[u] /\ drive' = drive
    BY <1>5 DEF Drop, NoHandle, Live, TypeInv, TypeOK
  <2> QED BY <1>2, <2>1
<1>6. ASSUME DriveCloses, NEW u \in Threads, Live(u)', synced'[u]
      PROVE  TracksUnlessFull(u)'
  <2>1. PICK z \in Zones : drive' \in ImplicitCloseStates(drive, z)
    BY <1>6 DEF DriveCloses
  <2>2. \A x \in Zones : /\ drive'[x].wp = drive[x].wp
                         /\ drive[x].cond = "Full" => drive'[x].cond = "Full"
    BY <2>1 DEF ImplicitCloseStates, Sets, TypeInv, TypeOK, DriveState
  <2>3. handle'[u] = handle[u] /\ Live(u) /\ synced[u] /\ handle[u].zone \in Zones
    BY <1>6 DEF DriveCloses, Live, TypeInv, TypeOK
  <2> QED BY <1>2, <2>2, <2>3
<1>7. ASSUME NEW z \in Zones, RawManage(z), NEW u \in Threads, Live(u)', synced'[u]
      PROVE  TracksUnlessFull(u)'
  <2>1. /\ handle'[u] = handle[u] /\ Live(u) /\ synced[u]
        /\ handle[u].zone \in Zones \ {z}
        /\ \A x \in Zones \ {z} : drive'[x] = drive[x]
    BY <1>7, ManageType DEF RawManage, Commands, Exclusive, Live, TypeInv, TypeOK
  <2> QED BY <1>2, <2>1
<1>8. ASSUME UNCHANGED handleVars PROVE PointerTracksUnlessFull'
  BY <1>8 DEF handleVars, PointerTracksUnlessFull, TracksUnlessFull, Tracks, Live
<1>9. PointerTracksUnlessFull'
  BY <1>3, <1>4, <1>5, <1>6, <1>7, <1>8 DEF HandleNext, PointerTracksUnlessFull
<1> QED BY <1>1, <1>9

\* On either platform, when no write can spill into the next zone, a handle none of
\* whose calls failed since its pointer was last set stands where the drive
\* stands, or its zone is full; and no two handles have one zone.
THEOREM PointerTrackingUnlessFull ==
    ASSUME NoSpill
    PROVE  HandleSpec => [](PointerTracksUnlessFull /\ HandlesExclusive)
<1>1. HandleInit => PlatformInv
  BY InitHandleInv DEF HandleInv, PlatformInv, PointerTracksDevice,
                       PointerTracksUnlessFull, TracksUnlessFull
<1>2. PlatformInv /\ [HandleNext]_handleVars => PlatformInv'
  BY NextPlatformInv
<1> QED BY <1>1, <1>2, PTL DEF HandleSpec, PlatformInv

=============================================================================
