-------------------------- MODULE ZoneRangeProofs --------------------------
(***************************************************************************)
(* Theorems about ZoneRange for any device and any range of sectors: what  *)
(* Ok promises, which zones are touched, and where a failed call stops.    *)
(***************************************************************************)
EXTENDS ZoneRange, TLAPS

-----------------------------------------------------------------------------
(* Geometry                                                                *)

\* Zones begin in the order of their indices.
LEMMA StartsOrdered ==
    /\ ZoneStart \in [0 .. NrZones -> Nat]
    /\ Capacity \in Nat /\ ZoneSize \in Nat \ {0}
    /\ \A y, z \in 0 .. NrZones : y < z => ZoneStart[y] < ZoneStart[z]
    /\ \A y, z \in 0 .. NrZones : y <= z => ZoneStart[y] <= ZoneStart[z]
    /\ \A y, z \in 0 .. NrZones : ZoneStart[y] < ZoneStart[z] => y < z
    /\ \A z \in Zones : z \in 0 .. NrZones /\ z + 1 \in 0 .. NrZones /\ z \in Nat
    /\ 0 \in 0 .. NrZones /\ NrZones \in 0 .. NrZones
<1>1. NrZones \in Nat \ {0} /\ ZoneStart \in [0 .. NrZones -> Nat]
      /\ \A y, z \in 0 .. NrZones : y < z => ZoneStart[y] < ZoneStart[z]
  BY RangeAssumption
<1>2. 0 \in 0 .. NrZones /\ 1 \in 0 .. NrZones /\ NrZones \in 0 .. NrZones
  BY <1>1
<1>3. Capacity \in Nat /\ ZoneSize \in Nat \ {0}
  <2>1. ZoneStart[0] < ZoneStart[1] /\ ZoneStart[0] = 0
    BY <1>1, <1>2, RangeAssumption
  <2> QED BY <1>1, <1>2, <2>1 DEF Capacity, ZoneSize
<1>4. \A y, z \in 0 .. NrZones : y <= z => ZoneStart[y] <= ZoneStart[z]
  <2> TAKE y, z \in 0 .. NrZones
  <2> HAVE y <= z
  <2>1. ZoneStart[y] \in Nat /\ ZoneStart[z] \in Nat
    BY <1>1
  <2>2. CASE y = z
    BY <2>1, <2>2
  <2>3. CASE y < z
    BY <1>1, <2>1, <2>3
  <2> QED BY <1>1, <2>2, <2>3
<1>5. \A y, z \in 0 .. NrZones : ZoneStart[y] < ZoneStart[z] => y < z
  <2> TAKE y, z \in 0 .. NrZones
  <2>1. ZoneStart[y] \in Nat /\ ZoneStart[z] \in Nat
    BY <1>1
  <2>2. z <= y => ZoneStart[z] <= ZoneStart[y]
    BY <1>4
  <2> QED BY <1>1, <2>1, <2>2
<1>6. \A z \in Zones : z \in 0 .. NrZones /\ z + 1 \in 0 .. NrZones /\ z \in Nat
  BY <1>1 DEF Zones
<1> QED BY <1>1, <1>2, <1>3, <1>4, <1>5, <1>6

\* A range over all sectors of the device overlaps every zone.
LEMMA WholeDevice ==
    ASSUME NEW range \in [sector : Nat, nr : Nat], range.sector = 0, range.nr >= Capacity
    PROVE  Overlapping(range) = Zones
<1> SUFFICES ASSUME NEW z \in Zones
             PROVE  ZoneStart[z] < range.sector + range.nr /\ range.sector < ZoneStart[z + 1]
  BY DEF Overlapping
<1>1. ZoneStart[z] < ZoneStart[NrZones]
  <2>1. z < NrZones
    BY RangeAssumption DEF Zones
  <2> QED BY <2>1, StartsOrdered
<1>2. ZoneStart[0] < ZoneStart[z + 1] /\ ZoneStart[0] = 0
  BY StartsOrdered, RangeAssumption DEF Zones
<1>3. ZoneStart[z] \in Nat /\ ZoneStart[z + 1] \in Nat /\ Capacity \in Nat
  BY StartsOrdered
<1> QED BY <1>1, <1>2, <1>3 DEF Capacity

\* zone_size * nr_zones is not below the device's capacity.
LEMMA TotalCovers == InfoTotal \in Nat /\ InfoTotal >= Capacity
<1>1. Capacity \in Nat /\ ZoneSize \in Nat \ {0}
  BY StartsOrdered
<1> DEFINE c == Capacity
           n == ZoneSize
           q == (c + n - 1) \div n
<1>2. c \in Nat /\ n \in Nat /\ n > 0
  BY <1>1
<1> HIDE DEF c, n
<1>3. q \in Nat /\ n * q <= c + n - 1 /\ c + n - 1 < n * q + n
  BY <1>2
<1>4. n * q \in Nat /\ n * q >= c
  BY <1>2, <1>3
<1> QED BY <1>4 DEF InfoTotal, c, n, q

-----------------------------------------------------------------------------
(* The inductive invariant                                                 *)

Walking == phase \in {"Report", "Command"}

Wanted(z) == IsSequential(z) /\ z \in Overlapping(call.range)

\* A call works only on a valid range, and each back end in its own phases.
Begun ==
    /\ phase \notin {"Called", "Done"} => ValidRange(call.range)
    /\ phase = "ResetAll" => ResetsAll(call.range)
    /\ phase \in {"Called", "Info", "ResetAll"} => commanded = {}
    /\ phase = "Kernel" => call.platform = "linux"
    /\ phase = "Info" => cursor = call.range.sector

\* The zones between the range's start and the cursor, and no others, have been
\* commanded; the reported zone is at or before the cursor.
Behind ==
    /\ Walking => call.range.sector <= cursor
    /\ Walking /\ honest =>
           /\ \A z \in Zones : Wanted(z) /\ ZoneStart[z + 1] <= cursor => z \in commanded
           /\ \A z \in commanded : ZoneStart[z + 1] <= cursor
    /\ phase = "Command" =>
           /\ ZoneStart[target] <= cursor /\ cursor < EndOf(call.range)
           /\ honest => cursor < ZoneStart[target + 1]

\* The kernel works on the zones of the range, and leaves out none that is
\* sequential.
InKernel ==
    phase = "Kernel" =>
        /\ pending \subseteq Overlapping(call.range)
        /\ ~failed => \A z \in Zones : Wanted(z) => z \in commanded \cup pending

RangeInv ==
    RangeTypeOK /\ Begun /\ Behind /\ InKernel /\ RangeCarriedOut /\ FailsInOrder

\* The range of a call, and its end when it is valid.
LEMMA ValidEnd ==
    ASSUME RangeTypeOK
    PROVE  /\ call.range \in [sector : Nat, nr : Nat]
           /\ call.range.sector \in Nat /\ call.range.nr \in Nat
           /\ cursor \in Nat
           /\ ValidRange(call.range) =>
                 EndOf(call.range) = call.range.sector + call.range.nr
<1>1. call.range \in [sector : 0 .. MaxSector, nr : 0 .. MaxSector] /\ MaxSector \in Nat
  BY RangeAssumption DEF RangeTypeOK
<1>2. cursor \in Nat
  BY <1>1, StartsOrdered DEF RangeTypeOK
<1> QED BY <1>1, <1>2 DEF ValidRange, EndOf

\* The steps one by one: each keeps the inductive invariant.
LEMMA InitRangeInv == RangeInit => RangeInv
<1> SUFFICES ASSUME RangeInit PROVE RangeInv
  OBVIOUS
<1>1. RangeTypeOK
  <2>1. 0 \in Zones
    BY RangeAssumption DEF Zones
  <2>2. /\ cond \in [Zones -> Conditions]
        /\ \A z \in Zones : cond[z] = "NotWritePointer" <=> ~IsSequential(z)
    <3>1. cond \in [Zones -> Conditions \ {"Closed"}]
          /\ \A z \in Zones : cond[z] = "NotWritePointer" <=> ~IsSequential(z)
      BY DEF RangeInit
    <3> QED BY <3>1
  <2>3. call \in [platform : Platforms, op : Operations, range : Ranges]
    BY DEF RangeInit
  <2>4. changes \in 0 .. MaxChanges /\ cursor = 0 /\ target \in Zones
    BY <2>1, RangeAssumption DEF RangeInit
  <2>5. phase \in Phases /\ outcome \in Outcomes /\ (phase = "Done" <=> outcome # "None")
    BY DEF RangeInit, Phases, Outcomes
  <2> QED BY <2>2, <2>3, <2>4, <2>5 DEF RangeInit, RangeTypeOK
<1> QED
  BY <1>1 DEF RangeInit, RangeInv, Begun, Behind, Walking, InKernel, RangeCarriedOut, FailsInOrder

\* A zone of the range that begins before the cursor's end of the walk lies
\* behind the cursor.
LEMMA PastZone ==
    ASSUME RangeTypeOK, ValidRange(call.range), NEW z \in Zones, Wanted(z),
           call.range.sector <= cursor, cursor >= EndOf(call.range) \/ cursor >= Capacity
    PROVE  ZoneStart[z + 1] <= cursor
<1>1. ZoneStart[z] < call.range.sector + call.range.nr /\ call.range.sector < ZoneStart[z + 1]
  BY DEF Wanted, Overlapping
<1>2. /\ call.range.sector \in Nat /\ call.range.nr \in Nat \ {0} /\ cursor \in Nat
      /\ EndOf(call.range) = call.range.sector + call.range.nr
  BY ValidEnd DEF ValidRange
<1>3. ZoneStart[z] \in Nat /\ ZoneStart[z + 1] \in Nat /\ ZoneStart[z + 1] <= Capacity
  BY StartsOrdered, RangeAssumption DEF Capacity, Zones
<1>4. CASE cursor >= Capacity
  BY <1>2, <1>3, <1>4, StartsOrdered
<1>5. CASE cursor >= EndOf(call.range)
  <2>1. cursor # call.range.sector /\ cursor # 0
    BY <1>2, <1>5
  <2>2. PICK y \in Zones : cursor = ZoneStart[y + 1]
    BY <2>1 DEF RangeTypeOK
  <2>3. z < y + 1
    BY <1>1, <1>2, <1>3, <1>5, <2>2, StartsOrdered
  <2> QED BY <2>2, <2>3, StartsOrdered
<1> QED BY <1>4, <1>5

\* A command is taken by a sequential zone, and changes no other zone.
LEMMA TakenZone ==
    ASSUME RangeTypeOK, NEW z \in Zones, Takes(z)
    PROVE  /\ cond' \in [Zones -> Conditions]
           /\ \A x \in Zones : cond'[x] = "NotWritePointer" <=> ~IsSequential(x)
           /\ IsSequential(z)
           /\ commanded' = commanded \cup {z}
           /\ \A x \in Zones \ {z} : cond'[x] = cond[x]
<1>1. PICK c \in CommandedTo(call.op, cond[z]) : cond' = [cond EXCEPT ![z] = c]
  BY DEF Takes
<1>2. c \in Conditions \ {"NotWritePointer"} /\ cond[z] # "NotWritePointer"
  BY <1>1 DEF CommandedTo, Conditions, RangeTypeOK, Operations
<1> QED BY <1>1, <1>2 DEF Takes, RangeTypeOK

\* An ioctl that fails ends the call and changes nothing else.
LEMMA IoctlFailsInv == RangeInv /\ IoctlFails => RangeInv'
<1> SUFFICES ASSUME RangeInv, IoctlFails PROVE RangeInv'
  OBVIOUS
<1> QED
  BY DEF RangeInv, IoctlFails, Return, loopVars, kernelVars, RangeTypeOK, Phases, Outcomes,
         Begun, Behind, Walking, InKernel, Wanted, RangeCarriedOut, FailsInOrder, IsSequential,
         Overlapping

LEMMA BeginInv == RangeInv /\ Begin => RangeInv'
<1> SUFFICES ASSUME RangeInv, Begin PROVE RangeInv'
  OBVIOUS
<1>1. RangeTypeOK /\ phase = "Called" /\ commanded = {} /\ outcome = "None"
  BY DEF RangeInv, Begun, Begin, RangeTypeOK
<1>2. CASE ~ValidRange(call.range) /\ Return("Err")
           /\ UNCHANGED <<cond, call, loopVars, kernelVars, historyVars>>
  BY <1>1, <1>2
     DEF Return, loopVars, kernelVars, historyVars, RangeInv, RangeTypeOK, Phases, Outcomes,
         Begun, Behind, Walking, InKernel, RangeCarriedOut, FailsInOrder, IsSequential
<1>3. CASE ValidRange(call.range) /\ call.platform = "linux" /\ LinuxIoctl(call.range)
  <2>1. CASE Return("Err") /\ UNCHANGED pending
    BY <1>1, <1>3, <2>1
       DEF LinuxIoctl, Return, loopVars, kernelVars, historyVars, RangeInv, RangeTypeOK, Phases,
           Outcomes, Begun, Behind, Walking, InKernel, RangeCarriedOut, FailsInOrder, IsSequential
  <2>2. CASE Continue("Kernel") /\ pending' = KernelZones(call.op, call.range)
    <3>1. /\ pending' \subseteq Overlapping(call.range)
          /\ \A z \in Zones : Wanted(z) => z \in pending'
      <4>1. CASE call.op = "reset" /\ call.range.sector = 0 /\ call.range.nr = Capacity
        <5>1. Overlapping(call.range) = Zones
          BY <1>1, <4>1, ValidEnd, WholeDevice, StartsOrdered
        <5> QED BY <2>2, <4>1, <5>1 DEF KernelZones, Wanted
      <4>2. CASE ~(call.op = "reset" /\ call.range.sector = 0 /\ call.range.nr = Capacity)
        BY <2>2, <4>2 DEF KernelZones, Wanted
      <4> QED BY <4>1, <4>2
    <3>2. RangeTypeOK'
      <4>1. /\ UNCHANGED <<cond, call, cursor, target, failed, commanded, changes, faulty, honest>>
            /\ phase' = "Kernel" /\ outcome' = "None" /\ pending' \subseteq Zones
        BY <1>1, <1>3, <2>2, <3>1
           DEF LinuxIoctl, Continue, loopVars, historyVars, Overlapping
      <4> QED BY <1>1, <4>1 DEF RangeTypeOK, Phases, IsSequential
    <3> QED
      BY <1>1, <1>3, <2>2, <3>1, <3>2
         DEF LinuxIoctl, Continue, loopVars, historyVars, RangeInv, Begun, Behind, Walking,
             InKernel, Wanted, RangeCarriedOut, FailsInOrder
  <2> QED BY <1>3, <2>1, <2>2 DEF LinuxIoctl
<1>4. CASE /\ ValidRange(call.range) /\ call.platform = "freebsd"
           /\ Continue(IF call.op = "reset" THEN "Info" ELSE "Report")
           /\ cursor' = call.range.sector
           /\ UNCHANGED <<cond, call, target, kernelVars, historyVars>>
  <2>1. RangeTypeOK'
    BY <1>1, <1>4
       DEF Continue, kernelVars, historyVars, RangeTypeOK, Phases, Outcomes, IsSequential
  <2>2. \A z \in Zones : ~(Wanted(z) /\ ZoneStart[z + 1] <= call.range.sector)
    BY <1>1, ValidEnd, StartsOrdered DEF Wanted, Overlapping
  <2> QED
    BY <1>1, <1>4, <2>1, <2>2, ValidEnd
       DEF Continue, kernelVars, historyVars, RangeInv, Begun, Behind, Walking, InKernel, Wanted,
           RangeCarriedOut, FailsInOrder
<1> QED BY <1>2, <1>3, <1>4 DEF Begin

LEMMA KernelStepInv == RangeInv /\ KernelStep => RangeInv'
<1> SUFFICES ASSUME RangeInv, KernelStep PROVE RangeInv'
  OBVIOUS
<1>1. RangeTypeOK /\ phase = "Kernel" /\ call.platform = "linux" /\ outcome = "None"
      /\ pending \subseteq Overlapping(call.range)
  BY DEF RangeInv, Begun, InKernel, KernelStep, RangeTypeOK
<1>2. CASE /\ pending = {}
           /\ Return(IF failed THEN "Err" ELSE "Ok")
           /\ UNCHANGED <<cond, kernelVars, commanded, faulty>>
  BY <1>1, <1>2
     DEF KernelStep, Return, kernelVars, loopVars, RangeInv, RangeTypeOK, Phases, Outcomes, Begun,
         Behind, Walking, InKernel, Wanted, RangeCarriedOut, FailsInOrder, IsSequential,
         Overlapping
<1>3. ASSUME NEW z \in pending, pending' = pending \ {z}, UNCHANGED <<phase, outcome>>,
             \/ Takes(z) /\ UNCHANGED <<failed, faulty>>
             \/ Fails(z) /\ failed' = TRUE
      PROVE  RangeInv'
  <2>1. z \in Zones
    BY <1>1 DEF Overlapping
  <2>2. UNCHANGED <<call, cursor, target, changes, honest>>
    BY DEF KernelStep, loopVars
  <2>3. CASE Takes(z) /\ UNCHANGED <<failed, faulty>>
    <3>1. RangeTypeOK'
      BY <1>1, <1>3, <2>1, <2>2, <2>3, TakenZone DEF RangeTypeOK, IsSequential
    <3> QED
      BY <1>1, <1>3, <2>1, <2>2, <2>3, <3>1, TakenZone
         DEF RangeInv, Begun, Behind, Walking, InKernel, Wanted, RangeCarriedOut, FailsInOrder,
             IsSequential, Overlapping
  <2>4. CASE Fails(z) /\ failed' = TRUE
    <3>1. RangeTypeOK'
      BY <1>1, <1>3, <2>2, <2>4 DEF Fails, RangeTypeOK, IsSequential
    <3> QED
      BY <1>1, <1>3, <2>2, <2>4, <3>1
         DEF Fails, RangeInv, Begun, Behind, Walking, InKernel, Wanted, RangeCarriedOut,
             FailsInOrder, IsSequential, Overlapping
  <2> QED BY <1>3, <2>3, <2>4
<1> QED BY <1>2, <1>3 DEF KernelStep

LEMMA ResetInfoInv == RangeInv /\ ResetInfo => RangeInv'
<1> SUFFICES ASSUME RangeInv, ResetInfo PROVE RangeInv'
  OBVIOUS
<1>1. RangeTypeOK /\ phase = "Info" /\ commanded = {} /\ outcome = "None"
      /\ ValidRange(call.range) /\ cursor = call.range.sector
  BY DEF RangeInv, Begun, ResetInfo, RangeTypeOK
<1>2. CASE IoctlFails
  BY <1>2, IoctlFailsInv
<1>3. CASE /\ Continue(IF ResetsAll(call.range) THEN "ResetAll" ELSE "Report")
           /\ UNCHANGED <<cond, call, loopVars, kernelVars, historyVars>>
  <2>1. RangeTypeOK'
    BY <1>1, <1>3
       DEF Continue, loopVars, kernelVars, historyVars, RangeTypeOK, Phases, IsSequential
  <2>2. \A z \in Zones : ~(Wanted(z) /\ ZoneStart[z + 1] <= call.range.sector)
    BY <1>1, ValidEnd, StartsOrdered DEF Wanted, Overlapping
  <2> QED
    BY <1>1, <1>3, <2>1, <2>2, ValidEnd
       DEF Continue, loopVars, kernelVars, historyVars, RangeInv, Begun, Behind, Walking,
           InKernel, Wanted, RangeCarriedOut, FailsInOrder, IsSequential, Overlapping, ValidRange,
           ResetsAll
<1> QED BY <1>2, <1>3 DEF ResetInfo

LEMMA ResetAllInv == RangeInv /\ ResetAll => RangeInv'
<1> SUFFICES ASSUME RangeInv, ResetAll PROVE RangeInv'
  OBVIOUS
<1>1. RangeTypeOK /\ phase = "ResetAll"
  BY DEF RangeInv, ResetAll
<1>2. CASE IoctlFails
  BY <1>2, IoctlFailsInv
<1>3. CASE ~IoctlFails
  <2>1. RangeTypeOK'
    BY <1>1, <1>3
       DEF ResetAll, Return, loopVars, kernelVars, RangeTypeOK, Phases, Outcomes, Conditions,
           IsSequential
  <2> QED
    BY <1>1, <1>3, <2>1
       DEF ResetAll, Return, loopVars, kernelVars, RangeInv, Begun, Behind, Walking, InKernel,
           Wanted, RangeCarriedOut, FailsInOrder, IsSequential, Overlapping
<1> QED BY <1>2, <1>3

LEMMA ReportOneInv == RangeInv /\ ReportOne => RangeInv'
<1> SUFFICES ASSUME RangeInv, ReportOne PROVE RangeInv'
  OBVIOUS
<1>1. RangeTypeOK /\ phase = "Report" /\ outcome = "None" /\ ValidRange(call.range)
  BY DEF RangeInv, Begun, ReportOne, RangeTypeOK
<1>2. CASE IoctlFails
  BY <1>2, IoctlFailsInv
<1>3. CASE /\ cursor >= EndOf(call.range) \/ Answers(cursor) = {}
           /\ Return("Ok")
           /\ UNCHANGED <<cond, call, loopVars, kernelVars, historyVars>>
  <2>1. cursor >= EndOf(call.range) \/ cursor >= Capacity
    <3>1. 0 \in Zones /\ ZoneStart[0] = 0
      BY RangeAssumption DEF Zones
    <3> QED BY <1>1, <1>3, <3>1, ValidEnd, StartsOrdered DEF Answers
  <2>2. ASSUME honest, NEW z \in Zones, Wanted(z)
        PROVE  z \in commanded
    <3>1. call.range.sector <= cursor
      BY <1>1 DEF RangeInv, Behind, Walking
    <3>2. ZoneStart[z + 1] <= cursor
      BY <1>1, <2>1, <2>2, <3>1, PastZone
    <3> QED BY <1>1, <2>2, <3>2 DEF RangeInv, Behind, Walking
  <2>3. UNCHANGED <<cond, call, cursor, target, pending, failed, commanded, changes, faulty, honest>>
        /\ phase' = "Done" /\ outcome' = "Ok"
    BY <1>3 DEF Return, loopVars, kernelVars, historyVars
  <2>4. RangeTypeOK'
    BY <1>1, <2>3 DEF RangeTypeOK, Phases, Outcomes, IsSequential
  <2>5. RangeCarriedOut'
    BY <2>2, <2>3 DEF RangeCarriedOut, Wanted, Overlapping, IsSequential
  <2> QED
    BY <2>3, <2>4, <2>5
       DEF RangeInv, Begun, Behind, Walking, InKernel, FailsInOrder, Overlapping, IsSequential
<1>4. CASE /\ cursor < EndOf(call.range)
           /\ \E z \in Answers(cursor) :
                 /\ target' = z
                 /\ honest' = (honest /\ cursor < ZoneStart[z + 1])
           /\ Continue("Command")
           /\ UNCHANGED <<cond, call, cursor, kernelVars, commanded, changes, faulty>>
  <2>1. /\ target' \in Zones /\ ZoneStart[target'] <= cursor
        /\ honest' = (honest /\ cursor < ZoneStart[target' + 1])
    BY <1>4 DEF Answers
  <2>2. UNCHANGED <<cond, call, cursor, pending, failed, commanded, changes, faulty>>
        /\ phase' = "Command" /\ outcome' = "None" /\ honest' \in BOOLEAN
        /\ (honest' => honest)
    BY <1>1, <1>4, <2>1 DEF Continue, kernelVars, RangeTypeOK
  <2>3. RangeTypeOK'
    BY <1>1, <2>1, <2>2 DEF RangeTypeOK, Phases, IsSequential
  <2>4. Behind'
    BY <1>1, <1>4, <2>1, <2>2
       DEF RangeInv, Behind, Walking, Wanted, Overlapping, IsSequential, EndOf
  <2> QED
    BY <1>1, <2>2, <2>3, <2>4
       DEF RangeInv, Begun, InKernel, RangeCarriedOut, FailsInOrder, Overlapping, IsSequential
<1> QED BY <1>2, <1>3, <1>4 DEF ReportOne

LEMMA CommandOneInv == RangeInv /\ CommandOne => RangeInv'
<1> SUFFICES ASSUME RangeInv, CommandOne PROVE RangeInv'
  OBVIOUS
<1>1. RangeTypeOK /\ phase = "Command" /\ outcome = "None" /\ ValidRange(call.range)
      /\ target \in Zones
  BY DEF RangeInv, Begun, CommandOne, RangeTypeOK
<1>2. CASE /\ Fails(target)
           /\ Return("Err")
           /\ UNCHANGED <<call, loopVars, kernelVars, changes, honest>>
  <2>1. UNCHANGED <<cond, call, cursor, target, pending, failed, commanded, changes, honest>>
        /\ phase' = "Done" /\ outcome' = "Err" /\ faulty' \in BOOLEAN
    BY <1>1, <1>2 DEF Fails, Return, loopVars, kernelVars, RangeTypeOK
  <2>2. RangeTypeOK'
    BY <1>1, <2>1 DEF RangeTypeOK, Phases, Outcomes, IsSequential
  <2> QED
    BY <1>1, <2>1, <2>2
       DEF RangeInv, Begun, Behind, Walking, InKernel, RangeCarriedOut, FailsInOrder,
           Overlapping, IsSequential
<1>3. CASE /\ Takes(target)
           /\ IF NextCursor <= cursor
              THEN Return("Ok") /\ UNCHANGED cursor
              ELSE Continue("Report") /\ cursor' = NextCursor
           /\ UNCHANGED <<call, target, kernelVars, changes, faulty, honest>>
  <2>1. /\ cond' \in [Zones -> Conditions]
        /\ \A x \in Zones : cond'[x] = "NotWritePointer" <=> ~IsSequential(x)
        /\ IsSequential(target)
        /\ commanded' = commanded \cup {target}
    BY <1>1, <1>3, TakenZone
  <2>2. UNCHANGED <<call, target, pending, failed, changes, faulty, honest>>
    BY <1>3 DEF kernelVars
  <2>3. /\ ZoneStart[target] <= cursor /\ cursor < EndOf(call.range)
        /\ honest => cursor < ZoneStart[target + 1]
        /\ call.range.sector <= cursor
        /\ honest => /\ \A z \in Zones : Wanted(z) /\ ZoneStart[z + 1] <= cursor => z \in commanded
                     /\ \A z \in commanded : ZoneStart[z + 1] <= cursor
    BY <1>1 DEF RangeInv, Behind, Walking
  <2>4. ZoneStart[target + 1] \in Nat /\ cursor \in Nat /\ call.range.sector \in Nat
        /\ commanded \subseteq Zones
    BY <1>1, ValidEnd, StartsOrdered DEF RangeTypeOK
  <2>5. CASE NextCursor <= cursor
    <3>1. ~honest /\ UNCHANGED cursor /\ phase' = "Done" /\ outcome' = "Ok"
      BY <1>3, <2>3, <2>4, <2>5 DEF NextCursor, Return
    <3>2. RangeTypeOK'
      BY <1>1, <2>1, <2>2, <3>1 DEF RangeTypeOK, Phases, Outcomes, IsSequential
    <3> QED
      BY <2>2, <3>1, <3>2
         DEF RangeInv, Begun, Behind, Walking, InKernel, RangeCarriedOut, FailsInOrder
  <2>6. CASE ~(NextCursor <= cursor)
    <3>1. cursor' = ZoneStart[target + 1] /\ cursor < cursor' /\ phase' = "Report"
          /\ outcome' = "None"
      BY <1>1, <1>3, <2>4, <2>6 DEF NextCursor, Continue
    <3>2. RangeTypeOK'
      BY <1>1, <2>1, <2>2, <3>1 DEF RangeTypeOK, Phases, IsSequential
    <3>3. ASSUME honest, NEW z \in Zones, Wanted(z), ZoneStart[z + 1] <= cursor'
          PROVE  z \in commanded'
      <4>1. CASE ZoneStart[z + 1] <= cursor
        BY <2>1, <2>3, <3>3, <4>1
      <4>2. CASE cursor < ZoneStart[z + 1]
        <5>1. z + 1 <= target + 1
          BY <1>1, <3>1, <3>3, StartsOrdered
        <5>2. target <= z
          BY <1>1, <2>3, <2>4, <4>2, StartsOrdered
        <5> QED BY <1>1, <2>1, <5>1, <5>2, StartsOrdered
      <4> QED BY <2>4, <4>1, <4>2, StartsOrdered
    <3>4. honest => \A z \in commanded' : ZoneStart[z + 1] <= cursor'
      BY <2>1, <2>3, <2>4, <3>1, StartsOrdered
    <3>5. Behind'
      BY <2>2, <2>3, <2>4, <3>1, <3>3, <3>4
         DEF Behind, Walking, Wanted, Overlapping, IsSequential
    <3>6. FailsInOrder'
      <4> SUFFICES ASSUME honest, NEW z \in commanded', NEW y \in Overlapping(call.range),
                          y < z, IsSequential(y)
                   PROVE  y \in commanded'
        BY <2>2 DEF FailsInOrder, Overlapping, IsSequential
      <4>1. y \in Zones /\ z \in Zones /\ Wanted(y)
        BY <1>1, <2>1, <2>4 DEF Overlapping, Wanted
      <4>2. ZoneStart[z + 1] <= cursor'
        BY <3>4
      <4>3. ZoneStart[y + 1] <= cursor'
        BY <2>4, <3>1, <4>1, <4>2, StartsOrdered
      <4> QED BY <3>3, <4>1, <4>3
    <3> QED
      BY <1>1, <2>2, <3>1, <3>2, <3>5, <3>6
         DEF RangeInv, Begun, InKernel, RangeCarriedOut
  <2> QED BY <2>5, <2>6
<1> QED BY <1>2, <1>3 DEF CommandOne

\* Other users of the zones do not disturb the invariant.
LEMMA OtherChangesInv == RangeInv /\ OtherChanges => RangeInv'
<1> SUFFICES ASSUME RangeInv, OtherChanges PROVE RangeInv'
  OBVIOUS
<1>1. PICK z \in Zones \ Conventional : \E c \in Conditions \ {"NotWritePointer", cond[z]} :
          cond' = [cond EXCEPT ![z] = c]
  BY DEF OtherChanges
<1>2. PICK c \in Conditions \ {"NotWritePointer", cond[z]} : cond' = [cond EXCEPT ![z] = c]
  BY <1>1
<1>3. UNCHANGED <<call, phase, outcome, cursor, target, pending, failed, commanded, faulty, honest>>
      /\ changes' \in 0 .. MaxChanges
  BY RangeAssumption DEF OtherChanges, loopVars, kernelVars, RangeInv, RangeTypeOK
<1>4. cond' \in [Zones -> Conditions]
      /\ \A x \in Zones : cond'[x] = "NotWritePointer" <=> ~IsSequential(x)
  BY <1>2 DEF RangeInv, RangeTypeOK, IsSequential
<1>5. RangeTypeOK'
  BY <1>3, <1>4 DEF RangeInv, RangeTypeOK, IsSequential
<1> QED
  BY <1>3, <1>5
     DEF RangeInv, Begun, Behind, Walking, InKernel, Wanted, RangeCarriedOut, FailsInOrder,
         Overlapping, IsSequential

\* The inductive invariant holds of every call, whatever fails and whoever else
\* changes zones meanwhile.
THEOREM RangeInvariance == RangeSpec => []RangeInv
<1>1. RangeInit => RangeInv
  BY InitRangeInv
<1>2. RangeInv /\ [RangeNext]_vars => RangeInv'
  <2> SUFFICES ASSUME RangeInv, [RangeNext]_vars PROVE RangeInv'
    OBVIOUS
  <2>1. CASE CallStep
    BY <2>1, BeginInv, KernelStepInv, ResetInfoInv, ResetAllInv, ReportOneInv, CommandOneInv
       DEF CallStep
  <2>2. CASE OtherChanges
    BY <2>2, OtherChangesInv
  <2>3. CASE UNCHANGED vars
    BY <2>3
       DEF vars, loopVars, kernelVars, historyVars, RangeInv, RangeTypeOK, Begun, Behind,
           Walking, InKernel, Wanted, RangeCarriedOut, FailsInOrder, Overlapping, IsSequential
  <2> QED BY <2>1, <2>2, <2>3 DEF RangeNext
<1> QED BY <1>1, <1>2, PTL DEF RangeSpec

-----------------------------------------------------------------------------
(* The theorems                                                            *)

\* Type correctness; FreeBSD's cursor stands only at the start of the range and
\* at zone boundaries.
THEOREM RangeTyping == RangeSpec => []RangeTypeOK
<1>1. RangeInv => RangeTypeOK
  BY DEF RangeInv
<1> QED BY <1>1, RangeInvariance, PTL

\* reset_zones, open_zones, close_zones and finish_zones that return Ok have
\* commanded every sequential zone overlapping the range.
THEOREM OkCoversRange == RangeSpec => []RangeCarriedOut
<1>1. RangeInv => RangeCarriedOut
  BY DEF RangeInv
<1> QED BY <1>1, RangeInvariance, PTL

\* for_each_zone_in_range stops at the first zone that fails.
THEOREM StopsInOrder == RangeSpec => []FailsInOrder
<1>1. RangeInv => FailsInOrder
  BY DEF RangeInv
<1> QED BY <1>1, RangeInvariance, PTL

\* A step of a call leaves the zones outside its range alone.
LEMMA StepInRange ==
    ASSUME RangeInv, CallStep, honest
    PROVE  \A z \in Zones \ Overlapping(call.range) : cond'[z] = cond[z]
<1>1. RangeTypeOK
  BY DEF RangeInv
<1>2. CASE Begin
  BY <1>2 DEF Begin, LinuxIoctl
<1>3. CASE KernelStep
  <2>1. ASSUME NEW z \in pending, Takes(z)
        PROVE  \A x \in Zones \ Overlapping(call.range) : cond'[x] = cond[x]
    <3>1. z \in Overlapping(call.range)
      BY <1>3, <2>1 DEF RangeInv, InKernel, KernelStep
    <3> QED BY <1>1, <2>1, <3>1, TakenZone DEF Overlapping
  <2>2. cond' = cond \/ \E z \in pending : Takes(z)
    BY <1>3 DEF KernelStep, Fails
  <2> QED BY <2>1, <2>2
<1>4. CASE ResetInfo
  BY <1>4 DEF ResetInfo, IoctlFails
<1>5. CASE ResetAll
  <2>1. ResetsAll(call.range)
    BY <1>5 DEF RangeInv, Begun, ResetAll
  <2>2. Overlapping(call.range) = Zones
    <3>1. call.range.nr >= Capacity
      BY <1>1, <2>1, ValidEnd, TotalCovers, StartsOrdered DEF ResetsAll
    <3> QED BY <1>1, <2>1, <3>1, ValidEnd, WholeDevice DEF ResetsAll
  <2> QED BY <2>2
<1>6. CASE ReportOne
  BY <1>6 DEF ReportOne, IoctlFails
<1>7. CASE CommandOne
  <2>1. /\ target \in Zones
        /\ ZoneStart[target] <= cursor /\ cursor < EndOf(call.range)
        /\ cursor < ZoneStart[target + 1] /\ call.range.sector <= cursor
        /\ ValidRange(call.range)
    BY <1>1, <1>7 DEF RangeInv, Begun, Behind, Walking, CommandOne, RangeTypeOK
  <2>2. target \in Overlapping(call.range)
    BY <1>1, <2>1, ValidEnd, StartsOrdered DEF Overlapping
  <2>3. cond' = cond \/ Takes(target)
    BY <1>7 DEF CommandOne, Fails
  <2> QED BY <1>1, <2>1, <2>2, <2>3, TakenZone
<1> QED BY <1>2, <1>3, <1>4, <1>5, <1>6, <1>7 DEF CallStep

\* No call touches a zone outside its range, however long the range and whatever
\* the zones of the device; the reset of all zones is used only where the range
\* covers the device.
THEOREM OnlyRangeTouched == RangeSpec => OnlyTheRange
<1>1. RangeInv =>
        [CallStep /\ honest =>
            \A z \in Zones \ Overlapping(call.range) : cond'[z] = cond[z]]_vars
  BY StepInRange
<1> QED BY <1>1, RangeInvariance, PTL DEF OnlyTheRange

-----------------------------------------------------------------------------
(* The reset of the whole device                                           *)

\* The size that reset_zones compares with is that of zones of equal length.
LEMMA TotalIsZones == InfoTotal = NrZones * ZoneSize
<1>1. /\ Capacity \in Nat /\ ZoneSize \in Nat \ {0} /\ NrZones \in Nat \ {0}
      /\ Capacity <= NrZones * ZoneSize
  BY StartsOrdered, RangeAssumption
<1>2. (NrZones - 1) * ZoneSize < Capacity
  <2>1. NrZones - 1 \in Zones /\ NrZones \in 0 .. NrZones /\ NrZones - 1 \in 0 .. NrZones
    BY <1>1 DEF Zones
  <2>2. ZoneStart[NrZones - 1] < ZoneStart[NrZones]
    BY <1>1, <2>1, RangeAssumption
  <2> QED BY <2>1, <2>2, RangeAssumption DEF Capacity
<1> DEFINE c == Capacity
           n == ZoneSize
           m == NrZones
           q == (c + n - 1) \div n
<1>3. /\ c \in Nat /\ n \in Nat /\ n > 0 /\ m \in Nat
      /\ c <= m * n /\ (m - 1) * n < c
  BY <1>1, <1>2
<1> HIDE DEF c, n, m
<1>4. q \in Nat /\ n * q <= c + n - 1 /\ c + n - 1 < n * q + n
  BY <1>3
<1>5. n * (m - 1) < n * q /\ n * q < n * (m + 1)
  BY <1>3, <1>4
<1>6. m - 1 < q /\ q < m + 1
  BY <1>3, <1>4, <1>5
<1>7. q = m
  BY <1>3, <1>4, <1>6
<1> QED BY <1>3, <1>7 DEF InfoTotal, c, n, m, q

\* The call asks for a reset of the device's capacity or more.
ForWholeDevice ==
    /\ call.platform = "freebsd" /\ call.op = "reset"
    /\ call.range.sector = 0 /\ call.range.nr >= Capacity

\* Either it is never taken zone by zone, or it is, and no conventional zone is
\* in the way, or it is in the case that fails.
WholeInv ==
    ForWholeDevice /\ ~ (call.range.nr < NrZones * ZoneSize /\ Conventional # {}) =>
        /\ phase \in {"Report", "Command"} => Conventional = {}
        /\ phase # "Kernel"
        /\ ~faulty => outcome # "Err"

\* A reset that the drive refuses is one of a conventional zone.
LEMMA RefusesConventional ==
    ASSUME RangeTypeOK, Conventional = {}, call.op = "reset", NEW z \in Zones, Fails(z)
    PROVE  faulty'
<1>1. cond[z] # "NotWritePointer"
  BY DEF RangeTypeOK, IsSequential
<1>2. CommandedTo(call.op, cond[z]) = {"Empty"}
  BY <1>1 DEF CommandedTo
<1> QED BY <1>2 DEF Fails

\* A range of the whole device is valid.
LEMMA WholeIsValid ==
    ASSUME RangeTypeOK, ForWholeDevice
    PROVE  ValidRange(call.range)
<1>1. call.range \in [sector : 0 .. MaxSector, nr : 0 .. MaxSector] /\ MaxSector \in Nat
  BY RangeAssumption DEF RangeTypeOK
<1>2. Capacity > 0
  <2>1. 0 < NrZones /\ ZoneStart[0] = 0
    BY RangeAssumption
  <2> QED BY <2>1, StartsOrdered DEF Capacity
<1>3. call.range.nr # 0
  BY <1>1, <1>2, StartsOrdered DEF ForWholeDevice
<1> QED BY <1>1, <1>3 DEF ForWholeDevice, ValidRange

LEMMA InitWhole == RangeInit => WholeInv
BY DEF RangeInit, WholeInv

\* Each step keeps it.
LEMMA StepWhole == RangeInv /\ WholeInv /\ [RangeNext]_vars => WholeInv'
<1> SUFFICES ASSUME RangeInv, WholeInv, [RangeNext]_vars, ForWholeDevice',
                    ~ (call.range.nr < NrZones * ZoneSize /\ Conventional # {})'
             PROVE  /\ phase' \in {"Report", "Command"} => Conventional = {}
                    /\ phase' # "Kernel"
                    /\ ~faulty' => outcome' # "Err"
  BY DEF WholeInv
<1>1. call' = call
  BY DEF RangeNext, CallStep, Begin, LinuxIoctl, KernelStep, ResetInfo, ResetAll, ReportOne,
         CommandOne, IoctlFails, OtherChanges, vars
<1>2. /\ ForWholeDevice /\ RangeTypeOK
      /\ ~ (call.range.nr < NrZones * ZoneSize /\ Conventional # {})
  BY <1>1 DEF ForWholeDevice, RangeInv
<1>3. /\ phase \in {"Report", "Command"} => Conventional = {}
      /\ phase # "Kernel"
      /\ ~faulty => outcome # "Err"
  BY <1>2 DEF WholeInv
<1>4. ValidRange(call.range) /\ call.platform = "freebsd" /\ call.op = "reset"
  BY <1>2, WholeIsValid DEF ForWholeDevice
<1>5. ResetsAll(call.range) \/ Conventional = {}
  <2>1. call.range.nr \in Nat
    BY <1>2, RangeAssumption DEF RangeTypeOK
  <2> QED BY <1>2, <2>1, TotalIsZones, TotalCovers DEF ForWholeDevice, ResetsAll
<1>6. CASE IoctlFails
  BY <1>6 DEF IoctlFails, Return
<1>7. CASE Begin
  BY <1>3, <1>4, <1>7 DEF Begin, Continue, historyVars
<1>8. CASE KernelStep
  BY <1>3, <1>8 DEF KernelStep
<1>9. CASE ResetInfo /\ ~IoctlFails
  BY <1>3, <1>5, <1>9 DEF ResetInfo, Continue, historyVars
<1>10. CASE ResetAll /\ ~IoctlFails
  BY <1>3, <1>10 DEF ResetAll, Return
<1>11. CASE ReportOne /\ ~IoctlFails
  BY <1>3, <1>11 DEF ReportOne, Return, Continue, historyVars
<1>12. CASE CommandOne
  <2>1. Conventional = {} /\ target \in Zones
    BY <1>2, <1>3, <1>12 DEF CommandOne, RangeTypeOK
  <2>2. Fails(target) => faulty'
    BY <1>2, <1>4, <2>1, RefusesConventional
  <2>3. CASE Fails(target) /\ Return("Err")
    BY <2>2, <2>3 DEF Return
  <2>4. CASE ~ (Fails(target) /\ Return("Err"))
    BY <1>3, <1>12, <2>1, <2>4 DEF CommandOne, Return, Continue
  <2> QED BY <2>3, <2>4
<1>13. CASE OtherChanges \/ UNCHANGED vars
  BY <1>3, <1>13 DEF OtherChanges, vars, historyVars
<1> QED
  BY <1>6, <1>7, <1>8, <1>9, <1>10, <1>11, <1>12, <1>13 DEF RangeNext, CallStep

\* On FreeBSD a reset of the device's capacity or more that meets no failing
\* ioctl fails only if the last zone is shorter, the range ends before a last
\* zone of full length would, and there is a conventional zone.
THEOREM WholeDeviceIsReset == RangeSpec => []WholeDeviceReset
<1>1. RangeInit => WholeInv
  BY InitWhole
<1>2. RangeInv /\ WholeInv /\ [RangeNext]_vars => WholeInv'
  BY StepWhole
<1>3. WholeInv => WholeDeviceReset
  BY DEF WholeInv, ForWholeDevice, WholeDeviceReset
<1> QED BY <1>1, <1>2, <1>3, RangeInvariance, PTL DEF RangeSpec

=============================================================================
