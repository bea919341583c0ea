----------------------------- MODULE ZoneHandle -----------------------------
(***************************************************************************)
(* ZoneHandle (src/zone_handle/mod.rs): a handle on one zone that writes   *)
(* at a write pointer it tracks itself.  The device reports the pointer    *)
(* once, when the handle is made; afterwards the handle adds what each     *)
(* pwrite returns and never asks again.                                    *)
(*                                                                         *)
(* Each thread holds at most one handle.  A method makes at most one call  *)
(* to the device, so a method is one step, but write_all_sequential, whose *)
(* loop makes one call per step.                                           *)
(*                                                                         *)
(* handle[t].wp is relative to the start of the zone, where                *)
(* ZoneHandle.write_pointer is a sector of the device.  A call that fails  *)
(* (Io, Ioctl, ReadOnly) may have had an effect on the drive.              *)
(*                                                                         *)
(* Beside the handles, others use the range operations of the raw          *)
(* ZonedDevice, whose commands reach the zones one by one.                 *)
(***************************************************************************)
EXTENDS ZonedDrive

CONSTANTS
    Threads,    \* the threads that use handles
    MaxBuf,     \* bound: the longest buffer, in sectors
    Clamped     \* the clients never pass more than the zone has left

ASSUME HandleAssumption ==
    /\ MaxBuf \in 1 .. ZoneLen      \* so that a write meets at most two zones
    /\ Clamped \in BOOLEAN

VARIABLES
    drive,      \* the device's zones
    handle,     \* handle[t]: zone_index and write_pointer of t's handle
    left,       \* left[t]: length of `remaining` in write_all_sequential
    result,     \* result[t]: what t's last call returned
    goal,       \* history: the pointer at which that write_all ends, else 0
    turn,       \* history: parity of the turns of its loop, so that a turn that
                \* wrote nothing is still a step
    synced      \* history: no call of the handle failed since the pointer
                \* was last set from the device's

handleVars == <<drive, handle, left, result, goal, turn, synced>>

NoZone   == -1
NoHandle == [zone |-> NoZone, wp |-> 0]

Results == {"None", "Pending", "Ok", "ZoneFull", "InvalidRange", "Error"}

TypeOK ==
    /\ drive \in DriveState
    /\ Coherent(drive)
    /\ handle \in [Threads -> [zone : Zones \cup {NoZone}, wp : 0 .. 2 * ZoneLen]]
    /\ left \in [Threads -> 0 .. MaxBuf]
    /\ result \in [Threads -> Results]
    /\ goal \in [Threads -> 0 .. 3 * ZoneLen]
    /\ turn \in [Threads -> 0 .. 1]
    /\ synced \in [Threads -> BOOLEAN]

Live(t) == handle[t].zone # NoZone
Idle(t) == Live(t) /\ left[t] = 0

HandleInit ==
    /\ drive \in {d \in DriveState : Coherent(d)}
    /\ handle = [t \in Threads |-> NoHandle]
    /\ left = [t \in Threads |-> 0]
    /\ result = [t \in Threads |-> "None"]
    /\ goal = [t \in Threads |-> 0]
    /\ turn = [t \in Threads |-> 0]
    /\ synced = [t \in Threads |-> FALSE]

-----------------------------------------------------------------------------
(* ZoneHandle::new_inner and Drop                                          *)

\* Mutant: the absent pointer is taken for a position.
UnwrapOrStart_KeepsNone(p) == p

\* zone.write_pointer.unwrap_or(zone.start)
UnwrapOrStart(p) == IF p = NoPointer THEN 0 ELSE p

\* Mutant: every handle starts at the start of its zone.
NewSucceeds_AtStart(t, i) ==
    /\ i \in Zones
    /\ handle' = [handle EXCEPT ![t] = [zone |-> i, wp |-> 0]]
    /\ result' = [result EXCEPT ![t] = "Ok"]
    /\ synced' = [synced EXCEPT ![t] = TRUE]

NewSucceeds(t, i) ==
    /\ i \in Zones
    /\ \E p \in ReportedPointers(drive, i) :
           handle' = [handle EXCEPT ![t] = [zone |-> i, wp |-> UnwrapOrStart(p)]]
    /\ result' = [result EXCEPT ![t] = "Ok"]
    /\ synced' = [synced EXCEPT ![t] = TRUE]

\* No zone is reported past the end of the device; device_info and
\* report_zones may also fail.
NewFails(t, i) ==
    /\ \/ i \notin Zones /\ result' = [result EXCEPT ![t] = "InvalidRange"]
       \/ result' = [result EXCEPT ![t] = "Error"]
    /\ UNCHANGED <<handle, synced>>

NewInner(t, i) ==
    /\ ~Live(t)
    /\ NewSucceeds(t, i) \/ NewFails(t, i)
    /\ UNCHANGED <<drive, left, goal, turn>>

Drop(t) ==
    /\ Idle(t)
    /\ handle' = [handle EXCEPT ![t] = NoHandle]
    /\ result' = [result EXCEPT ![t] = "None"]
    /\ synced' = [synced EXCEPT ![t] = FALSE]
    /\ UNCHANGED <<drive, left, goal, turn>>

-----------------------------------------------------------------------------
(* Writing                                                                 *)

\* Mutant: > for >=.
AtCapacity_Beyond(t) == handle[t].wp > Capacity(handle[t].zone)

\* self.write_pointer >= capacity_end
AtCapacity(t) == handle[t].wp >= Capacity(handle[t].zone)

\* pwrite of n sectors at the handle's pointer: the first k reach the medium.
Lands(t, k) ==
    /\ CanLand(drive, handle[t].zone, handle[t].wp, k)
    /\ drive' = Landed(drive, handle[t].zone, handle[t].wp, k)

\* The three ways out of write_sequential (and of writev_sequential).
Refuses(t) == AtCapacity(t) /\ UNCHANGED <<drive, handle, synced>>

Writes(t, k) ==
    /\ ~AtCapacity(t)
    /\ Lands(t, k)
    /\ handle' = [handle EXCEPT ![t].wp = @ + k]
    /\ UNCHANGED synced

WriteFails(t, n) ==
    /\ ~AtCapacity(t)
    /\ \E k \in 0 .. n : Lands(t, k)
    /\ synced' = [synced EXCEPT ![t] = FALSE]
    /\ UNCHANGED handle

\* A clamping client stops short of the capacity, or finds the zone full.
Fits(t, n) ==
    Clamped => AtCapacity(t) \/ handle[t].wp + n <= Capacity(handle[t].zone)

\* Mutant: the pointer advances by buf.len(), not by what pwrite returned.
WriteSequential_WholeBuffer(t, n) ==
    /\ Idle(t)
    /\ \/ Refuses(t) /\ result' = [result EXCEPT ![t] = "ZoneFull"]
       \/ /\ ~AtCapacity(t)
          /\ \E written \in 0 .. n : Lands(t, written)
          /\ handle' = [handle EXCEPT ![t].wp = @ + n]
          /\ result' = [result EXCEPT ![t] = "Ok"]
          /\ UNCHANGED synced
       \/ WriteFails(t, n) /\ result' = [result EXCEPT ![t] = "Error"]
    /\ UNCHANGED <<left, goal, turn>>

WriteSequential(t, n) ==
    /\ Idle(t)
    /\ \/ Refuses(t) /\ result' = [result EXCEPT ![t] = "ZoneFull"]
       \/ /\ \E written \in 0 .. n : Writes(t, written)
          /\ result' = [result EXCEPT ![t] = "Ok"]
       \/ WriteFails(t, n) /\ result' = [result EXCEPT ![t] = "Error"]
    /\ UNCHANGED <<left, goal, turn>>

BeginWriteAll(t, n) ==
    /\ Idle(t)
    /\ left' = [left EXCEPT ![t] = n]
    /\ goal' = [goal EXCEPT ![t] = handle[t].wp + n]
    /\ result' = [result EXCEPT ![t] = "Pending"]
    /\ UNCHANGED <<drive, handle, turn, synced>>

\* write_all_sequential returns r from inside its loop.
Return(t, r) ==
    /\ left' = [left EXCEPT ![t] = 0]
    /\ goal' = [goal EXCEPT ![t] = 0]
    /\ turn' = [turn EXCEPT ![t] = 0]
    /\ result' = [result EXCEPT ![t] = r]

\* remaining = &remaining[written..]
Remain(t, written) ==
    /\ left' = [left EXCEPT ![t] = @ - written]
    /\ turn' = [turn EXCEPT ![t] = 1 - @]
    /\ UNCHANGED <<result, goal>>

\* Mutant: no loop, one partial write is taken for the whole.
WriteAllStep_NoLoop(t) ==
    /\ left[t] > 0
    /\ \/ Refuses(t) /\ Return(t, "ZoneFull")
       \/ WriteFails(t, left[t]) /\ Return(t, "Error")
       \/ \E written \in 0 .. left[t] : Writes(t, written) /\ Return(t, "Ok")

\* Mutant: at the capacity the loop ends and Ok is returned.
WriteAllStep_StopsAtCapacity(t) ==
    /\ left[t] > 0
    /\ \/ Refuses(t) /\ Return(t, "Ok")
       \/ WriteFails(t, left[t]) /\ Return(t, "Error")
       \/ Writes(t, left[t]) /\ Return(t, "Ok")
       \/ \E written \in 1 .. left[t] - 1 :
              /\ Writes(t, written)
              /\ Remain(t, written)

\* Mutant: no test for written == 0.
WriteAllStep_RetriesZero(t) ==
    /\ left[t] > 0
    /\ \/ Refuses(t) /\ Return(t, "ZoneFull")
       \/ WriteFails(t, left[t]) /\ Return(t, "Error")
       \/ Writes(t, left[t]) /\ Return(t, "Ok")
       \/ \E written \in 0 .. left[t] - 1 :
              /\ Writes(t, written)
              /\ Remain(t, written)

\* One turn of the loop.
WriteAllStep(t) ==
    /\ left[t] > 0
    /\ \/ Refuses(t) /\ Return(t, "ZoneFull")
       \/ WriteFails(t, left[t]) /\ Return(t, "Error")
       \/ Writes(t, 0) /\ Return(t, "ZoneFull")
       \/ Writes(t, left[t]) /\ Return(t, "Ok")
       \/ \E written \in 1 .. left[t] - 1 :
              /\ Writes(t, written)
              /\ Remain(t, written)

-----------------------------------------------------------------------------
(* Zone management                                                         *)

\* The command fails, with or without effect.
ManageFails(t, states) ==
    /\ drive' \in states \cup {drive}
    /\ result' = [result EXCEPT ![t] = "Error"]
    /\ UNCHANGED handle

\* The command succeeds and the handle sets its pointer to wp.
ManageSets(t, states, wp) ==
    /\ drive' \in states
    /\ handle' = [handle EXCEPT ![t].wp = wp]
    /\ result' = [result EXCEPT ![t] = "Ok"]
    /\ synced' = [synced EXCEPT ![t] = TRUE]

\* Mutant: reset leaves the tracked pointer where it was.
ResetZone_KeepsPointer(t) ==
    /\ Idle(t)
    /\ \/ ManageSets(t, ResetStates(drive, handle[t].zone), handle[t].wp)
       \/ /\ ManageFails(t, ResetStates(drive, handle[t].zone))
          /\ synced' = [synced EXCEPT ![t] = FALSE]
    /\ UNCHANGED <<left, goal, turn>>

ResetZone(t) ==
    /\ Idle(t)
    /\ \/ ManageSets(t, ResetStates(drive, handle[t].zone), 0)
       \/ /\ ManageFails(t, ResetStates(drive, handle[t].zone))
          /\ synced' = [synced EXCEPT ![t] = FALSE]
    /\ UNCHANGED <<left, goal, turn>>

FinishZone(t) ==
    /\ Idle(t)
    /\ \/ ManageSets(t, FinishStates(drive, handle[t].zone), ZoneLen)
       \/ /\ ManageFails(t, FinishStates(drive, handle[t].zone))
          /\ synced' = [synced EXCEPT ![t] = FALSE]
    /\ UNCHANGED <<left, goal, turn>>

\* open and close take &self and return what the device returns.
ManageOnly(t, states) ==
    /\ Idle(t)
    /\ \/ /\ drive' \in states
          /\ result' = [result EXCEPT ![t] = "Ok"]
          /\ UNCHANGED handle
       \/ ManageFails(t, states)
    /\ UNCHANGED <<left, goal, turn, synced>>

OpenZone(t)  == ManageOnly(t, OpenStates(drive, handle[t].zone))
CloseZone(t) == ManageOnly(t, CloseStates(drive, handle[t].zone))

-----------------------------------------------------------------------------
(* The raw device                                                          *)

\* "the caller is responsible for ensuring exclusivity"
Exclusive(i) == \A u \in Threads : handle[u].zone # i

\* ZonedDevice::reset_zones, open_zones, close_zones and finish_zones on zone z.
Commands(z) ==
    /\ drive' \in ResetStates(drive, z) \cup FinishStates(drive, z)
                   \cup OpenStates(drive, z) \cup CloseStates(drive, z)
    /\ UNCHANGED <<handle, left, result, goal, turn, synced>>

\* The device does not know of handles: that z has none is its caller's word.
RawManage(z) == Exclusive(z) /\ Commands(z)

-----------------------------------------------------------------------------
(* The specification                                                       *)

DriveCloses ==
    /\ \E z \in Zones : drive' \in ImplicitCloseStates(drive, z)
    /\ UNCHANGED <<handle, left, result, goal, turn, synced>>

\* The methods of a handle that exists.
Operate(t) ==
    \/ \E n \in 1 .. MaxBuf : Fits(t, n) /\ (WriteSequential(t, n) \/ BeginWriteAll(t, n))
    \/ WriteAllStep(t)
    \/ ResetZone(t)
    \/ FinishZone(t)
    \/ OpenZone(t)
    \/ CloseZone(t)

Indices == 0 .. NrZones

HandleNext ==
    \/ \E t \in Threads :
           \/ \E i \in Indices : Exclusive(i) /\ NewInner(t, i)
           \/ Drop(t)
           \/ Operate(t)
    \/ \E z \in Zones : RawManage(z)
    \/ DriveCloses

HandleSpec == HandleInit /\ [][HandleNext]_handleVars

\* A thread inside write_all_sequential keeps running.
HandleFairSpec == HandleSpec /\ \A t \in Threads : WF_handleVars(WriteAllStep(t))

-----------------------------------------------------------------------------
(* Properties                                                              *)

\* What keeps a write from running into the next zone: clients that clamp, or
\* sectors between the capacity and the end of every zone.
NoSpill == Clamped \/ (ZoneCap < ZoneLen /\ Conventional = {})

\* The pointer of t's handle is the one the drive would report.  A zone that
\* writes filled is reported at its end, the handle then stands at the capacity.
Tracks(t) ==
    LET z == handle[t].zone IN
    IsSequential(z) =>
        \/ handle[t].wp = drive[z].wp
        \/ drive[z].cond = "Full" /\ handle[t].wp >= ZoneCap

\* As long as no call of a handle failed since new, reset or finish last set
\* its pointer, the pointer it tracks is the device's, whatever the other
\* threads do.  (write_sequential, reset, finish, new_inner.)
PointerTracksDevice == \A t \in Threads : Live(t) /\ synced[t] => Tracks(t)

\* A step moves one write pointer at most: that of a live handle's zone, or, as
\* the raw device does, to the start or the end of a zone without handle.  No
\* write, however long or short, reaches a neighbour.
WritesStayInZone ==
    [][\A z \in Zones : drive'[z].wp # drive[z].wp =>
          /\ Exclusive(z) => drive'[z].cond \in {"Empty", "Full"}
          /\ \A x \in Zones \ {z} : drive'[x] = drive[x]]_handleVars

\* remaining_capacity of a zone's report is what its handle still writes: as
\* many sectors as the drive accepts, and 0 exactly when write_sequential
\* returns ZoneFull.  (Zone::remaining_capacity, write_sequential, finish.)
RemainingIsWritable ==
    \A t \in Threads : Live(t) /\ synced[t] /\ IsSequential(handle[t].zone) =>
        LET z == handle[t].zone IN
        \A p \in ReportedPointers(drive, z) :
            LET r == RemainingCapacity(z, p) IN
            /\ AtCapacity(t) <=> r = 0
            /\ ~AtCapacity(t) => /\ r = Capacity(z) - handle[t].wp
                                 /\ CanLand(drive, z, handle[t].wp, r)

\* write_sequential on a full zone returns ZoneFull and issues no pwrite, be
\* the zone filled by writes, by finish, or full already when new was called.
FullZoneIsRefused ==
    [][\A t \in Threads, n \in 1 .. MaxBuf :
          /\ Idle(t) /\ synced[t]
          /\ drive[handle[t].zone].cond = "Full"
          /\ WriteSequential(t, n)
          => result'[t] = "ZoneFull" /\ UNCHANGED drive]_handleVars

\* write_all_sequential returns Ok only when every sector of the buffer is on
\* the medium, contiguous with what the zone held: the pointer of the handle
\* and the drive's have both moved by the length of the buffer, over whatever
\* partial writes it took.
WriteAllDelivers ==
    [][\A t \in Threads :
          left[t] > 0 /\ left'[t] = 0 /\ result'[t] = "Ok" =>
              /\ handle'[t].wp = goal[t]
              /\ Tracks(t)']_handleVars

\* A write_all_sequential in progress returns, however short the partial
\* writes and even if pwrite returns 0.
WriteAllTerminates == \A t \in Threads : left[t] > 0 ~> left[t] = 0

\* "Returns `ZoneFull` if the zone cannot accommodate the full buffer."
\* (write_all_sequential): a buffer longer than what the zone has left is not
\* reported as written.
OversizeWriteAllFails ==
    [][\A t \in Threads :
          left[t] > 0 /\ goal[t] > Capacity(handle[t].zone)
              => result'[t] # "Ok"]_handleVars

=============================================================================
