------------------------------ MODULE ZoneRange ------------------------------
(***************************************************************************)
(* ZonedDevice::reset_zones, open_zones, close_zones and finish_zones over *)
(* a range of sectors (src/device/mod.rs).  The Linux back end passes the  *)
(* range to the kernel in one ioctl (src/platform/linux.rs), the FreeBSD   *)
(* back end commands zone after zone, with a report before each            *)
(* (src/platform/freebsd.rs); meanwhile others use the zones.              *)
(*                                                                         *)
(* One call is modelled, from any state of the zones.  Sectors are real    *)
(* sectors of the device; the last zone may be shorter than the others.    *)
(***************************************************************************)
EXTENDS Integers

CONSTANTS
    NrZones,        \* number of zones of the device
    ZoneStart,      \* ZoneStart[z]: where z starts; [NrZones]: the device's end
    Conventional,   \* the zones without a write pointer
    Platforms,      \* the back ends looked at
    Ranges,         \* bound: the [sector, nr] that are passed
    MaxSector,      \* bound: the largest u64
    MaxChanges      \* bound: how often others change a zone

Zones    == 0 .. NrZones - 1
Capacity == ZoneStart[NrZones]
ZoneSize == ZoneStart[1]

ASSUME RangeAssumption ==
    /\ NrZones \in Nat \ {0}
    /\ ZoneStart \in [0 .. NrZones -> Nat]
    /\ ZoneStart[0] = 0
    /\ \A y, z \in 0 .. NrZones : y < z => ZoneStart[y] < ZoneStart[z]
    /\ \A z \in Zones : ZoneStart[z] = z * ZoneSize
    /\ Capacity <= NrZones * ZoneSize       \* the last zone may be shorter
    /\ Conventional \subseteq Zones
    /\ Platforms \subseteq {"linux", "freebsd"}
    /\ MaxSector \in Nat /\ Capacity <= MaxSector
    /\ Ranges \subseteq [sector : 0 .. MaxSector, nr : 0 .. MaxSector]
    /\ MaxChanges \in Nat

Operations == {"reset", "open", "close", "finish"}
Conditions == {"NotWritePointer", "Empty", "Open", "Closed", "Full"}

\* Where the call stands; "Done" carries an outcome.
Phases   == {"Called", "Info", "Report", "Command", "ResetAll", "Kernel", "Done"}
Outcomes == {"None", "Ok", "Err"}

VARIABLES
    cond,       \* the drive's zones
    call,       \* the arguments, and the back end compiled in
    phase, outcome,
    cursor,     \* FreeBSD: the cursor of for_each_zone_in_range
    target,     \* FreeBSD: the zone reported last
    pending,    \* Linux: zones the kernel has still to command
    failed,     \* Linux: a command of the ioctl has failed
    \* history
    commanded,  \* the zones this call has commanded
    changes,    \* how often others have changed a zone
    faulty,     \* an ioctl failed that the arguments gave no reason for
    honest      \* every report was of the zone asked for

loopVars    == <<cursor, target>>
kernelVars  == <<pending, failed>>
historyVars == <<commanded, changes, faulty, honest>>
vars == <<cond, call, phase, outcome, loopVars, kernelVars, historyVars>>

IsSequential(z) == z \notin Conventional

\* The range after the wrap-around of a u64.
EndOf(range) ==
    IF range.sector + range.nr <= MaxSector
    THEN range.sector + range.nr
    ELSE range.sector + range.nr - (MaxSector + 1)

\* The zones with a sector in the range.
Overlapping(range) ==
    {z \in Zones : /\ ZoneStart[z] < range.sector + range.nr
                   /\ range.sector < ZoneStart[z + 1]}

RangeInit ==
    /\ cond \in {c \in [Zones -> Conditions \ {"Closed"}] :
                    \A z \in Zones : c[z] = "NotWritePointer" <=> ~IsSequential(z)}
    /\ call \in [platform : Platforms, op : Operations, range : Ranges]
    /\ phase = "Called" /\ outcome = "None"
    /\ cursor = 0 /\ target = 0
    /\ pending = {} /\ failed = FALSE
    /\ commanded = {} /\ changes = 0 /\ faulty = FALSE /\ honest = TRUE

Return(result) == phase' = "Done" /\ outcome' = result
Continue(next) == phase' = next /\ UNCHANGED outcome

-----------------------------------------------------------------------------
(* Drive and kernel                                                        *)

\* The conditions a command may put a zone into; none if the drive refuses.
CommandedTo(op, c) ==
    CASE op = "reset"  /\ c # "NotWritePointer"             -> {"Empty"}
      [] op = "finish" /\ c # "NotWritePointer"             -> {"Full"}
      [] op = "open"   /\ c \notin {"NotWritePointer", "Full"} -> {"Open"}
      [] op = "close"  /\ c \in {"Open", "Closed"}           -> {"Closed", "Empty"}
      [] OTHER -> {}

\* Zone z takes the command.
Takes(z) ==
    /\ \E c \in CommandedTo(call.op, cond[z]) : cond' = [cond EXCEPT ![z] = c]
    /\ commanded' = commanded \cup {z}

\* The drive refuses it, or the command fails.
Fails(z) ==
    /\ faulty' = (faulty \/ CommandedTo(call.op, cond[z]) # {})
    /\ UNCHANGED <<cond, commanded>>

\* A report or an information ioctl fails.
IoctlFails ==
    /\ Return("Err")
    /\ faulty' = TRUE
    /\ UNCHANGED <<cond, call, loopVars, kernelVars, commanded, changes, honest>>

\* The kernel's check of the range of a zone ioctl.
KernelAccepts(range) ==
    /\ range.sector < EndOf(range) /\ EndOf(range) <= Capacity
    /\ range.sector % ZoneSize = 0
    /\ range.nr % ZoneSize = 0 \/ EndOf(range) = Capacity

\* A reset of the whole device skips conventional zones, one of several zones
\* does not.
KernelZones(op, range) ==
    IF op = "reset" /\ range.sector = 0 /\ range.nr = Capacity
    THEN {z \in Zones : IsSequential(z)}
    ELSE Overlapping(range)

\* The kernel sends all commands of an ioctl to the drive, in whatever order
\* they are carried out, and reports a failure when the last has ended.
KernelStep ==
    /\ phase = "Kernel"
    /\ \/ \E z \in pending :
            /\ pending' = pending \ {z}
            /\ \/ Takes(z) /\ UNCHANGED <<failed, faulty>>
               \/ Fails(z) /\ failed' = TRUE
            /\ UNCHANGED <<phase, outcome>>
       \/ /\ pending = {}
          /\ Return(IF failed THEN "Err" ELSE "Ok")
          /\ UNCHANGED <<cond, kernelVars, commanded, faulty>>
    /\ UNCHANGED <<call, loopVars, changes, honest>>

\* The whole range is one ioctl.
LinuxIoctl(range) ==
    /\ IF KernelAccepts(range)
       THEN Continue("Kernel") /\ pending' = KernelZones(call.op, range)
       ELSE Return("Err") /\ UNCHANGED pending
    /\ UNCHANGED <<cond, call, loopVars, failed, historyVars>>

-----------------------------------------------------------------------------
(* The call                                                                *)

\* Mutant: the addition of the range may wrap around.
ValidRange_Wraps(range) == range.nr # 0

\* validate_range
ValidRange(range) == range.nr # 0 /\ range.sector + range.nr <= MaxSector

\* The first step of the call.
Begin ==
    /\ phase = "Called"
    /\ \/ /\ ~ValidRange(call.range)
          /\ Return("Err")
          /\ UNCHANGED <<cond, call, loopVars, kernelVars, historyVars>>
       \/ /\ ValidRange(call.range) /\ call.platform = "linux"
          /\ LinuxIoctl(call.range)
       \/ /\ ValidRange(call.range) /\ call.platform = "freebsd"
          /\ Continue(IF call.op = "reset" THEN "Info" ELSE "Report")
          /\ cursor' = call.range.sector
          /\ UNCHANGED <<cond, call, target, kernelVars, historyVars>>

\* zone_size * nr_zones, where nr_zones is the capacity divided by the zone
\* size, rounded up.
InfoTotal == ZoneSize * ((Capacity + ZoneSize - 1) \div ZoneSize)

\* Mutant: any reset that begins at sector 0 resets everything.
ResetsAll_FromZero(range) == range.sector = 0

\* Mutant: the size of the device is one short of a whole-device range.
ResetsAll_Beyond(range) == range.sector = 0 /\ range.nr > InfoTotal

ResetsAll(range) == range.sector = 0 /\ range.nr >= InfoTotal

\* reset_zones asks for the device's size and chooses.
ResetInfo ==
    /\ phase = "Info"
    /\ \/ /\ Continue(IF ResetsAll(call.range) THEN "ResetAll" ELSE "Report")
          /\ UNCHANGED <<cond, call, loopVars, kernelVars, historyVars>>
       \/ IoctlFails

\* zone_rwp with DISK_ZONE_RWP_FLAG_ALL
ResetAll ==
    /\ phase = "ResetAll"
    /\ \/ /\ cond' = [z \in Zones |-> IF IsSequential(z) THEN "Empty" ELSE cond[z]]
          /\ commanded' = {z \in Zones : IsSequential(z)}
          /\ Return("Ok")
          /\ UNCHANGED <<call, loopVars, kernelVars, changes, faulty, honest>>
       \/ IoctlFails

\* The zones a report of one zone from sector s may be of: the zone of s, or an
\* earlier one if the drive's answer is wrong.  None past the end of the device.
Answers(s) == {z \in Zones : ZoneStart[z] <= s /\ s < Capacity}

\* The head of the loop of for_each_zone_in_range, and its report.  The zone of
\* the range's first sector is reported and commanded wherever it starts.
ReportOne ==
    /\ phase = "Report"
    /\ \/ /\ cursor >= EndOf(call.range) \/ Answers(cursor) = {}
          /\ Return("Ok")
          /\ UNCHANGED <<cond, call, loopVars, kernelVars, historyVars>>
       \/ /\ cursor < EndOf(call.range)
          /\ \E z \in Answers(cursor) :
                /\ target' = z
                /\ honest' = (honest /\ cursor < ZoneStart[z + 1])
          /\ Continue("Command")
          /\ UNCHANGED <<cond, call, cursor, kernelVars, commanded, changes, faulty>>
       \/ cursor < EndOf(call.range) /\ IoctlFails

\* Mutant: the cursor is moved on by the length of the zone.
NextCursor_ByLength == cursor + (ZoneStart[target + 1] - ZoneStart[target])

\* zone.start + zone.len
NextCursor == ZoneStart[target + 1]

\* Mutant: no test for progress.
CommandOne_NoGuard ==
    /\ phase = "Command"
    /\ \/ /\ Takes(target)
          /\ cursor' = NextCursor /\ Continue("Report")
          /\ UNCHANGED <<call, target, kernelVars, changes, faulty, honest>>
       \/ /\ Fails(target)
          /\ Return("Err")
          /\ UNCHANGED <<call, loopVars, kernelVars, changes, honest>>

\* Mutant: the loop goes on after a zone that failed.
CommandOne_GoesOn ==
    /\ phase = "Command"
    /\ \/ Takes(target) /\ UNCHANGED faulty
       \/ Fails(target)
    /\ IF NextCursor <= cursor
       THEN Return("Ok") /\ UNCHANGED cursor
       ELSE Continue("Report") /\ cursor' = NextCursor
    /\ UNCHANGED <<call, target, kernelVars, changes, honest>>

\* The command on the reported zone, and the rest of the loop's body.
CommandOne ==
    /\ phase = "Command"
    /\ \/ /\ Takes(target)
          /\ IF NextCursor <= cursor
             THEN Return("Ok") /\ UNCHANGED cursor
             ELSE Continue("Report") /\ cursor' = NextCursor
          /\ UNCHANGED <<call, target, kernelVars, changes, faulty, honest>>
       \/ /\ Fails(target)
          /\ Return("Err")
          /\ UNCHANGED <<call, loopVars, kernelVars, changes, honest>>

-----------------------------------------------------------------------------
(* The specification                                                       *)

\* Another user of the device writes, resets, opens, closes or finishes a zone.
OtherChanges ==
    /\ phase # "Done"
    /\ changes < MaxChanges
    /\ changes' = changes + 1
    /\ \E z \in Zones \ Conventional :
          \E c \in Conditions \ {"NotWritePointer", cond[z]} : cond' = [cond EXCEPT ![z] = c]
    /\ UNCHANGED <<call, phase, outcome, loopVars, kernelVars, commanded, faulty, honest>>

CallStep == Begin \/ KernelStep \/ ResetInfo \/ ResetAll \/ ReportOne \/ CommandOne

RangeNext == CallStep \/ OtherChanges

RangeSpec == RangeInit /\ [][RangeNext]_vars

\* The calling thread runs, and the kernel's commands end.
RangeFairSpec == RangeSpec /\ WF_vars(CallStep)

-----------------------------------------------------------------------------
(* Properties                                                              *)

\* The variables have their types; FreeBSD's cursor is at the range's start or
\* at a zone boundary.
RangeTypeOK ==
    /\ cond \in [Zones -> Conditions]
    /\ \A z \in Zones : cond[z] = "NotWritePointer" <=> ~IsSequential(z)
    /\ call \in [platform : Platforms, op : Operations, range : Ranges]
    /\ phase \in Phases /\ outcome \in Outcomes
    /\ phase = "Done" <=> outcome # "None"
    /\ cursor \in {call.range.sector} \cup {0} \cup {ZoneStart[z + 1] : z \in Zones}
    /\ target \in Zones
    /\ pending \subseteq Zones /\ failed \in BOOLEAN
    /\ commanded \subseteq Zones \ Conventional
    /\ changes \in 0 .. MaxChanges /\ faulty \in BOOLEAN /\ honest \in BOOLEAN

\* A call that returns Ok has commanded every sequential zone that overlaps the
\* range, wherever in a zone the range begins and ends.  ("All sequential zones
\* overlapping the range", ZonedDevice::reset_zones.)  On FreeBSD that takes in
\* the zone a range begins in the middle of, although the comment on
\* for_each_zone_in_range says "each zone whose start falls within [sector,
\* sector + nr_sectors)": the code does what the public method promises, and not
\* what that comment says.
RangeCarriedOut ==
    outcome = "Ok" /\ honest =>
        {z \in Overlapping(call.range) : IsSequential(z)} \subseteq commanded

\* A call, whether it succeeds or fails, never touches a zone outside its range.
OnlyTheRange ==
    [][CallStep /\ honest =>
          \A z \in Zones \ Overlapping(call.range) : cond'[z] = cond[z]]_vars

\* FreeBSD: a call that failed has commanded the zones before the one that
\* failed and none behind it, so that the caller can find where it stopped.
FailsInOrder ==
    call.platform = "freebsd" /\ honest =>
        \A z \in commanded : \A y \in Overlapping(call.range) :
            y < z /\ IsSequential(y) => y \in commanded

\* A call ends, even on a drive whose reports make no progress.
CallEnds == <>(phase = "Done")

\* "To reset all zones, pass `sector = Sector::ZERO` and `nr_sectors` covering
\* the entire device": on FreeBSD a call that does so and meets no failing ioctl
\* fails in one case only.  That is when the last zone is shorter than the others,
\* the range ends before it would if it were not, and there is a conventional
\* zone: the call then goes zone by zone and the drive refuses that zone.  In that
\* case the code does not keep the promise.
WholeDeviceReset ==
    /\ call.platform = "freebsd" /\ call.op = "reset"
    /\ call.range.sector = 0 /\ call.range.nr >= Capacity
    /\ ~faulty /\ honest /\ outcome = "Err"
    => call.range.nr < NrZones * ZoneSize /\ Conventional # {}

=============================================================================
