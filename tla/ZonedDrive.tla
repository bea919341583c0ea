----------------------------- MODULE ZonedDrive -----------------------------
(***************************************************************************)
(* A host-managed zoned block device as the library uses it: what the      *)
(* kernel and the drive do with the calls made by src/platform/linux.rs    *)
(* and src/platform/freebsd.rs.  The drive is not part of the repository;  *)
(* its operations are read off the calls the library makes, the            *)
(* conversions of the two back ends, and what tests/nullblk_integration.rs *)
(* expects of a null_blk device.  I/O is direct (ZonedDevice::open_direct):*)
(* nothing stays in a page cache.                                          *)
(*                                                                         *)
(* A drive state is a function from zones to [cond, wp], where wp counts   *)
(* the sectors from the start of the zone.  All operators are functions of *)
(* a drive state, so that any module can compose them with its own state.  *)
(***************************************************************************)
EXTENDS Integers

CONSTANTS
    NrZones,        \* number of zones of the device
    ZoneLen,        \* Zone.len, in sectors
    ZoneCap,        \* Zone.capacity, in sectors
    Conventional,   \* the zones without a write pointer
    Platform        \* the back end compiled in: "linux" or "freebsd"

Zones == 0 .. NrZones - 1

ASSUME DriveAssumption ==
    /\ NrZones \in Nat \ {0}
    /\ ZoneLen \in Nat \ {0}
    /\ ZoneCap \in 1 .. ZoneLen
    /\ Conventional \subseteq Zones
    /\ Platform \in {"linux", "freebsd"}

\* FreeBSD's zone report has no capacity field: the back end takes the length.
ASSUME FreeBSDCapacity == Platform = "freebsd" => ZoneCap = ZoneLen

Open      == {"ImplicitlyOpen", "ExplicitlyOpen"}
Condition == Open \cup {"NotWritePointer", "Empty", "Closed", "Full"}

DriveState == [Zones -> [cond : Condition, wp : 0 .. ZoneLen]]

IsSequential(z) == z \notin Conventional

\* The capacity the report gives for a zone.
Capacity(z) == IF IsSequential(z) THEN ZoneCap ELSE ZoneLen

\* A drive that has just been formatted.
BlankDrive ==
    [z \in Zones |->
        [cond |-> IF IsSequential(z) THEN "Empty" ELSE "NotWritePointer", wp |-> 0]]

\* What the drive keeps true of every zone: the pointer of a full zone is
\* reported at the zone's end, an empty one has it at the start, and the others
\* have it below the capacity.
Coherent(d) ==
    \A z \in Zones :
        /\ d[z].cond = "NotWritePointer" <=> ~IsSequential(z)
        /\ d[z].cond = "NotWritePointer" => d[z].wp = 0
        /\ d[z].cond = "Empty" => d[z].wp = 0
        /\ d[z].cond = "Full" => d[z].wp = ZoneLen
        /\ d[z].cond \in Open \cup {"Closed"} => d[z].wp < ZoneCap

-----------------------------------------------------------------------------
(* Zone reports                                                            *)

\* Option::None of Zone.write_pointer.
NoPointer == -1

\* The values Zone.write_pointer may have in a report of zone z
\* (blk_zone_to_zone, entry_to_zone).  FreeBSD "sometimes" gives no pointer
\* for a full zone.
ReportedPointers(d, z) ==
    IF d[z].cond = "NotWritePointer"
    THEN {NoPointer}
    ELSE {d[z].wp} \cup
         (IF Platform = "freebsd" /\ d[z].cond = "Full" THEN {NoPointer} ELSE {})

\* Mutant: the write pointer is left out.
RemainingCapacity_Whole(z, p) == Capacity(z)

\* Zone::remaining_capacity of a report of zone z with pointer p.  Below 0 the
\* u64 subtraction underflows: a full zone with capacity below its length.
RemainingCapacity(z, p) == IF p = NoPointer THEN Capacity(z) ELSE Capacity(z) - p

-----------------------------------------------------------------------------
(* Data                                                                    *)

\* Sector j of a write that starts off sectors into zone z, with off and the
\* length of the write at most ZoneLen, is accepted: the kernel splits the
\* request where zone z ends, and each part must start at the write pointer of
\* its zone and stay below the capacity.
AcceptsSector(d, z, off, j) ==
    IF off + j < ZoneLen
    THEN IsSequential(z) => d[z].wp = off /\ off + j < ZoneCap
    ELSE /\ z + 1 \in Zones
         /\ IsSequential(z + 1) => d[z + 1].wp = 0 /\ off + j - ZoneLen < ZoneCap

\* The first k sectors of such a write may reach the medium.
CanLand(d, z, off, k) == \A j \in 0 .. k - 1 : AcceptsSector(d, z, off, j)

\* The state of one zone when its pointer is moved to w by a write.
Advance(z, zone, w) ==
    CASE ~IsSequential(z) \/ w = zone.wp -> zone
      [] IsSequential(z) /\ w # zone.wp /\ w >= ZoneCap ->
            [cond |-> "Full", wp |-> ZoneLen]
      [] IsSequential(z) /\ w # zone.wp /\ w < ZoneCap ->
            [cond |-> IF zone.cond = "ExplicitlyOpen" THEN zone.cond
                                                      ELSE "ImplicitlyOpen",
             wp |-> w]

\* The drive after the first k sectors of that write.
Landed(d, z, off, k) ==
    [x \in Zones |->
        CASE x = z /\ k > 0 ->
                Advance(x, d[x], IF off + k > ZoneLen THEN ZoneLen ELSE off + k)
          [] x = z + 1 /\ off + k > ZoneLen -> Advance(x, d[x], off + k - ZoneLen)
          [] OTHER -> d[x]]

-----------------------------------------------------------------------------
(* Zone management commands on one zone: the states they may lead to; no   *)
(* state when the drive refuses the command.                               *)

Sets(d, z, cond, wp) == [d EXCEPT ![z] = [cond |-> cond, wp |-> wp]]

ResetStates(d, z) == IF IsSequential(z) THEN {Sets(d, z, "Empty", 0)} ELSE {}

FinishStates(d, z) ==
    IF IsSequential(z) THEN {Sets(d, z, "Full", ZoneLen)} ELSE {}

OpenStates(d, z) ==
    IF IsSequential(z) /\ d[z].cond # "Full"
    THEN {Sets(d, z, "ExplicitlyOpen", d[z].wp)}
    ELSE {}

\* Drives differ on a zone closed before anything was written to it.
CloseStates(d, z) ==
    IF d[z].cond \in Open \cup {"Closed"}
    THEN {Sets(d, z, "Closed", d[z].wp)} \cup
         (IF d[z].wp = 0 THEN {Sets(d, z, "Empty", 0)} ELSE {})
    ELSE {}

\* The drive may close an implicitly open zone to open another one.
ImplicitCloseStates(d, z) ==
    IF d[z].cond = "ImplicitlyOpen" THEN {Sets(d, z, "Closed", d[z].wp)} ELSE {}

=============================================================================
