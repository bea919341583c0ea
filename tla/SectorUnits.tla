----------------------------- MODULE SectorUnits -----------------------------
(***************************************************************************)
(* The three units of the library: bytes, 512-byte sectors                 *)
(* (src/types/mod.rs) and the logical blocks of a FreeBSD device           *)
(* (src/platform/freebsd.rs), the arithmetic between them in unsigned      *)
(* integers of limited width, and what ZonedDeviceCursor                   *)
(* (src/device/cursor.rs) makes of it: at_sector, seek, and the place of   *)
(* its reads and writes.                                                   *)
(*                                                                         *)
(* Where the source adds, multiplies or negates without a check, a build   *)
(* with overflow checks panics and one without wraps around.               *)
(***************************************************************************)
EXTENDS Integers

CONSTANTS
    SectorSize,     \* 512
    MaxU,           \* u64::MAX
    OverflowChecks  \* how the build treats an overflow

ASSUME UnitAssumption ==
    /\ SectorSize \in Nat \ {0} /\ MaxU \in Nat /\ MaxU % 2 = 1
    /\ OverflowChecks \in BOOLEAN

MaxI == MaxU \div 2     \* i64::MAX
MinI == -(MaxI + 1)     \* i64::MIN

Unsigned == 0 .. MaxU
Signed   == MinI .. MaxI

\* Results that are no number.
Refused == -1           \* an error, or None
Panic   == -2

Outcome(n) == IF n \in Unsigned THEN n ELSE Refused

\* The unchecked operators of the language on u64.
Unchecked(n) ==
    IF n \in Unsigned THEN n ELSE IF OverflowChecks THEN Panic ELSE n % (MaxU + 1)

-----------------------------------------------------------------------------
(* Sector                                                                  *)

\* Sector::to_bytes
ToBytes(sector) == Unchecked(sector * SectorSize)

\* Mutant: the remainder is dropped.
FromBytes_RoundsDown(bytes) == bytes \div SectorSize

\* Sector::from_bytes
FromBytes(bytes) == IF bytes % SectorSize = 0 THEN bytes \div SectorSize ELSE Refused

\* checked_mul in ZonedDevice::write_at, read_at, writev_at and readv_at.
CheckedToBytes(sector) == Outcome(sector * SectorSize)

-----------------------------------------------------------------------------
(* ZonedDeviceCursor                                                       *)

\* The position of ZonedDeviceCursor::at_sector.
AtSector(sector) == ToBytes(sector)

\* Where read or write acts on the device, from a cursor at position.
Place(position) ==
    IF FromBytes(position) = Refused THEN Refused ELSE CheckedToBytes(FromBytes(position))

\* (-offset) as u64, for a negative offset: i64::MIN has no negation.
Magnitude(offset) == IF offset = MinI /\ OverflowChecks THEN Panic ELSE -offset

\* "Validate sector alignment"
Aligned(position) ==
    IF position >= 0 /\ position % SectorSize # 0 THEN Refused ELSE position

\* seek(SeekFrom::Start(offset)); SeekFrom::End is always refused.
SeekStart(offset) == Aligned(offset)

\* seek(SeekFrom::Current(offset))
SeekCurrent(position, offset) ==
    IF offset >= 0 THEN Aligned(Outcome(position + offset))
    ELSE IF Magnitude(offset) = Panic THEN Panic
    ELSE Aligned(Outcome(position - Magnitude(offset)))

-----------------------------------------------------------------------------
(* Logical blocks of FreeBSD; scale is lba_scale                           *)

\* entry_to_zone
FromLba(lba, scale) == Unchecked(lba * scale)

\* report_zones: the block a report of the zones from sector on asks for.
StartLba(sector, scale) == IF scale > 0 THEN sector \div scale ELSE sector

\* for_each_zone_in_range: the block a command for a reported zone names.
CommandLba(start, scale) == IF scale = 0 THEN Panic ELSE start \div scale

=============================================================================
