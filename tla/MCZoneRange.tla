----------------------------- MODULE MCZoneRange -----------------------------
(* Small instances of ZoneRange for TLC: the last zone is shorter. *)
EXTENDS ZoneRange, TLC

FourZones == (0 :> 0 @@ 1 :> 2 @@ 2 :> 4 @@ 3 :> 6 @@ 4 :> 7)
AllRanges == [sector : 0 .. MaxSector, nr : 0 .. MaxSector]
FirstZone == {0}
=============================================================================
