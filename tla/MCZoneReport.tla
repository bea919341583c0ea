----------------------------- MODULE MCZoneReport -----------------------------
(* Small instances of ZoneReport for TLC: the last zone is shorter. *)
EXTENDS ZoneReport, TLC

ThreeZones == (0 :> 0 @@ 1 :> 2 @@ 2 :> 4 @@ 3 :> 5)
=============================================================================
