---------------------------- MODULE MCZoneHandle ----------------------------
(* Small instances of ZoneHandle for TLC. *)
EXTENDS ZoneHandle, TLC

CONSTANTS t1, t2

TwoThreads == {t1, t2}
OneThread == {t1}
Symmetry == Permutations(TwoThreads)
NoConventional == {}
FirstConventional == {0}
=============================================================================
