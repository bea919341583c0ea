----------------------------- MODULE MCZoneBench -----------------------------
(* Small instances of ZoneBench for TLC. *)
EXTENDS ZoneBench, TLC

CONSTANTS s1, s2, s3, s4

FourSlots == <<s1, s2, s3, s4>>
FourHandles == {s1, s2, s3, s4}
NoConventional == {}

\* Bound: at most two zones of the device are in use, enough to make an
\* allocation skip a zone or fail.
FewUsed == Cardinality({z \in Zones : drive[z].cond # "Empty"}) <= 2

FewUsedInit == BenchInit /\ FewUsed

FewUsedSpec == FewUsedInit /\ [][BenchNext]_allVars /\ BenchFairness
=============================================================================
