--------------------------- MODULE MCZoneAllocator ---------------------------
(* Small instances of ZoneAllocator for TLC. *)
EXTENDS ZoneAllocator, TLC

CONSTANTS t1, t2, t3

TwoThreads == {t1, t2}
ThreeThreads == {t1, t2, t3}
Symmetry == Permutations(TwoThreads)
Symmetry3 == Permutations(ThreeThreads)
NoConventional == {}
FirstConventional == {0}

\* Bound: no zone is explicitly open.  To the allocator that condition is one more
\* that is not empty.
NoneOpened == \A z \in Zones : drive[z].cond # "ExplicitlyOpen"

NoneOpenedInit == AllocatorInit /\ NoneOpened

NoneOpenedSpec ==
    /\ NoneOpenedInit
    /\ [][AllocatorNext /\ NoneOpened']_vars
    /\ \A t \in Threads : WF_vars(Continue(t))
=============================================================================
