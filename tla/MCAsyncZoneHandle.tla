-------------------------- MODULE MCAsyncZoneHandle --------------------------
(* Small instances of AsyncZoneHandle for TLC. *)
EXTENDS AsyncZoneHandle

CONSTANTS h1, s1, s2, s3

OneHandle == {h1}
ThreeSlots == {s1, s2, s3}
NoConventional == {}

\* Bound: the third call in progress is of a method that does not loop.  Two pool
\* threads run the closures of three calls.
ThirdIsOneCall == call[s3].method \in {"None", "one_call"}

ThirdIsOneCallSpec ==
    /\ AsyncInit
    /\ [][AsyncNext /\ ThirdIsOneCall']_vars
    /\ WF_vars(PoolTakes)
    /\ \A s \in Slots : WF_vars(Progress(s))
=============================================================================
