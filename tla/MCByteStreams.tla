--------------------------- MODULE MCByteStreams ---------------------------
(* Small instances of ByteStreams for TLC. *)
EXTENDS ByteStreams, TLC

CONSTANTS f1, f2, f3

\* One file that fills the buffer, one beyond it, one empty.
SmallFiles == {f1, f2, f3}
SmallSizes == f1 :> 4 @@ f2 :> 7 @@ f3 :> 0
=============================================================================
