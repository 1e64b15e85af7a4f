------------------------- MODULE MCChunkedTransfer -------------------------
(***************************************************************************)
(* Model-checking instance of ChunkedTransfer: a file of three chunks,    *)
(* one of a single chunk, and one of four, for which there is no room.     *)
(***************************************************************************)
EXTENDS ChunkedTransfer, TLC

CONSTANTS f1, f2, f3
MCLength == f1 :> 3 @@ f2 :> 1 @@ f3 :> 4
=============================================================================
