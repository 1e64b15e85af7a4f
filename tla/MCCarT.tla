------------------------------- MODULE MCCarT -------------------------------
(* Module-checking instance of CarT: a poll of two requests tells an empty,*)
(* a partial and a full batch apart.                                       *)
EXTENDS CarT

MCNumPids == 2
=============================================================================
