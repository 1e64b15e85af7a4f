---------------------------- MODULE MCSerialPipe ----------------------------
(* Module-checking instance of SerialPipe.                                 *)
EXTENDS SerialPipe
=============================================================================
