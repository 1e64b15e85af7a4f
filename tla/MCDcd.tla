------------------------------- MODULE MCDcd -------------------------------
(* Module-checking instance of Dcd: two slots, so that every write has     *)
(* bytes to copy before or after its own.                                  *)
EXTENDS Dcd
=============================================================================
