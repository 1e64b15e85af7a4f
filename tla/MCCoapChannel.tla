--------------------------- MODULE MCCoapChannel ---------------------------
(* Module-checking instance of CoapChannel: the server's request has the   *)
(* id of one of the device's.                                              *)
EXTENDS CoapChannel

MCServerIds == {1}
=============================================================================
