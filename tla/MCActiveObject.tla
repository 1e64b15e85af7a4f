-------------------------- MODULE MCActiveObject --------------------------
(* Model-checking instance of ActiveObject: a second thread, such as the   *)
(* unit's server thread, calls and notifies too.                           *)
EXTENDS ActiveObject

MCOthers == {"server"}
=============================================================================
