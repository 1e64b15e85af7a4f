---------------------------- MODULE MCMqttClient ----------------------------
(* Module-checking instance of MqttClient: one message of each kind, so    *)
(* that records can carry two messages or a message and an answer.         *)
EXTENDS MqttClient

MCMessages == <<"m1", "m2", "m3">>
MCKind     == [m1 |-> "qos1", m2 |-> "oversized", m3 |-> "qos0"]
=============================================================================
