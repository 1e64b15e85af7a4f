----------------------------- MODULE MCSession -----------------------------
(* Model-checking instance of Session: the system's own subscription, made *)
(* at every boot, and one of the application.                              *)
EXTENDS Session

MCTopics == {"spark", "app"}
MCBootTopics == {"spark"}
MCDescriptions == {1, 2}
MCSids == {1, 2}
=============================================================================
