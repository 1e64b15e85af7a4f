------------------------------ MODULE Exchange ------------------------------
(***************************************************************************)
(* What a reliable CoAP channel promises, without stores, timers, copies   *)
(* or a network: a request of this side is pending from the moment it is   *)
(* asked to its one conclusion, which is "acked" only for a request that   *)
(* arrived; and a request of the other side is handled at most once in a   *)
(* connection.                                                             *)
(***************************************************************************)
EXTENDS Naturals

CONSTANTS Ours,      \* requests of this side
          Theirs     \* requests of the other side

VARIABLES asked,     \* of each of Ours: "none", "pending", "acked" or "failed"
          arrived,   \* the ones the other side has got
          served     \* of each of Theirs: how often it was handled

exchangeVars == <<asked, arrived, served>>

ExchangeInit == /\ asked = [m \in Ours |-> "none"]
                /\ arrived = {}
                /\ served = [r \in Theirs |-> 0]

\* One request is asked, any number of pending ones come to their end.
Proceed(m) ==
  \/ asked'[m] = asked[m]
  \/ asked[m] = "none" /\ asked'[m] \in {"pending", "failed"}
  \/ asked[m] = "pending" /\ asked'[m] = "failed"
  \/ asked[m] = "pending" /\ asked'[m] = "acked" /\ m \in arrived

Conclude == /\ asked' \in [Ours -> {"none", "pending", "acked", "failed"}]
            /\ \A m \in Ours : Proceed(m)

Arrive == /\ \E m \in Ours : /\ asked[m] # "none"
                             /\ arrived' = arrived \cup {m}
          /\ UNCHANGED <<asked, served>>

Work == /\ Conclude
        /\ \/ UNCHANGED served
           \/ \E r \in Theirs : /\ served[r] = 0
                                /\ served' = [served EXCEPT ![r] = 1]
        /\ UNCHANGED arrived

\* A new connection begins: nothing stays pending, nothing is remembered.
Reconnect == /\ asked' = [m \in Ours |-> IF asked[m] = "pending" THEN "failed" ELSE asked[m]]
             /\ served' = [r \in Theirs |-> 0]
             /\ UNCHANGED arrived

ExchangeNext == Arrive \/ Work \/ Reconnect

ExchangeSpec == ExchangeInit /\ [][ExchangeNext]_exchangeVars
=============================================================================
