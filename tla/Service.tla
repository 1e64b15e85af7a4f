------------------------------ MODULE Service ------------------------------
(***************************************************************************)
(* What the firmware's threads promise each other, without queues, tasks   *)
(* or semaphores.  Callers have calls served by one server: one at a time, *)
(* each once, those of one caller in their order, and a caller that waits  *)
(* for a call goes on only when it has been served.  Notices go the other  *)
(* way: each is kept and handled once and in order, or is lost, and it is  *)
(* lost only while as many as there is room for are kept.                  *)
(***************************************************************************)
EXTENDS FiniteSets, Naturals

CONSTANTS Calls, Notices,   \* sets of <<who, number>>
          Room              \* the most notices kept

VARIABLES work,      \* of each call: "none", "asked", "begun" or "done"
          waited,    \* the calls their caller waits for
          back,      \* the calls that have returned
          notice     \* of each notice: "none", "offered", "kept", "handled" or "lost"

serviceVars == <<work, waited, back, notice>>

Earlier(m) == {<<m[1], k>> : k \in 1 .. m[2] - 1}
Kept == {e \in Notices : notice[e] = "kept"}

ServiceInit ==
  /\ work = [m \in Calls |-> "none"] /\ waited = {} /\ back = {}
  /\ notice = [e \in Notices |-> "none"]

Ask(m) ==
  /\ work[m] = "none" /\ Earlier(m) \subseteq back
  /\ work' = [work EXCEPT ![m] = "asked"]
  /\ waited' \in {waited, waited \cup {m}}
  /\ UNCHANGED <<back, notice>>

Begin(m) ==
  /\ work[m] = "asked"
  /\ \A n \in Calls : work[n] # "begun"
  /\ \A n \in Earlier(m) : work[n] = "done"
  /\ work' = [work EXCEPT ![m] = "begun"]
  /\ UNCHANGED <<waited, back, notice>>

End(m) ==
  /\ work[m] = "begun"
  /\ work' = [work EXCEPT ![m] = "done"]
  /\ UNCHANGED <<waited, back, notice>>

Return(m) ==
  /\ m \notin back /\ work[m] # "none"
  /\ m \in waited => work[m] = "done"
  /\ back' = back \cup {m}
  /\ UNCHANGED <<work, waited, notice>>

Offer(e) ==
  /\ notice[e] = "none"
  /\ \A f \in Earlier(e) : notice[f] \notin {"none", "offered"}
  /\ notice' = [notice EXCEPT ![e] = "offered"]

Keep(e) ==
  /\ notice[e] = "offered" /\ Cardinality(Kept) < Room
  /\ notice' = [notice EXCEPT ![e] = "kept"]

Lose(e) ==
  /\ notice[e] = "offered" /\ Cardinality(Kept) = Room
  /\ notice' = [notice EXCEPT ![e] = "lost"]

Handle(e) ==
  /\ notice[e] = "kept"
  /\ \A f \in Earlier(e) : notice[f] # "kept"
  /\ notice' = [notice EXCEPT ![e] = "handled"]

ServiceNext ==
  \/ \E m \in Calls : Ask(m) \/ Begin(m) \/ End(m) \/ Return(m)
  \/ \E e \in Notices : (Offer(e) \/ Keep(e) \/ Lose(e) \/ Handle(e)) /\ UNCHANGED <<work, waited, back>>

ServiceSpec == ServiceInit /\ [][ServiceNext]_serviceVars
=============================================================================
