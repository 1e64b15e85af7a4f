------------------------------- MODULE Uplink -------------------------------
(***************************************************************************)
(* What the telematics unit promises of its uplink, without threads, locks *)
(* or buffers: one session that opens at most once and never reopens, a    *)
(* batch of CAN records offered to it again and again, and never more than *)
(* MaxGap batches in a row dropped before one is offered.                  *)
(***************************************************************************)
EXTENDS Naturals

CONSTANTS MaxBatch,   \* the most records one batch can hold
          MaxGap      \* the most batches dropped in a row

VARIABLES session,    \* "none", "open" or "over"
          gap,        \* batches dropped since one was last offered
          report      \* records in the batch last handed to the session

uplinkVars == <<session, gap, report>>

UplinkInit == session = "none" /\ gap = 0 /\ report = 0

\* The one attempt to open the session, which succeeds or fails for good.
Open == /\ session = "none"
        /\ session' \in {"open", "over"}
        /\ UNCHANGED <<gap, report>>

\* The session ends and nothing reopens it.
Close == /\ session = "open"
         /\ session' = "over"
         /\ UNCHANGED <<gap, report>>

\* A batch is dropped without being offered to the session.
Drop == /\ gap < MaxGap
        /\ gap' = gap + 1
        /\ UNCHANGED <<session, report>>

\* A batch is offered to the session.
Offer == /\ gap' = 0
         /\ UNCHANGED <<session, report>>

\* The offered batch, never an empty one, goes to an open session.
Report == /\ session = "open"
          /\ report' \in 1..MaxBatch
          /\ UNCHANGED <<session, gap>>

UplinkNext == Open \/ Close \/ Drop \/ Offer \/ Report

UplinkSpec == UplinkInit /\ [][UplinkNext]_uplinkVars
=============================================================================
