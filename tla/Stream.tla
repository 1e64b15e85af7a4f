------------------------------- MODULE Stream -------------------------------
(***************************************************************************)
(* What a serial pipe promises in one direction: the bytes of the source   *)
(* pass through a buffer of bounded capacity and come out at the sink, in  *)
(* their order, each once.                                                 *)
(***************************************************************************)
EXTENDS Naturals, SequencesExt

CONSTANTS Bytes, Capacity

VARIABLES source,    \* bytes given and not yet accepted
          buffer,    \* bytes under way
          sink       \* bytes come out and not yet taken away

Taken(s, k) == SubSeq(s, 1, k)
Left(s, k) == SubSeq(s, k + 1, Len(s))

Offer == /\ source' # source /\ IsPrefix(source, source')
         /\ source' \in Seq(Bytes)
         /\ UNCHANGED <<buffer, sink>>

Accept == \E k \in 1 .. Len(source) :
            /\ Len(buffer) + k <= Capacity
            /\ source' = Left(source, k)
            /\ buffer' = buffer \o Taken(source, k)
            /\ UNCHANGED sink

Deliver == \E k \in 1 .. Len(buffer) :
             /\ buffer' = Left(buffer, k)
             /\ sink' = sink \o Taken(buffer, k)
             /\ UNCHANGED source

Clear == sink # <<>> /\ sink' = <<>> /\ UNCHANGED <<source, buffer>>

Init == source = <<>> /\ buffer = <<>> /\ sink = <<>>
Next == Offer \/ Accept \/ Deliver \/ Clear

StreamSpec == Init /\ [][Next]_<<source, buffer, sink>>
=============================================================================
