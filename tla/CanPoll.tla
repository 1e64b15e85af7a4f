------------------------------ MODULE CanPoll ------------------------------
(***************************************************************************)
(* One CAN poll of the main thread: CAN::GetPID() and CAN::receive()       *)
(* (CAN.cpp) over the receive ring of Serial5, while the STN chip answers  *)
(* in its own time.                                                        *)
(*                                                                         *)
(* receive() takes a fixed number of characters, does not wait, and stores *)
(* nothing where the ring was empty.  An answer longer than that leaves    *)
(* characters to the next request, a late one comes too late for its own,  *)
(* and a record nobody wrote keeps what an earlier poll left in it.        *)
(***************************************************************************)
EXTENDS Naturals, Sequences

CONSTANTS
  NumPids,    \* num_pids: requests of a poll, and so its most records
  Width,      \* characters receive() takes: number_bytes_to_write * 2
  RingSize,   \* what the receive ring holds: SERIAL_BUFFER_SIZE - 1
  Answers,    \* the STN chip's answers, sequences of "char" and "space"
  MaxLine     \* bound: characters on the serial line at one time

ASSUME SizesAssumption ==
  /\ NumPids \in Nat \ {0} /\ Width \in Nat \ {0} /\ RingSize \in Nat \ {0}
  /\ MaxLine \in Nat
  /\ <<>> \in Answers /\ Answers \subseteq Seq({"char", "space"})

VARIABLES
  poll,                  \* where the main thread is in the poll
  request,               \* the request it works on, from 1
  i,                     \* receive()'s index into the record, from 1
  current_record_count,  \* records counted; the next one's index
  temp_can_buffer,       \* the records, "zero" where nothing was ever stored
  ring,                  \* the serial receive ring
  line,                  \* characters the chip has sent and the ring not got
  written                \* history: records this poll stored something in

pollVars == <<poll, request, i, current_record_count, temp_can_buffer, written>>
canVars  == <<pollVars, ring, line>>

Records   == 0 .. NumPids - 1
Positions == 1 .. Width

\* "left" is a character that lay in the ring when the poll began.
Characters == {"char", "space", "left"}

-----------------------------------------------------------------------------
\* Mutant: the counter goes on from the last poll's records.
BeginCounted ==
  /\ poll = "idle"
  /\ poll' = "clear" /\ request' = 1 /\ i' = 1
  /\ written' = {}
  /\ ring' = [k \in DOMAIN ring |-> IF ring[k] = "space" THEN "space" ELSE "left"]
  /\ UNCHANGED <<current_record_count, temp_can_buffer, line>>

\* loop() calls CAN_function() with can_records = 0.
Begin ==
  /\ poll = "idle"
  /\ poll' = "clear" /\ request' = 1 /\ i' = 1
  /\ current_record_count' = 0
  /\ written' = {}
  /\ ring' = [k \in DOMAIN ring |-> IF ring[k] = "space" THEN "space" ELSE "left"]
  /\ UNCHANGED <<temp_can_buffer, line>>

\* Mutant: the ring is not cleared.
ClearNothing ==
  /\ poll = "clear"
  /\ poll' = "request"
  /\ UNCHANGED <<request, i, current_record_count, temp_can_buffer, written, ring, line>>

\* clearBuffer(): read while there is something to read.
Clear ==
  /\ poll = "clear"
  /\ \/ ring # <<>> /\ ring' = Tail(ring) /\ UNCHANGED poll
     \/ ring = <<>> /\ poll' = "request" /\ UNCHANGED ring
  /\ UNCHANGED <<request, i, current_record_count, temp_can_buffer, written, line>>

\* println(), flush(), delay(50); the chip answers, at once, late or not at all.
Request ==
  /\ poll = "request" /\ request <= NumPids
  /\ poll' = "receive" /\ i' = 1
  /\ \E answer \in Answers : /\ Len(line) + Len(answer) <= MaxLine
                             /\ line' = line \o answer
  /\ UNCHANGED <<request, current_record_count, temp_can_buffer, written, ring>>

Return ==
  /\ poll = "request" /\ request > NumPids
  /\ poll' = "idle"
  /\ UNCHANGED <<request, i, current_record_count, temp_can_buffer, written, ring, line>>

\* receive()'s loop condition.
Wants == i <= Width

\* Mutant: an empty ring is waited for.
ReceiveWait ==
  /\ poll = "receive" /\ Wants /\ ring = <<>>
  /\ UNCHANGED canVars

\* Serial5.read() = -1: the place keeps what it held.
ReceiveNothing ==
  /\ poll = "receive" /\ Wants /\ ring = <<>>
  /\ i' = i + 1
  /\ UNCHANGED <<poll, request, current_record_count, temp_can_buffer, written, ring, line>>

ReceiveSpace ==
  /\ poll = "receive" /\ Wants /\ ring # <<>> /\ Head(ring) = "space"
  /\ ring' = Tail(ring)
  /\ UNCHANGED <<pollVars, line>>

ReceiveCharacter ==
  /\ poll = "receive" /\ Wants /\ ring # <<>> /\ Head(ring) # "space"
  /\ ring' = Tail(ring)
  /\ temp_can_buffer' = [temp_can_buffer EXCEPT ![current_record_count][i] = Head(ring)]
  /\ written' = written \cup {current_record_count}
  /\ i' = i + 1
  /\ UNCHANGED <<poll, request, current_record_count, line>>

\* A record whose first byte is not zero counts, whoever wrote it and when.
Judge ==
  /\ poll = "receive" /\ ~Wants
  /\ poll' = "request"
  /\ request' = request + 1
  /\ current_record_count' =
       IF temp_can_buffer[current_record_count][1] # "zero"
       THEN current_record_count + 1 ELSE current_record_count
  /\ UNCHANGED <<i, temp_can_buffer, written, ring, line>>

Poll == \/ Begin \/ Clear \/ Request \/ Return \/ Judge
        \/ ReceiveNothing \/ ReceiveSpace \/ ReceiveCharacter

\* The receive interrupt: store_char() drops what finds the ring full.
Arrive ==
  /\ line # <<>>
  /\ line' = Tail(line)
  /\ ring' = IF Len(ring) < RingSize THEN Append(ring, Head(line)) ELSE ring
  /\ UNCHANGED pollVars

-----------------------------------------------------------------------------
PollInit ==
  /\ poll = "idle" /\ request = 1 /\ i = 1
  /\ current_record_count = 0
  /\ temp_can_buffer = [r \in Records |-> [k \in Positions |-> "zero"]]
  /\ ring = <<>> /\ line = <<>>
  /\ written = {}

PollNext == Poll \/ Arrive

\* The main thread is scheduled for ever; the chip need not answer.
PollSpec == PollInit /\ [][PollNext]_canVars /\ WF_canVars(Poll)

-----------------------------------------------------------------------------
(* Properties                                                              *)

(* Types; and the record receive() stores into exists: the count never     *)
(* runs ahead of the requests, whatever earlier polls left in the records  *)
(* that are counted without an answer.                                     *)
PollTypeOK ==
  /\ poll \in {"idle", "clear", "request", "receive"}
  /\ request \in 1 .. NumPids + 1
  /\ i \in 1 .. Width + 1
  /\ current_record_count <= request - 1
  /\ current_record_count \in IF poll = "receive" THEN Records ELSE 0 .. NumPids
  /\ temp_can_buffer \in [Records -> [Positions -> {"zero", "char", "left"}]]
  /\ ring \in Seq(Characters) /\ line \in Seq(Characters)
  /\ written \subseteq Records

(* clearBuffer() works: what lay in the ring when a poll began is in no    *)
(* record of that poll, though answers keep arriving while it is drained.  *)
LeftoversDropped ==
  \A r \in written, k \in Positions : temp_can_buffer[r][k] # "left"

(* loop() comes back from the poll even when the chip never answers.       *)
PollReturns == poll = "clear" ~> poll = "idle"
=============================================================================
