----------------------------- MODULE SerialPipe -----------------------------
(***************************************************************************)
(* The serial line to the modem (electronserialpipe_hal.cpp): two rings    *)
(* (pipe_hal.h) between the thread that holds the modem's lock and the     *)
(* interrupt of the USART.  Neither side locks anything: each index is     *)
(* written by one side only, and the bits that enable the interrupt are    *)
(* changed by both, the thread reading and writing back the register.      *)
(*                                                                         *)
(* The interrupt handler is one step, since the thread does not run in it; *)
(* the thread's calls are cut at each access to what the interrupt shares. *)
(* getLine() takes from what it found when it began: which bytes make a    *)
(* line is left open.                                                      *)
(***************************************************************************)
EXTENDS Naturals, Sequences

CONSTANTS Size,        \* rxSize, txSize
          Bytes,
          Stale,       \* marks the bytes in a ring that have been read or never written
          MaxPut       \* bound: length of what put() is called with

ASSUME SizeAssumption == Size \in Nat \ {0} /\ MaxPut \in Nat /\ Stale \notin Bytes

VARIABLES
  tx, rx,      \* the rings: buffer, write index, read index
  cr,          \* the interrupt enable bits of the control register
  dr, rdr,     \* the data registers, empty or with one byte
  paused,      \* pause_: the modem is told to stop by the RTS pin
  pc,          \* where the thread is
  args,        \* what is left of the caller's bytes
  count,       \* bytes of the present memcpy(), and left of the line
  held,        \* bytes taken from a ring and not stored yet
  wrote,       \* something was put since txStart()
  snap,        \* the control register as the thread has read it
  line         \* what getLine() has read

shared == <<tx, rx, cr, dr, rdr, paused>>
vars == <<shared, pc, args, count, held, wrote, snap, line>>

Slots == Size + 1
Index == 0 .. Size
Bits == [rxne : BOOLEAN, txe : BOOLEAN]
Puts == {"put", "copy", "index", "off1", "off2", "txcopy", "senddata", "more", "on1", "on2"}
Gets == {"take", "taken", "resume1", "resume2"}
Pauses == {"pause1", "pause2"}

TypeOK ==
  /\ tx \in [buf : [Index -> Bytes \cup {Stale}], w : Index, r : Index]
  /\ rx \in [buf : [Index -> Bytes \cup {Stale}], w : Index, r : Index]
  /\ cr \in Bits /\ snap \in Bits
  /\ {Len(dr), Len(rdr)} \subseteq {0, 1}
  /\ paused \in BOOLEAN /\ wrote \in BOOLEAN
  /\ pc \in {"idle"} \cup Puts \cup Gets \cup Pauses
  /\ count \in 0 .. Size
-----------------------------------------------------------------------------
(* Pipe.                                                                   *)

\* _inc()
Inc(i, n) == IF i + n >= Slots THEN i + n - Slots ELSE i + n

\* size(), free(), readable()
Held(p) == IF p.w >= p.r THEN p.w - p.r ELSE p.w - p.r + Slots
\* Mutant: the slot that tells a full ring from an empty one is used.
FreeToTheLast(p) == Slots - Held(p)
Free(p) == Slots - Held(p) - 1
Readable(p) == p.r # p.w

Least(a, b) == IF a <= b THEN a ELSE b

\* The ring after n bytes that lie one after another have been read.
Drop(p, n) == [buf |-> [i \in Index |-> IF i \in p.r .. p.r + n - 1 THEN Stale ELSE p.buf[i]],
               w |-> p.w, r |-> Inc(p.r, n)]

\* putc(), as the interrupt calls it.
PutByte(p, b) == [buf |-> [p.buf EXCEPT ![p.w] = b], w |-> Inc(p.w, 1), r |-> p.r]

Contents(p) == [k \in 1 .. Held(p) |-> p.buf[Inc(p.r, k - 1)]]
-----------------------------------------------------------------------------
(* The thread.                                                             *)

At(l) == pc = l
Goto(l) == pc' = l

\* USART_ITConfig() reads the register in one step and writes it in another.
ReadBits(l) == /\ snap' = cr /\ Goto(l)
               /\ UNCHANGED <<shared, args, count, held, wrote, line>>
\* What was read is of no use afterwards.
AllBits == [rxne |-> TRUE, txe |-> TRUE]
WriteBits(bits) == /\ cr' = bits /\ snap' = AllBits
                   /\ UNCHANGED <<tx, rx, dr, rdr, paused, args, count, held>>

\* put(), blocking, as _send() calls it.
Send == /\ At("idle") /\ Goto("put")
        /\ \E n \in 1 .. MaxPut : args' \in [1 .. n -> Bytes]
        /\ UNCHANGED <<shared, count, held, wrote, snap, line>>

\* Pipe::put() up to its memcpy(): it stops for want of room or of bytes,
\* and txStart() follows if there were any.
Room == /\ At("put") /\ args # <<>> /\ Free(tx) > 0
        /\ count' = Least(Least(Len(args), Free(tx)), Slots - tx.w)
        /\ Goto("copy")
        /\ UNCHANGED <<shared, args, held, wrote, snap, line>>

NoRoom == /\ At("put") /\ (args = <<>> \/ Free(tx) = 0) /\ wrote
          /\ wrote' = FALSE /\ Goto("off1")
          /\ UNCHANGED <<shared, args, count, held, snap, line>>

\* "nothing / just wait"
Wait == At("put") /\ args # <<>> /\ Free(tx) = 0 /\ ~wrote /\ UNCHANGED vars

Copy == /\ At("copy") /\ Goto("index")
        /\ tx' = [tx EXCEPT !.buf = [i \in Index |->
                    IF i \in tx.w .. tx.w + count - 1 THEN args[i - tx.w + 1] ELSE @[i]]]
        /\ UNCHANGED <<rx, cr, dr, rdr, paused, args, count, held, wrote, snap, line>>

PutIndex == /\ At("index") /\ Goto("put")
            /\ tx' = [tx EXCEPT !.w = Inc(@, count)]
            /\ args' = SubSeq(args, count + 1, Len(args))
            /\ wrote' = TRUE /\ count' = 0
            /\ UNCHANGED <<rx, cr, dr, rdr, paused, held, snap, line>>

\* txStart()
TxOff == \/ At("off1") /\ ReadBits("off2")
         \/ /\ At("off2") /\ Goto("txcopy")
            /\ WriteBits([snap EXCEPT !.txe = FALSE])
            /\ UNCHANGED <<wrote, line>>

TxCopy == /\ At("txcopy")
          /\ \/ /\ Readable(tx) /\ dr = <<>>
                /\ held' = <<tx.buf[tx.r]>> /\ tx' = Drop(tx, 1)
                /\ Goto("senddata")
             \/ /\ ~(Readable(tx) /\ dr = <<>>)
                /\ Goto("more") /\ UNCHANGED <<held, tx>>
          /\ UNCHANGED <<rx, cr, dr, rdr, paused, args, count, wrote, snap, line>>

SendData == /\ At("senddata") /\ Goto("more")
            /\ dr' = held /\ held' = <<>>
            /\ UNCHANGED <<tx, rx, cr, rdr, paused, args, count, wrote, snap, line>>

\* What put() does after txStart().
Ended == IF args = <<>> THEN "idle" ELSE "put"

\* Mutant: the interrupt is enabled only at the end of the bytes.
MoreAtEnd == /\ At("more")
             /\ Goto(IF Readable(tx) /\ args = <<>> THEN "on1" ELSE Ended)
             /\ UNCHANGED <<shared, args, count, held, wrote, snap, line>>
More == /\ At("more")
        /\ Goto(IF Readable(tx) THEN "on1" ELSE Ended)
        /\ UNCHANGED <<shared, args, count, held, wrote, snap, line>>

TxOn == \/ At("on1") /\ ReadBits("on2")
        \/ /\ At("on2") /\ Goto(Ended)
           /\ WriteBits([snap EXCEPT !.txe = TRUE])
           /\ UNCHANGED <<wrote, line>>

\* getLine(): nothing recognised, or so many bytes of those it has seen.
GetLine ==
  /\ At("idle") /\ count' \in 0 .. Held(rx) /\ Goto(IF count' = 0 THEN "resume1" ELSE "take")
  /\ UNCHANGED <<shared, args, held, wrote, snap, line>>

\* Pipe::get(), up to the end of the buffer, then from its beginning.
Take == /\ At("take") /\ Goto("taken")
        /\ LET n == Least(Least(count, Held(rx)), Slots - rx.r)
           IN held' = [k \in 1 .. n |-> rx.buf[rx.r + k - 1]]
        /\ UNCHANGED <<shared, args, count, wrote, snap, line>>

\* Mutant: the receiver is not resumed.
TakenOnly == /\ At("taken")
             /\ rx' = Drop(rx, Len(held))
             /\ count' = count - Len(held)
             /\ line' = <<>> /\ held' = <<>>
             /\ Goto(IF count' = 0 THEN "idle" ELSE "take")
             /\ UNCHANGED <<tx, cr, dr, rdr, paused, args, wrote, snap>>
Taken == /\ At("taken")
         /\ rx' = Drop(rx, Len(held))
         /\ count' = count - Len(held)
         /\ line' = line \o held /\ held' = <<>>
         /\ Goto(IF count' = 0 THEN "resume1" ELSE "take")
         /\ UNCHANGED <<tx, cr, dr, rdr, paused, args, wrote, snap>>

\* rxResume(), at the end of getLine() and for resumeRecv().
Resume == \/ /\ At("resume1") /\ paused' = FALSE /\ snap' = cr /\ Goto("resume2")
             /\ UNCHANGED <<tx, rx, cr, dr, rdr, args, count, held, wrote, line>>
          \/ /\ At("resume2") /\ Goto("idle")
             /\ WriteBits([snap EXCEPT !.rxne = TRUE])
             /\ line' = <<>> /\ UNCHANGED wrote

ResumeRecv == /\ At("idle") /\ Goto("resume1")
              /\ UNCHANGED <<shared, args, count, held, wrote, snap, line>>

\* rxPause()
Pause == \/ /\ At("idle") /\ paused' = TRUE /\ Goto("pause1")
            /\ UNCHANGED <<tx, rx, cr, dr, rdr, args, count, held, wrote, snap, line>>
         \/ At("pause1") /\ ReadBits("pause2")
         \/ /\ At("pause2") /\ Goto("idle")
            /\ WriteBits([snap EXCEPT !.rxne = FALSE])
            /\ UNCHANGED <<wrote, line>>

PutStep == Room \/ NoRoom \/ Wait \/ Copy \/ PutIndex \/ TxOff \/ TxCopy \/ SendData \/ More \/ TxOn
GetStep == Take \/ Taken \/ Resume
-----------------------------------------------------------------------------
(* The interrupt and the hardware.                                         *)

RxReady == cr.rxne /\ rdr # <<>>
TxReady == cr.txe /\ dr = <<>>

\* HAL_USART3_Handler_Impl(): rxIrqBuf() and txIrqBuf(), each if its bit is
\* enabled and its register ready.  Mutant: the transmitter is always off
\* after a byte.
RxIrq == IF RxReady /\ Free(rx) > 0
         THEN rx' = PutByte(rx, rdr[1]) /\ rdr' = <<>>
         ELSE UNCHANGED <<rx, rdr>>
TxIrq == IF TxReady /\ Readable(tx)
         THEN tx' = Drop(tx, 1) /\ dr' = <<tx.buf[tx.r]>>
         ELSE UNCHANGED <<tx, dr>>
BitsAfterOff == [cr EXCEPT !.txe = ~TxReady /\ @]
BitsAfter == [rxne |-> cr.rxne /\ ~(RxReady /\ Free(rx) = 0),
              txe |-> cr.txe /\ ~(TxReady /\ tx'.r = tx'.w)]

Irq == /\ RxReady \/ TxReady
       /\ RxIrq /\ TxIrq /\ cr' = BitsAfter
       /\ UNCHANGED <<paused, pc, args, count, held, wrote, snap, line>>

\* A byte goes out, when the modem is ready for it (CTS).
Shift == /\ dr # <<>> /\ dr' = <<>>
         /\ UNCHANGED <<tx, rx, cr, rdr, paused, pc, args, count, held, wrote, snap, line>>

\* A byte comes in.  The USART raises RTS while its register is full.
Arrive == /\ rdr = <<>> /\ ~paused
          /\ \E b \in Bytes : rdr' = <<b>>
          /\ UNCHANGED <<tx, rx, cr, dr, paused, pc, args, count, held, wrote, snap, line>>
-----------------------------------------------------------------------------
\* After begin(): both interrupts are enabled.
Init == /\ tx = [buf |-> [i \in Index |-> Stale], w |-> 0, r |-> 0] /\ rx = tx
        /\ cr = AllBits /\ snap = AllBits
        /\ dr = <<>> /\ rdr = <<>> /\ paused = FALSE
        /\ pc = "idle" /\ args = <<>> /\ count = 0 /\ held = <<>> /\ wrote = FALSE
        /\ line = <<>>

Next == \/ Send \/ GetLine \/ ResumeRecv \/ Pause
        \/ PutStep \/ GetStep
        \/ Irq \/ Shift \/ Arrive

\* The thread and the interrupt run; the modem takes what is sent to it.
Spec == /\ Init /\ [][Next]_vars
        /\ WF_vars(PutStep) /\ WF_vars(GetStep) /\ WF_vars(Irq) /\ WF_vars(Shift)
        /\ WF_vars(At("pause1") /\ Pause) /\ WF_vars(At("pause2") /\ Pause)
-----------------------------------------------------------------------------
(* Properties.                                                             *)

Outgoing == INSTANCE Stream WITH Bytes <- Bytes, Capacity <- Size,
              source <- args, buffer <- Contents(tx), sink <- dr \o (IF pc \in Puts THEN held ELSE <<>>)
Incoming == INSTANCE Stream WITH Bytes <- Bytes, Capacity <- Size,
              source <- rdr, buffer <- Contents(rx), sink <- line

\* Each ring is a bounded stream between the thread and the interrupt
\* (pipe_hal.h:32, "safely written and read between two context"): no byte is
\* lost, doubled, overwritten or out of order, wherever the interrupt comes in.
StreamsImplemented == Outgoing!StreamSpec /\ Incoming!StreamSpec

\* No wake-up of the transmitter is lost (electronserialpipe_hal.cpp:190):
\* bytes left in the ring, when the thread no longer sees to them, have the
\* interrupt enabled, though both sides change the register it is enabled in.
TxArmed == pc = "idle" /\ Readable(tx) => cr.txe

\* Nor one of the receiver (electronserialpipe_hal.cpp:224): outside the
\* thread's calls its interrupt is off only while the ring is full or the
\* receiver paused.
RxArmed == pc = "idle" /\ ~cr.rxne => Free(rx) = 0 \/ paused

\* A blocking put() returns, however little room there was (:151), and so do
\* the other calls.
CallsReturn == pc # "idle" ~> pc = "idle"
=============================================================================
