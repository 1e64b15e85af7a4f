-------------------------- MODULE SerialPipe_proofs --------------------------
(***************************************************************************)
(* For rings of every size: the indices stay in the ring, no wake-up of    *)
(* the transmitter or the receiver is lost, and both directions implement  *)
(* Stream.                                                                 *)
(***************************************************************************)
EXTENDS SerialPipe, SequenceTheorems, TLAPS

Cells == Bytes \cup {Stale}

\* What the thread carries from one step to the next.
LocalsOK ==
  /\ args \in Seq(Bytes) /\ held \in Seq(Cells)
  /\ dr \in Seq(Cells) /\ rdr \in Seq(Bytes)
  /\ pc \in {"copy", "index"} => count <= Len(args) /\ count <= Slots - tx.w
  /\ pc = "senddata" => Len(held) = 1
  /\ pc = "taken" => Len(held) <= count /\ Len(held) <= Slots - rx.r

\* Where the thread has nothing left to do for the transmitter: bytes in the
\* ring have it enabled, and what was read of the register says so too.
TxInv ==
  /\ (Readable(tx) /\ (pc \in {"idle"} \cup Gets \cup Pauses
                       \/ (pc \in {"put", "copy", "index"} /\ ~wrote)))
       => cr.txe
  /\ Readable(tx) /\ pc \in {"resume2", "pause2"} => snap.txe

\* Outside getLine() and rxResume(): the receiver, likewise.
RxInv ==
  /\ pc \in {"idle"} \cup Puts \cup Pauses /\ ~cr.rxne => Free(rx) = 0 \/ paused
  /\ pc \in {"off2", "on2"} /\ ~snap.rxne => Free(rx) = 0 \/ paused
  /\ pc \in Pauses => paused

Inv == TypeOK /\ LocalsOK /\ TxInv /\ RxInv

\* The invariant holds after begin().
LEMMA InitInv == Init => Inv
<1> SUFFICES ASSUME Init PROVE Inv
  OBVIOUS
<1>1. 0 \in Index /\ Slots \in Nat
  BY SizeAssumption DEF Index, Slots
<1>2. tx.w = 0 /\ tx.r = 0 /\ rx.w = 0 /\ rx.r = 0
  BY DEF Init
<1>3. TypeOK
  <2>1. tx \in [buf : [Index -> Bytes \cup {Stale}], w : Index, r : Index] /\ rx = tx
    BY <1>1 DEF Init
  <2>2. cr \in Bits /\ snap \in Bits
    BY DEF Init, AllBits, Bits
  <2>3. Len(dr) = 0 /\ Len(rdr) = 0
    BY DEF Init
  <2>4. count \in 0 .. Size
    BY SizeAssumption DEF Init
  <2> QED
    BY <2>1, <2>2, <2>3, <2>4 DEF Init, TypeOK
<1>4. LocalsOK
  BY DEF Init, LocalsOK
<1>5. TxInv
  BY <1>2 DEF Init, TxInv, Readable
<1>6. RxInv
  BY DEF Init, RxInv, AllBits, Pauses
<1> QED
  BY <1>3, <1>4, <1>5, <1>6 DEF Inv

\* An index that is moved by no more than what is left of the buffer stays in it.
LEMMA IncInRing ==
  ASSUME NEW i \in Index, NEW n \in Nat, n <= Slots - i
  PROVE  Inc(i, n) \in Index
BY SizeAssumption DEF Index, Slots, Inc

\* What free() returns, and that it is 0 exactly when writeable() fails.
LEMMA FreeInRange ==
  ASSUME NEW p, p.w \in Index, p.r \in Index
  PROVE  /\ Held(p) \in 0 .. Size /\ Free(p) \in 0 .. Size
         /\ Free(p) = 0 <=> ~(Free(p) > 0)
BY SizeAssumption DEF Held, Free, Index, Slots

Rings == [buf : [Index -> Cells], w : Index, r : Index]

\* A ring from which bytes have been read is one.
LEMMA DropInRing ==
  ASSUME NEW p \in Rings, NEW n \in Nat, n <= Slots - p.r
  PROVE  /\ Drop(p, n) \in Rings
         /\ Drop(p, n).w = p.w /\ Drop(p, n).r = Inc(p.r, n)
<1>1. Inc(p.r, n) \in Index
  BY IncInRing DEF Rings
<1> QED
  BY <1>1 DEF Drop, Rings, Cells

\* One byte can always be read.
LEMMA OneInRing == ASSUME NEW i \in Index PROVE 1 <= Slots - i
BY SizeAssumption DEF Index, Slots

\* So is a ring with a byte more.
LEMMA PutByteInRing ==
  ASSUME NEW p \in Rings, NEW b \in Bytes
  PROVE  PutByte(p, b) \in Rings
<1>1. Inc(p.w, 1) \in Index
  BY IncInRing, OneInRing DEF Rings
<1> QED
  BY <1>1 DEF PutByte, Rings, Cells

\* What is copied out of a sequence or a ring is one.
LEMMA ListedIsSeq ==
  ASSUME NEW S, NEW n \in Nat, NEW f \in [1 .. n -> S]
  PROVE  f \in Seq(S) /\ Len(f) = n
BY IsASeq, LenProperties
-----------------------------------------------------------------------------
(* The actions keep the types; one lemma for each side.                    *)

\* A step that touches only the register and the thread's place.
LEMMA BitsStep ==
  ASSUME TypeOK, LocalsOK, UNCHANGED <<tx, rx, dr, rdr, args, count, held, wrote>>,
         cr' \in Bits, snap' \in Bits, paused' \in BOOLEAN,
         pc' \in {"idle"} \cup Puts \cup Gets \cup Pauses,
         pc' \notin {"copy", "index", "senddata", "taken"}
  PROVE  TypeOK' /\ LocalsOK'
<1>1. TypeOK'
  BY DEF TypeOK
<1> QED
  BY <1>1 DEF LocalsOK

\* What the thread does to the bits.
LEMMA BitsKept ==
  ASSUME NEW b \in Bits, NEW x \in BOOLEAN
  PROVE  [b EXCEPT !.txe = x] \in Bits /\ [b EXCEPT !.rxne = x] \in Bits /\ AllBits \in Bits
BY DEF Bits, AllBits

\* The steps of put() keep the types.
LEMMA TypePut == TypeOK /\ LocalsOK /\ (Send \/ PutStep) => TypeOK' /\ LocalsOK'
<1> SUFFICES ASSUME TypeOK, LocalsOK, Send \/ PutStep PROVE TypeOK' /\ LocalsOK'
  OBVIOUS
<1> USE DEF At, Goto, shared
<1>r. tx \in Rings /\ rx \in Rings /\ Rings = [buf : [Index -> Cells], w : Index, r : Index]
  BY DEF TypeOK, Rings, Cells
<1>s. Slots \in Nat /\ Slots - tx.w \in Nat \ {0}
  BY <1>r, SizeAssumption DEF Slots, Index, Rings
<1>1. CASE Send
  <2>1. args' \in Seq(Bytes)
    BY <1>1, ListedIsSeq, SizeAssumption DEF Send
  <2> QED
    BY <1>1, <2>1 DEF Send, TypeOK, LocalsOK, Puts
<1>2. CASE Room
  <2>1. Free(tx) \in 0 .. Size /\ Free(tx) > 0 /\ Len(args) \in Nat \ {0}
    BY <1>2, <1>r, FreeInRange DEF Room, Rings, LocalsOK
  <2>2. count' \in 0 .. Size /\ count' <= Len(args) /\ count' <= Slots - tx.w
    BY <1>2, <1>s, <2>1, SizeAssumption DEF Room, Least
  <2> QED
    BY <1>2, <2>2 DEF Room, TypeOK, LocalsOK, Puts
<1>3. CASE NoRoom
  BY <1>3 DEF NoRoom, TypeOK, LocalsOK, Puts
<1>4. CASE Wait
  BY <1>4 DEF Wait, vars, TypeOK, LocalsOK
<1>5. CASE Copy
  <2>1. ASSUME NEW i \in Index, i \in tx.w .. tx.w + count - 1
        PROVE  args[i - tx.w + 1] \in Bytes
    BY <1>5, <1>r, <2>1, SizeAssumption DEF Copy, LocalsOK, TypeOK, Index, Rings
  <2>2. tx' \in Rings /\ tx'.w = tx.w
    BY <1>5, <1>r, <2>1 DEF Copy, Cells
  <2>3. pc' = "index" /\ UNCHANGED <<rx, cr, dr, rdr, paused, args, count, held, wrote, snap, line>>
    BY <1>5 DEF Copy
  <2>4. TypeOK'
    BY <2>2, <2>3 DEF TypeOK, Puts, Rings, Cells
  <2>5. LocalsOK'
    BY <1>5, <2>2, <2>3 DEF LocalsOK, Copy
  <2> QED
    BY <2>4, <2>5
<1>6. CASE PutIndex
  <2>1. count \in Nat /\ count <= Len(args) /\ count <= Slots - tx.w /\ args \in Seq(Bytes)
    BY <1>6, SizeAssumption DEF PutIndex, LocalsOK, TypeOK
  <2>2. Inc(tx.w, count) \in Index
    BY <1>r, <2>1, IncInRing DEF Rings
  <2>3. tx' \in Rings
    BY <1>6, <1>r, <2>2 DEF PutIndex
  <2>4. args' \in Seq(Bytes)
    BY <1>6, <2>1, SubSeqProperties, LenProperties DEF PutIndex
  <2>5. pc' = "put" /\ wrote' = TRUE /\ count' = 0 /\ UNCHANGED <<rx, cr, dr, rdr, paused, held, snap, line>>
    BY <1>6 DEF PutIndex
  <2>6. TypeOK'
    BY <2>3, <2>5, SizeAssumption DEF TypeOK, Puts, Rings, Cells
  <2> QED
    BY <2>4, <2>5, <2>6 DEF LocalsOK
<1>7. CASE TxOff
  <2>1. cr' \in Bits /\ snap' \in Bits /\ paused' \in BOOLEAN
    BY <1>7, BitsKept DEF TxOff, ReadBits, WriteBits, TypeOK
  <2>2. UNCHANGED <<tx, rx, dr, rdr, args, count, held, wrote>>
    BY <1>7 DEF TxOff, ReadBits, WriteBits
  <2>3. pc' \in {"off2", "txcopy"}
    BY <1>7 DEF TxOff, ReadBits, WriteBits
  <2> QED
    BY <2>1, <2>2, <2>3, BitsStep DEF Puts, Gets, Pauses
<1>8. CASE TxCopy
  <2>1. CASE Readable(tx) /\ dr = <<>>
    <3>1. tx' = Drop(tx, 1) /\ held' = <<tx.buf[tx.r]>> /\ pc' = "senddata"
          /\ UNCHANGED <<rx, cr, dr, rdr, paused, args, count, wrote, snap, line>>
      BY <1>8, <2>1 DEF TxCopy
    <3>2. tx' \in Rings
      BY <1>r, <3>1, DropInRing, OneInRing DEF Rings
    <3>3. held' \in Seq(Cells) /\ Len(held') = 1
      BY <1>r, <3>1 DEF Rings
    <3>4. TypeOK'
      BY <3>1, <3>2 DEF TypeOK, Puts, Rings, Cells
    <3> QED
      BY <3>1, <3>3, <3>4 DEF LocalsOK
  <2>2. CASE ~(Readable(tx) /\ dr = <<>>)
    BY <1>8, <2>2 DEF TxCopy, TypeOK, LocalsOK, Puts
  <2> QED
    BY <2>1, <2>2
<1>9. CASE SendData
  BY <1>9 DEF SendData, TypeOK, LocalsOK, Puts
<1>10. CASE More
  BY <1>10 DEF More, Ended, TypeOK, LocalsOK, Puts
<1>11. CASE TxOn
  <2>1. cr' \in Bits /\ snap' \in Bits /\ paused' \in BOOLEAN
    BY <1>11, BitsKept DEF TxOn, ReadBits, WriteBits, Ended, TypeOK
  <2>2. UNCHANGED <<tx, rx, dr, rdr, args, count, held, wrote>>
    BY <1>11 DEF TxOn, ReadBits, WriteBits, Ended
  <2>3. pc' \in {"on2", "idle", "put"}
    BY <1>11 DEF TxOn, ReadBits, WriteBits, Ended
  <2> QED
    BY <2>1, <2>2, <2>3, BitsStep DEF Puts, Gets, Pauses
<1> QED
  BY <1>1, <1>2, <1>3, <1>4, <1>5, <1>6, <1>7, <1>8, <1>9, <1>10, <1>11 DEF PutStep

\* So do those of getLine(), resume and pause.
LEMMA TypeGet == TypeOK /\ LocalsOK /\ (GetLine \/ ResumeRecv \/ GetStep \/ Pause) => TypeOK' /\ LocalsOK'
<1> SUFFICES ASSUME TypeOK, LocalsOK, GetLine \/ ResumeRecv \/ GetStep \/ Pause PROVE TypeOK' /\ LocalsOK'
  OBVIOUS
<1> USE DEF At, Goto, shared
<1>r. rx \in Rings /\ Rings = [buf : [Index -> Cells], w : Index, r : Index]
  BY DEF TypeOK, Rings, Cells
<1>s. Held(rx) \in 0 .. Size
  BY <1>r, FreeInRange DEF Rings
<1>1. CASE GetLine
  BY <1>1, <1>s, SizeAssumption DEF GetLine, TypeOK, LocalsOK, Gets
<1>2. CASE ResumeRecv
  BY <1>2 DEF ResumeRecv, TypeOK, LocalsOK, Gets
<1>3. CASE Take
  <2> DEFINE n == Least(Least(count, Held(rx)), Slots - rx.r)
  <2>1. n \in Nat /\ n <= count /\ n <= Slots - rx.r
    BY <1>r, <1>s, SizeAssumption DEF Least, TypeOK, Slots, Index, Rings
  <2> HIDE DEF n
  <2>2. ASSUME NEW k \in 1 .. n PROVE rx.buf[rx.r + k - 1] \in Cells
    <3>1. rx.r + k - 1 \in Index
      BY <1>r, <2>1, SizeAssumption DEF Index, Slots, Rings
    <3> QED
      BY <1>r, <3>1
  <2>3. held' = [k \in 1 .. n |-> rx.buf[rx.r + k - 1]]
    BY <1>3 DEF Take, n
  <2>4. held' \in Seq(Cells) /\ Len(held') = n
    BY <2>1, <2>2, <2>3, ListedIsSeq
  <2> QED
    BY <1>3, <2>1, <2>4 DEF Take, TypeOK, LocalsOK, Gets
<1>4. CASE Taken
  <2>1. Len(held) \in Nat /\ Len(held) <= count /\ Len(held) <= Slots - rx.r /\ count \in 0 .. Size
    BY <1>4, LenProperties DEF Taken, LocalsOK, TypeOK
  <2>2. rx' \in Rings
    BY <1>4, <1>r, <2>1, DropInRing DEF Taken
  <2>3. count' \in 0 .. Size
    BY <1>4, <2>1, SizeAssumption DEF Taken
  <2>4. held' = <<>> /\ pc' \in {"resume1", "take"} /\ UNCHANGED <<tx, cr, dr, rdr, paused, args, wrote, snap>>
    BY <1>4 DEF Taken
  <2>5. TypeOK'
    BY <2>2, <2>3, <2>4 DEF TypeOK, Gets, Rings, Cells
  <2> QED
    BY <2>4, <2>5 DEF LocalsOK
<1>5. CASE Resume
  <2>1. cr' \in Bits /\ snap' \in Bits /\ paused' \in BOOLEAN
    BY <1>5, BitsKept DEF Resume, WriteBits, TypeOK
  <2>2. UNCHANGED <<tx, rx, dr, rdr, args, count, held, wrote>>
    BY <1>5 DEF Resume, WriteBits
  <2>3. pc' \in {"resume2", "idle"}
    BY <1>5 DEF Resume, WriteBits
  <2> QED
    BY <2>1, <2>2, <2>3, BitsStep DEF Puts, Gets, Pauses
<1>6. CASE Pause
  <2>1. cr' \in Bits /\ snap' \in Bits /\ paused' \in BOOLEAN
    BY <1>6, BitsKept DEF Pause, ReadBits, WriteBits, TypeOK
  <2>2. UNCHANGED <<tx, rx, dr, rdr, args, count, held, wrote>>
    BY <1>6 DEF Pause, ReadBits, WriteBits
  <2>3. pc' \in {"pause1", "pause2", "idle"}
    BY <1>6 DEF Pause, ReadBits, WriteBits
  <2> QED
    BY <2>1, <2>2, <2>3, BitsStep DEF Puts, Gets, Pauses
<1> QED
  BY <1>1, <1>2, <1>3, <1>4, <1>5, <1>6 DEF GetStep

\* So do the interrupt and the hardware.
LEMMA TypeIrq == TypeOK /\ LocalsOK /\ (Irq \/ Shift \/ Arrive) => TypeOK' /\ LocalsOK'
<1> SUFFICES ASSUME TypeOK, LocalsOK, Irq \/ Shift \/ Arrive PROVE TypeOK' /\ LocalsOK'
  OBVIOUS
<1>r. tx \in Rings /\ rx \in Rings /\ Rings = [buf : [Index -> Cells], w : Index, r : Index]
  BY DEF TypeOK, Rings, Cells
<1>1. CASE Irq
  <2>1. rx' \in Rings /\ rdr' \in Seq(Bytes) /\ Len(rdr') \in {0, 1} /\ rx'.r = rx.r
    <3>1. CASE RxReady /\ Free(rx) > 0
      <4>1. rdr[1] \in Bytes
        BY <3>1 DEF RxReady, LocalsOK, TypeOK
      <4>2. rx' = PutByte(rx, rdr[1]) /\ rdr' = <<>>
        BY <1>1, <3>1 DEF Irq, RxIrq
      <4>3. rx'.r = rx.r
        BY <4>2 DEF PutByte
      <4> QED
        BY <1>r, <4>1, <4>2, <4>3, PutByteInRing
    <3>2. CASE ~(RxReady /\ Free(rx) > 0)
      BY <1>1, <1>r, <3>2 DEF Irq, RxIrq, LocalsOK, TypeOK
    <3> QED
      BY <3>1, <3>2
  <2>2. tx' \in Rings /\ tx'.w = tx.w /\ dr' \in Seq(Cells) /\ Len(dr') \in {0, 1}
    <3>1. CASE TxReady /\ Readable(tx)
      <4>1. tx' = Drop(tx, 1) /\ dr' = <<tx.buf[tx.r]>>
        BY <1>1, <3>1 DEF Irq, TxIrq
      <4>2. tx.buf[tx.r] \in Cells /\ tx.r \in Index
        BY <1>r
      <4>3. dr' \in Seq(Cells) /\ Len(dr') = 1
        BY <4>1, <4>2
      <4>4. tx' \in Rings /\ tx'.w = tx.w
        BY <1>r, <4>1, <4>2, DropInRing, OneInRing
      <4> QED
        BY <4>3, <4>4
    <3>2. CASE ~(TxReady /\ Readable(tx))
      BY <1>1, <1>r, <3>2 DEF Irq, TxIrq, LocalsOK, TypeOK
    <3> QED
      BY <3>1, <3>2
  <2>3. UNCHANGED <<paused, pc, args, count, held, wrote, snap, line>>
    BY <1>1 DEF Irq
  <2>4. cr' \in Bits
    <3>1. cr' = [rxne |-> cr.rxne /\ ~(RxReady /\ Free(rx) = 0),
                 txe |-> cr.txe /\ ~(TxReady /\ tx'.r = tx'.w)]
      BY <1>1 DEF Irq, BitsAfter
    <3>2. (cr.rxne /\ ~(RxReady /\ Free(rx) = 0)) \in BOOLEAN
          /\ (cr.txe /\ ~(TxReady /\ tx'.r = tx'.w)) \in BOOLEAN
      OBVIOUS
    <3> QED
      BY <3>1, <3>2, Zenon DEF Bits
  <2>5. TypeOK'
    BY <1>r, <2>1, <2>2, <2>3, <2>4 DEF TypeOK, Rings, Cells
  <2> QED
    BY <2>1, <2>2, <2>3, <2>5 DEF LocalsOK
<1>2. CASE Shift
  BY <1>2 DEF Shift, TypeOK, LocalsOK
<1>3. CASE Arrive
  BY <1>3 DEF Arrive, TypeOK, LocalsOK
<1> QED
  BY <1>1, <1>2, <1>3

\* Every step keeps the types.
LEMMA TypeStep == Inv /\ [Next]_vars => TypeOK' /\ LocalsOK'
<1> SUFFICES ASSUME Inv, [Next]_vars PROVE TypeOK' /\ LocalsOK'
  OBVIOUS
<1>1. CASE UNCHANGED vars
  BY <1>1 DEF Inv, vars, shared, TypeOK, LocalsOK
<1>2. CASE Next
  BY <1>2, TypePut, TypeGet, TypeIrq DEF Inv, Next
<1> QED
  BY <1>1, <1>2
-----------------------------------------------------------------------------
(* The wake-ups.                                                           *)

\* The interrupt may disable a bit but never enables one; it disables the
\* transmitter's only with an empty ring and the receiver's only with a full
\* one, and puts nothing into the transmitter's ring.
LEMMA IrqDisables ==
  ASSUME Inv, Irq
  PROVE  /\ cr'.txe => cr.txe
         /\ Readable(tx') => Readable(tx) /\ (cr.txe => cr'.txe)
         /\ cr.rxne /\ ~cr'.rxne => Free(rx') = 0
         /\ Free(rx) = 0 \/ ~cr.rxne => rx' = rx
<1>1. cr' = [rxne |-> cr.rxne /\ ~(RxReady /\ Free(rx) = 0),
             txe |-> cr.txe /\ ~(TxReady /\ tx'.r = tx'.w)]
  BY DEF Irq, BitsAfter
<1>2. /\ cr'.rxne = (cr.rxne /\ ~(RxReady /\ Free(rx) = 0))
      /\ cr'.txe = (cr.txe /\ ~(TxReady /\ tx'.r = tx'.w))
  BY <1>1, Zenon
<1>3. Readable(tx') => Readable(tx)
  <2>1. CASE TxReady /\ Readable(tx)
    BY <2>1
  <2>2. CASE ~(TxReady /\ Readable(tx))
    BY <2>2 DEF Irq, TxIrq
  <2> QED
    BY <2>1, <2>2
<1>4. Free(rx) = 0 \/ ~cr.rxne => rx' = rx
  <2>1. rx.w \in Index /\ rx.r \in Index
    BY DEF Inv, TypeOK
  <2>2. Free(rx) = 0 => ~(Free(rx) > 0)
    BY <2>1, FreeInRange
  <2> QED
    BY <2>2 DEF Irq, RxIrq, RxReady
<1>5. cr.rxne /\ ~cr'.rxne => Free(rx') = 0
  BY <1>2, <1>4, Zenon
<1> QED
  BY <1>2, <1>3, <1>4, <1>5 DEF Readable

\* Every step keeps the transmitter's wake-up.
LEMMA TxStep == Inv /\ [Next]_vars => TxInv'
<1> SUFFICES ASSUME Inv, [Next]_vars PROVE TxInv'
  OBVIOUS
<1> USE DEF At, Goto, shared, Puts, Gets, Pauses
<1>1. TxInv /\ cr \in Bits /\ snap \in Bits /\ pc \in {"idle"} \cup Puts \cup Gets \cup Pauses
  BY DEF Inv, TypeOK
<1>2. CASE Send \/ GetLine \/ ResumeRecv
  BY <1>1, <1>2 DEF Send, GetLine, ResumeRecv, TxInv
<1>3. CASE Room \/ NoRoom \/ Wait \/ Copy \/ PutIndex
  <2>1. CASE Room \/ NoRoom \/ Wait \/ PutIndex
    BY <1>1, <2>1 DEF Room, NoRoom, Wait, PutIndex, vars, TxInv
  <2>2. CASE Copy
    <3>1. tx'.w = tx.w /\ tx'.r = tx.r
      BY <2>2 DEF Copy, Inv, TypeOK
    <3> QED
      BY <1>1, <2>2, <3>1 DEF Copy, TxInv, Readable
  <2> QED
    BY <1>3, <2>1, <2>2
<1>4. CASE TxOff \/ TxCopy \/ SendData
  BY <1>1, <1>4 DEF TxOff, ReadBits, WriteBits, TxCopy, SendData, TxInv
<1>5. CASE More
  BY <1>1, <1>5 DEF More, Ended, TxInv
<1>6. CASE TxOn
  <2>1. CASE pc = "on1"
    BY <1>6, <2>1 DEF TxOn, ReadBits, TxInv
  <2>2. CASE pc = "on2"
    <3>1. cr'.txe = TRUE /\ pc' \in {"idle", "put"}
      BY <1>1, <1>6, <2>2 DEF TxOn, WriteBits, Ended, Bits
    <3> QED
      BY <3>1 DEF TxInv
  <2> QED
    BY <1>6, <2>1, <2>2 DEF TxOn
<1>7. CASE Take \/ Taken
  BY <1>1, <1>7 DEF Take, Taken, TxInv
<1>8. CASE Resume
  <2>1. CASE pc = "resume1"
    BY <1>1, <1>8, <2>1 DEF Resume, TxInv
  <2>2. CASE pc = "resume2"
    <3>1. cr'.txe = snap.txe /\ pc' = "idle" /\ tx' = tx
      BY <1>1, <1>8, <2>2 DEF Resume, WriteBits, Bits
    <3> QED
      BY <1>1, <2>2, <3>1 DEF TxInv
  <2> QED
    BY <1>8, <2>1, <2>2 DEF Resume
<1>9. CASE Pause
  <2>1. CASE pc \in {"idle", "pause1"}
    BY <1>1, <1>9, <2>1 DEF Pause, ReadBits, TxInv
  <2>2. CASE pc = "pause2"
    <3>1. cr'.txe = snap.txe /\ pc' = "idle" /\ tx' = tx
      BY <1>1, <1>9, <2>2 DEF Pause, WriteBits, Bits
    <3> QED
      BY <1>1, <2>2, <3>1 DEF TxInv
  <2> QED
    BY <1>9, <2>1, <2>2 DEF Pause
<1>10. CASE Irq
  <2>1. UNCHANGED <<pc, wrote, snap>>
    BY <1>10 DEF Irq
  <2> QED
    BY <1>1, <1>10, <2>1, IrqDisables DEF TxInv
<1>11. CASE Shift \/ Arrive
  BY <1>1, <1>11 DEF Shift, Arrive, TxInv
<1>12. CASE UNCHANGED vars
  BY <1>1, <1>12 DEF vars, TxInv
<1> QED
  BY <1>2, <1>3, <1>4, <1>5, <1>6, <1>7, <1>8, <1>9, <1>10, <1>11, <1>12 DEF Next, PutStep, GetStep

\* Every step keeps the receiver's.
LEMMA RxStep == Inv /\ [Next]_vars => RxInv'
<1> SUFFICES ASSUME Inv, [Next]_vars PROVE RxInv'
  OBVIOUS
<1> USE DEF At, Goto, shared, Puts, Gets, Pauses
<1>1. RxInv /\ cr \in Bits /\ snap \in Bits /\ pc \in {"idle"} \cup Puts \cup Gets \cup Pauses
  BY DEF Inv, TypeOK
<1>2. CASE Send \/ GetLine \/ ResumeRecv
  BY <1>1, <1>2 DEF Send, GetLine, ResumeRecv, RxInv
<1>3. CASE Room \/ NoRoom \/ Wait \/ Copy \/ PutIndex
  BY <1>1, <1>3 DEF Room, NoRoom, Wait, Copy, PutIndex, vars, RxInv
<1>4. CASE TxCopy \/ SendData \/ More
  BY <1>1, <1>4 DEF TxCopy, SendData, More, Ended, RxInv
<1>5. CASE TxOff \/ TxOn
  <2>1. CASE pc \in {"off1", "on1"}
    BY <1>1, <1>5, <2>1 DEF TxOff, TxOn, ReadBits, RxInv
  <2>2. CASE pc \in {"off2", "on2"}
    <3>1. cr'.rxne = snap.rxne /\ pc' \in {"txcopy", "idle", "put"} /\ UNCHANGED <<rx, paused>>
      BY <1>1, <1>5, <2>2 DEF TxOff, TxOn, WriteBits, Ended, Bits
    <3> QED
      BY <1>1, <2>2, <3>1 DEF RxInv
  <2> QED
    BY <1>5, <2>1, <2>2 DEF TxOff, TxOn
<1>6. CASE Take \/ Taken
  BY <1>1, <1>6 DEF Take, Taken, RxInv
<1>7. CASE Resume
  <2>1. CASE pc = "resume1"
    BY <1>7, <2>1 DEF Resume, RxInv
  <2>2. CASE pc = "resume2"
    <3>1. cr'.rxne = TRUE /\ pc' = "idle"
      BY <1>1, <1>7, <2>2 DEF Resume, WriteBits, Bits
    <3> QED
      BY <3>1 DEF RxInv
  <2> QED
    BY <1>7, <2>1, <2>2 DEF Resume
<1>8. CASE Pause
  BY <1>1, <1>8 DEF Pause, ReadBits, WriteBits, RxInv
<1>9. CASE Irq
  <2>1. UNCHANGED <<pc, paused, snap>>
    BY <1>9 DEF Irq
  <2>2. ~cr'.rxne => Free(rx') = 0 \/ (~cr.rxne /\ rx' = rx)
    BY <1>9, IrqDisables
  <2>3. Free(rx) = 0 => Free(rx') = 0
    BY <1>9, IrqDisables
  <2> QED
    BY <1>1, <2>1, <2>2, <2>3 DEF RxInv
<1>10. CASE Shift \/ Arrive
  BY <1>1, <1>10 DEF Shift, Arrive, RxInv
<1>11. CASE UNCHANGED vars
  BY <1>1, <1>11 DEF vars, RxInv
<1> QED
  BY <1>2, <1>3, <1>4, <1>5, <1>6, <1>7, <1>8, <1>9, <1>10, <1>11 DEF Next, PutStep, GetStep
-----------------------------------------------------------------------------
(* The contents of a ring, as a sequence.                                  *)

\* The bytes between two indices.
Between(w, r) == IF w >= r THEN w - r ELSE w - r + Slots

\* Moving the write index forward in the free part makes the ring fuller; the
\* next slot to be written follows the last one to be read.
LEMMA WriteMoves ==
  ASSUME NEW w \in 0 .. Size, NEW r \in 0 .. Size, NEW n \in Nat,
         n <= Size - Between(w, r), n <= Slots - w
  PROVE  /\ Between(Inc(w, n), r) = Between(w, r) + n
         /\ \A k \in 1 .. n : Inc(r, Between(w, r) + k - 1) = w + k - 1
<1>1. Size \in Nat
  BY SizeAssumption
<1>2. Between(Inc(w, n), r) = Between(w, r) + n
  BY <1>1 DEF Between, Inc, Slots
<1>3. ASSUME NEW k \in 1 .. n PROVE Inc(r, Between(w, r) + k - 1) = w + k - 1
  BY <1>1 DEF Between, Inc, Slots
<1> QED
  BY <1>2, <1>3

\* Moving the read index over what is there makes it emptier.
LEMMA ReadMoves ==
  ASSUME NEW w \in 0 .. Size, NEW r \in 0 .. Size, NEW n \in Nat,
         n <= Between(w, r), n <= Slots - r
  PROVE  /\ Between(w, Inc(r, n)) = Between(w, r) - n
         /\ \A k \in 1 .. Between(w, r) - n :
              /\ Inc(Inc(r, n), k - 1) = Inc(r, n + k - 1)
              /\ Inc(r, n + k - 1) \in 0 .. Size
              /\ Inc(r, n + k - 1) \notin r .. r + n - 1
<1>1. Size \in Nat
  BY SizeAssumption
<1>2. Between(w, Inc(r, n)) = Between(w, r) - n
  BY <1>1 DEF Between, Inc, Slots
<1>3. ASSUME NEW k \in 1 .. Between(w, r) - n
      PROVE  /\ Inc(Inc(r, n), k - 1) = Inc(r, n + k - 1)
             /\ Inc(r, n + k - 1) \in 0 .. Size
             /\ Inc(r, n + k - 1) \notin r .. r + n - 1
  BY <1>1 DEF Between, Inc, Slots
<1> QED
  BY <1>2, <1>3

\* What lies in the ring, from the read index on.
LEMMA ContentsSeq ==
  ASSUME NEW p \in Rings
  PROVE  /\ Held(p) \in 0 .. Size /\ p.w \in Index /\ p.r \in Index
         /\ Contents(p) \in Seq(Cells) /\ Len(Contents(p)) = Held(p)
         /\ \A k \in 1 .. Held(p) : Contents(p)[k] = p.buf[Inc(p.r, k - 1)]
<1>1. p.w \in Index /\ p.r \in Index /\ p.buf \in [Index -> Cells]
  BY DEF Rings
<1>2. Held(p) \in 0 .. Size
  BY <1>1, FreeInRange
<1>3. ASSUME NEW k \in 1 .. Held(p) PROVE p.buf[Inc(p.r, k - 1)] \in Cells
  <2>1. Inc(p.r, k - 1) \in Index
    BY <1>1, <1>2, SizeAssumption DEF Inc, Index, Slots
  <2> QED
    BY <1>1, <2>1
<1>4. Contents(p) \in [1 .. Held(p) -> Cells]
  BY <1>3 DEF Contents
<1>5. Held(p) \in Nat
  BY <1>2, SizeAssumption
<1>6. Contents(p) \in Seq(Cells) /\ Len(Contents(p)) = Held(p)
  BY <1>4, <1>5, ListedIsSeq
<1> QED
  BY <1>1, <1>2, <1>6 DEF Contents

\* Two rings with the same indices and the same bytes between them.
LEMMA SameContents ==
  ASSUME NEW p \in Rings, NEW q \in Rings, q.w = p.w, q.r = p.r,
         \A k \in 1 .. Held(p) : q.buf[Inc(p.r, k - 1)] = p.buf[Inc(p.r, k - 1)]
  PROVE  Contents(q) = Contents(p)
<1>1. Held(q) = Held(p)
  BY DEF Held
<1>2. \A k \in 1 .. Held(p) : Contents(q)[k] = Contents(p)[k]
  BY <1>1, ContentsSeq
<1> QED
  BY <1>1, <1>2, ContentsSeq, SeqEqual

\* A slot that is free is not one of those that are read.
LEMMA FreeIsApart ==
  ASSUME NEW p \in Rings, NEW n \in Nat, n <= Free(p), n <= Slots - p.w,
         NEW i \in p.w .. p.w + n - 1, NEW k \in 1 .. Held(p)
  PROVE  Inc(p.r, k - 1) # i
<1>1. p.w \in Index /\ p.r \in Index
  BY DEF Rings
<1> QED
  BY <1>1, SizeAssumption DEF Free, Held, Inc, Index, Slots

\* Writing some bytes and moving the write index appends them.
LEMMA Filled ==
  ASSUME NEW p \in Rings, NEW q \in Rings, NEW s \in Seq(Cells),
         Len(s) <= Free(p), Len(s) <= Slots - p.w,
         q.w = Inc(p.w, Len(s)), q.r = p.r,
         \A k \in 1 .. Len(s) : q.buf[p.w + k - 1] = s[k],
         \A i \in Index : i \notin p.w .. p.w + Len(s) - 1 => q.buf[i] = p.buf[i]
  PROVE  /\ Held(q) = Held(p) + Len(s)
         /\ Contents(q) = Contents(p) \o s
<1> DEFINE n == Len(s)
<1>1. /\ n \in Nat /\ p.w \in Index /\ p.r \in Index
      /\ n <= Free(p) /\ n <= Slots - p.w /\ q.w = Inc(p.w, n)
  BY LenProperties DEF Rings
<1> HIDE DEF n
<1>m. /\ Held(p) = Between(p.w, p.r) /\ Held(q) = Between(Inc(p.w, n), p.r)
      /\ Between(Inc(p.w, n), p.r) = Between(p.w, p.r) + n
      /\ \A k \in 1 .. n : Inc(p.r, Between(p.w, p.r) + k - 1) = p.w + k - 1
  <2>1. Held(p) = Between(p.w, p.r) /\ Held(q) = Between(Inc(p.w, n), p.r)
    BY <1>1 DEF Held, Between
  <2>2. Between(p.w, p.r) \in Nat /\ n <= Size - Between(p.w, p.r)
    BY <1>1, <2>1, ContentsSeq, SizeAssumption DEF Free, Slots
  <2> QED
    BY <1>1, <2>1, <2>2, WriteMoves DEF Index
<1>2. Held(q) = Held(p) + n
  BY <1>m
<1>3. ASSUME NEW k \in 1 .. Held(p)
      PROVE  q.buf[Inc(p.r, k - 1)] = p.buf[Inc(p.r, k - 1)]
  <2>1. Inc(p.r, k - 1) \in Index
    BY <1>1, ContentsSeq, SizeAssumption DEF Inc, Index, Slots
  <2>2. Inc(p.r, k - 1) \notin p.w .. p.w + n - 1
    BY <1>1, FreeIsApart DEF n
  <2> QED
    BY <2>1, <2>2 DEF n
<1>4. ASSUME NEW k \in 1 .. n
      PROVE  q.buf[Inc(p.r, Held(p) + k - 1)] = s[k]
  <2>1. Inc(p.r, Held(p) + k - 1) = p.w + k - 1
    BY <1>m
  <2> QED
    BY <2>1 DEF n
<1>5. /\ Contents(p) \in Seq(Cells) /\ Len(Contents(p)) = Held(p) /\ Held(p) \in Nat
      /\ Contents(q) \in Seq(Cells) /\ Len(Contents(q)) = Held(p) + n
  BY <1>2, ContentsSeq, SizeAssumption
<1>6. /\ Contents(p) \o s \in Seq(Cells)
      /\ Len(Contents(p) \o s) = Held(p) + n
      /\ \A k \in 1 .. Held(p) + n :
           (Contents(p) \o s)[k] = IF k <= Held(p) THEN Contents(p)[k] ELSE s[k - Held(p)]
  <2>1. /\ Contents(p) \o s \in Seq(Cells)
        /\ Len(Contents(p) \o s) = Len(Contents(p)) + Len(s)
        /\ \A k \in 1 .. Len(Contents(p)) + Len(s) :
             (Contents(p) \o s)[k] =
               IF k <= Len(Contents(p)) THEN Contents(p)[k] ELSE s[k - Len(Contents(p))]
    BY <1>5, ConcatProperties
  <2> QED
    BY <1>5, <2>1 DEF n
<1>7. ASSUME NEW k \in 1 .. Held(p) + n
      PROVE  Contents(q)[k] = (Contents(p) \o s)[k]
  <2>1. Contents(q)[k] = q.buf[Inc(p.r, k - 1)]
    BY <1>2, ContentsSeq
  <2>2. CASE k <= Held(p)
    <3>1. k \in 1 .. Held(p)
      BY <1>1, <1>5, <2>2
    <3>2. Contents(p)[k] = p.buf[Inc(p.r, k - 1)]
      BY <3>1, ContentsSeq
    <3> QED
      BY <1>3, <1>6, <2>1, <2>2, <3>1, <3>2
  <2>3. CASE k > Held(p)
    <3>1. /\ k - Held(p) \in 1 .. n /\ Held(p) + (k - Held(p)) - 1 = k - 1
          /\ ~(k <= Held(p))
      BY <1>1, <1>5, <2>3
    <3>2. q.buf[Inc(p.r, k - 1)] = s[k - Held(p)]
      BY <1>4, <3>1
    <3> QED
      BY <1>6, <2>1, <3>1, <3>2
  <2>4. k <= Held(p) \/ k > Held(p)
    BY <1>1, <1>5
  <2> QED
    BY <2>2, <2>3, <2>4
<1>8. Contents(q) = Contents(p) \o s
  BY <1>5, <1>6, <1>7, SeqEqual
<1> QED
  BY <1>2, <1>8 DEF n

\* Reading some bytes that lie one after another takes them from the front.
LEMMA Emptied ==
  ASSUME NEW p \in Rings, NEW n \in 1 .. Held(p), n <= Slots - p.r
  PROVE  /\ Held(Drop(p, n)) = Held(p) - n
         /\ Contents(Drop(p, n)) = SubSeq(Contents(p), n + 1, Len(Contents(p)))
         /\ Len(SubSeq(Contents(p), 1, n)) = n
         /\ \A k \in 1 .. n : SubSeq(Contents(p), 1, n)[k] = p.buf[p.r + k - 1]
<1> DEFINE q == Drop(p, n)
           rest == SubSeq(Contents(p), n + 1, Len(Contents(p)))
<1>1. /\ p.w \in Index /\ p.r \in Index /\ Held(p) \in 0 .. Size /\ n \in Nat
      /\ Contents(p) \in Seq(Cells) /\ Len(Contents(p)) = Held(p)
  BY ContentsSeq, SizeAssumption
<1>2. /\ q \in Rings /\ q.w = p.w /\ q.r = Inc(p.r, n)
      /\ \A i \in Index : i \notin p.r .. p.r + n - 1 => q.buf[i] = p.buf[i]
  BY <1>1, DropInRing DEF Drop
<1> HIDE DEF q
<1>m. /\ Held(p) = Between(p.w, p.r) /\ Held(q) = Between(p.w, Inc(p.r, n))
      /\ Between(p.w, Inc(p.r, n)) = Between(p.w, p.r) - n
      /\ \A k \in 1 .. Held(p) - n :
           /\ Inc(Inc(p.r, n), k - 1) = Inc(p.r, n + k - 1)
           /\ Inc(p.r, n + k - 1) \in Index
           /\ Inc(p.r, n + k - 1) \notin p.r .. p.r + n - 1
  <2>1. Held(p) = Between(p.w, p.r) /\ Held(q) = Between(p.w, Inc(p.r, n))
    BY <1>2 DEF Held, Between
  <2> QED
    BY <1>1, <2>1, ReadMoves DEF Index
<1>3. Held(q) = Held(p) - n
  BY <1>m
<1>4. /\ Contents(q) \in Seq(Cells) /\ Len(Contents(q)) = Held(p) - n
      /\ \A k \in 1 .. Held(p) - n : Contents(q)[k] = q.buf[Inc(q.r, k - 1)]
  BY <1>2, <1>3, ContentsSeq
<1>5. \A k \in 1 .. Held(p) : Contents(p)[k] \in Cells
  BY <1>1, LenProperties
<1>6. /\ rest \in Seq(Cells) /\ Len(rest) = Held(p) - n
      /\ \A k \in 1 .. Held(p) - n : rest[k] = Contents(p)[n + k]
  <2>1. \A k \in n + 1 .. Held(p) : Contents(p)[k] \in Cells
    BY <1>1, <1>5
  <2>2. n + 1 \in Int /\ Held(p) \in Int /\ Held(p) - (n + 1) + 1 = Held(p) - n
    BY <1>1
  <2>3. /\ rest \in Seq(Cells)
        /\ Len(rest) = IF n + 1 <= Held(p) THEN Held(p) - (n + 1) + 1 ELSE 0
        /\ \A k \in 1 .. Held(p) - (n + 1) + 1 : rest[k] = Contents(p)[(n + 1) + k - 1]
    BY <1>1, <2>1, <2>2, SubSeqProperties
  <2> QED
    BY <1>1, <2>2, <2>3
<1>7. ASSUME NEW k \in 1 .. Held(p) - n
      PROVE  q.buf[Inc(q.r, k - 1)] = p.buf[Inc(p.r, n + k - 1)]
  <2>1. /\ Inc(q.r, k - 1) = Inc(p.r, n + k - 1) /\ Inc(q.r, k - 1) \in Index
        /\ Inc(q.r, k - 1) \notin p.r .. p.r + n - 1
    BY <1>2, <1>m
  <2> QED
    BY <1>2, <2>1
<1>8. \A k \in 1 .. Held(p) - n : Contents(q)[k] = rest[k]
  <2>1. ASSUME NEW k \in 1 .. Held(p) - n
        PROVE  Contents(p)[n + k] = p.buf[Inc(p.r, n + k - 1)]
    BY <1>1, ContentsSeq
  <2> QED
    BY <1>4, <1>6, <1>7, <2>1
<1>9. Contents(q) = rest
  BY <1>4, <1>6, <1>8, SeqEqual
<1>10. /\ Len(SubSeq(Contents(p), 1, n)) = n
       /\ \A k \in 1 .. n : SubSeq(Contents(p), 1, n)[k] = p.buf[p.r + k - 1]
  <2>1. \A k \in 1 .. n : Contents(p)[k] \in Cells
    BY <1>1, <1>5
  <2>2. /\ Len(SubSeq(Contents(p), 1, n)) = n
        /\ \A k \in 1 .. n : SubSeq(Contents(p), 1, n)[k] = Contents(p)[k]
    BY <1>1, <2>1, SubSeqProperties
  <2>3. \A k \in 1 .. n : Contents(p)[k] = p.buf[p.r + k - 1]
    <3>1. \A k \in 1 .. n : Inc(p.r, k - 1) = p.r + k - 1
      BY <1>1, SizeAssumption DEF Inc, Slots, Index
    <3> QED
      BY <1>1, <3>1, ContentsSeq
  <2> QED
    BY <2>2, <2>3
<1> QED
  BY <1>3, <1>9, <1>10 DEF q
-----------------------------------------------------------------------------
(* The bytes in the thread's hands.                                        *)

\* In put(): there is room for what is copied, what has been copied lies
\* behind the write index, and while txStart() sends a byte itself the
\* interrupt leaves the data register to it.
TxData ==
  /\ pc \notin Puts => args = <<>>
  /\ pc \in {"copy", "index"} => 1 <= count /\ count <= Free(tx)
  /\ pc = "index" => \A k \in 1 .. count : tx.buf[tx.w + k - 1] = args[k]
  /\ pc \in {"txcopy", "senddata"} => ~cr.txe
  /\ pc = "senddata" => dr = <<>>

\* In getLine(): what is taken is in the ring until the read index moves.
RxData ==
  /\ pc \in {"take", "taken"} => 1 <= count /\ count <= Held(rx)
  /\ pc = "taken" => /\ 1 <= Len(held)
                     /\ \A k \in 1 .. Len(held) : held[k] = rx.buf[rx.r + k - 1]

HeldData == pc \notin {"senddata", "taken"} => held = <<>>

DataInv == TxData /\ RxData /\ HeldData

RingTypes == tx \in Rings /\ rx \in Rings

\* The rings in the type invariant.
LEMMA RingsOfType == TypeOK => RingTypes
BY DEF TypeOK, RingTypes, Rings, Cells

\* What the interrupt does to each ring: nothing, or one byte.
IrqSends == /\ cr.txe /\ dr = <<>> /\ Readable(tx)
            /\ tx' = Drop(tx, 1) /\ dr' = <<tx.buf[tx.r]>>

IrqReceives == /\ rdr # <<>> /\ Free(rx) > 0
               /\ rx' = PutByte(rx, rdr[1]) /\ rdr' = <<>>

LEMMA IrqMoves ==
  ASSUME Inv, Irq
  PROVE  /\ IrqSends \/ (tx' = tx /\ dr' = dr)
         /\ IrqReceives \/ (rx' = rx /\ rdr' = rdr)
         /\ cr'.txe => cr.txe
         /\ UNCHANGED <<paused, pc, args, count, held, wrote, snap, line>>
<1>1. IrqSends \/ (tx' = tx /\ dr' = dr)
  BY DEF Irq, TxIrq, TxReady, IrqSends
<1>2. IrqReceives \/ (rx' = rx /\ rdr' = rdr)
  BY DEF Irq, RxIrq, RxReady, IrqReceives
<1>3. cr'.txe => cr.txe
  BY IrqDisables
<1> QED
  BY <1>1, <1>2, <1>3 DEF Irq

\* A ring from which a byte can be read has one.
LEMMA ReadableHolds ==
  ASSUME NEW p \in Rings, Readable(p)
  PROVE  1 \in 1 .. Held(p) /\ 1 <= Slots - p.r
BY SizeAssumption DEF Readable, Held, Rings, Index, Slots

\* A byte that is read leaves the ring from the front, and what has been
\* copied behind the write index is left alone.
LEMMA FrontByte ==
  ASSUME NEW p \in Rings, Readable(p), NEW q, q = Drop(p, 1)
  PROVE  /\ q.w = p.w /\ p.w \in Index /\ Free(q) = Free(p) + 1
         /\ \A n \in Nat : n <= Free(p) /\ n <= Slots - p.w =>
              \A k \in 1 .. n : q.buf[p.w + k - 1] = p.buf[p.w + k - 1]
         /\ Contents(q) = SubSeq(Contents(p), 1 + 1, Len(Contents(p)))
         /\ <<p.buf[p.r]>> = SubSeq(Contents(p), 1, 1) /\ 1 \in 1 .. Len(Contents(p))
<1>1. p.w \in Index /\ p.r \in Index
  BY DEF Rings
<1>2. 1 \in 1 .. Held(p) /\ 1 <= Slots - p.r /\ Held(p) \in Nat /\ Len(Contents(p)) = Held(p)
  BY <1>1, ReadableHolds, ContentsSeq, SizeAssumption
<1>3. /\ Held(q) = Held(p) - 1
      /\ Contents(q) = SubSeq(Contents(p), 1 + 1, Len(Contents(p)))
      /\ Len(SubSeq(Contents(p), 1, 1)) = 1 /\ SubSeq(Contents(p), 1, 1)[1] = p.buf[p.r]
  <2>1. p.r + 1 - 1 = p.r /\ 1 \in 1 .. 1
    BY <1>1 DEF Index
  <2> QED
    BY <1>1, <1>2, <2>1, Emptied
<1>4. <<p.buf[p.r]>> = SubSeq(Contents(p), 1, 1)
  <2>1. SubSeq(Contents(p), 1, 1) \in Seq(Cells)
    BY <1>1, <1>2, ContentsSeq
  <2>2. <<p.buf[p.r]>> \in Seq(Cells) /\ Len(<<p.buf[p.r]>>) = 1
    BY <1>1 DEF Rings
  <2>3. \A k \in 1 .. 1 : SubSeq(Contents(p), 1, 1)[k] = <<p.buf[p.r]>>[k]
    BY <1>3
  <2> QED
    BY <1>1, <1>3, <2>1, <2>2, <2>3, SeqEqual
<1>5. q.w = p.w /\ Free(q) = Free(p) + 1
  <2>1. q.w = p.w
    BY <1>1 DEF Drop
  <2> QED
    BY <1>2, <1>3, <2>1, SizeAssumption DEF Free, Slots
<1>6. ASSUME NEW n \in Nat, n <= Free(p), n <= Slots - p.w, NEW k \in 1 .. n
      PROVE  q.buf[p.w + k - 1] = p.buf[p.w + k - 1]
  <2>1. p.w + k - 1 \in p.w .. p.w + n - 1 /\ p.w + k - 1 \in Index
    BY <1>1, <1>6, SizeAssumption DEF Index, Slots
  <2>2. Inc(p.r, 1 - 1) # p.w + k - 1
    BY <1>1, <1>2, <1>6, <2>1, FreeIsApart
  <2>3. Inc(p.r, 1 - 1) = p.r
    BY <1>1, SizeAssumption DEF Inc, Index, Slots
  <2>4. p.w + k - 1 \notin p.r .. p.r + 1 - 1
    BY <1>1, <2>1, <2>2, <2>3 DEF Index
  <2> QED
    BY <1>1, <2>1, <2>4 DEF Drop
<1> QED
  BY <1>1, <1>2, <1>3, <1>4, <1>5, <1>6

\* The byte the interrupt stores is appended to the receiver's ring.
LEMMA ReceivedByte ==
  ASSUME RingTypes, IrqReceives, rdr \in Seq(Bytes), Len(rdr) \in {0, 1}
  PROVE  /\ rx'.r = rx.r /\ Held(rx') = Held(rx) + 1
         /\ \A n \in 1 .. Held(rx) : n <= Slots - rx.r =>
              \A k \in 1 .. n : rx'.buf[rx.r + k - 1] = rx.buf[rx.r + k - 1]
         /\ Contents(rx') = Contents(rx) \o rdr /\ Len(rdr) = 1
         /\ Len(Contents(rx)) + 1 <= Size
<1>1. /\ rx \in Rings /\ rx' = PutByte(rx, rdr[1]) /\ Free(rx) > 0
      /\ rx.w \in Index /\ rx.r \in Index
  BY DEF RingTypes, IrqReceives, Rings
<1>2. Len(rdr) = 1 /\ rdr[1] \in Bytes /\ rdr \in Seq(Cells)
  BY DEF IrqReceives, Cells
<1>3. /\ rx' \in Rings /\ rx'.w = Inc(rx.w, 1) /\ rx'.r = rx.r
      /\ rx'.buf[rx.w] = rdr[1]
      /\ \A i \in Index : i # rx.w => rx'.buf[i] = rx.buf[i]
  BY <1>1, <1>2, PutByteInRing DEF PutByte, Rings
<1>4. Free(rx) \in 0 .. Size /\ 1 <= Free(rx) /\ 1 <= Slots - rx.w
  BY <1>1, FreeInRange, OneInRing, SizeAssumption
<1>5. Held(rx') = Held(rx) + 1 /\ Contents(rx') = Contents(rx) \o rdr
  <2>1. \A k \in 1 .. Len(rdr) : rx'.buf[rx.w + k - 1] = rdr[k]
    BY <1>1, <1>2, <1>3 DEF Index
  <2>2. \A i \in Index : i \notin rx.w .. rx.w + Len(rdr) - 1 => rx'.buf[i] = rx.buf[i]
    BY <1>1, <1>2, <1>3 DEF Index
  <2>3. Len(rdr) <= Free(rx) /\ Len(rdr) <= Slots - rx.w /\ rx'.w = Inc(rx.w, Len(rdr))
    BY <1>2, <1>3, <1>4
  <2>4. Held(rx') = Held(rx) + Len(rdr) /\ Contents(rx') = Contents(rx) \o rdr
    BY <1>1, <1>2, <1>3, <2>1, <2>2, <2>3, Filled
  <2> QED
    BY <1>2, <2>4
<1>6. ASSUME NEW n \in 1 .. Held(rx), n <= Slots - rx.r, NEW k \in 1 .. n
      PROVE  rx'.buf[rx.r + k - 1] = rx.buf[rx.r + k - 1]
  <2>1. Held(rx) \in 0 .. Size
    BY <1>1, ContentsSeq
  <2>2. k \in 1 .. Held(rx) /\ rx.r + k - 1 \in Index /\ Inc(rx.r, k - 1) = rx.r + k - 1
    BY <1>1, <1>6, <2>1, SizeAssumption DEF Index, Slots, Inc
  <2>3. rx.r + k - 1 # rx.w
    <3>1. rx.w \in rx.w .. rx.w + 1 - 1
      BY <1>1 DEF Index
    <3> QED
      BY <1>1, <1>4, <2>2, <3>1, FreeIsApart
  <2> QED
    BY <1>3, <2>2, <2>3
<1>7. Len(Contents(rx)) + 1 <= Size
  BY <1>1, <1>4, ContentsSeq, SizeAssumption DEF Free, Slots
<1> QED
  BY <1>2, <1>3, <1>5, <1>6, <1>7

\* memcpy() of put() changes free slots only.
LEMMA CopyKeeps ==
  ASSUME Inv, Inv', DataInv, Copy
  PROVE  /\ tx'.w = tx.w /\ Free(tx') = Free(tx)
         /\ \A k \in 1 .. count : tx'.buf[tx.w + k - 1] = args[k]
         /\ Contents(tx') = Contents(tx)
<1>1. /\ tx \in Rings /\ tx' \in Rings /\ tx.w \in Index /\ tx.r \in Index
      /\ count \in Nat /\ count <= Free(tx) /\ count <= Slots - tx.w
  <2>1. tx \in Rings /\ tx' \in Rings
    BY DEF Inv, TypeOK, Rings, Cells
  <2>2. count \in Nat /\ count <= Free(tx) /\ count <= Slots - tx.w
    BY SizeAssumption DEF Inv, TypeOK, LocalsOK, DataInv, TxData, Copy, At
  <2> QED
    BY <2>1, <2>2 DEF Rings
<1>2. /\ tx'.w = tx.w /\ tx'.r = tx.r
      /\ \A i \in Index : tx'.buf[i] =
           IF i \in tx.w .. tx.w + count - 1 THEN args[i - tx.w + 1] ELSE tx.buf[i]
  BY <1>1 DEF Copy, Rings
<1>3. Free(tx') = Free(tx)
  BY <1>2 DEF Free, Held
<1>4. ASSUME NEW k \in 1 .. count PROVE tx'.buf[tx.w + k - 1] = args[k]
  <2>1. /\ tx.w + k - 1 \in Index /\ tx.w + k - 1 \in tx.w .. tx.w + count - 1
        /\ (tx.w + k - 1) - tx.w + 1 = k
    BY <1>1, SizeAssumption DEF Index, Slots
  <2> QED
    BY <1>2, <2>1
<1>5. ASSUME NEW k \in 1 .. Held(tx)
      PROVE  tx'.buf[Inc(tx.r, k - 1)] = tx.buf[Inc(tx.r, k - 1)]
  <2>1. Held(tx) \in 0 .. Size
    BY <1>1, ContentsSeq
  <2>2. Inc(tx.r, k - 1) \in Index
    BY <1>1, <2>1, SizeAssumption DEF Inc, Index, Slots
  <2>3. Inc(tx.r, k - 1) \notin tx.w .. tx.w + count - 1
    BY <1>1, FreeIsApart
  <2> QED
    BY <1>2, <2>2, <2>3
<1>6. Contents(tx') = Contents(tx)
  BY <1>1, <1>2, <1>5, SameContents
<1> QED
  BY <1>2, <1>3, <1>4, <1>6

\* Every step keeps what the thread has in hand of put().
LEMMA TxDataStep == ASSUME Inv, Inv', DataInv, Next PROVE TxData'
<1> USE DEF At, Goto, shared, Puts, Gets, Pauses
<1>1. /\ TxData /\ tx \in Rings /\ pc \in {"idle"} \cup Puts \cup Gets \cup Pauses
      /\ cr \in Bits /\ snap \in Bits /\ args \in Seq(Bytes) /\ count \in 0 .. Size
  BY RingsOfType DEF DataInv, Inv, TypeOK, RingTypes, LocalsOK
<1>2. CASE Send \/ GetLine \/ ResumeRecv
  BY <1>1, <1>2 DEF Send, GetLine, ResumeRecv, TxData
<1>3. CASE Room
  <2>1. Free(tx) \in 0 .. Size /\ Free(tx) > 0 /\ Len(args) \in Nat \ {0} /\ 1 <= Slots - tx.w
    BY <1>1, <1>3, FreeInRange, OneInRing DEF Room, Rings
  <2>2. Slots - tx.w \in Nat
    BY <1>1, SizeAssumption DEF Rings, Index, Slots
  <2>3. 1 <= count' /\ count' <= Free(tx)
    BY <1>3, <2>1, <2>2, SizeAssumption DEF Room, Least
  <2> QED
    BY <1>1, <1>3, <2>3 DEF Room, TxData
<1>4. CASE NoRoom \/ Wait \/ PutIndex
  BY <1>1, <1>4 DEF NoRoom, Wait, PutIndex, vars, TxData
<1>5. CASE Copy
  <2>1. pc' = "index" /\ pc = "copy" /\ UNCHANGED <<args, count>>
    BY <1>5 DEF Copy
  <2> QED
    BY <1>1, <1>5, <2>1, CopyKeeps DEF TxData
<1>6. CASE TxOff
  <2>1. CASE pc = "off1"
    BY <1>1, <1>6, <2>1 DEF TxOff, ReadBits, TxData
  <2>2. CASE pc = "off2"
    <3>1. ~cr'.txe /\ pc' = "txcopy"
      BY <1>1, <1>6, <2>2 DEF TxOff, WriteBits, Bits
    <3> QED
      BY <3>1 DEF TxData
  <2> QED
    BY <1>6, <2>1, <2>2 DEF TxOff
<1>7. CASE TxCopy
  BY <1>1, <1>7 DEF TxCopy, TxData
<1>8. CASE SendData \/ More
  BY <1>1, <1>8 DEF SendData, More, Ended, TxData
<1>9. CASE TxOn
  BY <1>1, <1>9 DEF TxOn, ReadBits, WriteBits, Ended, TxData
<1>10. CASE GetStep \/ Pause
  <2>1. pc \notin Puts /\ pc' \notin Puts /\ args' = args
    BY <1>10 DEF GetStep, Take, Taken, Resume, Pause, ReadBits, WriteBits
  <2> QED
    BY <1>1, <2>1 DEF TxData
<1>11. CASE Irq
  <2>1. /\ IrqSends \/ (tx' = tx /\ dr' = dr)
        /\ cr'.txe => cr.txe
        /\ UNCHANGED <<pc, args, count>>
    BY <1>11, IrqMoves
  <2>2. CASE tx' = tx /\ dr' = dr
    BY <1>1, <2>1, <2>2 DEF TxData
  <2>3. CASE IrqSends
    <3>1. /\ cr.txe /\ tx'.w = tx.w /\ Free(tx') = Free(tx) + 1 /\ Free(tx) \in 0 .. Size
          /\ \A n \in Nat : n <= Free(tx) /\ n <= Slots - tx.w =>
               \A k \in 1 .. n : tx'.buf[tx.w + k - 1] = tx.buf[tx.w + k - 1]
      BY <1>1, <2>3, FrontByte, FreeInRange DEF IrqSends, Rings
    <3>2. count \in Nat /\ (pc \in {"copy", "index"} => count <= Slots - tx.w)
      BY <1>1, SizeAssumption DEF Inv, LocalsOK
    <3>3. pc \in {"copy", "index"} => 1 <= count /\ count <= Free(tx')
      BY <1>1, <3>1, <3>2, SizeAssumption DEF TxData
    <3>4. pc = "index" => \A k \in 1 .. count : tx'.buf[tx'.w + k - 1] = args[k]
      BY <1>1, <3>1, <3>2 DEF TxData
    <3>5. pc \notin {"txcopy", "senddata"}
      BY <1>1, <3>1 DEF TxData
    <3> QED
      BY <1>1, <2>1, <3>3, <3>4, <3>5 DEF TxData
  <2> QED
    BY <2>1, <2>2, <2>3
<1>12. CASE Shift \/ Arrive
  BY <1>1, <1>12 DEF Shift, Arrive, TxData
<1> QED
  BY <1>2, <1>3, <1>4, <1>5, <1>6, <1>7, <1>8, <1>9, <1>10, <1>11, <1>12 DEF Next, PutStep

\* And what it has in hand of getLine().
LEMMA RxDataStep == ASSUME Inv, Inv', DataInv, Next PROVE RxData'
<1> USE DEF At, Goto, shared, Puts, Gets, Pauses
<1>1. /\ RxData /\ HeldData /\ rx \in Rings /\ rx.r \in Index /\ count \in 0 .. Size
      /\ Held(rx) \in 0 .. Size /\ rdr \in Seq(Bytes) /\ Len(rdr) \in {0, 1}
  <2>1. rx \in Rings
    BY RingsOfType DEF Inv, RingTypes
  <2> QED
    BY <2>1, ContentsSeq DEF DataInv, Inv, TypeOK, LocalsOK
<1>2. CASE Send \/ ResumeRecv \/ PutStep \/ Pause
  <2>1. CASE Send \/ ResumeRecv \/ Pause
    BY <2>1 DEF Send, ResumeRecv, Pause, ReadBits, WriteBits, RxData
  <2>2. CASE Wait
    BY <2>2 DEF Wait, vars, RxData
  <2>3. CASE PutStep /\ ~Wait
    <3>1. pc' \notin {"take", "taken"}
      BY <2>3 DEF PutStep, Room, NoRoom, Copy, PutIndex, TxOff, TxCopy, SendData, More, TxOn,
                  ReadBits, WriteBits, Ended
    <3> QED
      BY <3>1 DEF RxData
  <2> QED
    BY <1>2, <2>1, <2>2, <2>3
<1>3. CASE GetLine
  BY <1>1, <1>3, SizeAssumption DEF GetLine, RxData
<1>4. CASE Take
  <2> DEFINE n == Least(Least(count, Held(rx)), Slots - rx.r)
  <2>1. n \in Nat /\ 1 <= n
    <3>1. 1 <= count /\ count <= Held(rx) /\ 1 <= Slots - rx.r /\ Slots - rx.r \in Nat
      BY <1>1, <1>4, OneInRing, SizeAssumption DEF Take, RxData, Index, Slots
    <3> QED
      BY <1>1, <3>1, SizeAssumption DEF Least
  <2> HIDE DEF n
  <2>2. /\ held' = [k \in 1 .. n |-> rx.buf[rx.r + k - 1]]
        /\ pc' = "taken" /\ pc = "take" /\ UNCHANGED <<rx, count>>
    BY <1>4 DEF Take, n
  <2>3. held' \in Seq(Cells)
    BY DEF Inv, LocalsOK
  <2>4. Len(held') = n
    BY <2>1, <2>2, <2>3
  <2> QED
    BY <1>1, <2>1, <2>2, <2>4 DEF RxData
<1>5. CASE Taken
  <2>1. /\ pc = "taken" /\ 1 <= Len(held) /\ Len(held) <= count /\ count <= Held(rx)
        /\ Len(held) <= Slots - rx.r /\ Len(held) \in Nat
    BY <1>1, <1>5, LenProperties DEF Taken, RxData, Inv, LocalsOK
  <2>2. Held(rx') = Held(rx) - Len(held)
    <3>1. Len(held) \in 1 .. Held(rx) /\ rx' = Drop(rx, Len(held))
      BY <1>1, <1>5, <2>1 DEF Taken
    <3> QED
      BY <1>1, <2>1, <3>1, Emptied
  <2>3. /\ count' = count - Len(held)
        /\ pc' = IF count' = 0 THEN "resume1" ELSE "take"
    BY <1>5 DEF Taken
  <2>4. pc' = "take" => 1 <= count' /\ count' <= Held(rx')
    BY <1>1, <2>1, <2>2, <2>3, SizeAssumption
  <2> QED
    BY <2>3, <2>4 DEF RxData
<1>6. CASE Resume
  BY <1>6 DEF Resume, WriteBits, RxData
<1>7. CASE Irq
  <2>1. (IrqReceives \/ rx' = rx) /\ UNCHANGED <<pc, count, held>>
    BY <1>7, IrqMoves
  <2>2. CASE rx' = rx
    BY <1>1, <2>1, <2>2 DEF RxData
  <2>3. CASE IrqReceives
    <3>1. /\ rx'.r = rx.r /\ Held(rx') = Held(rx) + 1
          /\ \A n \in 1 .. Held(rx) : n <= Slots - rx.r =>
               \A k \in 1 .. n : rx'.buf[rx.r + k - 1] = rx.buf[rx.r + k - 1]
      BY <1>1, <2>3, ReceivedByte, RingsOfType DEF Inv
    <3>2. pc \in {"take", "taken"} => 1 <= count /\ count <= Held(rx')
      BY <1>1, <3>1, SizeAssumption DEF RxData
    <3>3. ASSUME pc = "taken"
          PROVE  /\ 1 <= Len(held)
                 /\ \A k \in 1 .. Len(held) : held[k] = rx'.buf[rx'.r + k - 1]
      <4>1. /\ 1 <= Len(held) /\ Len(held) <= count /\ count <= Held(rx)
            /\ Len(held) <= Slots - rx.r /\ Len(held) \in Nat
        BY <1>1, <3>3, LenProperties DEF RxData, Inv, LocalsOK
      <4>2. Len(held) \in 1 .. Held(rx)
        BY <1>1, <4>1
      <4> QED
        BY <1>1, <3>1, <3>3, <4>1, <4>2 DEF RxData
    <3> QED
      BY <2>1, <3>2, <3>3 DEF RxData
  <2> QED
    BY <2>1, <2>2, <2>3
<1>8. CASE Shift \/ Arrive
  BY <1>1, <1>8 DEF Shift, Arrive, RxData
<1> QED
  BY <1>2, <1>3, <1>4, <1>5, <1>6, <1>7, <1>8 DEF Next, GetStep

\* What is taken from a ring is held only until it is passed on.
LEMMA HeldDataStep == ASSUME Inv, DataInv, Next PROVE HeldData'
<1> USE DEF At, Goto, shared, HeldData
<1>1. HeldData
  BY DEF DataInv
<1>2. CASE Send \/ GetLine \/ ResumeRecv \/ Pause
  BY <1>1, <1>2 DEF Send, GetLine, ResumeRecv, Pause, ReadBits, WriteBits
<1>3. CASE Room \/ NoRoom \/ Wait \/ Copy \/ PutIndex
  BY <1>1, <1>3 DEF Room, NoRoom, Wait, Copy, PutIndex, vars
<1>4. CASE TxOff \/ TxCopy \/ SendData \/ More \/ TxOn
  BY <1>1, <1>4 DEF TxOff, TxCopy, SendData, More, TxOn, ReadBits, WriteBits, Ended
<1>5. CASE GetStep
  BY <1>1, <1>5 DEF GetStep, Take, Taken, Resume, WriteBits
<1>6. CASE Irq \/ Shift \/ Arrive
  BY <1>1, <1>6 DEF Irq, Shift, Arrive
<1> QED
  BY <1>2, <1>3, <1>4, <1>5, <1>6 DEF Next, PutStep

\* The indices, the wake-ups and the bytes, together.
FullInv == Inv /\ DataInv

\* Every step keeps all of it.
LEMMA FullStep == FullInv /\ [Next]_vars => FullInv'
<1> SUFFICES ASSUME FullInv, [Next]_vars PROVE FullInv'
  OBVIOUS
<1>1. Inv'
  BY TypeStep, TxStep, RxStep DEF FullInv, Inv
<1>2. CASE Next
  BY <1>1, <1>2, TxDataStep, RxDataStep, HeldDataStep DEF FullInv, DataInv
<1>3. CASE UNCHANGED vars
  <2>1. DataInv'
    BY <1>3 DEF FullInv, DataInv, TxData, RxData, HeldData, vars, shared
  <2> QED
    BY <1>1, <2>1 DEF FullInv
<1> QED
  BY <1>2, <1>3

\* The bytes and the indices hold together throughout.
LEMMA FullInvariance == Spec => []FullInv
<1>1. Init => DataInv
  BY DEF Init, DataInv, TxData, RxData, HeldData, Puts, AllBits
<1>2. Init => FullInv
  BY <1>1, InitInv DEF FullInv
<1> QED
  BY <1>2, FullStep, PTL DEF Spec
-----------------------------------------------------------------------------
(* Both directions are streams.                                            *)

OutSink == dr \o (IF pc \in Puts THEN held ELSE <<>>)
OutVars == <<args, Contents(tx), OutSink>>
InVars == <<rdr, Contents(rx), line>>

SinkIs == OutSink = IF pc = "senddata" THEN held ELSE dr

\* What has come out is in the data register, or about to be put there.
LEMMA OutSinkIs == FullInv => OutSink = IF pc = "senddata" THEN held ELSE dr
<1> SUFFICES ASSUME FullInv PROVE OutSink = IF pc = "senddata" THEN held ELSE dr
  OBVIOUS
<1>1. dr \in Seq(Cells) /\ held \in Seq(Cells)
  BY DEF FullInv, Inv, LocalsOK
<1>2. CASE pc = "senddata"
  <2>1. dr = <<>> /\ pc \in Puts
    BY <1>2 DEF FullInv, DataInv, TxData, Puts
  <2> QED
    BY <1>1, <1>2, <2>1, ConcatEmptySeq DEF OutSink
<1>3. CASE pc # "senddata"
  <2>1. pc \in Puts => held = <<>>
    BY <1>3 DEF FullInv, DataInv, HeldData, Puts
  <2> QED
    BY <1>1, <1>3, <2>1, ConcatEmptySeq DEF OutSink
<1> QED
  BY <1>2, <1>3

\* The same of the next state.
LEMMA OutSinkNext == FullInv' => OutSink' = IF pc' = "senddata" THEN held' ELSE dr'
<1>1. FullInv => SinkIs
  BY OutSinkIs DEF SinkIs
<1>2. FullInv' => SinkIs'
  BY <1>1, PTL
<1> QED
  BY <1>2 DEF SinkIs

\* A step that leaves ring and arguments alone, and moves no byte out.
LEMMA OutStutter ==
  ASSUME FullInv, FullInv', tx' = tx, args' = args,
         (IF pc' = "senddata" THEN held' ELSE dr') = (IF pc = "senddata" THEN held ELSE dr)
  PROVE  UNCHANGED OutVars
<1>1. OutSink' = OutSink
  BY OutSinkIs, OutSinkNext
<1>2. Contents(tx)' = Contents(tx)
  BY DEF Contents, Held, Inc, Slots
<1> QED
  BY <1>1, <1>2 DEF OutVars

\* A byte that leaves the ring to the data register.
LEMMA OutByte ==
  ASSUME FullInv, FullInv', Readable(tx), tx' = Drop(tx, 1), args' = args,
         dr = <<>>, pc # "senddata",
         (IF pc' = "senddata" THEN held' ELSE dr') = <<tx.buf[tx.r]>>
  PROVE  Outgoing!Deliver
<1>1. tx \in Rings
  BY RingsOfType DEF FullInv, Inv, RingTypes
<1>2. /\ Contents(tx)' = SubSeq(Contents(tx), 1 + 1, Len(Contents(tx)))
      /\ <<tx.buf[tx.r]>> = SubSeq(Contents(tx), 1, 1) /\ 1 \in 1 .. Len(Contents(tx))
  <2>1. Contents(tx)' = Contents(tx')
    BY DEF Contents, Held, Inc, Slots
  <2> QED
    BY <1>1, <2>1, FrontByte
<1>3. OutSink = <<>> /\ OutSink' = <<tx.buf[tx.r]>>
  <2>1. OutSink' = IF pc' = "senddata" THEN held' ELSE dr'
    BY OutSinkNext
  <2>2. OutSink' = <<tx.buf[tx.r]>>
    BY <2>1, Zenon
  <2>3. OutSink = <<>>
    BY OutSinkIs
  <2> QED
    BY <2>2, <2>3
<1>4. OutSink' = OutSink \o SubSeq(Contents(tx), 1, 1)
  <2>1. <<tx.buf[tx.r]>> \in Seq(Cells)
    BY <1>1 DEF Rings
  <2> QED
    BY <1>2, <1>3, <2>1, ConcatEmptySeq
<1> QED
  BY <1>2, <1>4 DEF Outgoing!Deliver, Outgoing!Left, Outgoing!Taken, OutSink

\* Every step is one of the outgoing stream, or leaves it alone.
LEMMA OutStep == FullInv /\ FullInv' /\ [Next]_vars => [Outgoing!Next]_OutVars
<1> SUFFICES ASSUME FullInv, FullInv', [Next]_vars PROVE Outgoing!Next \/ UNCHANGED OutVars
  OBVIOUS
<1> USE DEF At, Goto, shared
<1>1. /\ TxData /\ HeldData /\ tx \in Rings /\ tx' \in Rings /\ args \in Seq(Bytes) /\ args' \in Seq(Bytes)
      /\ pc \in {"idle"} \cup Puts \cup Gets \cup Pauses /\ count \in 0 .. Size
  BY RingsOfType DEF FullInv, DataInv, Inv, TypeOK, RingTypes, LocalsOK, Rings, Cells
<1>2. CASE Send
  <2>1. /\ args = <<>> /\ args' # <<>>
    <3>1. PICK n \in 1 .. MaxPut : args' \in [1 .. n -> Bytes]
      BY <1>2 DEF Send
    <3>2. Len(args') = n
      BY <3>1, ListedIsSeq, SizeAssumption
    <3>3. args' # <<>>
      BY <3>1, <3>2, SizeAssumption
    <3> QED
      BY <1>1, <1>2, <3>3 DEF Send, TxData, Puts
  <2>2. Outgoing!IsPrefix(args, args')
    <3>1. SubSeq(args, 1, 0) = <<>> /\ SubSeq(args', 1, 0) = <<>>
      BY SubSeqEmpty
    <3>2. Len(args) = 0 /\ Len(args') \in Nat
      BY <1>1, <2>1
    <3> QED
      BY <3>1, <3>2 DEF Outgoing!IsPrefix
  <2>3. OutSink' = OutSink /\ Contents(tx)' = Contents(tx)
    <3>1. tx' = tx /\ dr' = dr /\ pc = "idle" /\ pc' = "put"
      BY <1>2 DEF Send
    <3>2. OutSink' = OutSink
      BY <3>1, OutSinkIs, OutSinkNext
    <3> QED
      BY <3>1, <3>2 DEF Contents, Held, Inc, Slots
  <2> QED
    BY <1>1, <2>1, <2>2, <2>3 DEF Outgoing!Next, Outgoing!Offer, OutSink
<1>3. CASE PutIndex
  <2>1. /\ pc = "index" /\ 1 <= count /\ count <= Free(tx) /\ count <= Len(args)
        /\ count <= Slots - tx.w /\ count \in Nat /\ Len(args) \in Nat
    BY <1>1, <1>3, SizeAssumption DEF PutIndex, TxData, FullInv, Inv, LocalsOK
  <2>2. /\ tx'.w = Inc(tx.w, count) /\ tx'.r = tx.r /\ tx'.buf = tx.buf
        /\ args' = SubSeq(args, count + 1, Len(args)) /\ dr' = dr /\ pc' = "put"
    BY <1>1, <1>3 DEF PutIndex, Rings
  <2> DEFINE s == SubSeq(args, 1, count)
  <2>3. /\ s \in Seq(Cells) /\ Len(s) = count
        /\ \A k \in 1 .. count : s[k] = args[k]
    <3>1. \A k \in 1 .. count : args[k] \in Cells
      BY <1>1, <2>1 DEF Cells
    <3> QED
      BY <2>1, <3>1, SubSeqProperties
  <2> HIDE DEF s
  <2>4. Contents(tx') = Contents(tx) \o s
    <3>1. \A k \in 1 .. Len(s) : tx'.buf[tx.w + k - 1] = s[k]
      BY <1>1, <2>1, <2>2, <2>3 DEF TxData
    <3>2. \A i \in Index : i \notin tx.w .. tx.w + Len(s) - 1 => tx'.buf[i] = tx.buf[i]
      BY <2>2
    <3>3. Len(s) <= Free(tx) /\ Len(s) <= Slots - tx.w /\ tx'.w = Inc(tx.w, Len(s))
      BY <2>1, <2>2, <2>3
    <3> QED
      BY <1>1, <2>2, <2>3, <3>1, <3>2, <3>3, Filled
  <2>5. Len(Contents(tx)) + count <= Size /\ count \in 1 .. Len(args)
    BY <1>1, <2>1, ContentsSeq, SizeAssumption DEF Free, Slots
  <2>6. OutSink' = OutSink
    BY <2>1, <2>2, OutSinkIs, OutSinkNext
  <2>7. Contents(tx)' = Contents(tx')
    BY DEF Contents, Held, Inc, Slots
  <2>8. Outgoing!Accept
    BY <2>2, <2>4, <2>5, <2>6, <2>7
       DEF Outgoing!Accept, Outgoing!Left, Outgoing!Taken, OutSink, s
  <2> QED
    BY <2>8 DEF Outgoing!Next
<1>4. CASE Copy
  <2>1. Contents(tx') = Contents(tx) /\ pc = "copy" /\ pc' = "index" /\ UNCHANGED <<args, dr>>
    BY <1>4, CopyKeeps DEF Copy, FullInv
  <2>2. OutSink' = OutSink
    BY <2>1, OutSinkIs, OutSinkNext
  <2>3. Contents(tx)' = Contents(tx')
    BY DEF Contents, Held, Inc, Slots
  <2> QED
    BY <2>1, <2>2, <2>3 DEF OutVars
<1>5. CASE TxCopy
  <2>1. CASE Readable(tx) /\ dr = <<>>
    <3>1. /\ tx' = Drop(tx, 1) /\ held' = <<tx.buf[tx.r]>> /\ pc' = "senddata" /\ pc = "txcopy"
          /\ args' = args
      BY <1>5, <2>1 DEF TxCopy
    <3>2. Outgoing!Deliver
      BY <2>1, <3>1, OutByte
    <3> QED
      BY <3>2 DEF Outgoing!Next
  <2>2. CASE ~(Readable(tx) /\ dr = <<>>)
    <3>1. tx' = tx /\ args' = args /\ dr' = dr /\ pc = "txcopy" /\ pc' = "more"
      BY <1>5, <2>2 DEF TxCopy
    <3> QED
      BY <3>1, OutStutter
  <2> QED
    BY <2>1, <2>2
<1>6. CASE SendData
  <2>1. tx' = tx /\ args' = args /\ pc = "senddata" /\ pc' = "more" /\ dr' = held
    BY <1>6 DEF SendData
  <2> QED
    BY <2>1, OutStutter
<1>7. CASE Room \/ NoRoom \/ Wait \/ TxOff \/ More \/ TxOn
  <2>1. tx' = tx /\ args' = args /\ dr' = dr /\ pc # "senddata" /\ pc' # "senddata"
    BY <1>7 DEF Room, NoRoom, Wait, TxOff, More, TxOn, ReadBits, WriteBits, Ended, vars
  <2> QED
    BY <2>1, OutStutter
<1>8. CASE GetLine \/ ResumeRecv \/ Pause \/ GetStep
  <2>1. tx' = tx /\ args' = args /\ dr' = dr /\ pc # "senddata" /\ pc' # "senddata"
    BY <1>8 DEF GetLine, ResumeRecv, Pause, GetStep, Take, Taken, Resume, ReadBits, WriteBits
  <2> QED
    BY <2>1, OutStutter
<1>9. CASE Irq
  <2>1. (IrqSends \/ (tx' = tx /\ dr' = dr)) /\ UNCHANGED <<pc, args, held>>
    BY <1>9, IrqMoves DEF FullInv
  <2>2. CASE IrqSends
    <3>1. pc # "senddata"
      BY <1>1, <2>2 DEF TxData, IrqSends
    <3>2. Outgoing!Deliver
      BY <2>1, <2>2, <3>1, OutByte DEF IrqSends
    <3> QED
      BY <3>2 DEF Outgoing!Next
  <2>3. CASE tx' = tx /\ dr' = dr
    BY <2>1, <2>3, OutStutter
  <2> QED
    BY <2>1, <2>2, <2>3
<1>10. CASE Shift
  <2>1. dr # <<>> /\ dr' = <<>> /\ UNCHANGED <<tx, args, pc, held>>
    BY <1>10 DEF Shift
  <2>2. pc # "senddata"
    BY <1>1, <2>1 DEF TxData
  <2>3. OutSink # <<>> /\ OutSink' = <<>>
    BY <2>1, <2>2, OutSinkIs, OutSinkNext
  <2>4. Contents(tx)' = Contents(tx)
    BY <2>1 DEF Contents, Held, Inc, Slots
  <2>5. Outgoing!Clear
    BY <2>1, <2>3, <2>4 DEF Outgoing!Clear, OutSink
  <2> QED
    BY <2>5 DEF Outgoing!Next
<1>11. CASE Arrive \/ UNCHANGED vars
  <2>1. UNCHANGED <<tx, args, dr, pc, held>>
    BY <1>11 DEF Arrive, vars
  <2> QED
    BY <2>1, OutStutter
<1> QED
  BY <1>2, <1>3, <1>4, <1>5, <1>6, <1>7, <1>8, <1>9, <1>10, <1>11 DEF Next, PutStep

\* Every step is one of the incoming stream, or leaves it alone.
LEMMA InStep == FullInv /\ FullInv' /\ [Next]_vars => [Incoming!Next]_InVars
<1> SUFFICES ASSUME FullInv, FullInv', [Next]_vars PROVE Incoming!Next \/ UNCHANGED InVars
  OBVIOUS
<1> USE DEF At, Goto, shared
<1>1. /\ RxData /\ rx \in Rings /\ rdr \in Seq(Bytes) /\ rdr' \in Seq(Bytes) /\ Len(rdr) \in {0, 1}
  BY RingsOfType DEF FullInv, DataInv, Inv, TypeOK, RingTypes, LocalsOK
<1>2. ASSUME UNCHANGED <<rx, rdr, line>> PROVE UNCHANGED InVars
  BY <1>2 DEF InVars, Contents, Held, Inc, Slots
<1>3. Contents(rx)' = Contents(rx')
  BY DEF Contents, Held, Inc, Slots
<1>4. CASE Taken
  <2> DEFINE n == Len(held)
             s == SubSeq(Contents(rx), 1, n)
  <2>1. /\ pc = "taken" /\ 1 <= n /\ n <= count /\ count <= Held(rx) /\ n <= Slots - rx.r
        /\ n \in Nat /\ held \in Seq(Cells) /\ \A k \in 1 .. n : held[k] = rx.buf[rx.r + k - 1]
    BY <1>1, <1>4, LenProperties DEF Taken, RxData, FullInv, Inv, LocalsOK
  <2>2. n \in 1 .. Held(rx) /\ Held(rx) = Len(Contents(rx)) /\ Contents(rx) \in Seq(Cells)
    <3>1. Held(rx) \in 0 .. Size /\ Held(rx) = Len(Contents(rx)) /\ Contents(rx) \in Seq(Cells)
      BY <1>1, ContentsSeq
    <3>2. count \in 0 .. Size
      BY DEF FullInv, Inv, TypeOK
    <3> QED
      BY <2>1, <3>1, <3>2, SizeAssumption
  <2>3. rx' = Drop(rx, n) /\ line' = line \o held /\ rdr' = rdr
    BY <1>4 DEF Taken
  <2>4. /\ Contents(rx') = SubSeq(Contents(rx), n + 1, Len(Contents(rx)))
        /\ Len(s) = n /\ \A k \in 1 .. n : s[k] = rx.buf[rx.r + k - 1]
    <3> HIDE DEF n
    <3> QED
      BY <1>1, <2>1, <2>2, <2>3, Emptied
  <2>5. s \in Seq(Cells)
    <3>1. \A k \in 1 .. n : Contents(rx)[k] \in Cells
      BY <2>2, LenProperties
    <3>2. n \in Int /\ 1 \in Int
      BY <2>1
    <3> QED
      BY <3>1, <3>2, SubSeqProperties
  <2>6. held = s
    <3> HIDE DEF s
    <3>1. Len(held) = Len(s) /\ \A k \in 1 .. Len(held) : held[k] = s[k]
      BY <2>1, <2>4
    <3> QED
      BY <2>1, <2>5, <3>1, SeqEqual
  <2>7. Incoming!Deliver
    BY <1>3, <2>2, <2>3, <2>4, <2>6 DEF Incoming!Deliver, Incoming!Left, Incoming!Taken
  <2> QED
    BY <2>7 DEF Incoming!Next
<1>5. CASE Resume
  <2>1. rx' = rx /\ rdr' = rdr /\ (line' = line \/ line' = <<>>)
    BY <1>5 DEF Resume, WriteBits
  <2>2. CASE line' = line
    BY <1>2, <2>1, <2>2
  <2>3. CASE line' = <<>> /\ line # <<>>
    <3>1. Incoming!Clear
      BY <2>1, <2>3 DEF Incoming!Clear, Contents, Held, Inc, Slots
    <3> QED
      BY <3>1 DEF Incoming!Next
  <2> QED
    BY <2>1, <2>2, <2>3
<1>6. CASE Irq
  <2>1. (IrqReceives \/ (rx' = rx /\ rdr' = rdr)) /\ line' = line
    BY <1>6, IrqMoves DEF FullInv
  <2>2. CASE IrqReceives
    <3>1. /\ Contents(rx') = Contents(rx) \o rdr /\ Len(rdr) = 1
          /\ Len(Contents(rx)) + 1 <= Size /\ rdr' = <<>>
      BY <1>1, <2>2, ReceivedByte, RingsOfType DEF FullInv, Inv, IrqReceives
    <3>2. SubSeq(rdr, 1, 1) = rdr
      <4>1. \A k \in 1 .. 1 : rdr[k] \in Bytes
        BY <1>1, <3>1, LenProperties
      <4>2. /\ SubSeq(rdr, 1, 1) \in Seq(Bytes) /\ Len(SubSeq(rdr, 1, 1)) = 1
            /\ \A k \in 1 .. 1 : SubSeq(rdr, 1, 1)[k] = rdr[k]
        BY <4>1, SubSeqProperties
      <4> QED
        BY <1>1, <3>1, <4>2, SeqEqual
    <3>3. SubSeq(rdr, 1 + 1, 1) = <<>>
      BY SubSeqEmpty
    <3>4. Incoming!Accept
      <4>1. 1 \in 1 .. Len(rdr)
        BY <3>1
      <4> QED
        BY <1>3, <2>1, <3>1, <3>2, <3>3, <4>1 DEF Incoming!Accept, Incoming!Left, Incoming!Taken
    <3> QED
      BY <3>4 DEF Incoming!Next
  <2>3. CASE rx' = rx /\ rdr' = rdr
    BY <1>2, <2>1, <2>3
  <2> QED
    BY <2>1, <2>2, <2>3
<1>7. CASE Arrive
  <2>1. PICK b \in Bytes : rdr' = <<b>>
    BY <1>7 DEF Arrive
  <2>2. rdr = <<>> /\ rdr' # rdr /\ Len(rdr) = 0 /\ Len(rdr') = 1
    BY <1>7, <2>1 DEF Arrive
  <2>3. Incoming!IsPrefix(rdr, rdr')
    <3>1. SubSeq(rdr, 1, 0) = <<>> /\ SubSeq(rdr', 1, 0) = <<>>
      BY SubSeqEmpty
    <3> QED
      BY <2>2, <3>1 DEF Incoming!IsPrefix
  <2>4. Contents(rx)' = Contents(rx) /\ line' = line
    BY <1>7 DEF Arrive, Contents, Held, Inc, Slots
  <2> QED
    BY <1>1, <2>2, <2>3, <2>4 DEF Incoming!Next, Incoming!Offer
<1>8. CASE Send \/ GetLine \/ ResumeRecv \/ Pause \/ Take \/ Shift \/ UNCHANGED vars
  <2>1. UNCHANGED <<rx, rdr, line>>
    BY <1>8 DEF Send, GetLine, ResumeRecv, Pause, Take, Shift, ReadBits, WriteBits, vars
  <2> QED
    BY <1>2, <2>1
<1>9. CASE PutStep
  <2>1. UNCHANGED <<rx, rdr, line>>
    BY <1>9 DEF PutStep, Room, NoRoom, Wait, Copy, PutIndex, TxOff, TxCopy, SendData, More, TxOn,
                ReadBits, WriteBits, vars
  <2> QED
    BY <1>2, <2>1
<1> QED
  BY <1>4, <1>5, <1>6, <1>7, <1>8, <1>9 DEF Next, GetStep

\* Both streams begin empty.
LEMMA StreamsStart == Init => Outgoing!Init /\ Incoming!Init
<1> SUFFICES ASSUME Init PROVE Outgoing!Init /\ Incoming!Init
  OBVIOUS
<1>1. Contents(tx) = <<>> /\ Contents(rx) = <<>>
  <2>1. tx.w = 0 /\ tx.r = 0 /\ rx = tx
    BY DEF Init
  <2>2. Held(tx) = 0
    BY <2>1 DEF Held
  <2>3. tx \in Rings
    BY InitInv, RingsOfType DEF Inv, RingTypes
  <2>4. Contents(tx) \in Seq(Cells) /\ Len(Contents(tx)) = 0
    BY <2>2, <2>3, ContentsSeq
  <2> QED
    BY <2>1, <2>4
<1>2. OutSink = <<>>
  <2>1. dr = <<>> /\ held = <<>>
    BY DEF Init
  <2> QED
    BY <2>1 DEF OutSink
<1> QED
  BY <1>1, <1>2 DEF Init, Outgoing!Init, Incoming!Init, OutSink

(* Each direction is a stream of bounded capacity, for rings of every size *)
(* and calls of every length: no byte is lost, doubled, overwritten or out *)
(* of order, wherever the interrupt comes in (pipe_hal.h:32).              *)
THEOREM ImplementsStreams == Spec => StreamsImplemented
<1>1. Spec => []FullInv
  BY FullInvariance
<1>2. FullInv /\ FullInv' /\ [Next]_vars =>
        [Outgoing!Next]_<<args, Contents(tx), dr \o (IF pc \in Puts THEN held ELSE <<>>)>>
  BY OutStep DEF OutVars, OutSink
<1>3. FullInv /\ FullInv' /\ [Next]_vars => [Incoming!Next]_<<rdr, Contents(rx), line>>
  BY InStep DEF InVars
<1> QED
  BY <1>1, <1>2, <1>3, StreamsStart, PTL
     DEF Spec, StreamsImplemented, Outgoing!StreamSpec, Incoming!StreamSpec
-----------------------------------------------------------------------------
\* The inductive invariant.
THEOREM Invariance == Spec => []Inv
<1>1. Inv /\ [Next]_vars => Inv'
  BY TypeStep, TxStep, RxStep DEF Inv
<1> QED
  BY InitInv, <1>1, PTL DEF Spec

\* No index leaves its ring, at any size (pipe_hal.h).
THEOREM TypeCorrect == Spec => []TypeOK
<1>1. Inv => TypeOK
  BY DEF Inv
<1> QED
  BY Invariance, <1>1, PTL

\* Bytes the thread has left in the ring have the transmitter's interrupt
\* enabled, wherever the interrupt comes between its reading and its writing
\* of the register (electronserialpipe_hal.cpp, txStart).
THEOREM TransmitterArmed == Spec => []TxArmed
<1>1. Inv => TxArmed
  BY DEF Inv, TxInv, TxArmed
<1> QED
  BY Invariance, <1>1, PTL

\* The receiver is off only while its ring is full or it is paused
\* (electronserialpipe_hal.cpp, rxIrqBuf and rxResume).
THEOREM ReceiverArmed == Spec => []RxArmed
<1>1. Inv => RxArmed
  BY DEF Inv, RxInv, RxArmed
<1> QED
  BY Invariance, <1>1, PTL
=============================================================================
