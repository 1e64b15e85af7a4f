----------------------- MODULE ChunkedTransfer_proofs -----------------------
(***************************************************************************)
(* Proofs about a firmware update over the air, for files of any number of *)
(* chunks, requests of any size and any time of the watchdog.              *)
(***************************************************************************)
EXTENDS ChunkedTransfer, FiniteSetTheorems, WellFoundedInduction, TLAPS

-----------------------------------------------------------------------------
(* The least and the greatest of a set of chunks.                          *)

(* A set of naturals that is not empty has a least element.                *)
LEMMA LeastExists ==
  ASSUME NEW S \in SUBSET Nat, S # {}
  PROVE  \E x \in S : \A y \in S : x <= y
<1> DEFINE Below(x) == 0 .. x - 1
           T == {Below(x) : x \in S}
<1>1. IsWellFoundedOn(StrictSubsetOrdering(Nat), FiniteSubsetsOf(Nat))
  BY FS_StrictSubsetOrderingWellFounded
<1>2. T \subseteq FiniteSubsetsOf(Nat) /\ T # {}
  <2>1. ASSUME NEW x \in S PROVE IsFiniteSet(Below(x)) /\ Below(x) \in SUBSET Nat
    BY FS_Interval
  <2> QED
    BY <2>1 DEF FiniteSubsetsOf
<1>3. PICK U \in T : \A V \in T : ~(<<V, U>> \in StrictSubsetOrdering(Nat))
  <2> HIDE DEF T
  <2> QED
    BY <1>1, <1>2, WFMin
<1>4. PICK x \in S : U = Below(x)
  BY <1>3
<1>5. ASSUME NEW y \in S, y < x PROVE FALSE
  <2>1. Below(y) \subseteq Below(x) /\ x - 1 \in Below(x) /\ x - 1 \notin Below(y)
    BY <1>5
  <2>2. <<Below(y), Below(x)>> \in StrictSubsetOrdering(Nat)
    BY <2>1 DEF StrictSubsetOrdering
  <2> QED
    BY <1>3, <1>4, <2>2
<1> QED
  BY <1>5

\* The positions in a file are naturals, the first among them.
LEMMA PositionsFacts ==
  ASSUME NEW f \in Files
  PROVE  /\ Length[f] \in Nat \ {0} /\ Positions(f) \subseteq Nat /\ 0 \in Positions(f)
         /\ Length[f] < MaxChunks => Positions(f) \subseteq Chunks
         /\ \A i \in Nat : i \in Positions(f) <=> i < Length[f]
<1>1. Length[f] \in Nat \ {0} /\ MaxChunks \in Nat
  BY TransferAssumption
<1> QED
  BY <1>1 DEF Positions, Chunks

\* The least of some positions is one of them, and below the others.
LEMMA MinOfPositions ==
  ASSUME NEW f \in Files, NEW S \in SUBSET Positions(f), S # {}
  PROVE  Min(S) \in S /\ \A y \in S : Min(S) <= y
<1>1. S \in SUBSET Nat
  BY PositionsFacts
<1> QED
  BY <1>1, LeastExists DEF Min

\* So is the greatest, and above the others.
LEMMA MaxOfPositions ==
  ASSUME NEW f \in Files, NEW S \in SUBSET Positions(f), S # {}
  PROVE  Max(S) \in S /\ \A y \in S : Max(S) >= y
<1> DEFINE n == Length[f]
           Below == {n - x : x \in S}
<1>1. n \in Nat /\ \A x \in S : x \in Nat /\ x < n
  BY PositionsFacts
<1> HIDE DEF n
<1>2. Below \in SUBSET Nat /\ Below # {}
  BY <1>1
<1>3. PICK z \in Below : \A y \in Below : z <= y
  BY <1>2, LeastExists
<1>4. PICK x \in S : z = n - x
  BY <1>3
<1>5. ASSUME NEW y \in S PROVE x >= y
  <2>1. n - y \in Below
    OBVIOUS
  <2>2. n - x <= n - y
    BY <1>3, <1>4, <2>1
  <2> QED
    BY <1>1, <2>2
<1> QED
  BY <1>5 DEF Max

(* A request names at least one of the chunks that are missing.            *)
LEMMA AsksSomething ==
  ASSUME NEW f \in Files, NEW gaps \in SUBSET Positions(f), gaps # {}
  PROVE  Asks(gaps) \subseteq gaps /\ Asks(gaps) # {} /\ Max(Asks(gaps)) \in gaps
<1> DEFINE m == Min(gaps)
<1>1. m \in gaps /\ \A y \in gaps : m <= y
  BY MinOfPositions
<1>2. {j \in gaps : j < m} = {}
  BY <1>1, PositionsFacts
<1>3. Cardinality({j \in gaps : j < m}) < Flight
  BY <1>2, FS_EmptySet, TransferAssumption
<1>4. m \in Asks(gaps)
  BY <1>1, <1>3 DEF Asks
<1>5. Asks(gaps) \subseteq gaps
  BY DEF Asks
<1> QED
  BY <1>4, <1>5, MaxOfPositions

-----------------------------------------------------------------------------
(* The invariant.                                                          *)

DevType == [updating : 0..2, file : Files, bitmap : (SUBSET Chunks) \cup {Unmapped},
            missed : Nat, index : 0..MaxChunks, quiet : BOOLEAN,
            image : [Chunks -> Contents \cup {Nothing}], flashing : BOOLEAN,
            watch : 0..Timeout, outcome : {"none", "running", "finished", "aborted"},
            begun : Offers, alien : SUBSET {"chunk", "file"}]
ConType == [kind : {"none", "begin", "chunk", "done"}, index : Chunks, seen : BOOLEAN,
            answer : {"none", "refused", "ready", "ok", "bad"}]
Phases == {"idle", "offered", "sending", "done", "repair"}

Active == dev.updating # 0 /\ session

(* The chunk of the update that belongs at i, and whether it is there.     *)
Own(d, i) == [file |-> d.begun.file, index |-> i]
InPlace(d, i) == d.image[i] = Own(d, i)
Whole(d) == \A i \in Positions(d.begun.file) : InPlace(d, i)

(* The chunks of the update the bitmap does not tell of.                   *)
Holes(d) == Positions(d.begun.file) \ d.bitmap

(* An update of a connected device is known to the system too.             *)
RunningInv == Active => dev.flashing /\ dev.outcome = "running"

(* The bitmap is there.  In a fast update each chunk it tells of is in its *)
(* place, if none came of another file; in a slow one it tells of all of   *)
(* them from the start.  The file that was accepted is not too long.       *)
GoodBitmap(d) ==
  /\ Length[d.begun.file] < MaxChunks
  /\ "file" \notin d.alien => Length[d.file] = Length[d.begun.file]
  /\ IF d.begun.fast
     THEN /\ d.bitmap \subseteq Positions(d.begun.file)
          /\ d.alien = {} => \A i \in d.bitmap : InPlace(d, i)
     ELSE d.bitmap = Positions(d.begun.file)

(* Chunks are asked for one by one only as long as one is missing, unless  *)
(* the length they are counted by is that of another file.                 *)
HasHoles(d) == d.updating = 2 /\ "file" \notin d.alien => Holes(d) # {}
BitmapInv == (dev.updating # 0 => GoodBitmap(dev)) /\ HasHoles(dev)

(* What kind of answer there can be to a message, and when.                *)
ConInv ==
  /\ con.kind = "none"  => con.answer = "none"
  /\ con.kind = "begin" => con.answer \in {"none", "refused", "ready"}
  /\ con.kind \in {"chunk", "done"} => con.answer \in {"none", "ok", "bad"}
  /\ ~con.seen => con.answer = "none"

(* The device has accepted what the server has offered last.               *)
Going == con.answer = "ready" \/ con.kind = "done" \/ phase \in {"sending", "done", "repair"}

(* What the server is doing: it sends chunks of what it has offered, and   *)
(* those of a slow update in order, before it is done.                     *)
ServerInv ==
  /\ Going => Length[offered.file] < MaxChunks
  /\ todo \subseteq Positions(offered.file)
  /\ phase \in {"idle", "offered"} => todo = {}
  /\ con.kind = "begin" => phase = "offered"
  /\ con.kind = "chunk" => /\ ~offered.fast /\ phase = "sending"
                           /\ con.index \in todo /\ \A j \in todo : con.index <= j
  /\ ~offered.fast => /\ con.kind = "done" => phase = "done"
                      /\ phase # "sending" => todo = {}

(* Then an update that is in progress is that one, and the descriptor is   *)
(* its.                                                                    *)
AgreeInv == Active /\ Going =>
  dev.begun = offered /\ dev.file = offered.file /\ "file" \notin dev.alien

(* How far a slow update has got: the chunks before the device's index are *)
(* in place, and the server goes on with the one that belongs there, even  *)
(* though its message does not say so, unless another chunk has moved the  *)
(* index.                                                                  *)
OrderInv ==
  Active /\ ~dev.begun.fast /\ dev.alien = {} =>
    /\ \A j \in Positions(dev.begun.file) : j < dev.index => InPlace(dev, j)
    /\ con.answer = "ready" => dev.index = 0
    /\ phase = "sending" =>
         IF con.kind = "chunk" /\ con.answer = "ok"
         THEN /\ dev.index = con.index + 1
              /\ todo = {j \in Positions(dev.begun.file) : con.index <= j}
         ELSE todo = {j \in Positions(dev.begun.file) : dev.index <= j}
    /\ phase = "done" => Length[dev.begun.file] <= dev.index

(* The second tick without a chunk is preceded by a request for those that *)
(* are missing.                                                            *)
AskedInv == session /\ dev.updating = 2 /\ "file" \notin dev.alien =>
              unasked = 0 \/ (unasked = 1 /\ dev.quiet)

Inv == /\ TypeOK /\ RunningInv /\ BitmapInv /\ FinishedWhole
       /\ ConInv /\ ServerInv /\ AgreeInv /\ OrderInv /\ AskedInv

-----------------------------------------------------------------------------
(* What the callbacks of the system and the steps of ChunkedTransfer       *)
(* change of the device's state.                                           *)

(* Nothing but the state of the transfer that is not in the list changes.  *)
SameTransfer(d, e) ==
  /\ e.updating = d.updating /\ e.bitmap = d.bitmap /\ e.index = d.index
  /\ e.image = d.image /\ e.file = d.file /\ e.begun = d.begun /\ e.alien = d.alien

\* What depends on these alone is the same too.
LEMMA SameFacts ==
  ASSUME NEW d, NEW e, SameTransfer(d, e)
  PROVE  /\ GoodBitmap(e) <=> GoodBitmap(d)
         /\ HasHoles(e) <=> HasHoles(d)
         /\ Holes(e) = Holes(d) /\ (Whole(e) <=> Whole(d)) /\ Gaps(e) = Gaps(d)
BY DEF SameTransfer, GoodBitmap, HasHoles, Holes, Whole, InPlace, Own, Gaps

\* The files a device knows are files.
LEMMA FilesOf ==
  ASSUME NEW d \in DevType
  PROVE  /\ d.file \in Files /\ d.begun \in Offers /\ d.begun.file \in Files
         /\ d.begun.fast \in BOOLEAN
BY DEF DevType, Offers

\* After a restart no update is in progress.
LEMMA PowerOnFacts ==
  /\ PowerOn \in DevType /\ PowerOn.updating = 0 /\ PowerOn.outcome = "none"
  /\ PowerOn.image = Blank /\ PowerOn.begun \in Offers
<1>1. 0 \in Chunks /\ 0 \in 0..MaxChunks /\ 0 \in 0..Timeout /\ 0 \in 0..2 /\ 0 \in Nat
  BY TransferAssumption DEF Chunks
<1>2. AnyFile \in Files
  BY TransferAssumption DEF AnyFile
<1>3. [file |-> AnyFile, fast |-> FALSE] \in Offers
  BY <1>2 DEF Offers
<1> HIDE DEF AnyFile
<1>4. Blank \in [Chunks -> Contents \cup {Nothing}]
  BY DEF Blank
<1> QED
  BY <1>1, <1>2, <1>3, <1>4 DEF PowerOn, DevType

\* The check of the image touches no member of the transfer.
LEMMA ValidateFacts ==
  ASSUME NEW d \in DevType
  PROVE  /\ Validate(d) \in DevType
         /\ SameTransfer(d, Validate(d))
         /\ Validate(d).outcome = d.outcome /\ Validate(d).quiet = d.quiet
<1>1. 0 \in 0..Timeout
  BY TransferAssumption
<1> QED
  BY <1>1 DEF Validate, DevType, SameTransfer

\* finish_firmware_update() ends the update with the application.
LEMMA FinishFacts ==
  ASSUME NEW d \in DevType, NEW outcome \in {"none", "running", "finished", "aborted"}
  PROVE  /\ Finish(d, outcome) \in DevType /\ Finish(d, outcome).outcome = outcome
         /\ SameTransfer(d, Finish(d, outcome)) /\ Finish(d, outcome).quiet = d.quiet
<1>1. Validate(d) \in DevType /\ SameTransfer(d, Validate(d)) /\ Validate(d).quiet = d.quiet
  BY ValidateFacts
<1> QED
  BY <1>1 DEF Finish, DevType, SameTransfer

\* cancel() ends an update that was in progress, and no other.
LEMMA CancelledFacts ==
  ASSUME NEW d \in DevType
  PROVE  /\ Cancelled(d) \in DevType
         /\ SameTransfer(d, Cancelled(d)) /\ Cancelled(d).quiet = d.quiet
         /\ d.updating # 0 => Cancelled(d).outcome = "aborted"
         /\ d.updating = 0 => Cancelled(d) = d
<1>1. CASE d.updating # 0
  BY <1>1, FinishFacts DEF Cancelled
<1>2. CASE d.updating = 0
  BY <1>2 DEF Cancelled, SameTransfer
<1> QED
  BY <1>1, <1>2

\* The update is over, and nothing in the flash has changed.
LEMMA CompletedFacts ==
  ASSUME NEW d \in DevType
  PROVE  /\ Completed(d) \in DevType /\ Completed(d).updating = 0
         /\ Completed(d).image = d.image /\ Completed(d).begun = d.begun
         /\ Completed(d).alien = d.alien
<1> DEFINE e == [d EXCEPT !.updating = 0, !.quiet = TRUE]
<1>1. /\ e \in DevType /\ e.updating = 0 /\ e.image = d.image
      /\ e.begun = d.begun /\ e.alien = d.alien
  <2>1. 0 \in 0..2
    OBVIOUS
  <2> QED
    BY <2>1 DEF DevType
<1>2. Completed(d) = Finish(e, "finished")
  BY DEF Completed
<1> HIDE DEF e
<1> QED
  BY <1>1, <1>2, FinishFacts DEF SameTransfer

\* handle_update_begin() overwrites the descriptor first.
LEMMA DescribedFacts ==
  ASSUME NEW d \in DevType, offered \in Offers
  PROVE  LET e == Described(d) IN
         /\ e \in DevType /\ e.file = offered.file
         /\ e.updating = d.updating /\ e.bitmap = d.bitmap /\ e.index = d.index
         /\ e.image = d.image /\ e.begun = d.begun /\ e.quiet = d.quiet
         /\ e.flashing = d.flashing /\ e.outcome = d.outcome
         /\ d.alien \subseteq e.alien
         /\ d.updating # 0 /\ Length[offered.file] # Length[d.begun.file] => "file" \in e.alien
<1> DEFINE a == IF d.updating # 0 /\ Length[offered.file] # Length[d.begun.file]
                THEN d.alien \cup {"file"} ELSE d.alien
<1>1. d.alien \in SUBSET {"chunk", "file"}
  BY DEF DevType
<1>2. a \in SUBSET {"chunk", "file"}
  BY <1>1
<1>3. offered.file \in Files
  BY DEF Offers
<1>4. /\ d.alien \subseteq a
      /\ d.updating # 0 /\ Length[offered.file] # Length[d.begun.file] => "file" \in a
  OBVIOUS
<1>5. Described(d) = [d EXCEPT !.file = offered.file, !.alien = a]
  BY DEF Described
<1> HIDE DEF a
<1> QED
  BY <1>2, <1>3, <1>4, <1>5 DEF DevType

\* handle_update_begin(), when the update is accepted.
LEMMA BegunFacts ==
  ASSUME NEW d \in DevType, offered \in Offers, Length[offered.file] < MaxChunks
  PROVE  LET e == Begun(d) IN
         /\ e \in DevType
         /\ e.updating = 1 /\ e.index = 0 /\ e.image = Blank
         /\ e.bitmap = IF offered.fast THEN {} ELSE Positions(offered.file)
         /\ e.begun = offered /\ e.file = offered.file /\ e.alien = {}
         /\ e.flashing = TRUE /\ e.outcome = "running"
<1>1. 0 \in 0..Timeout /\ 0 \in 0..MaxChunks /\ 1 \in 0..2
  BY TransferAssumption
<1>2. Blank \in [Chunks -> Contents \cup {Nothing}]
  BY DEF Blank
<1> DEFINE p == Prepare(d)
<1>3. p \in DevType /\ p.image = Blank /\ p.flashing = TRUE /\ p.outcome = "running"
  <2> HIDE DEF Blank
  <2> QED
    BY <1>1, <1>2 DEF Prepare, DevType
<1> DEFINE map == IF offered.fast THEN {} ELSE Positions(offered.file)
<1>4. map \in SUBSET Chunks /\ offered.file \in Files
  BY PositionsFacts DEF Offers
<1>5. Begun(d) = [p EXCEPT !.updating = 1, !.file = offered.file, !.index = 0, !.quiet = FALSE,
                           !.bitmap = map, !.begun = offered, !.alien = {}]
  BY DEF Begun
<1> HIDE DEF map, p
<1>6. LET e == Begun(d) IN
      /\ e \in DevType
      /\ e.updating = 1 /\ e.index = 0 /\ e.image = Blank
      /\ e.bitmap = map
      /\ e.begun = offered /\ e.file = offered.file /\ e.alien = {}
      /\ e.flashing = TRUE /\ e.outcome = "running"
  BY <1>1, <1>3, <1>4, <1>5 DEF DevType
<1> QED
  BY <1>6 DEF map

\* A chunk that is stored adds itself to image and bitmap, and nothing else.
LEMMA StoredFacts ==
  ASSUME NEW d \in DevType, d.bitmap \subseteq Chunks, d.index \in Chunks, NEW c \in Contents
  PROVE  LET e == Stored(d, c) IN
         /\ e \in DevType /\ e.updating = d.updating /\ e.file = d.file
         /\ e.bitmap = d.bitmap \cup ({d.index} \cap Positions(d.begun.file))
         /\ e.image = [d.image EXCEPT ![d.index] = c] /\ e.index = d.index + 1
         /\ e.begun = d.begun /\ e.alien = d.alien
         /\ e.flashing = d.flashing /\ e.outcome = d.outcome
<1>1. 0 \in 0..Timeout /\ d.index + 1 \in 0..MaxChunks
  BY TransferAssumption DEF Chunks
<1>2. [d.image EXCEPT ![d.index] = c] \in [Chunks -> Contents \cup {Nothing}]
  BY DEF DevType
<1> DEFINE s == Save(d, c)
<1>3. /\ s \in DevType /\ s.bitmap = d.bitmap /\ s.updating = d.updating /\ s.file = d.file
      /\ s.flashing = d.flashing /\ s.outcome = d.outcome /\ s.index = d.index
      /\ s.begun = d.begun /\ s.alien = d.alien
      /\ s.image = [d.image EXCEPT ![d.index] = c]
  BY <1>1, <1>2 DEF Save, DevType
<1> DEFINE map == d.bitmap \cup ({d.index} \cap Positions(d.begun.file))
<1>4. map \in SUBSET Chunks
  OBVIOUS
<1>5. Stored(d, c) = [s EXCEPT !.bitmap = map, !.index = d.index + 1]
  BY <1>3 DEF Stored
<1> HIDE DEF map, s
<1>6. LET e == Stored(d, c) IN
      /\ e \in DevType /\ e.updating = d.updating /\ e.file = d.file
      /\ e.bitmap = map
      /\ e.image = [d.image EXCEPT ![d.index] = c] /\ e.index = d.index + 1
      /\ e.begun = d.begun /\ e.alien = d.alien
      /\ e.flashing = d.flashing /\ e.outcome = d.outcome
  BY <1>1, <1>3, <1>4, <1>5 DEF DevType
<1> QED
  BY <1>6 DEF map

\* What next_chunk_missing() finds lies in the file that is described; it is what
\* the bitmap does not tell of, as long as that is as long as the update's.
LEMMA GapsFacts ==
  ASSUME NEW d \in DevType, NEW gaps \in Gaps(d)
  PROVE  /\ gaps \in SUBSET Positions(d.file)
         /\ GoodBitmap(d) /\ "file" \notin d.alien => gaps = Holes(d)
<1>1. /\ d.file \in Files /\ d.begun.file \in Files /\ 0 \in Positions(d.file)
  BY FilesOf, PositionsFacts
<1>2. gaps \in SUBSET Positions(d.file)
  BY <1>1 DEF Gaps
<1>3. ASSUME GoodBitmap(d), "file" \notin d.alien PROVE gaps = Holes(d)
  <2>1. Positions(d.file) = Positions(d.begun.file)
    BY <1>3 DEF GoodBitmap, Positions
  <2>2. d.bitmap \subseteq Chunks
    BY <1>1, <1>3, PositionsFacts DEF GoodBitmap
  <2>3. d.bitmap # Unmapped
    BY <2>2, TransferAssumption DEF Chunks, Unmapped
  <2> QED
    BY <2>1, <2>3 DEF Gaps, Holes
<1> QED
  BY <1>2, <1>3

\* send_missing_chunks() asks for chunks of the file and keeps what is stored.
LEMMA AskedFacts ==
  ASSUME NEW d \in DevType, NEW gaps \in SUBSET Positions(d.file)
  PROVE  /\ Asked(d, gaps) \in DevType /\ SameTransfer(d, Asked(d, gaps))
         /\ Asked(d, gaps).flashing = d.flashing /\ Asked(d, gaps).outcome = d.outcome
         /\ Asked(d, gaps).quiet = d.quiet
<1> DEFINE m == IF gaps = {} THEN d.missed ELSE Max(Asks(gaps))
<1>1. m \in Nat
  <2>1. d.missed \in Nat /\ Positions(d.file) \subseteq Nat
    BY FilesOf, PositionsFacts DEF DevType
  <2>2. gaps # {} => Max(Asks(gaps)) \in gaps
    BY FilesOf, AsksSomething
  <2> QED
    BY <2>1, <2>2
<1>2. Asked(d, gaps) = [d EXCEPT !.missed = m]
  BY DEF Asked
<1> HIDE DEF m
<1> QED
  BY <1>1, <1>2 DEF DevType, SameTransfer

-----------------------------------------------------------------------------
(* A turn of the event loop.                                               *)

\* FinishedWhole, in the words of the invariant.
LEMMA WholeMeans ==
  /\ FinishedWhole <=> (dev.outcome = "finished" /\ dev.alien = {} => Whole(dev))
  /\ FinishedWhole' <=> (dev'.outcome = "finished" /\ dev'.alien = {} => Whole(dev'))
BY DEF FinishedWhole, Whole, InPlace, Own

(* What a handler may leave behind for the loop.                           *)
Handled(d, error) ==
  /\ d.updating # 0 => GoodBitmap(d)
  /\ HasHoles(d)
  /\ d.outcome = "finished" /\ d.alien = {} => Whole(d)
  /\ d.updating # 0 /\ ~error => d.flashing /\ d.outcome = "running"

(* It is cancelled if the handler failed; an update that goes on is the    *)
(* one the handler left, and stays known to the system.                    *)
LEMMA LoopKeeps ==
  ASSUME NEW d \in DevType, NEW error \in BOOLEAN, session, Loop(d, error), Handled(d, error)
  PROVE  /\ dev' \in DevType /\ session' \in BOOLEAN
         /\ RunningInv' /\ BitmapInv' /\ FinishedWhole'
         /\ SameTransfer(d, dev') /\ dev'.quiet = d.quiet
         /\ Active' => d.updating # 0 /\ ~error
<1>1. CASE error
  <2>1. dev' = Cancelled(d) /\ session' = FALSE
    BY <1>1 DEF Loop
  <2>2. /\ Cancelled(d) \in DevType
        /\ SameTransfer(d, Cancelled(d)) /\ Cancelled(d).quiet = d.quiet
        /\ d.updating # 0 => Cancelled(d).outcome = "aborted"
        /\ d.updating = 0 => Cancelled(d) = d
    BY CancelledFacts
  <2>3. /\ GoodBitmap(dev') <=> GoodBitmap(d)
        /\ HasHoles(dev') <=> HasHoles(d)
        /\ Whole(dev') <=> Whole(d)
        /\ dev'.updating = d.updating /\ dev'.alien = d.alien
    BY <2>1, <2>2, SameFacts DEF SameTransfer
  <2>4. BitmapInv'
    BY <2>3 DEF BitmapInv, Handled, GoodBitmap, HasHoles, Holes, InPlace, Own
  <2>5. FinishedWhole'
    BY <2>1, <2>2, <2>3, WholeMeans DEF Handled
  <2> QED
    BY <2>1, <2>2, <2>4, <2>5 DEF RunningInv, Active
<1>2. CASE ~error
  <2>1. dev' = d /\ session' = TRUE
    BY <1>2 DEF Loop
  <2>2. BitmapInv'
    BY <2>1 DEF BitmapInv, Handled, GoodBitmap, HasHoles, Holes, InPlace, Own
  <2>3. FinishedWhole'
    BY <2>1, WholeMeans DEF Handled
  <2> QED
    BY <1>2, <2>1, <2>2, <2>3 DEF Handled, RunningInv, Active, SameTransfer
<1> QED
  BY <1>1, <1>2

(* What the handler of a chunk finds when it has read its options: a chunk *)
(* that is stored in an update no other has disturbed is that update's, and*)
(* goes where it belongs.                                                  *)
ReadOptions(d, c, good) ==
  /\ d \in DevType
  /\ d.updating = dev.updating /\ d.bitmap = dev.bitmap /\ d.image = dev.image
  /\ d.file = dev.file /\ d.begun = dev.begun
  /\ d.flashing = dev.flashing /\ d.outcome = dev.outcome
  /\ dev.alien \subseteq d.alien /\ d.alien \subseteq dev.alien \cup {"chunk"}
  /\ dev.updating # 0 /\ good /\ d.alien = {} => c = Own(dev, d.index)

(* What the server may make of a request or of the end of an update.       *)
ServerMoves ==
  /\ todo' \subseteq Positions(offered.file)
  /\ phase' = phase \/ (phase \in {"done", "repair"} /\ phase' = "idle" /\ todo' = {})
  /\ ~offered.fast \/ phase \notin {"done", "repair"} => todo' = todo /\ phase' = phase

(* How a chunk takes an update forward.                                    *)
Progress(d, c, good) ==
  /\ Active' => /\ Active /\ dev'.begun = d.begun /\ dev'.file = d.file
                /\ dev'.alien = d.alien
  /\ Active' /\ good /\ ~Beyond(d.index) =>
       dev'.index = d.index + 1 /\ dev'.image = [dev.image EXCEPT ![d.index] = c]
  /\ Active' /\ (~good \/ Beyond(d.index)) =>
       dev'.index = d.index /\ dev'.image = dev.image

(* The bitmap still tells the truth when a chunk has been stored.          *)
LEMMA StoredKeeps ==
  ASSUME NEW d \in DevType, GoodBitmap(d), d.index \in Chunks, NEW c \in Contents,
         d.alien = {} => c = Own(d, d.index)
  PROVE  GoodBitmap(Stored(d, c))
<1> DEFINE e == Stored(d, c)
<1>1. /\ d.begun.file \in Files /\ d.image \in [Chunks -> Contents \cup {Nothing}]
  BY FilesOf DEF DevType
<1>2. /\ d.bitmap \subseteq Positions(d.begun.file) /\ Positions(d.begun.file) \subseteq Chunks
  BY <1>1, PositionsFacts DEF GoodBitmap
<1>3. /\ e.file = d.file /\ e.begun = d.begun /\ e.alien = d.alien
      /\ e.bitmap = d.bitmap \cup ({d.index} \cap Positions(d.begun.file))
      /\ e.image = [d.image EXCEPT ![d.index] = c]
  BY <1>2, StoredFacts
<1> HIDE DEF e
<1>4. ASSUME d.begun.fast, d.alien = {}, NEW i \in e.bitmap PROVE InPlace(e, i)
  <2>1. i \in Chunks
    BY <1>2, <1>3
  <2>2. CASE i = d.index
    BY <1>1, <1>3, <1>4, <2>1, <2>2 DEF InPlace, Own
  <2>3. CASE i # d.index
    <3>1. i \in d.bitmap
      BY <1>3, <2>3
    <3>2. d.image[i] = Own(d, i)
      BY <1>4, <3>1 DEF GoodBitmap, InPlace
    <3> QED
      BY <1>1, <1>3, <2>1, <2>3, <3>2 DEF InPlace, Own
  <2> QED
    BY <2>2, <2>3
<1>5. e.bitmap \subseteq Positions(d.begun.file)
  BY <1>2, <1>3
<1>6. GoodBitmap(e)
  <2>1. CASE d.begun.fast
    BY <1>3, <1>4, <1>5, <2>1 DEF GoodBitmap
  <2>2. CASE ~d.begun.fast
    BY <1>3, <1>5, <2>2 DEF GoodBitmap
  <2> QED
    BY <2>1, <2>2
<1> QED
  BY <1>6 DEF e

(* An image of which nothing is missing is whole.                          *)
LEMMA NothingMissing ==
  ASSUME NEW d \in DevType, GoodBitmap(d), {} \in Gaps(d), d.alien = {}, d.begun.fast
  PROVE  Whole(d)
<1>1. Holes(d) = {}
  BY GapsFacts
<1> QED
  BY <1>1 DEF Holes, Whole, GoodBitmap

(* In a slow update that the server goes on with nothing is missing.       *)
LEMMA SlowMissesNothing ==
  ASSUME NEW d \in DevType, GoodBitmap(d), ~d.begun.fast, "file" \notin d.alien,
         NEW gaps \in Gaps(d)
  PROVE  gaps = {} /\ Holes(d) = {}
BY GapsFacts DEF Holes, GoodBitmap

(* A request adds chunks of the file that the server sends.                *)
LEMMA RequestedFacts ==
  ASSUME todo \subseteq Positions(offered.file), NEW gaps, NEW got \in BOOLEAN,
         Requested(gaps, got)
  PROVE  /\ todo' \subseteq Positions(offered.file)
         /\ gaps = {} \/ phase \notin {"done", "repair"} => todo' = todo
         /\ gaps # {} => unasked' = 0
         /\ unasked' \in {0, unasked}
<1>1. gaps = {} => Asks(gaps) = {}
  BY DEF Asks
<1> QED
  BY <1>1 DEF Requested

(* A chunk is stored where it belongs, or another has disturbed the update.*)
LEMMA ChunkKeeps ==
  ASSUME Inv, NEW d, NEW c \in Contents, NEW good \in BOOLEAN, NEW answered \in BOOLEAN,
         NEW error \in BOOLEAN,
         session, Chunk(d, c, good, answered, error), ReadOptions(d, c, good)
  PROVE  /\ dev' \in DevType /\ session' \in BOOLEAN
         /\ RunningInv' /\ BitmapInv' /\ FinishedWhole' /\ AskedInv'
         /\ unasked' \in 0..2
         /\ ServerMoves /\ Progress(d, c, good)
         /\ Active' => ~error
<1>a. /\ dev \in DevType /\ unasked \in 0..2
  BY Zenon DEF Inv, TypeOK, DevType
<1>b. RunningInv /\ BitmapInv /\ FinishedWhole /\ AskedInv /\ ServerInv /\ AgreeInv
  BY DEF Inv
<1>s. todo \subseteq Positions(offered.file)
  BY <1>b DEF ServerInv
<1>o. d \in DevType /\ d.updating = dev.updating
  BY DEF ReadOptions
<1> DEFINE Keeps ==
      /\ dev' \in DevType /\ session' \in BOOLEAN
      /\ RunningInv' /\ BitmapInv' /\ FinishedWhole'
<1>1. CASE dev.updating = 0 /\ Loop(Heard(dev), TRUE) /\ UNCHANGED <<unasked, todo, phase>>
  <2> DEFINE h == Heard(dev)
  <2>1. h \in DevType /\ SameTransfer(dev, h) /\ h.outcome = dev.outcome
    BY <1>a DEF Heard, DevType, SameTransfer
  <2> HIDE DEF h
  <2>2. Handled(h, TRUE)
    BY <1>b, <1>1, <2>1, SameFacts, WholeMeans DEF Handled, BitmapInv, SameTransfer
  <2>3. Loop(h, TRUE)
    BY <1>1 DEF h
  <2>4. Keeps /\ ~Active' /\ dev'.updating = 0
    BY <1>1, <2>1, <2>2, <2>3, LoopKeeps DEF SameTransfer
  <2>5. ServerMoves /\ Progress(d, c, good)
    BY <1>1, <1>s, <2>4 DEF ServerMoves, Progress
  <2> QED
    BY <1>a, <1>1, <2>4, <2>5 DEF AskedInv
<1>n. ASSUME dev.updating # 0
      PROVE  /\ Active /\ GoodBitmap(dev) /\ GoodBitmap(d)
             /\ dev.flashing /\ dev.outcome = "running"
             /\ HasHoles(d)
             /\ "file" \in d.alien <=> "file" \in dev.alien
  <2>1. GoodBitmap(dev) /\ HasHoles(dev)
    BY <1>b, <1>n DEF BitmapInv
  <2>2. Active /\ dev.flashing /\ dev.outcome = "running"
    BY <1>b, <1>n DEF Active, RunningInv
  <2>3. /\ d.bitmap = dev.bitmap /\ d.image = dev.image /\ d.updating = dev.updating
        /\ d.file = dev.file /\ d.begun = dev.begun
        /\ dev.alien \subseteq d.alien /\ d.alien \subseteq dev.alien \cup {"chunk"}
    BY DEF ReadOptions
  <2>4. ("file" \in d.alien <=> "file" \in dev.alien) /\ (d.alien = {} => dev.alien = {})
    BY <2>3
  <2>5. GoodBitmap(d)
    BY <2>1, <2>3, <2>4 DEF GoodBitmap, InPlace, Own
  <2>6. HasHoles(d)
    BY <2>1, <2>3, <2>4 DEF HasHoles, Holes
  <2> QED
    BY <2>1, <2>2, <2>4, <2>5, <2>6
<1>2. CASE /\ dev.updating # 0 /\ (~good \/ Beyond(d.index))
           /\ Loop(d, error)
           /\ unasked' = 0 /\ UNCHANGED <<todo, phase>>
  <2>1. /\ d.flashing = dev.flashing /\ d.outcome = dev.outcome /\ d.image = dev.image
    BY DEF ReadOptions
  <2>2. Handled(d, error)
    BY <1>2, <1>n, <2>1 DEF Handled
  <2>3. Keeps /\ SameTransfer(d, dev') /\ (Active' => ~error)
    BY <1>2, <1>o, <2>2, LoopKeeps
  <2>4. ServerMoves /\ Progress(d, c, good)
    BY <1>2, <1>n, <1>s, <2>1, <2>3 DEF ServerMoves, Progress, SameTransfer
  <2> QED
    BY <1>2, <2>3, <2>4 DEF AskedInv
<1>3. CASE dev.updating # 0 /\ good /\ ~Beyond(d.index)
  <2> DEFINE e == Stored(d, c)
  <2>1. d.index \in Chunks
    BY <1>o, <1>3, TransferAssumption DEF DevType, Beyond, Chunks
  <2>2. d.bitmap \subseteq Chunks
    BY <1>o, <1>3, <1>n, FilesOf, PositionsFacts DEF GoodBitmap
  <2>3. /\ e \in DevType /\ e.updating = dev.updating /\ e.file = d.file
        /\ e.image = [dev.image EXCEPT ![d.index] = c] /\ e.index = d.index + 1
        /\ e.begun = d.begun /\ e.alien = d.alien
        /\ e.flashing /\ e.outcome = "running"
    BY <1>o, <1>3, <1>n, <2>1, <2>2, StoredFacts DEF ReadOptions
  <2>4. GoodBitmap(e)
    <3>1. d.alien = {} => c = Own(d, d.index)
      BY <1>3 DEF ReadOptions, Own
    <3> QED
      BY <1>o, <1>3, <1>n, <2>1, <3>1, StoredKeeps
  <2>5. PICK gaps \in Gaps(e) :
        \/ /\ e.updating = 2 /\ gaps = {}
           /\ Loop(Completed(e), error)
           /\ \/ UNCHANGED <<todo, phase>>
              \/ phase \in {"done", "repair"} /\ phase' = "idle" /\ todo' = {}
           /\ unasked' = 0
        \/ /\ e.updating = 2 /\ gaps # {} /\ Min(gaps) > e.missed
           /\ Loop(Asked(e, gaps), error)
           /\ \E got \in BOOLEAN : Requested(gaps, got)
           /\ UNCHANGED phase
        \/ /\ e.updating = 1 \/ (gaps # {} /\ Min(gaps) <= e.missed)
           /\ Loop(e, error)
           /\ unasked' = 0 /\ UNCHANGED <<todo, phase>>
    BY <1>3 DEF Chunk
  <2>6. gaps \in SUBSET Positions(e.file) /\ ("file" \notin e.alien => gaps = Holes(e))
    BY <2>3, <2>4, GapsFacts
  <2>7. ASSUME e.updating = 2, ~dev.begun.fast PROVE "file" \in dev.alien
    <3>1. Holes(d) = {}
      BY <1>3, <1>n, <2>7 DEF ReadOptions, GoodBitmap, Holes
    <3> QED
      BY <1>o, <1>3, <1>n, <2>3, <2>7, <3>1 DEF HasHoles
  <2>8. ASSUME e.updating = 2, ~offered.fast PROVE phase \notin {"done", "repair"}
    BY <1>3, <1>b, <1>n, <2>7, <2>8 DEF AgreeInv, Going
  <2> HIDE DEF e
  <2>9. CASE /\ e.updating = 2 /\ gaps = {}
             /\ Loop(Completed(e), error)
             /\ \/ UNCHANGED <<todo, phase>>
                \/ phase \in {"done", "repair"} /\ phase' = "idle" /\ todo' = {}
             /\ unasked' = 0
    <3> DEFINE f == Completed(e)
    <3>1. /\ f \in DevType /\ f.updating = 0 /\ f.image = e.image
          /\ f.begun = e.begun /\ f.alien = e.alien
      BY <2>3, CompletedFacts
    <3>2. Loop(f, error)
      BY <2>9
    <3> HIDE DEF f
    <3>3. f.alien = {} => Whole(f)
      <4>1. ASSUME e.alien = {} PROVE Whole(e)
        <5>1. e.begun.fast
          BY <1>3, <1>n, <2>3, <2>7, <2>9, <4>1 DEF ReadOptions
        <5> QED
          BY <2>3, <2>4, <2>9, <4>1, <5>1, NothingMissing
      <4> QED
        BY <3>1, <4>1 DEF Whole, InPlace, Own
    <3>4. Handled(f, error)
      BY <3>1, <3>3 DEF Handled, HasHoles
    <3>5. Keeps /\ ~Active' /\ dev'.updating = 0
      BY <3>1, <3>2, <3>4, LoopKeeps DEF SameTransfer
    <3>6. ServerMoves /\ Progress(d, c, good)
      BY <1>s, <2>8, <2>9, <3>5 DEF ServerMoves, Progress
    <3> QED
      BY <2>9, <3>5, <3>6 DEF AskedInv
  <2>10. CASE /\ e.updating = 2 /\ gaps # {} /\ Min(gaps) > e.missed
              /\ Loop(Asked(e, gaps), error)
              /\ \E got \in BOOLEAN : Requested(gaps, got)
              /\ UNCHANGED phase
    <3> DEFINE f == Asked(e, gaps)
    <3>1. /\ f \in DevType /\ SameTransfer(e, f)
          /\ f.flashing = e.flashing /\ f.outcome = e.outcome
      BY <2>3, <2>6, AskedFacts
    <3>2. Loop(f, error)
      BY <2>10
    <3> HIDE DEF f
    <3>3. Handled(f, error)
      <4>1. HasHoles(e)
        BY <2>6, <2>10 DEF HasHoles
      <4> QED
        BY <2>3, <2>4, <3>1, <4>1, SameFacts DEF Handled
    <3>4. Keeps /\ SameTransfer(f, dev') /\ (Active' => ~error)
      BY <3>1, <3>2, <3>3, LoopKeeps
    <3>5. /\ todo' \subseteq Positions(offered.file) /\ unasked' = 0
          /\ phase \notin {"done", "repair"} => todo' = todo
      BY <1>s, <2>10, RequestedFacts
    <3>6. ServerMoves
      BY <2>8, <2>10, <3>5 DEF ServerMoves
    <3>7. Progress(d, c, good)
      BY <1>3, <1>n, <2>3, <3>1, <3>4 DEF Progress, SameTransfer
    <3> QED
      BY <3>4, <3>5, <3>6, <3>7 DEF AskedInv
  <2>11. CASE /\ e.updating = 1 \/ (gaps # {} /\ Min(gaps) <= e.missed)
              /\ Loop(e, error)
              /\ unasked' = 0 /\ UNCHANGED <<todo, phase>>
    <3>1. Handled(e, error)
      BY <2>3, <2>4, <2>6, <2>11 DEF Handled, HasHoles
    <3>2. Keeps /\ SameTransfer(e, dev') /\ (Active' => ~error)
      BY <2>3, <2>11, <3>1, LoopKeeps
    <3>3. ServerMoves /\ Progress(d, c, good)
      BY <1>3, <1>n, <1>s, <2>3, <2>11, <3>2 DEF ServerMoves, Progress, SameTransfer
    <3> QED
      BY <2>11, <3>2, <3>3 DEF AskedInv
  <2> QED
    BY <2>5, <2>9, <2>10, <2>11
<1> QED
  BY <1>1, <1>2, <1>3 DEF Chunk

-----------------------------------------------------------------------------
(* The invariant is inductive.                                             *)

\* Having no message under way is of the type.
LEMMA NoConType ==
  /\ NoCon \in ConType /\ NoCon.kind = "none" /\ NoCon.answer = "none" /\ NoCon.seen = FALSE
  /\ \A kind \in {"begin", "chunk", "done"}, i \in Chunks :
       /\ Con(kind, i) \in ConType /\ Con(kind, i).kind = kind /\ Con(kind, i).index = i
       /\ Con(kind, i).seen = FALSE /\ Con(kind, i).answer = "none"
<1>1. 0 \in Chunks
  BY TransferAssumption DEF Chunks
<1>2. NoCon \in ConType
  BY <1>1 DEF NoCon, ConType
<1> QED
  BY <1>2 DEF NoCon, Con, ConType

(* What the invariant says of the types, with names for those of records,  *)
(* and without what follows from the rest of it.                           *)
Types == /\ dev \in DevType /\ session \in BOOLEAN
         /\ unasked \in 0..2 /\ net \subseteq Contents /\ offered \in Offers
         /\ phase \in Phases /\ con \in ConType /\ offers \in 0..MaxOffers

\* What the server has to send are chunks.
LEMMA TodoChunks == ServerInv /\ offered \in Offers /\ phase \in Phases => todo \subseteq Chunks
<1> SUFFICES ASSUME ServerInv, offered \in Offers, phase \in Phases PROVE todo \subseteq Chunks
  OBVIOUS
<1>1. CASE phase \in {"idle", "offered"}
  BY <1>1 DEF ServerInv
<1>2. CASE phase \in {"sending", "done", "repair"}
  <2>1. Length[offered.file] < MaxChunks /\ todo \subseteq Positions(offered.file)
    BY <1>2 DEF ServerInv, Going
  <2>2. offered.file \in Files
    BY DEF Offers
  <2> QED
    BY <2>1, <2>2, PositionsFacts
<1> QED
  BY <1>1, <1>2 DEF Phases

\* The type invariant, its parts one by one.
LEMMA TypesOfInv == TypeOK => Types
BY Zenon DEF TypeOK, Types, DevType, ConType, Phases

\* And back.
LEMMA InvOfTypes == Types /\ ServerInv => TypeOK
<1>1. Types /\ ServerInv => todo \subseteq Chunks
  BY TodoChunks DEF Types
<1> QED
  BY <1>1, Zenon DEF TypeOK, Types, DevType, ConType, Phases

\* The same of the next state.
LEMMA InvOfTypesNext == Types' /\ ServerInv' => TypeOK'
<1>1. (Types /\ ServerInv => TypeOK)'
  BY InvOfTypes, PTL
<1> QED
  BY <1>1

\* The invariant holds at power-on.
LEMMA InvInit == Init => Inv
<1> SUFFICES ASSUME Init PROVE Inv
  OBVIOUS
<1>i. /\ dev = PowerOn /\ session = FALSE /\ unasked = 0 /\ net = {} /\ offered = dev.begun
      /\ phase = "idle" /\ todo = {} /\ con = NoCon /\ offers = 0
  BY DEF Init
<1>1. Types
  <2>1. 0 \in 0..2 /\ 0 \in 0..MaxOffers
    BY TransferAssumption
  <2> QED
    BY <1>i, <2>1, PowerOnFacts, NoConType DEF Types, Phases
<1>2. BitmapInv
  BY <1>i, PowerOnFacts DEF BitmapInv, HasHoles
<1>3. RunningInv /\ FinishedWhole /\ AgreeInv /\ OrderInv /\ AskedInv
  BY <1>i, PowerOnFacts DEF RunningInv, FinishedWhole, AgreeInv, OrderInv, AskedInv, Active
<1>4. ConInv /\ ServerInv
  BY <1>i, NoConType DEF ConInv, ServerInv, Going
<1> QED
  BY <1>1, <1>2, <1>3, <1>4, InvOfTypes DEF Inv

(* The answer to a message of the server.                                  *)
LEMMA AnswerFacts ==
  ASSUME con \in ConType, NEW a \in {"none", "refused", "ready", "ok", "bad"}, Answer(a)
  PROVE  /\ con' \in ConType /\ con'.kind = con.kind /\ con'.index = con.index
         /\ con'.seen = TRUE /\ con'.answer = a
BY DEF Answer, ConType

(* What a device does to the server's side of an update.                   *)
LEMMA MovesKeep ==
  ASSUME ServerInv, ServerMoves, offered' = offered, phase \in Phases,
         con'.kind = con.kind, con'.index = con.index,
         con'.answer = "ready" => con.answer = "ready"
  PROVE  ServerInv' /\ (Going' => Going) /\ phase' \in Phases
<1>1. Going' => Going
  BY DEF Going, ServerMoves
<1>2. phase' \in Phases
  BY DEF ServerMoves, Phases
<1>4. phase' = phase \/ (phase \in {"done", "repair"} /\ phase' = "idle" /\ todo' = {})
  BY DEF ServerMoves
<1>5. con.kind \in {"begin", "chunk"} \/ ~offered.fast => phase' = phase /\ todo' = todo
  BY DEF ServerMoves, ServerInv
<1>6. /\ Going' => Length[offered'.file] < MaxChunks
      /\ todo' \subseteq Positions(offered'.file)
  BY <1>1 DEF ServerInv, ServerMoves
<1>7. phase' \in {"idle", "offered"} => todo' = {}
  BY <1>4 DEF ServerInv, ServerMoves
<1> QED
  BY <1>1, <1>2, <1>5, <1>6, <1>7 DEF ServerInv

\* The beginning of an update keeps the invariant.
LEMMA UpdateBeginKeepsInv == ASSUME Inv, UpdateBegin PROVE Inv'
<1>a. /\ Types /\ RunningInv /\ BitmapInv /\ FinishedWhole
      /\ ConInv /\ ServerInv /\ AgreeInv /\ OrderInv /\ AskedInv
  BY TypesOfInv DEF Inv
<1>b. /\ session /\ con.kind = "begin" /\ ~con.seen /\ phase = "offered"
      /\ net' = net /\ offered' = offered /\ phase' = phase /\ todo' = todo /\ offers' = offers
  BY <1>a DEF UpdateBegin, Received, ServerInv
<1>d. dev \in DevType /\ con \in ConType /\ offered \in Offers
  BY <1>a DEF Types
<1>1. CASE \E error \in BOOLEAN :
             /\ Loop(Described(dev), error)
             /\ Answer("none") \/ Answer("refused")
             /\ UNCHANGED unasked
  <2>1. PICK error \in BOOLEAN :
             /\ Loop(Described(dev), error)
             /\ Answer("none") \/ Answer("refused")
             /\ UNCHANGED unasked
    BY <1>1
  <2>2. PICK a \in {"refused", "none"} : Answer(a)
    BY <2>1
  <2>3. con' \in ConType /\ con'.kind = "begin" /\ con'.seen = TRUE /\ con'.answer = a
    BY <1>b, <1>d, <2>2, AnswerFacts
  <2>4. ~Going'
    BY <1>b, <2>3 DEF Going
  <2>5. ConInv' /\ ServerInv' /\ AgreeInv'
    BY <1>a, <1>b, <2>3, <2>4 DEF ConInv, ServerInv, AgreeInv
  <2> DEFINE e == Described(dev)
  <2>6. /\ e \in DevType /\ e.file = offered.file
        /\ e.updating = dev.updating /\ e.bitmap = dev.bitmap /\ e.index = dev.index
        /\ e.image = dev.image /\ e.begun = dev.begun /\ e.quiet = dev.quiet
        /\ e.flashing = dev.flashing /\ e.outcome = dev.outcome
        /\ dev.alien \subseteq e.alien
        /\ dev.updating # 0 /\ Length[offered.file] # Length[dev.begun.file] => "file" \in e.alien
    BY <1>d, DescribedFacts
  <2>7. Loop(e, error)
    BY <2>1
  <2> HIDE DEF e
  <2>8. Handled(e, error)
    <3>1. ASSUME dev.updating # 0 PROVE GoodBitmap(e)
      <4>1. GoodBitmap(dev)
        BY <1>a, <3>1 DEF BitmapInv
      <4>2. "file" \notin e.alien => Length[e.file] = Length[e.begun.file]
        BY <2>6, <3>1
      <4>3. e.alien = {} => dev.alien = {}
        BY <2>6
      <4> QED
        BY <2>6, <4>1, <4>2, <4>3 DEF GoodBitmap, InPlace, Own
    <3>2. HasHoles(e)
      BY <1>a, <2>6 DEF BitmapInv, HasHoles, Holes
    <3>3. e.outcome = "finished" /\ e.alien = {} => Whole(e)
      BY <1>a, <2>6, WholeMeans DEF Whole, InPlace, Own
    <3>4. dev.updating # 0 => dev.flashing /\ dev.outcome = "running"
      BY <1>a, <1>b DEF RunningInv, Active
    <3> QED
      BY <2>6, <3>1, <3>2, <3>3, <3>4 DEF Handled
  <2>9. /\ dev' \in DevType /\ session' \in BOOLEAN
        /\ RunningInv' /\ BitmapInv' /\ FinishedWhole'
        /\ SameTransfer(e, dev') /\ dev'.quiet = e.quiet
    BY <1>b, <2>6, <2>7, <2>8, LoopKeeps
  <2>10. Types'
    BY <1>a, <1>b, <2>1, <2>3, <2>9 DEF Types
  <2>11. AskedInv'
    BY <1>a, <1>b, <2>1, <2>6, <2>9 DEF AskedInv, SameTransfer
  <2>12. OrderInv'
    <3>1. dev'.alien = {} => dev.alien = {}
      BY <2>6, <2>9 DEF SameTransfer
    <3> QED
      BY <1>a, <1>b, <2>3, <2>6, <2>9, <3>1 DEF OrderInv, Active, SameTransfer, InPlace, Own
  <2> QED
    BY <2>5, <2>9, <2>10, <2>11, <2>12, InvOfTypesNext DEF Inv
<1>2. CASE \E got, error \in BOOLEAN :
             /\ Length[offered.file] < MaxChunks
             /\ Loop(Begun(dev), error)
             /\ Answer(IF got THEN "ready" ELSE "none")
             /\ unasked' = 0
  <2>1. PICK got \in BOOLEAN, error \in BOOLEAN :
             /\ Length[offered.file] < MaxChunks
             /\ Loop(Begun(dev), error)
             /\ Answer(IF got THEN "ready" ELSE "none")
             /\ unasked' = 0
    BY <1>2
  <2> DEFINE d == Begun(dev)
             a == IF got THEN "ready" ELSE "none"
  <2>2. /\ d \in DevType /\ d.updating = 1 /\ d.index = 0
        /\ d.bitmap = IF offered.fast THEN {} ELSE Positions(offered.file)
        /\ d.begun = offered /\ d.file = offered.file /\ d.alien = {}
        /\ d.flashing = TRUE /\ d.outcome = "running"
    BY <1>d, <2>1, BegunFacts
  <2>3. Loop(d, error) /\ Answer(a) /\ a \in {"none", "ready"} /\ unasked' = 0
    BY <2>1
  <2> HIDE DEF d, a
  <2>4. Handled(d, error)
    BY <2>1, <2>2 DEF Handled, GoodBitmap, HasHoles
  <2>5. /\ dev' \in DevType /\ session' \in BOOLEAN
        /\ RunningInv' /\ BitmapInv' /\ FinishedWhole'
        /\ SameTransfer(d, dev')
    BY <1>b, <2>2, <2>3, <2>4, LoopKeeps
  <2>6. con' \in ConType /\ con'.kind = "begin" /\ con'.seen = TRUE /\ con'.answer = a
    BY <1>b, <1>d, <2>3, AnswerFacts
  <2>7. ConInv' /\ ServerInv'
    BY <1>a, <1>b, <2>1, <2>3, <2>6 DEF ConInv, ServerInv, Going
  <2>8. AgreeInv'
    BY <1>b, <2>2, <2>5 DEF AgreeInv, SameTransfer
  <2>9. OrderInv'
    <3>1. \A j \in Positions(dev'.begun.file) : ~(j < 0)
      BY <1>d, <2>2, <2>5, FilesOf, PositionsFacts DEF SameTransfer
    <3> QED
      BY <1>b, <2>2, <2>5, <2>6, <3>1 DEF OrderInv, SameTransfer
  <2>10. Types'
    BY <1>a, <1>b, <2>3, <2>5, <2>6 DEF Types
  <2> QED
    BY <2>3, <2>5, <2>7, <2>8, <2>9, <2>10, InvOfTypesNext DEF Inv, AskedInv
<1> QED
  BY <1>1, <1>2 DEF UpdateBegin

\* A chunk of a fast update keeps the invariant.
LEMMA FastChunkKeepsInv == ASSUME Inv, FastChunk PROVE Inv'
<1>a. Types /\ ConInv /\ ServerInv /\ AgreeInv /\ BitmapInv
  BY TypesOfInv DEF Inv
<1>1. PICK c \in net, good \in BOOLEAN, error \in BOOLEAN :
        /\ session
        /\ Chunk(Indexed(dev, c, good), c, good, FALSE, error)
        /\ net' = net \ {c}
        /\ UNCHANGED <<offered, con, offers>>
  BY DEF FastChunk
<1> DEFINE d == Indexed(dev, c, good)
           a == IF ~dev.begun.fast \/ (good /\ c.file # dev.begun.file)
                THEN dev.alien \cup {"chunk"} ELSE dev.alien
<1>2. c \in Contents /\ c.file \in Files /\ c.index \in Chunks /\ dev \in DevType
  BY <1>a DEF Types, Contents
<1>3. c.index \in 0..MaxChunks
  BY <1>2, TransferAssumption DEF Chunks
<1>4. a \in SUBSET {"chunk", "file"}
  BY <1>2 DEF DevType
<1>5. Heard(dev) \in DevType /\ Heard(dev).begun = dev.begun /\ Heard(dev).alien = dev.alien
  BY <1>2 DEF Heard, DevType
<1>6. d = [Heard(dev) EXCEPT !.index = c.index, !.alien = a]
  BY <1>5 DEF Indexed
<1>7. dev.alien \subseteq a /\ a \subseteq dev.alien \cup {"chunk"}
  OBVIOUS
<1>8. a = {} => dev.begun.fast /\ (good => c.file = dev.begun.file)
  OBVIOUS
<1> HIDE DEF a, d
<1>9. /\ d \in DevType /\ d.index = c.index /\ d.alien = a
      /\ d.updating = dev.updating /\ d.bitmap = dev.bitmap /\ d.image = dev.image
      /\ d.file = dev.file /\ d.begun = dev.begun
      /\ d.flashing = dev.flashing /\ d.outcome = dev.outcome
  BY <1>2, <1>3, <1>4, <1>6 DEF Heard, DevType
<1>10. ReadOptions(d, c, good)
  <2>1. dev.updating # 0 /\ good /\ d.alien = {} => c = Own(dev, d.index)
    BY <1>2, <1>8, <1>9 DEF Own, Contents
  <2> QED
    BY <1>7, <1>9, <2>1 DEF ReadOptions
<1>11. Chunk(d, c, good, FALSE, error) /\ session /\ FALSE \in BOOLEAN
  BY <1>1 DEF d
<1>12. /\ dev' \in DevType /\ session' \in BOOLEAN
       /\ RunningInv' /\ BitmapInv' /\ FinishedWhole' /\ AskedInv'
       /\ unasked' \in 0..2
       /\ ServerMoves /\ Progress(d, c, good)
  BY <1>2, <1>10, <1>11, ChunkKeeps
<1>13. ServerInv' /\ (Going' => Going) /\ phase' \in Phases
  BY <1>a, <1>1, <1>12, MovesKeep DEF Types
<1>14. Types'
  BY <1>a, <1>1, <1>12, <1>13 DEF Types
<1>15. ConInv'
  BY <1>a, <1>1 DEF ConInv
<1>16. AgreeInv'
  BY <1>a, <1>1, <1>7, <1>9, <1>12, <1>13 DEF AgreeInv, Progress
<1>17. OrderInv'
  BY <1>8, <1>9, <1>12 DEF OrderInv, Progress
<1> QED
  BY <1>12, <1>13, <1>14, <1>15, <1>16, <1>17, InvOfTypesNext DEF Inv

\* A chunk of a slow update keeps the invariant.
LEMMA SlowChunkKeepsInv == ASSUME Inv, SlowChunk PROVE Inv'
<1>a. Types /\ ConInv /\ ServerInv /\ AgreeInv /\ OrderInv
  BY TypesOfInv DEF Inv
<1> DEFINE c == [file |-> offered.file, index |-> con.index]
           d == Heard(dev)
<1>1. PICK good \in BOOLEAN, error \in BOOLEAN :
        /\ Received("chunk")
        /\ Chunk(d, c, good, TRUE, error)
        /\ \/ Answer(IF dev.updating = 0 \/ (good /\ Beyond(dev.index)) THEN "none"
                     ELSE IF good THEN "ok" ELSE "bad")
           \/ error /\ Answer("none")
        /\ UNCHANGED <<net, offered, offers>>
  BY DEF SlowChunk
<1>2. /\ session /\ con.kind = "chunk" /\ ~con.seen /\ con.answer = "none" /\ ~offered.fast
      /\ phase = "sending" /\ con.index \in todo /\ (\A j \in todo : con.index <= j)
      /\ con.index \in Chunks /\ todo \subseteq Positions(offered.file)
      /\ dev \in DevType /\ con \in ConType /\ offered \in Offers /\ Going
  BY <1>a, <1>1 DEF Received, ConInv, ServerInv, Types, ConType, Going
<1>3. c \in Contents /\ c.file = offered.file /\ c.index = con.index
  BY <1>2 DEF Contents, Offers
<1>4. /\ d \in DevType /\ d.index = dev.index /\ d.alien = dev.alien
      /\ d.updating = dev.updating /\ d.bitmap = dev.bitmap /\ d.image = dev.image
      /\ d.file = dev.file /\ d.begun = dev.begun
      /\ d.flashing = dev.flashing /\ d.outcome = dev.outcome
  BY <1>2 DEF Heard, DevType
<1>5. ASSUME Active PROVE dev.begun = offered
  BY <1>a, <1>2, <1>5 DEF AgreeInv
<1>6. ASSUME Active, dev.alien = {}
      PROVE  /\ dev.index = con.index
             /\ todo = {j \in Positions(offered.file) : con.index <= j}
             /\ \A j \in Positions(offered.file) : j < con.index => InPlace(dev, j)
  <2>1. /\ todo = {j \in Positions(offered.file) : dev.index <= j}
        /\ \A j \in Positions(offered.file) : j < dev.index => InPlace(dev, j)
    BY <1>a, <1>2, <1>5, <1>6 DEF OrderInv
  <2>2. dev.index \in Nat /\ con.index \in Nat /\ offered.file \in Files
    BY <1>2, TransferAssumption DEF DevType, Chunks, Offers
  <2>3. dev.index <= con.index /\ con.index < Length[offered.file] /\ Length[offered.file] \in Nat
    BY <1>2, <2>1, <2>2, PositionsFacts
  <2>4. dev.index \in todo
    <3>1. dev.index < Length[offered.file] /\ dev.index <= dev.index
      BY <2>2, <2>3
    <3> QED
      BY <2>1, <2>2, <3>1, PositionsFacts
  <2>5. con.index <= dev.index
    BY <1>2, <2>4
  <2>6. dev.index = con.index
    BY <2>2, <2>3, <2>5
  <2> QED
    BY <2>1, <2>6
<1> HIDE DEF c, d
<1>7. ReadOptions(d, c, good)
  <2>1. dev.updating # 0 /\ good /\ d.alien = {} => c = Own(dev, d.index)
    BY <1>2, <1>4, <1>5, <1>6 DEF c, Own, Active
  <2> QED
    BY <1>4, <2>1 DEF ReadOptions
<1>8. Chunk(d, c, good, TRUE, error) /\ session /\ TRUE \in BOOLEAN
  BY <1>1, <1>2
<1>9. /\ dev' \in DevType /\ session' \in BOOLEAN
      /\ RunningInv' /\ BitmapInv' /\ FinishedWhole' /\ AskedInv'
      /\ unasked' \in 0..2
      /\ ServerMoves /\ Progress(d, c, good)
      /\ Active' => ~error
  BY <1>3, <1>7, <1>8, ChunkKeeps
<1>10. PICK a \in {"none", "ok", "bad"} :
         /\ Answer(a)
         /\ Active /\ ~error => a = IF good /\ Beyond(dev.index) THEN "none"
                                    ELSE IF good THEN "ok" ELSE "bad"
  BY <1>1 DEF Active
<1>11. /\ con' \in ConType /\ con'.kind = "chunk" /\ con'.index = con.index
       /\ con'.seen = TRUE /\ con'.answer = a
  BY <1>2, <1>10, AnswerFacts
<1>12. ServerInv' /\ (Going' => Going) /\ phase' \in Phases /\ phase' = phase /\ todo' = todo
  <2>1. phase' = phase /\ todo' = todo
    BY <1>2, <1>9 DEF ServerMoves
  <2> QED
    BY <1>a, <1>1, <1>2, <1>9, <1>11, <2>1, MovesKeep DEF Types
<1>13. Types'
  BY <1>a, <1>1, <1>9, <1>11, <1>12 DEF Types
<1>14. ConInv'
  BY <1>11 DEF ConInv
<1>15. AgreeInv'
  BY <1>a, <1>1, <1>4, <1>9, <1>12 DEF AgreeInv, Progress
<1>16. OrderInv'
  <2>1. SUFFICES ASSUME Active', dev'.alien = {}
                 PROVE  /\ \A j \in Positions(dev'.begun.file) : j < dev'.index => InPlace(dev', j)
                        /\ IF a = "ok"
                           THEN /\ dev'.index = con.index + 1
                                /\ todo = {j \in Positions(dev'.begun.file) : con.index <= j}
                           ELSE todo = {j \in Positions(dev'.begun.file) : dev'.index <= j}
    BY <1>2, <1>11, <1>12 DEF OrderInv
  <2>2. /\ Active /\ ~error /\ dev.alien = {} /\ dev.begun = offered /\ dev'.begun = offered
    BY <1>4, <1>5, <1>9, <2>1 DEF Progress
  <2>3. /\ dev.index = con.index
        /\ todo = {j \in Positions(offered.file) : con.index <= j}
        /\ \A j \in Positions(offered.file) : j < con.index => InPlace(dev, j)
    BY <1>6, <2>2
  <2>4. /\ dev.image \in [Chunks -> Contents \cup {Nothing}]
        /\ offered.file \in Files /\ con.index \in Nat
        /\ Positions(offered.file) \subseteq Chunks /\ Positions(offered.file) \subseteq Nat
    BY <1>a, <1>2, PositionsFacts, TransferAssumption DEF DevType, ServerInv, Offers, Chunks
  <2>5. ~Beyond(dev.index)
    BY <1>2, <2>3, TransferAssumption DEF Beyond, Chunks
  <2>6. CASE good
    <3>1. /\ dev'.index = con.index + 1 /\ dev'.image = [dev.image EXCEPT ![con.index] = c]
          /\ a = "ok"
      BY <1>4, <1>9, <1>10, <2>1, <2>2, <2>3, <2>5, <2>6 DEF Progress
    <3>2. ASSUME NEW j \in Positions(offered.file), j < con.index + 1 PROVE InPlace(dev', j)
      <4>1. j \in Nat /\ j \in Chunks
        BY <2>4
      <4>2. CASE j = con.index
        <5>1. dev'.image[j] = c
          BY <2>4, <3>1, <4>1, <4>2
        <5> QED
          BY <2>2, <4>2, <5>1 DEF InPlace, Own, c
      <4>3. CASE j < con.index
        <5>1. dev'.image[j] = dev.image[j]
          BY <2>4, <3>1, <4>1, <4>3
        <5> QED
          BY <2>2, <2>3, <4>3, <5>1 DEF InPlace, Own
      <4> QED
        BY <2>4, <3>2, <4>1, <4>2, <4>3
    <3> QED
      BY <2>2, <2>3, <3>1, <3>2
  <2>7. CASE ~good
    <3>1. dev'.index = con.index /\ dev'.image = dev.image /\ a = "bad"
      BY <1>4, <1>9, <1>10, <2>1, <2>2, <2>3, <2>7 DEF Progress
    <3> QED
      BY <2>2, <2>3, <3>1 DEF InPlace, Own
  <2> QED
    BY <2>6, <2>7
<1> QED
  BY <1>9, <1>12, <1>13, <1>14, <1>15, <1>16, InvOfTypesNext DEF Inv

(* A request for the missing chunks, of an update the server goes on with. *)
LEMMA RequestKeeps ==
  ASSUME Inv, NEW d \in DevType, NEW gaps \in Gaps(d), Request(d, gaps), Active,
         d.updating = 2, d.bitmap = dev.bitmap, d.image = dev.image, d.index = dev.index,
         d.file = dev.file, d.begun = dev.begun, d.alien = dev.alien,
         d.flashing = dev.flashing, d.outcome = dev.outcome,
         phase' = phase, HasHoles(d)
  PROVE  /\ dev' \in DevType /\ session' \in BOOLEAN
         /\ RunningInv' /\ BitmapInv' /\ FinishedWhole'
         /\ unasked' \in 0..2 /\ ("file" \notin dev.alien => unasked' = 0)
         /\ dev'.updating = 2 /\ dev'.begun = dev.begun /\ dev'.file = dev.file
         /\ dev'.alien = dev.alien /\ dev'.image = dev.image /\ dev'.index = dev.index
         /\ ServerMoves
<1>a. /\ dev \in DevType /\ unasked \in 0..2 /\ session
      /\ BitmapInv /\ RunningInv /\ ServerInv /\ AgreeInv
  BY TypesOfInv DEF Inv, Types, Active
<1>1. PICK got \in BOOLEAN, error \in BOOLEAN :
        /\ Loop([Asked(d, gaps) EXCEPT !.quiet = d.quiet /\ error], error)
        /\ Requested(gaps, got)
  BY DEF Request
<1>2. GoodBitmap(d)
  BY <1>a DEF BitmapInv, GoodBitmap, InPlace, Own, Active
<1>3. gaps \in SUBSET Positions(d.file) /\ ("file" \notin d.alien => gaps = Holes(d))
  BY <1>2, GapsFacts
<1> DEFINE f == Asked(d, gaps)
           q == d.quiet /\ error
           e == [f EXCEPT !.quiet = q]
<1>4. /\ f \in DevType /\ SameTransfer(d, f)
      /\ f.flashing = d.flashing /\ f.outcome = d.outcome
  BY <1>3, AskedFacts
<1>5. q \in BOOLEAN
  BY DEF DevType
<1>6. Loop(e, error)
  BY <1>1
<1> HIDE DEF f, q
<1>7. /\ e \in DevType /\ SameTransfer(d, e)
      /\ e.flashing = d.flashing /\ e.outcome = d.outcome
  BY <1>4, <1>5 DEF DevType, SameTransfer
<1> HIDE DEF e
<1>8. Handled(e, error)
  <2>1. dev.flashing /\ dev.outcome = "running"
    BY <1>a DEF RunningInv
  <2> QED
    BY <1>2, <1>7, <2>1, SameFacts DEF Handled
<1>9. /\ dev' \in DevType /\ session' \in BOOLEAN
      /\ RunningInv' /\ BitmapInv' /\ FinishedWhole' /\ SameTransfer(e, dev')
  BY <1>a, <1>6, <1>7, <1>8, LoopKeeps
<1>10. /\ todo' \subseteq Positions(offered.file)
       /\ gaps = {} \/ phase \notin {"done", "repair"} => todo' = todo
       /\ gaps # {} => unasked' = 0
       /\ unasked' \in {0, unasked}
  BY <1>a, <1>1, RequestedFacts DEF ServerInv
<1>11. "file" \notin d.alien => gaps # {}
  BY <1>3 DEF HasHoles
<1>12. ASSUME ~offered.fast, phase \in {"done", "repair"} PROVE gaps = {}
  <2>1. dev.begun = offered /\ "file" \notin d.alien
    BY <1>a, <1>12 DEF AgreeInv, Going
  <2> QED
    BY <1>2, <1>12, <2>1, SlowMissesNothing
<1>13. ServerMoves
  BY <1>10, <1>12 DEF ServerMoves
<1>14. unasked' \in 0..2
  BY <1>a, <1>10
<1> QED
  BY <1>7, <1>9, <1>10, <1>11, <1>13, <1>14 DEF SameTransfer

\* The end of an update keeps the invariant.
LEMMA UpdateDoneKeepsInv == ASSUME Inv, UpdateDone PROVE Inv'
<1>a. /\ Types /\ RunningInv /\ BitmapInv /\ FinishedWhole
      /\ ConInv /\ ServerInv /\ AgreeInv /\ OrderInv /\ AskedInv
  BY TypesOfInv DEF Inv
<1>b. /\ session /\ con.kind = "done" /\ ~con.seen
      /\ net' = net /\ offered' = offered /\ phase' = phase /\ offers' = offers
  BY DEF UpdateDone, Received
<1>d. dev \in DevType /\ con \in ConType /\ offered \in Offers /\ unasked \in 0..2
  BY <1>a DEF Types
<1>g. Active => dev.begun = offered /\ dev.file = offered.file /\ "file" \notin dev.alien
  BY <1>a, <1>b DEF AgreeInv, Going
<1>s. UNCHANGED todo => ServerMoves
  BY <1>a, <1>b DEF ServerMoves, ServerInv
<1>1. PICK gaps \in Gaps(dev) :
        LET missing == gaps # {}
            d == UpdateDoneAnswered(missing)
        IN \/ /\ \E a \in {"none", IF missing THEN "bad" ELSE "ok"} :
                   /\ a = "none" \/ dev.updating = 0
                   /\ Answer(a)
              /\ Loop(d, TRUE)
              /\ UNCHANGED <<unasked, todo>>
           \/ /\ dev.updating # 0
              /\ Answer(IF missing THEN "bad" ELSE "ok")
              /\ \/ ~missing /\ Loop(Completed(d), FALSE) /\ UNCHANGED <<unasked, todo>>
                 \/ missing /\ Request([Heard(d) EXCEPT !.updating = 2], gaps)
  BY DEF UpdateDone
<1> DEFINE d == UpdateDoneAnswered(gaps # {})
<1>2. /\ d \in DevType /\ SameTransfer(dev, d) /\ d.outcome = dev.outcome
      /\ gaps # {} => d = dev
  BY <1>d, ValidateFacts DEF UpdateDoneAnswered, SameTransfer
<1> DEFINE Kept ==
      /\ dev' \in DevType /\ session' \in BOOLEAN
      /\ RunningInv' /\ BitmapInv' /\ FinishedWhole' /\ AskedInv'
      /\ unasked' \in 0..2 /\ ServerMoves
      /\ Active' => /\ Active /\ dev'.begun = dev.begun /\ dev'.file = dev.file
                    /\ dev'.alien = dev.alien /\ dev.begun.fast
<1>o. ASSUME NEW a \in {"none", "ok", "bad"}, Answer(a), Kept
      PROVE  Inv'
  <2>1. /\ con' \in ConType /\ con'.kind = "done" /\ con'.index = con.index
        /\ con'.seen = TRUE /\ con'.answer = a
    BY <1>b, <1>d, <1>o, AnswerFacts
  <2>2. ServerInv' /\ (Going' => Going) /\ phase' \in Phases
    BY <1>a, <1>b, <1>o, <2>1, MovesKeep DEF Types
  <2>3. ConInv'
    BY <2>1 DEF ConInv
  <2>4. AgreeInv'
    BY <1>b, <1>g, <1>o DEF AgreeInv
  <2>5. OrderInv'
    BY <1>o DEF OrderInv
  <2>6. Types'
    BY <1>a, <1>b, <1>o, <2>1, <2>2 DEF Types
  <2> QED
    BY <1>o, <2>2, <2>3, <2>4, <2>5, <2>6, InvOfTypesNext DEF Inv
<1>3. CASE /\ \E a \in {"none", IF gaps # {} THEN "bad" ELSE "ok"} :
                /\ a = "none" \/ dev.updating = 0
                /\ Answer(a)
           /\ Loop(d, TRUE)
           /\ UNCHANGED <<unasked, todo>>
  <2> HIDE DEF d
  <2>1. Handled(d, TRUE)
    BY <1>a, <1>2, SameFacts, WholeMeans DEF Handled, SameTransfer, BitmapInv
  <2>2. /\ dev' \in DevType /\ session' \in BOOLEAN
        /\ RunningInv' /\ BitmapInv' /\ FinishedWhole' /\ ~Active' /\ session' = FALSE
    BY <1>b, <1>2, <1>3, <2>1, LoopKeeps DEF Loop
  <2>3. Kept
    BY <1>d, <1>3, <1>s, <2>2 DEF AskedInv
  <2>4. PICK a \in {"none", "ok", "bad"} : Answer(a)
    BY <1>3
  <2> QED
    BY <1>o, <2>3, <2>4
<1>4. CASE dev.updating # 0 /\ gaps = {} /\ Loop(Completed(d), FALSE) /\ UNCHANGED <<unasked, todo>>
           /\ Answer(IF gaps # {} THEN "bad" ELSE "ok")
  <2> DEFINE e == Completed(d)
  <2>1. GoodBitmap(dev) /\ Active
    BY <1>a, <1>b, <1>4 DEF BitmapInv, Active
  <2>2. ASSUME dev.alien = {} PROVE Whole(dev)
    <3>1. CASE dev.begun.fast
      BY <1>d, <1>4, <2>1, <2>2, <3>1, NothingMissing
    <3>2. CASE ~dev.begun.fast
      <4>1. phase = "done"
        BY <1>a, <1>b, <1>g, <2>1, <3>2 DEF ServerInv
      <4>2. /\ Length[dev.begun.file] <= dev.index
            /\ \A j \in Positions(dev.begun.file) : j < dev.index => InPlace(dev, j)
        BY <1>a, <2>1, <2>2, <3>2, <4>1 DEF OrderInv
      <4>3. /\ Length[dev.begun.file] \in Nat /\ dev.index \in Nat
            /\ \A j \in Positions(dev.begun.file) : j \in Nat /\ j < Length[dev.begun.file]
        BY <1>d, FilesOf, PositionsFacts, TransferAssumption DEF DevType
      <4> QED
        BY <4>2, <4>3 DEF Whole
    <3> QED
      BY <3>1, <3>2
  <2>3. /\ e \in DevType /\ e.updating = 0 /\ e.image = dev.image
        /\ e.begun = dev.begun /\ e.alien = dev.alien
    BY <1>2, CompletedFacts DEF SameTransfer
  <2>4. Loop(e, FALSE)
    BY <1>4
  <2> HIDE DEF e
  <2>5. Handled(e, FALSE)
    BY <2>2, <2>3 DEF Handled, HasHoles, Whole, InPlace, Own
  <2>6. /\ dev' \in DevType /\ session' \in BOOLEAN
        /\ RunningInv' /\ BitmapInv' /\ FinishedWhole' /\ ~Active' /\ dev'.updating = 0
    BY <1>b, <2>3, <2>4, <2>5, LoopKeeps DEF SameTransfer
  <2>7. Kept
    BY <1>d, <1>4, <1>s, <2>6 DEF AskedInv
  <2> QED
    BY <1>o, <1>4, <2>7
<1>5. CASE /\ dev.updating # 0 /\ gaps # {}
           /\ Answer(IF gaps # {} THEN "bad" ELSE "ok")
           /\ Request([Heard(d) EXCEPT !.updating = 2], gaps)
  <2> DEFINE e == [Heard(dev) EXCEPT !.updating = 2]
  <2>1. Request(e, gaps)
    BY <1>2, <1>5
  <2>2. /\ e \in DevType /\ e.updating = 2 /\ e.bitmap = dev.bitmap /\ e.image = dev.image
        /\ e.index = dev.index /\ e.file = dev.file /\ e.begun = dev.begun
        /\ e.alien = dev.alien /\ e.flashing = dev.flashing /\ e.outcome = dev.outcome
    <3>1. 2 \in 0..2
      OBVIOUS
    <3> QED
      BY <1>d, <3>1 DEF Heard, DevType
  <2> HIDE DEF e
  <2>3. GoodBitmap(dev) /\ Active
    BY <1>a, <1>b, <1>5 DEF BitmapInv, Active
  <2>4. gaps \in Gaps(e)
    BY <2>2 DEF Gaps
  <2>5. gaps = Holes(dev) /\ "file" \notin dev.alien
    BY <1>d, <1>g, <2>3, GapsFacts
  <2>6. HasHoles(e)
    BY <1>5, <2>2, <2>5 DEF HasHoles, Holes
  <2>7. dev.begun.fast
    BY <1>d, <1>5, <2>3, <2>5, SlowMissesNothing
  <2>8. /\ dev' \in DevType /\ session' \in BOOLEAN
        /\ RunningInv' /\ BitmapInv' /\ FinishedWhole'
        /\ unasked' \in 0..2 /\ unasked' = 0
        /\ dev'.begun = dev.begun /\ dev'.file = dev.file /\ dev'.alien = dev.alien
        /\ ServerMoves
    BY <1>b, <2>1, <2>2, <2>3, <2>4, <2>5, <2>6, RequestKeeps
  <2>9. Kept
    BY <2>3, <2>7, <2>8 DEF AskedInv
  <2> QED
    BY <1>o, <1>5, <2>9
<1> QED
  BY <1>1, <1>3, <1>4, <1>5

\* An idle turn of the event loop, which asks for chunks, keeps the invariant.
LEMMA IdleKeepsInv == ASSUME Inv, Idle PROVE Inv'
<1>a. /\ Types /\ RunningInv /\ BitmapInv /\ FinishedWhole
      /\ ConInv /\ ServerInv /\ AgreeInv /\ OrderInv /\ AskedInv
  BY TypesOfInv DEF Inv
<1>b. /\ session /\ dev.updating # 0 /\ Active
      /\ net' = net /\ offered' = offered /\ phase' = phase /\ con' = con /\ offers' = offers
  BY DEF Idle, Active
<1>c. /\ dev \in DevType /\ GoodBitmap(dev) /\ dev.flashing /\ dev.outcome = "running"
  BY <1>a, <1>b DEF Types, BitmapInv, RunningInv
<1>o. ASSUME /\ dev' \in DevType /\ session' \in BOOLEAN
             /\ RunningInv' /\ BitmapInv' /\ FinishedWhole' /\ AskedInv'
             /\ unasked' \in 0..2 /\ ServerMoves
             /\ dev'.begun = dev.begun /\ dev'.file = dev.file /\ dev'.alien = dev.alien
             /\ dev'.image = dev.image /\ dev'.index = dev.index,
             todo' = todo \/ dev.updating = 2
      PROVE  Inv'
  <2>1. ServerInv' /\ (Going' => Going) /\ phase' \in Phases
    BY <1>a, <1>b, <1>o, MovesKeep DEF Types
  <2>2. ConInv'
    BY <1>a, <1>b DEF ConInv
  <2>3. AgreeInv'
    BY <1>a, <1>b, <1>o, <2>1 DEF AgreeInv
  <2>4. OrderInv'
    <3>1. CASE ~dev.begun.fast /\ dev.alien = {}
      <4>1. dev.updating # 2
        BY <1>a, <1>c, <3>1 DEF BitmapInv, HasHoles, GoodBitmap, Holes
      <4>2. todo' = todo
        BY <1>o, <4>1
      <4> QED
        BY <1>a, <1>b, <1>o, <4>2 DEF OrderInv, InPlace, Own
    <3>2. CASE dev.begun.fast \/ dev.alien # {}
      BY <1>o, <3>2 DEF OrderInv
    <3> QED
      BY <3>1, <3>2
  <2>5. Types'
    BY <1>a, <1>b, <1>o, <2>1 DEF Types
  <2> QED
    BY <1>o, <2>1, <2>2, <2>3, <2>4, <2>5, InvOfTypesNext DEF Inv
<1>1. CASE /\ dev.updating = 1
           /\ Loop([dev EXCEPT !.quiet = FALSE], FALSE)
           /\ UNCHANGED <<unasked, todo>>
  <2> DEFINE e == [dev EXCEPT !.quiet = FALSE]
  <2>1. /\ e \in DevType /\ e.updating = 1 /\ SameTransfer(dev, e)
        /\ e.flashing = dev.flashing /\ e.outcome = dev.outcome
    BY <1>c, <1>1 DEF DevType, SameTransfer
  <2>2. Loop(e, FALSE)
    BY <1>1
  <2> HIDE DEF e
  <2>3. Handled(e, FALSE)
    BY <1>c, <2>1, SameFacts DEF Handled, HasHoles
  <2>4. /\ dev' \in DevType /\ session' \in BOOLEAN
        /\ RunningInv' /\ BitmapInv' /\ FinishedWhole' /\ SameTransfer(e, dev')
    BY <1>b, <2>1, <2>2, <2>3, LoopKeeps
  <2>5. ServerMoves /\ unasked' \in 0..2
    BY <1>a, <1>b, <1>1 DEF ServerMoves, ServerInv, Types
  <2>6. AskedInv'
    BY <2>1, <2>4 DEF AskedInv, SameTransfer
  <2> QED
    BY <1>1, <1>o, <2>1, <2>4, <2>5, <2>6 DEF SameTransfer
<1>2. CASE dev.updating = 2 /\ \E gaps \in Gaps(dev) : Request(dev, gaps)
  <2>1. PICK gaps \in Gaps(dev) : Request(dev, gaps)
    BY <1>2
  <2>2. HasHoles(dev)
    BY <1>a DEF BitmapInv
  <2>3. /\ dev' \in DevType /\ session' \in BOOLEAN
        /\ RunningInv' /\ BitmapInv' /\ FinishedWhole'
        /\ unasked' \in 0..2 /\ ("file" \notin dev.alien => unasked' = 0)
        /\ dev'.updating = 2 /\ dev'.begun = dev.begun /\ dev'.file = dev.file
        /\ dev'.alien = dev.alien /\ dev'.image = dev.image /\ dev'.index = dev.index
        /\ ServerMoves
    BY <1>b, <1>c, <1>2, <2>1, <2>2, RequestKeeps
  <2>4. AskedInv'
    BY <2>3 DEF AskedInv
  <2> QED
    BY <1>2, <1>o, <2>3, <2>4
<1> QED
  BY <1>1, <1>2 DEF Idle

(* What the connection, the clock and a reset do to an update.             *)
LEMMA LinkKeepsInv ==
  ASSUME Inv, Break \/ Disconnect \/ Reconnect \/ Restart \/ Watchdog \/ Tick
  PROVE  Inv'
<1>a. /\ Types /\ RunningInv /\ BitmapInv /\ FinishedWhole
      /\ ConInv /\ ServerInv /\ AgreeInv /\ OrderInv /\ AskedInv
  BY TypesOfInv DEF Inv
<1>d. dev \in DevType
  BY <1>a DEF Types
<1>e. ASSUME UNCHANGED server PROVE ConInv' /\ ServerInv' /\ (Going' <=> Going)
  BY <1>a, <1>e DEF server, ConInv, ServerInv, Going
<1>f. ASSUME /\ GoodBitmap(dev') <=> GoodBitmap(dev)
             /\ HasHoles(dev') <=> HasHoles(dev)
             /\ Whole(dev') <=> Whole(dev)
             /\ dev'.updating = dev.updating /\ dev'.alien = dev.alien
             /\ dev'.outcome = dev.outcome
      PROVE  BitmapInv' /\ FinishedWhole'
  <2>1. BitmapInv'
    BY <1>a, <1>f DEF BitmapInv, GoodBitmap, HasHoles, Holes, InPlace, Own
  <2> QED
    BY <1>a, <1>f, <2>1, WholeMeans
<1>1. CASE Break
  <2>1. Loop(dev, TRUE) /\ session /\ UNCHANGED <<unasked, net, server>>
    BY <1>1 DEF Break
  <2>2. Handled(dev, TRUE)
    BY <1>a, WholeMeans DEF Handled, BitmapInv
  <2>3. /\ dev' \in DevType /\ session' \in BOOLEAN /\ session' = FALSE
        /\ RunningInv' /\ BitmapInv' /\ FinishedWhole' /\ ~Active'
    BY <1>d, <2>1, <2>2, LoopKeeps DEF Loop
  <2>4. Types' /\ AgreeInv' /\ OrderInv' /\ AskedInv'
    BY <1>a, <2>1, <2>3 DEF server, Types, AgreeInv, OrderInv, AskedInv
  <2> QED
    BY <1>e, <2>1, <2>3, <2>4, InvOfTypesNext DEF Inv
<1>2. CASE Disconnect
  <2>1. /\ dev' = [dev EXCEPT !.flashing = FALSE] /\ session' = FALSE
        /\ UNCHANGED <<unasked, net, server>>
    BY <1>2 DEF Disconnect
  <2>2. /\ dev' \in DevType /\ SameTransfer(dev, dev') /\ dev'.outcome = dev.outcome
    BY <1>d, <2>1 DEF DevType, SameTransfer
  <2>3. BitmapInv' /\ FinishedWhole'
    BY <1>f, <2>2, SameFacts DEF SameTransfer
  <2>4. Types' /\ RunningInv' /\ AgreeInv' /\ OrderInv' /\ AskedInv'
    BY <1>a, <2>1, <2>2 DEF server, Types, RunningInv, AgreeInv, OrderInv, AskedInv, Active
  <2> QED
    BY <1>e, <2>1, <2>3, <2>4, InvOfTypesNext DEF Inv
<1>3. CASE Reconnect
  <2>1. /\ dev' = Reset(dev) /\ session' = TRUE
        /\ UNCHANGED <<unasked, offered, offers>>
        /\ \/ phase' = "idle" /\ todo' = {} /\ con' = NoCon /\ net' = {}
           \/ /\ con' \in {con, [con EXCEPT !.seen = FALSE, !.answer = "none"]}
              /\ UNCHANGED <<net, phase, todo>>
    BY <1>3 DEF Reconnect
  <2>2. /\ dev' \in DevType /\ dev'.updating = 0
        /\ dev'.outcome = dev.outcome /\ dev'.image = dev.image
        /\ dev'.begun = dev.begun /\ dev'.alien = dev.alien
    <3>1. 0 \in 0..2
      OBVIOUS
    <3> QED
      BY <1>d, <2>1, <3>1 DEF Reset, DevType
  <2>3. RunningInv' /\ BitmapInv' /\ AgreeInv' /\ OrderInv' /\ AskedInv'
    BY <2>2 DEF RunningInv, BitmapInv, HasHoles, AgreeInv, OrderInv, AskedInv, Active
  <2>4. FinishedWhole'
    BY <1>a, <2>2, WholeMeans DEF Whole, InPlace, Own
  <2>5. CASE phase' = "idle" /\ todo' = {} /\ con' = NoCon /\ net' = {}
    <3>1. Types' /\ ConInv' /\ ServerInv'
      BY <1>a, <2>1, <2>2, <2>5, NoConType DEF Types, Phases, ConInv, ServerInv, Going
    <3> QED
      BY <2>3, <2>4, <3>1, InvOfTypesNext DEF Inv
  <2>6. CASE /\ con' \in {con, [con EXCEPT !.seen = FALSE, !.answer = "none"]}
             /\ UNCHANGED <<net, phase, todo>>
    <3>1. /\ con' \in ConType /\ con'.kind = con.kind /\ con'.index = con.index
          /\ con' = con \/ (con'.seen = FALSE /\ con'.answer = "none")
      BY <1>a, <2>6 DEF Types, ConType
    <3>2. Types' /\ ConInv'
      BY <1>a, <2>1, <2>2, <2>6, <3>1 DEF Types, ConInv
    <3>3. ServerInv'
      BY <1>a, <2>1, <2>6, <3>1 DEF ServerInv, Going
    <3> QED
      BY <2>3, <2>4, <3>2, <3>3, InvOfTypesNext DEF Inv
  <2> QED
    BY <2>1, <2>5, <2>6
<1>4. CASE Restart \/ Watchdog
  <2>1. /\ dev' = PowerOn /\ session' = FALSE /\ unasked' = 0
        /\ UNCHANGED <<net, server>>
    BY <1>4 DEF Restart, Watchdog
  <2>2. /\ dev' \in DevType /\ dev'.updating = 0 /\ dev'.outcome = "none"
    BY <2>1, PowerOnFacts
  <2>3. RunningInv' /\ BitmapInv' /\ FinishedWhole' /\ AgreeInv' /\ OrderInv' /\ AskedInv'
    BY <2>2
       DEF RunningInv, BitmapInv, HasHoles, FinishedWhole, AgreeInv, OrderInv, AskedInv, Active
  <2>4. Types'
    <3>0. 0 \in 0..2
      OBVIOUS
    <3> QED
      BY <1>a, <2>1, <2>2, <3>0 DEF server, Types
  <2> QED
    BY <1>e, <2>1, <2>3, <2>4, InvOfTypesNext DEF Inv
<1>5. CASE Tick
  <2>1. /\ dev' = [dev EXCEPT !.quiet = TRUE, !.watch = IF dev.flashing THEN dev.watch + 1 ELSE dev.watch]
        /\ unasked' = IF dev.updating = 2 /\ unasked < 2 THEN unasked + 1 ELSE unasked
        /\ UNCHANGED <<session, net, server>>
        /\ ~(session /\ dev.updating # 0 /\ dev.quiet)
        /\ ~(dev.flashing /\ dev.watch = Timeout)
    BY <1>5 DEF Tick, Urgent
  <2>2. (IF dev.flashing THEN dev.watch + 1 ELSE dev.watch) \in 0..Timeout
    BY <1>d, <2>1, TransferAssumption DEF DevType
  <2>3. /\ dev' \in DevType /\ SameTransfer(dev, dev') /\ dev'.quiet = TRUE
        /\ dev'.flashing = dev.flashing /\ dev'.outcome = dev.outcome
    BY <1>d, <2>1, <2>2 DEF DevType, SameTransfer
  <2>4. BitmapInv' /\ FinishedWhole'
    BY <1>f, <2>3, SameFacts DEF SameTransfer
  <2>5. Types' /\ RunningInv'
    BY <1>a, <2>1, <2>3 DEF server, Types, RunningInv, Active, SameTransfer
  <2>6. AgreeInv' /\ OrderInv'
    BY <1>a, <1>e, <2>1, <2>3
       DEF server, AgreeInv, OrderInv, Active, SameTransfer, InPlace, Own
  <2>7. AskedInv'
    BY <1>a, <2>1, <2>3 DEF AskedInv, SameTransfer, Types
  <2> QED
    BY <1>e, <2>1, <2>4, <2>5, <2>6, <2>7, InvOfTypesNext DEF Inv
<1> QED
  BY <1>1, <1>2, <1>3, <1>4, <1>5

(* What the server and the network do to an update.                        *)
LEMMA ServerKeepsInv ==
  ASSUME Inv, Offer \/ Learn \/ SendChunk \/ SendDone \/ GiveUp \/ Lose
  PROVE  Inv'
<1>a. /\ Types /\ RunningInv /\ BitmapInv /\ FinishedWhole
      /\ ConInv /\ ServerInv /\ AgreeInv /\ OrderInv /\ AskedInv
  BY TypesOfInv DEF Inv
<1>b. dev' = dev /\ session' = session /\ unasked' = unasked
  BY DEF Offer, Learn, SendChunk, SendDone, GiveUp, Lose, server
<1>c. RunningInv' /\ BitmapInv' /\ FinishedWhole' /\ AskedInv'
  BY <1>a, <1>b, WholeMeans
     DEF RunningInv, BitmapInv, GoodBitmap, HasHoles, Holes, Whole, InPlace, Own, AskedInv, Active
<1>s. SUFFICES Types' /\ ConInv' /\ ServerInv' /\ AgreeInv' /\ OrderInv'
  BY <1>c, InvOfTypesNext DEF Inv
<1>t. /\ dev \in DevType /\ dev.begun.file \in Files /\ offered \in Offers
      /\ con \in ConType /\ phase \in Phases
  BY <1>a, FilesOf DEF Types
<1>z. 0 \in Chunks
  BY TransferAssumption DEF Chunks
<1>p. /\ {"idle", "offered", "sending", "done", "repair"} \subseteq Phases
  BY DEF Phases
<1>1. CASE Offer
  <2>1. /\ phase = "idle" /\ phase' = "offered" /\ con' = Con("begin", 0)
        /\ offers' = offers + 1 /\ offers < MaxOffers /\ offered' \in Offers
        /\ net' = net /\ todo' = todo /\ todo = {}
    BY <1>1, <1>a DEF Offer, ServerInv
  <2>2. con' \in ConType /\ con'.kind = "begin" /\ con'.seen = FALSE /\ con'.answer = "none"
    BY <1>z, <2>1, NoConType
  <2>3. Types'
    BY <1>a, <1>b, <1>p, <2>1, <2>2, TransferAssumption DEF Types
  <2>4. ConInv' /\ ServerInv' /\ AgreeInv'
    BY <2>1, <2>2 DEF ConInv, ServerInv, AgreeInv, Going
  <2>5. OrderInv'
    BY <1>a, <1>b, <2>1, <2>2 DEF OrderInv, Active, InPlace, Own
  <2> QED
    BY <2>3, <2>4, <2>5
<1>2. CASE Learn
  <2>1. /\ con.answer # "none" /\ con' = NoCon
        /\ UNCHANGED <<dev, session, unasked, net, offered, offers>>
    BY <1>2 DEF Learn
  <2>2. con' \in ConType /\ con'.kind = "none" /\ con'.answer = "none" /\ con'.seen = FALSE
    BY <2>1, NoConType
  <2>3. con.kind \in {"begin", "chunk", "done"}
    BY <1>a, <1>t, <2>1 DEF ConType, ConInv
  <2>c. ConInv'
    BY <2>2 DEF ConInv
  <2>4. CASE con.kind = "begin" /\ con.answer = "ready"
    <3>1. phase' = "sending" /\ todo' = Positions(offered.file)
      BY <1>2, <2>4 DEF Learn
    <3>2. Types' /\ ServerInv'
      BY <1>a, <1>b, <1>p, <2>1, <2>2, <2>4, <3>1 DEF Types, ServerInv, Going
    <3>3. AgreeInv'
      BY <1>a, <1>b, <2>1, <2>4 DEF AgreeInv, Going, Active
    <3>4. OrderInv'
      <4>1. SUFFICES ASSUME Active, ~dev.begun.fast, dev.alien = {}
                     PROVE  Positions(offered.file) = {j \in Positions(dev.begun.file) : dev.index <= j}
        BY <1>a, <1>b, <2>1, <2>2, <3>1 DEF OrderInv, Active, InPlace, Own
      <4>2. dev.begun = offered /\ dev.index = 0
        BY <1>a, <2>4, <4>1 DEF AgreeInv, OrderInv, Going
      <4>3. \A j \in Positions(offered.file) : 0 <= j
        BY <1>t, <4>2, PositionsFacts
      <4> QED
        BY <4>2, <4>3
    <3> QED
      BY <2>c, <3>2, <3>3, <3>4
  <2>5. CASE con.kind = "chunk"
    <3>1. /\ phase' = phase /\ phase = "sending" /\ ~offered.fast
          /\ todo' = IF con.answer = "ok" THEN todo \ {con.index} ELSE todo
      BY <1>2, <1>a, <2>5 DEF Learn, ServerInv
    <3>2. Types' /\ ServerInv'
      BY <1>a, <1>b, <2>1, <2>2, <3>1 DEF Types, ServerInv, Going
    <3>3. AgreeInv'
      BY <1>a, <1>b, <2>1, <3>1 DEF AgreeInv, Going, Active
    <3>4. OrderInv'
      <4>1. SUFFICES ASSUME Active, ~dev.begun.fast, dev.alien = {}
                     PROVE  todo' = {j \in Positions(dev.begun.file) : dev.index <= j}
        BY <1>a, <1>b, <2>1, <2>2, <3>1 DEF OrderInv, Active, InPlace, Own
      <4>2. CASE con.answer = "ok"
        <5>1. /\ dev.index = con.index + 1
              /\ todo = {j \in Positions(dev.begun.file) : con.index <= j}
          BY <1>a, <2>5, <3>1, <4>1, <4>2 DEF OrderInv
        <5>2. con.index \in Nat /\ Positions(dev.begun.file) \subseteq Nat
          BY <1>t, TransferAssumption, PositionsFacts DEF ConType, Chunks
        <5>3. todo \ {con.index} = {j \in Positions(dev.begun.file) : dev.index <= j}
          BY <5>1, <5>2
        <5> QED
          BY <3>1, <4>2, <5>3
      <4>3. CASE con.answer # "ok"
        BY <1>a, <2>5, <3>1, <4>1, <4>3 DEF OrderInv
      <4> QED
        BY <4>2, <4>3
    <3> QED
      BY <2>c, <3>2, <3>3, <3>4
  <2>6. CASE con.kind = "done" /\ con.answer = "bad" /\ phase = "done"
    <3>1. phase' = "repair" /\ todo' = todo
      BY <1>2, <2>6 DEF Learn
    <3>2. Types' /\ ServerInv'
      BY <1>a, <1>b, <1>p, <2>1, <2>2, <2>6, <3>1 DEF Types, ServerInv, Going
    <3>3. AgreeInv'
      BY <1>a, <1>b, <2>1, <2>6 DEF AgreeInv, Going, Active
    <3>4. OrderInv'
      BY <1>a, <1>b, <2>1, <2>2, <3>1 DEF OrderInv, Active, InPlace, Own
    <3> QED
      BY <2>c, <3>2, <3>3, <3>4
  <2>7. CASE /\ ~(con.kind = "begin" /\ con.answer = "ready") /\ con.kind # "chunk"
             /\ ~(con.kind = "done" /\ con.answer = "bad" /\ phase = "done")
    <3>1. phase' = "idle"
      BY <1>2, <2>7 DEF Learn
    <3>2. todo' = {}
      BY <1>2, <2>7, <3>1 DEF Learn
    <3>3. Types' /\ ServerInv' /\ AgreeInv'
      BY <1>a, <1>b, <1>p, <2>1, <2>2, <3>1, <3>2 DEF Types, ServerInv, AgreeInv, Going
    <3>4. OrderInv'
      BY <1>a, <1>b, <2>1, <2>2, <3>1 DEF OrderInv, Active, InPlace, Own
    <3> QED
      BY <2>c, <3>3, <3>4
  <2> QED
    BY <2>4, <2>5, <2>6, <2>7
<1>3. CASE SendChunk
  <2>0. /\ phase' = phase /\ offers' = offers /\ offered' = offered
        /\ todo # {} /\ phase \in {"sending", "done", "repair"}
    BY <1>3 DEF SendChunk
  <2>t. todo \subseteq Chunks /\ todo \subseteq Positions(offered.file) /\ offered.file \in Files
    BY <1>a, <1>t, TodoChunks DEF ServerInv, Offers
  <2>1. CASE offered.fast
    <3>1. PICK i \in todo : /\ net' = net \cup {[file |-> offered.file, index |-> i]}
                            /\ todo' = todo \ {i} /\ con' = con
      BY <1>3, <2>1 DEF SendChunk
    <3>2. [file |-> offered.file, index |-> i] \in Contents
      BY <2>t DEF Contents
    <3>3. Types'
      BY <1>a, <1>b, <2>0, <3>1, <3>2 DEF Types
    <3>4. ConInv' /\ ServerInv'
      BY <1>a, <2>0, <2>1, <3>1 DEF ConInv, ServerInv, Going
    <3>5. AgreeInv'
      BY <1>a, <1>b, <2>0, <3>1 DEF AgreeInv, Going, Active
    <3>6. OrderInv'
      <4>1. Active => dev.begun = offered
        BY <1>a, <2>0 DEF AgreeInv, Going
      <4> QED
        BY <1>b, <2>1, <4>1 DEF OrderInv, Active
    <3> QED
      BY <3>3, <3>4, <3>5, <3>6
  <2>2. CASE ~offered.fast
    <3>1. con = NoCon /\ con' = Con("chunk", Min(todo)) /\ net' = net /\ todo' = todo
      BY <1>3, <2>2 DEF SendChunk
    <3>2. Min(todo) \in todo /\ \A j \in todo : Min(todo) <= j
      BY <2>0, <2>t, MinOfPositions
    <3>3. /\ con' \in ConType /\ con'.kind = "chunk" /\ con'.index = Min(todo)
          /\ con'.seen = FALSE /\ con'.answer = "none"
      BY <2>t, <3>1, <3>2, NoConType
    <3>4. phase = "sending"
      BY <1>a, <2>0, <2>2 DEF ServerInv
    <3>5. Types' /\ ConInv'
      BY <1>a, <1>b, <2>0, <3>1, <3>3 DEF Types, ConInv
    <3>6. ServerInv'
      BY <1>a, <2>0, <2>2, <3>1, <3>2, <3>3, <3>4 DEF ServerInv, Going
    <3>7. AgreeInv'
      BY <1>a, <1>b, <2>0 DEF AgreeInv, Going, Active
    <3>8. OrderInv'
      BY <1>a, <1>b, <2>0, <3>1, <3>3, <3>4, NoConType DEF OrderInv, Active, InPlace, Own
    <3> QED
      BY <3>5, <3>6, <3>7, <3>8
  <2> QED
    BY <2>1, <2>2
<1>4. CASE SendDone
  <2>1. /\ phase = "sending" /\ todo = {} /\ con = NoCon
        /\ phase' = "done" /\ con' = Con("done", 0)
        /\ net' = net /\ todo' = todo /\ offers' = offers /\ offered' = offered
    BY <1>4 DEF SendDone
  <2>2. con' \in ConType /\ con'.kind = "done" /\ con'.seen = FALSE /\ con'.answer = "none"
    BY <1>z, <2>1, NoConType
  <2>3. Types' /\ ConInv' /\ ServerInv'
    BY <1>a, <1>b, <1>p, <2>1, <2>2 DEF Types, ConInv, ServerInv, Going
  <2>4. AgreeInv'
    BY <1>a, <1>b, <2>1 DEF AgreeInv, Going, Active
  <2>5. OrderInv'
    <3>1. SUFFICES ASSUME Active, ~dev.begun.fast, dev.alien = {}
                   PROVE  Length[dev.begun.file] <= dev.index
      BY <1>a, <1>b, <2>1, <2>2 DEF OrderInv, Active, InPlace, Own
    <3>2. {j \in Positions(dev.begun.file) : dev.index <= j} = {}
      BY <1>a, <2>1, <3>1, NoConType DEF OrderInv
    <3>3. /\ dev.index \in Nat /\ Length[dev.begun.file] \in Nat
          /\ \A i \in Nat : i \in Positions(dev.begun.file) <=> i < Length[dev.begun.file]
      BY <1>t, PositionsFacts, TransferAssumption DEF DevType
    <3>4. Length[dev.begun.file] <= dev.index
      <4>1. dev.index \notin Positions(dev.begun.file)
        BY <3>2, <3>3
      <4> QED
        BY <3>3, <4>1
    <3> QED
      BY <3>4
  <2> QED
    BY <2>3, <2>4, <2>5
<1>5. CASE GiveUp
  <2>1. /\ phase' = "idle" /\ todo' = {} /\ con' = NoCon /\ net' = net /\ offers' = offers
        /\ offered' = offered
    BY <1>5 DEF GiveUp
  <2>2. Types' /\ ConInv' /\ ServerInv' /\ AgreeInv'
    BY <1>a, <1>b, <1>p, <2>1, NoConType DEF Types, ConInv, ServerInv, AgreeInv, Going
  <2>3. OrderInv'
    BY <1>a, <1>b, <2>1, NoConType DEF OrderInv, Active, InPlace, Own
  <2> QED
    BY <2>2, <2>3
<1>6. CASE Lose
  <2>1. PICK c \in net : net' = net \ {c}
    BY <1>6 DEF Lose
  <2>2. con' = con /\ phase' = phase /\ todo' = todo /\ offers' = offers /\ offered' = offered
    BY <1>6 DEF Lose, server
  <2>3. Types' /\ ConInv' /\ ServerInv' /\ AgreeInv'
    BY <1>a, <1>b, <2>1, <2>2 DEF Types, ConInv, ServerInv, AgreeInv, Going, Active
  <2>4. OrderInv'
    BY <1>a, <1>b, <2>2 DEF OrderInv, Active, InPlace, Own
  <2> QED
    BY <2>3, <2>4
<1> QED
  BY <1>1, <1>2, <1>3, <1>4, <1>5, <1>6


\* Every step keeps the invariant.
LEMMA InvNext == Inv /\ [Next]_vars => Inv'
<1> SUFFICES ASSUME Inv, [Next]_vars PROVE Inv'
  OBVIOUS
<1>1. CASE UNCHANGED vars
  BY <1>1
     DEF vars, server, Inv, TypeOK, RunningInv, BitmapInv, GoodBitmap, HasHoles, Holes, InPlace,
         Own, FinishedWhole, ConInv, ServerInv, AgreeInv, Going, OrderInv, AskedInv, Active
<1> QED
  BY <1>1, UpdateBeginKeepsInv, FastChunkKeepsInv, SlowChunkKeepsInv, UpdateDoneKeepsInv,
     IdleKeepsInv, LinkKeepsInv, ServerKeepsInv DEF Next

\* The inductive invariant holds throughout.
LEMMA InvAlways == Spec => []Inv
BY InvInit, InvNext, PTL DEF Spec

-----------------------------------------------------------------------------
(* The theorems.                                                           *)

(* Every variable of the device, the network and the server keeps its      *)
(* type: the index stays within what the bitmap has room for, although it  *)
(* is taken over from any indexed chunk that comes and no length is        *)
(* compared with it but that bound.                                        *)
THEOREM TypeCorrect == Spec => []TypeOK
<1>1. Inv => TypeOK
  BY DEF Inv
<1> QED
  BY <1>1, InvAlways, PTL

(* The system is told of success only when every chunk of the file that    *)
(* was begun is in its place, whatever was lost, late or repeated, in a    *)
(* fast update or a slow one, after updates of other files and begins that *)
(* came to nothing; unless a chunk of another file, or an indexed one in a *)
(* slow update, was taken in the midst of it, or a begin that came to      *)
(* nothing left another length behind.                                     *)
THEOREM UpdateWhole == Spec => []FinishedWhole
<1>1. Inv => FinishedWhole
  BY DEF Inv
<1> QED
  BY <1>1, InvAlways, PTL

(* While a connected device is updating, the watchdog that could free it   *)
(* is armed.                                                               *)
THEOREM WatchdogHolds == Spec => []WatchdogArmed
<1>1. Inv => WatchdogArmed
  BY DEF Inv, RunningInv, Active, WatchdogArmed
<1> QED
  BY <1>1, InvAlways, PTL

(* Once the server has said it is done, six seconds do not pass without a  *)
(* chunk coming in or the missing ones being asked for, as long as the     *)
(* descriptor has the length of the file.                                  *)
THEOREM RepairInTime == Spec => []RepairAsks
<1>1. Inv => RepairAsks
  BY DEF Inv, AskedInv, RepairAsks
<1> QED
  BY <1>1, InvAlways, PTL

(* The loop itself does not touch what is in the flash.                    *)
LEMMA LoopImage ==
  ASSUME NEW d \in DevType, NEW error \in BOOLEAN, Loop(d, error)
  PROVE  dev'.image = d.image
<1>1. Cancelled(d).image = d.image
  BY CancelledFacts DEF SameTransfer
<1> QED
  BY <1>1 DEF Loop

(* A step that changes the flash erases it, or belongs to an update that   *)
(* is going on.                                                            *)
LEMMA SaveBelongs ==
  ASSUME Inv, [Next]_vars, dev'.image # dev.image
  PROVE  dev'.image = Blank \/ (dev.flashing /\ dev.outcome = "running")
<1>a. dev \in DevType /\ offered \in Offers /\ RunningInv
  BY TypesOfInv DEF Inv, Types
<1>b. CASE Active
  BY <1>a, <1>b DEF RunningInv
<1>c. CASE ~Active
  <2>1. CASE UpdateBegin
    <3>1. CASE \E error \in BOOLEAN : Loop(Described(dev), error)
      <4>1. Described(dev) \in DevType /\ Described(dev).image = dev.image
        BY <1>a, DescribedFacts
      <4> QED
        BY <3>1, <4>1, LoopImage
    <3>2. CASE Length[offered.file] < MaxChunks /\ \E error \in BOOLEAN : Loop(Begun(dev), error)
      <4>1. Begun(dev) \in DevType /\ Begun(dev).image = Blank
        BY <1>a, <3>2, BegunFacts
      <4> QED
        BY <3>2, <4>1, LoopImage
    <3> QED
      BY <2>1, <3>1, <3>2 DEF UpdateBegin
  <2>2. CASE FastChunk \/ SlowChunk
    <3>1. session /\ \E d, c, good, answered, error : Chunk(d, c, good, answered, error)
      BY <2>2 DEF FastChunk, SlowChunk, Received
    <3>2. Loop(Heard(dev), TRUE)
      BY <1>c, <3>1 DEF Chunk, Active
    <3>3. Heard(dev) \in DevType /\ Heard(dev).image = dev.image
      BY <1>a DEF Heard, DevType
    <3> QED
      BY <3>2, <3>3, LoopImage
  <2>3. CASE UpdateDone
    <3>1. PICK missing : Loop(UpdateDoneAnswered(missing), TRUE)
      BY <1>c, <2>3 DEF UpdateDone, Received, Active
    <3>2. /\ UpdateDoneAnswered(missing) \in DevType
          /\ UpdateDoneAnswered(missing).image = dev.image
      BY <1>a, ValidateFacts DEF UpdateDoneAnswered, SameTransfer
    <3> QED
      BY <3>1, <3>2, LoopImage
  <2>4. CASE Idle
    BY <1>c, <2>4 DEF Idle, Active
  <2>5. CASE Break
    BY <1>a, <2>5, LoopImage DEF Break
  <2>6. CASE Disconnect \/ Reconnect \/ Tick
    BY <1>a, <2>6 DEF Disconnect, Reconnect, Tick, Reset, DevType
  <2>7. CASE Restart \/ Watchdog
    BY <2>7, PowerOnFacts DEF Restart, Watchdog
  <2>8. CASE Offer \/ Learn \/ SendChunk \/ SendDone \/ GiveUp \/ Lose \/ UNCHANGED vars
    BY <2>8 DEF Offer, Learn, SendChunk, SendDone, GiveUp, Lose, server, vars
  <2> QED
    BY <2>1, <2>2, <2>3, <2>4, <2>5, <2>6, <2>7, <2>8 DEF Next
<1> QED
  BY <1>b, <1>c

(* Nothing is written to the flash after the application was told that the *)
(* update is over, or the connection closed, until another is begun.       *)
THEOREM WritesBelong == Spec => SavesBelong
<1>1. Inv /\ [Next]_vars =>
        [dev'.image # dev.image =>
           dev'.image = Blank \/ (dev.flashing /\ dev.outcome = "running")]_vars
  BY SaveBelongs
<1> QED
  BY <1>1, InvAlways, PTL DEF Spec, SavesBelong
=============================================================================
