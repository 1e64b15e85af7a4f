----------------------------- MODULE Dcd_proofs -----------------------------
(***************************************************************************)
(* Proofs about the DCD, for sectors of any number of slots and any data.  *)
(***************************************************************************)
EXTENDS Dcd, TLAPS

Constructing == job.step \in {"before", "data", "after", "footer", "crc", "seal"}

(* Which sectors the job is about: a sector is copied to the other one, in *)
(* a write; without an existing sector nothing is copied or discarded.     *)
JobInv ==
  /\ job.step \in {"boot", "idle"} => job.op = "none"
  /\ job.step = "locate" => job.op = "write"
  /\ Programming =>
       \/ job.op = "write" /\ job.from \in Sectors /\ job.to = Other(job.from)
       \/ /\ job.op # "none" /\ job.from = None
          /\ job.op # "migrate" => job.to = 1
          /\ job.step \notin {"before", "after", "discard"}
          /\ job.step = "data" => job.op = "migrate"

(* When both sectors are sealed and intact, one succeeds the other.        *)
Neighbours(f) ==
  (\A n \in Sectors : IsValid(f[n]) /\ f[n].good) =>
    \/ f[1].counter = (f[0].counter + 1) % 4
    \/ f[0].counter = (f[1].counter + 1) % 4

(* The sector under construction is not valid before it is sealed, and     *)
(* then it is the successor of the one it was copied from; one is made     *)
(* from nothing only when the other is not valid either.                   *)
CounterInv ==
  /\ Neighbours(flash)
  /\ Constructing => ~flash[job.to].mark /\ flash[job.to].seal = "init"
  /\ Programming /\ job.from = None => ~IsValid(flash[Other(job.to)])
  /\ job.step \in {"crc", "seal"} => flash[job.to].counter = NextCounter
  /\ job.step \in {"seal", "discard"} => flash[job.to].good

(* Sector c is the current one, and stays so whatever is left of an erase  *)
(* of the other: it is intact and the successor of the other; or it is of  *)
(* version 1, and the other neither intact nor discarded by version 2.     *)
Governs(c, f) ==
  LET x == f[c]  y == f[Other(c)] IN
  /\ IsValid(x)
  /\ \/ x.good /\ (y.seal = "valid" /\ y.good => x.counter = (y.counter + 1) % 4)
     \/ /\ ~x.good /\ y.seal # "invalid_v2"
        /\ y.seal = "valid" => c = 1 /\ ~y.good

(* No sector was ever sealed; a page of the first layout is at most one.   *)
Unsealed(f) == /\ \A n \in Sectors : f[n].seal # "valid"
               /\ f[0].seal = "old" => f[1].seal # "old"

(* As long as no error was dropped: what the flash holds at every step.    *)
PlaceInv ==
  /\ job.step = "boot" => Unsealed(flash) \/ \E c \in Sectors : Governs(c, flash)
  /\ job.step \in {"idle", "locate"} =>
       \/ Unsealed(flash) /\ OldSector = None
       \/ \E c \in Sectors : Governs(c, flash)
  /\ Programming /\ job.from = None =>
       /\ Unsealed(flash)
       /\ OldSector = IF job.op = "migrate" THEN Other(job.to) ELSE None
  /\ Programming /\ job.from # None =>
       Governs(IF job.step = "discard" THEN job.to ELSE job.from, flash)

(* How much of the new sector is there at every step.                      *)
Written(t) ==
  CASE job.step = "data"  -> t < job.slot
    [] job.step = "after" -> t <= job.slot
    [] job.step \in {"footer", "crc", "seal", "discard"} -> TRUE
    [] OTHER -> FALSE

DataInv ==
  /\ job.from # None =>
       \A t \in Slots : Written(t) =>
         flash[job.to].data[t] = IF t = job.slot THEN job.value ELSE flash[job.from].data[t]
  /\ job.from = None /\ job.step \in {"footer", "crc", "seal"} =>
       flash[job.to].data = IF job.op = "migrate" THEN flash[Other(job.to)].data
                            ELSE AllOf(Blank)

-----------------------------------------------------------------------------
(* The operators of the model.                                             *)

SectorType == [mark : BOOLEAN, seal : Seals, data : [Slots -> Cell],
               counter : 0..3, good : BOOLEAN]
JobType == [op : {"none", "read", "write", "migrate"}, step : Steps,
            slot : Slots, value : Values, from : 0..2, to : Sectors]

(* There are two sectors.                                                  *)
LEMMA OtherFacts ==
  ASSUME NEW n \in Sectors
  PROVE  /\ Other(n) \in Sectors /\ Other(n) # n /\ Other(Other(n)) = n
         /\ n # None /\ \A m \in Sectors : m = n \/ m = Other(n)
BY DEF Sectors, Other, None

(* A counter of two bits is neither its successor nor the one after that.  *)
LEMMA CounterFacts ==
  ASSUME NEW c \in 0..3
  PROVE  /\ (c + 1) % 4 \in 0..3 /\ (c + 1) % 4 # c
         /\ (((c + 1) % 4) + 1) % 4 # c
<1>1. c = 0 \/ c = 1 \/ c = 2 \/ c = 3
  OBVIOUS
<1> QED
  BY <1>1

(* Programming a sector leaves the other one alone.                        *)
LEMMA ProgramFacts ==
  ASSUME flash \in [Sectors -> SectorType], NEW n \in Sectors, NEW x \in SectorType,
         Program(n, x)
  PROVE  /\ flash' \in [Sectors -> SectorType]
         /\ flash'[n] = x /\ flash'[Other(n)] = flash[Other(n)]
BY OtherFacts DEF Program

(* The sector under construction with some of its slots filled.            *)
LEMMA FilledFacts ==
  ASSUME flash[job.to] \in SectorType, NEW T, NEW cells \in [Slots -> Cell]
  PROVE  /\ Filled(T, cells) \in SectorType
         /\ Filled(T, cells).mark = flash[job.to].mark
         /\ Filled(T, cells).seal = flash[job.to].seal
         /\ Filled(T, cells).counter = flash[job.to].counter
         /\ \A t \in Slots : Filled(T, cells).data[t] =
              IF t \in T THEN cells[t] ELSE flash[job.to].data[t]
<1> DEFINE d == [t \in Slots |-> IF t \in T THEN cells[t] ELSE flash[job.to].data[t]]
<1>1. d \in [Slots -> Cell]
  BY DEF SectorType
<1>2. Filled(T, cells) = [flash[job.to] EXCEPT !.data = d]
  BY DEF Filled, SectorType
<1>3. Filled(T, cells).data = d
  BY <1>1, <1>2 DEF SectorType
<1> QED
  BY <1>1, <1>2, <1>3 DEF SectorType

(* Blank, torn and given bytes; the erased sector; the job after a reset.  *)
LEMMA ValueFacts ==
  /\ Blank \in Cell /\ Torn \in Cell /\ Values \subseteq Cell
  /\ \A c \in Cell : AllOf(c) \in [Slots -> Cell]
  /\ Erased \in SectorType
  /\ \A step \in Steps : Reset(step) \in JobType
<1>1. /\ Blank \in Cell /\ Torn \in Cell /\ Values \subseteq Cell
      /\ \A c \in Cell : AllOf(c) \in [Slots -> Cell]
  BY DEF Cell, AllOf
<1>2. Erased \in SectorType
  BY <1>1 DEF Erased, SectorType, Seals
<1>3. (CHOOSE v \in Values : TRUE) \in Values /\ 1 \in Slots
  BY DcdAssumption DEF Slots
<1>4. \A step \in Steps : Reset(step) \in JobType
  BY <1>3 DEF Reset, Job, JobType, None, Sectors
<1> QED
  BY <1>1, <1>2, <1>4

-----------------------------------------------------------------------------
(* What a step that does not seal or discard a sector leaves in it, when   *)
(* it is finished and when it is cut short.                                *)

Spoiled(old, x) ==
  /\ x \in SectorType
  /\ x.seal \in {old.seal, "torn", "init"}
  /\ x.seal = "valid" => /\ x.mark => old.mark
                         /\ x.good => old.good /\ x.counter = old.counter

Typed == /\ flash \in [Sectors -> SectorType] /\ job \in JobType
         /\ reply \in {"none", "ok", "error"} /\ ignored \in BOOLEAN

\* The type invariant, with the sectors as functions.
LEMMA TypedIsTypeOK == TypeOK <=> Typed
BY Zenon DEF TypeOK, Typed, SectorType, JobType

(* An erase cut short leaves the header it found, or torn, on data that    *)
(* are the old ones, or torn and not intact.                               *)
LEMMA TornEraseFacts ==
  ASSUME NEW old \in SectorType, NEW x \in TornErase(old)
  PROVE  Spoiled(old, x)
<1>1. CASE x \in [mark : {old.mark, FALSE}, seal : {old.seal, "torn"},
                   data : {old.data}, counter : {old.counter},
                   good : {old.good}]
  BY <1>1 DEF Spoiled, SectorType, Seals
<1>2. CASE x \in [mark : {old.mark, FALSE}, seal : {old.seal, "torn"},
                   data : {AllOf(Torn)}, counter : {old.counter, 3}, good : {FALSE}]
  <2>1. AllOf(Torn) \in [Slots -> Cell]
    BY ValueFacts
  <2>2. x \in SectorType
    <3>1. /\ x.seal \in Seals /\ x.data \in [Slots -> Cell] /\ x.counter \in 0..3
      BY <1>2, <2>1 DEF SectorType, Seals
    <3>2. /\ x.mark = old.mark \/ x.mark = FALSE
          /\ x.good = FALSE /\ old.mark \in BOOLEAN
      BY <1>2 DEF SectorType
    <3>3. x.mark \in BOOLEAN /\ x.good \in BOOLEAN
      BY <3>2, Zenon
    <3> QED
      BY <1>2, <3>1, <3>3 DEF SectorType
  <2> QED
    BY <1>2, <2>2 DEF Spoiled, SectorType
<1> QED
  BY <1>1, <1>2 DEF TornErase

(* The sector a job works on.                                              *)
LEMMA TouchedFacts ==
  ASSUME Typed, JobInv, Programming
  PROVE  /\ Touched \in Sectors
         /\ job.from # None => Touched \in {job.from, job.to} /\ job.from = Other(job.to)
         /\ job.from = None => Touched = job.to
BY OtherFacts DEF Typed, JobType, JobInv, Touched, None, Sectors, Other

\* What power loss leaves of the sector being programmed is spoiled, not wrong.
LEMMA CutShortFacts ==
  ASSUME Typed, JobInv, CounterInv, Programming, NEW x \in CutShort
  PROVE  Spoiled(flash[Touched], x)
<1>1. Touched \in Sectors /\ flash[Touched] \in SectorType
  BY TouchedFacts DEF Typed
<1>2. CASE x = flash[Touched]
  BY <1>1, <1>2 DEF Spoiled
<1>3. CASE job.step = "erase" /\ x \in TornErase(flash[Touched])
  BY <1>1, <1>3, TornEraseFacts
<1>4. CASE job.step = "erase" /\ x = Erased
  BY <1>4, ValueFacts DEF Spoiled, Erased
<1>5. ASSUME job.step \in {"before", "data", "after"},
             NEW T, x = Filled(T, AllOf(Torn))
      PROVE  Spoiled(flash[Touched], x)
  <2>1. Touched = job.to /\ flash[job.to].seal = "init"
    BY <1>5 DEF Touched, CounterInv, Constructing
  <2> QED
    BY <1>1, <1>5, <2>1, FilledFacts, ValueFacts DEF Spoiled
<1>6. CASE job.step = "seal" /\ x \in [mark : {TRUE}, seal : {"init", "torn"},
              data : {flash[Touched].data}, counter : {flash[Touched].counter},
              good : {flash[Touched].good}]
  BY <1>1, <1>6 DEF Spoiled, SectorType, Seals
<1>7. CASE job.step = "discard" /\ x = [flash[Touched] EXCEPT !.seal = "torn"]
  BY <1>1, <1>7 DEF Spoiled, SectorType, Seals
<1>8. \/ x = flash[Touched]
      \/ job.step = "erase" /\ (x \in TornErase(flash[Touched]) \/ x = Erased)
      \/ job.step \in {"before", "data", "after"} /\ \E T : x = Filled(T, AllOf(Torn))
      \/ job.step = "seal" /\ x \in [mark : {TRUE}, seal : {"init", "torn"},
              data : {flash[Touched].data}, counter : {flash[Touched].counter},
              good : {flash[Touched].good}]
      \/ job.step = "discard" /\ x = [flash[Touched] EXCEPT !.seal = "torn"]
  BY DEF CutShort
<1> QED
  BY <1>2, <1>3, <1>4, <1>5, <1>6, <1>7, <1>8

(* A sector that is spoiled does not become the current one, and does not  *)
(* come to look like an intact one.                                        *)
LEMMA SpoiledFacts ==
  ASSUME NEW f \in [Sectors -> SectorType], NEW g \in [Sectors -> SectorType],
         NEW n \in Sectors, Spoiled(f[n], g[n]), g[Other(n)] = f[Other(n)]
  PROVE  /\ Neighbours(f) => Neighbours(g)
         /\ Governs(Other(n), f) => Governs(Other(n), g)
         /\ Unsealed(f) => Unsealed(g)
         /\ ~IsValid(f[n]) /\ g[n].seal # "valid" => ~IsValid(g[n])
<1> DEFINE m == Other(n)
<1>1. /\ f[n] \in SectorType /\ f[m] \in SectorType
      /\ g[n] \in SectorType /\ g[m] \in SectorType
      /\ m \in Sectors /\ m # n /\ Other(m) = n /\ n \in {0, 1} /\ m \in {0, 1}
  BY OtherFacts DEF Sectors
<1>2. ASSUME Neighbours(f) PROVE Neighbours(g)
  <2> SUFFICES ASSUME \A k \in Sectors : IsValid(g[k]) /\ g[k].good
               PROVE  \/ g[1].counter = (g[0].counter + 1) % 4
                      \/ g[0].counter = (g[1].counter + 1) % 4
    BY DEF Neighbours
  <2>1. IsValid(f[n]) /\ f[n].good /\ g[n].counter = f[n].counter
    BY DEF Spoiled, IsValid
  <2>2. IsValid(f[m]) /\ f[m].good
    BY <1>1
  <2>3. \A k \in Sectors : IsValid(f[k]) /\ f[k].good /\ g[k].counter = f[k].counter
    BY <1>1, <2>1, <2>2 DEF Sectors
  <2>4. g[0].counter = f[0].counter /\ g[1].counter = f[1].counter
    BY <2>3 DEF Sectors
  <2> QED
    BY <1>2, <2>3, <2>4, Zenon DEF Neighbours
<1>3. ASSUME Governs(m, f) PROVE Governs(m, g)
  BY <1>1, <1>3 DEF Governs, Spoiled
<1>4. ASSUME Unsealed(f) PROVE Unsealed(g)
  <2>1. \A k \in Sectors : g[k].seal \in {f[k].seal, "torn", "init"}
    BY <1>1 DEF Spoiled, Sectors
  <2> QED
    BY <1>4, <2>1 DEF Unsealed, Sectors
<1> QED
  BY <1>2, <1>3, <1>4 DEF IsValid

(* A sector that is sealed governs when it succeeds the other, and when    *)
(* the other was never sealed.                                             *)
LEMMA SealFacts ==
  ASSUME NEW f \in [Sectors -> SectorType], NEW g \in [Sectors -> SectorType],
         NEW n \in Sectors, g[Other(n)] = f[Other(n)],
         IsValid(g[n]), g[n].good
  PROVE  /\ (g[n].counter = (f[Other(n)].counter + 1) % 4 \/ ~IsValid(f[Other(n)]))
            => Neighbours(g)
         /\ (g[n].counter = (f[Other(n)].counter + 1) % 4 \/ f[Other(n)].seal # "valid")
            => Governs(n, g)
<1>1. CASE n = 0
  BY <1>1 DEF Neighbours, Governs, Sectors, Other
<1>2. CASE n = 1
  BY <1>2 DEF Neighbours, Governs, Sectors, Other
<1> QED
  BY <1>1, <1>2 DEF Sectors

(* An intact sector that governs still does when the other is discarded.   *)
LEMMA DiscardFacts ==
  ASSUME NEW f \in [Sectors -> SectorType], NEW g \in [Sectors -> SectorType],
         NEW n \in Sectors, g[n].seal = "invalid_v2", g[Other(n)] = f[Other(n)]
  PROVE  /\ Neighbours(g)
         /\ Governs(Other(n), f) /\ f[Other(n)].good => Governs(Other(n), g)
<1>1. /\ Other(n) \in Sectors /\ Other(Other(n)) = n
  BY OtherFacts
<1>2. Neighbours(g)
  BY DEF Neighbours, IsValid
<1> QED
  BY <1>1, <1>2 DEF Governs

(* The job at rest, after a reset or at the end of a call.                 *)
LEMMA ResetFacts ==
  ASSUME NEW step \in {"boot", "idle"}, job' = Reset(step), Neighbours(flash')
  PROVE  /\ job' \in JobType /\ JobInv' /\ CounterInv' /\ DataInv'
         /\ job'.step = step /\ ~Programming' /\ job'.from = None
<1>1. job' \in JobType /\ job'.op = "none" /\ job'.step = step /\ job'.from = None
  <2>1. job' \in JobType
    BY ValueFacts DEF Steps
  <2>2. job'.op = "none" /\ job'.step = step /\ job'.from = None
    BY DEF Reset, Job
  <2> QED
    BY <2>1, <2>2
<1>2. ~Programming' /\ ~Constructing'
  BY <1>1 DEF Programming, Constructing
<1> QED
  BY <1>1, <1>2 DEF JobInv, CounterInv, DataInv

(* The job a step further.                                                 *)
LEMMA GotoFacts ==
  ASSUME job \in JobType, NEW step \in Steps, Goto(step)
  PROVE  /\ job' \in JobType /\ job'.step = step
         /\ job'.op = job.op /\ job'.slot = job.slot /\ job'.value = job.value
         /\ job'.from = job.from /\ job'.to = job.to
BY DEF Goto, JobType

-----------------------------------------------------------------------------
(* The invariant is inductive.                                             *)

Inv == /\ Typed /\ JobInv /\ CounterInv
       /\ ~ignored => PlaceInv /\ DataInv

\* The invariant holds on every board, new or old.
LEMMA InvInit == Init => Inv
<1> SUFFICES ASSUME Init PROVE Inv
  OBVIOUS
<1>1. PICK p \in Pages, n \in Sectors :
             flash = [m \in Sectors |-> IF m = n THEN p[1] ELSE p[2]]
  BY DEF Init
<1>2. /\ n \in Sectors /\ Other(n) \in Sectors /\ Other(Other(n)) = n
      /\ flash[n] = p[1] /\ flash[Other(n)] = p[2]
      /\ \A m \in Sectors : m = n \/ m = Other(n)
  BY <1>1, OtherFacts
<1>3. /\ Unused \subseteq SectorType
      /\ \A x \in Unused : x.seal \in {"init", "torn"} /\ ~x.good
  <2>1. AllOf(Torn) \in [Slots -> Cell] /\ Erased \in SectorType
    BY ValueFacts
  <2> QED
    BY <2>1 DEF Unused, Erased, SectorType, Seals
<1>4. ASSUME NEW z \in {"old", "valid", "cleared"}
      PROVE  /\ Page(z) \subseteq SectorType
             /\ \A x \in Page(z) : x.seal = z /\ x.mark /\ ~x.good
  <2>1. \A x \in Page(z) : x.data \in [Slots -> Cell]
    BY DEF Page, Cell
  <2>2. TRUE \in BOOLEAN /\ FALSE \in BOOLEAN
    BY Zenon
  <2> QED
    BY <2>1, <2>2 DEF Page, SectorType, Seals
<1>5. \/ p[1] \in Unused /\ p[2] \in Unused
      \/ p[1] \in Page("old") /\ p[2] \in Unused
      \/ p[1] \in Page("valid") /\ p[2] \in Unused
      \/ p[1] \in Page("valid") /\ p[2] \in Page("cleared")
      \/ p[1] \in Page("valid") /\ p[2] \in Page("valid")
  BY <1>1 DEF Pages
<1>6. flash \in [Sectors -> SectorType]
  BY <1>1, <1>3, <1>4, <1>5
<1>7. ~p[1].good
  BY <1>3, <1>4, <1>5
<1>8. Neighbours(flash)
  BY <1>2, <1>7 DEF Neighbours
<1>9. Unsealed(flash) \/ \E c \in Sectors : Governs(c, flash)
  <2>1. CASE p[1] \in Unused \/ p[1] \in Page("old")
    BY <1>2, <1>3, <1>4, <1>5, <2>1 DEF Unsealed, Sectors
  <2>2. CASE p[1] \in Page("valid") /\ p[2] \notin Page("valid")
    <3>1. Governs(n, flash)
      BY <1>2, <1>3, <1>4, <1>5, <2>2 DEF Governs, IsValid
    <3> QED
      BY <3>1
  <2>3. CASE p[1] \in Page("valid") /\ p[2] \in Page("valid")
    <3>1. Governs(1, flash)
      BY <1>2, <1>4, <2>3 DEF Governs, IsValid, Sectors, Other
    <3> QED
      BY <3>1 DEF Sectors
  <2> QED
    BY <1>5, <2>1, <2>2, <2>3
<1>10. job = Reset("boot") /\ reply = "none" /\ ignored = FALSE
  BY DEF Init
<1>11. /\ job \in JobType /\ job.op = "none" /\ job.step = "boot" /\ job.from = None
       /\ reply \in {"none", "ok", "error"}
  BY <1>10, ValueFacts DEF Steps, Reset, Job
<1>12. ~Programming /\ ~Constructing
  BY <1>11 DEF Programming, Constructing
<1>13. ignored \in BOOLEAN
  BY <1>10, Zenon
<1> QED
  BY <1>6, <1>8, <1>9, <1>11, <1>12, <1>13
  DEF Inv, Typed, JobInv, CounterInv, PlaceInv, DataInv

(* Which sector the code finds.                                            *)
LEMMA CurrentFacts ==
  ASSUME flash \in [Sectors -> SectorType]
  PROVE  /\ CurrentSector \in {0, 1, None} /\ OldSector \in {0, 1, None}
         /\ CurrentSector = None => \A n \in Sectors : ~IsValid(flash[n])
         /\ FindValidSector = None <=> CurrentSector = None
         /\ Unsealed(flash) => CurrentSector = None
         /\ \A c \in Sectors : Governs(c, flash) => CurrentSector = c
<1>1. /\ flash[0] \in SectorType /\ flash[1] \in SectorType
      /\ Sectors = {0, 1} /\ Other(0) = 1 /\ Other(1) = 0 /\ None = 2
  BY DEF Sectors, Other, None
<1>2. /\ FindValidSector \in {0, 1, None}
      /\ FindValidSector = 0 <=> IsValid(flash[0])
      /\ FindValidSector = 1 <=> ~IsValid(flash[0]) /\ IsValid(flash[1])
  BY <1>1 DEF FindValidSector
<1>3. \A c \in {0, 1} : EvaluateSectors(c, Other(c)) \in {0, 1}
  BY <1>1 DEF EvaluateSectors, NewerOf
<1>4. /\ CurrentSector \in {0, 1, None}
      /\ FindValidSector = None <=> CurrentSector = None
  BY <1>1, <1>2, <1>3 DEF CurrentSector
<1>5. CurrentSector = None => \A n \in Sectors : ~IsValid(flash[n])
  BY <1>1, <1>2, <1>4
<1>6. Unsealed(flash) => CurrentSector = None
  BY <1>1, <1>2, <1>4 DEF Unsealed, IsValid
<1>7. ASSUME NEW c \in Sectors, Governs(c, flash)
      PROVE  CurrentSector = c
  <2> DEFINE x == flash[c]
             y == flash[Other(c)]
  <2>1. /\ x \in SectorType /\ y \in SectorType /\ IsValid(x)
        /\ c = 0 \/ c = 1
    BY <1>1, <1>7 DEF Governs
  <2>2. /\ (y.counter + 1) % 4 # y.counter
        /\ (((y.counter + 1) % 4) + 1) % 4 # y.counter
    BY <2>1, CounterFacts DEF SectorType
  <2>3. CASE FindValidSector = c
    <3>1. EvaluateSectors(c, Other(c)) = c
      <4>1. CASE x.good /\ y.seal = "valid" /\ y.good
        <5>1. x.counter = (y.counter + 1) % 4
          BY <1>7, <4>1 DEF Governs
        <5>2. (x.counter + 1) % 4 # y.counter
          BY <2>2, <5>1
        <5> QED
          BY <4>1, <5>2 DEF EvaluateSectors, NewerOf
      <4>2. CASE ~(x.good /\ y.seal = "valid" /\ y.good)
        <5>1. y.seal # "valid" => x.good \/ y.seal # "invalid_v2"
          BY <1>7 DEF Governs
        <5>2. y.seal = "valid" => (x.good /\ ~y.good) \/ (~x.good /\ ~y.good /\ c = 1)
          BY <1>7, <4>2 DEF Governs
        <5>3. x.good \in BOOLEAN /\ y.good \in BOOLEAN
          BY <2>1 DEF SectorType
        <5> QED
          BY <5>1, <5>2, <5>3 DEF EvaluateSectors
      <4> QED
        BY <4>1, <4>2
    <3> QED
      BY <1>1, <2>1, <2>3, <3>1 DEF CurrentSector
  <2>4. CASE FindValidSector = Other(c)
    <3>1. EvaluateSectors(Other(c), c) = c
      <4>1. x.seal = "valid" /\ y.seal = "valid"
        BY <1>1, <1>2, <2>1, <2>4 DEF IsValid
      <4> QED
        BY <1>1, <1>7, <2>1, <2>2, <4>1 DEF EvaluateSectors, NewerOf, Governs
    <3> QED
      BY <1>1, <2>1, <2>4, <3>1 DEF CurrentSector
  <2> QED
    BY <1>1, <1>2, <2>1, <2>3, <2>4
<1>8. OldSector \in {0, 1, None}
  BY DEF OldSector
<1> QED
  BY <1>4, <1>5, <1>6, <1>7, <1>8

(* Nothing that is decided on changes with the flash as it is.             *)
LEMMA StableFacts ==
  ASSUME flash' = flash
  PROVE  /\ CurrentSector' = CurrentSector /\ OldSector' = OldSector
         /\ FindValidSector' = FindValidSector
BY DEF CurrentSector, OldSector, FindValidSector, EvaluateSectors, NewerOf

(* Calls that do not touch the flash.                                      *)
LEMMA BootStep ==
  ASSUME Inv, Boot
  PROVE  Inv'
<1>1. /\ flash' = flash /\ ignored' = ignored /\ reply' = reply
      /\ job.step = "boot" /\ Neighbours(flash') /\ OldSector' = OldSector
      /\ flash \in [Sectors -> SectorType]
  BY StableFacts DEF Boot, Quiet, Inv, CounterInv, Typed
<1>2. CASE FindValidSector = None /\ OldSector # None
  <2>1. job' = [Reset("erase") EXCEPT !.op = "migrate", !.to = Other(OldSector)]
    BY <1>2 DEF Boot
  <2>2. OldSector \in Sectors /\ Other(OldSector) \in Sectors
    BY <1>1, <1>2, CurrentFacts DEF Sectors, Other
  <2>3. Reset("erase") \in JobType /\ Reset("erase").step = "erase" /\ Reset("erase").from = None
    BY ValueFacts DEF Steps, Reset, Job
  <2>4. /\ job' \in JobType /\ job'.step = "erase" /\ job'.from = None
        /\ job'.op = "migrate" /\ job'.to = Other(OldSector)
    BY <2>1, <2>2, <2>3 DEF JobType
  <2>5. Programming' /\ ~Constructing'
    BY <2>4 DEF Programming, Constructing
  <2>6. Other(job'.to) = OldSector /\ Other(job'.to) \in Sectors
    BY <2>2, <2>4, OtherFacts
  <2>7. ~IsValid(flash[Other(job'.to)])
    BY <1>1, <1>2, <2>6, CurrentFacts
  <2>8. ~ignored => Unsealed(flash)
    BY <1>1, <1>2, CurrentFacts DEF Inv, PlaceInv, Sectors, None
  <2> QED
    BY <1>1, <2>4, <2>5, <2>6, <2>7, <2>8
    DEF Inv, Typed, JobInv, CounterInv, PlaceInv, DataInv
<1>3. CASE ~(FindValidSector = None /\ OldSector # None)
  <2>1. job' = Reset("idle")
    BY <1>3 DEF Boot
  <2>2. /\ job' \in JobType /\ JobInv' /\ CounterInv' /\ DataInv'
        /\ job'.step = "idle" /\ ~Programming'
    BY <1>1, <2>1, ResetFacts
  <2>3. ~ignored => \/ Unsealed(flash) /\ OldSector = None
                    \/ \E c \in Sectors : Governs(c, flash)
    BY <1>1, <1>3, CurrentFacts DEF Inv, PlaceInv
  <2> QED
    BY <1>1, <2>2, <2>3 DEF Inv, Typed, PlaceInv
<1> QED
  BY <1>2, <1>3

\* The call of write() keeps the invariant.
LEMMA WriteStep ==
  ASSUME Inv, NEW s \in Slots, NEW v \in Values, Write(s, v)
  PROVE  Inv'
<1>1. /\ flash' = flash /\ ignored' = ignored /\ reply' = "none"
      /\ job.step = "idle" /\ Neighbours(flash') /\ OldSector' = OldSector
      /\ flash \in [Sectors -> SectorType]
  BY StableFacts DEF Write, Inv, CounterInv, Typed
<1>2. job' = Job("write", "locate", s, v, None, 0)
  BY DEF Write
<1>3. job' \in JobType /\ job'.step = "locate" /\ job'.op = "write" /\ job'.from = None
  BY <1>2 DEF Job, JobType, Steps, None, Sectors
<1>4. ~Programming' /\ ~Constructing'
  BY <1>3 DEF Programming, Constructing
<1> QED
  BY <1>1, <1>3, <1>4 DEF Inv, Typed, JobInv, CounterInv, PlaceInv, DataInv

\* The call of read() keeps the invariant.
LEMMA ReadStep ==
  ASSUME Inv, Read
  PROVE  Inv'
<1>1. /\ flash' = flash /\ ignored' = ignored /\ reply' = reply
      /\ job.step = "idle" /\ Neighbours(flash') /\ OldSector' = OldSector
      /\ flash \in [Sectors -> SectorType] /\ CurrentSector = None
  BY StableFacts DEF Read, Quiet, Inv, CounterInv, Typed
<1>2. Reset("erase") \in JobType /\ Reset("erase").step = "erase" /\ Reset("erase").from = None
  BY ValueFacts DEF Steps, Reset, Job
<1>3. /\ job' \in JobType /\ job'.step = "erase" /\ job'.from = None
      /\ job'.op = "read" /\ job'.to = 1
  BY <1>2 DEF Read, JobType, Sectors
<1>4. Programming' /\ ~Constructing' /\ Other(job'.to) \in Sectors
  BY <1>3, OtherFacts DEF Programming, Constructing, Sectors
<1>5. ~IsValid(flash[Other(job'.to)])
  BY <1>1, <1>4, CurrentFacts
<1>6. ~ignored => Unsealed(flash) /\ OldSector = None
  BY <1>1, CurrentFacts DEF Inv, PlaceInv, Sectors, None
<1> QED
  BY <1>1, <1>3, <1>4, <1>5, <1>6
  DEF Inv, Typed, JobInv, CounterInv, PlaceInv, DataInv

\* findValidSector() keeps the invariant.
LEMMA LocateStep ==
  ASSUME Inv, Locate
  PROVE  Inv'
<1>1. /\ flash' = flash /\ ignored' = ignored /\ reply' = reply
      /\ job.step = "locate" /\ Neighbours(flash') /\ OldSector' = OldSector
      /\ flash \in [Sectors -> SectorType] /\ job \in JobType /\ job.op = "write"
  BY StableFacts DEF Locate, Quiet, Inv, CounterInv, Typed, JobInv
<1>2. CurrentSector \in {0, 1, None}
  BY <1>1, CurrentFacts
<1>3. /\ job' \in JobType /\ job'.step = "erase" /\ job'.from = CurrentSector
      /\ job'.op = "write"
      /\ job'.to = IF CurrentSector = None THEN 1 ELSE Other(CurrentSector)
  <2> DEFINE to == IF CurrentSector = None THEN 1 ELSE Other(CurrentSector)
  <2>1. CurrentSector \in 0..2 /\ to \in Sectors /\ "erase" \in Steps
    BY <1>2 DEF Sectors, Other, Steps, None
  <2>2. job' = [job EXCEPT !.step = "erase", !.from = CurrentSector, !.to = to]
    BY DEF Locate
  <2> HIDE DEF to
  <2>3. /\ job' \in JobType /\ job'.step = "erase" /\ job'.from = CurrentSector
        /\ job'.op = "write" /\ job'.to = to
    BY <1>1, <2>1, <2>2 DEF JobType
  <2> QED
    BY <2>3 DEF to
<1>4. Programming' /\ ~Constructing'
  BY <1>3 DEF Programming, Constructing
<1>5. CurrentSector = None =>
        /\ Other(job'.to) \in Sectors /\ ~IsValid(flash[Other(job'.to)])
        /\ ~ignored => Unsealed(flash) /\ OldSector = None
  BY <1>1, <1>3, CurrentFacts, OtherFacts DEF Inv, PlaceInv, Sectors, None
<1>6. CurrentSector # None =>
        /\ CurrentSector \in Sectors
        /\ ~ignored => Governs(CurrentSector, flash)
  BY <1>1, <1>2, CurrentFacts DEF Inv, PlaceInv, Sectors
<1>7. JobInv' /\ CounterInv'
  BY <1>1, <1>3, <1>4, <1>5, <1>6 DEF JobInv, CounterInv
<1>8. ~ignored => PlaceInv' /\ DataInv'
  BY <1>1, <1>3, <1>4, <1>5, <1>6 DEF PlaceInv, DataInv, Written
<1> QED
  BY <1>1, <1>3, <1>7, <1>8 DEF Inv, Typed

(* A step that spoils a sector, whole or cut short: the current sector     *)
(* stays the one it was.                                                   *)
LEMMA SpoiledStep ==
  ASSUME Inv, Programming, NEW x, Spoiled(flash[Touched], x), Program(Touched, x)
  PROVE  /\ flash' \in [Sectors -> SectorType] /\ Neighbours(flash')
         /\ flash'[Touched] = x /\ flash'[Other(Touched)] = flash[Other(Touched)]
         /\ job.from = None => ~IsValid(flash'[Other(job.to)])
         /\ ~ignored /\ job.from # None => Governs(Other(Touched), flash')
         /\ ~ignored /\ job.from = None => Unsealed(flash') /\ OldSector' = OldSector
<1>1. PICK n \in Sectors : n = Touched
  BY TouchedFacts DEF Inv
<1>2. /\ flash \in [Sectors -> SectorType] /\ flash[n] \in SectorType
      /\ x \in SectorType /\ Spoiled(flash[n], x) /\ Program(n, x)
      /\ Other(n) \in Sectors /\ Other(Other(n)) = n
  BY <1>1, OtherFacts DEF Inv, Typed, Spoiled
<1>3. /\ flash' \in [Sectors -> SectorType]
      /\ flash'[n] = x /\ flash'[Other(n)] = flash[Other(n)]
  BY <1>2, ProgramFacts
<1>4. /\ Neighbours(flash) => Neighbours(flash')
      /\ Governs(Other(n), flash) => Governs(Other(n), flash')
      /\ Unsealed(flash) => Unsealed(flash')
  BY <1>2, <1>3, SpoiledFacts
<1>5. Neighbours(flash')
  BY <1>4 DEF Inv, CounterInv
<1>6. job.from = None => n = job.to /\ ~IsValid(flash'[Other(job.to)])
  <2>1. job.from = None => n = job.to
    BY <1>1, TouchedFacts DEF Inv
  <2> QED
    BY <1>3, <2>1 DEF Inv, CounterInv
<1>7. ASSUME ~ignored, job.from # None
      PROVE  Governs(Other(n), flash')
  <2>1. Other(n) = IF job.step = "discard" THEN job.to ELSE job.from
    BY <1>1, <1>7, TouchedFacts, OtherFacts DEF Touched, Inv, Typed, JobType
  <2> QED
    BY <1>4, <1>7, <2>1 DEF Inv, PlaceInv
<1>8. ASSUME ~ignored, job.from = None
      PROVE  Unsealed(flash') /\ OldSector' = OldSector
  <2>1. Unsealed(flash) /\ (OldSector = Other(n) \/ OldSector = None)
    BY <1>6, <1>8 DEF Inv, PlaceInv
  <2>2. flash[n].seal # "old"
    BY <1>2, <2>1 DEF OldSector, Unsealed, Sectors, Other, None
  <2>3. flash'[n].seal # "old"
    BY <1>2, <1>3, <2>2 DEF Spoiled
  <2>4. OldSector' = OldSector
    <3>1. \A k \in Sectors : flash'[k].seal = "old" <=> flash[k].seal = "old"
      BY <1>2, <1>3, <2>2, <2>3, OtherFacts
    <3>2. /\ flash'[0].seal = "old" <=> flash[0].seal = "old"
          /\ flash'[1].seal = "old" <=> flash[1].seal = "old"
      BY <3>1 DEF Sectors
    <3> QED
      BY <3>2 DEF OldSector
  <2> QED
    BY <1>4, <2>1, <2>4
<1> QED
  BY <1>1, <1>3, <1>5, <1>6, <1>7, <1>8

(* A loss of power, in a step or between two.                              *)
LEMMA PowerLossStep ==
  ASSUME Inv, PowerLoss
  PROVE  Inv'
<1>1. job' = Reset("boot") /\ reply' = "none" /\ ignored' = ignored
  BY DEF PowerLoss
<1>2. /\ flash' \in [Sectors -> SectorType] /\ Neighbours(flash')
      /\ ~ignored => Unsealed(flash') \/ \E c \in Sectors : Governs(c, flash')
  <2>1. CASE Programming
    <3>1. PICK x \in CutShort : Program(Touched, x)
      BY <2>1 DEF PowerLoss
    <3>2. Spoiled(flash[Touched], x)
      BY <2>1, CutShortFacts DEF Inv
    <3>3. Other(Touched) \in Sectors
      BY <2>1, TouchedFacts, OtherFacts DEF Inv
    <3> QED
      BY <2>1, <3>1, <3>2, <3>3, SpoiledStep
  <2>2. CASE ~Programming
    <3>1. flash' = flash
      BY <2>2 DEF PowerLoss
    <3>2. job.step \in {"boot", "idle", "locate"}
      BY <2>2 DEF Programming
    <3> QED
      BY <3>1, <3>2 DEF Inv, Typed, CounterInv, PlaceInv
  <2> QED
    BY <2>1, <2>2
<1>3. /\ job' \in JobType /\ JobInv' /\ CounterInv' /\ DataInv'
      /\ job'.step = "boot" /\ ~Programming'
  BY <1>1, <1>2, ResetFacts
<1> QED
  BY <1>1, <1>2, <1>3 DEF Inv, Typed, PlaceInv

(* initialize() is over: the write goes on, as one that copies Sector_1.   *)
LEMMA AfterInitializeFacts ==
  ASSUME job \in JobType, AfterInitialize
  PROVE  \/ /\ job.op = "write" /\ job' \in JobType /\ job'.op = "write"
            /\ job'.step = "erase" /\ job'.from = 1 /\ job'.to = 0
            /\ job'.slot = job.slot /\ job'.value = job.value
         \/ job.op # "write" /\ job' = Reset("idle")
<1>1. CASE job.op = "write"
  <2>1. job' = [job EXCEPT !.step = "erase", !.from = 1, !.to = 0]
    BY <1>1 DEF AfterInitialize
  <2>2. "erase" \in Steps /\ 1 \in 0..2 /\ 0 \in Sectors
    BY DEF Steps, Sectors
  <2> QED
    BY <1>1, <2>1, <2>2 DEF JobType
<1>2. CASE job.op # "write"
  BY <1>2 DEF AfterInitialize
<1> QED
  BY <1>1, <1>2

(* An error of the flash; one in initialize() or migrate() is dropped.     *)
LEMMA StoreErrorStep ==
  ASSUME Inv, StoreError
  PROVE  Inv'
<1>1. PICK x \in CutShort : Program(Touched, x)
  BY DEF StoreError
<1>2. Programming /\ Spoiled(flash[Touched], x)
  BY CutShortFacts DEF Inv, StoreError
<1>3. /\ flash' \in [Sectors -> SectorType] /\ Neighbours(flash')
      /\ job.from = None => ~IsValid(flash'[Other(job.to)])
      /\ ~ignored /\ job.from # None => Governs(Other(Touched), flash')
  BY <1>1, <1>2, SpoiledStep
<1>4. CASE job.from # None
  <2>1. job' = Reset("idle") /\ reply' = "error" /\ ignored' = ignored
    BY <1>4 DEF StoreError
  <2>2. /\ job' \in JobType /\ JobInv' /\ CounterInv' /\ DataInv'
        /\ job'.step = "idle" /\ ~Programming'
    BY <1>3, <2>1, ResetFacts
  <2>3. Other(Touched) \in Sectors
    BY <1>2, TouchedFacts, OtherFacts DEF Inv
  <2> QED
    BY <1>3, <1>4, <2>1, <2>2, <2>3 DEF Inv, Typed, PlaceInv
<1>5. CASE job.from = None
  <2>1. AfterInitialize /\ ignored' = TRUE /\ reply' = reply
    BY <1>5 DEF StoreError
  <2>2. /\ job \in JobType /\ reply' \in {"none", "ok", "error"} /\ ignored' \in BOOLEAN
    BY <2>1, Zenon DEF Inv, Typed
  <2>3. CASE job' = Reset("idle")
    <3>1. job' \in JobType /\ JobInv' /\ CounterInv'
      BY <1>3, <2>3, ResetFacts
    <3> QED
      BY <1>3, <2>1, <2>2, <3>1 DEF Inv, Typed
  <2>4. CASE /\ job' \in JobType /\ job'.op = "write"
             /\ job'.step = "erase" /\ job'.from = 1 /\ job'.to = 0
    <3>1. JobInv' /\ CounterInv'
      BY <1>3, <2>4 DEF JobInv, CounterInv, Programming, Constructing, None, Sectors, Other
    <3> QED
      BY <1>3, <2>1, <2>2, <2>4, <3>1 DEF Inv, Typed
  <2> QED
    BY <2>1, <2>2, <2>3, <2>4, AfterInitializeFacts
<1> QED
  BY <1>4, <1>5

(* What the steps that erase and fill the new sector have in common.       *)
Builds(x, next) ==
  /\ x \in SectorType /\ x.seal = "init" /\ ~x.mark
  /\ Program(job.to, x) /\ Goto(next) /\ Quiet
  /\ next \in {"before", "data", "after", "footer", "crc", "seal"}
  /\ next \in {"before", "after"} => job.from # None
  /\ next = "data" => job.from # None \/ job.op = "migrate"
  /\ next \in {"crc", "seal"} => x.counter = NextCounter
  /\ next = "seal" => x.good

\* What a step does that builds the sector to come into force.
LEMMA BuildFacts ==
  ASSUME Inv, Programming, job.step # "discard", NEW x, NEW next, Builds(x, next)
  PROVE  /\ Touched = job.to /\ Spoiled(flash[Touched], x)
         /\ job.to \in Sectors /\ Other(job.to) \in Sectors /\ Other(job.to) # job.to
         /\ job.from # None => job.from \in Sectors /\ job.from = Other(job.to) /\ job.op = "write"
         /\ flash'[job.to] = x /\ flash'[Other(job.to)] = flash[Other(job.to)]
         /\ job' \in JobType /\ job'.step = next
         /\ job'.op = job.op /\ job'.slot = job.slot /\ job'.value = job.value
         /\ job'.from = job.from /\ job'.to = job.to
<1>1. Typed /\ JobInv /\ job \in JobType
  BY DEF Inv, Typed
<1>2. /\ Touched = job.to /\ job.to \in Sectors
      /\ job.from # None => job.from \in Sectors /\ job.from = Other(job.to) /\ job.op = "write"
  BY <1>1, OtherFacts DEF Touched, JobType, JobInv
<1>3. Other(job.to) \in Sectors /\ Other(job.to) # job.to
  BY <1>2, OtherFacts
<1>4. Spoiled(flash[Touched], x)
  BY DEF Builds, Spoiled
<1>5. flash'[job.to] = x /\ flash'[Other(job.to)] = flash[Other(job.to)]
  BY <1>1, <1>2, ProgramFacts DEF Builds, Typed
<1>6. /\ job' \in JobType /\ job'.step = next
      /\ job'.op = job.op /\ job'.slot = job.slot /\ job'.value = job.value
      /\ job'.from = job.from /\ job'.to = job.to
  BY <1>1, GotoFacts DEF Builds, Steps
<1> QED
  BY <1>2, <1>3, <1>4, <1>5, <1>6

\* Such a step keeps the invariant if it keeps what the new sector holds.
LEMMA BuildStep ==
  ASSUME Inv, Programming, job.step # "discard", NEW x, NEW next, Builds(x, next),
         ~ignored => DataInv'
  PROVE  Inv'
<1>1. /\ Touched = job.to /\ Spoiled(flash[Touched], x)
      /\ job.to \in Sectors /\ Other(job.to) \in Sectors /\ Other(job.to) # job.to
      /\ job.from # None => job.from \in Sectors /\ job.from = Other(job.to) /\ job.op = "write"
      /\ flash'[job.to] = x /\ flash'[Other(job.to)] = flash[Other(job.to)]
      /\ job' \in JobType /\ job'.step = next
      /\ job'.op = job.op /\ job'.from = job.from /\ job'.to = job.to
  BY BuildFacts
<1>2. /\ flash' \in [Sectors -> SectorType] /\ Neighbours(flash')
      /\ job.from = None => ~IsValid(flash'[Other(job.to)])
      /\ ~ignored /\ job.from # None => Governs(Other(job.to), flash')
      /\ ~ignored /\ job.from = None => Unsealed(flash') /\ OldSector' = OldSector
  BY <1>1, SpoiledStep DEF Builds
<1>3. reply' = reply /\ ignored' = ignored
  BY DEF Builds, Quiet
<1>4. Programming' /\ Constructing' /\ next \notin {"boot", "idle", "locate", "discard"}
  BY <1>1 DEF Programming, Constructing, Builds
<1>5. JobInv'
  <2>1. CASE job.from # None
    BY <1>1, <1>4, <2>1, OtherFacts DEF JobInv
  <2>2. CASE job.from = None
    <3>1. job.op # "none" /\ (job.op # "migrate" => job.to = 1)
      BY <2>2 DEF Inv, JobInv, None, Sectors
    <3>2. next \notin {"before", "after"} /\ (next = "data" => job.op = "migrate")
      BY <2>2 DEF Builds
    <3> QED
      BY <1>1, <1>4, <2>2, <3>1, <3>2 DEF JobInv
  <2> QED
    BY <2>1, <2>2
<1>6. CounterInv'
  <2>1. NextCounter' = NextCounter
    BY <1>1 DEF NextCounter
  <2> QED
    BY <1>1, <1>2, <1>4, <2>1 DEF CounterInv, Builds
<1>7. ~ignored => PlaceInv'
  BY <1>1, <1>2, <1>4 DEF Inv, PlaceInv
<1> QED
  BY <1>1, <1>2, <1>3, <1>5, <1>6, <1>7 DEF Inv, Typed

\* The erasing of the other sector keeps the invariant.
LEMMA EraseStep ==
  ASSUME Inv, EraseSector
  PROVE  Inv'
<1> DEFINE next == IF job.from # None THEN "before"
                   ELSE IF job.op = "migrate" THEN "data" ELSE "footer"
<1>1. Programming /\ job.step # "discard"
  BY DEF EraseSector, Programming
<1>2. Builds(Erased, next)
  <2>1. Erased \in SectorType /\ Erased.seal = "init" /\ ~Erased.mark
    BY ValueFacts DEF Erased
  <2>2. Program(job.to, Erased) /\ Goto(next) /\ Quiet
    BY DEF EraseSector
  <2> QED
    BY <2>1, <2>2 DEF Builds
<1> HIDE DEF next
<1>3. DataInv'
  <2>1. /\ job'.step = next /\ job'.op = job.op /\ job'.from = job.from /\ job'.to = job.to
        /\ flash'[job.to] = Erased
    BY <1>1, <1>2, BuildFacts
  <2>2. Erased.data = AllOf(Blank)
    BY DEF Erased
  <2> QED
    BY <2>1, <2>2 DEF DataInv, Written, next
<1> QED
  BY <1>1, <1>2, <1>3, BuildStep

(* The cells that a step fills, on top of those that were.                 *)
LEMMA FillStep ==
  ASSUME Inv, Constructing, NEW T, NEW cells \in [Slots -> Cell], NEW next,
         Program(job.to, Filled(T, cells)), Goto(next), Quiet,
         next \in {"data", "after", "footer"},
         next = "after" => job.from # None,
         next = "data" => job.from # None \/ job.op = "migrate",
         ~ignored => DataInv'
  PROVE  Inv'
<1>1. Programming /\ job.step # "discard"
  BY DEF Constructing, Programming
<1>2. flash[job.to] \in SectorType /\ flash[job.to].seal = "init" /\ ~flash[job.to].mark
  BY DEF Inv, Typed, JobType, CounterInv
<1>3. Builds(Filled(T, cells), next)
  BY <1>2, FilledFacts DEF Builds
<1> QED
  BY <1>1, <1>3, BuildStep

(* What a step that fills cells leaves in them.                            *)
LEMMA FillFacts ==
  ASSUME Inv, Constructing, NEW T, NEW cells \in [Slots -> Cell], NEW next \in Steps,
         Program(job.to, Filled(T, cells)), Goto(next)
  PROVE  /\ flash' \in [Sectors -> SectorType] /\ job.to \in Sectors
         /\ flash'[Other(job.to)] = flash[Other(job.to)]
         /\ job.from # None => flash'[job.from] = flash[job.from] /\ job.from \in Sectors
         /\ job'.step = next /\ job'.op = job.op /\ job'.slot = job.slot
         /\ job'.value = job.value /\ job'.from = job.from /\ job'.to = job.to
         /\ \A t \in Slots : flash'[job.to].data[t] =
              IF t \in T THEN cells[t] ELSE flash[job.to].data[t]
<1>1. /\ job \in JobType /\ flash \in [Sectors -> SectorType]
      /\ job.to \in Sectors /\ flash[job.to] \in SectorType
      /\ job.from # None => job.from \in Sectors /\ job.from = Other(job.to)
  BY OtherFacts DEF Inv, Typed, JobType, JobInv, Constructing, Programming
<1>2. /\ Filled(T, cells) \in SectorType
      /\ \A t \in Slots : Filled(T, cells).data[t] =
           IF t \in T THEN cells[t] ELSE flash[job.to].data[t]
  BY <1>1, FilledFacts
<1>3. /\ flash' \in [Sectors -> SectorType] /\ flash'[job.to] = Filled(T, cells)
      /\ flash'[Other(job.to)] = flash[Other(job.to)]
  BY <1>1, <1>2, ProgramFacts
<1>4. /\ job'.step = next /\ job'.op = job.op /\ job'.slot = job.slot
      /\ job'.value = job.value /\ job'.from = job.from /\ job'.to = job.to
  BY <1>1, GotoFacts
<1> QED
  BY <1>1, <1>2, <1>3, <1>4

\* The copy of the slots before the written one keeps the invariant.
LEMMA CopyBeforeStep ==
  ASSUME Inv, CopyBefore
  PROVE  Inv'
<1>1. /\ job.step = "before" /\ Program(job.to, Filled(Before, flash[job.from].data))
      /\ Goto("data") /\ Quiet /\ Constructing /\ Programming
  BY DEF CopyBefore, Constructing, Programming
<1>2. job.from # None /\ job.from \in Sectors /\ flash[job.from].data \in [Slots -> Cell]
  BY <1>1 DEF Inv, Typed, JobInv, SectorType, None, Sectors
<1>3. DataInv'
  <2>1. /\ job'.from = job.from /\ job'.to = job.to /\ job'.step = "data"
        /\ job'.slot = job.slot /\ job'.value = job.value
        /\ flash'[job.from] = flash[job.from]
        /\ \A t \in Slots : t \in Before => flash'[job.to].data[t] = flash[job.from].data[t]
    BY <1>1, <1>2, FillFacts DEF Steps
  <2>2. job.slot \in Nat
    BY DEF Inv, Typed, JobType, Slots
  <2> QED
    BY <1>2, <2>1, <2>2 DEF DataInv, Written, Before, Slots
<1> QED
  BY <1>1, <1>2, <1>3, FillStep

\* The writing of the new value keeps the invariant.
LEMMA WriteDataStep ==
  ASSUME Inv, WriteData
  PROVE  Inv'
<1>1. job.step = "data" /\ Quiet /\ Constructing /\ Programming /\ job.slot \in Slots
  BY DEF WriteData, Constructing, Programming, Inv, Typed, JobType
<1>2. CASE job.op = "write"
  <2>1. /\ Program(job.to, Filled({job.slot}, AllOf(job.value))) /\ Goto("after")
        /\ job.from # None
    BY <1>1, <1>2 DEF WriteData, Inv, JobInv, None, Sectors
  <2>2. AllOf(job.value) \in [Slots -> Cell] /\ AllOf(job.value)[job.slot] = job.value
    BY <1>1, ValueFacts DEF Inv, Typed, JobType, AllOf
  <2>3. ~ignored => DataInv'
    <3>1. /\ job'.from = job.from /\ job'.to = job.to /\ job'.step = "after"
          /\ job'.slot = job.slot /\ job'.value = job.value
          /\ flash'[job.from] = flash[job.from]
          /\ \A t \in Slots : flash'[job.to].data[t] =
               IF t = job.slot THEN job.value ELSE flash[job.to].data[t]
      BY <1>1, <2>1, <2>2, FillFacts DEF Steps
    <3>2. ~ignored => \A t \in Slots : t < job.slot =>
            flash[job.to].data[t] = flash[job.from].data[t]
      BY <1>1, <2>1 DEF Inv, DataInv, Written, Slots
    <3> QED
      BY <1>1, <2>1, <3>1, <3>2 DEF DataInv, Written, Slots
  <2> QED
    BY <1>1, <2>1, <2>2, <2>3, FillStep
<1>3. CASE job.op = "migrate"
  <2>1. /\ Program(job.to, Filled(Slots, flash[Other(job.to)].data)) /\ Goto("footer")
        /\ job.from = None /\ job.to \in Sectors /\ Other(job.to) \in Sectors
    BY <1>1, <1>3, OtherFacts DEF WriteData, Inv, JobInv, Typed, JobType
  <2>2. flash[Other(job.to)].data \in [Slots -> Cell]
    BY <2>1 DEF Inv, Typed, SectorType
  <2>3. DataInv'
    <3>1. /\ flash' \in [Sectors -> SectorType]
          /\ job'.from = None /\ job'.to = job.to /\ job'.step = "footer" /\ job'.op = "migrate"
          /\ flash'[Other(job.to)] = flash[Other(job.to)]
          /\ \A t \in Slots : flash'[job.to].data[t] = flash[Other(job.to)].data[t]
      BY <1>1, <1>3, <2>1, <2>2, FillFacts DEF Steps
    <3>2. flash'[job.to].data \in [Slots -> Cell]
      BY <2>1, <3>1 DEF SectorType
    <3>3. flash'[job.to].data = flash[Other(job.to)].data
      BY <2>2, <3>1, <3>2
    <3> QED
      BY <3>1, <3>3 DEF DataInv
  <2> QED
    BY <1>1, <1>3, <2>1, <2>2, <2>3, FillStep
<1> QED
  BY <1>2, <1>3 DEF WriteData

\* The copy of the slots after the written one keeps the invariant.
LEMMA CopyAfterStep ==
  ASSUME Inv, CopyAfter
  PROVE  Inv'
<1>1. /\ job.step = "after" /\ Program(job.to, Filled(After, flash[job.from].data))
      /\ Goto("footer") /\ Quiet /\ Constructing /\ Programming /\ job.slot \in Slots
  BY DEF CopyAfter, Constructing, Programming, Inv, Typed, JobType
<1>2. job.from # None /\ job.from \in Sectors /\ flash[job.from].data \in [Slots -> Cell]
  BY <1>1 DEF Inv, Typed, JobInv, SectorType, None, Sectors
<1>3. ~ignored => DataInv'
  <2>1. /\ job'.from = job.from /\ job'.to = job.to /\ job'.step = "footer"
        /\ job'.slot = job.slot /\ job'.value = job.value
        /\ flash'[job.from] = flash[job.from]
        /\ \A t \in Slots : flash'[job.to].data[t] =
             IF t > job.slot THEN flash[job.from].data[t] ELSE flash[job.to].data[t]
    BY <1>1, <1>2, FillFacts DEF Steps, After
  <2>2. ~ignored => \A t \in Slots : t <= job.slot =>
          flash[job.to].data[t] = IF t = job.slot THEN job.value ELSE flash[job.from].data[t]
    BY <1>1, <1>2 DEF Inv, DataInv, Written
  <2>3. \A t \in Slots : t \in Nat
    BY DEF Slots
  <2> QED
    BY <1>1, <1>2, <2>1, <2>2, <2>3 DEF DataInv, Written
<1> QED
  BY <1>1, <1>2, <1>3, FillStep

(* A step that leaves the data of the new sector as they are.              *)
LEMMA FinishStep ==
  ASSUME Inv, job.step \in {"footer", "crc"}, NEW x, NEW next \in {"crc", "seal"},
         Builds(x, next), x.data = flash[job.to].data
  PROVE  Inv'
<1>1. Programming /\ job.step # "discard"
  BY DEF Programming
<1>2. /\ job.from # None => job.from \in Sectors /\ job.from = Other(job.to)
      /\ flash'[job.to] = x /\ flash'[Other(job.to)] = flash[Other(job.to)]
      /\ job'.step = next /\ job'.op = job.op /\ job'.slot = job.slot
      /\ job'.value = job.value /\ job'.from = job.from /\ job'.to = job.to
  BY <1>1, BuildFacts
<1>3. ~ignored => DataInv'
  BY <1>2 DEF Inv, DataInv, Written
<1> QED
  BY <1>1, <1>3, BuildStep

(* The counter of the footer has two bits.                                 *)
LEMMA NextCounterType ==
  ASSUME Inv, Programming
  PROVE  NextCounter \in 0..3
<1>1. CASE job.from = None
  BY <1>1 DEF NextCounter
<1>2. CASE job.from # None
  <2>1. flash[job.from].counter \in 0..3
    BY <1>2 DEF Inv, Typed, JobInv, SectorType
  <2> QED
    BY <1>2, <2>1, CounterFacts DEF NextCounter
<1> QED
  BY <1>1, <1>2

\* The writing of the watermark keeps the invariant.
LEMMA WriteFooterStep ==
  ASSUME Inv, WriteFooter
  PROVE  Inv'
<1> DEFINE x == [flash[job.to] EXCEPT !.counter = NextCounter]
<1>1. /\ job.step = "footer" /\ Program(job.to, x) /\ Goto("crc") /\ Quiet
      /\ Constructing /\ Programming
  BY DEF WriteFooter, Constructing, Programming
<1>2. flash[job.to] \in SectorType /\ flash[job.to].seal = "init" /\ ~flash[job.to].mark
  BY <1>1 DEF Inv, Typed, JobType, CounterInv
<1>3. NextCounter \in 0..3
  BY <1>1, NextCounterType
<1>4. /\ x \in SectorType /\ x.mark = flash[job.to].mark /\ x.seal = flash[job.to].seal
      /\ x.counter = NextCounter /\ x.data = flash[job.to].data
  BY <1>2, <1>3 DEF SectorType
<1> HIDE DEF x
<1>5. Builds(x, "crc")
  BY <1>1, <1>2, <1>4 DEF Builds
<1> QED
  BY <1>1, <1>4, <1>5, FinishStep

\* The writing of the CRC keeps the invariant.
LEMMA WriteCrcStep ==
  ASSUME Inv, WriteCrc
  PROVE  Inv'
<1> DEFINE x == [flash[job.to] EXCEPT !.good = TRUE]
<1>1. /\ job.step = "crc" /\ Program(job.to, x) /\ Goto("seal") /\ Quiet
      /\ Constructing /\ Programming
  BY DEF WriteCrc, Constructing, Programming
<1>2. /\ flash[job.to] \in SectorType /\ flash[job.to].seal = "init" /\ ~flash[job.to].mark
      /\ flash[job.to].counter = NextCounter
  BY <1>1 DEF Inv, Typed, JobType, CounterInv
<1>3. TRUE \in BOOLEAN
  BY Zenon
<1>4. /\ x \in SectorType /\ x.mark = flash[job.to].mark /\ x.seal = flash[job.to].seal
      /\ x.counter = flash[job.to].counter /\ x.data = flash[job.to].data /\ x.good
  BY <1>2, <1>3 DEF SectorType
<1> HIDE DEF x
<1>5. Builds(x, "seal")
  BY <1>1, <1>2, <1>4 DEF Builds
<1> QED
  BY <1>1, <1>4, <1>5, FinishStep

(* Sealing makes the new sector the current one, in one step.              *)
LEMMA SealGoverns ==
  ASSUME Inv, Seal
  PROVE  /\ flash' \in [Sectors -> SectorType] /\ Neighbours(flash')
         /\ flash'[Other(job.to)] = flash[Other(job.to)]
         /\ flash'[job.to].good /\ flash'[job.to].data = flash[job.to].data
         /\ ~ignored => Governs(job.to, flash')
<1> DEFINE x == [flash[job.to] EXCEPT !.mark = TRUE, !.seal = "valid"]
<1>1. PICK n \in Sectors : n = job.to
  BY DEF Inv, Typed, JobType
<1>2. /\ flash \in [Sectors -> SectorType] /\ flash[n] \in SectorType /\ flash[n].good
      /\ Program(n, x) /\ flash[n].counter = NextCounter /\ job.step = "seal" /\ Programming
      /\ Other(n) \in Sectors
  BY <1>1, OtherFacts DEF Inv, Typed, CounterInv, Seal, Programming
<1>3. TRUE \in BOOLEAN /\ "valid" \in Seals
  <2>1. TRUE \in BOOLEAN
    BY Zenon
  <2> QED
    BY <2>1 DEF Seals
<1>4. /\ x \in SectorType /\ x.mark /\ x.seal = "valid" /\ x.good
      /\ x.counter = NextCounter /\ x.data = flash[n].data
  BY <1>1, <1>2, <1>3 DEF SectorType
<1> HIDE DEF x
<1>5. /\ flash' \in [Sectors -> SectorType]
      /\ flash'[n] = x /\ flash'[Other(n)] = flash[Other(n)]
  BY <1>2, <1>4, ProgramFacts
<1>6. IsValid(flash'[n]) /\ flash'[n].good /\ flash'[n].counter = NextCounter
  BY <1>4, <1>5 DEF IsValid
<1>7. \/ flash'[n].counter = (flash[Other(n)].counter + 1) % 4
      \/ /\ ~IsValid(flash[Other(n)])
         /\ ~ignored => flash[Other(n)].seal # "valid"
  <2>1. CASE job.from # None
    <3>1. job.from = Other(n)
      BY <1>1, <1>2, <2>1, OtherFacts DEF Inv, JobInv
    <3> QED
      BY <1>6, <2>1, <3>1 DEF NextCounter
  <2>2. CASE job.from = None
    BY <1>1, <1>2, <2>2 DEF Inv, CounterInv, PlaceInv, Unsealed
  <2> QED
    BY <2>1, <2>2
<1>8. /\ Neighbours(flash')
      /\ ~ignored => Governs(n, flash')
  BY <1>2, <1>5, <1>6, <1>7, SealFacts
<1> QED
  BY <1>1, <1>4, <1>5, <1>6, <1>8

\* The seal, with which the new sector comes into force, keeps the invariant.
LEMMA SealStep ==
  ASSUME Inv, Seal
  PROVE  Inv'
<1>1. /\ flash' \in [Sectors -> SectorType] /\ Neighbours(flash')
      /\ flash'[Other(job.to)] = flash[Other(job.to)]
      /\ flash'[job.to].good /\ flash'[job.to].data = flash[job.to].data
      /\ ~ignored => Governs(job.to, flash')
  BY SealGoverns
<1>2. /\ job.step = "seal" /\ Programming /\ job \in JobType /\ job.to \in Sectors
      /\ reply' = reply /\ ignored' = ignored
  BY DEF Seal, Quiet, Programming, Inv, Typed, JobType
<1>3. CASE job.from # None
  <2>1. /\ job' \in JobType /\ job'.step = "discard"
        /\ job'.op = job.op /\ job'.slot = job.slot /\ job'.value = job.value
        /\ job'.from = job.from /\ job'.to = job.to
    BY <1>2, <1>3, GotoFacts DEF Seal, Steps
  <2>2. job.op = "write" /\ job.from \in Sectors /\ job.to = Other(job.from) /\ job.from = Other(job.to)
    BY <1>2, <1>3, OtherFacts DEF Inv, JobInv
  <2>3. Programming' /\ ~Constructing'
    BY <2>1 DEF Programming, Constructing
  <2>4. JobInv' /\ CounterInv'
    BY <1>1, <1>3, <2>1, <2>2, <2>3 DEF JobInv, CounterInv
  <2>5. ~ignored => PlaceInv' /\ DataInv'
    BY <1>1, <1>2, <1>3, <2>1, <2>2, <2>3 DEF Inv, PlaceInv, DataInv, Written
  <2> QED
    BY <1>1, <1>2, <2>1, <2>4, <2>5 DEF Inv, Typed
<1>4. CASE job.from = None
  <2>1. AfterInitialize
    BY <1>4 DEF Seal
  <2>2. CASE job.op # "write"
    <3>1. job' = Reset("idle")
      BY <2>1, <2>2 DEF AfterInitialize
    <3>2. /\ job' \in JobType /\ JobInv' /\ CounterInv' /\ DataInv'
          /\ job'.step = "idle" /\ ~Programming'
      BY <1>1, <3>1, ResetFacts
    <3> QED
      BY <1>1, <1>2, <3>2 DEF Inv, Typed, PlaceInv
  <2>3. CASE job.op = "write"
    <3>1. /\ job' \in JobType /\ job'.op = "write"
          /\ job'.step = "erase" /\ job'.from = 1 /\ job'.to = 0
      BY <1>2, <2>1, <2>3, AfterInitializeFacts
    <3>2. job.to = 1
      BY <1>2, <1>4, <2>3 DEF Inv, JobInv, None, Sectors
    <3>3. Programming' /\ ~Constructing' /\ 1 # None /\ 0 = Other(1) /\ 1 \in Sectors
      BY <3>1 DEF Programming, Constructing, None, Other, Sectors
    <3>4. JobInv' /\ CounterInv'
      BY <1>1, <3>1, <3>3 DEF JobInv, CounterInv
    <3>5. ~ignored => PlaceInv' /\ DataInv'
      BY <1>1, <3>1, <3>2, <3>3 DEF PlaceInv, DataInv, Written
    <3> QED
      BY <1>1, <1>2, <3>1, <3>4, <3>5 DEF Inv, Typed
  <2> QED
    BY <2>2, <2>3
<1> QED
  BY <1>3, <1>4

(* Discarding the old sector leaves the new one the current one.           *)
LEMMA DiscardGoverns ==
  ASSUME Inv, Discard
  PROVE  /\ flash' \in [Sectors -> SectorType] /\ Neighbours(flash')
         /\ job.from # None /\ job.from \in Sectors /\ job.to = Other(job.from)
         /\ flash'[job.to] = flash[job.to]
         /\ ~ignored => Governs(job.to, flash')
<1> DEFINE x == [flash[job.from] EXCEPT !.mark = TRUE, !.seal = "invalid_v2"]
<1>1. /\ job.step = "discard" /\ Programming /\ job.from # None
      /\ job.from \in Sectors /\ job.to = Other(job.from)
  BY DEF Discard, Programming, Inv, JobInv, None, Sectors
<1>2. PICK n \in Sectors : n = job.from
  BY <1>1
<1>3. /\ flash \in [Sectors -> SectorType] /\ flash[n] \in SectorType
      /\ Program(n, x) /\ flash[Other(n)].good
      /\ ~ignored => Governs(Other(n), flash)
  BY <1>1, <1>2 DEF Inv, Typed, CounterInv, PlaceInv, Discard
<1>4. TRUE \in BOOLEAN /\ "invalid_v2" \in Seals
  <2>1. TRUE \in BOOLEAN
    BY Zenon
  <2> QED
    BY <2>1 DEF Seals
<1>5. x \in SectorType /\ x.seal = "invalid_v2"
  BY <1>2, <1>3, <1>4 DEF SectorType
<1> HIDE DEF x
<1>6. /\ flash' \in [Sectors -> SectorType]
      /\ flash'[n] = x /\ flash'[Other(n)] = flash[Other(n)]
  BY <1>3, <1>5, ProgramFacts
<1>7. Neighbours(flash') /\ (~ignored => Governs(Other(n), flash'))
  BY <1>3, <1>5, <1>6, DiscardFacts
<1> QED
  BY <1>1, <1>2, <1>6, <1>7

\* The discarding of the old sector keeps the invariant.
LEMMA DiscardStep ==
  ASSUME Inv, Discard
  PROVE  Inv'
<1>1. /\ flash' \in [Sectors -> SectorType] /\ Neighbours(flash')
      /\ job.to \in Sectors /\ (~ignored => Governs(job.to, flash'))
  BY DiscardGoverns, OtherFacts
<1>2. job' = Reset("idle") /\ reply' = "ok" /\ ignored' = ignored
  BY DEF Discard
<1>3. /\ job' \in JobType /\ JobInv' /\ CounterInv' /\ DataInv'
      /\ job'.step = "idle" /\ ~Programming'
  BY <1>1, <1>2, ResetFacts
<1> QED
  BY <1>1, <1>2, <1>3 DEF Inv, Typed, PlaceInv

\* Every step keeps the invariant.
LEMMA InvNext == Inv /\ [Next]_vars => Inv'
<1> SUFFICES ASSUME Inv, [Next]_vars PROVE Inv'
  OBVIOUS
<1>1. CASE UNCHANGED vars
  <2>1. flash' = flash /\ job' = job /\ reply' = reply /\ ignored' = ignored
    BY <1>1 DEF vars
  <2> QED
    BY <2>1, StableFacts
    DEF Inv, Typed, JobInv, CounterInv, PlaceInv, DataInv, Programming, Constructing,
        NextCounter, Written
<1> QED
  BY <1>1, BootStep, ReadStep, LocateStep, WriteStep, EraseStep, CopyBeforeStep,
     WriteDataStep, CopyAfterStep, WriteFooterStep, WriteCrcStep, SealStep, DiscardStep,
     PowerLossStep, StoreErrorStep DEF Next

\* The inductive invariant holds throughout.
LEMMA InvAlways == Spec => []Inv
BY InvInit, InvNext, PTL DEF Spec

-----------------------------------------------------------------------------
(* Type correctness.                                                       *)
THEOREM TypeCorrect == Spec => []TypeOK
<1>1. Inv => TypeOK
  BY TypedIsTypeOK DEF Inv
<1> QED
  BY <1>1, InvAlways, PTL

(* The counter always decides (dcd.h:402-411): two sectors that are sealed *)
(* and intact are never as old as each other, nor two writes apart, even   *)
(* after errors that nobody looked at.                                     *)
THEOREM CounterAlwaysDecides == Spec => []CounterDecides
<1>1. Inv => CounterDecides
  <2> SUFFICES ASSUME Inv, \A n \in Sectors : IsValid(flash[n]) /\ flash[n].good
               PROVE  flash[CurrentSector].counter = (flash[Other(CurrentSector)].counter + 1) % 4
    BY DEF CounterDecides
  <2>1. /\ flash[0] \in SectorType /\ flash[1] \in SectorType
        /\ IsValid(flash[0]) /\ flash[0].good /\ IsValid(flash[1]) /\ flash[1].good
        /\ flash \in [Sectors -> SectorType]
    BY DEF Inv, Typed, Sectors
  <2>2. CASE flash[1].counter = (flash[0].counter + 1) % 4
    <3>1. Governs(1, flash) /\ Other(1) = 0 /\ 1 \in Sectors
      BY <2>1, <2>2 DEF Governs, Other, Sectors
    <3> QED
      BY <2>1, <2>2, <3>1, CurrentFacts
  <2>3. CASE flash[0].counter = (flash[1].counter + 1) % 4
    <3>1. Governs(0, flash) /\ Other(0) = 1 /\ 0 \in Sectors
      BY <2>1, <2>3 DEF Governs, Other, Sectors
    <3> QED
      BY <2>1, <2>3, <3>1, CurrentFacts
  <2> QED
    BY <2>2, <2>3 DEF Inv, CounterInv, Neighbours
<1> QED
  BY <1>1, InvAlways, PTL

-----------------------------------------------------------------------------
(* The two sectors are a register.                                         *)

Clean(d) == [t \in Slots |-> IF d[t] \in Values THEN d[t] ELSE Blank]

(* A read returns the data of the sector that governs, or of the old page. *)
ContentIs ==
  /\ \A c \in Sectors : Governs(c, flash) => Content = Clean(flash[c].data)
  /\ Unsealed(flash) =>
       Content = Clean(IF OldSector # None THEN flash[OldSector].data ELSE AllOf(Blank))

\* The register's content is what the sector in force holds.
LEMMA ContentFacts == flash \in [Sectors -> SectorType] => ContentIs
<1> SUFFICES ASSUME flash \in [Sectors -> SectorType] PROVE ContentIs
  OBVIOUS
<1>1. ASSUME NEW c \in Sectors, Governs(c, flash)
      PROVE  Content = Clean(flash[c].data)
  <2>1. CurrentSector = c /\ c # None
    BY <1>1, CurrentFacts, OtherFacts
  <2> QED
    BY <2>1 DEF Content, Clean
<1>2. ASSUME Unsealed(flash)
      PROVE  Content = Clean(IF OldSector # None THEN flash[OldSector].data ELSE AllOf(Blank))
  <2>1. CurrentSector = None
    BY <1>2, CurrentFacts
  <2> QED
    BY <2>1 DEF Content, Clean
<1> QED
  BY <1>1, <1>2 DEF ContentIs

\* The same of the next state.
LEMMA ContentNext == (flash \in [Sectors -> SectorType])' => ContentIs'
BY ContentFacts, PTL

(* What it returns changes when a sector is sealed, and only then.         *)
LEMMA SpoiledContent ==
  ASSUME Inv, Programming, ~ignored, NEW x, Spoiled(flash[Touched], x), Program(Touched, x)
  PROVE  Content' = Content
<1>1. /\ flash' \in [Sectors -> SectorType]
      /\ flash'[Other(Touched)] = flash[Other(Touched)]
      /\ job.from # None => Governs(Other(Touched), flash')
      /\ job.from = None => Unsealed(flash') /\ OldSector' = OldSector
  BY SpoiledStep
<1>2. PICK m \in Sectors : m = Other(Touched)
  BY TouchedFacts, OtherFacts DEF Inv
<1>3. ContentIs /\ ContentIs'
  BY <1>1, ContentFacts, ContentNext DEF Inv, Typed
<1>4. CASE job.from # None
  <2>1. m = IF job.step = "discard" THEN job.to ELSE job.from
    BY <1>2, <1>4, TouchedFacts, OtherFacts DEF Touched, Inv, Typed, JobType
  <2>2. Governs(m, flash)
    BY <1>4, <2>1 DEF Inv, PlaceInv
  <2> QED
    BY <1>1, <1>2, <1>3, <1>4, <2>2 DEF ContentIs
<1>5. CASE job.from = None
  <2>1. Unsealed(flash) /\ (OldSector = m \/ OldSector = None)
    BY <1>2, <1>5, TouchedFacts DEF Inv, PlaceInv
  <2>2. OldSector # None => flash'[OldSector] = flash[OldSector]
    BY <1>1, <1>2, <2>1
  <2>3. /\ Content = Clean(IF OldSector # None THEN flash[OldSector].data ELSE AllOf(Blank))
        /\ Content' = Clean(IF OldSector # None THEN flash'[OldSector].data ELSE AllOf(Blank))
    BY <1>1, <1>3, <1>5, <2>1 DEF ContentIs
  <2> QED
    BY <2>2, <2>3
<1> QED
  BY <1>4, <1>5

(* A step of construction that is not cut short spoils the new sector.     *)
LEMMA BuildSpoils ==
  ASSUME Inv, EraseSector \/ CopyBefore \/ WriteData \/ CopyAfter \/ WriteFooter \/ WriteCrc
  PROVE  /\ Programming
         /\ \E x : Spoiled(flash[Touched], x) /\ Program(Touched, x)
         /\ job'.op = job.op /\ job'.slot = job.slot /\ job'.value = job.value
         /\ job.step # "discard" /\ job'.step # "discard"
         /\ reply' = reply /\ ignored' = ignored
<1>1. /\ Programming /\ job.step # "discard" /\ reply' = reply /\ ignored' = ignored
      /\ job \in JobType /\ flash[job.to] \in SectorType
  BY DEF EraseSector, CopyBefore, WriteData, CopyAfter, WriteFooter, WriteCrc, Quiet,
         Programming, Inv, Typed, JobType
<1>2. Touched = job.to
  BY <1>1 DEF Touched
<1>3. \E step \in Steps \ {"discard"} : Goto(step)
  BY DEF EraseSector, CopyBefore, WriteData, CopyAfter, WriteFooter, WriteCrc, Steps
<1>4. /\ job'.op = job.op /\ job'.slot = job.slot /\ job'.value = job.value
      /\ job'.step # "discard"
  BY <1>1, <1>3, GotoFacts
<1>5. ASSUME NEW x \in SectorType, x.seal = "init", Program(job.to, x)
      PROVE  Spoiled(flash[Touched], x) /\ Program(Touched, x)
  BY <1>2, <1>5 DEF Spoiled
<1>6. CASE EraseSector
  <2>1. Erased \in SectorType /\ Erased.seal = "init" /\ Program(job.to, Erased)
    BY <1>6, ValueFacts DEF Erased, EraseSector
  <2> QED
    BY <1>1, <1>4, <1>5, <2>1
<1>7. CASE CopyBefore \/ WriteData \/ CopyAfter
  <2>1. flash[job.to].seal = "init"
    BY <1>7 DEF CopyBefore, WriteData, CopyAfter, Inv, CounterInv, Constructing
  <2>2. \A n \in Sectors : flash[n].data \in [Slots -> Cell]
    BY DEF Inv, Typed, SectorType
  <2>3. \E T : \E cells \in [Slots -> Cell] : Program(job.to, Filled(T, cells))
    <3>1. CASE CopyBefore \/ CopyAfter
      <4>1. flash[job.from].data \in [Slots -> Cell]
        BY <1>1, <2>2, <3>1 DEF CopyBefore, CopyAfter, Inv, JobInv
      <4> QED
        BY <3>1, <4>1 DEF CopyBefore, CopyAfter
    <3>2. CASE WriteData
      <4>1. AllOf(job.value) \in [Slots -> Cell] /\ flash[Other(job.to)].data \in [Slots -> Cell]
        BY <1>1, <2>2, ValueFacts, OtherFacts DEF JobType
      <4> QED
        BY <3>2, <4>1 DEF WriteData
    <3> QED
      BY <1>7, <3>1, <3>2
  <2>4. \E x \in SectorType : x.seal = "init" /\ Program(job.to, x)
    BY <1>1, <2>1, <2>3, FilledFacts
  <2> QED
    BY <1>1, <1>4, <1>5, <2>4
<1>8. CASE WriteFooter \/ WriteCrc
  <2>1. flash[job.to].seal = "init"
    BY <1>8 DEF WriteFooter, WriteCrc, Inv, CounterInv, Constructing
  <2>2. NextCounter \in 0..3 /\ TRUE \in BOOLEAN
    <3>1. TRUE \in BOOLEAN
      BY Zenon
    <3> QED
      BY <1>1, <3>1, NextCounterType
  <2>3. \/ Program(job.to, [flash[job.to] EXCEPT !.counter = NextCounter])
        \/ Program(job.to, [flash[job.to] EXCEPT !.good = TRUE])
    BY <1>8 DEF WriteFooter, WriteCrc
  <2>4. /\ [flash[job.to] EXCEPT !.counter = NextCounter] \in SectorType
        /\ [flash[job.to] EXCEPT !.counter = NextCounter].seal = "init"
        /\ [flash[job.to] EXCEPT !.good = TRUE] \in SectorType
        /\ [flash[job.to] EXCEPT !.good = TRUE].seal = "init"
    BY <1>1, <2>1, <2>2 DEF SectorType
  <2> QED
    BY <1>1, <1>4, <1>5, <2>3, <2>4
<1> QED
  BY <1>6, <1>7, <1>8

\* The seal writes the register, or leaves it when the sector was copied.
LEMMA SealContent ==
  ASSUME Inv, Seal, ~ignored
  PROVE  Content' = IF job.from = None THEN Content ELSE [Content EXCEPT ![job.slot] = job.value]
<1>1. /\ flash' \in [Sectors -> SectorType] /\ Governs(job.to, flash')
      /\ flash'[job.to].data = flash[job.to].data
  BY SealGoverns
<1>2. /\ ContentIs /\ ContentIs' /\ flash \in [Sectors -> SectorType]
      /\ job.to \in Sectors /\ job.slot \in Slots /\ job.value \in Values
      /\ job.step = "seal" /\ Programming
  BY <1>1, ContentFacts, ContentNext DEF Inv, Typed, JobType, Seal, Programming
<1>3. Content' = Clean(flash[job.to].data)
  BY <1>1, <1>2 DEF ContentIs
<1>4. CASE job.from # None
  <2>1. Governs(job.from, flash) /\ job.from \in Sectors
    BY <1>2, <1>4 DEF Inv, JobInv, PlaceInv
  <2>2. Content = Clean(flash[job.from].data)
    BY <1>2, <2>1 DEF ContentIs
  <2>3. \A t \in Slots : flash[job.to].data[t] =
          IF t = job.slot THEN job.value ELSE flash[job.from].data[t]
    BY <1>2, <1>4 DEF Inv, DataInv, Written
  <2>4. Clean(flash[job.to].data) = [Clean(flash[job.from].data) EXCEPT ![job.slot] = job.value]
    BY <1>2, <2>3 DEF Clean
  <2> QED
    BY <1>3, <1>4, <2>2, <2>4
<1>5. CASE job.from = None
  <2>1. /\ Unsealed(flash)
        /\ OldSector = IF job.op = "migrate" THEN Other(job.to) ELSE None
    BY <1>2, <1>5 DEF Inv, PlaceInv
  <2>2. Content = Clean(IF OldSector # None THEN flash[OldSector].data ELSE AllOf(Blank))
    BY <1>2, <2>1 DEF ContentIs
  <2>3. flash[job.to].data = IF job.op = "migrate" THEN flash[Other(job.to)].data
                             ELSE AllOf(Blank)
    BY <1>2, <1>5 DEF Inv, DataInv
  <2>4. Other(job.to) # None
    BY <1>2, OtherFacts
  <2> QED
    BY <1>3, <1>5, <2>1, <2>2, <2>3, <2>4
<1> QED
  BY <1>4, <1>5

\* The discarding of the old sector leaves the register alone.
LEMMA DiscardContent ==
  ASSUME Inv, Discard, ~ignored
  PROVE  Content' = Content
<1>1. /\ flash' \in [Sectors -> SectorType] /\ flash'[job.to] = flash[job.to]
      /\ job.to \in Sectors /\ Governs(job.to, flash')
  BY DiscardGoverns, OtherFacts
<1>2. Governs(job.to, flash)
  <2>1. job.step = "discard" /\ Programming /\ job.from # None
    BY DiscardGoverns DEF Discard, Programming
  <2> QED
    BY <2>1 DEF Inv, PlaceInv
<1>3. ContentIs /\ ContentIs'
  BY <1>1, ContentFacts, ContentNext DEF Inv, Typed
<1> QED
  BY <1>1, <1>2, <1>3 DEF ContentIs

(* The call in progress, as the register sees it.                          *)
LEMMA CallFacts ==
  ASSUME Inv
  PROVE  /\ job.op # "write" => Call = Promise!NoCall
         /\ job.op = "write" =>
              /\ Call = [slot |-> job.slot, value |-> job.value, done |-> job.step = "discard"]
              /\ Call # Promise!NoCall /\ Call.slot = job.slot /\ Call.value = job.value
              /\ Call.done <=> job.step = "discard"
<1>1. job.op # "write" => Call = Promise!NoCall
  BY DEF Call, Promise!NoCall
<1>2. ASSUME job.op = "write"
      PROVE  /\ Call = [slot |-> job.slot, value |-> job.value, done |-> job.step = "discard"]
             /\ Call # Promise!NoCall /\ Call.slot = job.slot /\ Call.value = job.value
             /\ Call.done <=> job.step = "discard"
  <2>1. Call = [slot |-> job.slot, value |-> job.value, done |-> job.step = "discard"]
    BY <1>2 DEF Call
  <2>2. Call.slot = job.slot /\ Call.value = job.value /\ (Call.done <=> job.step = "discard")
    BY <2>1
  <2>3. job.value # Blank
    BY DcdAssumption DEF Inv, Typed, JobType
  <2>4. Promise!NoCall.value = Blank
    BY DEF Promise!NoCall
  <2> QED
    BY <2>1, <2>2, <2>3, <2>4
<1> QED
  BY <1>1, <1>2

(* Every content the flash may have first is one of a register.            *)
LEMMA RegisterInitial == Init => Promise!RegisterInit
<1> SUFFICES ASSUME Init PROVE Promise!RegisterInit
  OBVIOUS
<1>1. Content \in [Slots -> Values \cup {Blank}]
  BY DEF Content
<1>2. Call = Promise!NoCall
  <2>1. job.op = "none"
    BY DEF Init, Reset, Job
  <2> QED
    BY <2>1 DEF Call, Promise!NoCall
<1>3. reply = "none" /\ ignored = FALSE
  BY DEF Init
<1> QED
  BY <1>1, <1>2, <1>3 DEF Promise!RegisterInit

(* Every step is one of the register, or none, or drops an error.          *)
LEMMA RegisterStep == Inv /\ [Next]_vars => [Promise!RegisterNext]_(Promise!registerVars)
<1> SUFFICES ASSUME Inv, [Next]_vars, ~ignored'
             PROVE  \/ Promise!RegisterNext
                    \/ UNCHANGED <<Content, Call, reply, ignored>>
  BY DEF Promise!RegisterNext, Promise!registerVars
<1> DEFINE Stutter == UNCHANGED <<Content, Call, reply, ignored>>
<1>1. ASSUME flash' = flash
      PROVE  Content' = Content
  BY <1>1, StableFacts DEF Content
<1>2. ASSUME job'.op # "write"
      PROVE  Call' = Promise!NoCall
  BY <1>2 DEF Call, Promise!NoCall
<1>3. \A step \in Steps : Reset(step).op = "none"
  BY DEF Reset, Job
<1>4. CASE UNCHANGED vars
  <2>1. flash' = flash /\ job' = job /\ reply' = reply /\ ignored' = ignored
    BY <1>4 DEF vars
  <2> QED
    BY <1>1, <2>1 DEF Call
<1>5. CASE Boot \/ Read
  <2>1. /\ flash' = flash /\ reply' = reply /\ ignored' = ignored
        /\ job.op = "none"
    BY <1>5 DEF Boot, Read, Quiet, Inv, JobInv
  <2>2. job'.op # "write"
    <3>1. Reset("erase") \in JobType
      BY ValueFacts DEF Steps
    <3> QED
      BY <1>3, <1>5, <3>1 DEF Boot, Read, JobType, Steps
  <2> QED
    BY <1>1, <1>2, <2>1, <2>2, CallFacts
<1>6. ASSUME NEW s \in Slots, NEW v \in Values, Write(s, v)
      PROVE  Promise!RegisterNext
  <2>1. /\ flash' = flash /\ reply' = "none" /\ ignored' = ignored /\ job.op = "none"
        /\ job' = Job("write", "locate", s, v, None, 0)
    BY <1>6 DEF Write, Inv, JobInv
  <2>2. job'.op = "write" /\ job'.step = "locate" /\ job'.slot = s /\ job'.value = v
    BY <2>1 DEF Job
  <2>3. Call' = [slot |-> s, value |-> v, done |-> FALSE]
    BY <2>2 DEF Call
  <2>4. Promise!Invoke(s, v)
    BY <1>1, <2>1, <2>3, CallFacts DEF Promise!Invoke
  <2> QED
    BY <1>6, <2>1, <2>4 DEF Promise!RegisterNext
<1>7. CASE Locate
  <2>1. /\ flash' = flash /\ reply' = reply /\ ignored' = ignored
        /\ job \in JobType /\ job.step = "locate"
        /\ \E from, to : job' = [job EXCEPT !.step = "erase", !.from = from, !.to = to]
    BY <1>7 DEF Locate, Quiet, Inv, Typed
  <2>2. /\ job'.op = job.op /\ job'.slot = job.slot /\ job'.value = job.value
        /\ job'.step = "erase"
    BY <2>1 DEF JobType
  <2>3. Call' = Call
    BY <2>1, <2>2 DEF Call
  <2> QED
    BY <1>1, <2>1, <2>3
<1>8. CASE EraseSector \/ CopyBefore \/ WriteData \/ CopyAfter \/ WriteFooter \/ WriteCrc
  <2>1. /\ Programming
        /\ \E x : Spoiled(flash[Touched], x) /\ Program(Touched, x)
        /\ job'.op = job.op /\ job'.slot = job.slot /\ job'.value = job.value
        /\ job.step # "discard" /\ job'.step # "discard"
        /\ reply' = reply /\ ignored' = ignored
    BY <1>8, BuildSpoils
  <2>2. Content' = Content
    BY <2>1, SpoiledContent
  <2>3. Call' = Call
    BY <2>1 DEF Call
  <2> QED
    BY <2>1, <2>2, <2>3
<1>9. CASE Seal
  <2>1. /\ job.step = "seal" /\ Programming /\ job \in JobType
        /\ reply' = reply /\ ignored' = ignored /\ ~ignored
    BY <1>9 DEF Seal, Quiet, Programming, Inv, Typed
  <2>2. CASE job.from # None
    <3>1. job.op = "write"
      BY <2>1, <2>2 DEF Inv, JobInv
    <3>2. /\ job'.op = job.op /\ job'.slot = job.slot /\ job'.value = job.value
          /\ job'.step = "discard"
      BY <1>9, <2>1, <2>2, GotoFacts DEF Seal, Steps
    <3>3. Content' = [Content EXCEPT ![job.slot] = job.value]
      BY <1>9, <2>1, <2>2, SealContent
    <3>4. /\ Call = [slot |-> job.slot, value |-> job.value, done |-> FALSE]
          /\ Call' = [slot |-> job.slot, value |-> job.value, done |-> TRUE]
      BY <2>1, <3>1, <3>2 DEF Call
    <3>5. Call' = [Call EXCEPT !.done = TRUE]
      <4> DEFINE CallType == [slot : Slots, value : Values, done : BOOLEAN]
      <4>1. TRUE \in BOOLEAN /\ FALSE \in BOOLEAN
        BY Zenon
      <4>2. /\ Call \in CallType /\ Call' \in CallType
            /\ Call'.slot = Call.slot /\ Call'.value = Call.value /\ Call'.done = TRUE
        BY <2>1, <3>4, <4>1 DEF JobType
      <4>3. [Call EXCEPT !.done = TRUE] \in CallType
        BY <4>1, <4>2
      <4>4. /\ [Call EXCEPT !.done = TRUE].slot = Call.slot
            /\ [Call EXCEPT !.done = TRUE].value = Call.value
            /\ [Call EXCEPT !.done = TRUE].done = TRUE
        BY <4>2
      <4>5. \A x, y \in CallType :
              x.slot = y.slot /\ x.value = y.value /\ x.done = y.done => x = y
        OBVIOUS
      <4> QED
        BY <4>2, <4>3, <4>4, <4>5
    <3>6. /\ Call # Promise!NoCall /\ ~Call.done
          /\ Call.slot = job.slot /\ Call.value = job.value
      BY <2>1, <3>1, CallFacts
    <3>7. Promise!TakeEffect
      BY <2>1, <3>3, <3>5, <3>6 DEF Promise!TakeEffect
    <3> QED
      BY <2>1, <3>7 DEF Promise!RegisterNext
  <2>3. CASE job.from = None
    <3>1. Content' = Content
      BY <1>9, <2>1, <2>3, SealContent
    <3>2. Call' = Call
      <4>1. AfterInitialize
        BY <1>9, <2>3 DEF Seal
      <4>2. CASE job.op # "write" /\ job' = Reset("idle")
        BY <1>2, <1>3, <4>2, CallFacts DEF Steps
      <4>3. CASE /\ job.op = "write" /\ job'.op = "write" /\ job'.step = "erase"
                 /\ job'.slot = job.slot /\ job'.value = job.value
        BY <2>1, <4>3 DEF Call
      <4> QED
        BY <2>1, <4>1, <4>2, <4>3, AfterInitializeFacts
    <3> QED
      BY <2>1, <3>1, <3>2
  <2> QED
    BY <2>2, <2>3
<1>10. CASE Discard
  <2>1. /\ job.step = "discard" /\ reply' = "ok" /\ ignored' = ignored /\ ~ignored
        /\ job' = Reset("idle")
    BY <1>10 DEF Discard
  <2>2. job.op = "write"
    BY <2>1 DEF Inv, JobInv, Programming
  <2>3. Call.done
    BY <2>1, <2>2, CallFacts
  <2>4. Content' = Content
    BY <1>10, <2>1, DiscardContent
  <2>5. Call' = Promise!NoCall
    BY <1>2, <1>3, <2>1 DEF Steps
  <2>6. Promise!Succeed
    BY <2>1, <2>3, <2>4, <2>5 DEF Promise!Succeed
  <2> QED
    BY <2>1, <2>6 DEF Promise!RegisterNext
<1>11. ASSUME job' = Reset("boot") \/ job' = Reset("idle"), reply' \in {"error", "none"},
              ignored' = ignored, Content' = Content
       PROVE  Promise!RegisterNext
  <2>1. Call' = Promise!NoCall
    BY <1>2, <1>3, <1>11 DEF Steps
  <2>2. Promise!Fail
    BY <1>11, <2>1 DEF Promise!Fail
  <2> QED
    BY <1>11, <2>2 DEF Promise!RegisterNext
<1>12. CASE PowerLoss
  <2>1. job' = Reset("boot") /\ reply' = "none" /\ ignored' = ignored
    BY <1>12 DEF PowerLoss
  <2>2. CASE Programming
    <3>1. PICK x \in CutShort : Program(Touched, x)
      BY <1>12, <2>2 DEF PowerLoss
    <3>2. Content' = Content
      BY <2>1, <2>2, <3>1, CutShortFacts, SpoiledContent DEF Inv
    <3> QED
      BY <1>11, <2>1, <3>2
  <2>3. CASE ~Programming
    BY <1>1, <1>11, <1>12, <2>1, <2>3 DEF PowerLoss
  <2> QED
    BY <2>2, <2>3
<1>13. CASE StoreError
  <2>1. PICK x \in CutShort : Program(Touched, x)
    BY <1>13 DEF StoreError
  <2>2. /\ Programming /\ job' = Reset("idle") /\ reply' = "error" /\ ignored' = ignored
    BY <1>13 DEF StoreError
  <2>3. Content' = Content
    BY <2>1, <2>2, CutShortFacts, SpoiledContent DEF Inv
  <2> QED
    BY <1>11, <2>2, <2>3
<1> QED
  BY <1>4, <1>5, <1>6, <1>7, <1>8, <1>9, <1>10, <1>12, <1>13 DEF Next

(* The two sectors together are an atomic, durable register (write() and   *)
(* read(), dcd.h:487-563): whenever power fails and whatever the flash     *)
(* answers, a slot holds the value before or after the write in progress,  *)
(* and of every write that returned DCD_SUCCESS, until an error inside     *)
(* initialize() or migrate() is dropped.                                   *)
THEOREM ImplementsRegister == Spec => RegisterImplemented
BY RegisterInitial, RegisterStep, InvAlways, PTL
   DEF Spec, RegisterImplemented, Promise!RegisterSpec
=============================================================================
