-------------------------------- MODULE Dcd --------------------------------
(***************************************************************************)
(* The DCD (services/inc/dcd.h): the device's configuration, kept in two   *)
(* sectors of flash that are written in turn.  A write rebuilds the other  *)
(* sector (erase, copy, data, copy, footer, CRC), seals it and then        *)
(* discards the old one.  Power may fail between and inside these steps,   *)
(* and the flash may report an error in any of them.                       *)
(*                                                                         *)
(* The object keeps nothing in RAM: every call decides from the flash      *)
(* which sector is current.  Calls exclude each other (dct_lock), so there *)
(* is one job at a time.  The CRC is modelled by whether it is the one of  *)
(* the sector's contents.                                                  *)
(***************************************************************************)
EXTENDS Naturals

CONSTANTS NumSlots,      \* the data of a sector, in offset order
          Values,        \* what callers write
          Blank,         \* erased bytes
          Torn           \* bytes of an erase or a write cut short

Slots == 1 .. NumSlots

ASSUME DcdAssumption == /\ NumSlots \in Nat \ {0} /\ Values # {}
                        /\ Blank \notin Values /\ Torn \notin Values
                        /\ Blank # Torn

VARIABLES flash,         \* the two sectors
          job,           \* the call in progress and how far it is
          reply,         \* what the last write returned
          ignored        \* an error inside initialize() or migrate() was dropped

vars == <<flash, job, reply, ignored>>

Sectors == {0, 1}
None == 2                \* Sector_Unknown, and no existing sector to copy
Other(n) == 1 - n

Seals == {"init", "valid", "invalid_v2", "cleared", "old", "torn"}
Cell == Values \cup {Blank, Torn}
Steps == {"boot", "idle", "locate", "erase", "before", "data", "after",
          "footer", "crc", "seal", "discard"}

TypeOK ==
  /\ flash \in [Sectors -> [mark : BOOLEAN, seal : Seals, data : [Slots -> Cell],
                            counter : 0..3, good : BOOLEAN]]
  /\ job \in [op : {"none", "read", "write", "migrate"}, step : Steps,
              slot : Slots, value : Values, from : 0..2, to : Sectors]
  /\ reply \in {"none", "ok", "error"}
  /\ ignored \in BOOLEAN
-----------------------------------------------------------------------------
(* Which sector holds the data.                                            *)

IsValid(h) == h.mark /\ h.seal = "valid"

FindValidSector == IF IsValid(flash[0]) THEN 0
                   ELSE IF IsValid(flash[1]) THEN 1 ELSE None

\* The counter of two bits tells the newer sector; the first one if neither.
NewerOf(p, s) == IF (flash[p].counter + 1) % 4 = flash[s].counter THEN s ELSE p

\* Mutant: the CRC does not count.
EvaluateSectorsByCounter(p, s) == IF flash[s].seal = "valid" THEN NewerOf(p, s) ELSE p
EvaluateSectors(p, s) ==
  IF flash[s].seal = "valid"
  THEN IF flash[p].good # flash[s].good
       THEN IF flash[p].good THEN p ELSE s
       ELSE IF flash[p].good THEN NewerOf(p, s) ELSE 1
  ELSE IF flash[s].seal = "invalid_v2" /\ ~flash[p].good THEN s ELSE p

CurrentSector == IF FindValidSector = None THEN None
                 ELSE EvaluateSectors(FindValidSector, Other(FindValidSector))

\* The page of the first layout that migrate() copies.
OldSector == IF flash[0].seal = "old" THEN 0
             ELSE IF flash[1].seal = "old" THEN 1 ELSE None
-----------------------------------------------------------------------------
AllOf(c) == [t \in Slots |-> c]
Erased == [mark |-> FALSE, seal |-> "init", data |-> AllOf(Blank), counter |-> 3,
           good |-> FALSE]

Job(op, step, s, v, from, to) ==
  [op |-> op, step |-> step, slot |-> s, value |-> v, from |-> from, to |-> to]
Reset(step) == Job("none", step, 1, CHOOSE v \in Values : TRUE, None, 0)

\* A sector is programmed through these, and the job goes on.
Program(n, x) == flash' = [flash EXCEPT ![n] = x]
Goto(step) == job' = [job EXCEPT !.step = step]
Quiet == UNCHANGED <<reply, ignored>>

\* initialize(), called for want of a current sector, is over; its result is
\* not looked at, and the write goes on from Sector_1.
AfterInitialize ==
  job' = IF job.op = "write"
         THEN [job EXCEPT !.step = "erase", !.from = 1, !.to = 0]
         ELSE Reset("idle")
-----------------------------------------------------------------------------
\* dcd_migrate_data(), first thing after a reset.
Boot == /\ job.step = "boot"
        /\ job' = IF FindValidSector = None /\ OldSector # None
                  THEN [Reset("erase") EXCEPT !.op = "migrate", !.to = Other(OldSector)]
                  ELSE Reset("idle")
        /\ UNCHANGED flash /\ Quiet

\* write() of one slot: the calls refused for their offset have no effect.
Write(s, v) == /\ job.step = "idle"
               /\ job' = Job("write", "locate", s, v, None, 0)
               /\ reply' = "none"
               /\ UNCHANGED <<flash, ignored>>

\* read() changes the flash only when there is nothing to read.
Read == /\ job.step = "idle" /\ CurrentSector = None
        /\ job' = [Reset("erase") EXCEPT !.op = "read", !.to = 1]
        /\ UNCHANGED flash /\ Quiet

Locate == /\ job.step = "locate"
          /\ job' = [job EXCEPT !.step = "erase", !.from = CurrentSector,
                                !.to = IF CurrentSector = None THEN 1
                                       ELSE Other(CurrentSector)]
          /\ UNCHANGED flash /\ Quiet

EraseSector == /\ job.step = "erase"
               /\ Program(job.to, Erased)
               /\ Goto(IF job.from # None THEN "before"
                       ELSE IF job.op = "migrate" THEN "data" ELSE "footer")
               /\ Quiet

\* The sector under construction with the slots of T filled from cells.
Filled(T, cells) == [flash[job.to] EXCEPT !.data =
                       [t \in Slots |-> IF t \in T THEN cells[t] ELSE @[t]]]

Before == {t \in Slots : t < job.slot}
After == {t \in Slots : t > job.slot}

CopyBefore == /\ job.step = "before"
              /\ Program(job.to, Filled(Before, flash[job.from].data))
              /\ Goto("data") /\ Quiet

\* The caller's bytes, or the whole page that is migrated.
WriteData ==
  /\ job.step = "data"
  /\ \/ /\ job.op = "write"
        /\ Program(job.to, Filled({job.slot}, AllOf(job.value)))
        /\ Goto("after")
     \/ /\ job.op = "migrate"
        /\ Program(job.to, Filled(Slots, flash[Other(job.to)].data))
        /\ Goto("footer")
  /\ Quiet

CopyAfter == /\ job.step = "after"
             /\ Program(job.to, Filled(After, flash[job.from].data))
             /\ Goto("footer") /\ Quiet

\* Mutants: more than two bits, not advanced.
NextCounterUnmasked == IF job.from = None THEN 0 ELSE flash[job.from].counter + 1
NextCounterKept == IF job.from = None THEN 0 ELSE flash[job.from].counter
NextCounter == IF job.from = None THEN 0 ELSE (flash[job.from].counter + 1) % 4

WriteFooter == /\ job.step = "footer"
               /\ Program(job.to, [flash[job.to] EXCEPT !.counter = NextCounter])
               /\ Goto("crc") /\ Quiet

\* The CRC is computed from the flash as it now is.
WriteCrc == /\ job.step = "crc"
            /\ Program(job.to, [flash[job.to] EXCEPT !.good = TRUE])
            /\ Goto("seal") /\ Quiet

Seal == /\ job.step = "seal"
        /\ Program(job.to, [flash[job.to] EXCEPT !.mark = TRUE, !.seal = "valid"])
        /\ IF job.from # None THEN Goto("discard") ELSE AfterInitialize
        /\ Quiet

Discard == /\ job.step = "discard"
           /\ Program(job.from, [flash[job.from] EXCEPT !.mark = TRUE, !.seal = "invalid_v2"])
           /\ job' = Reset("idle")
           /\ reply' = "ok"
           /\ UNCHANGED ignored
-----------------------------------------------------------------------------
(* What the step in progress leaves when it is cut short, by a loss of     *)
(* power or by an error: nothing done yet, or a part that reads as         *)
(* neither the old nor the new bytes.  A header is programmed word by      *)
(* word, the watermark first.                                              *)

Touched == IF job.step = "discard" THEN job.from ELSE job.to

TornErase(x) ==
  [mark : {x.mark, FALSE}, seal : {x.seal, "torn"}, data : {x.data},
   counter : {x.counter}, good : {x.good}]
  \cup
  [mark : {x.mark, FALSE}, seal : {x.seal, "torn"}, data : {AllOf(Torn)},
   counter : {x.counter, 3}, good : {FALSE}]

CutShort ==
  LET x == flash[Touched] IN
  {x} \cup
  CASE job.step = "erase"   -> TornErase(x) \cup {Erased}
    [] job.step = "before"  -> {Filled(Before, AllOf(Torn))}
    [] job.step = "data"    -> {Filled(IF job.op = "write" THEN {job.slot} ELSE Slots, AllOf(Torn))}
    [] job.step = "after"   -> {Filled(After, AllOf(Torn))}
    [] job.step = "seal"    -> [mark : {TRUE}, seal : {"init", "torn"}, data : {x.data},
                                counter : {x.counter}, good : {x.good}]
    [] job.step = "discard" -> {[x EXCEPT !.seal = "torn"]}
    [] OTHER                -> {}

Programming == job.step \notin {"boot", "idle", "locate"}

PowerLoss == /\ \/ Programming /\ \E x \in CutShort : Program(Touched, x)
                \/ ~Programming /\ UNCHANGED flash
             /\ job' = Reset("boot")
             /\ reply' = "none"
             /\ UNCHANGED ignored

\* eraseSector() or write() of the store answers an error: write() returns
\* it; initialize() and migrate() do not look.
StoreError == /\ Programming
              /\ \E x \in CutShort : Program(Touched, x)
              /\ \/ /\ job.from # None
                    /\ job' = Reset("idle")
                    /\ reply' = "error"
                    /\ UNCHANGED ignored
                 \/ /\ job.from = None
                    /\ AfterInitialize
                    /\ ignored' = TRUE
                    /\ UNCHANGED reply
-----------------------------------------------------------------------------
\* The pages a board comes with: nothing, a page of the first layout, or
\* what code of version 1 leaves (no CRC; a discarded page is cleared; both
\* pages valid if power failed before that).
Unused == {Erased, [Erased EXCEPT !.seal = "torn", !.data = AllOf(Torn)]}
Page(z) == [mark : {TRUE}, seal : {z}, data : [Slots -> Values], counter : 0..3, good : {FALSE}]
Pages == (Unused \X Unused) \cup (Page("old") \X Unused)
           \cup (Page("valid") \X (Unused \cup Page("cleared") \cup Page("valid")))

Init == /\ \E p \in Pages, n \in Sectors :
             flash = [m \in Sectors |-> IF m = n THEN p[1] ELSE p[2]]
        /\ job = Reset("boot")
        /\ reply = "none"
        /\ ignored = FALSE

Next == \/ Boot \/ Read \/ Locate
        \/ \E s \in Slots, v \in Values : Write(s, v)
        \/ EraseSector \/ CopyBefore \/ WriteData \/ CopyAfter
        \/ WriteFooter \/ WriteCrc \/ Seal \/ Discard
        \/ PowerLoss \/ StoreError

Spec == Init /\ [][Next]_vars
-----------------------------------------------------------------------------
(* Properties.                                                             *)

\* What read() returns of each slot; before it is migrated, the old page.
Content ==
  LET page == IF CurrentSector # None THEN flash[CurrentSector].data
              ELSE IF OldSector # None THEN flash[OldSector].data ELSE AllOf(Blank)
  IN [t \in Slots |-> IF page[t] \in Values THEN page[t] ELSE Blank]

Call == IF job.op = "write"
        THEN [slot |-> job.slot, value |-> job.value, done |-> job.step = "discard"]
        ELSE [slot |-> Blank, value |-> Blank, done |-> FALSE]

Promise == INSTANCE Register WITH Slots <- Slots, Values <- Values, Unset <- Blank,
             content <- Content, call <- Call, reply <- reply, broken <- ignored

\* The two sectors together are an atomic, durable register (dcd.h:487-563):
\* whenever power fails, and whatever the flash answers to a write, a read
\* returns of every slot the value before or after the write in progress, and
\* the value of every write that returned DCD_SUCCESS.
RegisterImplemented == Promise!RegisterSpec

\* The two bits of the counter always decide (dcd.h:402-411): whenever both
\* sectors are sealed and intact, the one in use is the successor of the
\* other, in every state a loss of power or an error can leave behind.
CounterDecides ==
  (\A n \in Sectors : IsValid(flash[n]) /\ flash[n].good)
  => flash[CurrentSector].counter = (flash[Other(CurrentSector)].counter + 1) % 4
=============================================================================
