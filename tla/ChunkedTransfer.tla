-------------------------- MODULE ChunkedTransfer --------------------------
(***************************************************************************)
(* A firmware update over the air: ChunkedTransfer (chunked_transfer.cpp)  *)
(* in the event loop of the cloud protocol (protocol.cpp), the callbacks   *)
(* of the system (system_update.cpp) and its watchdog (main.cpp), with the *)
(* network and the server around them.                                     *)
(*                                                                         *)
(* In a fast update the chunks carry their index, come unacknowledged and  *)
(* may be lost or overtake each other; a bitmap tells which are there, and *)
(* the device asks for the others when the server says it is done.  In a   *)
(* slow one each chunk is confirmed, carries no index, and is stored where *)
(* the device has got to.  A chunk does not say which file it is of: one   *)
(* of an earlier update has a valid checksum too.                          *)
(*                                                                         *)
(* Datagrams are those of the DTLS channel: not replayed, but valid after  *)
(* a session is resumed.  A confirmable message of the server is repeated  *)
(* until it is answered or the server gives up, and handled once in each   *)
(* connection (module CoapChannel); one that was given up does not arrive. *)
(* Files are stored at one address, in chunks of one size.  One tick is    *)
(* three seconds.                                                          *)
(***************************************************************************)
EXTENDS Naturals, FiniteSets, FiniteSetsExt

CONSTANTS
  Files,         \* firmware images
  Length,        \* chunk_count() of each
  MaxChunks,     \* MAX_CHUNKS
  Flight,        \* MISSED_CHUNKS_TO_SEND
  Timeout,       \* TIMING_FLASH_UPDATE_TIMEOUT, in ticks
  MaxOffers,     \* bound: updates the server begins
  Nothing        \* a chunk of erased flash

Chunks == 0 .. MaxChunks - 1
Positions(f) == 0 .. Length[f] - 1
Contents == [file : Files, index : Chunks]
Unmapped == {MaxChunks}      \* the bitmap while its pointer is null

ASSUME TransferAssumption ==
  /\ Files # {} /\ Length \in [Files -> Nat \ {0}]
  /\ {MaxChunks, Flight, Timeout} \subseteq Nat \ {0} /\ MaxOffers \in Nat
  /\ Nothing \notin Contents

VARIABLES
  dev,           \* the transfer's members, and what the system knows of it
  session,       \* SPARK_CLOUD_SOCKETED and SPARK_CLOUD_CONNECTED
  unasked,       \* history: ticks of repair, two at most, since a chunk was heard or asked for
  net,           \* chunks of a fast update on the network
  offered,       \* what the server has begun last: a file, and how it is sent
  phase,         \* of the update, for the server
  todo,          \* chunks the server has to send
  con,           \* the server's confirmable message
  offers         \* updates begun by the server

server == <<offered, phase, todo, con, offers>>
vars == <<dev, session, unasked, net, server>>

NoCon == [kind |-> "none", index |-> 0, seen |-> FALSE, answer |-> "none"]
Con(kind, i) == [NoCon EXCEPT !.kind = kind, !.index = i]

\* Beside the members: begun is the update that was accepted last; alien tells
\* (history) whether a chunk that is not of it was taken in the midst of it, and
\* whether the descriptor was overwritten with one of another length.
Offers == [file : Files, fast : BOOLEAN]
TypeOK ==
  /\ dev \in [updating : 0..2, file : Files, bitmap : (SUBSET Chunks) \cup {Unmapped},
              missed : Nat, index : 0..MaxChunks, quiet : BOOLEAN,
              image : [Chunks -> Contents \cup {Nothing}], flashing : BOOLEAN,
              watch : 0..Timeout, outcome : {"none", "running", "finished", "aborted"},
              begun : Offers, alien : SUBSET {"chunk", "file"}]
  /\ session \in BOOLEAN
  /\ unasked \in 0..2
  /\ net \subseteq Contents /\ todo \subseteq Chunks
  /\ offered \in Offers
  /\ phase \in {"idle", "offered", "sending", "done", "repair"}
  /\ con \in [kind : {"none", "begin", "chunk", "done"}, index : Chunks, seen : BOOLEAN,
              answer : {"none", "refused", "ready", "ok", "bad"}]
  /\ offers \in 0..MaxOffers
-----------------------------------------------------------------------------
(* The callbacks of the system, as functions of the device's state.        *)

Blank == [i \in Chunks |-> Nothing]

\* The descriptor is not read before an update is begun.
AnyFile == CHOOSE f \in Files : TRUE
PowerOn == [updating |-> 0, file |-> AnyFile, bitmap |-> Unmapped, missed |-> 0, index |-> 0,
            quiet |-> TRUE, image |-> Blank, flashing |-> FALSE, watch |-> 0,
            outcome |-> "none", begun |-> [file |-> AnyFile, fast |-> FALSE], alien |-> {}]

\* Spark_Prepare_For_Firmware_Update(): the application is told, the flash erased.
Prepare(d) == [d EXCEPT !.flashing = TRUE, !.watch = 0, !.image = Blank, !.outcome = "running"]

\* Spark_Save_Firmware_Chunk(): the result is not looked at.
Save(d, c) == [d EXCEPT !.watch = 0, !.image = [@ EXCEPT ![d.index] = c]]

\* Spark_Finish_Firmware_Update(), to validate or for good.
Validate(d) == [d EXCEPT !.flashing = FALSE, !.watch = 0]
Finish(d, outcome) == [Validate(d) EXCEPT !.outcome = outcome]
-----------------------------------------------------------------------------
(* ChunkedTransfer.                                                        *)

\* What next_chunk_missing() may find: chunks of the file that is described now
\* and, where it is longer than the one the bitmap was made for, what lies behind
\* the bitmap; without a bitmap anything.
Gaps(d) ==
  IF d.bitmap = Unmapped THEN {{}, {0}} ELSE
  {((Positions(d.file) \cap Positions(d.begun.file)) \ d.bitmap) \cup behind :
     behind \in SUBSET (Positions(d.file) \ Positions(d.begun.file))}

\* What send_missing_chunks() asks for, the last of it remembered.
\* Mutant: a request counts as progress for the watchdog.
Asks(gaps) == {i \in gaps : Cardinality({j \in gaps : j < i}) < Flight}
AskedKicks(d, gaps) ==
  [d EXCEPT !.missed = IF gaps = {} THEN @ ELSE Max(Asks(gaps)), !.watch = 0]
Asked(d, gaps) == [d EXCEPT !.missed = IF gaps = {} THEN @ ELSE Max(Asks(gaps))]

\* Protocol::begin() resets the transfer.  Mutant: only its clock.
ResetQuiet(d) == [d EXCEPT !.quiet = TRUE]
Reset(d) == [d EXCEPT !.updating = 0, !.quiet = TRUE, !.bitmap = Unmapped]

\* handle_update_begin() as far as the answer: the descriptor is overwritten.
Described(d) ==
  [d EXCEPT !.file = offered.file,
            !.alien = IF d.updating # 0 /\ Length[offered.file] # Length[d.begun.file]
                      THEN @ \cup {"file"} ELSE @]

\* The update accepted.  A slow one counts all chunks as received.
\* Mutant: the bitmap keeps what it had.
BegunUncleared(d) ==
  [Prepare(d) EXCEPT !.updating = 1, !.file = offered.file, !.index = 0, !.quiet = FALSE,
     !.bitmap = IF offered.fast THEN @ \cap Positions(offered.file) ELSE Positions(offered.file),
     !.begun = offered, !.alien = {}]
Begun(d) ==
  [Prepare(d) EXCEPT !.updating = 1, !.file = offered.file, !.index = 0, !.quiet = FALSE,
                     !.bitmap = IF offered.fast THEN {} ELSE Positions(offered.file),
                     !.begun = offered, !.alien = {}]

\* All chunks are there: reset_updating() and the callback.
Completed(d) == Finish([d EXCEPT !.updating = 0, !.quiet = TRUE], "finished")

Heard(d) == [d EXCEPT !.quiet = FALSE]

\* The index a chunk of a fast update carries is taken over, whatever the update
\* in progress, and before the checksum is looked at.
Indexed(d, c, good) ==
  [Heard(d) EXCEPT !.index = c.index,
                   !.alien = IF ~d.begun.fast \/ (good /\ c.file # d.begun.file)
                             THEN @ \cup {"chunk"} ELSE @]

\* There is no room for a chunk.  Mutant: off by one.
BeyondByOne(at) == at > MaxChunks
Beyond(at) == at >= MaxChunks

\* handle_chunk() up to the question of what is missing.
Stored(d, c) ==
  [Save(d, c) EXCEPT !.bitmap = @ \cup ({d.index} \cap Positions(d.begun.file)),
                     !.index = @ + 1]

\* cancel()
Cancelled(d) == IF d.updating # 0 THEN Finish(d, "aborted") ELSE d
-----------------------------------------------------------------------------
(* The event loop: an error of a handler cancels the transfer and closes   *)
(* the cloud socket.                                                       *)

Loop(d, error) == /\ dev' = IF error THEN Cancelled(d) ELSE d
                  /\ session' = (session /\ ~error)

\* A request for chunks is sent, if one is missing, and waited for.  It may have
\* arrived though its acknowledgement has not; error tells that none came.
SentSync(got, error) == got \in BOOLEAN /\ error \in BOOLEAN /\ (~got => error)

\* A request reaches a server that has said it was done.
Requested(gaps, got) ==
  /\ unasked' = IF gaps = {} THEN unasked ELSE 0
  /\ todo' = IF got /\ phase \in {"done", "repair"}
             THEN todo \cup (Asks(gaps) \cap Positions(offered.file)) ELSE todo
Request(d, gaps) ==
  \E got, error \in BOOLEAN :
    /\ IF gaps = {} THEN ~got /\ ~error ELSE SentSync(got, error)
    /\ Loop([Asked(d, gaps) EXCEPT !.quiet = d.quiet /\ error], error)
    /\ Requested(gaps, got)

Received(kind) == session /\ con.kind = kind /\ ~con.seen
Answer(a) == con' = [con EXCEPT !.seen = TRUE, !.answer = a]

UpdateBegin ==
  /\ Received("begin")
  /\ \/ \* too long, or disabled by the application, or its acknowledgement fails
        \E error \in BOOLEAN :
          /\ Loop(Described(dev), error)
          /\ \/ Answer("none")
             \/ Length[offered.file] >= MaxChunks /\ Answer("refused")
          /\ UNCHANGED unasked
     \/ \E got, error \in BOOLEAN :
          /\ Length[offered.file] < MaxChunks
          /\ SentSync(got, error)
          /\ Loop(Begun(dev), error)
          /\ Answer(IF got THEN "ready" ELSE "none")
          /\ unasked' = 0
  /\ UNCHANGED <<net, offered, phase, todo, offers>>

\* handle_chunk(), d being what the device is once it has read the options of the
\* message.  A chunk that completes the update in its last part is followed by
\* UpdateDone; one that is past those asked for, by a request, whose failure is
\* not looked at.  Only chunks of a slow update are answered.
Chunk(d, c, good, answered, error) ==
  \/ /\ dev.updating = 0
     /\ Loop(Heard(dev), TRUE)
     /\ UNCHANGED <<unasked, todo, phase>>
  \/ /\ dev.updating # 0 /\ (~good \/ Beyond(d.index))
     /\ error => answered
     /\ Loop(d, error)
     /\ unasked' = 0 /\ UNCHANGED <<todo, phase>>
  \/ /\ dev.updating # 0 /\ good /\ ~Beyond(d.index)
     /\ LET e == Stored(d, c) IN \E gaps \in Gaps(e) :
        \/ /\ e.updating = 2 /\ gaps = {}
           /\ Loop(Completed(e), error)
           /\ \/ UNCHANGED <<todo, phase>>
              \/ phase \in {"done", "repair"} /\ phase' = "idle" /\ todo' = {}
           /\ unasked' = 0
        \/ /\ e.updating = 2 /\ gaps # {} /\ Min(gaps) > e.missed
           /\ error => answered
           /\ Loop(Asked(e, gaps), error)
           /\ \E got \in BOOLEAN : Requested(gaps, got)
           /\ UNCHANGED phase
        \/ /\ e.updating = 1 \/ (gaps # {} /\ Min(gaps) <= e.missed)
           /\ error => answered
           /\ Loop(e, error)
           /\ unasked' = 0 /\ UNCHANGED <<todo, phase>>

FastChunk ==
  \E c \in net, good, error \in BOOLEAN :
    /\ session
    /\ Chunk(Indexed(dev, c, good), c, good, FALSE, error)
    /\ net' = net \ {c}
    /\ UNCHANGED <<offered, con, offers>>

\* The device's own index; acknowledged, then answered when it is stored.
SlowChunk ==
  \E good, error \in BOOLEAN :
    /\ Received("chunk")
    /\ Chunk(Heard(dev), [file |-> offered.file, index |-> con.index], good, TRUE, error)
    /\ \/ Answer(IF dev.updating = 0 \/ (good /\ Beyond(dev.index)) THEN "none"
                 ELSE IF good THEN "ok" ELSE "bad")
       \/ error /\ Answer("none")
    /\ UNCHANGED <<net, offered, offers>>

\* Mutant: the image is validated whether or not a chunk is missing.
UpdateDoneValidates(missing) == Validate(dev)
UpdateDoneAnswered(missing) == IF missing THEN dev ELSE Validate(dev)

\* handle_update_done()
UpdateDone ==
  /\ Received("done")
  /\ \E gaps \in Gaps(dev) :
       LET missing == gaps # {}
           d == UpdateDoneAnswered(missing)
       IN \/ \* the answer, or the state of the transfer, is an error
             /\ \E a \in {"none", IF missing THEN "bad" ELSE "ok"} :
                  /\ a = "none" \/ dev.updating = 0
                  /\ Answer(a)
             /\ Loop(d, TRUE)
             /\ UNCHANGED <<unasked, todo>>
          \/ /\ dev.updating # 0
             /\ Answer(IF missing THEN "bad" ELSE "ok")
             /\ \/ ~missing /\ Loop(Completed(d), FALSE) /\ UNCHANGED <<unasked, todo>>
                \/ missing /\ Request([Heard(d) EXCEPT !.updating = 2], gaps)
  /\ UNCHANGED <<net, offered, phase, offers>>

\* idle(), when more than three seconds have passed.  Mutant: it does not ask.
IdleSilent ==
  /\ session /\ dev.updating # 0 /\ dev.quiet
  /\ Loop([dev EXCEPT !.quiet = FALSE], FALSE)
  /\ UNCHANGED <<unasked, net, server>>
Idle ==
  /\ session /\ dev.updating # 0 /\ dev.quiet
  /\ \/ /\ dev.updating = 1
        /\ Loop([dev EXCEPT !.quiet = FALSE], FALSE)
        /\ UNCHANGED <<unasked, todo>>
     \/ /\ dev.updating = 2
        /\ \E gaps \in Gaps(dev) : Request(dev, gaps)
  /\ UNCHANGED <<net, offered, phase, con, offers>>

\* receive() fails, or a request the channel repeats has not been confirmed.
Break == /\ session
         /\ Loop(dev, TRUE)
         /\ UNCHANGED <<unasked, net, server>>

\* cloud_disconnect(), by the application or for lack of a network: the
\* transfer is not told.
Disconnect == /\ session
              /\ dev' = [dev EXCEPT !.flashing = FALSE]
              /\ session' = FALSE
              /\ UNCHANGED <<unasked, net, server>>

\* begin(): with a full handshake, after which the server begins anew, or a
\* resumed session, in which it goes on; its message may have to be repeated.
Reconnect ==
  /\ ~session
  /\ session' = TRUE
  /\ dev' = Reset(dev)
  /\ \/ phase' = "idle" /\ todo' = {} /\ con' = NoCon /\ net' = {}
     \/ /\ con' \in {con, [con EXCEPT !.seen = FALSE, !.answer = "none"]}
        /\ UNCHANGED <<net, phase, todo>>
  /\ UNCHANGED <<unasked, offered, offers>>

\* A reset for whatever reason: the one after an update, the user's, a loss
\* of power.  What it leaves in the flash is not read again.
Restart == /\ dev' = PowerOn
           /\ session' = FALSE
           /\ unasked' = 0
           /\ UNCHANGED <<net, server>>

\* The tick handler: the device is reset when an update is stuck.
Watchdog == dev.flashing /\ dev.watch = Timeout /\ Restart

\* Three seconds.  The loop turns many times in them.
Urgent == (session /\ dev.updating # 0 /\ dev.quiet) \/ (dev.flashing /\ dev.watch = Timeout)
Tick == /\ dev.updating # 0 /\ ~Urgent
        /\ dev' = [dev EXCEPT !.quiet = TRUE, !.watch = IF dev.flashing THEN @ + 1 ELSE @]
        /\ unasked' = IF dev.updating = 2 /\ unasked < 2 THEN unasked + 1 ELSE unasked
        /\ UNCHANGED <<session, net, server>>
-----------------------------------------------------------------------------
(* The server and the network (external).                                  *)

Offer == /\ phase = "idle" /\ offers < MaxOffers
         /\ offered' \in Offers
         /\ phase' = "offered" /\ con' = Con("begin", 0) /\ offers' = offers + 1
         /\ UNCHANGED <<dev, session, unasked, net, todo>>

\* The answer to its message arrives.
Learn ==
  /\ con.answer # "none"
  /\ con' = NoCon
  /\ phase' = CASE con.kind = "begin" /\ con.answer = "ready" -> "sending"
                [] con.kind = "chunk" -> phase
                [] con.kind = "done" /\ con.answer = "bad" /\ phase = "done" -> "repair"
                [] OTHER -> "idle"
  /\ todo' = CASE con.kind = "begin" /\ con.answer = "ready" -> Positions(offered.file)
               [] con.kind = "chunk" /\ con.answer = "ok" -> todo \ {con.index}
               [] OTHER -> IF phase' = "idle" THEN {} ELSE todo
  /\ UNCHANGED <<dev, session, unasked, net, offered, offers>>

SendChunk ==
  /\ phase \in {"sending", "done", "repair"} /\ todo # {}
  /\ \/ /\ offered.fast
        /\ \E i \in todo : /\ net' = net \cup {[file |-> offered.file, index |-> i]}
                           /\ todo' = todo \ {i}
        /\ UNCHANGED con
     \/ ~offered.fast /\ con = NoCon /\ con' = Con("chunk", Min(todo)) /\ UNCHANGED <<net, todo>>
  /\ UNCHANGED <<dev, session, unasked, offered, phase, offers>>

SendDone == /\ phase = "sending" /\ todo = {} /\ con = NoCon
            /\ phase' = "done" /\ con' = Con("done", 0)
            /\ UNCHANGED <<dev, session, unasked, net, offered, todo, offers>>

GiveUp == /\ phase # "idle"
          /\ phase' = "idle" /\ todo' = {} /\ con' = NoCon
          /\ UNCHANGED <<dev, session, unasked, net, offered, offers>>

Lose == /\ \E c \in net : net' = net \ {c}
        /\ UNCHANGED <<dev, session, unasked, server>>
-----------------------------------------------------------------------------
Init == /\ dev = PowerOn /\ session = FALSE /\ unasked = 0
        /\ net = {} /\ offered = dev.begun
        /\ phase = "idle" /\ todo = {} /\ con = NoCon /\ offers = 0

Next == \/ UpdateBegin \/ FastChunk \/ SlowChunk \/ UpdateDone \/ Idle
        \/ Break \/ Disconnect \/ Reconnect \/ Restart \/ Watchdog \/ Tick
        \/ Offer \/ Learn \/ SendChunk \/ SendDone \/ GiveUp \/ Lose

\* The system thread turns, the clock ticks; nothing of network and server.
Spec == Init /\ [][Next]_vars /\ WF_vars(Idle) /\ WF_vars(Watchdog) /\ WF_vars(Tick)
-----------------------------------------------------------------------------
(* Properties.                                                             *)

\* finish_firmware_update() is called with SUCCESS only when every chunk of the
\* file is in its place (chunked_transfer.cpp:186, 286), whatever was lost, late or
\* repeated in this update or an earlier one of the same file, unless a chunk of
\* another file, or an indexed one in a slow update, was taken in the midst of it
\* (:131, :164), or a begin that led to no update left its length behind (:38).
FinishedWhole ==
  dev.outcome = "finished" /\ dev.alien = {} =>
    \A i \in Positions(dev.begun.file) : dev.image[i] = [file |-> dev.begun.file, index |-> i]

\* Nothing is written to the flash after the application was told that the
\* update is over, or the connection closed, until another is begun: cancel()
\* leaves updating set (chunked_transfer.cpp:373), and late chunks still come.
SavesBelong ==
  [][dev'.image # dev.image =>
       dev'.image = Blank \/ (dev.flashing /\ dev.outcome = "running")]_vars

\* While a connected device is updating, which keeps it from pinging the
\* server (protocol.h:213), the watchdog that could free it is armed.
WatchdogArmed == dev.updating # 0 /\ session => dev.flashing

\* Once the server has said it is done, six seconds do not pass without a chunk
\* coming in or the missing ones being asked for (chunked_transfer.cpp:339), as
\* long as the descriptor has the length of the file.
RepairAsks == dev.updating = 2 /\ session /\ "file" \notin dev.alien => unasked < 2

\* An update does not hold the connected device for ever (main.cpp:438): it is
\* finished, ends with the connection, or the device is reset.
UpdateConcludes == (dev.updating # 0 /\ session) ~> (dev.updating = 0 \/ ~session)
=============================================================================
