-------------------------------- MODULE CarT --------------------------------
(***************************************************************************)
(* The two threads of the telematics application (main.cpp, CarT.cpp) and  *)
(* the one MQTT client they share.                                         *)
(*                                                                         *)
(* The main thread runs startup_function(), setup() and then loop(), which *)
(* every two seconds collects CAN records and publishes them.  The server  *)
(* thread opens the MQTT session and then polls it for ever.  Both have    *)
(* priority 2, so the scheduler may switch between any two steps.          *)
(*                                                                         *)
(* mqtt_mutex is a FreeRTOS mutex.  os_mutex_trylock() answers TRUE when   *)
(* the mutex was NOT taken (concurrent_hal.cpp:377), and loop() runs its   *)
(* publishing body on that answer: a free mutex is taken and kept, and the *)
(* body runs in the cycles in which somebody, possibly the main thread     *)
(* itself since an earlier cycle, holds it.                                *)
(***************************************************************************)
EXTENDS Naturals

CONSTANT NumPids      \* num_pids: the requests of one CAN poll

ASSUME NumPidsAssumption == NumPids \in Nat \ {0}

VARIABLES
  pcM,          \* where the main thread is
  pcS,          \* where the server thread is
  ret,          \* where the server thread goes after disconnect()
  mutex,        \* "absent", "free", or the thread that holds mqtt_mutex
  modem,        \* the cellular modem: "off", "on" or "ready"
  link,         \* the MQTT session, see Links
  buffer,       \* whose bytes the MQTT client's one packet buffer holds
  can_records,  \* the global record counter of main.cpp
  new_can_flag, \* the global flag of CarT.cpp
  counted,      \* history: records the poll of the present cycle counted
  skips,        \* history: cycles in a row that did not run the body
  report,       \* history: records in the batch last put in the buffer
  sent          \* history: the frame last written, and what it really was

mainVars   == <<pcM, can_records, new_can_flag, counted, skips, report>>
serverVars == <<pcS, ret>>
sharedVars == <<mutex, modem, link, buffer, sent>>
vars       == <<mainVars, serverVars, sharedVars>>

(* "down": no handshake yet.  "tls": handshake done, MQTT not yet accepted.*)
(* "up": CONNACK accepted.  "clear": disconnect() has dropped TLS but the  *)
(* socket is still open.  "closed": the socket is stopped, or was lost     *)
(* before disconnect() came to it.                                         *)
Links == {"down", "tls", "up", "clear", "closed"}

\* MQTT::isConnected(): with tls set it is tlsConnected, else the socket.
IsConnected == link \in {"tls", "up", "clear"}

Frames == {"none", "cart", "connect", "hello", "subscribe", "ping", "rx",
           "puback", "disconnect"}

NoFrame == [by |-> "main", meant |-> "none", was |-> "none"]

-----------------------------------------------------------------------------
(* The mutex, as concurrent_hal.cpp gives it to both threads.              *)

Lock(t) == mutex = "free" /\ mutex' = t

\* Mutant: the answer a caller of trylock() expects.
TryLockUpright(t, answer) ==
  \/ mutex = "free" /\ mutex' = t /\ answer = TRUE
  \/ mutex # "free" /\ mutex' = mutex /\ answer = FALSE

\* xSemaphoreTake(mutex, 0) == pdFALSE: TRUE when the take failed.
TryLock(t, answer) ==
  \/ mutex = "free" /\ mutex' = t /\ answer = FALSE
  \/ mutex # "free" /\ mutex' = mutex /\ answer = TRUE

\* xSemaphoreGive() frees the mutex whoever holds it.
Unlock == mutex' = "free"

(* The client's buffer: every frame is built in it in one step and written *)
(* from it in a later one.                                                 *)
Fill(frame) == buffer' = frame /\ UNCHANGED sent

\* netWrite(): what leaves is what the buffer holds now.
NetWrite(t, frame) ==
  sent' = IF IsConnected THEN [by |-> t, meant |-> frame, was |-> buffer] ELSE sent

-----------------------------------------------------------------------------
(* The modem, outside both threads.                                        *)

CellularUp   == modem = "on" /\ modem' = "ready"
CellularLost == modem = "ready" /\ modem' = "on"

Modem == /\ CellularUp \/ CellularLost
         /\ UNCHANGED <<mainVars, serverVars, mutex, link, buffer, sent>>

-----------------------------------------------------------------------------
(* The main thread.                                                        *)

MainGoto(from, to) == pcM = from /\ pcM' = to

\* Mutant: lockMutexs() is forgotten.
StartupCreateOnly ==
  /\ MainGoto("startup", "radio")
  /\ mutex' = "free"
  /\ UNCHANGED <<can_records, new_can_flag, counted, skips, report, serverVars,
                 modem, link, buffer, sent>>

\* createMutexs(); lockMutexs();
StartupLock ==
  /\ MainGoto("startup", "radio")
  /\ mutex' = "main"
  /\ UNCHANGED <<can_records, new_can_flag, counted, skips, report, serverVars,
                 modem, link, buffer, sent>>

\* Cellular.on(); Cellular.connect();
StartupConnect ==
  /\ MainGoto("radio", "await")
  /\ modem' = "on"
  /\ UNCHANGED <<can_records, new_can_flag, counted, skips, report, serverVars,
                 mutex, link, buffer, sent>>

\* while (!Cellular.ready()); ... releaseMutexs();
StartupRelease ==
  /\ modem = "ready"
  /\ MainGoto("await", "idle")
  /\ Unlock
  /\ UNCHANGED <<can_records, new_can_flag, counted, skips, report, serverVars,
                 modem, link, buffer, sent>>

\* Two seconds are over: CAN_function() counts the records of its poll.  One
\* that was not answered counts when an earlier poll left a record in its place
\* (module CanPoll): the count is of this cycle, what it counts need not be.
Collect ==
  /\ MainGoto("idle", "try")
  /\ \E n \in 0..NumPids : /\ counted' = n
                           /\ can_records' = can_records + n
  /\ UNCHANGED <<new_can_flag, skips, report, serverVars, sharedVars>>

\* Mutant: the mutex is looked at and not taken.
SkipUntaken ==
  /\ mutex = "free"
  /\ MainGoto("try", "reset")
  /\ skips' = IF skips = 2 THEN 2 ELSE skips + 1
  /\ UNCHANGED <<can_records, new_can_flag, counted, report, serverVars, sharedVars>>

\* if (os_mutex_trylock(mqtt_mutex)) is false: the body is skipped.
Skip ==
  /\ TryLock("main", FALSE)
  /\ MainGoto("try", "reset")
  /\ skips' = skips + 1
  /\ UNCHANGED <<can_records, new_can_flag, counted, report, serverVars,
                 modem, link, buffer, sent>>

\* The body: build the message; an empty one (message_id = 0) is not published.
Build ==
  /\ TryLock("main", TRUE)
  /\ MainGoto("try", IF can_records > 0 \/ new_can_flag THEN "publish" ELSE "unlock")
  /\ new_can_flag' = (new_can_flag \/ can_records > 0)
  /\ skips' = 0
  /\ UNCHANGED <<can_records, counted, report, serverVars, modem, link, buffer, sent>>

\* MQTT::publish() up to the write: nothing when there is no connection.
Publish ==
  \/ /\ IsConnected
     /\ MainGoto("publish", "write")
     /\ Fill("cart")
     /\ report' = can_records
     /\ UNCHANGED <<can_records, new_can_flag, counted, skips, serverVars,
                    mutex, modem, link>>
  \/ /\ ~IsConnected
     /\ MainGoto("publish", "unlock")
     /\ UNCHANGED <<can_records, new_can_flag, counted, skips, report, serverVars,
                    sharedVars>>

PublishWrite ==
  /\ MainGoto("write", "unlock")
  /\ NetWrite("main", "cart")
  /\ UNCHANGED <<can_records, new_can_flag, counted, skips, report, serverVars,
                 mutex, modem, link, buffer>>

\* Mutant: the flag survives the body.
BodyEndKeepsFlag ==
  /\ MainGoto("unlock", "reset")
  /\ Unlock
  /\ UNCHANGED <<can_records, new_can_flag, counted, skips, report, serverVars,
                 modem, link, buffer, sent>>

\* Mutant: the mutex is not given back.
BodyEndKeepsMutex ==
  /\ MainGoto("unlock", "reset")
  /\ new_can_flag' = FALSE
  /\ UNCHANGED <<can_records, counted, skips, report, serverVars, sharedVars>>

\* The flags are cleared and the mutex is given, whoever had taken it.
BodyEnd ==
  /\ MainGoto("unlock", "reset")
  /\ new_can_flag' = FALSE
  /\ Unlock
  /\ UNCHANGED <<can_records, counted, skips, report, serverVars, modem, link,
                 buffer, sent>>

\* Mutant: the counter is stepped down, not cleared.
ResetByOne ==
  /\ MainGoto("reset", "idle")
  /\ can_records' = can_records - 1
  /\ UNCHANGED <<new_can_flag, counted, skips, report, serverVars, sharedVars>>

\* can_records = 0: after a skipped cycle its records are gone.
Reset ==
  /\ MainGoto("reset", "idle")
  /\ can_records' = 0
  /\ UNCHANGED <<new_can_flag, counted, skips, report, serverVars, sharedVars>>

Startup == StartupLock \/ StartupConnect \/ StartupRelease
Cycle   == Collect \/ Skip \/ Build \/ Publish \/ PublishWrite \/ BodyEnd \/ Reset
Main    == Startup \/ Cycle

-----------------------------------------------------------------------------
(* The server thread.                                                      *)

ServerGoto(from, to) == pcS = from /\ pcS' = to /\ UNCHANGED ret

\* Build a frame in the client's buffer, to be written by the next step.
ServerFill(from, frame, to) ==
  /\ ServerGoto(from, to)
  /\ Fill(frame)
  /\ UNCHANGED <<mainVars, mutex, modem, link>>

ServerWrite(from, frame, to) ==
  /\ ServerGoto(from, to)
  /\ NetWrite("server", frame)
  /\ UNCHANGED <<mainVars, mutex, modem, link, buffer>>

\* Step over a part of the client that has nothing to do.
ServerPass(from, to) ==
  /\ ServerGoto(from, to)
  /\ UNCHANGED <<mainVars, sharedVars>>

\* Enter MQTT::disconnect(), to continue at then when it returns.
ServerDisconnect(from, then) ==
  /\ pcS = from
  /\ pcS' = "sendDisconnect"
  /\ ret' = then
  /\ Fill("disconnect")
  /\ UNCHANGED <<mainVars, mutex, modem, link>>

\* while (!Cellular.ready());
AwaitCellular == modem = "ready" /\ ServerPass("wait", "dial")

\* TCP connect and TLS handshake, both without mqtt_mutex.
Dial ==
  \/ /\ ServerGoto("dial", "connect")
     /\ link' = "tls"
     /\ UNCHANGED <<mainVars, mutex, modem, buffer, sent>>
  \/ ServerDisconnect("dial", "lock")

SendConnect == \/ ServerFill("connect", "connect", "sendConnect")
               \/ ServerWrite("sendConnect", "connect", "connack")

\* CONNACK accepted; refused, late or cut short; or a TLS error while it is read,
\* after which readByte() waits for ever on the stopped socket.
Connack ==
  \/ /\ ServerGoto("connack", "hello")
     /\ link' = "up"
     /\ buffer' = "rx"
     /\ UNCHANGED <<mainVars, mutex, modem, sent>>
  \/ \E then \in {"lock", "hang"} : ServerDisconnect("connack", then)

\* publish("outTopic/message") and subscribe("inTopic/message"), no mutex held.
SayHello == \/ ServerFill("hello", "hello", "sendHello")
            \/ ServerWrite("sendHello", "hello", "subscribe")
            \/ ServerFill("subscribe", "subscribe", "sendSubscribe")
            \/ ServerWrite("sendSubscribe", "subscribe", "lock")

ServerLock ==
  /\ Lock("server")
  /\ ServerGoto("lock", "poll")
  /\ UNCHANGED <<mainVars, modem, link, buffer, sent>>

\* isConnected() and the keep-alive part of MQTT::loop().
Poll == \/ ~IsConnected /\ ServerPass("poll", "unlock")
        \/ IsConnected /\ ServerPass("poll", "receive")
        \/ IsConnected /\ ServerFill("poll", "ping", "sendPing")
        \/ IsConnected /\ ServerDisconnect("poll", "unlock")
        \/ ServerWrite("sendPing", "ping", "receive")

\* available() and readPacket(); a TLS error inside the packet disconnects, and
\* unless it met the last byte the rest of readPacket() never returns.
Receive == \/ ServerPass("receive", "unlock")
           \/ ServerFill("receive", "rx", "dispatch")
           \/ \E then \in {"dispatch", "hang"} : ServerDisconnect("receive", then)

\* The callback, and a PUBACK when the message was QoS 1.  The answer to a PINGREQ
\* is left out: a broker sends none.
Dispatch == \/ ServerPass("dispatch", "unlock")
            \/ ServerFill("dispatch", "puback", "sendPuback")
            \/ ServerWrite("sendPuback", "puback", "unlock")

\* MQTT::disconnect(): the frame, then TLS, then the socket.
Disconnect ==
  \/ ServerWrite("sendDisconnect", "disconnect", "dropTls")
  \/ /\ ServerGoto("dropTls", "stop")
     /\ link' \in IF link = "closed" THEN {"closed"} ELSE {"clear", "closed"}
     /\ UNCHANGED <<mainVars, mutex, modem, buffer, sent>>
  \/ /\ pcS = "stop"
     /\ pcS' = ret
     /\ link' = "closed"
     /\ UNCHANGED <<mainVars, ret, mutex, modem, buffer, sent>>

\* Mutant: the lock is kept over the delay.
ServerKeepsLock == ServerPass("unlock", "sleep")

\* os_mutex_unlock(), then the ten millisecond delay.
ServerUnlock ==
  /\ ServerGoto("unlock", "sleep")
  /\ Unlock
  /\ UNCHANGED <<mainVars, modem, link, buffer, sent>>

Sleep == ServerPass("sleep", "lock")

Session == AwaitCellular \/ Dial \/ SendConnect \/ Connack \/ SayHello
Serve   == ServerLock \/ Poll \/ Receive \/ Dispatch \/ ServerUnlock \/ Sleep
Server  == Session \/ Serve \/ Disconnect

-----------------------------------------------------------------------------
Init ==
  /\ pcM = "startup" /\ pcS = "wait" /\ ret = "lock"
  /\ mutex = "absent" /\ modem = "off" /\ link = "down"
  /\ buffer = "none" /\ sent = NoFrame
  /\ can_records = 0 /\ new_can_flag = FALSE
  /\ counted = 0 /\ skips = 0 /\ report = 0

Next == Modem \/ Main \/ Server

(* Only the cycle and the mutex are assumed fair.  loop() never blocks, so *)
(* the scheduler keeps running it; FreeRTOS hands a given mutex to the     *)
(* thread that waits for it.  Nothing is assumed of the network, nor that  *)
(* the client's own steps end: some of them really do not.                 *)
Fairness == WF_vars(Cycle) /\ SF_vars(ServerLock)

Spec == Init /\ [][Next]_vars /\ Fairness

-----------------------------------------------------------------------------
(* Properties                                                              *)

StartingUp == {"startup", "radio", "await"}

MainBody == {"publish", "write", "unlock"}

\* Where the server thread is between its lock and its unlock.
ServerLocked == {"poll", "sendPing", "receive", "dispatch", "sendPuback", "unlock"}

InDisconnect == {"sendDisconnect", "dropTls", "stop"}

BeforeService == {"wait", "dial", "connect", "sendConnect", "connack", "hello",
                  "sendHello", "subscribe", "sendSubscribe"}

TypeOK ==
  /\ pcM \in StartingUp \cup {"idle", "try", "reset"} \cup MainBody
  /\ pcS \in BeforeService \cup ServerLocked \cup InDisconnect \cup {"lock", "sleep", "hang"}
  /\ ret \in {"lock", "unlock", "dispatch", "hang"}
  /\ mutex \in {"absent", "free", "main", "server"}
  /\ modem \in {"off", "on", "ready"}
  /\ link \in Links
  /\ buffer \in Frames
  /\ can_records \in Nat /\ counted \in 0..NumPids
  /\ new_can_flag \in BOOLEAN
  /\ skips \in Nat /\ report \in Nat
  /\ sent \in [by : {"main", "server"}, meant : Frames, was : Frames]

(* When the server thread is outside its locked region it holds nothing:   *)
(* whatever loop() does to the mutex meanwhile, the server thread leaves   *)
(* no hold behind that would lock it out of its own next round.            *)
ServerHoldsInside ==
  mutex = "server" => pcS \in ServerLocked \cup InDisconnect \cup {"hang"}

(* The inverted trylock loses batches, but never three in a row: a skipped *)
(* cycle leaves the mutex held, only one pending unlock of the server      *)
(* thread can free it again, and a held mutex is what makes the body run.  *)
SkipBound == skips <= 2

(* A message announces as many records as the poll of its own cycle has    *)
(* counted, and is not empty: neither the count nor the flag of a skipped  *)
(* cycle leaks into a later message.  Nor does can_records, the index into *)
(* temp_can_buffer, ever run past one poll's requests, however skipped and *)
(* published cycles alternate.  Whose records they are is not said.        *)
BatchCounted ==
  /\ pcM = "write" => report = counted /\ report > 0
  /\ can_records <= NumPids

(* The server thread touches the mutex only after startup_function() has   *)
(* created, held and released it.                                          *)
StartupGate ==
  /\ pcS # "wait" => mutex # "absent"
  /\ mutex = "server" => pcM \notin StartingUp

\* The promise of module Uplink, read off the two threads.
PromisedUplink == INSTANCE Uplink WITH
  MaxBatch <- NumPids,
  MaxGap   <- 2,
  session  <- CASE link = "down"                     -> "none"
                [] link \in {"tls", "up", "clear"}   -> "open"
                [] link = "closed"                   -> "over",
  gap      <- skips,
  report   <- report

(* The threads implement the abstract uplink: the session opens once and   *)
(* never reopens, batches go to an open session only, and at most two are  *)
(* dropped between two offers.                                             *)
UplinkImplemented == PromisedUplink!UplinkSpec

(* Once started up, the server thread that waits for the mutex gets it,    *)
(* although loop() takes it and keeps it from one cycle to the next.       *)
ServerServed == pcS = "lock" /\ pcM \notin StartingUp ~> pcS = "poll"

(* Every cycle is followed by one that runs the body, even when the server *)
(* thread never comes back from the client.                                *)
BodyRecurs == pcM = "idle" ~> pcM \in MainBody

(* "grab lock" ... "release lock" (CarT.cpp:124-128): the frame the server *)
(* thread writes while it is inside its locked region is the frame it      *)
(* built there.                                                            *)
LockedFramesIntact ==
  sent.by = "server" /\ sent.meant \in {"ping", "puback"} => sent.was = sent.meant
=============================================================================
