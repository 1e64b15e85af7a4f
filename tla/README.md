# Formal models of the Telematics unit

The repository holds a telematics application for a Particle Electron
(`src/src/telematics`) and the device firmware it runs on
(`src/src/firmware`). These modules model the parts in which order, timing,
failure and concurrency decide whether the unit works; TLC checks them on small
instances and TLAPS proves the most important results for every instance.

Paths below are relative to `src/src/`; `T` is `telematics`, `F` is `firmware`.

## 1. The system

```
        main thread ---- CAN poll ---- serial ring <--- STN chip (interrupt)
             |  \
 mqtt_mutex  |   \ publish()
             |    \
      server thread -- MQTT client -- TLS -- TCP client -- modem -- broker
                       (one buffer)                    |
                                        serial pipe (interrupt)
                                                       |
   (two active objects: calls to the system thread, events to the main thread)
      system thread -- cloud protocol -- CoAP reliable channel -- DTLS -- cloud
           |                |
      DCD (flash)    chunked transfer -- update callbacks, watchdog
```

| Component | State | Operations | Hard behaviour | What makes it correct |
|---|---|---|---|---|
| Application threads (`T/src/main.cpp`, `T/lib/CarT/src/CarT.cpp`) | `can_records`, `new_can_flag`, `mqtt_mutex`, where each thread is | `startup_function`, `loop`, `server_thread_function` | two threads of equal priority share one MQTT client; the trylock is read the wrong way round | startup comes first; nobody starves; lost batches are bounded; a message carries as many records as its own cycle counted |
| Mutex of the HAL (`F/hal/src/stm32f2xx/concurrent_hal.cpp`) | holder | create, lock, trylock, unlock | `trylock` answers TRUE for failure; a give by a thread that does not hold it | the server thread leaves no hold behind |
| MQTT client (`T/lib/MQTT-TLS`) | session, buffer, two timers, `pingOutstanding` | connect, publish, subscribe, loop, readPacket, disconnect | one buffer and a wrapping clock's readings that two threads write; packets left in the TLS layer; a dead peer; no retry | messages handled in order, once; the ping flag is right, but for what a publication spoils; a loss is noticed |
| CAN poll (`T/lib/CarT/src/CAN.cpp`) and serial ring (`F/hal/src/stm32f2xx/usart_hal.c`) | records, count, ring | GetPID, receive, clearBuffer, store_char | answers late, short, long or missing | records stay in the buffer, and characters of an earlier poll out of them; the poll returns |
| CoAP reliable channel (`F/communication/src/coap_channel.*`) | two message stores, message id | establish, send, synchronous send, receive, process | lost, late, repeated and reordered datagrams; ids of both sides meet; connections end at any time | each request concludes once and truthfully; each request of the server is handled once |
| DTLS channel and session data (`F/communication/src/dtls_*`) | session, its members in RAM and their copy in retained memory, checksums of what the cloud has been told | establish, send, update, notify, close, discard; describe, subscribe | a reset between any two steps; a server that forgets the session | a resumed session goes on where it stopped and is one the server has greeted; one the server dropped is given up |
| Cloud protocol: chunked transfer (`F/communication/src/chunked_transfer.*`, `protocol.*`) with the update callbacks (`F/system/src/system_update.cpp`) and the watchdog (`F/system/src/main.cpp`) | `updating`, bitmap, `missed_chunk_index`, `chunk_index`, time of the last chunk; `SPARK_FLASH_UPDATE`, `TimingFlashUpdateTimeout` | update begin, chunk, update done, idle, cancel, reset; prepare, save, finish; tick | unacknowledged chunks lost and reordered; a connection lost, renewed or resumed in the midst; a second update, of another file, after half of one | an announced image is whole, unless a chunk or a begin of another update came into it; nothing is written outside an update; missing chunks are asked for; no update lasts for ever |
| Cloud protocol: the rest (`ping.h`, `timesyncmanager.h`, functions, variables, events) | ping and time-sync flags | event loop, handlers | timeouts | see section 7 |
| DCD (`F/services/inc/dcd.h`, `F/platform/.../dcd_flash_impl.h`) | two flash sectors: header, data, counter, CRC | read, write, migrate, initialise | power lost or an error in any of eight steps of a write, several times in a row | the old or the new value, of every slot; what was reported written stays |
| EEPROM emulation (`F/services/inc/eeprom_emulation.h`) | flash pages | read, write | as above | not used by the application |
| Modem's serial line (`F/hal/src/electron/modem/pipe_hal.h`, `electronserialpipe_hal.cpp`) | two rings, the interrupt enable bits, pause flag | put, getLine, pause, resume, interrupt | interrupt against thread without a lock; a register both sides change | nothing lost, doubled or reordered; no lost wake-up; calls return |
| Modem driver's AT dialogues (`mdm_hal.cpp`) | socket table | sequences of the calls above | | not planned |
| Active objects (`F/system/inc/active_object.h`, `system_threading.*`, `system_event.cpp`) | two bounded queues, promises and tasks, the background task | invoke, put, take, process, notify | two threads that put into each other's full queue; a server busy, or in a loop of its own | each call served once, alone, in order; a result is there before its caller goes on; nobody waits for ever |
| Completion handlers (`F/services/inc/completion_handler.h`) | handlers with timeouts | register, result, update | | not used by the application |
| System task, network management, sleep, setup, wiring, bootloader, platform, vendored code | | | | not planned in detail, see section 8 |

`PROJECT.json` lists the same components with their files, and the hazards with
the line where each bites.

## 2. Modules

| Module | Models | Runs |
|---|---|---|
| `CarT` | the two application threads, the mutex and the MQTT client as the threads share it | `cart`, `cart_lock` |
| `Uplink` | abstract: one session, batches offered, at most so many dropped in a row | refined by `CarT` |
| `MqttClient` | the MQTT client against clock, TLS records, network and broker | `mqtt`, `mqtt_keepalive` |
| `CanPoll` | one CAN poll after another over the serial ring | `can` |
| `CoapChannel` | both message stores with application, event loop, connections, network, server | `coap`, `coap_live` |
| `Exchange` | abstract: a request ends once, acknowledged only if it arrived; one handling in each connection | refined by `CoapChannel` |
| `CoapTime` | the comparison of wrapping clock readings | `ExpiryIsExact` in `CoapChannel_proofs` |
| `Session` | the persisted DTLS session with the connection, the subscriptions and the description that depend on it | `session` |
| `ChunkedTransfer` | a firmware update: transfer, event loop, callbacks, watchdog, server, network | `transfer` |
| `Dcd` | the two flash sectors under power loss and flash errors | `dcd` |
| `Register` | abstract: slots that keep what was last written, one atomic write at a time | refined by `Dcd` |
| `SerialPipe` | the modem's serial line, thread against interrupt | `pipe` |
| `Stream` | abstract: a bounded stream of bytes | refined twice by `SerialPipe` |
| `ActiveObject` | system thread and application thread with the queue of each | `active` |
| `Service` | abstract: calls served one at a time, notices kept while there is room | refined by `ActiveObject` |
| `CarT_proofs`, `SerialPipe_proofs`, `ActiveObject_proofs`, `Session_proofs`, `ChunkedTransfer_proofs`, `Dcd_proofs`, `CoapChannel_proofs` | theorems about the module they are named after | |
| `Application_proofs` | theorems about the application's two libraries, `MqttClient` and `CanPoll`, which need the same lemmas about sequences | |
| `MC*` | constants for TLC | |

### CarT
`pcM` and `pcS` stand between two steps at which the other thread can act. The
main thread's steps follow `startup_function()` (create and lock, radio on, wait
and release) and `loop()` (collect, trylock, build, publish in two steps, end of
the body, reset). The server thread's follow `server_thread_function()` and the
client's functions it calls. A frame is built in the client's single buffer in
one step (`Fill`) and written in another (`NetWrite`), which is what makes an
overwritten frame visible. `mutex` names the holder; `TryLock` has the sense of
`os_mutex_trylock()` and `Skip`/`Build` that of `loop()`. `link` keeps apart
what `isConnected()` does not: TLS up but MQTT not accepted, TLS dropped but the
socket open. `counted`, `skips`, `report` and `sent` are history. `Collect` has the number of
records the poll counts and not their contents: `GetPID()` counts by the first byte of
a record, so one of an earlier poll may count again (section 4), and `BatchCounted`
speaks of numbers only. GPS and DOF data do not reach the message's control and are left
out, and so is the client's answer to a PINGREQ (`MQTT-TLS.cpp:326`): brokers send none.

### MqttClient
The server thread alone drives `connect()`, `loop()` and `readPacket()`. Every packet,
read or written, lies in the client's one buffer: `buffer` is the packet the server
thread has there, put in by one step (`Fill`) and sent or handled by another. The main
thread appears as `MainPublish`, which may come between any two of them: it writes over
what is in the buffer (`torn`) or sets `lastOutActivity`. What is torn is sent garbled,
or whole if the bytes written over were not its own; a torn CONNACK may be taken for
either verdict, a torn PINGRESP may not be known for one, and a torn message reaches
`callback()` in another form, or not at all. What `publish()` itself sends, and what the
server thread may have written into that, means nothing to the session. `tcpIn` holds TLS
records, each a sequence of packets; `tlsIn` the packets of the last record not read
yet, which `available()` does not see. `dispatched`, `callbacks`, `spoilt` and
`pingSpoilt` are history: what came to be handled, what of it reached `callback()` as it
was published, and what a publication was written over.
Reading of single bytes is one step. A record cut off by a dying network is
`cut`, and reading it ends in `hang`, as the loop in `readByte()` does.
What the properties say of the packets is told by `Only(S, s)`, the members of `S` in
a sequence: `Count` and `Expected` are made of it.

### CanPoll
`receive()` takes `Width` characters, skips spaces, and stores nothing when the
ring is empty. The chip's answers come through `line` one character at a time
while the thread polls, so they arrive early, late, or in the next poll.
Characters that lie in the ring when a poll begins are relabelled `left`.
Its state and specification have names of their own (`poll`, `PollSpec`,
`PollTypeOK`), because `Application_proofs` extends it together with `MqttClient`.

### CoapChannel
A store is a set of entries with an id each; `Add`, `Without`, `Known` and
`Processed` are its operations. An entry's timeout is the number of ticks left.
`Send`, `SendSynchronous` and `Reply` are `send()`; the `Receive...` actions are
`receive()`, each with `process()` of both stores, in the order of the code
(newest first, which decides what a session that closes in the midst still
sends). `waiting` puts the system thread in the loop of `send_synchronous()`,
where only the `Sync...` actions, serving the client store alone, can be taken.
`Establish` and `Resume` are the two ways `establish()` ends. The network is a
set: datagrams are reordered freely, delayed up to `Lifetime` ticks and lost.
DTLS discards replayed records, so a datagram itself is not duplicated; copies
come from retransmission. Messages without store entries (NON, `send_direct`)
are left out.

### Session
`sessionPersist` is the object in RAM, `session` its copy in retained memory, `ssl`
the context of mbedtls with the number of the next record. `Write` is `send()` up to
the record on its way (which arrives or is lost), and `Update` the saving after it;
`then` is where the caller goes on. `Reset` may come between any two steps; it starts
with what `session` holds, or with nothing when the supply was lost. `Resume` and
`Handshake` are the two ways of `establish()`; `Ping`, `Hello` and `Greeted` the rest
of `begin()`, `Announce` and `PersistSubscriptions` the end of `Spark_Handshake()`.
`server` is what the server remembers: its session, the highest record number and id
it has accepted, and whether it has had a hello. Checksums are the sets and values
they are computed from; the two of the description are one.

### ChunkedTransfer
A file is a name and its number of chunks; the server offers one file after another,
fast or slow as it likes (`offered`). `dev` holds the members of the transfer and what the
system knows of an update: the flash image, `SPARK_FLASH_UPDATE` (`flashing`), the
watchdog's counter and what the application was told last (`outcome`). `file` is the
descriptor, which each begin overwrites before it is accepted (`Described`); `begun` and
`alien` are history: the update accepted last, and whether a chunk that is not of it was
taken in the midst of it, or the descriptor got another length. The callbacks (`Prepare`,
`Save`, `Finish`) and the pieces of the handlers (`Begun`, `Indexed`, `Stored`, `Asked`,
`Completed`) are functions of that record; the actions, one for each handler, put them
together with the messages sent, each of which may fail. `Loop` is the end of
`event_loop()` and of `Spark_Process_Events()`: an error cancels the transfer and closes
the socket. A synchronous send (`SentSync`) may arrive although its acknowledgement does
not, and no tick passes inside it.

In a fast update the chunks are in `net`, a set, each with its file, which only the image
remembers: the device sees index and checksum, and takes a chunk of any file, and an
index in a slow update too (`Indexed`). In a slow one, and for begin and done, the server
has one confirmable message (`con`), which is handled once in each connection. A
connection resumed keeps the server's side and all that is under way. `Gaps` is what
`next_chunk_missing()` may find: where the descriptor is longer than the bitmap, and while
the bitmap's pointer is null (`Unmapped`), what is read is left open. A tick is three
seconds, `idle()`'s period; `unasked` is history.

### Dcd
A sector is its header (`mark`, `seal`), its slots, the counter of two bits and
whether its CRC is the one of its contents. `job` is the call in progress:
`migrate()` after a reset, `read()` when it has to initialise, or `write()`; its
steps are the accesses to the flash in `_writeSector()` and `write()`. No call
keeps anything in RAM, so a loss of power is a reset to `boot` with whatever
`CutShort` says the step in progress may leave. A reported error leaves the same,
and ends a write; `initialize()` and `migrate()` do not look at it, which sets
`ignored`. `Pages` are the sectors a board may come with: erased, never erased,
a page of the first layout, or those of code of version 1.

`ignored` is where the promise ends: after a failure inside `initialize()` or
`migrate()` the write that follows copies from a sector that is not valid
(`dcd.h:461`). Without that exemption the refinement does not hold.

### SerialPipe
The interrupt handler is one step, because the thread does not run inside it. The
thread's calls are cut at each access to what both sides share: the free space
read, the bytes copied, the index moved, the enable register read and written
back. `Outgoing` and `Incoming` map the two directions to `Stream`; a byte held
between ring and data register counts as out. A byte that has been read is marked
`Stale` in its ring, which both reduces the states and shows any byte that would
be read again.

### ActiveObject
`pc` says where a thread is: running, in `put()` of the system queue, in `get()` of
a promise, or in the `put()` of an event. `Invoke` makes a promise
(`SYSTEM_THREAD_CONTEXT_SYNC`) or a task left alone (`..._ASYNC`), `Put` is the
put without a timeout, `Get` the semaphore. `Notify`, `PutEvent` and `PutTimeout` are
`system_notify_event()` with the application's queue, whose put gives up after 5 s.
The system thread is `run()` and `process()`: `Process` takes a message, `Complete`
ends its work, `Idle` calls the background task, which may enter a loop that calls
`SystemThread.process()` itself (`Pump`: listening for credentials, or waiting before a
reset). A call by the thread that serves it is made directly and has no step. The
messages are numbered by their makers; the numbers exist for the properties only.

`Promise` reads the state of each call and event off the queues (`WorkOf`,
`NoticeOf`) and instantiates `Service` with them.

## 3. Runs

| Run | Shows | States |
|---|---|---|
| `cart` | type, server thread's holds, a message has as many records as its cycle counted and is not empty, startup order, refinement of `Uplink` (with at most two skipped cycles in a row), neither thread starves | 66 thousand |
| `cart_lock` | violation: a ping built under the lock is overwritten before it leaves | |
| `mqtt` | ping accounting and ordered, complete delivery while publications overwrite the buffer, loss noticed, left-over packets read | 1.1 million |
| `mqtt_keepalive` | violation: a healthy session is given up | |
| `can` | type with as many records in the buffer as are counted, leftovers dropped, the poll returns | 54 thousand |
| `coap` | honest acknowledgements, refinement of `Exchange` (each request handled once in a connection, and concluded once) | 1.3 million |
| `coap_live` | every request ends, every synchronous send returns | 44 thousand |
| `session` | a session goes on where it stopped over any resets; one the server dropped is given up | 445 thousand |
| `transfer` | an announced image is whole, but for chunks and lengths of another update; nothing saved outside an update, watchdog armed, missing chunks asked for, updates conclude | 2.0 million |
| `dcd` | refinement of an atomic durable register, the counter decides | 412 thousand |
| `pipe` | refinement of a stream in both directions, no lost wake-ups, calls return | 1.2 million |
| `active` | a message is in one place, refinement of `Service`, whoever waits goes on | 370 thousand |

### Bounds
* `CarT`: no counter is cut. `can_records` and `skips` are unbounded in the model
  and bounded by theorem. Two requests in a poll tell an empty, a partial and a
  full batch apart; the theorems remove the bound.
* `MqttClient`: the clock wraps at 5 with an interval of 1. `MaxAge` is how long
  the thread may go unscheduled; that it and the interval stay below the clock's
  width is the assumption under which unsigned differences mean anything. One
  message of each kind (QoS 0, QoS 1, oversized), records of one or two packets.
  The clock runs only while there is a connection, since nothing reads it else.
* `CanPoll`: three requests of width two, a ring of three, answers that are
  missing, short, exact and long with a space. `MaxLine` bounds what is under way.
* `CoapChannel`: two requests of the device and one of the server with the id of
  the first, so that ids meet; a base timeout of one tick, one retransmission (two
  in `coap_live`). The jitter takes its extremes only. The spans are as tight
  as `TimesAssumption` lets them be, so that an entry forgotten a tick too early
  would be noticed. `coap_live` leaves the server's requests out: they share
  nothing with the client store but the loops.
* `Session`: record numbers and ids count to four and stay there (`MaxNumber`): a
  server that has seen the highest takes nothing more, which bounds the run. Two
  identities of sessions, of which the server's present one is not given again; two
  subscriptions, one made at every boot; two descriptions.
* `ChunkedTransfer`: a file of three chunks and one of one, so that lengths differ, and
  one that is too long (`MaxChunks` is four) and refused. Requests are of two chunks at a
  time, so that one request does not cover what is missing. Two updates, each of any file
  and fast or slow, so that the second meets chunks, bitmap and length that the first
  left; the watchdog's span is two ticks.
* `Dcd`: two slots, so that every write has bytes to copy; two values. The number
  of writes, power losses and errors is not bounded. A counter of two bits goes
  round within the run.
* `SerialPipe`: rings of two bytes, and calls with up to three, so that rings fill,
  wrap, and make the caller wait. Two byte values. Nothing else is bounded; the
  theorems hold for every size.
* `ActiveObject`: two threads that call and two that notify, two messages of each,
  queues of two (`MaxCalls` and `MaxEvents` bound the run): both queues can be full at
  once with every thread in a put. Since calls are bounded, the run does not show that
  a put cannot be overtaken for ever by other threads' puts; FreeRTOS serves waiting
  threads of one priority in turn. The put's timeout of 0x7FFFFFFF ms is taken as for
  ever, as its comment says.

### Fairness
* `CarT`: weak fairness of `loop()`'s steps, which never block, and strong
  fairness of taking the mutex: FreeRTOS readies the waiting thread on a give, and
  the next trylock is two seconds away. Nothing is assumed of the network or of
  the server thread's other steps.
* `MqttClient`, `CanPoll`: the thread is scheduled and the clock goes on; nothing
  of broker, chip or network.
* `CoapChannel`: the system thread keeps looking (event loop, or synchronous loop)
  and the clock goes on; no datagram need arrive and no connection need come back.
* `Session`: what the thread has begun it ends (`Update` and the two `Persist...`). The
  keep-alive and the timeout of a request are strongly fair: both count from what was
  received and acknowledged, and the device's own traffic does not put them off.
  Nothing is assumed of network, server or application.
* `ChunkedTransfer`: the event loop turns (`Idle`), the tick handler runs
  (`Watchdog`), the clock goes on; nothing of the network, the server or the
  application.
* `SerialPipe`: the thread and the interrupt run, and the modem lowers CTS in the
  end (`Shift`), which `put()` relies on: it waits without a timeout. The modem
  need not send anything.
* `ActiveObject`: threads are scheduled, the 5 s pass, the work of a message and of
  the background task ends. A pump may go on for ever, and so may the application
  without taking an event: neither is needed.

## 4. Findings
1. `cart_lock`: `os_mutex_trylock()` returns TRUE when it failed. `loop()` takes
   that for success, so it publishes exactly when the mutex is *not* its own to
   use, and skips cycles in which it has just taken it. The section the server
   thread marks "grab lock" ... "release lock" is not exclusive.
2. `mqtt_keepalive`: `publish()` between `t = millis()` and the comparison makes
   `t - lastOutActivity` wrap; with a ping outstanding the session is closed, and
   nothing reopens it.

Seen while modelling, and not judged by a run:
* `establish()` clears the store of the server's requests before it is known that the
  session is resumed (`coap_channel.h:587`). The server's session goes on, and its
  repetition of a request whose acknowledgement was lost is then handled again, unlike
  `coap_reliability.cpp:620` says ("passed only once to the application").
* `SKIP_SESSION_RESUME_HELLO` is set in `Protocol::flags` and never cleared before a
  reset (`protocol.cpp:276`, `:307`): a session resumed later in the same run sends no
  hello, although subscriptions and functions registered without a connection in the
  meantime never reached the cloud.
* `send_description()` saves its checksums in the copy only (`update_persisted_state()`);
  the next `update()` overwrites them with the old ones in RAM. After a reset the
  checksums therefore differ, and the hello is sent again, in spite of
  `dtls_session_persist.h:92` ("last sent to the cloud").
* A handshake does not clear the checksums in RAM (`clear()` changes `size` only): a
  reset after `notify_established()` and before the subscriptions are sent may resume
  as if they had been.
* `compute_cloud_state_checksum()` has no `break` after `DESCRIBE_APP`
  (`system_cloud_internal.cpp:553`): the system's checksum is saved with the
  application's.
* `GetPID()` counts a record by its first byte, which may be an earlier poll's
  (`CAN.cpp:56`): `receive()` stores nothing for a request that is not answered.
* `start_thread()` (`active_object.cpp:31`) gives the thread its identity with
  `set_thread(std::thread(...))`, which starts it first; the mutex that held it back
  is commented out, and only the wait of 100 ms for a first message hides it.
* `Spark_Prepare_For_Firmware_Update()` (`system_update.cpp:234`) waits up to 30 s for
  an event that carries the address of a flag on its stack; the application may
  handle the event later.
* `send_synchronous()` drops every message that comes while it waits
  (`coap_channel.h:465` speaks of CON messages): an acknowledgement of another
  request ends that request, and an answer it carries goes no further.
* `dcd.h:48` says that a sector discarded by version 2 is still considered valid;
  `findValidSector()` and `Header::isValid()` do not. It matters only when the
  sector in use decays and power is lost while it is rebuilt. `dcd.h:77` speaks of
  up to three attempts of a write after validating it; there is one.
* `cloud_disconnect()` on the application's wish during an update does not end the
  update with the application (`finish_firmware_update()` is not called). The
  result of `send_missing_chunks()` in `handle_chunk()` is not looked at.
* A late chunk after an update (`handle_chunk()`, `INVALID_STATE`) closes the
  cloud session.
* A chunk does not say which file it is of, and its checksum is its own: one of an earlier
  fast update that comes late, in a session that was resumed, is saved and flagged in the
  next (`chunked_transfer.cpp:164`), and the image is announced with it. In a slow update
  it moves `chunk_index` (`:131`); the chunks that follow are stored in the wrong places,
  and the bitmap, all ones from the start, does not tell.
* A begin overwrites the descriptor before it is known whether it is accepted (`:36`).
  One that is disabled by the application or fails in its acknowledgement while chunks are
  being repaired leaves its length: with a shorter one chunks that are missing are no
  longer asked for, and the image may be announced without them; with a longer one bits
  behind the bitmap are looked at. TLC shows a damaged image announced for each of the
  three ways (late chunk in a fast update, in a slow one, another length), and the missing
  chunks forgotten, in traces of 14 to 16 states when `FinishedWhole` and `RepairAsks` are
  checked without their exemption (`alien`).
* The bitmap lies in the tail of the channel's buffer (`chunked_transfer.cpp:81`);
  a long message received or built during an update would overwrite it.
* Success is announced to the system whatever `HAL_FLASH_OTA_Validate()` has said
  (`chunked_transfer.cpp:285`, `system_update.cpp:323`). `HAL_FLASH_End()` looks at the
  image again and does not apply one whose checksum is wrong
  (`ota_flash_hal_stm32f2xx.cpp:305`), so a damaged image costs the update, not the device.
* `ping()` sets `last_message_millis`, and the next idle turn clears the expected
  acknowledgement: the pinger's timeout practically never fires (`ping.h`).
* A modem that fills the receive ring with bytes in which `getLine()` recognises no
  line stops the line: nothing drains the ring until the modem is initialised anew.

## 5. Proved
Every theorem is proved for all values of the constants that the named assumption
of its module allows; none assumes anything else. Each proof module states an
inductive invariant `Inv` (`ClientInv` and `PollInv` in `Application_proofs`), a
conjunction of named parts: most of the properties are not inductive as they stand. What
follows says what the parts are for.

| Module | Theorems | Assumption |
|---|---|---|
| `CarT_proofs` | `TypeOK`, `SkipBound`, `ServerHoldsInside`, `BatchCounted`, `StartupGate`, refinement of `Uplink` | `NumPidsAssumption` |
| `SerialPipe_proofs` | `TypeOK`, `TxArmed`, `RxArmed`, refinement of `Stream` in both directions | `SizeAssumption` |
| `ActiveObject_proofs` | `TypeOK`, refinement of `Service` | `SizesAssumption` |
| `Application_proofs`, on `MqttClient` | `TypeOK`, `PingAccounted`, `InOrder`, `GiveUpExplained` (an action property) | `ClockAssumption`, `MessagesAssumption` |
| `Application_proofs`, on `CanPoll` | `PollTypeOK`, `LeftoversDropped` | `SizesAssumption` |
| `Session_proofs` | `TypeOK`, `ResumesWhereItStopped` | `SessionAssumption` |
| `ChunkedTransfer_proofs` | `TypeOK`, `FinishedWhole`, `WatchdogArmed`, `RepairAsks`, `SavesBelong` (an action property) | `TransferAssumption` |
| `Dcd_proofs` | `TypeOK`, `CounterDecides`, refinement of `Register` | `DcdAssumption` |
| `CoapChannel_proofs` | `TypeOK`, `AcksAreHonest`, refinement of `Exchange`, `ExpiryIsExact` | `TimesAssumption`, `RequestsAssumption` |

### CarT
* `HolderInv`: the server thread holds the mutex only while an unlock of its own
  is still to come, or when it hangs; the mutex is absent exactly at startup.
* `StartupInv`: the order of startup. `LinkInv`: the session is dialled once.
* `SkipInv`: why three skips in a row are impossible, which `SkipBound` alone
  does not carry: a first skip leaves the mutex with `loop()` and at most one
  unlock pending; after a second nobody is left to free it, so the third trylock
  finds it held and the body runs.
* `BatchInv`: counter, flag and report in each part of the cycle.

### SerialPipe
`TxArmed` and `RxArmed` speak of an idle thread only and are not inductive; `TxInv` and
`RxInv` carry them through the thread's calls: wherever the thread has nothing left to
do for the transmitter, bytes in the ring have it enabled, *and so does the register as
the thread has read it* before it writes it back. That holds because the interrupt never
enables a bit (`IrqDisables`), so that writing back an old reading can only enable too
much, and never too little. `LocalsOK` bounds what a copy is about to do.

The refinement of `Stream` needs to know what is in the rings, which `DataInv` says:
the bytes between the two indices are those the stream holds (`TxData`, `RxData`), also
in the midst of a copy, when some bytes are in place and the index has not moved yet, or
have been taken and the index has not followed (`HeldData`). The ring's contents are a
sequence defined by its indices (`ContentsSeq`); the lemmas `Filled`, `Emptied` and
`FrontByte` say what moving an index does to that sequence, for indices that wrap.

### ActiveObject
`PlacesInv`: a message in any place has been accepted by its put, so that the one about
to be put is nowhere yet, and no message is in the queue twice. That is enough for
`TypeOK`: no call is in the queue, in the system thread's hands or completed at the same
time (a task deleted by `task_complete()` is not run).

The refinement of `Service` needs the converse and the order. `OrderInv`: a call that was
accepted is in the queue, running or completed; a thread's calls lie in the queue in
the order in which it made them, and whatever it called before a call that runs or has
run is completed. `EventInv`: an event whose put is over is in the queue, handled or
dropped, and in one of these only. From these the states that `WorkOf` and `NoticeOf` read
off exclude each other (`Readable`), and a queue in order holds as many events as
it is long (`OrderedCounts`), so that an event is lost only when there is no room.

### MqttClient
`PingAccounted` and `InOrder` speak of a session that is up, and neither is inductive.

* `PlaceInv`: where the server thread is tells how far the connection is and what it has
  in the buffer: a ping is built only when none is outstanding, an oversized message does
  not stay.
* `NewInv`: a client that is not accepted has not subscribed, so that no message comes
  before `loop()` runs, although a torn buffer may pass for a CONNACK.
* `PingInv` is `PingAccounted` with what holds before: no ping and no answer to one is
  under way or spoilt until the session is up. That is why `connect()` may clear
  `pingOutstanding`, which nothing has initialised.
* `StreamInv` adds to `InOrder` the state in which it says nothing: when the network is
  lost or the session closed, the messages in the buffer, the socket and the TLS layer are
  still the next that `loop()` is to handle.
* `OnceInv` and `CallbackInv`: no message is expected twice, so the one that is handled
  was not handled before (`HandledOnce`), and whether it is spoilt says nothing about those
  that were. So `callbacks` stays what was handled without the spoilt ones.

The steps come down to three facts about sequences. `Reads`: `readPacket()` takes the
first packet of what has arrived, wherever it lies (the TLS layer's rest, or the first
record of the socket). `Delivers`: a delivery moves a beginning of what is under way to
the end of what has arrived, however it is cut into records. `Publishes`: a publication
adds the same to what is under way and to what is expected.

`Only` and the community modules' `FlattenSeq` are recursive functions. The library's
induction theorems take a predicate, which the provers cannot instantiate;
`InductionOnNat` and `SeqInduction` state induction about *sets* (a set of naturals that
holds 0 and with each number the next is `Nat`; the same for sequences and `Append`), and
follow from the library's theorem on finite sets that `LeastExists` (below) uses too. From them
come the existence of the two functions (`FilterExists`, `FlattenExists`), that their
values depend on the elements gone through alone (`FilterUnique`, `FlattenUnique`), and
what the steps need: `OnlyConcat`, `OnlyAgrees` (sets that agree on a sequence keep the same
of it), `FlattenAppend`, `FlattenFirst`. `SelectSeq` has its
recursion in a module that cannot be expanded; hence `Only`.

`GivesUpWithReason` completes the finding of `mqtt_keepalive` (section 4), which is a
counterexample on one clock: for every clock, a session is given up for silence, or the
main thread has stored `lastOutActivity` between `loop()`'s reading of the clock and its
comparison, and in no other case. `TimerInv` (nothing was received after the reading that
`loop()` works with) and the lemmas about `Elapsed` over a wrap carry it. It rests on the
bound `MaxAge`: the thread is not kept waiting for a whole turn of the clock.

For the proof `MessagesAssumption` had to say that `Messages` is a sequence.

### CanPoll
`FreshInv`: a poll has emptied the ring before it asks, and from then until it returns
only what the chip has sent since is in the ring, on the line or in a record.
`RequestInv` bounds the record `receive()` writes.

### Session
The property compares retained memory with the server, which no step touches
together. `Inv` joins them by way of the connection: the server is not ahead of it
(`ServerInv`), RAM lags behind it only between a write and the update that follows
(`NumbersInv`), and the copy agrees with RAM whenever RAM is to be saved (`CopyInv`,
`RamInv`). `RetainedInv` is what is left when a reset has thrown connection and RAM
away.

### ChunkedTransfer
* `BitmapInv` relates bitmap and image in a fast update: unless a chunk of another file
  came (`alien`), a chunk the bitmap tells of is in its place in the flash. In a slow one
  the bitmap tells of every chunk from the start, and order has to do its work: `OrderInv`
  says that the chunks below the device's index are in place and that the server goes on
  with the one that belongs there, although its message does not name it, and `ServerInv`
  and `ConInv` which message and which answer there can be.
* `AgreeInv`: once the server has had its answer to the begin, an update of a connected
  device is the one the server has offered last, and the descriptor is its. This is what
  keeps apart the updates of different files, fast and slow, that follow one another; a
  begin that came to nothing is over by then, or the server has given it up. With these
  `FinishedWhole` is inductive.
* `HasHoles` (in `BitmapInv`) keeps chunks missing as long as they are asked for one by
  one, unless the length is another file's, so that the end comes only when the last
  hole is filled.
* `RunningInv`: an update of a connected device is known to the system, whence
  `WatchdogArmed`. `AskedInv`: a second idle turn without a chunk is preceded by a request
  for those that are missing, whence `RepairAsks`. `SavesBelong` speaks of steps, and
  follows from the same invariant.

`send_missing_chunks()` takes the least and the greatest of a set of chunks.
`LeastExists` proves that such a set has a least element from the library's theorem that
the strict subset relation on finite sets is well-founded, without an induction.

### Dcd
`JobInv` says which sectors a job is about. `CounterInv`: two sealed and intact
sectors have neighbouring counters, the sector under construction is not valid before it
is sealed and is the successor of the one it is copied from: from this `CounterDecides`.
As long as no error was ignored (`ignored`, section 2), `PlaceInv` names at every step
the sector that holds the contents (`Governs`): intact and the successor of the other,
whatever a cut erase left of the other; or none was ever sealed (`Unsealed`). `DataInv`
says how much of the new sector is there. In the refinement the write of `Register` takes
effect in one step, when the new sector is sealed; power loss and errors are calls that
fail, with the contents as they were before or after that step, and the other steps of
the flash change nothing.

### CoapChannel
* `NetInv`: what a datagram says is true (`Truthful`): an acknowledgement under way
  names a request the server has had, and so on. `ClientInv` and `ServerInv` say what
  the entries of the stores stand for. From these `AcksAreHonest`.
* `MemoryInv`: a request that was handled is remembered for longer than it takes the
  last copy of it, on the network or still to be sent, to be lost (`OutlivesCopies`).
  This is where `ServerSpan + Lifetime < TransmitSpan` is needed, and why each request of
  the server is handled once in a connection. The proof found that the assumption
  did not say that `TransmitSpan` is a natural number; it now does.

`ExpiryIsExact` proves that `time_has_passed()` is right for every width of the clock,
provided the timeout is less than half a turn ahead and is looked at less than half a
turn late; it justifies counting ticks down in `CoapChannel`.

## 6. Model-checked only
* Liveness (`ServerServed`, `BodyRecurs`, `LossNoticed`, `LeftoverRead`, `PollReturns`,
  `RequestsConclude`, `SyncReturns`, `StaleNoticed`, `UpdateConcludes`, `CallsReturn` of
  `SerialPipe` and of `ActiveObject`) rests on fairness, which the prover does not treat.
  Every other property of a passing run is a theorem.
* The two violations are counterexamples of single instances, as they have to be.

## 7. Known limits of the models
* `MqttClient`: the context of the TLS library, which two threads use at a time, is taken to
  stand that; a broker that gets a garbled packet ignores it, or closes (`Lose`). That the
  TLS handshake ends (`MQTT-TLS.cpp:677`) is not true of the code, and no property says so.
* `CarT` has behaviours no document forbids and no property mentions: publishing
  before CONNECT is accepted, hello and subscription built without the mutex,
  a publication to a socket whose TLS has just been dropped.
* `CoapChannel` assumes that the server stops repeating a request, and the last
  copy is gone, before the device forgets it (`ServerSpan + Lifetime <
  TransmitSpan`); the server's code is not in the repository.
* An unanswered request of the server closes the session after the span
  (`message_timeout()`); this is modelled (`Fatal`), and no property judges it.
* Memory exhaustion (`INSUFFICIENT_STORAGE`) is not modelled.
* `receive_confirmations()` has no caller (`coap_channel.h:627`). The wait before sleep,
  `wait_confirmable()` (`dtls_protocol.cpp:57`), runs the event loop, which is modelled,
  until `has_unacknowledged_requests()`, which only reads, says that nothing is open.
* `CoapChannel` judges repetitions within one connection: over a session that is
  resumed the code does not remember (section 4).
* `Session`: a reset in the midst of the `memcpy` to retained memory is left out (a torn
  copy keeps its `size`), and so are other keys. Whether a single message arrives
  is the concern of `CoapChannel`. The server is taken to keep to DTLS: it accepts no
  record number twice. That subscriptions reach the cloud is not claimed, for the
  reasons given in section 4.
* `ChunkedTransfer`: the wait for the application in `prepare` (up to 30 s, in which
  other events run) is one step; the restart after an update may be delayed by the
  application and comes at any time or never; the application's chunk of a
  non-firmware store is saved like the firmware's. `UpdateConcludes` speaks of the
  connected device, not of what the application was told. Files are stored at one address
  in chunks of one size, and a begin without parameters (`:42`, a length of 0) is left out.
  A bit that is set behind the end of the bitmap writes into the buffer's neighbour, which
  is not modelled. A confirmable message the server has given up does not arrive later.
* `Dcd`: a watermark that fails to be programmed before a seal that is programmed
  well is left out of `CutShort`. Downgrading to version 1 while version 2's
  sectors are in use is not modelled, nor is the public `erase()`, which nothing
  calls. Bytes that decay in a sealed sector are not modelled.
* `SerialPipe`: one thread, which the modem's lock guarantees. The overrun branch of
  the handler is not taken: RTS keeps the modem from sending while the data
  register is full. `putc()` and `getc()` of the thread and the destructor are not
  used on this path. Reception has no liveness property, for the reason given in
  section 4.
* `ActiveObject` begins with both threads started and known to each other. The queue of
  interrupt tasks, which only USB requests use, and a failing allocation of a message
  are left out; so are the requests of the control channel, which are dropped without
  an answer when the queue is full (a FIXME in `system_control.cpp`).
* `TimeSyncManager` is two flags of the event loop and is not modelled;
  a lost TIME answer leaves `expectingResponse_` set until the next connection.

## 8. Plan
Models still open: completion handlers with their timeouts, the queue of interrupt
tasks, time synchronisation.

Not planned: sensors, SD card and AES wrappers (register and file access without
control of their own), LED patterns, console setup, Y-modem, power modes, the
wiring API, register-level HAL, bootloader, the legacy TCP protocol, and vendored
libraries (SdFat, ArduinoJson, Adafruit GPS, mbedtls, FreeRTOS).
