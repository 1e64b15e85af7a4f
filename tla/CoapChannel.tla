---------------------------- MODULE CoapChannel ----------------------------
(***************************************************************************)
(* CoAPReliableChannel (coap_channel.h, coap_channel.cpp) between the      *)
(* cloud protocol of the device and its DTLS channel, with the network and *)
(* the server around it.                                                   *)
(*                                                                         *)
(* The channel keeps two stores of CoAPMessages.  client holds the         *)
(* confirmable requests the device has sent, until they are acknowledged,  *)
(* reset or given up.  server holds the requests of the server, so that a  *)
(* repeated one is not handled twice, and later the answers, so that they  *)
(* can be sent again.  Ids of the two sides are chosen separately and may  *)
(* be equal.                                                               *)
(*                                                                         *)
(* An entry's timeout is kept as the ticks that are left to it: comparing  *)
(* wrapping 32 bit readings (CoapTime) amounts to that, as ExpiryIsExact   *)
(* of CoapChannel_proofs states.                                           *)
(***************************************************************************)
EXTENDS Naturals

CONSTANTS
  NumRequests,    \* bound: requests the device sends, numbered as message_id goes
  ServerIds,      \* ids the server gives to its requests
  AckTimeout,     \* ACK_TIMEOUT, in ticks
  MaxRetransmit,  \* MAX_RETRANSMIT
  TransmitSpan,   \* MAX_TRANSMIT_SPAN, in ticks
  ServerSpan,     \* ticks over which the server repeats a request
  Lifetime        \* ticks a datagram may spend on the network

Requests == 1 .. NumRequests
Ids      == Requests \cup ServerIds

ASSUME RequestsAssumption == NumRequests \in Nat /\ ServerIds \subseteq Nat \ {0}

ASSUME TimesAssumption ==
  /\ AckTimeout \in Nat \ {0} /\ MaxRetransmit \in Nat
  /\ ServerSpan \in Nat /\ Lifetime \in Nat
  /\ TransmitSpan \in Nat /\ ServerSpan + Lifetime < TransmitSpan

VARIABLES
  session,     \* the DTLS session is there (MBEDTLS_SSL_HANDSHAKE_OVER)
  client,      \* the store of the device's requests
  server,      \* the store of the server's requests and their answers
  message_id,  \* the id last given to a request
  waiting,     \* the request send_synchronous() waits for, or 0
  request,     \* the server's request the application is handling, or 0
  net,         \* datagrams on the network
  peer,        \* the server's requests: "new", "sent", "answered", and their age
  peerGot,     \* requests of the device the server has got
  outcome,     \* history: what became of each request of the device
  handled,     \* history: how often each request was handled since establish()
  seen         \* history: the requests handled in the present DTLS session

stores  == <<client, server>>
app     == <<message_id, waiting, request>>
world   == <<peer, peerGot>>
history == <<outcome, handled, seen>>
vars    == <<session, stores, app, net, world, history>>

Packet(to, type, id) == [to |-> to, type |-> type, id |-> id, age |-> 0]

-----------------------------------------------------------------------------
(* CoAPMessageStore: a set of entries, one for each id at most.            *)

\* from_id()
Known(store, id) == \E e \in store : e.id = id

\* clear_message()
Without(store, id) == {e \in store : e.id # id}

\* add(): takes the place of an entry with the same id.
Add(store, e) == Without(store, e.id) \cup {e}

\* transmit_timeout(): the random part is nothing or nearly one half.
Timeout(count, rand) ==
  LET base == AckTimeout * 2 ^ count IN base + (rand * base) \div 2

\* send() of a confirmable request: prepare_retransmit() for the first time.
Sending(id, rand) == [id |-> id, type |-> "con", left |-> Timeout(0, rand), count |-> 1]

\* set_expiration(): never to be sent by process().
Keeping(id, type) ==
  [id |-> id, type |-> type, left |-> TransmitSpan, count |-> MaxRetransmit + 2]

\* time_has_passed()
Due(store) == {e \in store : e.left = 0}

\* prepare_retransmit() is true.
Resent(store) == {e \in Due(store) : e.type = "con" /\ e.count <= MaxRetransmit}

Dropped(store) == Due(store) \ Resent(store)

\* message_timeout() closes the session for a request, of either side.
Fatal(store) == {e \in Dropped(store) : e.type = "con"}

\* process() goes from the newest entry to the oldest; nothing is sent by a
\* closed session.
ProcessSends(store) == {e \in Resent(store) : \A x \in Fatal(store) : x.id < e.id}

\* Mutant: the transmissions are not counted.
ProcessedUncounted(store, rand) ==
  (store \ Due(store)) \cup
    {[e EXCEPT !.left = Timeout(e.count, rand[e.id])] : e \in Resent(store)}

Processed(store, rand) ==
  (store \ Due(store)) \cup
    {[e EXCEPT !.left = Timeout(e.count, rand[e.id]), !.count = @ + 1] : e \in Resent(store)}

IdsOf(entries) == {e.id : e \in entries}

\* rand(), for each entry that process() sends again.
Rand(store) == [IdsOf(Resent(store)) -> {0, 1}]

\* Outcomes after the requests of the given ids have ended in the given way.
Ended(outcomes, ids, how) ==
  [m \in Requests |-> IF m \in ids /\ outcomes[m] = "pending" THEN how ELSE outcomes[m]]

-----------------------------------------------------------------------------
(* The application's side: send() and what its handlers do.                *)

\* send() of a CON, to be repeated by process().
Send ==
  /\ waiting = 0 /\ message_id < NumRequests
  /\ message_id' = message_id + 1
  /\ \E rand \in {0, 1} : client' = Add(client, Sending(message_id', rand))
  /\ net' = IF session THEN net \cup {Packet("server", "con", message_id')} ELSE net
  /\ outcome' = [outcome EXCEPT ![message_id'] = "pending"]
  /\ UNCHANGED <<session, server, waiting, request, world, handled, seen>>

\* send() of a CON with confirm_received: send_synchronous() up to its loop, to
\* which it does not come when the session is closed.
SendSynchronous ==
  /\ waiting = 0 /\ message_id < NumRequests
  /\ message_id' = message_id + 1
  /\ \/ /\ session
        /\ \E rand \in {0, 1} : client' = Add(client, Sending(message_id', rand))
        /\ net' = net \cup {Packet("server", "con", message_id')}
        /\ outcome' = [outcome EXCEPT ![message_id'] = "pending"]
        /\ waiting' = message_id'
     \/ /\ ~session
        /\ outcome' = [outcome EXCEPT ![message_id'] = "failed"]
        /\ UNCHANGED <<client, net, waiting>>
  /\ UNCHANGED <<session, server, request, world, handled, seen>>

\* send() of an ACK: it takes the place of the request in the store.
Reply ==
  /\ waiting = 0 /\ request # 0
  /\ server' = Add(server, Keeping(request, "ack"))
  /\ net' = IF session THEN net \cup {Packet("server", "ack", request)} ELSE net
  /\ request' = 0
  /\ UNCHANGED <<session, client, message_id, waiting, world, history>>

-----------------------------------------------------------------------------
(* process(), after a datagram has been looked at: up says whether the     *)
(* session is still there, datagrams is the network, concluded the         *)
(* outcomes that came with the datagram.                                   *)

ProcessClient(store, up, datagrams, concluded) ==
  /\ \E rand \in Rand(store) : client' = Processed(store, rand)
  /\ net' = datagrams \cup
       {Packet("server", "con", e.id) : e \in IF up THEN ProcessSends(store) ELSE {}}
  /\ outcome' = Ended(concluded, IdsOf(Dropped(store)), "failed")

ProcessBoth(c, s, up, datagrams, concluded) ==
  /\ ProcessClient(c, up, datagrams, concluded)
  /\ \E rand \in Rand(s) : server' = Processed(s, rand)
  /\ session' = (up /\ Fatal(c) = {} /\ Fatal(s) = {})

\* What an ACK or RESET does to the outcomes.
Acknowledged(p) == Ended(outcome, {p.id}, IF p.type = "ack" THEN "acked" ELSE "failed")

-----------------------------------------------------------------------------
(* receive(): one datagram or none, then process() of both stores.         *)

\* Nothing has come, or the session is closed (INVALID_STATE).
ReceiveNothing ==
  /\ waiting = 0
  /\ request' = 0
  /\ ProcessBoth(client, server, session, net, outcome)
  /\ UNCHANGED <<message_id, waiting, world, handled, seen>>

\* Mutant: one store for both sides, in which equal ids meet.
ReceiveAckOfAnyKind(p) ==
  /\ waiting = 0 /\ session
  /\ p \in net /\ p.to = "device"
  /\ request' = 0
  /\ ProcessBoth(Without(client, p.id), server, p.type # "reset", net \ {p},
                 Ended(outcome, {p.id}, IF p.type = "reset" THEN "failed" ELSE "acked"))
  /\ UNCHANGED <<message_id, waiting, world, handled, seen>>

\* An ACK or RESET ends a request of the device; a RESET discards the session.
ReceiveAck(p) ==
  /\ waiting = 0 /\ session
  /\ p \in net /\ p.to = "device" /\ p.type \in {"ack", "reset"}
  /\ request' = 0
  /\ ProcessBoth(Without(client, p.id), server, p.type = "ack", net \ {p}, Acknowledged(p))
  /\ UNCHANGED <<message_id, waiting, world, handled, seen>>

\* Counted no further than two.
Counted(count, id) == [count EXCEPT ![id] = IF @ = 2 THEN 2 ELSE @ + 1]

\* A request of the server that is new is passed on and remembered.
ReceiveRequest(p) ==
  /\ waiting = 0 /\ session
  /\ p \in net /\ p.to = "device" /\ p.type = "con"
  /\ ~Known(server, p.id)
  /\ request' = p.id
  /\ handled' = Counted(handled, p.id)
  /\ seen' = seen \cup {p.id}
  /\ ProcessBoth(client, Add(server, Keeping(p.id, "con")), TRUE, net \ {p}, outcome)
  /\ UNCHANGED <<message_id, waiting, world>>

\* A repeated one is answered from the store, or dropped when it has no answer.
ReceiveRepeated(p) ==
  /\ waiting = 0 /\ session
  /\ p \in net /\ p.to = "device" /\ p.type = "con"
  /\ Known(server, p.id)
  /\ request' = 0
  /\ LET answers == {e \in server : e.id = p.id /\ e.type = "ack"} IN
     ProcessBoth(client, server, TRUE,
                 (net \ {p}) \cup {Packet("server", "ack", e.id) : e \in answers}, outcome)
  /\ UNCHANGED <<message_id, waiting, world, handled, seen>>

Receive == \/ ReceiveNothing
           \/ \E p \in net : ReceiveAck(p) \/ ReceiveRequest(p) \/ ReceiveRepeated(p)

-----------------------------------------------------------------------------
(* The loop of send_synchronous(), which serves the client store alone.    *)

\* Mutant: nothing is sent again, or given up, while it waits.
SyncTurnIdle(store, up, datagrams, concluded) ==
  LET over == ~session \/ ~Known(store, waiting)
  IN /\ client' = IF over THEN Without(store, waiting) ELSE store
     /\ net' = datagrams
     /\ outcome' = Ended(concluded, IF session THEN {} ELSE {waiting}, "failed")
     /\ session' = up
     /\ waiting' = IF over THEN 0 ELSE waiting
     /\ UNCHANGED <<server, message_id, request, world, handled, seen>>

\* One turn.  It is the last one when receive() failed because the session is
\* closed, or when the request has left the store; then clear_message().
SyncTurn(store, up, datagrams, concluded) ==
  LET over == ~session \/ ~Known(store, waiting) \/ waiting \in IdsOf(Dropped(store))
  IN /\ \E rand \in Rand(store) :
          client' = LET rest == Processed(store, rand)
                    IN IF over THEN Without(rest, waiting) ELSE rest
     /\ net' = datagrams \cup
          {Packet("server", "con", e.id) : e \in IF up THEN ProcessSends(store) ELSE {}}
     /\ outcome' = Ended(concluded, IdsOf(Dropped(store)) \cup IF session THEN {} ELSE {waiting},
                         "failed")
     /\ session' = (up /\ Fatal(store) = {})
     /\ waiting' = IF over THEN 0 ELSE waiting
     /\ UNCHANGED <<server, message_id, request, world, handled, seen>>

SyncNothing ==
  /\ waiting # 0
  /\ SyncTurn(client, session, net, outcome)

\* The answer to another request ends that request too, and nobody sees it.
SyncAck(p) ==
  /\ waiting # 0 /\ session
  /\ p \in net /\ p.to = "device" /\ p.type \in {"ack", "reset"}
  /\ SyncTurn(Without(client, p.id), p.type = "ack", net \ {p}, Acknowledged(p))

\* "drop CON messages on the floor since we cannot handle them now"
SyncRequest(p) ==
  /\ waiting # 0 /\ session
  /\ p \in net /\ p.to = "device" /\ p.type = "con"
  /\ SyncTurn(client, TRUE, net \ {p}, outcome)

Synchronous == \/ SyncNothing
               \/ \E p \in net : SyncAck(p) \/ SyncRequest(p)

-----------------------------------------------------------------------------
(* Connections.                                                            *)

\* A DTLS error or a close of the other side.
SessionLost ==
  /\ session /\ session' = FALSE
  /\ UNCHANGED <<stores, app, net, world, history>>

\* establish(), clearing both stores; the records and requests of the old
\* session mean nothing in the new one.
Establish ==
  /\ ~session /\ waiting = 0
  /\ session' = TRUE
  /\ client' = {} /\ server' = {} /\ net' = {} /\ request' = 0
  /\ peer' = [r \in ServerIds |-> [state |-> "new", age |-> 0]]
  /\ outcome' = Ended(outcome, Requests, "failed")
  /\ handled' = [r \in ServerIds |-> 0]
  /\ seen' = {}
  /\ UNCHANGED <<message_id, waiting, peerGot>>

\* Mutant: client.clear() is forgotten.
ResumeKeepsClient ==
  /\ session /\ waiting = 0
  /\ server' = {} /\ request' = 0
  /\ handled' = [r \in ServerIds |-> 0]
  /\ UNCHANGED <<session, client, message_id, waiting, net, world, outcome, seen>>

\* establish() that resumes the session, after a disconnection: both stores are
\* cleared all the same.
Resume ==
  /\ session /\ waiting = 0
  /\ client' = {} /\ server' = {} /\ request' = 0
  /\ outcome' = Ended(outcome, Requests, "failed")
  /\ handled' = [r \in ServerIds |-> 0]
  /\ UNCHANGED <<session, message_id, waiting, net, world, seen>>

-----------------------------------------------------------------------------
(* The clock, the network and the server.                                  *)

CountDown(store) == {[e EXCEPT !.left = IF @ = 0 THEN 0 ELSE @ - 1] : e \in store}

\* Mutant: time goes on below nothing.
TickOn ==
  /\ client' = {[e EXCEPT !.left = @ - 1] : e \in client}
  /\ server' = CountDown(server)
  /\ net' = {[p EXCEPT !.age = @ + 1] : p \in {q \in net : q.age < Lifetime}}
  /\ peer' = [r \in ServerIds |->
       IF peer[r].state = "sent" /\ peer[r].age <= ServerSpan
       THEN [peer[r] EXCEPT !.age = @ + 1] ELSE peer[r]]
  /\ UNCHANGED <<session, app, peerGot, history>>

\* A datagram that has not been read in its time is lost.
Tick ==
  /\ client' = CountDown(client)
  /\ server' = CountDown(server)
  /\ net' = {[p EXCEPT !.age = @ + 1] : p \in {q \in net : q.age < Lifetime}}
  /\ peer' = [r \in ServerIds |->
       IF peer[r].state = "sent" /\ peer[r].age <= ServerSpan
       THEN [peer[r] EXCEPT !.age = @ + 1] ELSE peer[r]]
  /\ UNCHANGED <<session, app, peerGot, history>>

ServerSend(r) ==
  /\ session
  /\ \/ peer[r].state = "new"
     \/ peer[r].state = "sent" /\ peer[r].age <= ServerSpan
  /\ peer' = [peer EXCEPT ![r].state = "sent"]
  /\ net' = net \cup {Packet("device", "con", r)}
  /\ UNCHANGED <<session, stores, app, peerGot, history>>

\* It acknowledges every copy of a request, or resets what it cannot accept.
ServerReceive(p) ==
  /\ p \in net /\ p.to = "server"
  /\ \/ /\ p.type = "ack"
        /\ peer' = [peer EXCEPT ![p.id].state = "answered"]
        /\ net' = net \ {p}
        /\ UNCHANGED peerGot
     \/ /\ p.type = "con"
        /\ peerGot' = peerGot \cup {p.id}
        /\ \E type \in {"ack", "reset"} : net' = (net \ {p}) \cup {Packet("device", type, p.id)}
        /\ UNCHANGED peer
  /\ UNCHANGED <<session, stores, app, history>>

-----------------------------------------------------------------------------
Init ==
  /\ session = TRUE /\ client = {} /\ server = {}
  /\ message_id = 0 /\ waiting = 0 /\ request = 0
  /\ net = {} /\ peerGot = {}
  /\ peer = [r \in ServerIds |-> [state |-> "new", age |-> 0]]
  /\ outcome = [m \in Requests |-> "none"]
  /\ handled = [r \in ServerIds |-> 0] /\ seen = {}

Application == Send \/ SendSynchronous \/ Reply
EventLoop   == Receive \/ Synchronous
Connection  == SessionLost \/ Establish \/ Resume
Server      == (\E r \in ServerIds : ServerSend(r)) \/ (\E p \in net : ServerReceive(p))

Next == Application \/ EventLoop \/ Connection \/ Tick \/ Server

(* The system thread runs the event loop, or the loop of a synchronous     *)
(* send, for ever, and the clock goes on.  Nothing is assumed of the       *)
(* network, the server, or of a new connection coming about.               *)
Fairness == WF_vars(EventLoop) /\ WF_vars(Tick)

Spec == Init /\ [][Next]_vars /\ Fairness

-----------------------------------------------------------------------------
(* Properties                                                              *)

Entries == [id : Ids, type : {"con", "ack"}, left : Nat, count : 1 .. MaxRetransmit + 2]

Packets == [to : {"device", "server"}, type : {"con", "ack", "reset"}, id : Ids, age : 0 .. Lifetime]

TypeOK ==
  /\ session \in BOOLEAN
  /\ client \subseteq Entries /\ server \subseteq Entries
  /\ message_id \in 0 .. NumRequests
  /\ waiting \in Requests \cup {0} /\ request \in ServerIds \cup {0}
  /\ net \subseteq Packets
  /\ peer \in [ServerIds -> [state : {"new", "sent", "answered"}, age : 0 .. ServerSpan + 1]]
  /\ peerGot \subseteq Requests
  /\ outcome \in [Requests -> {"none", "pending", "acked", "failed"}]
  /\ handled \in [ServerIds -> 0 .. 2] /\ seen \subseteq ServerIds

(* Nobody is told a lie: a request is reported acknowledged only when the  *)
(* server has got it, and the server sees an answer only to a request the  *)
(* application has handled, although the ids of the two sides are equal.   *)
AcksAreHonest ==
  /\ \A m \in Requests : outcome[m] = "acked" => m \in peerGot
  /\ \A r \in ServerIds : peer[r].state = "answered" => r \in seen

\* The promise of module Exchange, read off the channel.
PromisedExchange == INSTANCE Exchange WITH
  Ours <- Requests, Theirs <- ServerIds,
  asked <- outcome, arrived <- peerGot, served <- handled

(* The stores and timers implement the abstract exchange: one conclusion   *)
(* for each request, "a repeated confirmable CoAP message is passed only    *)
(* once to the application", for as long as the connection lasts.          *)
ExchangeImplemented == PromisedExchange!ExchangeSpec

(* Every request comes to an end, answered or given up, while the session  *)
(* lasts.                                                                  *)
RequestsConclude ==
  \A m \in Requests : outcome[m] = "pending" ~> outcome[m] # "pending" \/ ~session

(* A synchronous send comes back, whatever the network does and whatever   *)
(* else arrives meanwhile.                                                 *)
SyncReturns == waiting # 0 ~> waiting = 0
=============================================================================
