----------------------------- MODULE MqttClient -----------------------------
(***************************************************************************)
(* The MQTT client of the telematics unit (MQTT-TLS.cpp) as the server     *)
(* thread drives it, with the network and the broker around it.            *)
(*                                                                         *)
(* Three things make it hard.  Its keep-alive compares unsigned readings   *)
(* of millis() that two threads write: the clock here wraps like the real  *)
(* one, at ClockSize instead of 2^32.  loop() asks the socket whether      *)
(* there is something to read, while a TLS record that carries several     *)
(* packets leaves all but the first in the TLS layer, where the socket     *)
(* does not see them.  And every packet, read or written, lies in the one  *)
(* buffer of the client, where publish() of the main thread builds its own *)
(* without regard to what the server thread has there: what the server     *)
(* thread builds or reads in one step it sends or handles in another.      *)
(***************************************************************************)
EXTENDS Naturals, Sequences, SequencesExt

CONSTANTS
  ClockSize,   \* millis() counts modulo this
  KeepAlive,   \* the keep-alive interval, in ticks of the clock
  MaxAge,      \* bound: ticks that may pass before the thread is scheduled
  Messages,    \* the messages the broker publishes to the unit, in order
  Kind         \* of each of them: "qos0", "qos1" or "oversized"

ASSUME ClockAssumption ==
  /\ ClockSize \in Nat /\ KeepAlive \in Nat /\ MaxAge \in Nat
  /\ KeepAlive < MaxAge /\ MaxAge + KeepAlive < ClockSize

Control == {"connect", "subscribe", "pingreq", "puback", "disconnect", "garbled"}
Answer  == {"connack", "refused", "suback", "pingresp"}
Publish == Range(Messages)
Packets == Publish \cup Answer

ASSUME MessagesAssumption ==
  /\ Messages \in Seq(Publish) /\ IsInjective(Messages) /\ Publish \cap Answer = {}
  /\ Kind \in [Publish -> {"qos0", "qos1", "oversized"}]

VARIABLES
  pc,               \* where the server thread is in the client
  link,             \* "none", "tls" (handshake done), "up" or "closed"
  now,              \* millis()
  t,                \* loop()'s local copy of it
  lastInActivity,
  lastOutActivity,
  pingOutstanding,
  buffer,           \* what the server thread has in the client's buffer, or "none"
  torn,             \* a publication has been written over it since
  tcpIn,            \* TLS records in the socket, each a sequence of packets
  cut,              \* the socket holds the beginning of a record that was cut off
  tlsIn,            \* packets of the last record not read yet
  dispatched,       \* history: the messages that fit which loop() came to handle
  callbacks,        \* history: those of them given to callback() as they came
  spoilt,           \* history: those of them a publication was written over before
  pingSpoilt,       \* history: a publication was written over a ping or its answer
  net,              \* "open" or "lost"
  toBroker,         \* packets the broker has not read
  fromBroker,       \* packets the broker has not put on the network
  published,        \* how many of Messages the broker has published
  served            \* "new", "refused" or "subscribed": the client, to the broker

timers  == <<t, lastInActivity, lastOutActivity, pingOutstanding>>
held    == <<buffer, torn>>
inbound == <<tcpIn, cut, tlsIn>>
history == <<dispatched, callbacks, spoilt, pingSpoilt>>
broker  == <<fromBroker, published, served>>
vars    == <<pc, link, now, timers, held, inbound, history, net, toBroker, broker>>

Clock == 0 .. ClockSize - 1

\* Mutant: a difference that saturates instead of wrapping.
Clipped(later, earlier) == IF later >= earlier THEN later - earlier ELSE 0

\* later - earlier on unsigned long.
Elapsed(later, earlier) == (later + ClockSize - earlier) % ClockSize

IsConnected == link \in {"tls", "up"}

\* The server thread puts a packet into the buffer, or is done with the one there.
Fill(p) == buffer' = p /\ torn' = FALSE
Done == Fill("none")

\* netWrite() of what is in the buffer: garbled, if it is torn, unless the bytes
\* written over are not its own.  The result is ignored, and a lost network
\* swallows the packet.
Write(p) ==
  /\ \/ p = buffer
     \/ torn /\ p = "garbled"
  /\ toBroker' = IF net = "open" THEN Append(toBroker, p) ELSE toBroker

\* MQTT::disconnect(): the frame, whatever has become of it, is the last one;
\* then TLS and the socket go, with what they hold.
Disconnect ==
  /\ toBroker' = IF net = "open" THEN Append(toBroker, "disconnect") ELSE toBroker
  /\ link' = "closed"
  /\ tcpIn' = <<>> /\ cut' = FALSE /\ tlsIn' = <<>>
  /\ lastInActivity' = now /\ lastOutActivity' = now
  /\ Done

-----------------------------------------------------------------------------
(* readPacket().                                                           *)

\* Mutant: the rest of the record is thrown away with the packet read.
ReadPacketAlone(p) ==
  \/ /\ tlsIn # <<>>
     /\ p = Head(tlsIn)
     /\ tlsIn' = <<>> /\ UNCHANGED tcpIn
  \/ /\ tlsIn = <<>> /\ tcpIn # <<>>
     /\ p = Head(Head(tcpIn))
     /\ tlsIn' = <<>> /\ tcpIn' = Tail(tcpIn)

\* The TLS layer's rest first, then the next record of the socket.  How far to
\* read is in local variables, out of reach of a publication.
ReadPacket(p) ==
  \/ /\ tlsIn # <<>>
     /\ p = Head(tlsIn)
     /\ tlsIn' = Tail(tlsIn) /\ UNCHANGED tcpIn
  \/ /\ tlsIn = <<>> /\ tcpIn # <<>>
     /\ p = Head(Head(tcpIn))
     /\ tlsIn' = Tail(Head(tcpIn)) /\ tcpIn' = Tail(tcpIn)

-----------------------------------------------------------------------------
(* connect() and the two requests of server_thread_function().             *)

\* TCP connect and TLS handshake; CONNECT is built.
Dial ==
  /\ pc = "dial"
  /\ \/ pc' = "send" /\ link' = "tls" /\ Fill("connect")
     \/ pc' = "idle" /\ link' = "closed" /\ UNCHANGED held
     \/ pc' = "hang"      \* handShakeTls() waits for a silent peer without end
        /\ UNCHANGED <<link, held>>
  /\ lastInActivity' = now /\ lastOutActivity' = now
  /\ UNCHANGED <<now, t, pingOutstanding, inbound, history, net, toBroker, broker>>

Sending(p) == pc = "send" /\ buffer = p /\ Done

SendConnect ==
  /\ Sending("connect")
  /\ \E p \in Control : Write(p)
  /\ pc' = "connack"
  /\ lastInActivity' = now /\ lastOutActivity' = now
  /\ UNCHANGED <<link, now, t, pingOutstanding, inbound, history, net, broker>>

\* The broker's answer to CONNECT is read, ...
Connack ==
  /\ pc = "connack" /\ tcpIn # <<>>
  /\ \E p \in Packets : ReadPacket(p) /\ Fill(p)
  /\ pc' = "verdict"
  /\ UNCHANGED <<link, now, timers, cut, history, net, toBroker, broker>>

\* ... and judged by what the buffer holds then: publish() clears its first
\* bytes, among them the return code, and puts its own header there.
Accepted == buffer = "connack" \/ torn
Refused  == buffer # "connack" \/ torn

\* Mutant: pingOutstanding keeps the value it had before the connection.
AcceptKeepsPing ==
  /\ pc = "verdict" /\ Accepted
  /\ pc' = "send" /\ link' = "up"
  /\ Fill("subscribe")
  /\ lastInActivity' = now /\ lastOutActivity' = now
  /\ UNCHANGED <<now, t, pingOutstanding, inbound, history, net, toBroker, broker>>

\* connect() returns; then hello (of no consequence), and SUBSCRIBE is built.
Accept ==
  /\ pc = "verdict" /\ Accepted
  /\ pc' = "send" /\ link' = "up"
  /\ Fill("subscribe")
  /\ lastInActivity' = now /\ lastOutActivity' = now
  /\ pingOutstanding' = FALSE
  /\ UNCHANGED <<now, t, inbound, history, net, toBroker, broker>>

Refuse ==
  /\ pc = "verdict" /\ Refused
  /\ pc' = "idle"
  /\ Disconnect
  /\ UNCHANGED <<now, t, pingOutstanding, history, net, broker>>

SendSubscribe ==
  /\ Sending("subscribe")
  /\ \E p \in Control : Write(p)
  /\ pc' = "idle"
  /\ lastOutActivity' = now
  /\ UNCHANGED <<link, now, t, lastInActivity, pingOutstanding, inbound, history, net, broker>>

\* while (!available()) ends after the keep-alive interval.
ConnackTimeout ==
  /\ pc = "connack" /\ tcpIn = <<>> /\ ~cut
  /\ Elapsed(now, lastInActivity) > KeepAlive
  /\ pc' = "idle"
  /\ Disconnect
  /\ UNCHANGED <<now, t, pingOutstanding, history, net, broker>>

-----------------------------------------------------------------------------
(* loop().                                                                 *)

LoopBegin ==
  /\ pc = "idle" /\ IsConnected
  /\ pc' = "timers"
  /\ t' = now
  /\ UNCHANGED <<link, now, lastInActivity, lastOutActivity, pingOutstanding, held,
                 inbound, history, net, toBroker, broker>>

\* Without a connection loop() is not called, and the thread only polls.
PollClosed == pc = "idle" /\ ~IsConnected /\ UNCHANGED vars

\* Mutant: both directions must be idle before anything is done.
ExpiredBoth == /\ Elapsed(t, lastInActivity) > KeepAlive
               /\ Elapsed(t, lastOutActivity) > KeepAlive

Expired == \/ Elapsed(t, lastInActivity) > KeepAlive
           \/ Elapsed(t, lastOutActivity) > KeepAlive

\* PINGREQ is built.
Ping ==
  /\ pc = "timers" /\ Expired /\ ~pingOutstanding
  /\ pc' = "send"
  /\ Fill("pingreq")
  /\ UNCHANGED <<link, now, timers, inbound, history, net, toBroker, broker>>

SendPing ==
  /\ Sending("pingreq")
  /\ \E p \in Control : Write(p) /\ pingSpoilt' = (p # "pingreq")
  /\ pc' = "receive"
  /\ lastOutActivity' = t /\ lastInActivity' = t
  /\ pingOutstanding' = TRUE
  /\ UNCHANGED <<link, now, t, inbound, dispatched, callbacks, spoilt, net, broker>>

GiveUp ==
  /\ pc = "timers" /\ Expired /\ pingOutstanding
  /\ pc' = "idle"
  /\ Disconnect
  /\ UNCHANGED <<now, t, pingOutstanding, history, net, broker>>

NotExpired ==
  /\ pc = "timers" /\ ~Expired
  /\ pc' = "receive"
  /\ UNCHANGED <<link, now, timers, held, inbound, history, net, toBroker, broker>>

\* available() asks the socket, not the TLS layer.
NothingAvailable ==
  /\ pc = "receive" /\ tcpIn = <<>> /\ ~cut
  /\ pc' = "idle"
  /\ UNCHANGED <<link, now, timers, held, inbound, history, net, toBroker, broker>>

Oversized(p) == p \in Publish /\ Kind[p] = "oversized"

\* One packet is read; an oversized one is forgotten.
Receive ==
  /\ pc = "receive" /\ (tcpIn # <<>> \/ cut)
  /\ \E p \in Packets :
       /\ ReadPacket(p)
       /\ IF Oversized(p) THEN pc' = "idle" /\ UNCHANGED held
                          ELSE pc' = "dispatch" /\ Fill(p)
  /\ UNCHANGED <<link, now, timers, cut, history, net, toBroker, broker>>

\* A message: given to callback(), and PUBACK is built for QoS 1.  One that is
\* torn lost its type, its QoS or part of its text; callback() is not called, or
\* gets what is there.
DispatchMessage ==
  /\ pc = "dispatch" /\ buffer \in Publish
  /\ lastInActivity' = t
  /\ dispatched' = Append(dispatched, buffer)
  /\ \/ ~torn /\ callbacks' = Append(callbacks, buffer) /\ UNCHANGED spoilt
     \/ torn /\ spoilt' = spoilt \cup {buffer} /\ UNCHANGED callbacks
  /\ \/ Kind[buffer] = "qos1" /\ pc' = "send" /\ Fill("puback")
     \/ (Kind[buffer] # "qos1" \/ torn) /\ pc' = "idle" /\ Done
  /\ UNCHANGED <<link, now, t, lastOutActivity, pingOutstanding, inbound, pingSpoilt,
                 net, toBroker, broker>>

SendPuback ==
  /\ Sending("puback")
  /\ \E p \in Control : Write(p)
  /\ pc' = "idle"
  /\ lastOutActivity' = t
  /\ UNCHANGED <<link, now, t, lastInActivity, pingOutstanding, inbound, history, net, broker>>

\* Anything else, of which only PINGRESP matters, if it is still one.  The broker
\* sends no PINGREQ.
DispatchAnswer ==
  /\ pc = "dispatch" /\ buffer \notin Publish
  /\ pc' = "idle" /\ Done
  /\ lastInActivity' = t
  /\ \/ /\ pingOutstanding' = (pingOutstanding /\ buffer # "pingresp")
        /\ UNCHANGED pingSpoilt
     \/ /\ torn
        /\ pingSpoilt' = (pingSpoilt \/ buffer = "pingresp")
        /\ UNCHANGED pingOutstanding
  /\ UNCHANGED <<link, now, t, lastOutActivity, inbound, dispatched, callbacks, spoilt,
                 net, toBroker, broker>>

\* The record in the socket is cut off: readByte() waits for a rest that never
\* comes, on the dead socket or, after disconnect() in readByte(), on the stopped one.
ReceiveCut ==
  /\ pc \in {"connack", "receive"} /\ cut /\ tcpIn = <<>> /\ tlsIn = <<>>
  /\ pc' = "hang"
  /\ \/ Disconnect
     \/ UNCHANGED <<toBroker, link, held, inbound, lastInActivity, lastOutActivity>>
  /\ UNCHANGED <<now, t, pingOutstanding, history, net, broker>>

Spin == pc = "hang" /\ UNCHANGED vars

-----------------------------------------------------------------------------
(* The main thread, the clock, the network and the broker.                 *)

\* A step of publish() of the main thread, at any point of what the server
\* thread does: memset(), the copying and write() go over what is in the buffer,
\* and write() sets lastOutActivity at the end.  Its own packet, and what the
\* server thread may have written into that, mean nothing to the session.
MainPublish ==
  /\ IsConnected
  /\ \/ buffer # "none" /\ torn' = TRUE /\ UNCHANGED lastOutActivity
     \/ lastOutActivity' = now /\ UNCHANGED torn
  /\ UNCHANGED <<pc, link, now, t, lastInActivity, pingOutstanding, buffer, inbound,
                 history, net, toBroker, broker>>

\* Mutant: a clock that is never cut to its width.
TickOn ==
  /\ IsConnected
  /\ Elapsed(now, lastInActivity) < MaxAge
  /\ Elapsed(now, lastOutActivity) < MaxAge
  /\ now' = now + 1
  /\ UNCHANGED <<pc, link, timers, held, inbound, history, net, toBroker, broker>>

Tick ==
  /\ IsConnected
  /\ Elapsed(now, lastInActivity) < MaxAge
  /\ Elapsed(now, lastOutActivity) < MaxAge
  /\ now' = (now + 1) % ClockSize
  /\ UNCHANGED <<pc, link, timers, held, inbound, history, net, toBroker, broker>>

\* Records put on the network are made of one or two packets.
Deliver ==
  /\ net = "open" /\ link # "closed" /\ fromBroker # <<>>
  /\ \E n \in 1..2 :
       /\ n <= Len(fromBroker)
       /\ tcpIn' = Append(tcpIn, SubSeq(fromBroker, 1, n))
       /\ fromBroker' = SubSeq(fromBroker, n + 1, Len(fromBroker))
  /\ UNCHANGED <<pc, link, now, timers, held, cut, tlsIn, history, net, toBroker,
                 published, served>>

\* The connection dies; what has arrived stays, perhaps with part of a record.
Lose ==
  /\ net = "open" /\ link # "none"
  /\ net' = "lost"
  /\ cut' \in {FALSE, fromBroker # <<>>}
  /\ toBroker' = <<>> /\ fromBroker' = <<>>
  /\ UNCHANGED <<pc, link, now, timers, held, tcpIn, tlsIn, history, published, served>>

Reply(request) == CASE request = "connect"   -> {<<"connack">>, <<"refused">>}
                    [] request = "subscribe" -> {<<"suback">>}
                    [] request = "pingreq"   -> {<<"pingresp">>}
                    [] OTHER                 -> {<<>>}

\* From a client it has refused the broker reads no further.
BrokerReply ==
  /\ toBroker # <<>> /\ served # "refused"
  /\ toBroker' = Tail(toBroker)
  /\ \E reply \in Reply(Head(toBroker)) :
       /\ fromBroker' = fromBroker \o reply
       /\ served' = CASE reply = <<"refused">> -> "refused"
                      [] reply = <<"suback">>  -> "subscribed"
                      [] OTHER                 -> served
  /\ UNCHANGED <<pc, link, now, timers, held, inbound, history, net, published>>

\* Publications follow a subscription.
BrokerPublish ==
  /\ net = "open" /\ link # "closed" /\ served = "subscribed"
  /\ published < Len(Messages)
  /\ published' = published + 1
  /\ fromBroker' = Append(fromBroker, Messages[published'])
  /\ UNCHANGED <<pc, link, now, timers, held, inbound, history, net, toBroker, served>>

-----------------------------------------------------------------------------
Init ==
  /\ pc = "dial" /\ link = "none"
  /\ now \in Clock /\ t = now
  /\ lastInActivity = now /\ lastOutActivity = now
  /\ pingOutstanding \in BOOLEAN        \* never initialised before connect()
  /\ buffer = "none" /\ torn = FALSE
  /\ tcpIn = <<>> /\ cut = FALSE /\ tlsIn = <<>>
  /\ dispatched = <<>> /\ callbacks = <<>> /\ spoilt = {} /\ pingSpoilt = FALSE
  /\ net = "open" /\ toBroker = <<>> /\ fromBroker = <<>> /\ published = 0
  /\ served = "new"

Connect == Dial \/ SendConnect \/ Connack \/ Accept \/ Refuse \/ SendSubscribe \/ ConnackTimeout
Loop    == \/ LoopBegin \/ PollClosed \/ Ping \/ SendPing \/ GiveUp \/ NotExpired
           \/ NothingAvailable \/ Receive \/ DispatchMessage \/ SendPuback \/ DispatchAnswer
           \/ ReceiveCut \/ Spin
Client  == Connect \/ Loop
Network == Deliver \/ Lose \/ BrokerReply \/ BrokerPublish
Next    == Client \/ MainPublish \/ Tick \/ Network

(* The server thread is scheduled for ever and the clock goes on; nothing  *)
(* is assumed of the broker, the network or the main thread.               *)
Fairness == WF_vars(Client) /\ WF_vars(Tick)

Spec == Init /\ [][Next]_vars /\ Fairness

-----------------------------------------------------------------------------
(* Properties                                                              *)

\* The packet read and not yet handled; with what has arrived at, or is on its
\* way to, the client, in order.
InHand == IF pc \in {"verdict", "dispatch"} THEN <<buffer>> ELSE <<>>
Unread == InHand \o tlsIn \o FlattenSeq(tcpIn) \o fromBroker

\* The members of S in sequence s, in their order.
Only(S, s) ==
  LET only[n \in 0 .. Len(s)] ==
        IF n = 0 THEN <<>>
        ELSE IF s[n] \in S THEN Append(only[n - 1], s[n]) ELSE only[n - 1]
  IN only[Len(s)]

Count(packet, s) == Len(Only({packet}, s))

\* The messages that loop() is to handle, of those published so far.
Fitting  == {m \in Publish : Kind[m] # "oversized"}
Expected == Only(Fitting, SubSeq(Messages, 1, published))

TypeOK ==
  /\ pc \in {"dial", "connack", "verdict", "idle", "timers", "send", "receive",
             "dispatch", "hang"}
  /\ link \in {"none", "tls", "up", "closed"}
  /\ {now, t, lastInActivity, lastOutActivity} \subseteq Clock
  /\ pingOutstanding \in BOOLEAN /\ cut \in BOOLEAN /\ net \in {"open", "lost"}
  /\ buffer \in IF pc \in {"verdict", "dispatch"} THEN Packets ELSE Control \cup {"none"}
  /\ torn \in BOOLEAN
  /\ tlsIn \in Seq(Packets) /\ fromBroker \in Seq(Packets)
  /\ tcpIn \in Seq(Seq(Packets) \ {<<>>})
  /\ dispatched \in Seq(Publish) /\ callbacks \in Seq(Publish) /\ spoilt \subseteq Publish
  /\ pingSpoilt \in BOOLEAN
  /\ toBroker \in Seq(Control)
  /\ published \in 0 .. Len(Messages) /\ served \in {"new", "refused", "subscribed"}

(* loop() gives the session up on pingOutstanding alone.  While the        *)
(* session is up and the network open the flag is set exactly when one     *)
(* ping or its answer is under way, or has been lost in the client's own   *)
(* buffer, where a publication of the main thread was written over it.     *)
PingAccounted ==
  link = "up" /\ net = "open" =>
    Count("pingreq", toBroker) + Count("pingresp", Unread) + (IF pingSpoilt THEN 1 ELSE 0)
      = (IF pingOutstanding THEN 1 ELSE 0)

(* Every message that is not oversized comes to be handled once, in the    *)
(* order of publication, whatever the records it came in and whatever the  *)
(* main thread does to the buffer; as long as the network is open the ones *)
(* not handled yet are all still on their way.  callback() gets them as    *)
(* they were published, but for those that a publication was written over. *)
InOrder ==
  /\ IsPrefix(dispatched, Expected)
  /\ net = "open" /\ link = "up" => dispatched \o Only(Fitting, Unread) = Expected
  /\ callbacks = Only(Publish \ spoilt, dispatched)

(* A dead network is noticed, however busily the main thread publishes:    *)
(* the session is closed, or the thread is stuck in a cut-off packet.      *)
LossNoticed == net = "lost" ~> link = "closed" \/ pc = "hang"

(* A packet left behind in the TLS layer is read in the end, although      *)
(* available() cannot see it: the keep-alive's own answer brings it up, or *)
(* the session ends.                                                       *)
LeftoverRead == tlsIn # <<>> ~> tlsIn = <<>> \/ link = "closed" \/ pc = "hang"

(* "MQTT_KEEPALIVE : keepAlive interval in Seconds" (MQTT-TLS.h:86): the   *)
(* session is given up only when an interval has passed without traffic.   *)
KeepAliveHonoured ==
  [][GiveUp => \/ Elapsed(now, lastInActivity) > KeepAlive
               \/ Elapsed(now, lastOutActivity) > KeepAlive]_vars
=============================================================================
