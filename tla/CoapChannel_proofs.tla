------------------------- MODULE CoapChannel_proofs -------------------------
(***************************************************************************)
(* Proofs about the reliable channel, for any requests of the two sides,   *)
(* with equal ids or not, and for any times that leave the server's copies *)
(* behind before a request is forgotten (TimesAssumption).                 *)
(***************************************************************************)
EXTENDS CoapChannel, CoapTime, FiniteSetTheorems, TLAPS

(* The device's requests are asked one after the other; the client store   *)
(* holds requests that were, and nothing else.                             *)
ClientInv ==
  /\ \A m \in Requests : m > message_id => outcome[m] = "none"
  /\ \A e \in client : e.type = "con" /\ e.id \in Requests /\ outcome[e.id] # "none"

(* The server store holds requests and answers that are never sent by      *)
(* process(); an answer is there, or is due, for what was handled only.    *)
ServerInv ==
  /\ \A e \in server : /\ e.id \in ServerIds /\ e.count = MaxRetransmit + 2
                       /\ e.type = "ack" => e.id \in seen
  /\ request # 0 => request \in seen

(* What a datagram says is true.                                           *)
Truthful(p) ==
  /\ p.to = "server" /\ p.type = "con" => p.id \in Requests /\ outcome[p.id] # "none"
  /\ p.to = "server" /\ p.type = "ack" => p.id \in ServerIds /\ p.id \in seen
  /\ p.to = "device" /\ p.type # "con" => p.id \in Requests /\ p.id \in peerGot
  /\ p.to = "device" /\ p.type = "con" => p.id \in ServerIds /\ peer[p.id].state # "new"

NetInv == \A p \in net : Truthful(p)

(* The server may send request r once more.                                *)
Repeats(r) == peer[r].state = "sent" /\ peer[r].age <= ServerSpan

(* Request r is remembered for more than the given time.                   *)
Remembered(r, time) == \E e \in server : e.id = r /\ e.left > time

(* A request that was handled is remembered for longer than it takes the   *)
(* last copy of it, on the network or still to be sent, to be lost.        *)
OutlivesCopies(r) ==
  handled[r] # 0 =>
    /\ peer[r].state # "new"
    /\ Repeats(r) => Remembered(r, ServerSpan + Lifetime - peer[r].age)
    /\ \A p \in net : p.to = "device" /\ p.type = "con" /\ p.id = r =>
         Remembered(r, Lifetime - p.age)

MemoryInv == \A r \in ServerIds : OutlivesCopies(r)

Inv == TypeOK /\ ClientInv /\ ServerInv /\ NetInv /\ MemoryInv /\ AcksAreHonest

-----------------------------------------------------------------------------
(* The operators of the model.                                             *)

(* A power of two is a number: it counts the subsets of a finite set.      *)
LEMMA PowerType ==
  ASSUME NEW n \in Nat
  PROVE  2 ^ n \in Nat
<1>1. IsFiniteSet(1..n) /\ Cardinality(1..n) = n
  BY FS_Interval
<1>2. IsFiniteSet(SUBSET (1..n)) /\ Cardinality(SUBSET (1..n)) = 2 ^ n
  BY <1>1, FS_SUBSET
<1> QED
  BY <1>2, FS_CardinalityType

\* A timeout is a number of ticks, whatever the jitter and the number of sends.
LEMMA TimeoutType ==
  ASSUME NEW count \in Nat, NEW rand \in {0, 1}
  PROVE  Timeout(count, rand) \in Nat
<1> DEFINE base == AckTimeout * 2 ^ count
<1>1. base \in Nat
  BY PowerType, TimesAssumption
<1> HIDE DEF base
<1>2. base + (rand * base) \div 2 \in Nat
  BY <1>1
<1> QED
  BY <1>2 DEF Timeout, base

\* What the channel puts into a store is an entry.
LEMMA EntryTypes ==
  /\ \A id \in Requests, rand \in {0, 1} :
       /\ Sending(id, rand) \in Entries
       /\ Sending(id, rand).id = id /\ Sending(id, rand).type = "con"
  /\ \A id \in ServerIds, type \in {"con", "ack"} :
       /\ Keeping(id, type) \in Entries
       /\ Keeping(id, type).id = id /\ Keeping(id, type).type = type
       /\ Keeping(id, type).left = TransmitSpan /\ Keeping(id, type).count = MaxRetransmit + 2
<1>1. TransmitSpan \in Nat /\ MaxRetransmit \in Nat
  BY TimesAssumption
<1>2. ASSUME NEW id \in Requests, NEW rand \in {0, 1}
      PROVE  /\ Sending(id, rand) \in Entries
             /\ Sending(id, rand).id = id /\ Sending(id, rand).type = "con"
  <2>1. Timeout(0, rand) \in Nat /\ 1 \in 1 .. MaxRetransmit + 2
    BY <1>1, TimeoutType
  <2> QED
    BY <2>1 DEF Sending, Entries, Ids
<1>3. ASSUME NEW id \in ServerIds, NEW type \in {"con", "ack"}
      PROVE  /\ Keeping(id, type) \in Entries
             /\ Keeping(id, type).id = id /\ Keeping(id, type).type = type
             /\ Keeping(id, type).left = TransmitSpan
             /\ Keeping(id, type).count = MaxRetransmit + 2
  BY <1>1 DEF Keeping, Entries, Ids
<1> QED
  BY <1>2, <1>3

(* An entry of the same request.                                           *)
Alike(e, o) == e.id = o.id /\ e.type = o.type

(* Only what is due is sent again or dropped.                              *)
LEMMA ProcessedFacts ==
  ASSUME NEW store, store \subseteq Entries, NEW rand \in Rand(store)
  PROVE  /\ Processed(store, rand) \subseteq Entries
         /\ \A e \in Processed(store, rand) : \E o \in store : Alike(e, o)
         /\ \A e \in store : e.left # 0 => e \in Processed(store, rand)
         /\ (\A e \in store : e.count = MaxRetransmit + 2)
              => Processed(store, rand) \subseteq store
<1> DEFINE again(e) == [e EXCEPT !.left = Timeout(e.count, rand[e.id]), !.count = @ + 1]
<1>1. Resent(store) \subseteq store
  BY DEF Resent, Due
<1>2. ASSUME NEW e \in Resent(store)
      PROVE  again(e) \in Entries /\ Alike(again(e), e)
  <2>1. e \in Entries /\ e.count \in Nat /\ e.count <= MaxRetransmit /\ MaxRetransmit \in Nat
    BY <1>1, TimesAssumption DEF Resent, Due, Entries
  <2>2. rand[e.id] \in {0, 1}
    BY <1>2 DEF Rand, IdsOf
  <2>3. Timeout(e.count, rand[e.id]) \in Nat /\ e.count + 1 \in 1 .. MaxRetransmit + 2
    BY <2>1, <2>2, TimeoutType
  <2> QED
    BY <2>1, <2>3 DEF Entries, Alike
<1>3. Processed(store, rand) = (store \ Due(store)) \cup {again(e) : e \in Resent(store)}
  BY DEF Processed
<1> HIDE DEF again
<1>4. ASSUME NEW e \in Processed(store, rand)
      PROVE  e \in store \/ \E o \in Resent(store) : e = again(o)
  BY <1>3, <1>4
<1>5. ASSUME NEW e \in store, e.left # 0
      PROVE  e \in Processed(store, rand)
  BY <1>3, <1>5 DEF Due
<1>6. (\A e \in store : e.count = MaxRetransmit + 2) => Resent(store) = {}
  BY TimesAssumption DEF Resent, Due
<1> QED
  BY <1>1, <1>2, <1>4, <1>5, <1>6 DEF Alike

(* The clock changes nothing but the ticks that are left.                  *)
LEMMA CountDownFacts ==
  ASSUME NEW store, store \subseteq Entries
  PROVE  /\ CountDown(store) \subseteq Entries
         /\ \A e \in CountDown(store) : \E o \in store : Alike(e, o) /\ e.count = o.count
         /\ \A o \in store : o.left # 0 =>
              \E e \in CountDown(store) : e.id = o.id /\ e.left = o.left - 1
<1> DEFINE down(e) == [e EXCEPT !.left = IF @ = 0 THEN 0 ELSE @ - 1]
<1>1. ASSUME NEW e \in store
      PROVE  /\ down(e) \in Entries /\ Alike(down(e), e) /\ down(e).count = e.count
             /\ e.left # 0 => down(e).left = e.left - 1
  <2>1. e \in Entries /\ (IF e.left = 0 THEN 0 ELSE e.left - 1) \in Nat
    BY DEF Entries
  <2> QED
    BY <2>1 DEF Entries, Alike
<1>2. CountDown(store) = {down(e) : e \in store}
  BY DEF CountDown
<1> HIDE DEF down
<1>3. \A e \in CountDown(store) : \E o \in store : e = down(o)
  BY <1>2
<1>4. \A o \in store : down(o) \in CountDown(store)
  BY <1>2
<1> QED
  BY <1>1, <1>3, <1>4 DEF Alike

(* Adding an entry displaces those of the same id.                         *)
LEMMA AddFacts ==
  ASSUME NEW store, store \subseteq Entries, NEW e \in Entries
  PROVE  /\ Add(store, e) \subseteq Entries /\ e \in Add(store, e)
         /\ \A x \in Add(store, e) : x = e \/ (x \in store /\ x.id # e.id)
         /\ \A x \in store : x.id # e.id => x \in Add(store, e)
<1>1. \A x : x \in Add(store, e) <=> x = e \/ (x \in store /\ x.id # e.id)
  BY DEF Add, Without
<1> QED
  BY <1>1

(* A request is pending until it ends, once.                               *)
Outcomes == {"none", "pending", "acked", "failed"}

Concludes(m, before, after) ==
  \/ after = before
  \/ before = "pending" /\ after = "failed"
  \/ before = "pending" /\ after = "acked" /\ m \in peerGot

Concluding(before, after) ==
  after \in [Requests -> Outcomes] /\ \A m \in Requests : Concludes(m, before[m], after[m])

\* Requests that are given up come to one conclusion.
LEMMA FailedFacts ==
  ASSUME NEW before \in [Requests -> Outcomes], NEW after \in [Requests -> Outcomes],
         Concluding(before, after), NEW ids
  PROVE  Concluding(before, Ended(after, ids, "failed"))
BY DEF Concluding, Concludes, Ended, Outcomes

\* So do those that are acknowledged, and the server has had them.
LEMMA AcknowledgedFacts ==
  ASSUME TypeOK, NetInv, NEW p \in net, p.to = "device", p.type # "con"
  PROVE  Concluding(outcome, Acknowledged(p))
<1>1. p.id \in peerGot /\ outcome \in [Requests -> Outcomes]
  BY DEF TypeOK, NetInv, Truthful, Outcomes
<1>2. Acknowledged(p) \in [Requests -> Outcomes]
  BY <1>1 DEF Acknowledged, Ended, Outcomes
<1>3. \A m \in Requests : Concludes(m, outcome[m], Acknowledged(p)[m])
  BY <1>1 DEF Acknowledged, Ended, Concludes
<1> QED
  BY <1>2, <1>3 DEF Concluding

-----------------------------------------------------------------------------
(* What a call of receive() or a turn of send_synchronous() does, whatever *)
(* datagram it finds.                                                      *)

(* A datagram that repeats a request of the device, or an answer of it.    *)
Sent(p) ==
  /\ p \in Packets /\ p.to = "server"
  /\ \/ p.type = "con" /\ p.id \in IdsOf(client)
     \/ p.type = "ack" /\ p.id \in ServerIds /\ p.id \in seen

LoopEffect ==
  /\ session' \in BOOLEAN /\ waiting' \in Requests \cup {0}
  /\ client' \subseteq Entries /\ \A e \in client' : \E o \in client : Alike(e, o)
  /\ \A p \in net' : p \in net \/ Sent(p)
  /\ Concluding(outcome, outcome')
  /\ message_id' = message_id /\ peer' = peer /\ peerGot' = peerGot

(* The server store keeps what is not due.                                 *)
Keeps(store) == server' \subseteq store /\ \A e \in store : e.left # 0 => e \in server'

\* A new datagram is one, and has no age.
LEMMA PacketFacts ==
  ASSUME NEW to \in {"device", "server"}, NEW type \in {"con", "ack", "reset"}, NEW id \in Ids
  PROVE  /\ Packet(to, type, id) \in Packets
         /\ Packet(to, type, id).to = to /\ Packet(to, type, id).type = type
         /\ Packet(to, type, id).id = id /\ Packet(to, type, id).age = 0
<1>1. 0 \in 0 .. Lifetime
  BY TimesAssumption
<1> QED
  BY <1>1 DEF Packet, Packets

(* process() sends requests of the store, and ends those it drops.         *)
LEMMA SendsFacts ==
  ASSUME TypeOK, NEW store, store \subseteq client, NEW up \in BOOLEAN, NEW datagrams,
         \A p \in datagrams : p \in net \/ Sent(p),
         net' = datagrams \cup
           {Packet("server", "con", e.id) : e \in IF up THEN ProcessSends(store) ELSE {}}
  PROVE  \A p \in net' : p \in net \/ Sent(p)
<1>1. SUFFICES ASSUME NEW e \in store PROVE Sent(Packet("server", "con", e.id))
  BY DEF ProcessSends, Resent, Due
<1>2. e \in client /\ e.id \in Ids
  BY DEF TypeOK, Entries
<1>3. e.id \in IdsOf(client)
  BY <1>2 DEF IdsOf
<1> QED
  BY <1>2, <1>3, PacketFacts DEF Sent

\* What process() of both stores does.
LEMMA BothEffect ==
  ASSUME TypeOK, NEW c, c \subseteq client,
         NEW s, s \subseteq Entries, \A e \in s : e.count = MaxRetransmit + 2,
         NEW up \in BOOLEAN, NEW datagrams, \A p \in datagrams : p \in net \/ Sent(p),
         NEW concluded, Concluding(outcome, concluded),
         ProcessBoth(c, s, up, datagrams, concluded),
         message_id' = message_id, waiting' = waiting, peer' = peer, peerGot' = peerGot
  PROVE  LoopEffect /\ Keeps(s)
<1>1. outcome \in [Requests -> Outcomes] /\ concluded \in [Requests -> Outcomes]
  BY DEF TypeOK, Outcomes, Concluding
<1>2. PICK rand \in Rand(c) : client' = Processed(c, rand)
  BY DEF ProcessBoth, ProcessClient
<1>3. client' \subseteq Entries /\ \A e \in client' : \E o \in client : Alike(e, o)
  BY <1>2, ProcessedFacts DEF TypeOK
<1>4. PICK coins \in Rand(s) : server' = Processed(s, coins)
  BY DEF ProcessBoth
<1>5. Keeps(s)
  BY <1>4, ProcessedFacts DEF Keeps
<1>6. \A p \in net' : p \in net \/ Sent(p)
  BY SendsFacts DEF ProcessBoth, ProcessClient
<1>7. Concluding(outcome, outcome')
  <2>1. outcome' = Ended(concluded, IdsOf(Dropped(c)), "failed")
    BY DEF ProcessBoth, ProcessClient
  <2> QED
    BY <1>1, <2>1, FailedFacts
<1>8. session' \in BOOLEAN
  BY Zenon DEF ProcessBoth
<1> QED
  BY <1>3, <1>5, <1>6, <1>7, <1>8 DEF LoopEffect, TypeOK

\* What a turn of the synchronous loop does; it leaves the server's requests alone.
LEMMA TurnEffect ==
  ASSUME TypeOK, NEW c, c \subseteq client,
         NEW up \in BOOLEAN, NEW datagrams, \A p \in datagrams : p \in net \/ Sent(p),
         NEW concluded, Concluding(outcome, concluded),
         SyncTurn(c, up, datagrams, concluded)
  PROVE  LoopEffect /\ server' = server /\ request' = request /\ handled' = handled /\ seen' = seen
<1>1. outcome \in [Requests -> Outcomes] /\ concluded \in [Requests -> Outcomes]
  BY DEF TypeOK, Outcomes, Concluding
<1>2. PICK rand \in Rand(c) :
        client' \in {Processed(c, rand), Without(Processed(c, rand), waiting)}
  BY DEF SyncTurn
<1>3. client' \subseteq Entries /\ \A e \in client' : \E o \in client : Alike(e, o)
  <2>1. client' \subseteq Processed(c, rand)
    BY <1>2 DEF Without
  <2> QED
    BY <2>1, ProcessedFacts DEF TypeOK
<1>4. \A p \in net' : p \in net \/ Sent(p)
  BY SendsFacts DEF SyncTurn
<1>5. Concluding(outcome, outcome')
  <2>1. \E ids : outcome' = Ended(concluded, ids, "failed")
    BY DEF SyncTurn
  <2> QED
    BY <1>1, <2>1, FailedFacts
<1>6. session' \in BOOLEAN
  BY Zenon DEF SyncTurn
<1>7. /\ server' = server /\ request' = request /\ handled' = handled /\ seen' = seen
      /\ message_id' = message_id /\ peer' = peer /\ peerGot' = peerGot
      /\ waiting' \in Requests \cup {0}
  BY DEF SyncTurn, world, TypeOK
<1> QED
  BY <1>3, <1>4, <1>5, <1>6, <1>7 DEF LoopEffect

(* No request is passed to the application.                                *)
Calm == Keeps(server) /\ request' \in {0, request} /\ handled' = handled /\ seen' = seen

(* The request of datagram p is, and is remembered from then on.           *)
Passes(p) ==
  /\ p \in net /\ p.to = "device" /\ p.type = "con" /\ ~Known(server, p.id)
  /\ request' = p.id /\ handled' = Counted(handled, p.id) /\ seen' = seen \cup {p.id}
  /\ Keeps(Add(server, Keeping(p.id, "con")))

\* What receive() does: at most the request of one datagram is passed on.
LEMMA ReceiveEffect ==
  ASSUME Inv, Receive
  PROVE  LoopEffect /\ (Calm \/ \E p \in net : Passes(p))
<1>1. /\ TypeOK /\ server \subseteq Entries /\ \A e \in server : e.count = MaxRetransmit + 2
      /\ session \in BOOLEAN /\ net \subseteq Packets
  BY DEF Inv, TypeOK, ServerInv
<1>2. Concluding(outcome, outcome)
  BY <1>1 DEF TypeOK, Concluding, Concludes, Outcomes
<1>3. message_id' = message_id /\ waiting' = waiting /\ peer' = peer /\ peerGot' = peerGot
  BY DEF Receive, ReceiveNothing, ReceiveAck, ReceiveRequest, ReceiveRepeated, world
<1>4. CASE ReceiveNothing
  <2>1. /\ ProcessBoth(client, server, session, net, outcome)
        /\ request' = 0 /\ handled' = handled /\ seen' = seen
    BY <1>4 DEF ReceiveNothing
  <2>2. LoopEffect /\ Keeps(server)
    BY <1>1, <1>2, <1>3, <2>1, BothEffect
  <2> QED
    BY <2>1, <2>2 DEF Calm
<1>5. ASSUME NEW p \in net, ReceiveAck(p)
      PROVE  LoopEffect /\ Calm
  <2> DEFINE up == p.type = "ack"
  <2>1. /\ ProcessBoth(Without(client, p.id), server, up, net \ {p}, Acknowledged(p))
        /\ request' = 0 /\ handled' = handled /\ seen' = seen
        /\ p.to = "device" /\ p.type # "con"
    BY <1>5 DEF ReceiveAck
  <2>2. Concluding(outcome, Acknowledged(p))
    BY <2>1, AcknowledgedFacts DEF Inv
  <2>3. up \in BOOLEAN /\ Without(client, p.id) \subseteq client
    BY DEF Without
  <2> HIDE DEF up
  <2>4. LoopEffect /\ Keeps(server)
    BY <1>1, <1>3, <2>1, <2>2, <2>3, BothEffect
  <2> QED
    BY <2>1, <2>4 DEF Calm
<1>6. ASSUME NEW p \in net, ReceiveRequest(p)
      PROVE  LoopEffect /\ Passes(p)
  <2> DEFINE store == Add(server, Keeping(p.id, "con"))
  <2>1. /\ ProcessBoth(client, store, TRUE, net \ {p}, outcome)
        /\ p.to = "device" /\ p.type = "con" /\ ~Known(server, p.id)
        /\ request' = p.id /\ handled' = Counted(handled, p.id) /\ seen' = seen \cup {p.id}
    BY <1>6 DEF ReceiveRequest
  <2>2. p.id \in ServerIds
    BY <2>1 DEF Inv, NetInv, Truthful
  <2>3. /\ Keeping(p.id, "con") \in Entries
        /\ Keeping(p.id, "con").count = MaxRetransmit + 2
    BY <2>2, EntryTypes
  <2>4. store \subseteq Entries /\ \A e \in store : e.count = MaxRetransmit + 2
    BY <1>1, <2>3, AddFacts
  <2>5. TRUE \in BOOLEAN
    BY Zenon
  <2> HIDE DEF store
  <2>6. LoopEffect /\ Keeps(store)
    BY <1>1, <1>2, <1>3, <2>1, <2>4, <2>5, BothEffect
  <2> QED
    BY <1>6, <2>1, <2>6 DEF Passes, store
<1>7. ASSUME NEW p \in net, ReceiveRepeated(p)
      PROVE  LoopEffect /\ Calm
  <2> DEFINE answers == {e \in server : e.id = p.id /\ e.type = "ack"}
             datagrams == (net \ {p}) \cup {Packet("server", "ack", e.id) : e \in answers}
  <2>1. /\ ProcessBoth(client, server, TRUE, datagrams, outcome)
        /\ request' = 0 /\ handled' = handled /\ seen' = seen
    BY <1>7 DEF ReceiveRepeated
  <2>2. \A e \in answers : Sent(Packet("server", "ack", e.id))
    <3> SUFFICES ASSUME NEW e \in server, e.type = "ack"
                 PROVE  Sent(Packet("server", "ack", e.id))
      OBVIOUS
    <3>1. e.id \in ServerIds /\ e.id \in seen /\ e.id \in Ids
      BY DEF Inv, ServerInv, Ids
    <3> QED
      BY <3>1, PacketFacts DEF Sent
  <2>3. \A x \in datagrams : x \in net \/ Sent(x)
    BY <2>2
  <2>4. TRUE \in BOOLEAN
    BY Zenon
  <2> HIDE DEF datagrams
  <2>5. LoopEffect /\ Keeps(server)
    BY <1>1, <1>2, <1>3, <2>1, <2>3, <2>4, BothEffect
  <2> QED
    BY <2>1, <2>5 DEF Calm
<1> QED
  BY <1>4, <1>5, <1>6, <1>7 DEF Receive

\* What the steps of the synchronous loop do.
LEMMA SyncEffect ==
  ASSUME Inv, Synchronous
  PROVE  LoopEffect /\ Calm
<1>1. TypeOK /\ session \in BOOLEAN
  BY DEF Inv, TypeOK
<1>2. Concluding(outcome, outcome)
  BY <1>1 DEF TypeOK, Concluding, Concludes, Outcomes
<1>3. ASSUME NEW c, c \subseteq client, NEW up \in BOOLEAN, NEW datagrams, datagrams \subseteq net,
             NEW concluded, Concluding(outcome, concluded),
             SyncTurn(c, up, datagrams, concluded)
      PROVE  LoopEffect /\ Calm
  <2>1. \A p \in datagrams : p \in net \/ Sent(p)
    BY <1>3
  <2>2. LoopEffect /\ server' = server /\ request' = request /\ handled' = handled /\ seen' = seen
    BY <1>1, <1>3, <2>1, TurnEffect
  <2> QED
    BY <2>2 DEF Calm, Keeps
<1>4. CASE SyncNothing
  BY <1>1, <1>2, <1>3, <1>4 DEF SyncNothing
<1>5. ASSUME NEW p \in net, SyncAck(p)
      PROVE  LoopEffect /\ Calm
  <2> DEFINE up == p.type = "ack"
  <2>1. /\ SyncTurn(Without(client, p.id), up, net \ {p}, Acknowledged(p))
        /\ p.to = "device" /\ p.type # "con"
    BY <1>5 DEF SyncAck
  <2>2. Concluding(outcome, Acknowledged(p))
    BY <2>1, AcknowledgedFacts DEF Inv
  <2>3. up \in BOOLEAN /\ Without(client, p.id) \subseteq client /\ net \ {p} \subseteq net
    BY DEF Without
  <2> HIDE DEF up
  <2> QED
    BY <1>3, <2>1, <2>2, <2>3
<1>6. ASSUME NEW p \in net, SyncRequest(p)
      PROVE  LoopEffect /\ Calm
  <2>1. SyncTurn(client, TRUE, net \ {p}, outcome)
    BY <1>6 DEF SyncRequest
  <2>2. TRUE \in BOOLEAN
    BY Zenon
  <2> QED
    BY <1>2, <1>3, <2>1, <2>2
<1> QED
  BY <1>4, <1>5, <1>6 DEF Synchronous

-----------------------------------------------------------------------------
(* The invariant is inductive.                                             *)

\* The invariant holds at power-on.
LEMMA InvInit == Init => Inv
<1> SUFFICES ASSUME Init PROVE Inv
  OBVIOUS
<1>1. TypeOK
  <2>1. TRUE \in BOOLEAN
    BY Zenon
  <2>2. peer \in [ServerIds -> [state : {"new", "sent", "answered"}, age : 0 .. ServerSpan + 1]]
    BY TimesAssumption DEF Init
  <2>3. 0 \in 0 .. NumRequests
    BY RequestsAssumption
  <2> QED
    BY <2>1, <2>2, <2>3 DEF Init, TypeOK
<1>2. ClientInv /\ ServerInv /\ NetInv /\ MemoryInv /\ AcksAreHonest
  BY DEF Init, ClientInv, ServerInv, NetInv, MemoryInv, OutlivesCopies, AcksAreHonest
<1> QED
  BY <1>1, <1>2 DEF Inv

(* A receive(), or a turn of the synchronous loop.                         *)
LEMMA LoopKeepsInv ==
  ASSUME Inv, LoopEffect, Calm \/ \E p \in net : Passes(p)
  PROVE  Inv'
<1>1. /\ TypeOK /\ server \subseteq Entries /\ net \subseteq Packets /\ client \subseteq Entries
      /\ outcome \in [Requests -> Outcomes] /\ handled \in [ServerIds -> 0 .. 2]
      /\ seen \subseteq ServerIds
  BY DEF Inv, TypeOK, Outcomes
<1>2. \A m \in Requests :
        /\ outcome'[m] \in Outcomes
        /\ outcome'[m] = "none" <=> outcome[m] = "none"
        /\ outcome'[m] = "acked" => m \in peerGot
  <2>1. \A m \in Requests : outcome'[m] \in Outcomes
    BY DEF LoopEffect, Concluding
  <2>2. \A m \in Requests : Concludes(m, outcome[m], outcome'[m])
    BY DEF LoopEffect, Concluding
  <2>3. \A m \in Requests : outcome[m] = "acked" => m \in peerGot
    BY DEF Inv, AcksAreHonest
  <2> QED
    BY <2>1, <2>2, <2>3 DEF Concludes
<1>3. \A p \in net : Passes(p) => p.id \in ServerIds /\ peer[p.id].state # "new"
  BY DEF Inv, NetInv, Truthful, Passes
<1>4. /\ seen \subseteq seen' /\ seen' \subseteq ServerIds
      /\ request' \in ServerIds \cup {0} /\ (request' # 0 => request' \in seen')
      /\ handled' \in [ServerIds -> 0 .. 2]
  <2>1. CASE Calm
    BY <1>1, <2>1 DEF Calm, Inv, TypeOK, ServerInv
  <2>2. ASSUME NEW p \in net, Passes(p)
        PROVE  /\ seen \subseteq seen' /\ seen' \subseteq ServerIds
               /\ request' \in ServerIds \cup {0} /\ (request' # 0 => request' \in seen')
               /\ handled' \in [ServerIds -> 0 .. 2]
    <3>1. request' = p.id /\ seen' = seen \cup {p.id} /\ p.id \in ServerIds
      BY <1>3, <2>2 DEF Passes
    <3>2. Counted(handled, p.id) \in [ServerIds -> 0 .. 2]
      BY <1>1, <3>1 DEF Counted
    <3> QED
      BY <1>1, <2>2, <3>1, <3>2 DEF Passes
  <2> QED
    BY <2>1, <2>2
<1>5. /\ server' \subseteq Entries
      /\ \A e \in server' : /\ e.id \in ServerIds /\ e.count = MaxRetransmit + 2
                            /\ e.type = "ack" => e.id \in seen'
  <2>1. CASE Calm
    BY <1>1, <2>1 DEF Calm, Keeps, Inv, ServerInv
  <2>2. ASSUME NEW p \in net, Passes(p)
        PROVE  /\ server' \subseteq Entries
               /\ \A e \in server' : /\ e.id \in ServerIds /\ e.count = MaxRetransmit + 2
                                     /\ e.type = "ack" => e.id \in seen'
    <3> DEFINE k == Keeping(p.id, "con")
    <3>1. k \in Entries /\ k.id = p.id /\ k.type = "con" /\ k.count = MaxRetransmit + 2
      BY <1>3, <2>2, EntryTypes
    <3>2. server' \subseteq Add(server, k)
      BY <2>2 DEF Passes, Keeps
    <3> HIDE DEF k
    <3>3. server' \subseteq Entries /\ \A e \in server' : e = k \/ e \in server
      BY <1>1, <3>1, <3>2, AddFacts
    <3> QED
      BY <1>3, <1>4, <2>2, <3>1, <3>3 DEF Inv, ServerInv
  <2> QED
    BY <2>1, <2>2
<1>6. /\ net' \subseteq Packets
      /\ \A p \in net' : p.to = "device" => p \in net
  BY <1>1 DEF LoopEffect, Sent
<1>7. TypeOK'
  BY <1>1, <1>4, <1>5, <1>6 DEF TypeOK, LoopEffect, Concluding, Outcomes
<1>8. ClientInv'
  BY <1>2 DEF Inv, ClientInv, LoopEffect, Alike
<1>9. ServerInv'
  BY <1>4, <1>5 DEF ServerInv
<1>10. NetInv'
  <2> SUFFICES ASSUME NEW p \in net' PROVE Truthful(p)'
    BY DEF NetInv
  <2>1. peer' = peer /\ peerGot' = peerGot
    BY DEF LoopEffect
  <2>2. CASE p \in net
    <3>1. Truthful(p)
      BY <2>2 DEF Inv, NetInv
    <3> QED
      BY <1>2, <1>4, <2>1, <3>1 DEF Truthful
  <2>3. CASE Sent(p)
    <3>1. p.type = "con" => p.id \in Requests /\ outcome[p.id] # "none"
      BY <2>3 DEF Sent, IdsOf, Inv, ClientInv
    <3> QED
      BY <1>2, <1>4, <2>3, <3>1 DEF Truthful, Sent
  <2> QED
    BY <2>2, <2>3 DEF LoopEffect
<1>11. MemoryInv'
  <2> SUFFICES ASSUME NEW r \in ServerIds, handled'[r] # 0
               PROVE  /\ peer'[r].state # "new"
                      /\ Repeats(r)' => Remembered(r, ServerSpan + Lifetime - peer[r].age)'
                      /\ \A p \in net' : p.to = "device" /\ p.type = "con" /\ p.id = r =>
                           Remembered(r, Lifetime - p.age)'
    BY DEF MemoryInv, OutlivesCopies, LoopEffect
  <2>1. peer' = peer /\ peer[r].age \in Nat
    BY <1>1 DEF LoopEffect, TypeOK
  <2>2. Repeats(r)' <=> Repeats(r)
    BY <2>1 DEF Repeats
  <2>3. \A p \in net' : p.to = "device" => p \in net /\ p.age \in Nat /\ p.age <= Lifetime
    BY <1>1, <1>6, TimesAssumption DEF Packets
  <2>4. Repeats(r) => ServerSpan + Lifetime - peer[r].age \in Nat
    BY <2>1, TimesAssumption DEF Repeats
  <2>5. CASE \E p \in net : Passes(p) /\ p.id = r
    <3> DEFINE k == Keeping(r, "con")
    <3>1. k \in Entries /\ k.left = TransmitSpan /\ k.id = r
      BY EntryTypes
    <3> HIDE DEF k
    <3>2. k \in server' /\ k.left > ServerSpan + Lifetime
      <4>1. k.left # 0
        BY <3>1, TimesAssumption
      <4>2. k \in Add(server, k)
        BY <1>1, <3>1, AddFacts
      <4> QED
        BY <2>5, <3>1, <4>1, <4>2, TimesAssumption DEF Passes, Keeps, k
    <3>3. \A time \in Int : time <= ServerSpan + Lifetime => Remembered(r, time)'
      BY <3>1, <3>2, TimesAssumption DEF Remembered
    <3>4. Repeats(r)' => Remembered(r, ServerSpan + Lifetime - peer[r].age)'
      BY <2>1, <3>3, TimesAssumption
    <3>5. \A p \in net' : p.to = "device" => Remembered(r, Lifetime - p.age)'
      BY <2>3, <3>3, TimesAssumption
    <3> QED
      BY <1>3, <2>1, <2>5, <3>4, <3>5
  <2>6. CASE ~\E p \in net : Passes(p) /\ p.id = r
    <3>1. handled[r] # 0
      BY <1>1, <1>3, <2>6 DEF Calm, Passes, Counted
    <3>2. \A e \in server : e.id = r /\ e.left # 0 => e \in server'
      <4>1. CASE Calm
        BY <4>1 DEF Calm, Keeps
      <4>2. ASSUME NEW p \in net, Passes(p), NEW e \in server, e.id = r, e.left # 0
            PROVE  e \in server'
        <5>1. Keeping(p.id, "con") \in Entries /\ Keeping(p.id, "con").id # r
          BY <1>3, <2>6, <4>2, EntryTypes
        <5>2. e \in Add(server, Keeping(p.id, "con"))
          BY <1>1, <4>2, <5>1, AddFacts
        <5> QED
          BY <4>2, <5>2 DEF Passes, Keeps
      <4> QED
        BY <4>1, <4>2
    <3>3. \A time \in Nat : Remembered(r, time) => Remembered(r, time)'
      BY <1>1, <3>2 DEF Remembered, Entries
    <3>4. OutlivesCopies(r)
      BY DEF Inv, MemoryInv
    <3>5. Repeats(r)' => Remembered(r, ServerSpan + Lifetime - peer[r].age)'
      BY <2>1, <2>2, <2>4, <3>1, <3>3, <3>4 DEF OutlivesCopies
    <3>6. ASSUME NEW p \in net', p.to = "device", p.type = "con", p.id = r
          PROVE  Remembered(r, Lifetime - p.age)'
      <4>1. Lifetime - p.age \in Nat
        BY <2>3, <3>6, TimesAssumption
      <4> QED
        BY <2>3, <3>1, <3>3, <3>4, <3>6, <4>1 DEF OutlivesCopies
    <3> QED
      BY <2>1, <3>1, <3>4, <3>5, <3>6 DEF OutlivesCopies
  <2> QED
    BY <2>5, <2>6
<1>12. AcksAreHonest'
  BY <1>2, <1>4 DEF Inv, AcksAreHonest, LoopEffect
<1> QED
  BY <1>7, <1>8, <1>9, <1>10, <1>11, <1>12 DEF Inv

(* The calls of the application.                                           *)
LEMMA SendStep ==
  ASSUME Inv, Send \/ SendSynchronous
  PROVE  Inv'
<1>1. /\ message_id' = message_id + 1 /\ message_id' \in Requests
      /\ message_id \in 0 .. NumRequests /\ message_id' \in 0 .. NumRequests
      /\ UNCHANGED <<session, server, request, world, handled, seen>>
      /\ outcome \in [Requests -> Outcomes] /\ client \subseteq Entries /\ net \subseteq Packets
  BY RequestsAssumption DEF Send, SendSynchronous, Inv, TypeOK, Requests, Outcomes
<1>2. waiting' \in Requests \cup {0}
  BY <1>1 DEF Send, SendSynchronous, Inv, TypeOK
<1>3. \E how \in {"pending", "failed"} : outcome' = [outcome EXCEPT ![message_id'] = how]
  BY DEF Send, SendSynchronous
<1>4. /\ outcome' \in [Requests -> Outcomes]
      /\ outcome'[message_id'] \in {"pending", "failed"}
      /\ \A m \in Requests : m # message_id' => outcome'[m] = outcome[m]
  BY <1>1, <1>3 DEF Outcomes
<1>5. outcome[message_id'] = "none"
  BY <1>1 DEF Inv, ClientInv, Requests
<1>6. /\ client' \subseteq Entries
      /\ \A e \in client' : e \in client \/ (e.id = message_id' /\ e.type = "con")
  <2>1. CASE client' = client
    BY <1>1, <2>1
  <2>2. ASSUME NEW rand \in {0, 1}, client' = Add(client, Sending(message_id', rand))
        PROVE  /\ client' \subseteq Entries
               /\ \A e \in client' : e \in client \/ (e.id = message_id' /\ e.type = "con")
    <3> DEFINE k == Sending(message_id', rand)
    <3>1. k \in Entries /\ k.id = message_id' /\ k.type = "con"
      BY <1>1, EntryTypes
    <3> HIDE DEF k
    <3>2. client' = Add(client, k)
      BY <2>2 DEF k
    <3> QED
      BY <1>1, <3>1, <3>2, AddFacts
  <2> QED
    BY <2>1, <2>2 DEF Send, SendSynchronous
<1>7. /\ net' \subseteq Packets
      /\ \A p \in net' : p \in net \/ (p.to = "server" /\ p.type = "con" /\ p.id = message_id')
  <2> DEFINE k == Packet("server", "con", message_id')
  <2>1. k \in Packets /\ k.to = "server" /\ k.type = "con" /\ k.id = message_id'
    BY <1>1, PacketFacts DEF Ids
  <2>2. net' = net \/ net' = net \cup {k}
    BY DEF Send, SendSynchronous
  <2> HIDE DEF k
  <2> QED
    BY <1>1, <2>1, <2>2
<1>8. TypeOK'
  BY <1>1, <1>2, <1>4, <1>6, <1>7 DEF Inv, TypeOK, Outcomes, world
<1>9. ClientInv'
  <2>1. \A m \in Requests : m > message_id' => outcome'[m] = "none"
    <3>1. \A m \in Requests : m > message_id' => m > message_id /\ m # message_id'
      BY <1>1 DEF Requests
    <3> QED
      BY <1>4, <3>1 DEF Inv, ClientInv
  <2>2. \A e \in client' : e.type = "con" /\ e.id \in Requests /\ outcome'[e.id] # "none"
    BY <1>1, <1>4, <1>6 DEF Inv, ClientInv
  <2> QED
    BY <2>1, <2>2 DEF ClientInv
<1>10. ServerInv'
  BY <1>1 DEF Inv, ServerInv
<1>11. NetInv'
  <2> SUFFICES ASSUME NEW p \in net' PROVE Truthful(p)'
    BY DEF NetInv
  <2>1. CASE p \in net
    BY <1>1, <1>4, <2>1 DEF Inv, NetInv, Truthful, world
  <2>2. CASE p.to = "server" /\ p.type = "con" /\ p.id = message_id'
    BY <1>1, <1>4, <2>2 DEF Truthful
  <2> QED
    BY <1>7, <2>1, <2>2
<1>12. MemoryInv'
  <2>1. \A p \in net' : p.to = "device" => p \in net
    BY <1>7
  <2> QED
    BY <1>1, <2>1 DEF Inv, MemoryInv, OutlivesCopies, Repeats, Remembered, world
<1>13. AcksAreHonest'
  BY <1>1, <1>4 DEF Inv, AcksAreHonest, world
<1> QED
  BY <1>8, <1>9, <1>10, <1>11, <1>12, <1>13 DEF Inv

\* An answer takes the request's place, and its deadline, in the server store.
LEMMA ReplyStep ==
  ASSUME Inv, Reply
  PROVE  Inv'
<1> DEFINE k == Keeping(request, "ack")
           d == Packet("server", "ack", request)
<1>1. /\ request \in ServerIds /\ request \in seen /\ request' = 0
      /\ server' = Add(server, k) /\ (net' = net \/ net' = net \cup {d})
      /\ UNCHANGED <<session, client, message_id, waiting, world, history>>
      /\ server \subseteq Entries /\ net \subseteq Packets
  BY DEF Reply, Inv, TypeOK, ServerInv
<1>2. /\ k \in Entries /\ k.id = request /\ k.type = "ack" /\ k.left = TransmitSpan
      /\ k.count = MaxRetransmit + 2
  BY <1>1, EntryTypes
<1>3. d \in Packets /\ d.to = "server" /\ d.type = "ack" /\ d.id = request
  BY <1>1, PacketFacts DEF Ids
<1> HIDE DEF k, d
<1>4. /\ server' \subseteq Entries /\ k \in server'
      /\ \A e \in server' : e = k \/ e \in server
      /\ \A e \in server : e.id # request => e \in server'
  BY <1>1, <1>2, AddFacts
<1>5. net' \subseteq Packets /\ \A p \in net' : p \in net \/ p = d
  BY <1>1, <1>3
<1>6. TypeOK'
  BY <1>1, <1>4, <1>5 DEF Inv, TypeOK, world, history
<1>7. ClientInv'
  BY <1>1 DEF Inv, ClientInv, history
<1>8. ServerInv'
  BY <1>1, <1>2, <1>4 DEF Inv, ServerInv, history
<1>9. NetInv'
  BY <1>1, <1>3, <1>5 DEF Inv, NetInv, Truthful, world, history
<1>10. MemoryInv'
  <2> SUFFICES ASSUME NEW r \in ServerIds PROVE OutlivesCopies(r)'
    BY DEF MemoryInv
  <2>1. OutlivesCopies(r)
    BY DEF Inv, MemoryInv
  <2>2. \A p \in net' : p.to = "device" => p \in net /\ p.age \in Nat
    BY <1>1, <1>3, <1>5, TimesAssumption DEF Packets
  <2>3. peer' = peer /\ handled' = handled /\ peer[r].age \in Nat
    BY <1>1 DEF world, history, Inv, TypeOK
  <2>4. CASE r = request
    <3>1. \A time \in Int : time <= ServerSpan + Lifetime => Remembered(r, time)'
      BY <1>2, <1>4, <2>4, TimesAssumption DEF Remembered
    <3>2. Remembered(r, ServerSpan + Lifetime - peer[r].age)'
      BY <2>3, <3>1, TimesAssumption
    <3>3. \A p \in net' : p.to = "device" => Remembered(r, Lifetime - p.age)'
      BY <2>2, <3>1, TimesAssumption
    <3> QED
      BY <2>1, <2>3, <3>2, <3>3 DEF OutlivesCopies
  <2>5. CASE r # request
    <3>1. \A time : Remembered(r, time) => Remembered(r, time)'
      BY <1>4, <2>5 DEF Remembered
    <3> QED
      BY <2>1, <2>2, <2>3, <3>1 DEF OutlivesCopies, Repeats
  <2> QED
    BY <2>4, <2>5
<1>11. AcksAreHonest'
  BY <1>1 DEF Inv, AcksAreHonest, world, history
<1> QED
  BY <1>6, <1>7, <1>8, <1>9, <1>10, <1>11 DEF Inv

(* Connections: a loss changes nothing else; a new one, or a resumed one,  *)
(* forgets the requests of both sides.                                     *)
LEMMA LostStep ==
  ASSUME Inv, SessionLost
  PROVE  Inv'
<1>1. session' = FALSE /\ UNCHANGED <<stores, app, net, world, history>>
  BY DEF SessionLost
<1>2. session' \in BOOLEAN
  BY <1>1, Zenon
<1>3. TypeOK' /\ ClientInv' /\ ServerInv' /\ AcksAreHonest'
  BY <1>1, <1>2
  DEF Inv, TypeOK, ClientInv, ServerInv, AcksAreHonest, stores, app, world, history
<1>4. NetInv'
  BY <1>1 DEF Inv, NetInv, Truthful, world, history
<1>5. MemoryInv'
  BY <1>1 DEF Inv, MemoryInv, OutlivesCopies, Repeats, Remembered, stores, world, history
<1> QED
  BY <1>3, <1>4, <1>5 DEF Inv

\* A connection that ends fails what is pending, and nothing else.
LEMMA EndedFacts ==
  ASSUME Inv, outcome' = Ended(outcome, Requests, "failed"), peerGot' = peerGot
  PROVE  /\ outcome' \in [Requests -> Outcomes]
         /\ \A m \in Requests : outcome'[m] = "none" <=> outcome[m] = "none"
         /\ \A m \in Requests : outcome'[m] = "acked" => m \in peerGot
BY DEF Ended, Outcomes, Inv, TypeOK, AcksAreHonest

\* A new session starts with empty stores, and with nothing under way.
LEMMA EstablishStep ==
  ASSUME Inv, Establish
  PROVE  Inv'
<1>1. /\ session' = TRUE /\ client' = {} /\ server' = {} /\ net' = {} /\ request' = 0
      /\ peer' = [r \in ServerIds |-> [state |-> "new", age |-> 0]]
      /\ outcome' = Ended(outcome, Requests, "failed")
      /\ handled' = [r \in ServerIds |-> 0] /\ seen' = {}
      /\ message_id' = message_id /\ waiting' = waiting /\ peerGot' = peerGot
  BY DEF Establish
<1>2. /\ outcome' \in [Requests -> Outcomes]
      /\ \A m \in Requests : outcome'[m] = "none" <=> outcome[m] = "none"
      /\ \A m \in Requests : outcome'[m] = "acked" => m \in peerGot
  BY <1>1, EndedFacts
<1>3. session' \in BOOLEAN
  BY <1>1, Zenon
<1>4. peer' \in [ServerIds -> [state : {"new", "sent", "answered"}, age : 0 .. ServerSpan + 1]]
  BY <1>1, TimesAssumption
<1>5. TypeOK'
  BY <1>1, <1>2, <1>3, <1>4 DEF Inv, TypeOK, Outcomes
<1>6. /\ ClientInv' /\ ServerInv' /\ NetInv' /\ MemoryInv' /\ AcksAreHonest'
  BY <1>1, <1>2
  DEF Inv, ClientInv, ServerInv, NetInv, MemoryInv, OutlivesCopies, AcksAreHonest
<1> QED
  BY <1>5, <1>6 DEF Inv

\* A session resumed empties the stores, and leaves the datagrams under way.
LEMMA ResumeStep ==
  ASSUME Inv, Resume
  PROVE  Inv'
<1>1. /\ client' = {} /\ server' = {} /\ request' = 0
      /\ outcome' = Ended(outcome, Requests, "failed")
      /\ handled' = [r \in ServerIds |-> 0]
      /\ session' = session /\ message_id' = message_id /\ waiting' = waiting
      /\ net' = net /\ peer' = peer /\ peerGot' = peerGot /\ seen' = seen
  BY DEF Resume, world
<1>2. /\ outcome' \in [Requests -> Outcomes]
      /\ \A m \in Requests : outcome'[m] = "none" <=> outcome[m] = "none"
      /\ \A m \in Requests : outcome'[m] = "acked" => m \in peerGot
  BY <1>1, EndedFacts
<1>3. TypeOK'
  BY <1>1, <1>2 DEF Inv, TypeOK, Outcomes
<1>4. ClientInv' /\ ServerInv' /\ MemoryInv' /\ AcksAreHonest'
  BY <1>1, <1>2
  DEF Inv, ClientInv, ServerInv, MemoryInv, OutlivesCopies, AcksAreHonest
<1>5. NetInv'
  BY <1>1, <1>2 DEF Inv, NetInv, Truthful
<1> QED
  BY <1>3, <1>4, <1>5 DEF Inv

(* A tick: what is remembered gets a tick older, and so do the copies.     *)
LEMMA TickStep ==
  ASSUME Inv, Tick
  PROVE  Inv'
<1> DEFINE older(p) == [p EXCEPT !.age = @ + 1]
           aged(r) == IF peer[r].state = "sent" /\ peer[r].age <= ServerSpan
                      THEN [peer[r] EXCEPT !.age = @ + 1] ELSE peer[r]
<1>1. /\ client' = CountDown(client) /\ server' = CountDown(server)
      /\ net' = {older(p) : p \in {q \in net : q.age < Lifetime}}
      /\ peer' = [r \in ServerIds |-> aged(r)]
      /\ session' = session /\ message_id' = message_id /\ waiting' = waiting
      /\ request' = request /\ peerGot' = peerGot
      /\ outcome' = outcome /\ handled' = handled /\ seen' = seen
      /\ client \subseteq Entries /\ server \subseteq Entries /\ net \subseteq Packets
  BY DEF Tick, app, history, Inv, TypeOK
<1>2. ASSUME NEW p \in net, p.age < Lifetime
      PROVE  /\ older(p) \in Packets /\ older(p).to = p.to /\ older(p).type = p.type
             /\ older(p).id = p.id /\ older(p).age = p.age + 1 /\ p.age \in Nat
  <2>1. p \in Packets /\ p.age + 1 \in 0 .. Lifetime
    BY <1>1, <1>2, TimesAssumption DEF Packets
  <2> QED
    BY <2>1 DEF Packets
<1>3. ASSUME NEW r \in ServerIds
      PROVE  /\ aged(r) \in [state : {"new", "sent", "answered"}, age : 0 .. ServerSpan + 1]
             /\ aged(r).state = peer[r].state
             /\ Repeats(r) => aged(r).age = peer[r].age + 1
             /\ ~Repeats(r) => aged(r).age = peer[r].age
             /\ peer[r].age \in Nat
  <2>1. peer[r] \in [state : {"new", "sent", "answered"}, age : 0 .. ServerSpan + 1]
    BY DEF Inv, TypeOK
  <2>2. peer[r].age <= ServerSpan => peer[r].age + 1 \in 0 .. ServerSpan + 1
    BY <2>1, TimesAssumption
  <2> QED
    BY <2>1, <2>2 DEF Repeats
<1> HIDE DEF older, aged
<1>4. \A p \in net' : \E q \in net : q.age < Lifetime /\ p = older(q)
  BY <1>1
<1>5. \A p \in net' : \E q \in net :
        /\ p \in Packets /\ p.to = q.to /\ p.type = q.type /\ p.id = q.id
        /\ p.age = q.age + 1 /\ q.age \in Nat /\ q.age < Lifetime
  BY <1>2, <1>4
<1>6. \A r \in ServerIds :
        /\ peer'[r] \in [state : {"new", "sent", "answered"}, age : 0 .. ServerSpan + 1]
        /\ peer'[r].state = peer[r].state
        /\ Repeats(r) => peer'[r].age = peer[r].age + 1
        /\ ~Repeats(r) => peer'[r].age = peer[r].age
        /\ peer[r].age \in Nat
  BY <1>1, <1>3
<1>7. peer' \in [ServerIds -> [state : {"new", "sent", "answered"}, age : 0 .. ServerSpan + 1]]
  BY <1>1, <1>3
<1>8. /\ client' \subseteq Entries /\ server' \subseteq Entries
      /\ \A e \in client' : \E o \in client : Alike(e, o)
      /\ \A e \in server' : \E o \in server : Alike(e, o) /\ e.count = o.count
      /\ \A o \in server : o.left # 0 =>
           \E e \in server' : e.id = o.id /\ e.left = o.left - 1
  BY <1>1, CountDownFacts
<1>9. TypeOK'
  BY <1>1, <1>5, <1>7, <1>8 DEF Inv, TypeOK
<1>10. ClientInv' /\ ServerInv'
  <2>1. ClientInv'
    BY <1>1, <1>8 DEF Inv, ClientInv, Alike
  <2>2. ServerInv'
    BY <1>1, <1>8 DEF Inv, ServerInv, Alike
  <2> QED
    BY <2>1, <2>2
<1>11. NetInv'
  <2> SUFFICES ASSUME NEW p \in net' PROVE Truthful(p)'
    BY DEF NetInv
  <2>1. PICK q \in net : p.to = q.to /\ p.type = q.type /\ p.id = q.id
    BY <1>5
  <2>2. Truthful(q)
    BY DEF Inv, NetInv
  <2> QED
    BY <1>1, <1>6, <2>1, <2>2 DEF Truthful
<1>12. MemoryInv'
  <2> SUFFICES ASSUME NEW r \in ServerIds, handled[r] # 0
               PROVE  /\ peer'[r].state # "new"
                      /\ Repeats(r)' => Remembered(r, ServerSpan + Lifetime - peer[r].age)'
                      /\ \A p \in net' : p.to = "device" /\ p.type = "con" /\ p.id = r =>
                           Remembered(r, Lifetime - p.age)'
    BY <1>1 DEF MemoryInv, OutlivesCopies
  <2>1. OutlivesCopies(r)
    BY DEF Inv, MemoryInv
  <2>2. \A time \in Nat : Remembered(r, time) => Remembered(r, time - 1)'
    BY <1>1, <1>8 DEF Remembered, Entries
  <2>3. Repeats(r)' => /\ Repeats(r) /\ peer'[r].age = peer[r].age + 1
                      /\ ServerSpan + Lifetime - peer[r].age \in Nat
    BY <1>6, TimesAssumption DEF Repeats
  <2>4. Repeats(r)' => Remembered(r, ServerSpan + Lifetime - peer[r].age)'
    <3> SUFFICES ASSUME Repeats(r)' PROVE Remembered(r, ServerSpan + Lifetime - peer[r].age)'
      OBVIOUS
    <3>1. Remembered(r, ServerSpan + Lifetime - peer[r].age)
      BY <2>1, <2>3 DEF OutlivesCopies
    <3>2. PICK time \in Nat : time = ServerSpan + Lifetime - peer[r].age
      BY <2>3
    <3>3. Remembered(r, time - 1)'
      BY <2>2, <3>1, <3>2
    <3>4. time - 1 = ServerSpan + Lifetime - peer'[r].age
      BY <1>6, <2>3, <3>2, TimesAssumption
    <3> QED
      BY <3>3, <3>4 DEF Remembered
  <2>5. ASSUME NEW p \in net', p.to = "device", p.type = "con", p.id = r
        PROVE  Remembered(r, Lifetime - p.age)'
    <3>1. PICK q \in net : /\ q.to = "device" /\ q.type = "con" /\ q.id = r
                           /\ p.age = q.age + 1 /\ q.age \in Nat /\ q.age < Lifetime
      BY <1>5, <2>5
    <3>2. Remembered(r, Lifetime - q.age) /\ Lifetime - q.age \in Nat
      BY <2>1, <3>1, TimesAssumption DEF OutlivesCopies
    <3>3. Lifetime - p.age = Lifetime - q.age - 1
      BY <3>1, TimesAssumption
    <3> QED
      BY <2>2, <3>2, <3>3
  <2> QED
    BY <1>6, <2>1, <2>4, <2>5 DEF OutlivesCopies
<1>13. AcksAreHonest'
  BY <1>1, <1>6 DEF Inv, AcksAreHonest
<1> QED
  BY <1>9, <1>10, <1>11, <1>12, <1>13 DEF Inv

(* The server: a request of it is sent, again or for the first time.       *)
LEMMA ServerSendStep ==
  ASSUME Inv, NEW r \in ServerIds, ServerSend(r)
  PROVE  Inv'
<1> DEFINE d == Packet("device", "con", r)
<1>1. /\ peer[r].state = "new" \/ Repeats(r)
      /\ peer' = [peer EXCEPT ![r].state = "sent"] /\ net' = net \cup {d}
      /\ session' = session /\ client' = client /\ server' = server
      /\ message_id' = message_id /\ waiting' = waiting /\ request' = request
      /\ peerGot' = peerGot /\ outcome' = outcome /\ handled' = handled /\ seen' = seen
  BY DEF ServerSend, Repeats, stores, app, history
<1>2. d \in Packets /\ d.to = "device" /\ d.type = "con" /\ d.id = r /\ d.age = 0
  BY PacketFacts DEF Ids
<1> HIDE DEF d
<1>3. peer \in [ServerIds -> [state : {"new", "sent", "answered"}, age : 0 .. ServerSpan + 1]]
  BY DEF Inv, TypeOK
<1>4. /\ peer' \in [ServerIds -> [state : {"new", "sent", "answered"}, age : 0 .. ServerSpan + 1]]
      /\ peer'[r].state = "sent" /\ peer'[r].age = peer[r].age
      /\ \A s \in ServerIds \ {r} : peer'[s] = peer[s]
  BY <1>1, <1>3
<1>5. TypeOK'
  BY <1>1, <1>2, <1>4 DEF Inv, TypeOK
<1>6. ClientInv' /\ ServerInv'
  BY <1>1 DEF Inv, ClientInv, ServerInv
<1>7. NetInv'
  <2> SUFFICES ASSUME NEW p \in net' PROVE Truthful(p)'
    BY DEF NetInv
  <2>1. CASE p \in net
    <3>1. Truthful(p)
      BY <2>1 DEF Inv, NetInv
    <3>2. \A s \in ServerIds : peer[s].state # "new" => peer'[s].state # "new"
      BY <1>4
    <3> QED
      BY <1>1, <3>1, <3>2 DEF Truthful
  <2>2. CASE p = d
    BY <1>2, <1>4, <2>2 DEF Truthful
  <2> QED
    BY <1>1, <2>1, <2>2
<1>8. MemoryInv'
  <2> SUFFICES ASSUME NEW s \in ServerIds PROVE OutlivesCopies(s)'
    BY DEF MemoryInv
  <2>1. OutlivesCopies(s)
    BY DEF Inv, MemoryInv
  <2>2. \A time : Remembered(s, time) <=> Remembered(s, time)'
    BY <1>1 DEF Remembered
  <2>3. CASE s # r
    <3>1. \A p \in net' : p.id = s => p \in net
      BY <1>1, <1>2, <2>3
    <3>2. peer'[s] = peer[s]
      BY <1>4, <2>3
    <3> QED
      BY <1>1, <2>1, <3>1, <3>2 DEF OutlivesCopies, Repeats, Remembered
  <2>4. CASE s = r /\ handled[r] # 0
    <3>1. Repeats(r) /\ peer[r].age \in Nat /\ peer[r].age <= ServerSpan
      BY <1>1, <1>3, <2>1, <2>4 DEF OutlivesCopies, Repeats
    <3>2. Remembered(r, ServerSpan + Lifetime - peer[r].age)
      BY <2>1, <2>4, <3>1 DEF OutlivesCopies
    <3>3. Remembered(r, Lifetime)
      <4>1. ServerSpan + Lifetime - peer[r].age >= Lifetime
        BY <3>1, TimesAssumption
      <4>2. ServerSpan + Lifetime - peer[r].age \in Int
        BY <3>1, TimesAssumption
      <4>3. server \subseteq Entries
        BY DEF Inv, TypeOK
      <4> QED
        BY <3>2, <4>1, <4>2, <4>3, TimesAssumption DEF Remembered, Entries
    <3>4. \A p \in net' : p \in net \/ p.age = 0
      BY <1>1, <1>2
    <3>5. Lifetime - 0 = Lifetime
      BY TimesAssumption
    <3>6. \A p \in net' : p.to = "device" /\ p.type = "con" /\ p.id = r =>
            Remembered(r, Lifetime - p.age)
      BY <2>1, <2>4, <3>3, <3>4, <3>5 DEF OutlivesCopies
    <3> QED
      BY <1>1, <1>4, <2>4, <3>2, <3>6 DEF OutlivesCopies, Remembered
  <2>5. CASE s = r /\ handled[r] = 0
    BY <1>1, <2>5 DEF OutlivesCopies
  <2> QED
    BY <2>3, <2>4, <2>5
<1>9. AcksAreHonest'
  BY <1>1, <1>4 DEF Inv, AcksAreHonest
<1> QED
  BY <1>5, <1>6, <1>7, <1>8, <1>9 DEF Inv

(* Or it gets a datagram of the device: an answer to a request of its own, *)
(* or a request, which it answers.                                         *)
LEMMA ServerReceiveStep ==
  ASSUME Inv, NEW p \in net, ServerReceive(p)
  PROVE  Inv'
<1>1. /\ p.to = "server" /\ Truthful(p) /\ p \in Packets
      /\ session' = session /\ client' = client /\ server' = server
      /\ message_id' = message_id /\ waiting' = waiting /\ request' = request
      /\ outcome' = outcome /\ handled' = handled /\ seen' = seen
      /\ peer \in [ServerIds -> [state : {"new", "sent", "answered"}, age : 0 .. ServerSpan + 1]]
  BY DEF ServerReceive, stores, app, history, Inv, NetInv, TypeOK
<1>2. CASE p.type = "ack"
  <2>1. /\ peer' = [peer EXCEPT ![p.id].state = "answered"] /\ net' = net \ {p}
        /\ peerGot' = peerGot /\ p.id \in ServerIds /\ p.id \in seen
    BY <1>1, <1>2 DEF ServerReceive, Truthful
  <2>2. /\ peer' \in [ServerIds -> [state : {"new", "sent", "answered"}, age : 0 .. ServerSpan + 1]]
        /\ peer'[p.id].state = "answered"
        /\ \A s \in ServerIds \ {p.id} : peer'[s] = peer[s]
    BY <1>1, <2>1
  <2>3. TypeOK' /\ ClientInv' /\ ServerInv'
    BY <1>1, <2>1, <2>2 DEF Inv, TypeOK, ClientInv, ServerInv
  <2>4. NetInv'
    <3>1. \A s \in ServerIds : peer[s].state # "new" => peer'[s].state # "new"
      BY <2>2
    <3> QED
      BY <1>1, <2>1, <3>1 DEF Inv, NetInv, Truthful
  <2>5. MemoryInv'
    <3> SUFFICES ASSUME NEW s \in ServerIds PROVE OutlivesCopies(s)'
      BY DEF MemoryInv
    <3>1. OutlivesCopies(s)
      BY DEF Inv, MemoryInv
    <3>2. /\ peer[s].state # "new" => peer'[s].state # "new"
          /\ Repeats(s)' => peer'[s] = peer[s]
      BY <2>2 DEF Repeats
    <3> QED
      BY <1>1, <2>1, <3>1, <3>2 DEF OutlivesCopies, Repeats, Remembered
  <2>6. AcksAreHonest'
    BY <1>1, <2>1, <2>2 DEF Inv, AcksAreHonest
  <2> QED
    BY <2>3, <2>4, <2>5, <2>6 DEF Inv
<1>3. CASE p.type = "con"
  <2>1. PICK type \in {"ack", "reset"} : net' = (net \ {p}) \cup {Packet("device", type, p.id)}
    BY <1>1, <1>3 DEF ServerReceive
  <2>2. peerGot' = peerGot \cup {p.id} /\ peer' = peer /\ p.id \in Requests
    BY <1>1, <1>3 DEF ServerReceive, Truthful
  <2> DEFINE d == Packet("device", type, p.id)
  <2>3. d \in Packets /\ d.to = "device" /\ d.type # "con" /\ d.id = p.id
    BY <2>2, PacketFacts DEF Ids
  <2>4. net' = (net \ {p}) \cup {d}
    BY <2>1
  <2> HIDE DEF d
  <2>5. TypeOK' /\ ClientInv' /\ ServerInv'
    BY <1>1, <2>2, <2>3, <2>4 DEF Inv, TypeOK, ClientInv, ServerInv
  <2>6. NetInv'
    <3> SUFFICES ASSUME NEW x \in net' PROVE Truthful(x)'
      BY DEF NetInv
    <3>1. CASE x \in net
      BY <1>1, <2>2, <3>1 DEF Inv, NetInv, Truthful
    <3>2. CASE x = d
      BY <2>2, <2>3, <3>2 DEF Truthful
    <3> QED
      BY <2>4, <3>1, <3>2
  <2>7. MemoryInv'
    <3>1. \A x \in net' : x.type = "con" => x \in net
      BY <2>3, <2>4
    <3> QED
      BY <1>1, <2>2, <3>1 DEF Inv, MemoryInv, OutlivesCopies, Repeats, Remembered
  <2>8. AcksAreHonest'
    BY <1>1, <2>2 DEF Inv, AcksAreHonest
  <2> QED
    BY <2>5, <2>6, <2>7, <2>8 DEF Inv
<1> QED
  BY <1>2, <1>3 DEF ServerReceive

\* Every step keeps the invariant.
LEMMA InvNext == Inv /\ [Next]_vars => Inv'
<1> SUFFICES ASSUME Inv, [Next]_vars PROVE Inv'
  OBVIOUS
<1>1. CASE UNCHANGED vars
  BY <1>1
  DEF vars, stores, app, world, history, Inv, TypeOK, ClientInv, ServerInv, NetInv, Truthful,
      MemoryInv, OutlivesCopies, Repeats, Remembered, AcksAreHonest
<1>2. CASE EventLoop
  BY <1>2, ReceiveEffect, SyncEffect, LoopKeepsInv DEF EventLoop
<1> QED
  BY <1>1, <1>2, SendStep, ReplyStep, LostStep, EstablishStep, ResumeStep, TickStep,
     ServerSendStep, ServerReceiveStep
  DEF Next, Application, Connection, Server

\* The inductive invariant holds throughout.
LEMMA InvAlways == Spec => []Inv
BY InvInit, InvNext, PTL DEF Spec

-----------------------------------------------------------------------------
(* Type correctness.                                                       *)
THEOREM TypeCorrect == Spec => []TypeOK
<1>1. Inv => TypeOK
  BY DEF Inv
<1> QED
  BY <1>1, InvAlways, PTL

(* Nobody is told a lie, whatever the network loses, repeats or reorders:  *)
(* a request is reported acknowledged only when the server has got it, and *)
(* the server sees an answer only to a request that was handled            *)
(* (from_id() and clear_message() of the two stores).                      *)
THEOREM HonestAcks == Spec => []AcksAreHonest
<1>1. Inv => AcksAreHonest
  BY DEF Inv
<1> QED
  BY <1>1, InvAlways, PTL

\* The initial states are those of the abstract exchange.
LEMMA ExchangeInitial == Init => PromisedExchange!ExchangeInit
BY DEF Init, PromisedExchange!ExchangeInit

\* Every step is one of the abstract exchange, or leaves it alone.
LEMMA ExchangeStep ==
  Inv /\ [Next]_vars => [PromisedExchange!ExchangeNext]_(PromisedExchange!exchangeVars)
<1> SUFFICES ASSUME Inv, [Next]_vars
             PROVE  PromisedExchange!ExchangeNext \/ UNCHANGED <<outcome, peerGot, handled>>
  BY DEF PromisedExchange!exchangeVars
<1>1. /\ outcome \in [Requests -> Outcomes] /\ handled \in [ServerIds -> 0 .. 2]
  BY DEF Inv, TypeOK, Outcomes
<1>2. CASE Send \/ SendSynchronous
  <2>1. /\ message_id' \in Requests /\ peerGot' = peerGot /\ handled' = handled
        /\ message_id' > message_id
    BY <1>2, RequestsAssumption DEF Send, SendSynchronous, Inv, TypeOK, Requests, world
  <2>2. PICK how \in {"pending", "failed"} : outcome' = [outcome EXCEPT ![message_id'] = how]
    BY <1>2 DEF Send, SendSynchronous
  <2>3. outcome[message_id'] = "none"
    BY <2>1 DEF Inv, ClientInv
  <2>4. PromisedExchange!Conclude
    <3>1. outcome' \in [Requests -> Outcomes]
      BY <1>1, <2>1, <2>2 DEF Outcomes
    <3>2. ASSUME NEW m \in Requests PROVE PromisedExchange!Proceed(m)
      BY <1>1, <2>1, <2>2, <2>3 DEF PromisedExchange!Proceed
    <3> QED
      BY <3>1, <3>2 DEF PromisedExchange!Conclude, Outcomes
  <2> QED
    BY <2>1, <2>4 DEF PromisedExchange!ExchangeNext, PromisedExchange!Work
<1>3. CASE EventLoop
  <2>1. LoopEffect /\ (Calm \/ \E p \in net : Passes(p))
    BY <1>3, ReceiveEffect, SyncEffect DEF EventLoop
  <2>2. PromisedExchange!Conclude /\ peerGot' = peerGot
    BY <2>1 DEF LoopEffect, Concluding, Concludes, Outcomes, PromisedExchange!Conclude,
                PromisedExchange!Proceed
  <2>3. handled' = handled \/ \E r \in ServerIds : handled[r] = 0 /\ handled' = [handled EXCEPT ![r] = 1]
    <3> SUFFICES ASSUME NEW p \in net, Passes(p)
                 PROVE  \E r \in ServerIds : handled[r] = 0 /\ handled' = [handled EXCEPT ![r] = 1]
      BY <2>1 DEF Calm
    <3>1. /\ p.id \in ServerIds /\ p.to = "device" /\ p.type = "con" /\ ~Known(server, p.id)
          /\ handled' = Counted(handled, p.id) /\ OutlivesCopies(p.id)
      BY DEF Passes, Inv, NetInv, Truthful, MemoryInv
    <3>2. handled[p.id] = 0
      BY <3>1 DEF OutlivesCopies, Remembered, Known
    <3>3. handled' = [handled EXCEPT ![p.id] = 1]
      BY <3>1, <3>2 DEF Counted
    <3> QED
      BY <3>1, <3>2, <3>3
  <2> QED
    BY <2>2, <2>3 DEF PromisedExchange!ExchangeNext, PromisedExchange!Work
<1>4. CASE Establish \/ Resume
  <2>1. /\ outcome' = Ended(outcome, Requests, "failed") /\ peerGot' = peerGot
        /\ handled' = [r \in ServerIds |-> 0]
    BY <1>4 DEF Establish, Resume, world
  <2>2. Ended(outcome, Requests, "failed") =
          [m \in Requests |-> IF outcome[m] = "pending" THEN "failed" ELSE outcome[m]]
    BY DEF Ended
  <2> QED
    BY <2>1, <2>2 DEF PromisedExchange!ExchangeNext, PromisedExchange!Reconnect
<1>5. ASSUME NEW p \in net, ServerReceive(p)
      PROVE  PromisedExchange!ExchangeNext \/ UNCHANGED <<outcome, peerGot, handled>>
  <2>1. outcome' = outcome /\ handled' = handled
    BY <1>5 DEF ServerReceive, history
  <2>2. CASE p.type = "ack"
    BY <1>5, <2>1, <2>2 DEF ServerReceive
  <2>3. CASE p.type = "con"
    <3>1. p.id \in Requests /\ outcome[p.id] # "none"
      BY <1>5, <2>3 DEF ServerReceive, Inv, NetInv, Truthful
    <3>2. peerGot' = peerGot \cup {p.id}
      BY <1>5, <2>3 DEF ServerReceive
    <3> QED
      BY <2>1, <3>1, <3>2 DEF PromisedExchange!ExchangeNext, PromisedExchange!Arrive
  <2> QED
    BY <1>5, <2>2, <2>3 DEF ServerReceive
<1>6. CASE Reply \/ SessionLost \/ Tick \/ (\E r \in ServerIds : ServerSend(r)) \/ UNCHANGED vars
  BY <1>6 DEF Reply, SessionLost, Tick, ServerSend, vars, world, history
<1> QED
  BY <1>2, <1>3, <1>4, <1>5, <1>6 DEF Next, Application, Connection, Server

(* The stores and timers implement the abstract exchange, whatever the ids *)
(* of the two sides and the times: a request of the device comes to one    *)
(* conclusion, and a request of the server, however often it is repeated,  *)
(* is passed on once in a connection (coap_channel.h:646-690).             *)
THEOREM ImplementsExchange == Spec => ExchangeImplemented
BY ExchangeInitial, ExchangeStep, InvAlways, PTL
   DEF Spec, ExchangeImplemented, PromisedExchange!ExchangeSpec

-----------------------------------------------------------------------------
(* Why the ticks left to a timeout may stand for two readings of a clock.  *)

(* A timeout d ticks ahead has passed exactly when d ticks or more have    *)
(* gone by, wherever the clock wraps, if it is looked at less than half a  *)
(* turn of the clock late: the comparison process() makes is right.        *)
THEOREM ExpiryIsExact ==
  ASSUME NEW half \in Nat \ {0}, NEW start \in 0 .. 2 * half - 1,
         NEW d \in Nat, d < half, NEW e \in Nat, e < d + half
  PROVE  time_has_passed(half, After(half, start, e), After(half, start, d)) <=> e >= d
<1> DEFINE wraps(t) == start + t >= 2 * half
           now      == After(half, start, e)
           tick     == After(half, start, d)
<1>1. /\ now = IF wraps(e) THEN start + e - 2 * half ELSE start + e
      /\ tick = IF wraps(d) THEN start + d - 2 * half ELSE start + d
      /\ now \in Int /\ tick \in Int
  BY DEF After
<1> SUFFICES time_has_passed(half, now, tick) <=> e >= d
  OBVIOUS
<1> HIDE DEF now, tick
<1>2. CASE wraps(e) <=> wraps(d)
  <2>1. now - tick = e - d
    BY <1>1, <1>2
  <2> QED
    BY <1>1, <2>1 DEF time_has_passed
<1>3. CASE wraps(e) /\ ~wraps(d)
  <2>1. tick - now = 2 * half - (e - d) /\ e >= d /\ tick > now
    BY <1>1, <1>3
  <2> QED
    BY <1>1, <2>1 DEF time_has_passed
<1>4. CASE ~wraps(e) /\ wraps(d)
  <2>1. now - tick = 2 * half - (d - e) /\ d > e /\ now > tick
    BY <1>1, <1>4
  <2> QED
    BY <1>1, <2>1 DEF time_has_passed
<1> QED
  BY <1>2, <1>3, <1>4
=============================================================================
