--------------------------- MODULE Session_proofs ---------------------------
(***************************************************************************)
(* Proofs about the persisted DTLS session, for any topics, descriptions   *)
(* and identities of sessions, and wherever the numbers are cut.           *)
(***************************************************************************)
EXTENDS Session, TLAPS

(* Where the thread is, or will be when the record is accounted for.       *)
Place == IF pc = "save" THEN then ELSE pc

Connected == pc # "off"

(* The session in RAM is the one of the connection, and will be saved,     *)
(* unless the server has not answered the first hello in it yet.           *)
RamInv ==
  Connected => /\ ssl.sid # 0 /\ sessionPersist.sid = ssl.sid
               /\ sessionPersist.persistent \/ Place \in {"hello", "greeting"}

(* The copy agrees with the members in RAM whenever these are to be saved, *)
(* and there is none as long as they are not.                              *)
CopyInv ==
  /\ session.sid # 0 => session.persistent
  /\ Connected /\ ~sessionPersist.persistent => session.sid = 0
  /\ Connected /\ sessionPersist.persistent =>
       /\ session.sid = ssl.sid
       /\ session.ctr = sessionPersist.ctr /\ session.id = sessionPersist.id

(* The members in RAM lag behind the connection only between a write and   *)
(* the update that follows it, or before the first record of a session.    *)
NumbersInv ==
  /\ Connected /\ pc # "save" =>
       /\ sessionPersist.ctr = ssl.ctr
       /\ sessionPersist.persistent \/ pc # "hello" => sessionPersist.id = message_id
  /\ pc = "save" /\ sessionPersist.persistent =>
       /\ sessionPersist.ctr <= ssl.ctr
       /\ sessionPersist.id <= message_id

(* The server is not ahead of the connection.                              *)
ServerInv ==
  Connected /\ server.sid = ssl.sid => server.high <= ssl.ctr /\ server.id <= message_id + 1

(* Nor, by more than the record in progress, of the copy in retained       *)
(* memory; and it has got a hello in the session kept there.               *)
RetainedInv ==
  session.sid # 0 /\ session.sid = server.sid =>
    /\ server.high <= session.ctr /\ server.id <= session.id + 1
    /\ server.greeted

Inv == TypeOK /\ RamInv /\ CopyInv /\ NumbersInv /\ ServerInv /\ RetainedInv

-----------------------------------------------------------------------------
(* Type correctness.                                                       *)

SslType    == [sid : Sids \cup {0}, ctr : Numbers]
ServerType == [sid : Sids \cup {0}, high : Numbers, id : Numbers, greeted : BOOLEAN]

(* A number that is counted on stays in bounds and goes up by one at most. *)
LEMMA CountedType ==
  ASSUME NEW n \in Numbers
  PROVE  Counted(n) \in Numbers /\ n <= Counted(n) /\ Counted(n) <= n + 1
BY SessionAssumption DEF Numbers, Counted

(* The session that is not there is one.                                   *)
LEMMA BlankType == Blank \in Members /\ Closed \in SslType
BY SessionAssumption DEF Blank, Closed, Members, SslType, Numbers

(* What writing a record changes: numbers go up by one at most, and the    *)
(* server, when it takes it, knows the numbers it was written with.        *)
LEMMA WriteFacts ==
  ASSUME TypeOK, NEW next, NEW request \in BOOLEAN, NEW hello \in BOOLEAN,
         Write(next, request, hello)
  PROVE  /\ pc' = "save" /\ then' = next
         /\ skip' = skip /\ sessionPersist' = sessionPersist /\ session' = session
         /\ ssl' \in SslType /\ ssl'.sid = ssl.sid /\ ssl.ctr <= ssl'.ctr
         /\ message_id' \in Numbers
         /\ message_id <= message_id' /\ message_id' <= message_id + 1
         /\ server' \in ServerType /\ server'.sid = server.sid
         /\ server.greeted => server'.greeted
         /\ \/ server' = server
            \/ /\ server'.high = ssl.ctr
               /\ server'.id = server.id \/ server'.id = message_id'
<1>1. ssl \in SslType /\ message_id \in Numbers /\ server \in ServerType
  BY Zenon DEF TypeOK, SslType, ServerType
<1>2. /\ pc' = "save" /\ then' = next
      /\ skip' = skip /\ sessionPersist' = sessionPersist /\ session' = session
      /\ ssl' = [ssl EXCEPT !.ctr = Counted(ssl.ctr)]
      /\ message_id' = IF request THEN Counted(message_id) ELSE message_id
  BY DEF Write
<1>3. Counted(ssl.ctr) \in Numbers /\ ssl.ctr <= Counted(ssl.ctr)
  BY <1>1, CountedType DEF SslType
<1>4. ssl' \in SslType /\ ssl'.sid = ssl.sid /\ ssl.ctr <= ssl'.ctr
  BY <1>1, <1>2, <1>3 DEF SslType
<1>5. /\ message_id' \in Numbers
      /\ message_id <= message_id' /\ message_id' <= message_id + 1
  <2>1. CASE request
    BY <1>1, <1>2, <2>1, CountedType
  <2>2. CASE ~request
    BY <1>1, <1>2, <2>2 DEF Numbers
  <2> QED
    BY <2>1, <2>2
<1>6. CASE server' = server
  BY <1>1, <1>2, <1>4, <1>5, <1>6
<1>7. CASE server' = [server EXCEPT !.high = ssl.ctr,
                                    !.id = IF request THEN message_id' ELSE server.id,
                                    !.greeted = server.greeted \/ hello]
  <2>1. /\ ssl.ctr \in Numbers /\ (server.greeted \/ hello) \in BOOLEAN
        /\ (IF request THEN message_id' ELSE server.id) \in Numbers
    BY <1>1, <1>5 DEF SslType, ServerType
  <2>2. /\ server' \in ServerType /\ server'.sid = server.sid
        /\ server'.high = ssl.ctr
        /\ server'.id = IF request THEN message_id' ELSE server.id
        /\ server'.greeted = (server.greeted \/ hello)
    BY <1>1, <1>7, <2>1 DEF ServerType
  <2>3. server.greeted => server'.greeted
    BY <2>2
  <2> QED
    BY <1>2, <1>4, <1>5, <2>2, <2>3
<1> QED
  BY <1>6, <1>7 DEF Write

\* The types hold at the first power-on.
LEMMA TypeInit == Init => TypeOK
<1> SUFFICES ASSUME Init PROVE TypeOK
  OBVIOUS
<1>1. sessionPersist \in Members /\ session \in Members /\ ssl \in SslType
  BY BlankType DEF Init
<1>2. server \in ServerType /\ message_id \in Numbers
  BY SessionAssumption DEF Init, ServerType, Numbers
<1>3. app \in [subs : SUBSET Topics, described : Descriptions]
  BY SessionAssumption DEF Init
<1>4. /\ pc \in Places \cup {"save"} /\ then \in Places /\ unsent \subseteq Topics
      /\ skip \in BOOLEAN /\ open \in BOOLEAN
  BY DEF Init, Places
<1> QED
  BY <1>1, <1>2, <1>3, <1>4 DEF TypeOK, SslType, ServerType

\* Every step keeps the types.
LEMMA TypeNext == TypeOK /\ [Next]_vars => TypeOK'
<1> SUFFICES ASSUME TypeOK, [Next]_vars PROVE TypeOK'
  OBVIOUS
<1> DEFINE Typed ==
      /\ pc \in Places \cup {"save"} /\ then \in Places /\ unsent \subseteq Topics
      /\ ssl \in SslType /\ message_id \in Numbers
      /\ sessionPersist \in Members /\ session \in Members
      /\ app \in [subs : SUBSET Topics, described : Descriptions]
      /\ skip \in BOOLEAN /\ open \in BOOLEAN /\ server \in ServerType
<1>a. Typed
  BY Zenon DEF TypeOK, SslType, ServerType
<1>b. SUFFICES Typed'
  BY Zenon DEF TypeOK, SslType, ServerType
<1>w. ASSUME NEW next \in Places, NEW request \in BOOLEAN, NEW hello \in BOOLEAN,
             Write(next, request, hello)
      PROVE  /\ pc' \in Places \cup {"save"} /\ then' \in Places
             /\ ssl' \in SslType /\ message_id' \in Numbers
             /\ sessionPersist' \in Members /\ session' \in Members
             /\ skip' \in BOOLEAN /\ server' \in ServerType
  BY <1>a, <1>w, WriteFacts
<1>r. ASSUME ResetSession
      PROVE  ssl' \in SslType /\ sessionPersist' \in Members /\ session' \in Members
  <2>1. 0 \in Numbers
    BY SessionAssumption DEF Numbers
  <2>2. sessionPersist' \in Members
    BY <1>a, <1>r, <2>1 DEF ResetSession, Members
  <2> QED
    BY <1>r, <2>2, BlankType DEF ResetSession
<1> USE DEF Places
<1>1. CASE Update
  <2>1. sessionPersist' \in Members
    BY <1>a, <1>1 DEF Update, Members, SslType
  <2> QED
    BY <1>a, <1>1, <2>1 DEF Update
<1>2. CASE Begin
  <2>1. CASE Resume
    <3>1. /\ sessionPersist' \in Members /\ message_id' \in Numbers /\ ssl' \in SslType
      BY <1>a, <2>1 DEF Resume, Members, SslType
    <3> QED
      BY <1>a, <2>1, <3>1 DEF Resume
  <2>2. CASE Handshake
    <3>1. 0 \in Numbers /\ 1 \in Numbers
      BY SessionAssumption DEF Numbers
    <3>2. PICK sid \in Sids \ {server.sid} :
            /\ ssl' = [sid |-> sid, ctr |-> 1]
            /\ server' = [sid |-> sid, high |-> 0, id |-> 0, greeted |-> FALSE]
            /\ sessionPersist' =
                 [sessionPersist EXCEPT !.sid = sid, !.persistent = FALSE, !.ctr = 1, !.id = 0]
      BY <2>2 DEF Handshake
    <3>3. ssl' \in SslType /\ server' \in ServerType
      BY <3>1, <3>2 DEF SslType, ServerType
    <3>4. sessionPersist' \in Members
      BY <1>a, <3>1, <3>2 DEF Members
    <3> QED
      BY <1>a, <2>2, <3>3, <3>4 DEF Handshake
  <2>3. CASE Ping
    BY <1>a, <1>w, <2>3 DEF Ping
  <2>4. CASE Hello
    BY <1>a, <1>w, <2>4 DEF Hello
  <2>5. CASE Greeted
    <3>1. sessionPersist' \in Members
      BY <1>a, <2>5 DEF Greeted, Members
    <3> QED
      BY <1>a, <2>5, <3>1 DEF Greeted
  <2> QED
    BY <1>2, <2>1, <2>2, <2>3, <2>4, <2>5 DEF Begin
<1>3. CASE State
  <2>1. ASSUME NEW t \in Topics, Announce(t) PROVE Typed'
    <3>1. unsent' \subseteq Topics /\ app' = app /\ open' = TRUE
      BY <1>a, <2>1 DEF Announce
    <3>2. CASE unsent' = {}
      <4>1. Write("subscribed", TRUE, FALSE)
        BY <2>1, <3>2 DEF Announce
      <4> QED
        BY <1>a, <1>w, <3>1, <4>1
    <3>3. CASE unsent' # {}
      <4>1. Write("announce", TRUE, FALSE)
        BY <2>1, <3>3 DEF Announce
      <4> QED
        BY <1>a, <1>w, <3>1, <4>1
    <3> QED
      BY <3>2, <3>3
  <2>2. ASSUME NEW t \in Topics, Subscribe(t) PROVE Typed'
    <3>1. app' \in [subs : SUBSET Topics, described : Descriptions]
      BY <1>a, <2>2 DEF Subscribe
    <3>2. Write("subscribed", TRUE, FALSE) /\ unsent' = unsent /\ open' = TRUE
      BY <2>2 DEF Subscribe
    <3> QED
      BY <1>a, <1>w, <3>1, <3>2
  <2>3. CASE PersistSubscriptions
    <3>1. session' \in Members
      BY <1>a, <2>3 DEF PersistSubscriptions, Members
    <3> QED
      BY <1>a, <2>3, <3>1 DEF PersistSubscriptions
  <2>4. CASE Describe
    BY <1>a, <1>w, <2>4 DEF Describe
  <2>5. CASE PersistDescription
    <3>1. session' \in Members
      BY <1>a, <2>5 DEF PersistDescription, Members
    <3> QED
      BY <1>a, <2>5, <3>1 DEF PersistDescription
  <2>6. CASE Register
    <3>1. app' \in [subs : SUBSET Topics, described : Descriptions]
      BY <1>a, <2>6 DEF Register
    <3> QED
      BY <1>a, <2>6, <3>1 DEF Register, device
  <2> QED
    BY <1>3, <2>1, <2>2, <2>3, <2>4, <2>5, <2>6 DEF State
<1>4. CASE Link
  <2>1. CASE Publish
    BY <1>a, <1>w, <2>1 DEF Publish
  <2>2. CASE KeepAlive
    BY <1>a, <1>w, <2>2 DEF KeepAlive
  <2>3. CASE Retransmit
    BY <1>a, <1>w, <2>3 DEF Retransmit
  <2>4. CASE Acknowledged
    BY <1>a, <2>4 DEF Acknowledged, device
  <2>5. CASE GiveUp
    BY <1>a, <1>r, <2>5 DEF GiveUp
  <2>6. CASE SessionLost
    BY <1>a, <1>r, <2>6 DEF SessionLost
  <2>7. CASE Disconnect
    BY <1>a, <2>7, BlankType DEF Disconnect
  <2>8. CASE Discard
    BY <1>a, <2>8, BlankType DEF Discard
  <2> QED
    BY <1>4, <2>1, <2>2, <2>3, <2>4, <2>5, <2>6, <2>7, <2>8 DEF Link
<1>5. CASE Reset
  <2>1. app' \in [subs : SUBSET Topics, described : Descriptions] /\ message_id' \in Numbers
    BY <1>5, SessionAssumption DEF Reset, Numbers
  <2> QED
    BY <1>a, <1>5, <2>1, BlankType DEF Reset
<1>6. CASE ServerForgets
  <2>1. server' \in ServerType
    BY <1>6, SessionAssumption DEF ServerForgets, ServerType, Numbers
  <2> QED
    BY <1>a, <1>6, <2>1 DEF ServerForgets, device
<1>7. CASE UNCHANGED vars
  BY <1>a, <1>7 DEF vars, device
<1> QED
  BY <1>1, <1>2, <1>3, <1>4, <1>5, <1>6, <1>7 DEF Next

(* Every variable of the session, of the server and of the connection      *)
(* keeps its type: no step leaves a member of the session half set.        *)
THEOREM TypeCorrect == Spec => []TypeOK
BY TypeInit, TypeNext, PTL DEF Spec

-----------------------------------------------------------------------------
(* The inductive invariant.                                                *)

(* The numbers of a session may be compared.                               *)
LEMMA NumbersAreNat ==
  ASSUME TypeOK
  PROVE  /\ ssl.ctr \in Nat /\ message_id \in Nat
         /\ server.high \in Nat /\ server.id \in Nat
         /\ sessionPersist.ctr \in Nat /\ sessionPersist.id \in Nat
         /\ session.ctr \in Nat /\ session.id \in Nat
BY DEF TypeOK, Members, Numbers

(* A record may be written, from any place but between the write of        *)
(* another and its update, as long as the thread does not pass over the    *)
(* answer to the hello.                                                    *)
LEMMA WriteKeepsInv ==
  ASSUME Inv, NEW next \in Places, NEW request \in BOOLEAN, NEW hello \in BOOLEAN,
         Write(next, request, hello),
         pc # "off", pc # "save",
         pc \in {"hello", "greeting"} => next = "greeting"
  PROVE  RamInv' /\ CopyInv' /\ NumbersInv' /\ ServerInv' /\ RetainedInv'
<1>1. TypeOK /\ RamInv /\ CopyInv /\ NumbersInv /\ ServerInv /\ RetainedInv
  BY DEF Inv
<1>2. /\ pc' = "save" /\ then' = next
      /\ sessionPersist' = sessionPersist /\ session' = session
      /\ ssl'.sid = ssl.sid /\ ssl.ctr <= ssl'.ctr /\ ssl'.ctr \in Nat
      /\ message_id <= message_id' /\ message_id' <= message_id + 1 /\ message_id' \in Nat
      /\ server'.sid = server.sid
      /\ server.greeted => server'.greeted
      /\ \/ server' = server
         \/ /\ server'.high = ssl.ctr
            /\ server'.id = server.id \/ server'.id = message_id'
  BY <1>1, WriteFacts DEF SslType, Numbers
<1>3. RamInv'
  BY <1>1, <1>2 DEF RamInv, Connected, Place
<1>4. CopyInv'
  BY <1>1, <1>2 DEF CopyInv, Connected
<1>5. NumbersInv'
  BY <1>1, <1>2, NumbersAreNat DEF NumbersInv, Connected
<1>6. ServerInv'
  BY <1>1, <1>2, NumbersAreNat DEF ServerInv, Connected
<1>7. RetainedInv'
  <2>1. session.sid # 0 =>
          session.ctr = ssl.ctr /\ session.id = message_id
    BY <1>1 DEF CopyInv, NumbersInv, Connected
  <2> QED
    BY <1>1, <1>2, <2>1, NumbersAreNat DEF RetainedInv
<1> QED
  BY <1>3, <1>4, <1>5, <1>6, <1>7

\* The invariant holds at the first power-on.
LEMMA InvInit == Init => Inv
BY TypeInit
   DEF Init, Inv, RamInv, CopyInv, NumbersInv, ServerInv, RetainedInv, Connected, Place, Blank

\* Every step keeps the invariant.
LEMMA InvNext == Inv /\ [Next]_vars => Inv'
<1> SUFFICES ASSUME Inv, [Next]_vars PROVE Inv'
  OBVIOUS
<1> DEFINE Others == RamInv /\ CopyInv /\ NumbersInv /\ ServerInv /\ RetainedInv
<1>a. TypeOK /\ RamInv /\ CopyInv /\ NumbersInv /\ ServerInv /\ RetainedInv
  BY DEF Inv
<1>b. TypeOK'
  BY <1>a, TypeNext
<1>c. SUFFICES Others'
  BY <1>b DEF Inv
<1>n. /\ ssl.ctr \in Nat /\ message_id \in Nat
      /\ server.high \in Nat /\ server.id \in Nat
      /\ sessionPersist.ctr \in Nat /\ sessionPersist.id \in Nat
      /\ session.ctr \in Nat /\ session.id \in Nat
  BY <1>a, NumbersAreNat
<1> USE DEF Connected, Place, Places
<1>w. ASSUME NEW next \in Places, NEW request \in BOOLEAN, NEW hello \in BOOLEAN,
             Write(next, request, hello),
             pc # "off", pc # "save",
             pc \in {"hello", "greeting"} => next = "greeting"
      PROVE  Others'
  BY <1>w, WriteKeepsInv
<1>o. ASSUME pc' = "off", server' = server, session' \in {session, Blank}
      PROVE  Others'
  BY <1>a, <1>o DEF RamInv, CopyInv, NumbersInv, ServerInv, RetainedInv, Blank
<1>1. CASE Update
  <2>0. sessionPersist \in Members
    BY <1>a DEF TypeOK
  <2>1. /\ pc = "save" /\ pc' = then
        /\ sessionPersist' = [sessionPersist EXCEPT !.ctr = ssl.ctr, !.id = message_id]
        /\ session' = IF sessionPersist.persistent THEN sessionPersist' ELSE session
        /\ ssl' = ssl /\ message_id' = message_id /\ server' = server
        /\ then \in Places
    BY <1>1, <1>a DEF Update, TypeOK
  <2>2. /\ sessionPersist'.sid = sessionPersist.sid
        /\ sessionPersist'.persistent = sessionPersist.persistent
        /\ sessionPersist'.ctr = ssl.ctr /\ sessionPersist'.id = message_id
    BY <2>0, <2>1 DEF Members
  <2>3. RamInv'
    BY <1>a, <2>1, <2>2 DEF RamInv
  <2>4. CopyInv'
    BY <1>a, <2>1, <2>2 DEF CopyInv, RamInv
  <2>5. NumbersInv'
    BY <2>1, <2>2 DEF NumbersInv
  <2>6. ServerInv'
    BY <1>a, <2>1 DEF ServerInv
  <2>7. RetainedInv'
    BY <1>a, <2>1, <2>2 DEF RetainedInv, RamInv, CopyInv, ServerInv
  <2> QED
    BY <2>3, <2>4, <2>5, <2>6, <2>7
<1>2. CASE Begin
  <2>1. CASE Resume
    <3>0. session \in Members
      BY <1>a DEF TypeOK
    <3>1. /\ sessionPersist' = [session EXCEPT !.persistent = TRUE]
          /\ ssl' = [sid |-> session.sid, ctr |-> session.ctr]
          /\ message_id' = session.id /\ session' = session /\ server' = server
          /\ pc' \in {"ping", "hello"} /\ session.sid # 0
      BY <2>1 DEF Resume
    <3>2. /\ sessionPersist'.sid = session.sid /\ sessionPersist'.persistent = TRUE
          /\ sessionPersist'.ctr = session.ctr /\ sessionPersist'.id = session.id
      BY <3>0, <3>1 DEF Members
    <3> QED
      BY <1>a, <1>n, <3>1, <3>2 DEF RamInv, CopyInv, NumbersInv, ServerInv, RetainedInv
  <2>2. CASE Handshake
    <3>0. sessionPersist \in Members
      BY <1>a DEF TypeOK
    <3>1. PICK sid \in Sids \ {server.sid} :
            /\ ssl' = [sid |-> sid, ctr |-> 1]
            /\ server' = [sid |-> sid, high |-> 0, id |-> 0, greeted |-> FALSE]
            /\ sessionPersist' =
                 [sessionPersist EXCEPT !.sid = sid, !.persistent = FALSE, !.ctr = 1, !.id = 0]
      BY <2>2 DEF Handshake
    <3>2. /\ sessionPersist'.sid = sid /\ sessionPersist'.persistent = FALSE
          /\ sessionPersist'.ctr = 1
      BY <3>0, <3>1 DEF Members
    <3>3. sid # 0
      BY SessionAssumption
    <3>4. pc' = "hello" /\ session.sid = 0 /\ session' = session /\ message_id' = message_id
      BY <2>2 DEF Handshake
    <3> QED
      BY <1>n, <3>1, <3>2, <3>3, <3>4
         DEF RamInv, CopyInv, NumbersInv, ServerInv, RetainedInv
  <2>3. CASE Ping
    BY <1>w, <2>3 DEF Ping
  <2>4. CASE Hello
    BY <1>w, <2>4 DEF Hello
  <2>5. CASE Greeted
    <3>0. sessionPersist \in Members
      BY <1>a DEF TypeOK
    <3>1. /\ pc = "greeting" /\ pc' \in {"subscribed", "announce"}
          /\ server.sid = ssl.sid /\ server.greeted
          /\ sessionPersist' = [sessionPersist EXCEPT !.persistent = TRUE]
          /\ session' = sessionPersist'
          /\ ssl' = ssl /\ message_id' = message_id /\ server' = server
      BY <2>5 DEF Greeted
    <3>2. /\ sessionPersist'.sid = sessionPersist.sid /\ sessionPersist'.persistent = TRUE
          /\ sessionPersist'.ctr = sessionPersist.ctr /\ sessionPersist'.id = sessionPersist.id
      BY <3>0, <3>1 DEF Members
    <3> QED
      BY <1>a, <1>n, <3>1, <3>2 DEF RamInv, CopyInv, NumbersInv, ServerInv, RetainedInv
  <2> QED
    BY <1>2, <2>1, <2>2, <2>3, <2>4, <2>5 DEF Begin
<1>3. CASE State
  <2>1. ASSUME NEW t \in Topics, Announce(t) PROVE Others'
    <3>1. CASE unsent' = {}
      <4>1. Write("subscribed", TRUE, FALSE) /\ pc = "announce"
        BY <2>1, <3>1 DEF Announce
      <4> QED
        BY <1>w, <4>1
    <3>2. CASE unsent' # {}
      <4>1. Write("announce", TRUE, FALSE) /\ pc = "announce"
        BY <2>1, <3>2 DEF Announce
      <4> QED
        BY <1>w, <4>1
    <3> QED
      BY <3>1, <3>2
  <2>2. ASSUME NEW t \in Topics, Subscribe(t) PROVE Others'
    BY <1>w, <2>2 DEF Subscribe
  <2>3. CASE PersistSubscriptions
    <3>0. sessionPersist \in Members
      BY <1>a DEF TypeOK
    <3>1. sessionPersist.persistent /\ sessionPersist.sid # 0 /\ pc = "subscribed"
      BY <1>a, <2>3 DEF PersistSubscriptions, RamInv
    <3>2. /\ pc' = "on" /\ ssl' = ssl /\ message_id' = message_id /\ server' = server
          /\ session' = [sessionPersist EXCEPT !.subs = app.subs]
          /\ sessionPersist' = session'
      BY <2>3, <3>0, <3>1 DEF PersistSubscriptions, Members
    <3>3. /\ session'.sid = sessionPersist.sid
          /\ session'.persistent = sessionPersist.persistent
          /\ session'.ctr = sessionPersist.ctr /\ session'.id = sessionPersist.id
      BY <3>0, <3>2 DEF Members
    <3> QED
      BY <1>a, <3>1, <3>2, <3>3 DEF RamInv, CopyInv, NumbersInv, ServerInv, RetainedInv
  <2>4. CASE Describe
    BY <1>w, <2>4 DEF Describe
  <2>5. CASE PersistDescription
    <3>0. session \in Members
      BY <1>a DEF TypeOK
    <3>1. /\ pc = "described" /\ pc' = "on" /\ ssl' = ssl /\ message_id' = message_id
          /\ server' = server /\ sessionPersist' = sessionPersist
          /\ session' = IF session.sid # 0 THEN [session EXCEPT !.described = app.described]
                                          ELSE session
      BY <2>5 DEF PersistDescription
    <3>2. /\ session'.sid = session.sid /\ session'.persistent = session.persistent
          /\ session'.ctr = session.ctr /\ session'.id = session.id
      BY <3>0, <3>1 DEF Members
    <3> QED
      BY <1>a, <3>1, <3>2 DEF RamInv, CopyInv, NumbersInv, ServerInv, RetainedInv
  <2>6. CASE Register
    BY <1>a, <2>6
       DEF Register, device, RamInv, CopyInv, NumbersInv, ServerInv, RetainedInv
  <2> QED
    BY <1>3, <2>1, <2>2, <2>3, <2>4, <2>5, <2>6 DEF State
<1>4. CASE Link
  <2>1. CASE Publish
    BY <1>w, <2>1 DEF Publish
  <2>2. CASE KeepAlive
    BY <1>w, <2>2 DEF KeepAlive
  <2>3. CASE Retransmit
    BY <1>w, <2>3 DEF Retransmit
  <2>4. CASE Acknowledged
    BY <1>a, <2>4
       DEF Acknowledged, device, RamInv, CopyInv, NumbersInv, ServerInv, RetainedInv
  <2>5. CASE GiveUp
    BY <1>o, <2>5 DEF GiveUp, ResetSession
  <2>6. CASE SessionLost
    BY <1>o, <2>6 DEF SessionLost, ResetSession
  <2>7. CASE Disconnect
    BY <1>o, <2>7 DEF Disconnect
  <2>8. CASE Discard
    BY <1>o, <2>8 DEF Discard
  <2> QED
    BY <1>4, <2>1, <2>2, <2>3, <2>4, <2>5, <2>6, <2>7, <2>8 DEF Link
<1>5. CASE Reset
  BY <1>o, <1>5 DEF Reset
<1>6. CASE ServerForgets
  BY <1>a, <1>6
     DEF ServerForgets, device, RamInv, CopyInv, NumbersInv, ServerInv, RetainedInv
<1>7. CASE UNCHANGED vars
  BY <1>a, <1>7 DEF vars, device, RamInv, CopyInv, NumbersInv, ServerInv, RetainedInv
<1> QED
  BY <1>1, <1>2, <1>3, <1>4, <1>5, <1>6, <1>7 DEF Next

\* The invariant implies that sessions go on where they stopped.
LEMMA InvSafe == Inv => ResumesWhereItStopped
<1> SUFFICES ASSUME Inv PROVE ResumesWhereItStopped
  OBVIOUS
<1>1. ASSUME pc = "on"
      PROVE  session.sid = ssl.sid /\ session.ctr = ssl.ctr /\ session.id = message_id
  BY <1>1 DEF Inv, RamInv, CopyInv, NumbersInv, Connected, Place
<1> QED
  BY <1>1 DEF Inv, RetainedInv, ResumesWhereItStopped

(* A session goes on where it stopped, whatever resets, disconnections and *)
(* changes of the checksums came in between: retained memory holds the     *)
(* present session of a connected device, its numbers are at most those of *)
(* one record behind the server's, and a session that is there is one the  *)
(* server has got a hello in.                                              *)
THEOREM SessionGoesOn == Spec => []ResumesWhereItStopped
<1>1. Spec => []Inv
  BY InvInit, InvNext, PTL DEF Spec
<1> QED
  BY <1>1, InvSafe, PTL
=============================================================================
