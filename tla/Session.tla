------------------------------ MODULE Session ------------------------------
(***************************************************************************)
(* The DTLS session as the device keeps it over disconnections and resets  *)
(* (dtls_message_channel.cpp, dtls_session_persist.h), with the connection *)
(* that uses it (protocol.cpp, system_cloud_internal.cpp).                 *)
(*                                                                         *)
(* The members of the session are copied to retained memory, which a reset *)
(* leaves alone, after every record that is written.  A device that finds  *)
(* a session there resumes it without a handshake, and leaves out the      *)
(* hello and the subscriptions when their checksums say that the server    *)
(* has them.  A reset may come between any two steps.                      *)
(*                                                                         *)
(* A checksum is what it is computed from.  Those of the two parts of the  *)
(* description, which are treated alike, are one.                          *)
(***************************************************************************)
EXTENDS Naturals

CONSTANTS
  Topics,        \* filters of event handlers
  BootTopics,    \* those registered each time the device boots
  Descriptions,  \* what functions and variables the device may have
  Sids,          \* identities of sessions
  MaxNumber      \* bound: numbers are counted no further

ASSUME SessionAssumption ==
  /\ BootTopics \subseteq Topics
  /\ Descriptions \subseteq Nat \ {0} /\ Descriptions # {}
  /\ Sids \subseteq Nat \ {0} /\ \A s \in Sids : Sids # {s}
  /\ MaxNumber \in Nat \ {0}

VARIABLES
  pc,              \* where the system thread is, "off" without a connection
  then,            \* where it goes when the record just written is accounted for
  unsent,          \* subscriptions send_subscriptions() has still to send
  ssl,             \* the DTLS context: its session and next record number
  message_id,      \* the id last given to a request
  skip,            \* SKIP_SESSION_RESUME_HELLO in Protocol::flags
  sessionPersist,  \* the members of the session in RAM; sid is 0 when not valid
  session,         \* their copy in retained memory
  app,             \* the handlers and functions registered now
  open,            \* a confirmable request is not acknowledged yet
  server           \* its session, the highest record number and request id it
                   \* has accepted there, and whether it has got a hello

device == <<ssl, message_id, skip, sessionPersist, session>>
vars   == <<pc, then, unsent, device, app, open, server>>

Blank == [sid |-> 0, persistent |-> FALSE, ctr |-> 0, id |-> 0, subs |-> {}, described |-> 0]
Closed == [sid |-> 0, ctr |-> 0]

\* Mutant: one further.
CountedOn(n) == IF n <= MaxNumber THEN n + 1 ELSE n

Counted(n) == IF n < MaxNumber THEN n + 1 ELSE n

-----------------------------------------------------------------------------
(* DTLSMessageChannel and SessionPersist.                                  *)

\* reset_session(): the copy is cleared too; the checksums stay in RAM.
ResetSession ==
  /\ ssl' = Closed
  /\ sessionPersist' = [sessionPersist EXCEPT !.sid = 0, !.persistent = FALSE, !.ctr = 0, !.id = 0]
  /\ session' = Blank

\* send() up to mbedtls_ssl_write().  The record gets to the server, which
\* takes it unless its number has been used, or is lost.
Write(next, request, hello) ==
  /\ ssl' = [ssl EXCEPT !.ctr = Counted(@)]
  /\ message_id' = IF request THEN Counted(message_id) ELSE message_id
  /\ pc' = "save" /\ then' = next
  /\ \/ UNCHANGED server
     \/ /\ server.sid = ssl.sid /\ server.high < ssl.ctr
        /\ server' = [server EXCEPT !.high = ssl.ctr,
                                    !.id = IF request THEN message_id' ELSE @,
                                    !.greeted = @ \/ hello]
  /\ UNCHANGED <<skip, sessionPersist, session>>

\* SessionPersist::update(), after the write.
Update ==
  /\ pc = "save" /\ pc' = then /\ then' = "off"
  /\ sessionPersist' = [sessionPersist EXCEPT !.ctr = ssl.ctr, !.id = message_id]
  /\ session' = IF sessionPersist.persistent THEN sessionPersist' ELSE session
  /\ UNCHANGED <<unsent, ssl, message_id, skip, app, open, server>>

-----------------------------------------------------------------------------
(* Protocol::begin().                                                      *)

\* establish() restores what it finds in retained memory.
Resume ==
  /\ pc = "off" /\ session.sid # 0
  /\ sessionPersist' = [session EXCEPT !.persistent = TRUE]
  /\ message_id' = session.id
  /\ ssl' = [sid |-> session.sid, ctr |-> session.ctr]
  /\ skip' = (skip \/ (session.subs = app.subs /\ session.described = app.described))
  /\ pc' = IF skip' THEN "ping" ELSE "hello"
  /\ open' = FALSE
  /\ UNCHANGED <<then, unsent, session, app, server>>

\* Mutant: the session counts as persistent from the handshake on.
HandshakePersistent ==
  /\ pc = "off" /\ session.sid = 0
  /\ \E sid \in Sids \ {server.sid} :
       /\ ssl' = [sid |-> sid, ctr |-> 1]
       /\ server' = [sid |-> sid, high |-> 0, id |-> 0, greeted |-> FALSE]
       /\ sessionPersist' =
            [sessionPersist EXCEPT !.sid = sid, !.persistent = TRUE, !.ctr = 1, !.id = 0]
  /\ pc' = "hello" /\ open' = FALSE
  /\ UNCHANGED <<then, unsent, message_id, skip, session, app>>

\* Without one: reset_session(), a handshake, and prepare_save().
Handshake ==
  /\ pc = "off" /\ session.sid = 0
  /\ \E sid \in Sids \ {server.sid} :
       /\ ssl' = [sid |-> sid, ctr |-> 1]
       /\ server' = [sid |-> sid, high |-> 0, id |-> 0, greeted |-> FALSE]
       /\ sessionPersist' =
            [sessionPersist EXCEPT !.sid = sid, !.persistent = FALSE, !.ctr = 1, !.id = 0]
  /\ pc' = "hello" /\ open' = FALSE
  /\ UNCHANGED <<then, unsent, message_id, skip, session, app>>

\* ping(true), confirmable, in place of the hello.
Ping ==
  /\ pc = "ping"
  /\ Write("on", TRUE, FALSE) /\ open' = TRUE
  /\ UNCHANGED <<unsent, app>>

Hello ==
  /\ pc = "hello"
  /\ Write("greeting", TRUE, TRUE) /\ open' = TRUE
  /\ UNCHANGED <<unsent, app>>

\* The hello, sent synchronously, is acknowledged: notify_established().
Greeted ==
  /\ pc = "greeting" /\ server.sid = ssl.sid /\ server.greeted
  /\ sessionPersist' = [sessionPersist EXCEPT !.persistent = TRUE]
  /\ session' = sessionPersist'
  /\ skip' = TRUE /\ open' = FALSE
  /\ unsent' = app.subs
  /\ pc' = IF app.subs = {} THEN "subscribed" ELSE "announce"
  /\ UNCHANGED <<then, ssl, message_id, app, server>>

-----------------------------------------------------------------------------
(* Subscriptions and descriptions.                                         *)

\* send_subscriptions().
Announce(t) ==
  /\ pc = "announce" /\ t \in unsent
  /\ unsent' = unsent \ {t}
  /\ Write(IF unsent' = {} THEN "subscribed" ELSE "announce", TRUE, FALSE)
  /\ open' = TRUE /\ UNCHANGED app

\* spark_subscribe() of a connected device.
Subscribe(t) ==
  /\ pc = "on" /\ t \notin app.subs
  /\ Write("subscribed", TRUE, FALSE) /\ open' = TRUE
  /\ app' = [app EXCEPT !.subs = @ \cup {t}]
  /\ UNCHANGED unsent

\* update_subscription_crc(): save, change the copy, load it.
PersistSubscriptions ==
  LET saved == IF sessionPersist.persistent THEN sessionPersist ELSE session
  IN /\ pc = "subscribed" /\ pc' = "on"
     /\ session' = IF saved.sid # 0 THEN [saved EXCEPT !.subs = app.subs] ELSE saved
     /\ sessionPersist' = IF session'.sid # 0 THEN session' ELSE sessionPersist
     /\ UNCHANGED <<then, unsent, ssl, message_id, skip, app, open, server>>

\* send_description(), an answer, on the server's request.
Describe ==
  /\ pc = "on"
  /\ Write("described", FALSE, FALSE)
  /\ UNCHANGED <<unsent, app, open>>

\* update_persisted_state() changes the copy only: the next Update undoes it.
PersistDescription ==
  /\ pc = "described" /\ pc' = "on"
  /\ session' = IF session.sid # 0 THEN [session EXCEPT !.described = app.described] ELSE session
  /\ UNCHANGED <<then, unsent, ssl, message_id, skip, sessionPersist, app, open, server>>

\* What the application registers.  Only a subscription of a connected device
\* is more than an entry in a table.
Register ==
  /\ pc \in {"off", "on"}
  /\ \/ \E t \in Topics \ app.subs : pc = "off" /\ app' = [app EXCEPT !.subs = @ \cup {t}]
     \/ app' = [app EXCEPT !.subs = {}]
     \/ \E d \in Descriptions : app' = [app EXCEPT !.described = d]
  /\ UNCHANGED <<pc, then, unsent, device, open, server>>

-----------------------------------------------------------------------------
(* The connection.                                                         *)

\* An event, confirmable or not, or a time request.  Spark_Handshake() publishes
\* before it sends the subscriptions.
Publish ==
  /\ pc \in {"announce", "on"}
  /\ Write(pc, TRUE, FALSE) /\ open' \in {open, TRUE}
  /\ UNCHANGED <<unsent, app>>

\* Mutant: PING_AS_EMPTY_MESSAGE is set.
KeepAliveEmpty ==
  /\ pc = "on" /\ ~open
  /\ Write("on", FALSE, FALSE)
  /\ UNCHANGED <<unsent, app, open>>

\* Pinger::process(), when nothing has come for the interval.
KeepAlive ==
  /\ pc = "on" /\ ~open
  /\ Write("on", TRUE, FALSE) /\ open' = TRUE
  /\ UNCHANGED <<unsent, app>>

\* CoAPMessageStore::retransmit().
Retransmit ==
  /\ pc \in {"greeting", "on"} /\ open
  /\ Write(pc, FALSE, pc = "greeting")
  /\ UNCHANGED <<unsent, app, open>>

Acknowledged ==
  /\ pc = "on" /\ open /\ server.sid = ssl.sid
  /\ open' = FALSE
  /\ UNCHANGED <<pc, then, unsent, device, app, server>>

\* message_timeout() closes the session; the event loop, or begin(), fails and
\* the socket is closed.
GiveUp ==
  /\ pc \in {"greeting", "on"} /\ open
  /\ ResetSession /\ pc' = "off"
  /\ UNCHANGED <<then, unsent, message_id, skip, app, open, server>>

\* A record that cannot be written or read, a close_notify, a reset by the peer.
SessionLost ==
  /\ pc \in {"ping", "hello", "greeting", "announce", "on"}
  /\ ResetSession /\ pc' = "off"
  /\ UNCHANGED <<then, unsent, message_id, skip, app, open, server>>

\* cloud_disconnect(), a network that is lost, sleep: the session stays.
Disconnect ==
  /\ pc = "on" /\ pc' = "off" /\ ssl' = Closed
  /\ UNCHANGED <<then, unsent, message_id, skip, sessionPersist, session, app, open, server>>

\* The address or port to connect to is not the one the session was made with.
Discard ==
  /\ pc = "off" /\ session.sid # 0
  /\ session' = Blank
  /\ UNCHANGED <<pc, then, unsent, ssl, message_id, skip, sessionPersist, app, open, server>>

\* Retained memory survives, unless it lost its supply.
Reset ==
  /\ pc' = "off" /\ then' = "off" /\ unsent' = {} /\ ssl' = Closed /\ open' = FALSE
  /\ message_id' = 0 /\ skip' = FALSE /\ sessionPersist' = Blank
  /\ session' \in {session, Blank}
  /\ \E d \in Descriptions : app' = [subs |-> BootTopics, described |-> d]
  /\ UNCHANGED server

\* The server has dropped the session and says nothing.
ServerForgets ==
  /\ server' = [sid |-> 0, high |-> 0, id |-> 0, greeted |-> FALSE]
  /\ UNCHANGED <<pc, then, unsent, device, app, open>>

-----------------------------------------------------------------------------
Init ==
  /\ pc = "off" /\ then = "off" /\ unsent = {} /\ ssl = Closed /\ open = FALSE
  /\ message_id = 0 /\ skip = FALSE /\ sessionPersist = Blank /\ session = Blank
  /\ \E d \in Descriptions : app = [subs |-> BootTopics, described |-> d]
  /\ server = [sid |-> 0, high |-> 0, id |-> 0, greeted |-> FALSE]

Begin == Resume \/ Handshake \/ Ping \/ Hello \/ Greeted
State == (\E t \in Topics : Announce(t) \/ Subscribe(t)) \/ PersistSubscriptions
           \/ Describe \/ PersistDescription \/ Register
Link  == Publish \/ KeepAlive \/ Retransmit \/ Acknowledged \/ GiveUp \/ SessionLost \/ Disconnect \/ Discard

Next == Update \/ Begin \/ State \/ Link \/ Reset \/ ServerForgets

\* The thread goes on with what it has begun.  The interval of the pinger and
\* the time of a request pass however busy the device is, since both count
\* from what was received and acknowledged: hence strong fairness.
Fairness ==
  /\ WF_vars(Update) /\ WF_vars(PersistSubscriptions) /\ WF_vars(PersistDescription)
  /\ SF_vars(KeepAlive) /\ SF_vars(GiveUp)

Spec == Init /\ [][Next]_vars /\ Fairness

-----------------------------------------------------------------------------
(* Properties                                                              *)

Numbers == 0 .. MaxNumber
Members == [sid : Sids \cup {0}, persistent : BOOLEAN, ctr : Numbers, id : Numbers,
            subs : SUBSET Topics, described : Descriptions \cup {0}]
Places  == {"off", "ping", "hello", "greeting", "announce", "subscribed", "described", "on"}

\* The values of the variables.
TypeOK ==
  /\ pc \in Places \cup {"save"} /\ then \in Places
  /\ unsent \subseteq Topics
  /\ ssl \in [sid : Sids \cup {0}, ctr : Numbers] /\ message_id \in Numbers
  /\ sessionPersist \in Members /\ session \in Members
  /\ app \in [subs : SUBSET Topics, described : Descriptions]
  /\ skip \in BOOLEAN /\ open \in BOOLEAN
  /\ server \in [sid : Sids \cup {0}, high : Numbers, id : Numbers, greeted : BOOLEAN]

\* A session goes on where it stopped (dtls_message_channel.cpp:75), whatever
\* reset, disconnection or change of the checksums came in between: what
\* retained memory holds of a connected device is its present session; what it
\* holds of a session the server knows uses again at most one record number
\* and one id, those of a record whose writing the reset interrupted; and the
\* server has got a hello in that session, so that leaving it out is sound.
ResumesWhereItStopped ==
  /\ pc = "on" => /\ session.sid = ssl.sid
                  /\ session.ctr = ssl.ctr /\ session.id = message_id
  /\ session.sid # 0 /\ session.sid = server.sid =>
       /\ server.high <= session.ctr /\ server.id <= session.id + 1
       /\ server.greeted

\* A connected device does not stay for ever in a session the server has
\* dropped: it gives the connection up, although it takes no notice of what is
\* not acknowledged but by the timeouts of confirmable requests
\* (coap_channel.h:465).
StaleNoticed == pc = "on" /\ server.sid # ssl.sid ~> pc = "off"
=============================================================================
