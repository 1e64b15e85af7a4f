---------------------------- MODULE CarT_proofs ----------------------------
(***************************************************************************)
(* Proofs about the two threads of the telematics application, for every   *)
(* number of requests of a CAN poll.                                       *)
(***************************************************************************)
EXTENDS CarT, TLAPS

(* The server thread is between a lock and the unlock that answers it.     *)
(* "hang" is not: a thread that waits for ever never unlocks.              *)
PendingUnlock == \/ pcS \in ServerLocked
                 \/ pcS \in InDisconnect /\ ret \in {"unlock", "dispatch"}

(* Who may hold the mutex, seen from the server thread.                    *)
HolderInv ==
  /\ mutex = "server" => \/ PendingUnlock
                         \/ pcS = "hang"
                         \/ pcS \in InDisconnect /\ ret = "hang"
  /\ pcM = "startup" <=> mutex = "absent"

(* The order of startup.                                                   *)
StartupInv ==
  /\ pcM \in {"startup", "radio"} => modem = "off" /\ pcS = "wait"
  /\ pcM \in {"radio", "await"} => mutex = "main"
  /\ pcM \in StartingUp => ~PendingUnlock

(* The session is dialled once, by a thread that has not dialled yet.      *)
LinkInv ==
  /\ pcS \in {"wait", "dial"} => link = "down"
  /\ pcS \in {"connect", "sendConnect", "connack"} => link = "tls"

(* Why a third skip in a row cannot happen: the first leaves at most one   *)
(* unlock pending, and once that is spent the mutex stays with loop().     *)
SkipInv ==
  /\ skips \in 0..2
  /\ skips > 0 => pcM \in {"reset", "idle", "try"}
  /\ skips = 1 => (mutex = "free" => ~PendingUnlock)
  /\ skips = 2 => mutex = "main" /\ ~PendingUnlock

(* The count of the present cycle, from the poll to the reset.             *)
BatchInv ==
  /\ pcM \in StartingUp \cup {"idle"} => can_records = 0
  /\ pcM \in {"try", "reset"} \cup MainBody => can_records = counted
  /\ pcM \in StartingUp \cup {"idle", "try", "reset"} => new_can_flag = FALSE
  /\ pcM \in {"publish", "write"} => can_records > 0
  /\ pcM = "write" => report = can_records

Inv == TypeOK /\ HolderInv /\ StartupInv /\ LinkInv /\ SkipInv /\ BatchInv

-----------------------------------------------------------------------------
(* Type correctness.                                                       *)

\* The types hold at power-on.
LEMMA TypeInit == Init => TypeOK
<1> SUFFICES ASSUME Init PROVE TypeOK
  OBVIOUS
<1>1. sent \in [by : {"main", "server"}, meant : Frames, was : Frames]
  BY DEF Init, NoFrame, Frames
<1>2. /\ pcM \in StartingUp /\ pcS \in BeforeService
      /\ link \in Links /\ buffer \in Frames
  BY DEF Init, StartingUp, BeforeService, Links, Frames
<1>3. /\ can_records \in Nat /\ counted \in 0..NumPids
      /\ skips \in Nat /\ report \in Nat
  BY NumPidsAssumption DEF Init
<1>4. /\ ret \in {"lock", "unlock", "dispatch", "hang"}
      /\ mutex \in {"absent", "free", "main", "server"}
      /\ modem \in {"off", "on", "ready"}
      /\ new_can_flag \in BOOLEAN
  BY DEF Init
<1> QED
  BY <1>1, <1>2, <1>3, <1>4, Zenon DEF TypeOK

\* Every step keeps the types.
LEMMA TypeNext == TypeOK /\ [Next]_vars => TypeOK'
<1> SUFFICES ASSUME TypeOK, [Next]_vars PROVE TypeOK'
  OBVIOUS
<1> USE NumPidsAssumption DEF TypeOK, StartingUp, MainBody, BeforeService,
        ServerLocked, InDisconnect, Links, Frames, IsConnected,
        mainVars, serverVars, sharedVars
<1>1. CASE Modem
  BY <1>1 DEF Modem, CellularUp, CellularLost
<1>2. CASE Startup
  BY <1>2 DEF Startup, StartupLock, StartupConnect, StartupRelease, MainGoto, Unlock
<1>3. CASE Cycle
  <2>1. CASE Collect
    BY <2>1 DEF Collect, MainGoto
  <2>2. CASE Skip
    BY <2>2 DEF Skip, MainGoto, TryLock
  <2>3. CASE Build
    BY <2>3 DEF Build, MainGoto, TryLock
  <2>4. CASE Publish
    BY <2>4 DEF Publish, MainGoto, Fill
  <2>5. CASE PublishWrite
    BY <2>5 DEF PublishWrite, MainGoto, NetWrite
  <2>6. CASE BodyEnd
    <3>1. new_can_flag' \in BOOLEAN /\ mutex' \in {"absent", "free", "main", "server"}
      BY <2>6 DEF BodyEnd, Unlock
    <3>2. pcM' \in {"reset"}
      BY <2>6 DEF BodyEnd, MainGoto
    <3> QED
      BY <2>6, <3>1, <3>2 DEF BodyEnd
  <2>7. CASE Reset
    BY <2>7 DEF Reset, MainGoto
  <2> QED
    BY <1>3, <2>1, <2>2, <2>3, <2>4, <2>5, <2>6, <2>7 DEF Cycle
<1>4. CASE Session
  <2>1. CASE AwaitCellular
    BY <2>1 DEF AwaitCellular, ServerPass, ServerGoto
  <2>2. CASE Dial
    BY <2>2 DEF Dial, ServerDisconnect, ServerGoto, Fill
  <2>3. CASE SendConnect
    BY <2>3 DEF SendConnect, ServerFill, ServerWrite, ServerGoto, Fill, NetWrite
  <2>4. CASE Connack
    BY <2>4 DEF Connack, ServerDisconnect, ServerGoto, Fill
  <2>5. CASE SayHello
    BY <2>5 DEF SayHello, ServerFill, ServerWrite, ServerGoto, Fill, NetWrite
  <2> QED
    BY <1>4, <2>1, <2>2, <2>3, <2>4, <2>5 DEF Session
<1>5. CASE Serve
  BY <1>5 DEF Serve, ServerLock, Poll, Receive, Dispatch, ServerUnlock, Sleep, ServerPass,
              ServerFill, ServerWrite, ServerDisconnect, ServerGoto, Fill, NetWrite,
              Lock, Unlock
<1>6. CASE Disconnect
  BY <1>6 DEF Disconnect, ServerWrite, ServerGoto, NetWrite
<1>7. CASE UNCHANGED vars
  BY <1>7 DEF vars
<1> QED
  BY <1>1, <1>2, <1>3, <1>4, <1>5, <1>6, <1>7 DEF Next, Main, Server

(* Every variable of the two threads keeps its type.                       *)
THEOREM TypeCorrect == Spec => []TypeOK
BY TypeInit, TypeNext, PTL DEF Spec

-----------------------------------------------------------------------------
(* The inductive invariant.                                                *)

\* The invariant holds at power-on.
LEMMA InvInit == Init => Inv
BY TypeInit, NumPidsAssumption
   DEF Init, Inv, HolderInv, StartupInv, LinkInv, SkipInv, BatchInv, PendingUnlock, StartingUp,
       MainBody, ServerLocked, InDisconnect

\* The main thread's steps keep the invariant.
LEMMA MainKeepsInv ==
  ASSUME Inv, Main, TypeOK'
  PROVE  Inv'
<1> USE NumPidsAssumption DEF Inv, TypeOK, HolderInv, StartupInv, LinkInv, SkipInv, BatchInv,
        PendingUnlock, StartingUp, MainBody, serverVars
<1>1. CASE Startup
  BY <1>1 DEF Startup, StartupLock, StartupConnect, StartupRelease, MainGoto, Unlock
<1>2. CASE Collect
  BY <1>2 DEF Collect, MainGoto, sharedVars
<1>3. CASE Skip
  BY <1>3 DEF Skip, MainGoto, TryLock
<1>4. CASE Build
  BY <1>4 DEF Build, MainGoto, TryLock
<1>5. CASE Publish
  BY <1>5 DEF Publish, MainGoto, sharedVars
<1>6. CASE PublishWrite
  BY <1>6 DEF PublishWrite, MainGoto
<1>7. CASE BodyEnd
  BY <1>7 DEF BodyEnd, MainGoto, Unlock
<1>8. CASE Reset
  BY <1>8 DEF Reset, MainGoto, sharedVars
<1> QED
  BY <1>1, <1>2, <1>3, <1>4, <1>5, <1>6, <1>7, <1>8 DEF Main, Cycle

\* So do the server thread's.
LEMMA ServerKeepsInv ==
  ASSUME Inv, Server, TypeOK'
  PROVE  Inv'
<1> USE DEF Inv, TypeOK, HolderInv, StartupInv, LinkInv, SkipInv, BatchInv, PendingUnlock,
        StartingUp, MainBody, ServerLocked, InDisconnect, BeforeService, mainVars
<1>1. CASE Session
  BY <1>1 DEF Session, AwaitCellular, Dial, SendConnect, Connack, SayHello, ServerPass,
              ServerFill, ServerWrite, ServerDisconnect, ServerGoto, sharedVars
<1>2. CASE ServerLock
  BY <1>2 DEF ServerLock, ServerGoto, Lock
<1>3. CASE Poll \/ Receive \/ Dispatch
  BY <1>3 DEF Poll, Receive, Dispatch, ServerPass, ServerFill, ServerWrite,
              ServerDisconnect, ServerGoto, sharedVars
<1>4. CASE ServerUnlock
  BY <1>4 DEF ServerUnlock, ServerGoto, Unlock
<1>5. CASE Sleep
  BY <1>5 DEF Sleep, ServerPass, ServerGoto, sharedVars
<1>6. CASE Disconnect
  BY <1>6 DEF Disconnect, ServerWrite, ServerGoto
<1> QED
  BY <1>1, <1>2, <1>3, <1>4, <1>5, <1>6 DEF Server, Serve

\* Every step keeps the invariant.
LEMMA InvNext == Inv /\ [Next]_vars => Inv'
<1> SUFFICES ASSUME Inv, [Next]_vars PROVE Inv'
  OBVIOUS
<1>1. TypeOK'
  BY TypeNext DEF Inv
<1>2. CASE Main
  BY <1>1, <1>2, MainKeepsInv
<1>3. CASE Server
  BY <1>1, <1>3, ServerKeepsInv
<1>4. CASE Modem
  BY <1>1, <1>4 DEF Modem, CellularUp, CellularLost, Inv, HolderInv, StartupInv, LinkInv, SkipInv,
                    BatchInv, PendingUnlock, mainVars, serverVars
<1>5. CASE UNCHANGED vars
  BY <1>1, <1>5 DEF vars, Inv, HolderInv, StartupInv, LinkInv, SkipInv, BatchInv, PendingUnlock,
                    mainVars, serverVars, sharedVars
<1> QED
  BY <1>2, <1>3, <1>4, <1>5 DEF Next

\* The inductive invariant holds throughout.
LEMMA InvAlways == Spec => []Inv
BY InvInit, InvNext, PTL DEF Spec

-----------------------------------------------------------------------------
(* The safety properties.                                                  *)

(* loop() never loses three batches in a row to its inverted trylock.      *)
THEOREM SkipsAreBounded == Spec => []SkipBound
<1>1. Inv => SkipBound
  BY DEF Inv, SkipInv, SkipBound
<1> QED
  BY <1>1, InvAlways, PTL

(* The server thread never leaves its locked region holding the mutex.     *)
THEOREM ServerReleases == Spec => []ServerHoldsInside
<1>1. Inv => ServerHoldsInside
  BY DEF Inv, HolderInv, PendingUnlock, ServerHoldsInside
<1> QED
  BY <1>1, InvAlways, PTL

(* A message announces the number of records its own cycle's poll has      *)
(* counted, at least one; the record counter never passes the requests of  *)
(* one poll.                                                               *)
THEOREM BatchIsCounted == Spec => []BatchCounted
<1>1. Inv => (pcM = "write" => report = counted /\ report > 0)
  BY DEF Inv, TypeOK, BatchInv, MainBody
<1>2. Inv => can_records <= NumPids
  BY NumPidsAssumption DEF Inv, TypeOK, BatchInv, StartingUp, MainBody
<1>3. Inv => BatchCounted
  BY <1>1, <1>2 DEF BatchCounted
<1> QED
  BY <1>3, InvAlways, PTL

(* The server thread finds the mutex created, held and released.           *)
THEOREM StartupComesFirst == Spec => []StartupGate
<1>1. Inv => StartupGate
  BY DEF Inv, HolderInv, StartupInv, StartupGate, StartingUp
<1> QED
  BY <1>1, InvAlways, PTL

-----------------------------------------------------------------------------
(* Refinement: the two threads implement the abstract uplink.              *)

\* The initial states are those of the abstract uplink.
LEMMA UplinkStarts == Init => PromisedUplink!UplinkInit
BY DEF Init, PromisedUplink!UplinkInit

\* Every step is one of the abstract uplink, or leaves it alone.
LEMMA UplinkSteps == Inv /\ [Next]_vars => [PromisedUplink!UplinkNext]_(PromisedUplink!uplinkVars)
<1> SUFFICES ASSUME Inv, [Next]_vars
             PROVE  [PromisedUplink!UplinkNext]_(PromisedUplink!uplinkVars)
  OBVIOUS
<1> USE DEF PromisedUplink!uplinkVars, PromisedUplink!UplinkNext
<1>1. CASE Collect \/ PublishWrite \/ BodyEnd \/ Reset \/ Startup
  BY <1>1 DEF Collect, PublishWrite, BodyEnd, Reset, Startup, StartupLock, StartupConnect,
              StartupRelease, MainGoto, sharedVars, serverVars
<1>2. CASE Skip
  <2>1. skips < 2 /\ skips' = skips + 1 /\ UNCHANGED <<link, report>>
    BY <1>2 DEF Skip, MainGoto, TryLock, Inv, SkipInv, TypeOK
  <2> QED
    BY <2>1 DEF PromisedUplink!Drop
<1>3. CASE Build
  BY <1>3 DEF Build, PromisedUplink!Offer
<1>4. CASE Publish
  <2>1. CASE IsConnected /\ report' = can_records /\ UNCHANGED <<link, skips>>
    <3>1. report' \in 1 .. NumPids
      BY <1>4, <2>1, NumPidsAssumption DEF Publish, MainGoto, Inv, TypeOK, BatchInv, MainBody
    <3> QED
      BY <2>1, <3>1 DEF IsConnected, PromisedUplink!Report
  <2>2. CASE UNCHANGED <<link, skips, report>>
    BY <2>2
  <2> QED
    BY <1>4, <2>1, <2>2 DEF Publish, sharedVars
<1>5. CASE Server
  <2>1. UNCHANGED <<skips, report>>
    BY <1>5 DEF Server, Session, Serve, AwaitCellular, Dial, SendConnect, Connack, SayHello,
                ServerLock, Poll, Receive, Dispatch, ServerUnlock, Sleep, Disconnect,
                ServerPass, ServerFill, ServerWrite, ServerDisconnect, mainVars
  <2>2. link \in Links /\ link' \in Links
    BY TypeNext DEF Inv, TypeOK
  <2>3. \/ link' = link
        \/ link = "down" /\ link' # "down"
        \/ link # "down" /\ link # "closed" /\ link' # "down"
    BY <1>5, <2>2 DEF Server, Session, Serve, AwaitCellular, Dial, SendConnect, Connack,
                SayHello, ServerLock, Poll, Receive, Dispatch, ServerUnlock, Sleep,
                Disconnect, ServerPass, ServerFill, ServerWrite, ServerDisconnect,
                ServerGoto, sharedVars, Links, Inv, LinkInv
  <2> QED
    BY <2>1, <2>2, <2>3 DEF Links, PromisedUplink!Open, PromisedUplink!Close
<1>6. CASE Modem
  BY <1>6 DEF Modem, mainVars
<1>7. CASE UNCHANGED vars
  BY <1>7 DEF vars, mainVars, sharedVars
<1> QED
  BY <1>1, <1>2, <1>3, <1>4, <1>5, <1>6, <1>7 DEF Next, Main, Cycle

(* Everything the abstract uplink promises holds of the two threads.       *)
THEOREM ImplementsUplink == Spec => UplinkImplemented
BY UplinkStarts, UplinkSteps, InvAlways, PTL
   DEF Spec, UplinkImplemented, PromisedUplink!UplinkSpec
=============================================================================
