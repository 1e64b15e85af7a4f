------------------------ MODULE ActiveObject_proofs ------------------------
(***************************************************************************)
(* Proofs about ActiveObject, for any threads, queue sizes and bounds:     *)
(* a message is in one place, and the queues implement Service.            *)
(***************************************************************************)
EXTENDS ActiveObject, FiniteSetTheorems, TLAPS

-----------------------------------------------------------------------------
(* The inductive invariant.                                                *)

PcType == pc \in [Threads -> {"run", "put", "wait", "notify"}]

\* A thread that is about to put has something to put.
CallTypes ==
  /\ calls \in [Callers -> 0 .. MaxCalls]
  /\ promises \subseteq Calls
  /\ \A c \in Callers : pc[c] \in {"put", "wait"} => calls[c] >= 1

SystemTypes ==
  /\ systemQueue \in Seq(Calls) /\ Len(systemQueue) <= SystemQueueSize
  /\ running \in Calls \cup {None}
  /\ completed \subseteq Calls
  /\ background \in {"none", "busy", "pump"}

EventTypes ==
  /\ events \in [Notifiers -> 0 .. MaxEvents]
  /\ appQueue \in Seq(Events) /\ Len(appQueue) <= AppQueueSize
  /\ handled \subseteq Events /\ dropped \subseteq Events
  /\ \A t \in Notifiers : pc[t] = "notify" => events[t] >= 1

TypeInv == PcType /\ CallTypes /\ SystemTypes /\ EventTypes

InQueue(m) == \E i \in 1 .. Len(systemQueue) : systemQueue[i] = m

\* The put() of the call is over.
Accepted(m) == m[2] <= calls[m[1]] /\ (m[2] = calls[m[1]] => pc[m[1]] # "put")

\* A message goes from the queue through the system thread's hands to
\* completed, and is in one of these places at a time.
PlacesInv ==
  /\ \A m \in Calls : InQueue(m) \/ m = running \/ m \in completed => Accepted(m)
  /\ \A i, j \in 1 .. Len(systemQueue) : systemQueue[i] = systemQueue[j] => i = j
  /\ \A m \in Calls : InQueue(m) => m # running /\ m \notin completed
  /\ running \notin completed

Inv == TypeInv /\ PlacesInv

-----------------------------------------------------------------------------
\* The invariant holds when both threads have started.
LEMMA InitInv == Init => Inv
<1> SUFFICES ASSUME Init PROVE Inv
  OBVIOUS
<1> USE SizesAssumption DEF Init
<1>1. PcType /\ SystemTypes
  BY DEF PcType, SystemTypes
<1>2. CallTypes /\ EventTypes
  BY DEF CallTypes, EventTypes, Threads
<1>3. PlacesInv
  BY DEF PlacesInv, InQueue, None, Calls
<1> QED
  BY <1>1, <1>2, <1>3 DEF Inv, TypeInv

(* A call made, put or waited for keeps the types. *)
LEMMA CallerTypes ==
  ASSUME TypeInv, NEW c \in Callers, Invoke(c) \/ Put(c) \/ Get(c)
  PROVE  TypeInv'
<1> USE DEF TypeInv
<1>1. PcType'
  BY DEF PcType, Invoke, Put, Get, Goto
<1>2. CallTypes'
  <2>1. CASE Invoke(c)
    <3>1. calls[c] + 1 \in 1 .. MaxCalls
      BY <2>1, SizesAssumption DEF Invoke, CallTypes
    <3>2. calls' = [calls EXCEPT ![c] = calls[c] + 1] /\ calls'[c] = calls[c] + 1
      BY <2>1 DEF Invoke, CallTypes
    <3>3. <<c, calls'[c]>> \in Calls
      BY <3>1, <3>2 DEF Calls
    <3>4. promises' \subseteq Calls
      BY <2>1, <3>3 DEF Invoke, CallTypes
    <3>5. \A d \in Callers : pc'[d] \in {"put", "wait"} => calls'[d] >= 1
      BY <2>1, <3>1, <3>2 DEF Invoke, Goto, CallTypes, PcType, Threads
    <3>6. calls' \in [Callers -> 0 .. MaxCalls]
      BY <3>1, <3>2, SizesAssumption DEF CallTypes
    <3> QED
      BY <3>4, <3>5, <3>6 DEF CallTypes
  <2>2. CASE Put(c) \/ Get(c)
    BY <2>2 DEF Put, Get, Goto, callVars, CallTypes, PcType, Threads
  <2> QED
    BY <2>1, <2>2
<1>3. SystemTypes'
  <2>1. CASE Put(c)
    <3>1. Call(c) \in Calls
      BY <2>1, SizesAssumption DEF Put, Call, Calls, CallTypes
    <3> QED
      BY <2>1, <3>1, SizesAssumption DEF Put, systemVars, SystemTypes
  <2>2. CASE Invoke(c) \/ Get(c)
    BY <2>2 DEF Invoke, Get, systemVars, SystemTypes
  <2> QED
    BY <2>1, <2>2
<1>4. EventTypes'
  BY DEF Invoke, Put, Get, Goto, eventVars, EventTypes, PcType, Threads
<1> QED
  BY <1>1, <1>2, <1>3, <1>4

(* An event notified, put, dropped or handled keeps the types. *)
LEMMA NotifierTypes ==
  ASSUME TypeInv,
         HandleEvent \/ \E t \in Notifiers : Notify(t) \/ PutEvent(t) \/ PutTimeout(t)
  PROVE  TypeInv'
<1> USE DEF TypeInv
<1>1. ASSUME NEW t \in Notifiers, Notify(t)
      PROVE  TypeInv'
  <2>1. events[t] + 1 \in 1 .. MaxEvents /\ events' = [events EXCEPT ![t] = events[t] + 1]
    BY <1>1, SizesAssumption DEF Notify, EventTypes
  <2>2. PcType' /\ CallTypes' /\ SystemTypes'
    BY <1>1 DEF Notify, Goto, callVars, systemVars, PcType, CallTypes, SystemTypes, Threads
  <2>3. EventTypes'
    BY <1>1, <2>1, SizesAssumption DEF Notify, Goto, EventTypes, PcType, Threads
  <2> QED
    BY <2>2, <2>3
<1>2. ASSUME NEW t \in Notifiers, PutEvent(t) \/ PutTimeout(t)
      PROVE  TypeInv'
  <2>1. Event(t) \in Events
    BY <1>2, SizesAssumption DEF PutEvent, PutTimeout, Event, Events, EventTypes
  <2>2. PcType' /\ CallTypes' /\ SystemTypes'
    BY <1>2 DEF PutEvent, PutTimeout, Goto, callVars, systemVars, PcType, CallTypes, SystemTypes, Threads
  <2>3. \A u \in Notifiers : pc'[u] = "notify" => events'[u] >= 1
    BY <1>2 DEF PutEvent, PutTimeout, Goto, EventTypes, PcType, Threads
  <2>4. EventTypes'
    BY <1>2, <2>1, <2>3, SizesAssumption DEF PutEvent, PutTimeout, EventTypes
  <2> QED
    BY <2>2, <2>4
<1>3. CASE HandleEvent
  <2>1. PcType' /\ CallTypes' /\ SystemTypes'
    BY <1>3 DEF HandleEvent, callVars, systemVars, PcType, CallTypes, SystemTypes
  <2>2. Head(appQueue) \in Events /\ Tail(appQueue) \in Seq(Events)
        /\ Len(Tail(appQueue)) <= AppQueueSize
    BY <1>3, SizesAssumption DEF HandleEvent, EventTypes
  <2>3. EventTypes'
    BY <1>3, <2>2 DEF HandleEvent, EventTypes
  <2> QED
    BY <2>1, <2>3
<1> QED
  BY <1>1, <1>2, <1>3

SystemStep == Process \/ Complete \/ Idle \/ Pump \/ EndBackground("busy") \/ EndBackground("pump")

(* A step of the system thread keeps the types. *)
LEMMA SystemStepTypes ==
  ASSUME TypeInv, SystemStep
  PROVE  TypeInv'
<1> USE DEF TypeInv
<1>1. PcType' /\ CallTypes' /\ EventTypes'
  BY DEF SystemStep, Process, Complete, Idle, Pump, EndBackground, callVars, eventVars,
         PcType, CallTypes, EventTypes
<1>2. CASE Process
  <2>1. Head(systemQueue) \in Calls /\ Tail(systemQueue) \in Seq(Calls)
        /\ Len(Tail(systemQueue)) <= SystemQueueSize
    BY <1>2, SizesAssumption DEF Process, SystemTypes
  <2>2. SystemTypes'
    BY <1>2, <2>1 DEF Process, SystemTypes
  <2> QED
    BY <1>1, <2>2
<1>3. CASE ~Process
  <2>1. SystemTypes'
    BY <1>3 DEF SystemStep, Complete, Idle, Pump, EndBackground, SystemTypes
  <2> QED
    BY <1>1, <2>1
<1> QED
  BY <1>2, <1>3

-----------------------------------------------------------------------------
(* Messages stay in one place.                                             *)

\* A call is the pair of its caller and its number.
LEMMA CallParts == ASSUME NEW m \in Calls
                   PROVE  m[1] \in Callers /\ m[2] \in Nat \ {0} /\ m = <<m[1], m[2]>>
BY SizesAssumption DEF Calls

\* The thread's own last call is nowhere yet while it is being put.
LEMMA NotYetPlaced ==
  ASSUME Inv, NEW c \in Callers, pc[c] = "put"
  PROVE  /\ Call(c) \in Calls
         /\ ~InQueue(Call(c)) /\ Call(c) # running /\ Call(c) \notin completed
<1>1. Call(c) \in Calls
  BY SizesAssumption DEF Inv, TypeInv, CallTypes, Call, Calls
<1>2. ~Accepted(Call(c))
  BY DEF Accepted, Call
<1> QED
  BY <1>1, <1>2 DEF Inv, PlacesInv

\* A caller's steps keep every message in one place.
LEMMA CallerPlaces ==
  ASSUME Inv, NEW c \in Callers, Invoke(c) \/ Put(c) \/ Get(c)
  PROVE  PlacesInv'
<1> USE DEF Inv, TypeInv
<1>1. CASE Invoke(c) \/ Get(c)
  <2>1. UNCHANGED <<systemQueue, running, completed>>
    BY <1>1 DEF Invoke, Get, systemVars
  <2>2. ASSUME NEW m \in Calls, Accepted(m) PROVE Accepted(m)'
    <3>1. m[1] \in Callers /\ m[2] \in Nat
      BY CallParts
    <3>2. CASE m[1] # c
      <4>1. calls'[m[1]] = calls[m[1]] /\ pc'[m[1]] = pc[m[1]]
        BY <1>1, <3>1, <3>2 DEF Invoke, Get, Goto, callVars, PcType, CallTypes, Threads
      <4> QED
        BY <2>2, <4>1 DEF Accepted
    <3>3. CASE m[1] = c /\ Get(c)
      BY <2>2, <3>3 DEF Get, Goto, callVars, Accepted, PcType, Threads
    <3>4. CASE m[1] = c /\ Invoke(c)
      <4>1. calls[c] \in Nat /\ calls'[c] = calls[c] + 1 /\ m[2] <= calls[c]
        BY <2>2, <3>4, SizesAssumption DEF Invoke, CallTypes, Accepted
      <4> QED
        BY <3>1, <3>4, <4>1 DEF Accepted
    <3> QED
      BY <1>1, <3>2, <3>3, <3>4
  <2> QED
    BY <2>1, <2>2 DEF PlacesInv, InQueue
<1>2. CASE Put(c)
  <2>1. /\ systemQueue' = Append(systemQueue, Call(c))
        /\ UNCHANGED <<running, completed, calls>>
        /\ pc'[c] # "put" /\ \A d \in Callers \ {c} : pc'[d] = pc[d]
    BY <1>2 DEF Put, Goto, callVars, systemVars, PcType, Threads
  <2>2. /\ Call(c) \in Calls
        /\ ~InQueue(Call(c)) /\ Call(c) # running /\ Call(c) \notin completed
    BY <1>2, NotYetPlaced DEF Put
  <2>3. /\ Len(systemQueue) \in Nat /\ Len(systemQueue') = Len(systemQueue) + 1
        /\ \A i \in 1 .. Len(systemQueue) : systemQueue'[i] = systemQueue[i]
        /\ systemQueue'[Len(systemQueue) + 1] = Call(c)
    BY <2>1, <2>2 DEF SystemTypes
  <2>4. ASSUME NEW m \in Calls PROVE InQueue(m)' <=> InQueue(m) \/ m = Call(c)
    BY <2>3 DEF InQueue
  <2>5. ASSUME NEW m \in Calls, Accepted(m) \/ m = Call(c) PROVE Accepted(m)'
    <3>1. m[1] \in Callers
      BY CallParts
    <3>2. calls[c] \in Nat
      BY SizesAssumption DEF CallTypes
    <3> QED
      BY <2>1, <2>5, <3>1, <3>2 DEF Accepted, Call
  <2>6. \A i, j \in 1 .. Len(systemQueue') : systemQueue'[i] = systemQueue'[j] => i = j
    BY <2>2, <2>3 DEF PlacesInv, InQueue
  <2> QED
    BY <2>1, <2>2, <2>4, <2>5, <2>6 DEF PlacesInv
<1> QED
  BY <1>1, <1>2

\* So do the steps of events, which touch no message of the system queue.
LEMMA NotifierPlaces ==
  ASSUME Inv,
         HandleEvent \/ \E t \in Notifiers : Notify(t) \/ PutEvent(t) \/ PutTimeout(t)
  PROVE  PlacesInv'
<1> USE DEF Inv, TypeInv
<1>1. UNCHANGED <<systemQueue, running, completed, calls>>
  BY DEF HandleEvent, Notify, PutEvent, PutTimeout, callVars, systemVars
<1>2. \A d \in Callers : pc'[d] = "put" => pc[d] = "put"
  BY DEF HandleEvent, Notify, PutEvent, PutTimeout, Goto, PcType, Threads
<1>3. ASSUME NEW m \in Calls, Accepted(m) PROVE Accepted(m)'
  BY <1>1, <1>2, <1>3, CallParts DEF Accepted
<1> QED
  BY <1>1, <1>3 DEF PlacesInv, InQueue

\* So does the system thread: what it takes leaves the queue.
LEMMA SystemPlaces ==
  ASSUME Inv, SystemStep
  PROVE  PlacesInv'
<1> USE DEF Inv, TypeInv
<1>1. UNCHANGED <<pc, calls>>
  BY DEF SystemStep, Process, Complete, Idle, Pump, EndBackground, callVars
<1>2. ASSUME NEW m PROVE Accepted(m)' <=> Accepted(m)
  BY <1>1 DEF Accepted
<1>3. CASE Process
  <2>1. /\ running = None /\ running' = Head(systemQueue) /\ systemQueue # <<>>
        /\ systemQueue' = Tail(systemQueue) /\ UNCHANGED completed
    BY <1>3 DEF Process
  <2>2. /\ Len(systemQueue) \in Nat \ {0} /\ Len(systemQueue') = Len(systemQueue) - 1
        /\ \A i \in 1 .. Len(systemQueue') : systemQueue'[i] = systemQueue[i + 1]
        /\ running' = systemQueue[1]
    BY <2>1 DEF SystemTypes
  <2>3. InQueue(running') /\ running' \in Calls
    BY <2>2 DEF InQueue, SystemTypes
  <2>4. ASSUME NEW m \in Calls, InQueue(m)' PROVE InQueue(m) /\ m # running'
    BY <2>2, <2>4 DEF InQueue, PlacesInv
  <2>5. \A i, j \in 1 .. Len(systemQueue') : systemQueue'[i] = systemQueue'[j] => i = j
    BY <2>2 DEF PlacesInv
  <2> QED
    BY <1>2, <2>1, <2>3, <2>4, <2>5 DEF PlacesInv
<1>4. CASE Complete
  <2>1. /\ running \in Calls /\ running' = None /\ completed' = completed \cup {running}
        /\ UNCHANGED systemQueue
    BY <1>4 DEF Complete, SystemTypes
  <2>2. None \notin Calls
    BY SizesAssumption DEF None, Calls
  <2> QED
    BY <1>2, <2>1, <2>2 DEF PlacesInv, InQueue, SystemTypes
<1>5. CASE Idle \/ Pump \/ EndBackground("busy") \/ EndBackground("pump")
  <2>1. UNCHANGED <<systemQueue, running, completed>>
    BY <1>5 DEF Idle, Pump, EndBackground
  <2> QED
    BY <1>2, <2>1 DEF PlacesInv, InQueue
<1> QED
  BY <1>3, <1>4, <1>5 DEF SystemStep

-----------------------------------------------------------------------------
\* Every step keeps the invariant.
LEMMA StepInv == Inv /\ [Next]_vars => Inv'
<1> SUFFICES ASSUME Inv, [Next]_vars PROVE Inv'
  OBVIOUS
<1>1. CASE \E c \in Callers : Invoke(c) \/ Put(c) \/ Get(c)
  BY <1>1, CallerTypes, CallerPlaces DEF Inv
<1>2. CASE HandleEvent \/ \E t \in Notifiers : Notify(t) \/ PutEvent(t) \/ PutTimeout(t)
  BY <1>2, NotifierTypes, NotifierPlaces DEF Inv
<1>3. CASE SystemStep
  BY <1>3, SystemStepTypes, SystemPlaces DEF Inv
<1>4. CASE UNCHANGED vars
  BY <1>4 DEF vars, callVars, systemVars, eventVars, Inv, TypeInv, PcType, CallTypes,
              SystemTypes, EventTypes, PlacesInv, InQueue, Accepted
<1> QED
  BY <1>1, <1>2, <1>3, <1>4 DEF Next, SystemStep

\* The inductive invariant of the two queues holds throughout.
THEOREM Invariance == Spec => []Inv
BY InitInv, StepInv, PTL DEF Spec

(* No message is ever in two places, no queue holds more than its size: a  *)
(* call is not run twice, and no deleted task or promise is run.           *)
THEOREM TypeCorrect == Spec => []TypeOK
<1>1. Inv => TypeOK
  <2> SUFFICES ASSUME Inv PROVE TypeOK
    OBVIOUS
  <2>1. ToSet(systemQueue) \cap completed = {}
    BY DEF ToSet, Inv, TypeInv, SystemTypes, PlacesInv, InQueue
  <2> QED
    BY <2>1 DEF Inv, TypeInv, PcType, CallTypes, SystemTypes, EventTypes, PlacesInv, TypeOK
<1> QED
  BY <1>1, Invariance, PTL

-----------------------------------------------------------------------------
(* The order of the queues, which the abstract service needs.              *)

\* Messages of one thread lie in the order in which it made them.
Ordered(queue) ==
  \A i, j \in 1 .. Len(queue) : i < j /\ queue[i][1] = queue[j][1] => queue[i][2] < queue[j][2]

\* A call that has been accepted is not lost, and a thread's calls are run in
\* their order.
OrderInv ==
  /\ \A m \in Calls : Accepted(m) => InQueue(m) \/ m = running \/ m \in completed
  /\ Ordered(systemQueue)
  /\ \A m, n \in Calls :
       (m = running \/ m \in completed) /\ n[1] = m[1] /\ n[2] < m[2] => n \in completed

InAppQueue(e) == \E i \in 1 .. Len(appQueue) : appQueue[i] = e

\* The put of the event is over, one way or the other.
Given(e) == e[2] <= events[e[1]] /\ (e[2] = events[e[1]] => pc[e[1]] # "notify")

\* An event whose put is over is in the queue, handled or dropped, and in one
\* of these only.
EventInv ==
  /\ \A e \in Events : Given(e) <=> InAppQueue(e) \/ e \in handled \/ e \in dropped
  /\ \A e \in Events : InAppQueue(e) => e \notin handled /\ e \notin dropped
  /\ handled \cap dropped = {}
  /\ Ordered(appQueue)

StrongInv == Inv /\ OrderInv /\ EventInv

\* Putting the latest message of a thread keeps the order.
LEMMA OrderedAppend ==
  ASSUME NEW S, NEW queue \in Seq(S), Ordered(queue), NEW x \in S,
         \A i \in 1 .. Len(queue) : queue[i][1] = x[1] => queue[i][2] < x[2]
  PROVE  Ordered(Append(queue, x))
<1> DEFINE q == Append(queue, x)
<1>1. /\ Len(queue) \in Nat /\ Len(q) = Len(queue) + 1 /\ q[Len(queue) + 1] = x
      /\ \A i \in 1 .. Len(queue) : q[i] = queue[i]
  OBVIOUS
<1> HIDE DEF q
<1>2. ASSUME NEW i \in 1 .. Len(q), NEW j \in 1 .. Len(q), i < j, q[i][1] = q[j][1]
      PROVE  q[i][2] < q[j][2]
  <2>1. CASE j \in 1 .. Len(queue)
    BY <1>1, <1>2, <2>1 DEF Ordered
  <2>2. CASE j = Len(queue) + 1
    BY <1>1, <1>2, <2>2
  <2> QED
    BY <1>1, <2>1, <2>2
<1> QED
  BY <1>2 DEF Ordered, q

\* Taking the first message does too, and no earlier one of its thread follows.
LEMMA OrderedTail ==
  ASSUME NEW S, NEW queue \in Seq(S), Ordered(queue), queue # <<>>
  PROVE  /\ Ordered(Tail(queue)) /\ Head(queue) \in S
         /\ Tail(queue) \in Seq(S)
         /\ \A x : (\E i \in 1 .. Len(queue) : queue[i] = x)
                     <=> x = Head(queue) \/ \E i \in 1 .. Len(Tail(queue)) : Tail(queue)[i] = x
         /\ \A i \in 1 .. Len(Tail(queue)) :
              Tail(queue)[i][1] = Head(queue)[1] => Head(queue)[2] < Tail(queue)[i][2]
<1> DEFINE q == Tail(queue)
<1>1. /\ Len(queue) \in Nat \ {0} /\ q \in Seq(S) /\ Len(q) = Len(queue) - 1
      /\ \A i \in 1 .. Len(q) : q[i] = queue[i + 1]
      /\ Head(queue) = queue[1] /\ queue[1] \in S
  OBVIOUS
<1> HIDE DEF q
<1>2. Ordered(q)
  BY <1>1 DEF Ordered
<1>3. \A i \in 1 .. Len(q) : q[i][1] = queue[1][1] => queue[1][2] < q[i][2]
  BY <1>1 DEF Ordered
<1>4. ASSUME NEW x
      PROVE  (\E i \in 1 .. Len(queue) : queue[i] = x)
               <=> x = queue[1] \/ \E i \in 1 .. Len(q) : q[i] = x
  <2>1. ASSUME NEW i \in 1 .. Len(queue), queue[i] = x, i # 1
        PROVE  \E k \in 1 .. Len(q) : q[k] = x
    <3>1. i - 1 \in 1 .. Len(q) /\ q[i - 1] = queue[i]
      BY <1>1, <2>1
    <3> QED
      BY <2>1, <3>1
  <2>2. ASSUME NEW i \in 1 .. Len(q), q[i] = x
        PROVE  \E k \in 1 .. Len(queue) : queue[k] = x
    <3>1. i + 1 \in 1 .. Len(queue) /\ queue[i + 1] = x
      BY <1>1, <2>2
    <3> QED
      BY <3>1
  <2>3. 1 \in 1 .. Len(queue)
    BY <1>1
  <2> QED
    BY <2>1, <2>2, <2>3
<1> QED
  BY <1>1, <1>2, <1>3, <1>4 DEF q

\* What an appended queue holds.
LEMMA AppendHolds ==
  ASSUME NEW S, NEW queue \in Seq(S), NEW x \in S, NEW y
  PROVE  (\E i \in 1 .. Len(Append(queue, x)) : Append(queue, x)[i] = y)
           <=> y = x \/ \E i \in 1 .. Len(queue) : queue[i] = y
<1> DEFINE q == Append(queue, x)
<1>1. /\ Len(queue) \in Nat /\ Len(q) = Len(queue) + 1 /\ q[Len(queue) + 1] = x
      /\ \A i \in 1 .. Len(queue) : q[i] = queue[i]
  OBVIOUS
<1> HIDE DEF q
<1>2. ASSUME NEW i \in 1 .. Len(q), q[i] = y
      PROVE  y = x \/ \E k \in 1 .. Len(queue) : queue[k] = y
  BY <1>1, <1>2
<1>3. Len(queue) + 1 \in 1 .. Len(q) /\ \A i \in 1 .. Len(queue) : i \in 1 .. Len(q)
  BY <1>1
<1>4. (\E i \in 1 .. Len(q) : q[i] = y) <=> y = x \/ \E i \in 1 .. Len(queue) : queue[i] = y
  BY <1>1, <1>2, <1>3
<1> QED
  BY <1>4 DEF q

\* A queue in order holds as many messages as it is long.
LEMMA OrderedCounts ==
  ASSUME NEW S, NEW queue \in Seq(S), Ordered(queue), \A x \in S : x[2] \in Nat
  PROVE  Cardinality({x \in S : \E i \in 1 .. Len(queue) : queue[i] = x}) = Len(queue)
<1> DEFINE T == {x \in S : \E i \in 1 .. Len(queue) : queue[i] = x}
<1>1. Len(queue) \in Nat /\ queue \in [1 .. Len(queue) -> S]
  OBVIOUS
<1>2. \A i \in 1 .. Len(queue) : queue[i] \in S /\ queue[i][2] \in Nat
  BY <1>1
<1>3. ASSUME NEW i \in 1 .. Len(queue), NEW j \in 1 .. Len(queue), queue[i] = queue[j]
      PROVE  i = j
  <2>1. ~(i < j) /\ ~(j < i)
    BY <1>2, <1>3 DEF Ordered
  <2> QED
    BY <1>1, <2>1
<1>4. queue \in [1 .. Len(queue) -> T]
  BY <1>1, <1>2
<1>5. queue \in Injection(1 .. Len(queue), T)
  BY <1>3, <1>4 DEF Injection, IsInjective
<1>6. queue \in Surjection(1 .. Len(queue), T)
  BY <1>4 DEF Surjection
<1>7. ExistsBijection(1 .. Len(queue), T)
  BY <1>5, <1>6 DEF Bijection, ExistsBijection
<1> QED
  BY <1>1, <1>7, FS_CountingElements

-----------------------------------------------------------------------------
(* The order is kept.                                                      *)

\* None is no call.
LEMMA NoneIsNoCall == None \notin Calls /\ \A m \in Calls : m # None
BY SizesAssumption DEF None, Calls

\* An event is the pair of its thread and its number.
LEMMA EventParts == ASSUME NEW e \in Events
                    PROVE  e[1] \in Notifiers /\ e[2] \in Nat \ {0} /\ e = <<e[1], e[2]>>
BY SizesAssumption DEF Events

\* A caller's steps accept only the call that is put, and that as the last.
LEMMA CallerOrder ==
  ASSUME Inv, OrderInv, NEW c \in Callers, Invoke(c) \/ Put(c) \/ Get(c)
  PROVE  OrderInv'
<1> USE DEF Inv, TypeInv
<1>0. UNCHANGED <<running, completed>>
  BY DEF Invoke, Put, Get, systemVars
<1>1. CASE Invoke(c) \/ Get(c)
  <2>1. UNCHANGED systemQueue
    BY <1>1 DEF Invoke, Get
  <2>2. ASSUME NEW m \in Calls, Accepted(m)' PROVE Accepted(m)
    <3>1. m[1] \in Callers /\ m[2] \in Nat /\ calls[c] \in Nat
      BY CallParts, SizesAssumption DEF CallTypes
    <3>2. CASE m[1] # c
      <4>1. calls'[m[1]] = calls[m[1]] /\ pc'[m[1]] = pc[m[1]]
        BY <1>1, <3>1, <3>2 DEF Invoke, Get, Goto, callVars, PcType, CallTypes, Threads
      <4> QED
        BY <2>2, <4>1 DEF Accepted
    <3>3. CASE m[1] = c /\ Get(c)
      BY <2>2, <3>3 DEF Get, Goto, callVars, Accepted, PcType, Threads
    <3>4. CASE m[1] = c /\ Invoke(c)
      <4>1. calls'[c] = calls[c] + 1 /\ pc'[c] = "put" /\ pc[c] = "run"
        BY <3>4 DEF Invoke, Goto, CallTypes, PcType, Threads
      <4> QED
        BY <2>2, <3>1, <3>4, <4>1 DEF Accepted
    <3> QED
      BY <1>1, <3>2, <3>3, <3>4
  <2> QED
    BY <1>0, <2>1, <2>2 DEF OrderInv, InQueue
<1>2. CASE Put(c)
  <2>1. /\ systemQueue' = Append(systemQueue, Call(c)) /\ UNCHANGED calls /\ pc[c] = "put"
        /\ \A d \in Callers \ {c} : pc'[d] = pc[d]
    BY <1>2 DEF Put, Goto, callVars, PcType, Threads
  <2>2. Call(c) \in Calls /\ Call(c)[1] = c /\ Call(c)[2] = calls[c]
    BY <2>1, NotYetPlaced DEF Call
  <2>3. systemQueue \in Seq(Calls)
    BY DEF SystemTypes
  <2>4. \A y : InQueue(y)' <=> y = Call(c) \/ InQueue(y)
    BY <2>1, <2>2, <2>3, AppendHolds DEF InQueue
  <2>5. ASSUME NEW i \in 1 .. Len(systemQueue), systemQueue[i][1] = c
        PROVE  systemQueue[i][2] < calls[c]
    <3>1. systemQueue[i] \in Calls /\ InQueue(systemQueue[i])
      BY <2>3 DEF InQueue
    <3>2. systemQueue[i][2] \in Nat /\ calls[c] \in Nat
      BY <3>1, CallParts, SizesAssumption DEF CallTypes
    <3>3. Accepted(systemQueue[i])
      BY <3>1 DEF PlacesInv
    <3> QED
      BY <2>1, <2>5, <3>2, <3>3 DEF Accepted
  <2>6. Ordered(systemQueue)'
    <3>1. Ordered(Append(systemQueue, Call(c)))
      BY <2>2, <2>3, <2>5, OrderedAppend DEF OrderInv
    <3> QED
      BY <2>1, <3>1 DEF Ordered
  <2>7. ASSUME NEW m \in Calls, Accepted(m)' PROVE m = Call(c) \/ Accepted(m)
    <3>1. m[1] \in Callers /\ m[2] \in Nat /\ calls[c] \in Nat /\ m = <<m[1], m[2]>>
      BY CallParts, SizesAssumption DEF CallTypes
    <3> QED
      BY <2>1, <2>7, <3>1 DEF Accepted, Call
  <2> QED
    BY <1>0, <2>4, <2>6, <2>7 DEF OrderInv
<1> QED
  BY <1>1, <1>2

\* The steps of events leave the calls alone.
LEMMA NotifierOrder ==
  ASSUME Inv, OrderInv,
         HandleEvent \/ \E t \in Notifiers : Notify(t) \/ PutEvent(t) \/ PutTimeout(t)
  PROVE  OrderInv'
<1> USE DEF Inv, TypeInv
<1>1. UNCHANGED <<systemQueue, running, completed, calls>>
  BY DEF HandleEvent, Notify, PutEvent, PutTimeout, callVars, systemVars
<1>2. \A d \in Callers : pc[d] = "put" => pc'[d] = "put"
  BY DEF HandleEvent, Notify, PutEvent, PutTimeout, Goto, PcType, Threads
<1>3. ASSUME NEW m \in Calls, Accepted(m)' PROVE Accepted(m)
  BY <1>1, <1>2, <1>3, CallParts DEF Accepted
<1> QED
  BY <1>1, <1>3 DEF OrderInv, InQueue

\* The system thread takes the calls of each caller in their order.
LEMMA SystemOrder ==
  ASSUME Inv, OrderInv, SystemStep
  PROVE  OrderInv'
<1> USE DEF Inv, TypeInv
<1>1. UNCHANGED <<pc, calls>>
  BY DEF SystemStep, Process, Complete, Idle, Pump, EndBackground, callVars
<1>2. \A m : Accepted(m)' <=> Accepted(m)
  BY <1>1 DEF Accepted
<1>3. CASE Process
  <2>1. /\ running = None /\ running' = Head(systemQueue) /\ systemQueue # <<>>
        /\ systemQueue' = Tail(systemQueue) /\ UNCHANGED completed
    BY <1>3 DEF Process
  <2>2. systemQueue \in Seq(Calls) /\ Ordered(systemQueue)
    BY DEF SystemTypes, OrderInv
  <2>3. /\ Ordered(Tail(systemQueue)) /\ running' \in Calls
        /\ \A y : InQueue(y) <=> y = running' \/ InQueue(y)'
        /\ \A i \in 1 .. Len(systemQueue') :
             systemQueue'[i][1] = running'[1] => running'[2] < systemQueue'[i][2]
    <3>1. /\ Ordered(Tail(systemQueue)) /\ Head(systemQueue) \in Calls
          /\ \A y : (\E i \in 1 .. Len(systemQueue) : systemQueue[i] = y)
                       <=> \/ y = Head(systemQueue)
                           \/ \E i \in 1 .. Len(Tail(systemQueue)) : Tail(systemQueue)[i] = y
          /\ \A i \in 1 .. Len(Tail(systemQueue)) :
               Tail(systemQueue)[i][1] = Head(systemQueue)[1]
                 => Head(systemQueue)[2] < Tail(systemQueue)[i][2]
      BY <2>1, <2>2, OrderedTail
    <3>2. \A y : InQueue(y) <=> y = running' \/ InQueue(y)'
      BY <2>1, <3>1 DEF InQueue
    <3> QED
      BY <2>1, <3>1, <3>2
  <2>4. Ordered(systemQueue)'
    BY <2>1, <2>3 DEF Ordered
  <2>5. ASSUME NEW n \in Calls, n[1] = running'[1], n[2] < running'[2]
        PROVE  n \in completed
    <3>1. InQueue(running')
      BY <2>3
    <3>2. Accepted(running')
      BY <2>3, <3>1 DEF PlacesInv
    <3>3. n[1] \in Callers /\ n[2] \in Nat /\ running'[2] \in Nat /\ calls[n[1]] \in Nat
      BY <2>3, CallParts, SizesAssumption DEF CallTypes
    <3>4. Accepted(n)
      BY <2>5, <3>2, <3>3 DEF Accepted
    <3>5. n # running'
      BY <2>5, <3>3
    <3>6. ~InQueue(n)'
      BY <2>3, <2>5, <3>3 DEF InQueue
    <3> QED
      BY <2>1, <2>3, <3>4, <3>5, <3>6, NoneIsNoCall DEF OrderInv
  <2>6. ASSUME NEW m \in Calls, Accepted(m)
        PROVE  InQueue(m)' \/ m = running' \/ m \in completed
    BY <2>1, <2>3, <2>6, NoneIsNoCall DEF OrderInv
  <2> QED
    BY <1>2, <2>1, <2>4, <2>5, <2>6 DEF OrderInv
<1>4. CASE Complete
  <2>1. /\ running \in Calls /\ running' = None /\ completed' = completed \cup {running}
        /\ UNCHANGED systemQueue
    BY <1>4 DEF Complete, SystemTypes
  <2> QED
    BY <1>2, <2>1, NoneIsNoCall DEF OrderInv, InQueue
<1>5. CASE Idle \/ Pump \/ EndBackground("busy") \/ EndBackground("pump")
  <2>1. UNCHANGED <<systemQueue, running, completed>>
    BY <1>5 DEF Idle, Pump, EndBackground
  <2> QED
    BY <1>2, <2>1 DEF OrderInv, InQueue
<1> QED
  BY <1>3, <1>4, <1>5 DEF SystemStep

-----------------------------------------------------------------------------
(* Events stay in one place.                                               *)

\* The event that is being put is nowhere yet.
LEMMA NotYetGiven ==
  ASSUME Inv, EventInv, NEW t \in Notifiers, pc[t] = "notify"
  PROVE  /\ Event(t) \in Events /\ Event(t)[1] = t /\ Event(t)[2] = events[t]
         /\ ~InAppQueue(Event(t)) /\ Event(t) \notin handled /\ Event(t) \notin dropped
<1>1. Event(t) \in Events /\ Event(t)[1] = t /\ Event(t)[2] = events[t]
  BY SizesAssumption DEF Inv, TypeInv, EventTypes, Event, Events
<1>2. ~Given(Event(t))
  BY <1>1 DEF Given
<1> QED
  BY <1>1, <1>2 DEF EventInv

\* When the put of an event ends, that event and no other is given.
LEMMA PutGives ==
  ASSUME Inv, NEW t \in Notifiers, PutEvent(t) \/ PutTimeout(t), NEW e \in Events
  PROVE  Given(e)' <=> e = Event(t) \/ Given(e)
<1> USE DEF Inv, TypeInv
<1>1. /\ UNCHANGED events /\ pc[t] = "notify" /\ pc'[t] = "run"
      /\ \A u \in Notifiers \ {t} : pc'[u] = pc[u]
  BY DEF PutEvent, PutTimeout, Goto, PcType, Threads
<1>2. e[1] \in Notifiers /\ e[2] \in Nat /\ e = <<e[1], e[2]>> /\ events[t] \in Nat
  BY EventParts, SizesAssumption DEF EventTypes
<1>3. CASE e[1] # t
  BY <1>1, <1>2, <1>3 DEF Given, Event
<1>4. CASE e[1] = t
  BY <1>1, <1>2, <1>4 DEF Given, Event
<1> QED
  BY <1>3, <1>4

\* Calls leave the events alone.
LEMMA CallEvents ==
  ASSUME Inv, EventInv, SystemStep \/ \E c \in Callers : Invoke(c) \/ Put(c) \/ Get(c)
  PROVE  EventInv'
<1> USE DEF Inv, TypeInv
<1>1. UNCHANGED <<events, appQueue, handled, dropped>>
  BY DEF SystemStep, Process, Complete, Idle, Pump, EndBackground, Invoke, Put, Get, eventVars
<1>2. \A t \in Notifiers : pc'[t] = "notify" <=> pc[t] = "notify"
  BY DEF SystemStep, Process, Complete, Idle, Pump, EndBackground, Invoke, Put, Get, Goto,
         PcType, Threads
<1>3. ASSUME NEW e \in Events PROVE Given(e)' <=> Given(e)
  BY <1>1, <1>2, EventParts DEF Given
<1> QED
  BY <1>1, <1>3 DEF EventInv, InAppQueue

\* An event is put, dropped and handled once.
LEMMA NotifierEvents ==
  ASSUME Inv, EventInv,
         HandleEvent \/ \E t \in Notifiers : Notify(t) \/ PutEvent(t) \/ PutTimeout(t)
  PROVE  EventInv'
<1> USE DEF Inv, TypeInv
<1>0. appQueue \in Seq(Events) /\ Ordered(appQueue)
  BY DEF EventTypes, EventInv
<1>1. ASSUME NEW t \in Notifiers, Notify(t)
      PROVE  EventInv'
  <2>1. UNCHANGED <<appQueue, handled, dropped>>
    BY <1>1 DEF Notify
  <2>2. /\ pc[t] = "run" /\ pc'[t] = "notify" /\ events'[t] = events[t] + 1
        /\ \A u \in Notifiers \ {t} : pc'[u] = pc[u] /\ events'[u] = events[u]
    BY <1>1 DEF Notify, Goto, PcType, EventTypes, Threads
  <2>3. ASSUME NEW e \in Events PROVE Given(e)' <=> Given(e)
    <3>1. e[1] \in Notifiers /\ e[2] \in Nat /\ events[t] \in Nat
      BY EventParts, SizesAssumption DEF EventTypes
    <3>2. CASE e[1] # t
      BY <2>2, <3>1, <3>2 DEF Given
    <3>3. CASE e[1] = t
      BY <2>2, <3>1, <3>3 DEF Given
    <3> QED
      BY <3>2, <3>3
  <2> QED
    BY <2>1, <2>3 DEF EventInv, InAppQueue
<1>2. ASSUME NEW t \in Notifiers, PutEvent(t)
      PROVE  EventInv'
  <2>1. appQueue' = Append(appQueue, Event(t)) /\ UNCHANGED <<events, handled, dropped>>
        /\ pc[t] = "notify"
    BY <1>2 DEF PutEvent
  <2>2. /\ Event(t) \in Events /\ Event(t)[1] = t /\ Event(t)[2] = events[t]
        /\ ~InAppQueue(Event(t)) /\ Event(t) \notin handled /\ Event(t) \notin dropped
    BY <2>1, NotYetGiven
  <2>3. \A y : InAppQueue(y)' <=> y = Event(t) \/ InAppQueue(y)
    BY <1>0, <2>1, <2>2, AppendHolds DEF InAppQueue
  <2>4. \A e \in Events : Given(e)' <=> e = Event(t) \/ Given(e)
    BY <1>2, PutGives
  <2>5. ASSUME NEW i \in 1 .. Len(appQueue), appQueue[i][1] = t
        PROVE  appQueue[i][2] < events[t]
    <3>1. appQueue[i] \in Events /\ InAppQueue(appQueue[i])
      BY <1>0 DEF InAppQueue
    <3>2. appQueue[i][2] \in Nat /\ events[t] \in Nat
      BY <3>1, EventParts, SizesAssumption DEF EventTypes
    <3>3. Given(appQueue[i])
      BY <3>1 DEF EventInv
    <3> QED
      BY <2>1, <2>5, <3>2, <3>3 DEF Given
  <2>6. Ordered(appQueue)'
    <3>1. Ordered(Append(appQueue, Event(t)))
      BY <1>0, <2>2, <2>5, OrderedAppend
    <3> QED
      BY <2>1, <3>1 DEF Ordered
  <2> QED
    BY <2>1, <2>2, <2>3, <2>4, <2>6 DEF EventInv
<1>3. ASSUME NEW t \in Notifiers, PutTimeout(t)
      PROVE  EventInv'
  <2>1. dropped' = dropped \cup {Event(t)} /\ UNCHANGED <<events, handled, appQueue>>
        /\ pc[t] = "notify"
    BY <1>3 DEF PutTimeout
  <2>2. /\ Event(t) \in Events
        /\ ~InAppQueue(Event(t)) /\ Event(t) \notin handled /\ Event(t) \notin dropped
    BY <2>1, NotYetGiven
  <2>3. \A e \in Events : Given(e)' <=> e = Event(t) \/ Given(e)
    BY <1>3, PutGives
  <2>4. \A y : InAppQueue(y)' <=> InAppQueue(y)
    BY <2>1 DEF InAppQueue
  <2> QED
    BY <2>1, <2>2, <2>3, <2>4 DEF EventInv
<1>4. CASE HandleEvent
  <2>1. /\ appQueue # <<>> /\ handled' = handled \cup {Head(appQueue)}
        /\ appQueue' = Tail(appQueue) /\ UNCHANGED <<pc, events, dropped>>
    BY <1>4 DEF HandleEvent
  <2>2. /\ Ordered(Tail(appQueue)) /\ Head(appQueue) \in Events
        /\ \A y : (\E i \in 1 .. Len(appQueue) : appQueue[i] = y)
                     <=> \/ y = Head(appQueue)
                         \/ \E i \in 1 .. Len(Tail(appQueue)) : Tail(appQueue)[i] = y
        /\ \A i \in 1 .. Len(Tail(appQueue)) :
             Tail(appQueue)[i][1] = Head(appQueue)[1]
               => Head(appQueue)[2] < Tail(appQueue)[i][2]
    BY <1>0, <2>1, OrderedTail
  <2>3. \A y : InAppQueue(y) <=> y = Head(appQueue) \/ InAppQueue(y)'
    BY <2>1, <2>2 DEF InAppQueue
  <2>4. ASSUME NEW e \in Events, e = Head(appQueue) PROVE ~InAppQueue(e)'
    <3>1. e[2] \in Nat
      BY EventParts
    <3> QED
      BY <2>1, <2>2, <2>4, <3>1 DEF InAppQueue
  <2>5. \A e : Given(e)' <=> Given(e)
    BY <2>1 DEF Given
  <2>6. Ordered(appQueue)'
    BY <2>1, <2>2 DEF Ordered
  <2> QED
    BY <2>1, <2>2, <2>3, <2>4, <2>5, <2>6 DEF EventInv
<1> QED
  BY <1>1, <1>2, <1>3, <1>4

\* The queues are in order, and every call and event is accounted for, throughout.
THEOREM StrongInvariance == Spec => []StrongInv
<1>1. Init => StrongInv
  <2> SUFFICES ASSUME Init PROVE StrongInv
    OBVIOUS
  <2> USE SizesAssumption DEF Init
  <2>1. OrderInv
    <3>1. ASSUME NEW m \in Calls PROVE ~Accepted(m) /\ m # running
      BY NoneIsNoCall, CallParts DEF Accepted
    <3>2. Ordered(systemQueue)
      BY DEF Ordered
    <3> QED
      BY <3>1, <3>2 DEF OrderInv
  <2>2. EventInv
    <3>1. ASSUME NEW e \in Events PROVE ~Given(e) /\ ~InAppQueue(e)
      BY EventParts DEF Given, InAppQueue
    <3>2. Ordered(appQueue)
      BY DEF Ordered
    <3> QED
      BY <3>1, <3>2 DEF EventInv
  <2> QED
    BY <2>1, <2>2, InitInv DEF StrongInv
<1>2. StrongInv /\ [Next]_vars => StrongInv'
  <2> SUFFICES ASSUME StrongInv, [Next]_vars PROVE StrongInv'
    OBVIOUS
  <2>0. Inv /\ OrderInv /\ EventInv /\ Inv'
    BY StepInv DEF StrongInv
  <2>1. CASE \E c \in Callers : Invoke(c) \/ Put(c) \/ Get(c)
    BY <2>0, <2>1, CallerOrder, CallEvents DEF StrongInv
  <2>2. CASE HandleEvent \/ \E t \in Notifiers : Notify(t) \/ PutEvent(t) \/ PutTimeout(t)
    BY <2>0, <2>2, NotifierOrder, NotifierEvents DEF StrongInv
  <2>3. CASE SystemStep
    BY <2>0, <2>3, SystemOrder, CallEvents DEF StrongInv
  <2>4. CASE UNCHANGED vars
    <3>1. OrderInv' /\ EventInv'
      BY <2>0, <2>4 DEF vars, callVars, systemVars, eventVars, OrderInv, EventInv, InQueue,
         InAppQueue, Accepted, Given, Ordered
    <3> QED
      BY <2>0, <3>1 DEF StrongInv
  <2> QED
    BY <2>1, <2>2, <2>3, <2>4 DEF Next, SystemStep
<1> QED
  BY <1>1, <1>2, PTL DEF Spec

-----------------------------------------------------------------------------
(* The threads implement the abstract service.                             *)

Work   == [m \in Calls |-> WorkOf(m)]
Back   == {m \in Calls : Returned(m)}
Notice == [e \in Events |-> NoticeOf(e)]

\* How far a call is, and an event, can be read off in one way.
WorkRead ==
  \A m \in Calls :
    /\ m \in completed         => WorkOf(m) = "done"
    /\ m = running             => WorkOf(m) = "begun"
    /\ Waiting(m)              => WorkOf(m) = "asked"
    /\ ~(m[2] <= calls[m[1]])  => WorkOf(m) = "none"
NoticeRead ==
  \A e \in Events :
    /\ e \in handled                => NoticeOf(e) = "handled"
    /\ e \in dropped                => NoticeOf(e) = "lost"
    /\ InAppQueue(e)                => NoticeOf(e) = "kept"
    /\ UnderWay(e)                  => NoticeOf(e) = "offered"
    /\ ~Given(e) /\ ~UnderWay(e)    => NoticeOf(e) = "none"
Readable == WorkRead /\ NoticeRead

\* The alternatives of WorkOf and of NoticeOf exclude each other.
LEMMA Reading == StrongInv => Readable
<1> SUFFICES ASSUME StrongInv PROVE Readable
  OBVIOUS
<1> USE DEF StrongInv, Inv, TypeInv
<1>1. ASSUME NEW m \in Calls
      PROVE  /\ m \in completed         => WorkOf(m) = "done"
             /\ m = running             => WorkOf(m) = "begun"
             /\ Waiting(m)              => WorkOf(m) = "asked"
             /\ ~(m[2] <= calls[m[1]])  => WorkOf(m) = "none"
  <2>1. /\ m \in completed \/ m = running => m[2] <= calls[m[1]]
        /\ running \notin completed
    BY DEF PlacesInv, Accepted
  <2> QED
    BY <2>1 DEF WorkOf, Waiting
<1>2. ASSUME NEW e \in Events
      PROVE  /\ e \in handled                => NoticeOf(e) = "handled"
             /\ e \in dropped                => NoticeOf(e) = "lost"
             /\ InAppQueue(e)                => NoticeOf(e) = "kept"
             /\ UnderWay(e)                  => NoticeOf(e) = "offered"
             /\ ~Given(e) /\ ~UnderWay(e)    => NoticeOf(e) = "none"
  <2>1. e \in ToSet(appQueue) <=> InAppQueue(e)
    BY DEF ToSet, InAppQueue
  <2>2. /\ UnderWay(e) => ~Given(e)
        /\ InAppQueue(e) \/ e \in handled \/ e \in dropped <=> Given(e)
        /\ InAppQueue(e) => e \notin handled /\ e \notin dropped
        /\ ~(e \in handled /\ e \in dropped)
    BY DEF EventInv, UnderWay, Given
  <2> QED
    BY <2>1, <2>2 DEF NoticeOf
<1> QED
  BY <1>1, <1>2 DEF Readable, WorkRead, NoticeRead

\* An event that is given is kept, handled or lost, and any other is not.
LEMMA GivenRead ==
  ASSUME StrongInv, NEW e \in Events
  PROVE  /\ Given(e) => NoticeOf(e) \in {"kept", "handled", "lost"}
         /\ NoticeOf(e) = "kept" <=> InAppQueue(e)
<1>1. NoticeRead
  BY Reading DEF Readable
<1>2. Given(e) <=> InAppQueue(e) \/ e \in handled \/ e \in dropped
  BY DEF StrongInv, EventInv
<1> QED
  BY <1>1, <1>2 DEF NoticeRead

\* What moves a call, and nothing else.
LEMMA SameWork ==
  ASSUME UNCHANGED <<calls, running, completed>>
  PROVE  \A m : WorkOf(m)' = WorkOf(m)
BY DEF WorkOf, Waiting

\* What lets a caller go on, and nothing else.
LEMMA SameBack ==
  ASSUME UNCHANGED calls,
         \A c \in Callers : pc'[c] \in {"put", "wait"} <=> pc[c] \in {"put", "wait"}
  PROVE  Back' = Back
<1>1. \A m \in Calls : Returned(m)' <=> Returned(m)
  BY CallParts DEF Returned
<1> QED
  BY <1>1 DEF Back

\* What moves an event, and nothing else.
LEMMA SameNotice ==
  ASSUME UNCHANGED <<events, appQueue, handled, dropped>>,
         \A t \in Notifiers : pc'[t] = "notify" <=> pc[t] = "notify"
  PROVE  Notice' = Notice
<1>1. ASSUME NEW e \in Events PROVE UnderWay(e)' <=> UnderWay(e)
  BY EventParts DEF UnderWay
<1>2. ASSUME NEW e \in Events PROVE NoticeOf(e)' = NoticeOf(e)
  BY <1>1 DEF NoticeOf
<1> QED
  BY <1>2 DEF Notice

Serves == Promise!ServiceNext \/ UNCHANGED <<Work, promises, Back, Notice>>

\* A caller asks, and goes on when it may.
LEMMA CallerServes ==
  ASSUME StrongInv, Readable, Readable', NEW c \in Callers, Invoke(c) \/ Put(c) \/ Get(c)
  PROVE  Serves
<1> USE DEF StrongInv, Inv, TypeInv
<1>0. Notice' = Notice
  <2>1. \A t \in Notifiers : pc'[t] = "notify" <=> pc[t] = "notify"
    BY DEF Invoke, Put, Get, Goto, PcType, Threads
  <2>2. UNCHANGED <<events, appQueue, handled, dropped>>
    BY DEF Invoke, Put, Get, eventVars
  <2> QED
    BY <2>1, <2>2, SameNotice
<1>1. CASE Invoke(c)
  <2>1. /\ pc[c] = "run" /\ pc'[c] = "put" /\ calls'[c] = calls[c] + 1
        /\ \A d \in Callers \ {c} : calls'[d] = calls[d] /\ pc'[d] = pc[d]
        /\ promises' \in {promises, promises \cup {<<c, calls'[c]>>}}
        /\ calls[c] \in 0 .. MaxCalls /\ calls[c] < MaxCalls
        /\ UNCHANGED <<running, completed>>
    BY <1>1 DEF Invoke, Goto, PcType, CallTypes, Threads, systemVars
  <2>2. PICK m \in Calls : m = <<c, calls[c] + 1>>
    <3>1. calls[c] + 1 \in 1 .. MaxCalls
      BY <2>1, SizesAssumption
    <3>2. <<c, calls[c] + 1>> \in Calls
      BY <3>1 DEF Calls
    <3> QED
      BY <3>2
  <2>3. m[1] = c /\ m[2] = calls[c] + 1 /\ calls[c] \in Nat
    BY <2>1, <2>2, SizesAssumption
  <2>4. WorkOf(m) = "none"
    BY <2>3 DEF Readable, WorkRead
  <2>5. ASSUME NEW k \in 1 .. m[2] - 1 PROVE <<c, k>> \in Back
    <3>1. k \in 1 .. MaxCalls /\ k <= calls[c]
      BY <2>1, <2>3, SizesAssumption
    <3>2. Returned(<<c, k>>)
      BY <2>1, <2>3, <3>1 DEF Returned
    <3> QED
      BY <3>1, <3>2 DEF Back, Calls
  <2>6. ASSUME NEW n \in Calls, n # m PROVE WorkOf(n)' = WorkOf(n)
    <3>1. n[1] \in Callers /\ n[2] \in Nat /\ n = <<n[1], n[2]>>
      BY CallParts
    <3>2. n[2] <= calls'[n[1]] <=> n[2] <= calls[n[1]]
      BY <2>1, <2>2, <2>3, <2>6, <3>1
    <3>3. Waiting(n)' <=> Waiting(n)
      BY <2>1, <3>2 DEF Waiting
    <3> QED
      BY <2>1, <3>3 DEF WorkOf
  <2>7. WorkOf(m)' = "asked"
    <3>1. m # running /\ m \notin completed
      BY <2>3 DEF PlacesInv, Accepted
    <3>2. Waiting(m)'
      BY <2>1, <2>3, <3>1 DEF Waiting
    <3> QED
      BY <3>2 DEF Readable, WorkRead
  <2>8. Work' = [Work EXCEPT ![m] = "asked"]
    BY <2>6, <2>7 DEF Work
  <2>9. ASSUME NEW n \in Calls PROVE Returned(n)' <=> Returned(n)
    <3>1. n[1] \in Callers /\ n[2] \in Nat
      BY CallParts
    <3> QED
      BY <2>1, <2>3, <3>1 DEF Returned
  <2>10. Back' = Back
    BY <2>9 DEF Back
  <2>11. promises' \in {promises, promises \cup {m}}
    BY <2>1, <2>2
  <2>12. Work[m] = "none"
    BY <2>4 DEF Work
  <2>13. Promise!Ask(m)
    BY <1>0, <2>3, <2>5, <2>8, <2>10, <2>11, <2>12
       DEF Promise!Ask, Promise!Earlier, Work, Back, Notice
  <2> QED
    BY <2>13 DEF Promise!ServiceNext, Serves
<1>2. CASE Put(c) \/ Get(c)
  <2>1. /\ UNCHANGED <<calls, promises, running, completed>>
        /\ pc[c] \in {"put", "wait"} /\ pc'[c] \in {"wait", "run"}
        /\ \A d \in Callers \ {c} : pc'[d] = pc[d]
    BY <1>2 DEF Put, Get, Goto, PcType, Threads, callVars, systemVars
  <2>2. Work' = Work
    BY <2>1, SameWork DEF Work
  <2>3. CASE pc'[c] = "wait"
    <3>1. pc[c] \in {"put", "wait"} /\ pc'[c] \in {"put", "wait"}
      BY <2>1, <2>3
    <3>2. Back' = Back
      BY <2>1, <3>1, SameBack
    <3> QED
      BY <1>0, <2>1, <2>2, <3>2 DEF Serves
  <2>4. CASE pc'[c] = "run"
    <3>1. PICK m \in Calls : m = Call(c)
      <4>1. calls[c] \in 1 .. MaxCalls
        BY <2>1, SizesAssumption DEF CallTypes
      <4>2. Call(c) \in Calls
        BY <4>1 DEF Call, Calls
      <4> QED
        BY <4>2
    <3>2. m[1] = c /\ m[2] = calls[c] /\ calls[c] \in Nat
      BY <3>1, SizesAssumption DEF Call, CallTypes
    <3>3. m \notin Back
      BY <2>1, <3>2 DEF Back, Returned
    <3>4. Work[m] # "none" /\ (m \in promises => Work[m] = "done")
      <4>1. m \in completed \/ m = running \/ Waiting(m)
        BY <3>2 DEF Waiting
      <4>2. WorkOf(m) \in {"done", "begun", "asked"}
        BY <4>1 DEF Readable, WorkRead
      <4>3. m \in promises => m \in completed
        BY <1>2, <2>4, <3>1 DEF Put, Get, Goto, PcType, Threads
      <4>4. m \in promises => WorkOf(m) = "done"
        BY <4>3 DEF Readable, WorkRead
      <4> QED
        BY <4>2, <4>4 DEF Work
    <3>5. ASSUME NEW n \in Calls PROVE Returned(n)' <=> n = m \/ Returned(n)
      <4>1. n[1] \in Callers /\ n[2] \in Nat /\ n = <<n[1], n[2]>>
        BY CallParts
      <4>2. CASE n[1] = c
        BY <2>1, <2>4, <3>1, <3>2, <4>1, <4>2 DEF Returned, Call
      <4>3. CASE n[1] # c
        BY <2>1, <3>2, <4>1, <4>3 DEF Returned
      <4> QED
        BY <4>2, <4>3
    <3>6. Back' = Back \cup {m}
      BY <3>5 DEF Back
    <3>7. Promise!Return(m)
      BY <1>0, <2>1, <2>2, <3>3, <3>4, <3>6 DEF Promise!Return, Work, Back, Notice
    <3> QED
      BY <3>7 DEF Promise!ServiceNext, Serves
  <2> QED
    BY <2>1, <2>3, <2>4
<1> QED
  BY <1>1, <1>2

\* The system thread begins a call and ends it.
LEMMA SystemServes ==
  ASSUME StrongInv, Readable, Readable', SystemStep
  PROVE  Serves
<1> USE DEF StrongInv, Inv, TypeInv
<1>1. UNCHANGED <<pc, calls, promises, events, appQueue, handled, dropped>>
  BY DEF SystemStep, Process, Complete, Idle, Pump, EndBackground, callVars, eventVars
<1>2. Notice' = Notice /\ Back' = Back
  BY <1>1, SameNotice, SameBack
<1>3. ASSUME NEW n \in Calls,
             n \in completed' <=> n \in completed, n = running' <=> n = running
      PROVE  WorkOf(n)' = WorkOf(n)
  <2>1. Waiting(n)' <=> Waiting(n)
    BY <1>1, <1>3 DEF Waiting
  <2> QED
    BY <1>3, <2>1 DEF WorkOf
<1>4. CASE Process
  <2>1. /\ running = None /\ running' = Head(systemQueue) /\ systemQueue # <<>>
        /\ systemQueue' = Tail(systemQueue) /\ UNCHANGED completed
    BY <1>4 DEF Process
  <2>2. systemQueue \in Seq(Calls) /\ Ordered(systemQueue)
    BY DEF SystemTypes, OrderInv
  <2>3. /\ Head(systemQueue) \in Calls
        /\ \A y : (\E i \in 1 .. Len(systemQueue) : systemQueue[i] = y)
                     <=> \/ y = Head(systemQueue)
                         \/ \E i \in 1 .. Len(Tail(systemQueue)) : Tail(systemQueue)[i] = y
        /\ \A i \in 1 .. Len(Tail(systemQueue)) :
             Tail(systemQueue)[i][1] = Head(systemQueue)[1]
               => Head(systemQueue)[2] < Tail(systemQueue)[i][2]
    BY <2>1, <2>2, OrderedTail
  <2>4. PICK m \in Calls : m = Head(systemQueue)
    BY <2>3
  <2>5. InQueue(m)
    BY <2>3, <2>4 DEF InQueue
  <2>6. m[1] \in Callers /\ m[2] \in Nat /\ calls[m[1]] \in Nat /\ m = <<m[1], m[2]>>
    BY CallParts, SizesAssumption DEF CallTypes
  <2>7. Accepted(m) /\ m # running /\ m \notin completed
    BY <2>5 DEF PlacesInv
  <2>8. WorkOf(m) = "asked"
    <3>1. Waiting(m)
      BY <2>7 DEF Waiting, Accepted
    <3> QED
      BY <3>1 DEF Readable, WorkRead
  <2>9. ASSUME NEW n \in Calls PROVE WorkOf(n) # "begun"
    <3>1. n # running
      BY <2>1, NoneIsNoCall
    <3> QED
      BY <3>1 DEF WorkOf
  <2>10. ASSUME NEW k \in 1 .. m[2] - 1
         PROVE  <<m[1], k>> \in Calls /\ WorkOf(<<m[1], k>>) = "done"
    <3>1. k \in 1 .. MaxCalls /\ k < m[2]
      BY <2>6, SizesAssumption DEF Calls
    <3>2. PICK n \in Calls : n = <<m[1], k>>
      BY <2>6, <3>1 DEF Calls
    <3>3. Accepted(n)
      BY <2>6, <2>7, <3>1, <3>2 DEF Accepted
    <3>4. ~InQueue(n)
      <4>1. n # m /\ n[1] = m[1] /\ n[2] < m[2] /\ n[2] \in Nat
        BY <2>6, <3>1, <3>2
      <4>2. ASSUME NEW i \in 1 .. Len(Tail(systemQueue)), Tail(systemQueue)[i] = n
            PROVE  FALSE
        <5>1. m[2] < n[2]
          BY <2>3, <2>4, <4>1, <4>2
        <5> QED
          BY <2>6, <4>1, <5>1
      <4>3. InQueue(n) => \/ n = Head(systemQueue)
                          \/ \E i \in 1 .. Len(Tail(systemQueue)) : Tail(systemQueue)[i] = n
        BY <2>3 DEF InQueue
      <4> QED
        BY <2>4, <4>1, <4>2, <4>3
    <3>5. n \in completed
      BY <2>1, <3>3, <3>4, NoneIsNoCall DEF OrderInv
    <3> QED
      BY <3>2, <3>5 DEF Readable, WorkRead
  <2>11. WorkOf(m)' = "begun"
    BY <2>1, <2>4 DEF Readable, WorkRead
  <2>12. ASSUME NEW n \in Calls, n # m PROVE WorkOf(n)' = WorkOf(n)
    <3>1. n # running /\ n # running'
      BY <2>1, <2>4, <2>12, NoneIsNoCall
    <3> QED
      BY <1>3, <2>1, <3>1
  <2>13. Work' = [Work EXCEPT ![m] = "begun"]
    BY <2>11, <2>12 DEF Work
  <2>14. Promise!Begin(m)
    BY <1>1, <1>2, <2>8, <2>9, <2>10, <2>13
       DEF Promise!Begin, Promise!Earlier, Work, Back, Notice
  <2> QED
    BY <2>14 DEF Promise!ServiceNext, Serves
<1>5. CASE Complete
  <2>1. /\ running \in Calls /\ running' = None /\ completed' = completed \cup {running}
    BY <1>5 DEF Complete, SystemTypes
  <2>2. PICK m \in Calls : m = running
    BY <2>1
  <2>3. WorkOf(m) = "begun" /\ WorkOf(m)' = "done"
    BY <2>1, <2>2 DEF Readable, WorkRead
  <2>4. ASSUME NEW n \in Calls, n # m PROVE WorkOf(n)' = WorkOf(n)
    <3>1. n # running /\ n # running' /\ (n \in completed' <=> n \in completed)
      BY <2>1, <2>2, <2>4, NoneIsNoCall
    <3> QED
      BY <1>3, <3>1
  <2>5. Work' = [Work EXCEPT ![m] = "done"]
    BY <2>3, <2>4 DEF Work
  <2>6. Promise!End(m)
    BY <1>1, <1>2, <2>3, <2>5 DEF Promise!End, Work, Back, Notice
  <2> QED
    BY <2>6 DEF Promise!ServiceNext, Serves
<1>6. CASE Idle \/ Pump \/ EndBackground("busy") \/ EndBackground("pump")
  <2>1. UNCHANGED <<running, completed>>
    BY <1>6 DEF Idle, Pump, EndBackground
  <2>2. Work' = Work
    BY <1>1, <2>1, SameWork DEF Work
  <2> QED
    BY <1>1, <1>2, <2>2 DEF Serves
<1> QED
  BY <1>4, <1>5, <1>6 DEF SystemStep

\* As many events are kept as the application's queue is long.
LEMMA KeptCount ==
  ASSUME StrongInv
  PROVE  Promise!Cardinality(Promise!Kept) = Len(appQueue)
<1>1. appQueue \in Seq(Events) /\ Ordered(appQueue) /\ \A e \in Events : e[2] \in Nat
  BY EventParts DEF StrongInv, Inv, TypeInv, EventTypes, EventInv
<1>2. Promise!Kept = {e \in Events : \E i \in 1 .. Len(appQueue) : appQueue[i] = e}
  BY GivenRead DEF Promise!Kept, InAppQueue
<1>3. Promise!Cardinality(Promise!Kept) = Cardinality(Promise!Kept)
  BY DEF Promise!Cardinality, Cardinality
<1> QED
  BY <1>1, <1>2, <1>3, OrderedCounts

\* A thread's events before the one it notifies have been given.
LEMMA EarlierGiven ==
  ASSUME StrongInv, NEW e \in Events, e[2] <= events[e[1]] \/ pc[e[1]] # "notify",
         e[2] <= events[e[1]] + 1, NEW k \in 1 .. e[2] - 1
  PROVE  <<e[1], k>> \in Events /\ Given(<<e[1], k>>)
<1> USE DEF StrongInv, Inv, TypeInv
<1>1. e[1] \in Notifiers /\ e[2] \in 1 .. MaxEvents /\ events[e[1]] \in Nat
  BY SizesAssumption DEF Events, EventTypes
<1>2. k \in 1 .. MaxEvents /\ k < e[2] /\ k \in Nat
  BY <1>1, SizesAssumption
<1>3. <<e[1], k>> \in Events
  BY <1>1, <1>2 DEF Events
<1> QED
  BY <1>1, <1>2, <1>3 DEF Given

\* Events are offered, and kept, lost or handled, in the order of each thread.
LEMMA NotifierServes ==
  ASSUME StrongInv, Readable, Readable',
         HandleEvent \/ \E t \in Notifiers : Notify(t) \/ PutEvent(t) \/ PutTimeout(t)
  PROVE  Serves
<1> USE DEF StrongInv, Inv, TypeInv
<1>1. Work' = Work /\ Back' = Back /\ promises' = promises
  <2>1. UNCHANGED <<calls, promises, running, completed>>
    BY DEF HandleEvent, Notify, PutEvent, PutTimeout, callVars, systemVars
  <2>2. \A c \in Callers : pc'[c] \in {"put", "wait"} <=> pc[c] \in {"put", "wait"}
    BY DEF HandleEvent, Notify, PutEvent, PutTimeout, Goto, PcType, Threads
  <2> QED
    BY <2>1, <2>2, SameWork, SameBack DEF Work
<1>2. ASSUME NEW t \in Notifiers, Notify(t)
      PROVE  Serves
  <2>1. /\ pc[t] = "run" /\ pc'[t] = "notify" /\ events'[t] = events[t] + 1
        /\ events[t] \in 0 .. MaxEvents /\ events[t] < MaxEvents
        /\ \A u \in Notifiers \ {t} : pc'[u] = pc[u] /\ events'[u] = events[u]
        /\ UNCHANGED <<appQueue, handled, dropped>>
    BY <1>2 DEF Notify, Goto, PcType, EventTypes, Threads
  <2>2. PICK e \in Events : e = <<t, events[t] + 1>>
    <3>1. events[t] + 1 \in 1 .. MaxEvents
      BY <2>1, SizesAssumption
    <3>2. <<t, events[t] + 1>> \in Events
      BY <3>1 DEF Events
    <3> QED
      BY <3>2
  <2>3. e[1] = t /\ e[2] = events[t] + 1 /\ events[t] \in Nat
    BY <2>1, <2>2, SizesAssumption
  <2>4. NoticeOf(e) = "none"
    <3>1. ~Given(e) /\ ~UnderWay(e)
      BY <2>1, <2>3 DEF Given, UnderWay
    <3> QED
      BY <3>1 DEF Readable, NoticeRead
  <2>5. ASSUME NEW k \in 1 .. e[2] - 1
        PROVE  <<t, k>> \in Events /\ NoticeOf(<<t, k>>) \notin {"none", "offered"}
    <3>1. <<t, k>> \in Events /\ Given(<<t, k>>)
      BY <2>1, <2>3, EarlierGiven
    <3> QED
      BY <3>1, GivenRead
  <2>6. NoticeOf(e)' = "offered"
    <3>1. UnderWay(e)'
      BY <2>1, <2>3 DEF UnderWay
    <3> QED
      BY <3>1 DEF Readable, NoticeRead
  <2>7. ASSUME NEW f \in Events, f # e PROVE NoticeOf(f)' = NoticeOf(f)
    <3>1. f[1] \in Notifiers /\ f = <<f[1], f[2]>>
      BY EventParts
    <3>2. UnderWay(f)' <=> UnderWay(f)
      BY <2>1, <2>2, <2>7, <3>1 DEF UnderWay
    <3> QED
      BY <2>1, <3>2 DEF NoticeOf
  <2>8. Notice' = [Notice EXCEPT ![e] = "offered"]
    BY <2>6, <2>7 DEF Notice
  <2>9. Promise!Offer(e)
    BY <2>3, <2>4, <2>5, <2>8 DEF Promise!Offer, Promise!Earlier, Notice
  <2> QED
    BY <1>1, <2>9 DEF Promise!ServiceNext, Serves, Work, Back
<1>3. ASSUME NEW t \in Notifiers, PutEvent(t) \/ PutTimeout(t)
      PROVE  Serves
  <2>1. /\ pc[t] = "notify" /\ pc'[t] = "run" /\ UNCHANGED <<events, handled>>
        /\ \A u \in Notifiers \ {t} : pc'[u] = pc[u]
    BY <1>3 DEF PutEvent, PutTimeout, Goto, PcType, Threads
  <2>2. /\ Event(t) \in Events /\ Event(t)[1] = t /\ Event(t)[2] = events[t]
        /\ ~InAppQueue(Event(t)) /\ Event(t) \notin handled /\ Event(t) \notin dropped
    BY <2>1, NotYetGiven
  <2>3. PICK e \in Events : e = Event(t)
    BY <2>2
  <2>4. e[1] = t /\ e[2] = events[t] /\ UnderWay(e)
    BY <2>1, <2>2, <2>3 DEF UnderWay
  <2>5. NoticeOf(e) = "offered"
    BY <2>4 DEF Readable, NoticeRead
  <2>6. ASSUME NEW f \in Events, f # e PROVE UnderWay(f)' <=> UnderWay(f)
    <3>1. f[1] \in Notifiers /\ f = <<f[1], f[2]>>
      BY EventParts
    <3> QED
      BY <2>1, <2>3, <2>6, <3>1 DEF UnderWay, Event
  <2>7. appQueue \in Seq(Events) /\ Len(appQueue) \in Nat
    BY DEF EventTypes
  <2>8. CASE PutEvent(t)
    <3>1. /\ appQueue' = Append(appQueue, e) /\ dropped' = dropped
          /\ Len(appQueue) < AppQueueSize
      BY <2>3, <2>8 DEF PutEvent
    <3>2. \A y : InAppQueue(y)' <=> y = e \/ InAppQueue(y)
      BY <2>7, <3>1, AppendHolds DEF InAppQueue
    <3>3. NoticeOf(e)' = "kept"
      BY <3>2 DEF Readable, NoticeRead
    <3>4. ASSUME NEW f \in Events, f # e PROVE NoticeOf(f)' = NoticeOf(f)
      <4>1. f \in ToSet(appQueue)' <=> f \in ToSet(appQueue)
        BY <3>2, <3>4 DEF ToSet, InAppQueue
      <4> QED
        BY <2>1, <2>6, <3>1, <3>4, <4>1 DEF NoticeOf
    <3>5. Notice' = [Notice EXCEPT ![e] = "kept"]
      BY <3>3, <3>4 DEF Notice
    <3>6. Promise!Keep(e)
      <4>1. Promise!Cardinality(Promise!Kept) = Len(appQueue)
        BY KeptCount
      <4>2. Notice[e] = "offered"
        BY <2>5 DEF Notice
      <4> QED
        BY <3>1, <3>5, <4>1, <4>2 DEF Promise!Keep, Notice
    <3> QED
      BY <1>1, <3>6 DEF Promise!ServiceNext, Serves, Work, Back
  <2>9. CASE PutTimeout(t)
    <3>1. /\ appQueue' = appQueue /\ dropped' = dropped \cup {e}
          /\ Len(appQueue) = AppQueueSize
      BY <2>3, <2>9 DEF PutTimeout
    <3>2. NoticeOf(e)' = "lost"
      BY <3>1 DEF Readable, NoticeRead
    <3>3. ASSUME NEW f \in Events, f # e PROVE NoticeOf(f)' = NoticeOf(f)
      <4>1. f \in dropped' <=> f \in dropped
        BY <3>1, <3>3
      <4> QED
        BY <2>1, <2>6, <3>1, <3>3, <4>1 DEF NoticeOf
    <3>4. Notice' = [Notice EXCEPT ![e] = "lost"]
      BY <3>2, <3>3 DEF Notice
    <3>5. Promise!Lose(e)
      <4>1. Promise!Cardinality(Promise!Kept) = Len(appQueue)
        BY KeptCount
      <4>2. Notice[e] = "offered"
        BY <2>5 DEF Notice
      <4> QED
        BY <3>1, <3>4, <4>1, <4>2 DEF Promise!Lose, Notice
    <3> QED
      BY <1>1, <3>5 DEF Promise!ServiceNext, Serves, Work, Back
  <2> QED
    BY <1>3, <2>8, <2>9
<1>4. CASE HandleEvent
  <2>1. /\ appQueue # <<>> /\ handled' = handled \cup {Head(appQueue)}
        /\ appQueue' = Tail(appQueue) /\ UNCHANGED <<pc, events, dropped>>
    BY <1>4 DEF HandleEvent
  <2>2. appQueue \in Seq(Events) /\ Ordered(appQueue)
    BY DEF EventTypes, EventInv
  <2>3. /\ Head(appQueue) \in Events
        /\ \A y : (\E i \in 1 .. Len(appQueue) : appQueue[i] = y)
                     <=> \/ y = Head(appQueue)
                         \/ \E i \in 1 .. Len(Tail(appQueue)) : Tail(appQueue)[i] = y
        /\ \A i \in 1 .. Len(Tail(appQueue)) :
             Tail(appQueue)[i][1] = Head(appQueue)[1]
               => Head(appQueue)[2] < Tail(appQueue)[i][2]
    BY <2>1, <2>2, OrderedTail
  <2>4. PICK e \in Events : e = Head(appQueue)
    BY <2>3
  <2>5. e[1] \in Notifiers /\ e[2] \in Nat
    BY EventParts
  <2>6. \A y : InAppQueue(y) <=> y = e \/ InAppQueue(y)'
    BY <2>1, <2>3, <2>4 DEF InAppQueue
  <2>7. NoticeOf(e) = "kept" /\ NoticeOf(e)' = "handled"
    BY <2>1, <2>4, <2>6 DEF Readable, NoticeRead
  <2>8. ASSUME NEW k \in 1 .. e[2] - 1
        PROVE  NoticeOf(<<e[1], k>>) # "kept" /\ <<e[1], k>> \in Events
    <3>1. <<e[1], k>> \in Events /\ k < e[2] /\ k \in Nat
      BY <2>5, SizesAssumption DEF Events
    <3>2. ASSUME NEW i \in 1 .. Len(Tail(appQueue)), Tail(appQueue)[i] = <<e[1], k>>
          PROVE  FALSE
      <4>1. e[2] < k
        BY <2>3, <2>4, <3>2
      <4> QED
        BY <2>5, <3>1, <4>1
    <3>3. <<e[1], k>> # e
      BY <2>5, <3>1
    <3>4. ~InAppQueue(<<e[1], k>>)
      BY <2>3, <2>4, <3>2, <3>3 DEF InAppQueue
    <3> QED
      BY <3>1, <3>4, GivenRead
  <2>9. ASSUME NEW f \in Events, f # e PROVE NoticeOf(f)' = NoticeOf(f)
    <3>1. UnderWay(f)' <=> UnderWay(f)
      BY <2>1 DEF UnderWay
    <3>2. f \in ToSet(appQueue)' <=> f \in ToSet(appQueue)
      <4>1. InAppQueue(f)' <=> InAppQueue(f)
        BY <2>6, <2>9
      <4> QED
        BY <4>1 DEF ToSet, InAppQueue
    <3>3. f \in handled' <=> f \in handled
      BY <2>1, <2>4, <2>9
    <3> QED
      BY <2>1, <3>1, <3>2, <3>3 DEF NoticeOf
  <2>10. Notice' = [Notice EXCEPT ![e] = "handled"]
    BY <2>7, <2>9 DEF Notice
  <2>11. Promise!Handle(e)
    BY <2>7, <2>8, <2>10 DEF Promise!Handle, Promise!Earlier, Notice
  <2> QED
    BY <1>1, <2>11 DEF Promise!ServiceNext, Serves, Work, Back
<1> QED
  BY <1>2, <1>3, <1>4

(* Each call is run once, alone and in its caller's order, a promise's      *)
(* result is there before its caller goes on, and an event is handled once  *)
(* and in order unless the application's queue was full.                    *)
THEOREM ImplementsService == Spec => CallsServed
<1>1. Init => Promise!ServiceInit
  <2> SUFFICES ASSUME Init PROVE Promise!ServiceInit
    OBVIOUS
  <2> USE SizesAssumption DEF Init
  <2>1. ASSUME NEW m \in Calls PROVE WorkOf(m) = "none" /\ ~Returned(m)
    BY NoneIsNoCall, CallParts DEF WorkOf, Waiting, Returned
  <2>2. ASSUME NEW e \in Events PROVE NoticeOf(e) = "none"
    <3>1. ~UnderWay(e) /\ e \notin ToSet(appQueue)
      BY EventParts DEF UnderWay, ToSet, Threads
    <3> QED
      BY <3>1 DEF NoticeOf
  <2> QED
    BY <2>1, <2>2 DEF Promise!ServiceInit
<1>2. StrongInv /\ Readable /\ Readable' /\ [Next]_vars => [Promise!ServiceNext]_Promise!serviceVars
  <2> SUFFICES ASSUME StrongInv, Readable, Readable', [Next]_vars
               PROVE  [Promise!ServiceNext]_Promise!serviceVars
    OBVIOUS
  <2>1. CASE UNCHANGED vars
    <3>1. Work' = Work /\ promises' = promises
      BY <2>1, SameWork DEF vars, callVars, systemVars, Work
    <3>2. Back' = Back /\ Notice' = Notice
      BY <2>1, SameBack, SameNotice DEF vars, callVars, eventVars
    <3> QED
      BY <3>1, <3>2 DEF Serves, Promise!serviceVars, Work, Back, Notice
  <2>2. CASE Next
    <3>1. Serves
      BY <2>2, CallerServes, NotifierServes, SystemServes DEF Next, SystemStep
    <3> QED
      BY <3>1 DEF Serves, Promise!serviceVars, Work, Back, Notice
  <2> QED
    BY <2>1, <2>2
<1> QED
  BY <1>1, <1>2, StrongInvariance, Reading, PTL DEF Spec, CallsServed, Promise!ServiceSpec
=============================================================================
