---------------------------- MODULE ActiveObject ----------------------------
(***************************************************************************)
(* The two active objects of the firmware: the system thread and the       *)
(* application thread ("main"), each with a queue of messages.             *)
(*                                                                         *)
(* The application's threads have their system calls run by the system     *)
(* thread: a SystemPromise is put in its queue and waited for, an          *)
(* AsyncTask is put and left alone.  The system thread, and any other      *)
(* thread, has the events it notifies run by the application thread.  Both *)
(* queues are bounded, both sides may find them full at once, and only the *)
(* put into the application's gives up after a time (main.cpp:580).        *)
(*                                                                         *)
(* Both threads have been started and know their own identity.  A call by  *)
(* the thread that would serve it is made directly and is no step here.    *)
(***************************************************************************)
EXTENDS FiniteSets, Naturals, SequencesExt

CONSTANTS
  Others,             \* threads of the application besides "main"
  SystemQueueSize,    \* queue_size of SystemThread
  AppQueueSize,       \* queue_size of ApplicationThread
  MaxCalls,           \* bound: calls of one thread
  MaxEvents           \* bound: events of one thread

ASSUME SizesAssumption ==
  /\ SystemQueueSize \in Nat \ {0} /\ AppQueueSize \in Nat \ {0}
  /\ MaxCalls \in Nat /\ MaxEvents \in Nat
  /\ {"main", "system"} \cap Others = {}

Callers   == {"main"} \cup Others
Notifiers == {"system"} \cup Others
Threads   == Callers \cup Notifiers

Calls  == Callers \X (1 .. MaxCalls)
Events == Notifiers \X (1 .. MaxEvents)
None   == <<"none", 0>>

VARIABLES
  pc,            \* of each thread: "run", "put", "wait" (in get()) or "notify"
  calls,         \* calls made by each thread; the last may be under way
  promises,      \* the calls that are SystemPromises, the rest are AsyncTasks
  systemQueue,
  running,       \* the message the system thread executes, or None
  background,    \* its background task: "none", "busy", or "pump" in a loop
                 \* that calls SystemThread.process() itself
  completed,     \* calls whose task_complete() has run
  events,        \* events notified by each thread; the last may be under way
  appQueue,
  handled,       \* events the application thread has taken
  dropped        \* events deleted because the put failed

callVars   == <<calls, promises>>
systemVars == <<running, background, completed>>
eventVars  == <<events, appQueue, handled, dropped>>
vars       == <<pc, callVars, systemQueue, systemVars, eventVars>>

Call(c)  == <<c, calls[c]>>
Event(t) == <<t, events[t]>>

Goto(t, l) == pc' = [pc EXCEPT ![t] = l]

-----------------------------------------------------------------------------
(* A thread of the application.                                            *)

\* SYSTEM_THREAD_CONTEXT_SYNC or _ASYNC: a new promise or task.
Invoke(c) ==
  /\ pc[c] = "run" /\ calls[c] < MaxCalls
  /\ calls' = [calls EXCEPT ![c] = @ + 1]
  /\ promises' \in {promises, promises \cup {<<c, calls'[c]>>}}
  /\ Goto(c, "put")
  /\ UNCHANGED <<systemQueue, systemVars, eventVars>>

\* put() waits for a place for ever; a task is then left alone.
Put(c) ==
  /\ pc[c] = "put" /\ Len(systemQueue) < SystemQueueSize
  /\ systemQueue' = Append(systemQueue, Call(c))
  /\ Goto(c, IF Call(c) \in promises THEN "wait" ELSE "run")
  /\ UNCHANGED <<callVars, systemVars, eventVars>>

\* Mutant: the semaphore is taken with a timeout.
GetInTime(c) ==
  /\ pc[c] = "wait"
  /\ Goto(c, "run")
  /\ UNCHANGED <<callVars, systemQueue, systemVars, eventVars>>

\* get() has the semaphore; the caller deletes the promise.
Get(c) ==
  /\ pc[c] = "wait" /\ Call(c) \in completed
  /\ Goto(c, "run")
  /\ UNCHANGED <<callVars, systemQueue, systemVars, eventVars>>

-----------------------------------------------------------------------------
(* Events for the application thread.                                      *)

\* The system thread notifies from a message or from its background task.
Notify(t) ==
  /\ pc[t] = "run" /\ events[t] < MaxEvents
  /\ t = "system" => running # None \/ background # "none"
  /\ events' = [events EXCEPT ![t] = @ + 1]
  /\ Goto(t, "notify")
  /\ UNCHANGED <<callVars, systemQueue, systemVars, appQueue, handled, dropped>>

PutEvent(t) ==
  /\ pc[t] = "notify" /\ Len(appQueue) < AppQueueSize
  /\ appQueue' = Append(appQueue, Event(t))
  /\ Goto(t, "run")
  /\ UNCHANGED <<callVars, systemQueue, systemVars, events, handled, dropped>>

\* put_wait is over and the queue still full: the task is deleted.
PutTimeout(t) ==
  /\ pc[t] = "notify" /\ Len(appQueue) = AppQueueSize
  /\ dropped' = dropped \cup {Event(t)}
  /\ Goto(t, "run")
  /\ UNCHANGED <<callVars, systemQueue, systemVars, events, appQueue, handled>>

\* ApplicationThread.process(), from run() or from spark_process().  What the
\* handler then calls are further steps of "main".
HandleEvent ==
  /\ pc["main"] = "run" /\ appQueue # <<>>
  /\ handled' = handled \cup {Head(appQueue)}
  /\ appQueue' = Tail(appQueue)
  /\ UNCHANGED <<pc, callVars, systemQueue, systemVars, events, dropped>>

-----------------------------------------------------------------------------
(* The system thread.                                                      *)

SystemRuns == pc["system"] = "run"

\* Mutant: the loops of the background task do not serve the queue.
ProcessInRun ==
  /\ SystemRuns /\ running = None /\ background = "none"
  /\ systemQueue # <<>>
  /\ running' = Head(systemQueue) /\ systemQueue' = Tail(systemQueue)
  /\ UNCHANGED <<pc, callVars, background, completed, eventVars>>

\* Mutant: the message stays in the queue while it is worked on.
ProcessPeek ==
  /\ SystemRuns /\ running = None /\ background \in {"none", "pump"}
  /\ systemQueue # <<>>
  /\ running' = Head(systemQueue)
  /\ UNCHANGED <<pc, callVars, systemQueue, background, completed, eventVars>>

\* process() in run(), or in a loop of the background task: listening for
\* credentials, or waiting for the application before a reset.
Process ==
  /\ SystemRuns /\ running = None /\ background \in {"none", "pump"}
  /\ systemQueue # <<>>
  /\ running' = Head(systemQueue) /\ systemQueue' = Tail(systemQueue)
  /\ UNCHANGED <<pc, callVars, background, completed, eventVars>>

\* The work returns and task_complete() gives the semaphore or deletes the
\* task; run() then begins the background task if it is due.
Complete ==
  /\ SystemRuns /\ running # None
  /\ completed' = completed \cup {running} /\ running' = None
  /\ background' \in IF background = "none" THEN {"none", "busy"} ELSE {background}
  /\ UNCHANGED <<pc, callVars, systemQueue, eventVars>>

\* process() finds nothing in take_wait: run() calls the background task.
Idle ==
  /\ SystemRuns /\ running = None /\ background = "none" /\ systemQueue = <<>>
  /\ background' = "busy"
  /\ UNCHANGED <<pc, callVars, systemQueue, running, completed, eventVars>>

\* start_listening(), or system_shutdown_if_needed().
Pump ==
  /\ SystemRuns /\ running = None /\ background = "busy"
  /\ background' = "pump"
  /\ UNCHANGED <<pc, callVars, systemQueue, running, completed, eventVars>>

EndBackground(b) ==
  /\ SystemRuns /\ running = None /\ background = b
  /\ background' = "none"
  /\ UNCHANGED <<pc, callVars, systemQueue, running, completed, eventVars>>

-----------------------------------------------------------------------------
Init ==
  /\ pc = [t \in Threads |-> "run"]
  /\ calls = [c \in Callers |-> 0] /\ promises = {}
  /\ systemQueue = <<>> /\ running = None /\ background = "none" /\ completed = {}
  /\ events = [t \in Notifiers |-> 0]
  /\ appQueue = <<>> /\ handled = {} /\ dropped = {}

Next ==
  \/ \E c \in Callers : Invoke(c) \/ Put(c) \/ Get(c)
  \/ \E t \in Notifiers : Notify(t) \/ PutEvent(t) \/ PutTimeout(t)
  \/ HandleEvent
  \/ Process \/ Complete \/ Idle \/ Pump
  \/ EndBackground("busy") \/ EndBackground("pump")

\* Every thread is scheduled, a wait that times out does so, and what the
\* system thread works on ends, except a loop that waits for the user: a pump
\* may go on for ever.  So may the application without taking an event.
Fairness ==
  /\ \A c \in Callers : WF_vars(Put(c)) /\ WF_vars(Get(c))
  /\ \A t \in Notifiers : WF_vars(PutEvent(t) \/ PutTimeout(t))
  /\ WF_vars(Process) /\ WF_vars(Complete) /\ WF_vars(EndBackground("busy"))

Spec == Init /\ [][Next]_vars /\ Fairness

-----------------------------------------------------------------------------
(* Properties                                                              *)

\* The values of the variables; each queue within its size, and a message in
\* one place only.
TypeOK ==
  /\ pc \in [Threads -> {"run", "put", "wait", "notify"}]
  /\ calls \in [Callers -> 0 .. MaxCalls] /\ events \in [Notifiers -> 0 .. MaxEvents]
  /\ promises \subseteq Calls /\ completed \subseteq Calls
  /\ systemQueue \in Seq(Calls) /\ Len(systemQueue) <= SystemQueueSize
  /\ appQueue \in Seq(Events) /\ Len(appQueue) <= AppQueueSize
  /\ running \in Calls \cup {None}
  /\ background \in {"none", "busy", "pump"}
  /\ handled \subseteq Events /\ dropped \subseteq Events
  /\ ({running} \cup ToSet(systemQueue)) \cap completed = {}

Waiting(m)  == m[2] <= calls[m[1]] /\ m # running /\ m \notin completed
Returned(m) == \/ m[2] < calls[m[1]]
               \/ m[2] = calls[m[1]] /\ pc[m[1]] \notin {"put", "wait"}
UnderWay(e) == e[2] = events[e[1]] /\ pc[e[1]] = "notify"

WorkOf(m) == CASE m \in completed -> "done"
               [] m = running     -> "begun"
               [] Waiting(m)      -> "asked"
               [] OTHER           -> "none"

NoticeOf(e) == CASE e \in handled         -> "handled"
                 [] e \in dropped         -> "lost"
                 [] e \in ToSet(appQueue) -> "kept"
                 [] UnderWay(e)           -> "offered"
                 [] OTHER                 -> "none"

\* The promise of module Service, read off the queues.
Promise == INSTANCE Service WITH
  Notices <- Events, Room <- AppQueueSize,
  work    <- [m \in Calls |-> WorkOf(m)],
  waited  <- promises,
  back    <- {m \in Calls : Returned(m)},
  notice  <- [e \in Events |-> NoticeOf(e)]

\* The threads implement the abstract service: each call is run once, alone
\* and in its caller's order, a promise's result is there before its caller
\* goes on, and an event is handled once and in order unless the
\* application's queue was full.
CallsServed == Promise!ServiceSpec

\* "timeout after attempting to put calls into the application queue, so the
\* system thread does not deadlock (since the application may also be trying
\* to put events in the system queue)" (main.cpp:581): whoever waits for a
\* place in a queue, or for a promise, goes on, even when the application never
\* takes an event and the system thread listens for credentials for ever.
CallsReturn == \A t \in Threads : pc[t] # "run" ~> pc[t] = "run"
=============================================================================
