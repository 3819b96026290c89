-------------------------- MODULE ControlEndpoint --------------------------
(***************************************************************************)
(* The control endpoint (src/src/control/axtp_control_endpoint.cpp): a     *)
(* WebSocket server whose worker thread calls the registered handlers,     *)
(* runs posted tasks and sends published events, and that other threads    *)
(* start, stop, post to and take handlers away from while it runs.         *)
(*                                                                         *)
(* A step is an access to the state under one of the code's mutexes, or    *)
(* what a thread does between two of them.  A handler is an endpoint       *)
(* handler, which may return a ControlOperation that ends later; one that  *)
(* returns none stands for the synchronous handlers.  What the broker and  *)
(* the transport do with a request before and after the handler is outside.*)
(***************************************************************************)
EXTENDS Naturals, Sequences, Queues

CONSTANTS
    Callers,      \* threads of the application
    Slots,        \* handlers, one for each route
    MaxStarts,    \* bound: calls of start
    MaxCalls,     \* bound: requests that reach a handler
    MaxQueued,    \* bound: tasks, and events, that are queued
    None

ASSUME ConstantsAssumption ==
    /\ MaxStarts \in Nat /\ MaxCalls \in Nat /\ MaxQueued \in Nat
    /\ None \notin Callers \cup Slots

\* What handlers return: at most one for each call, named by the call's number
Operations == 1..MaxCalls
Queues == {"tasks", "events"}

VARIABLES
    life,         \* lifecycle_state; Starting is not seen by others
    locked,       \* the thread that holds lifecycle_mutex across steps
    running,      \* running
    sealed,       \* RegistrationRegistry::sealed
    handlers,     \* RegistrationRegistry::handlers
    methods,      \* the slots the broker of this run calls
    active,       \* slots that are active
    pending,      \* pending_operations of each slot
    ready,        \* operations that have ended
    given,        \* operations that handlers have returned
    queue,        \* pending_tasks and pending_events: of each item, the value of
                  \* stops when it was accepted (history)
    worker,       \* what the worker is doing
    calls,        \* calls of handlers so far
    calling,      \* the slot whose handler it runs: in_flight and callback_thread
    batch,        \* the tasks or events it took, or the operations it has to cancel
    pc, arg,      \* what each caller is doing, and to which slot
    held,         \* the operations a caller collected and has to cancel
    released,     \* slots whose token was reset by another thread (history)
    starts, stops \* calls of start, and of stop that have ended a run (history)

lifecycle == <<life, locked, running, starts, stops>>
registry == <<sealed, handlers, methods>>
slots == <<active, pending, ready, given, released>>
work == <<worker, calling, batch, calls>>
callers == <<pc, arg, held>>
vars == <<lifecycle, registry, slots, work, queue, callers>>

Init ==
    /\ life = "Stopped" /\ locked = None /\ running = FALSE /\ starts = 0 /\ stops = 0
    /\ sealed = FALSE /\ handlers = {} /\ methods = {}
    /\ active = Slots /\ pending = [s \in Slots |-> {}] /\ ready = {} /\ given = {}
    /\ released = {}
    /\ worker = "none" /\ calling = None /\ batch = <<>> /\ calls = 0
    /\ queue = [q \in Queues |-> <<>>]
    /\ pc = [c \in Callers |-> "idle"] /\ arg = [c \in Callers |-> None]
    /\ held = [c \in Callers |-> {}]

Goto(c, to) == pc' = [pc EXCEPT ![c] = to]

\* register_handler and register_endpoint_handler; a slot is created active, for a
\* route no other slot has, and registered once.
Register(s) ==
    /\ ~sealed /\ s \in active \ handlers
    /\ handlers' = handlers \cup {s}
    /\ UNCHANGED <<lifecycle, sealed, methods, slots, work, queue, callers>>

-----------------------------------------------------------------------------
(* start: lifecycle_mutex is held from the first test to the return *)

StartSeals(c) ==
    /\ pc[c] = "idle" /\ locked = None /\ life = "Stopped" /\ starts < MaxStarts
    /\ locked' = c /\ starts' = starts + 1
    /\ sealed' = TRUE /\ methods' = handlers
    /\ Goto(c, "starting")
    /\ UNCHANGED <<life, running, stops, handlers, slots, work, queue, arg, held>>

\* The transport has no port.
StartIsUnavailable(c) ==
    /\ pc[c] = "starting"
    /\ locked' = None
    /\ Goto(c, "idle")
    /\ UNCHANGED <<life, running, starts, stops, registry, slots, work, queue, arg, held>>

StartRuns(c) ==
    /\ pc[c] = "starting"
    /\ running' = TRUE
    /\ Goto(c, "spawning")
    /\ UNCHANGED <<life, locked, starts, stops, registry, slots, work, queue, arg, held>>

StartSpawns(c) ==
    /\ pc[c] = "spawning"
    /\ worker' = "loop" /\ life' = "Running" /\ locked' = None
    /\ Goto(c, "idle")
    /\ UNCHANGED <<running, starts, stops, registry, slots, calling, batch, calls, queue, arg, held>>

\* The thread cannot be created.  What was posted in the meantime stays queued.
StartThrows(c) ==
    /\ pc[c] = "spawning"
    /\ running' = FALSE /\ locked' = None
    /\ Goto(c, "idle")
    /\ UNCHANGED <<life, starts, stops, registry, slots, work, queue, arg, held>>

-----------------------------------------------------------------------------
(* The worker: run *)

\* adapter->poll and endpoint->progress call the handlers.  EndpointHandlerSlot::
\* invoke, the first critical section: a slot that is not active is not called.
Invoke(s) ==
    /\ worker = "poll" /\ s \in methods \cap active /\ calls < MaxCalls
    /\ worker' = "handler" /\ calling' = s /\ calls' = calls + 1
    /\ UNCHANGED <<lifecycle, registry, slots, batch, queue, callers>>

\* Mutant: the operation is kept without a look at active.
MutantKeep(o) == /\ pending' = [pending EXCEPT ![calling] = (@ \ ready) \cup {o}]
                 /\ batch' = <<>>

\* The second critical section: finished operations are forgotten, and the new one
\* is kept, or cancelled next when the slot has been released meanwhile.
Keep(o) ==
    IF calling \in active
    THEN pending' = [pending EXCEPT ![calling] = (@ \ ready) \cup {o}] /\ batch' = <<>>
    ELSE pending' = [pending EXCEPT ![calling] = @ \ ready] /\ batch' = <<o>>

HandlerReturns ==
    /\ worker = "handler"
    /\ given' = given \cup {calls}
    /\ Keep(calls)
    /\ calling' = None /\ worker' = IF batch' = <<>> THEN "poll" ELSE "cancel"
    /\ UNCHANGED <<lifecycle, registry, active, ready, released, calls, queue, callers>>

\* A handler that throws or returns no operation
HandlerEnds ==
    /\ worker = "handler"
    /\ pending' = [pending EXCEPT ![calling] = @ \ ready]
    /\ calling' = None /\ worker' = "poll"
    /\ UNCHANGED <<lifecycle, registry, active, ready, given, released, batch, calls, queue,
                   callers>>

\* Mutant: deactivate waits for the handler even on the thread that runs it.
MutantHandlerReleases(s) ==
    /\ worker = "handler" /\ s \in active \cap handlers
    /\ active' = active \ {s}
    /\ worker' = IF s = calling THEN "waiting for itself" ELSE worker
    /\ UNCHANGED <<lifecycle, registry, pending, ready, given, released, calling, batch, calls,
                   queue, callers>>

\* A handler resets a token, maybe its own: deactivate does not wait on the thread
\* that runs the handler, and cancels what earlier calls returned.
HandlerReleases(s) ==
    /\ worker = "handler" /\ s \in active \cap handlers
    /\ active' = active \ {s}
    /\ pending' = [pending EXCEPT ![s] = {}]
    /\ ready' = ready \cup pending[s]
    /\ released' = IF s = calling THEN released ELSE released \cup {s}
    /\ UNCHANGED <<lifecycle, registry, given, work, queue, callers>>

CancelReturned ==
    /\ worker = "cancel"
    /\ ready' = ready \cup ToSet(batch)
    /\ batch' = <<>> /\ worker' = "poll"
    /\ UNCHANGED <<lifecycle, registry, active, pending, given, released, calling, calls,
                   queue, callers>>

\* run_pending_tasks and send_pending_events take the whole queue
Take(q) ==
    /\ worker = IF q = "tasks" THEN "poll" ELSE "tasks done"
    /\ IF running
       THEN /\ batch' = queue[q] /\ queue' = [queue EXCEPT ![q] = <<>>]
            /\ worker' = q
       ELSE /\ worker' = "gone"
            /\ UNCHANGED <<batch, queue>>
    /\ UNCHANGED <<lifecycle, registry, slots, calling, calls, callers>>

\* and handle one item after the other while the endpoint runs.
Handle(q) ==
    /\ worker = q
    /\ IF running /\ batch # <<>>
       THEN batch' = Tail(batch) /\ UNCHANGED worker
       ELSE batch' = <<>> /\ worker' = IF q = "tasks" THEN "tasks done" ELSE "loop"
    /\ UNCHANGED <<lifecycle, registry, slots, calling, calls, queue, callers>>

\* poll, progress or sending an event throws: run catches it, and goes on after
\* the sleep without the rest of the batch.
Throws ==
    /\ \/ worker = "poll"
       \/ worker = "events" /\ running /\ batch # <<>>
    /\ worker' = "loop" /\ batch' = <<>>
    /\ UNCHANGED <<lifecycle, registry, slots, calling, calls, queue, callers>>

Loop ==
    /\ worker = "loop"
    /\ worker' = IF running THEN "poll" ELSE "gone"
    /\ UNCHANGED <<lifecycle, registry, slots, calling, batch, calls, queue, callers>>

WorkerStep ==
    \/ HandlerReturns \/ HandlerEnds \/ CancelReturned \/ Throws \/ Loop
    \/ \E s \in Slots : Invoke(s) \/ HandlerReleases(s)
    \/ \E q \in Queues : Take(q) \/ Handle(q)

\* The owner of an operation ends it, or lets go of it: the slot holds a weak pointer
\* and forgets the one as it forgets the other.
Complete(o) ==
    /\ o \in given \ ready
    /\ ready' = ready \cup {o}
    /\ UNCHANGED <<lifecycle, registry, active, pending, given, released, work, queue, callers>>

-----------------------------------------------------------------------------
(* stop *)

\* The worker would get invalid_state: only callers stop.
Stop(c) ==
    /\ pc[c] = "idle" /\ locked = None /\ life # "Stopped"
    /\ IF life = "Stopping"
       THEN Goto(c, "waiting") /\ UNCHANGED <<life, running>>
       ELSE /\ life' = "Stopping" /\ running' = FALSE
            /\ Goto(c, "joining")
    /\ UNCHANGED <<locked, starts, stops, registry, slots, work, queue, arg, held>>

\* The one that waits gets invalid_state if the endpoint was started again.
StopWaited(c) ==
    /\ pc[c] = "waiting" /\ locked = None /\ life # "Stopping"
    /\ Goto(c, "idle")
    /\ UNCHANGED <<lifecycle, registry, slots, work, queue, arg, held>>

StopJoined(c) ==
    /\ pc[c] = "joining" /\ worker = "gone"
    /\ worker' = "none"
    /\ Goto(c, "collecting")
    /\ UNCHANGED <<lifecycle, registry, slots, calling, batch, calls, queue, arg, held>>

\* cancel_pending_endpoint_operations asks every slot that is registered;
\* cancel_pending takes the operations of one slot that have not ended ...
StopCollects(c) ==
    /\ pc[c] = "collecting" /\ held[c] = {}
    /\ \E s \in handlers :
          /\ pending[s] # {}
          /\ held' = [held EXCEPT ![c] = pending[s] \ ready]
          /\ pending' = [pending EXCEPT ![s] = {}]
    /\ UNCHANGED <<lifecycle, registry, active, ready, given, released, work, queue, pc, arg>>

\* ... and cancels them with the slot's mutex released.
CancelHeld(c) ==
    /\ pc[c] \in {"collecting", "canceling"}
    /\ \E o \in held[c] :
          /\ ready' = ready \cup {o}
          /\ held' = [held EXCEPT ![c] = @ \ {o}]
    /\ UNCHANGED <<lifecycle, registry, active, pending, given, released, work, queue, pc, arg>>

\* Mutant: the tasks stay queued.
MutantCleared == [queue EXCEPT !["events"] = <<>>]

Cleared == [q \in Queues |-> <<>>]

\* cleanup_runtime, and what was accepted and not handled is dropped.
StopEnds(c) ==
    /\ pc[c] = "collecting" /\ held[c] = {} /\ locked = None
    /\ \A s \in handlers : pending[s] = {}
    /\ life' = "Stopped" /\ stops' = stops + 1
    /\ queue' = Cleared
    /\ Goto(c, "idle")
    /\ UNCHANGED <<locked, running, starts, registry, slots, work, arg, held>>

-----------------------------------------------------------------------------
(* RegistrationToken::reset by a thread other than the worker *)

\* unregister_endpoint_slot and the first half of deactivate.  Once the endpoint was
\* started the handler stays in the list and is only deactivated; before that it is
\* erased, no broker calls it, and the two critical sections may count as one.
Reset(c, s) ==
    /\ pc[c] = "idle" /\ s \in active \cap handlers
    /\ handlers' = IF sealed THEN handlers ELSE handlers \ {s}
    /\ active' = active \ {s}
    /\ arg' = [arg EXCEPT ![c] = s]
    /\ Goto(c, "idling")
    /\ UNCHANGED <<lifecycle, sealed, methods, pending, ready, given, released, work, queue,
                   held>>

\* Mutant: deactivate does not wait for the handler that is running.
MutantIsIdle(s) == s \in Slots

\* in_flight = 0
IsIdle(s) == calling # s

CollectReleased(c) ==
    /\ pc[c] = "idling" /\ IsIdle(arg[c])
    /\ held' = [held EXCEPT ![c] = pending[arg[c]] \ ready]
    /\ pending' = [pending EXCEPT ![arg[c]] = {}]
    /\ Goto(c, "canceling")
    /\ UNCHANGED <<lifecycle, registry, active, ready, given, released, work, queue, arg>>

ResetReturns(c) ==
    /\ pc[c] = "canceling" /\ held[c] = {}
    /\ released' = released \cup {arg[c]}
    /\ arg' = [arg EXCEPT ![c] = None]
    /\ Goto(c, "idle")
    /\ UNCHANGED <<lifecycle, registry, active, pending, ready, given, work, queue, held>>

-----------------------------------------------------------------------------
(* post and publish_event *)

\* running is tested before the mutex is taken and again under it; only the second
\* test decides, since task_mutex or event_mutex is held until the item is queued and
\* stop needs it to clear the queue.  An item that is refused changes nothing.
Post(c, q) ==
    /\ pc[c] = "idle" /\ Len(queue[q]) < MaxQueued
    /\ running
    /\ queue' = [queue EXCEPT ![q] = Append(@, stops)]
    /\ UNCHANGED <<lifecycle, registry, slots, work, callers>>

-----------------------------------------------------------------------------
CallerStep(c) ==
    \/ StartIsUnavailable(c) \/ StartRuns(c) \/ StartSpawns(c) \/ StartThrows(c)
    \/ StopWaited(c) \/ StopJoined(c) \/ StopCollects(c) \/ CancelHeld(c) \/ StopEnds(c)
    \/ CollectReleased(c) \/ ResetReturns(c)

Next ==
    \/ WorkerStep
    \/ \E o \in Operations : Complete(o)
    \/ \E s \in Slots : Register(s)
    \/ \E c \in Callers :
          \/ StartSeals(c) \/ Stop(c)
          \/ \E s \in Slots : Reset(c, s)
          \/ \E q \in Queues : Post(c, q)
          \/ CallerStep(c)

\* Handlers return, and a call that has begun goes on.
Fairness ==
    /\ WF_vars(WorkerStep)
    /\ \A c \in Callers : WF_vars(CallerStep(c))

Spec == Init /\ [][Next]_vars /\ Fairness

-----------------------------------------------------------------------------
\* Resetting a token is a fence: once reset has returned on a thread that was not
\* running the handler, the handler is not running and is never called again, in
\* this run or in one after a restart (EndpointHandlerSlot::deactivate against
\* invoke; the list of a sealed registry still holds the slot).
ReleasedHandlerIsQuiet == calling \notin released

\* Whatever a handler returned ends: an operation that has not ended is one a
\* thread is about to cancel, or the list of a slot holds it that is in use, or
\* about to be emptied by a reset, in an endpoint that is not stopped.  So stop and
\* reset leave none behind, however they meet each other and the handler's return.
OperationsAreCanceled ==
    \A o \in given \ ready :
        \/ \E c \in Callers : o \in held[c]
        \/ worker = "cancel" /\ batch = <<o>>
        \/ /\ life # "Stopped"
           /\ \E s \in Slots : /\ o \in pending[s]
                             /\ (s \in active \/ \E c \in Callers : arg[c] = s)

\* stop drops what was accepted and not handled: a task that runs, or an event that
\* is sent, was accepted after the last stop (the two tests of running in post and
\* publish_event against the clearing of the queues in stop).
NothingSurvivesAStop ==
    running /\ worker \in Queues => \A k \in ToSet(batch) : k = stops

\* Every start, stop and reset returns, also a stop that waits
\* for another one, and a handler that resets its own token does not wait for itself.
CallsReturn == \A c \in Callers : pc[c] # "idle" ~> pc[c] = "idle"
=============================================================================
