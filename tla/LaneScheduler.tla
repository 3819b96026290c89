--------------------------- MODULE LaneScheduler ----------------------------
(***************************************************************************)
(* The request queue of WebSocketServer::Impl                              *)
(* (src/src/control/websocket_server.cpp): connection threads route and    *)
(* enqueue requests, workers take the first request whose lane is free,    *)
(* call the control plane outside the queue mutex, answer and free the     *)
(* lane.  queue_cv is modelled: a worker that finds nothing to do sleeps   *)
(* until it is notified.                                                   *)
(***************************************************************************)
EXTENDS Naturals, Sequences, Queues, FiniteSetsExt

CONSTANTS Requests,    \* each arrives once
          Lanes,       \* route keys
          Workers,     \* kWorkerCount threads
          MaxPending,  \* kMaxPendingRequests
          Blocked,     \* lanes whose device may never answer
          None

ASSUME ConstantsAssumption ==
    /\ None \notin Lanes \cup Requests
    /\ Blocked \subseteq Lanes
    /\ MaxPending \in Nat

VARIABLES
    pending,   \* pending_requests
    active,    \* active_routes
    server,    \* running, or stop_worker() joins the workers, or stopped
    request,   \* how far each request has come
    notifying, \* requests whose connection thread has still to notify
    lane,      \* ControlTask::route_key
    worker,    \* what each worker is about to do
    task,      \* the request each worker has taken
    accepted   \* every request ever accepted, in order (history)

vars == <<pending, active, server, request, notifying, lane, worker, task,
          accepted>>

\* Before start(): stop() has run, there are no workers.
Init ==
    /\ pending = <<>>
    /\ active = {}
    /\ server = "stopped"
    /\ request = [r \in Requests |-> "new"]
    /\ notifying = {}
    /\ lane = [r \in Requests |-> None]
    /\ worker = [w \in Workers |-> "exited"]
    /\ task = [w \in Workers |-> None]
    /\ accepted = <<>>

\* stopping_worker
stopping == server # "running"

AllExited == \A w \in Workers : worker[w] = "exited"

\* queue_cv.notify_all()
Woken(states) == [w \in Workers |-> IF states[w] = "asleep" THEN "awake" ELSE states[w]]

-----------------------------------------------------------------------------
\* The connection's callback: enqueue()

\* route_key is computed before the queue mutex is taken.
Route(r, l) ==
    /\ request[r] = "new"
    /\ lane' = [lane EXCEPT ![r] = l]
    /\ request' = [request EXCEPT ![r] = "routed"]
    /\ UNCHANGED <<pending, active, server, notifying, worker, task, accepted>>

Full == stopping \/ Len(pending) \geq MaxPending

\* A request that finds the queue full is answered so at once.
Enqueue(r) ==
    /\ request[r] = "routed"
    /\ IF Full
       THEN /\ request' = [request EXCEPT ![r] = "full"]
            /\ UNCHANGED <<pending, accepted, notifying>>
       ELSE /\ request' = [request EXCEPT ![r] = "queued"]
            /\ pending' = Append(pending, r)
            /\ accepted' = Append(accepted, r)
            /\ notifying' = notifying \cup {r}
    /\ UNCHANGED <<active, server, lane, worker, task>>

\* The notification follows outside the mutex: the request may be taken before.
NotifyEnqueued(r) ==
    /\ r \in notifying
    /\ notifying' = notifying \ {r}
    /\ worker' = Woken(worker)
    /\ UNCHANGED <<pending, active, server, request, lane, task, accepted>>

-----------------------------------------------------------------------------
\* run_worker()

\* Mutant: a worker looks at the oldest request only.
MutantRunnable == {i \in DOMAIN pending : i = 1 /\ lane[pending[i]] \notin active}

\* The requests whose lane is free, as indexes of the queue.
Runnable == {i \in DOMAIN pending : lane[pending[i]] \notin active}

\* Mutant: the newest runnable request is taken.
MutantFirst(S) == Max(S)

First(S) == Min(S)

Sleep(w) ==
    /\ worker[w] = "awake"
    /\ ~stopping /\ Runnable = {}
    /\ worker' = [worker EXCEPT ![w] = "asleep"]
    /\ UNCHANGED <<pending, active, server, request, notifying, lane, task, accepted>>

\* Mutant: the lane is not marked active.
MutantTake(w) ==
    /\ worker[w] = "awake"
    /\ Runnable # {}
    /\ LET r == pending[First(Runnable)]
       IN  /\ task' = [task EXCEPT ![w] = r]
           /\ request' = [request EXCEPT ![r] = "taken"]
    /\ pending' = RemoveAt(pending, First(Runnable))
    /\ worker' = [worker EXCEPT ![w] = "dispatch"]
    /\ UNCHANGED <<active, server, notifying, lane, accepted>>

\* The first runnable request is taken and its lane becomes active.
Take(w) ==
    /\ worker[w] = "awake"
    /\ Runnable # {}
    /\ LET r == pending[First(Runnable)]
       IN  /\ task' = [task EXCEPT ![w] = r]
           /\ request' = [request EXCEPT ![r] = "taken"]
           /\ active' = active \cup {lane[r]}
    /\ pending' = RemoveAt(pending, First(Runnable))
    /\ worker' = [worker EXCEPT ![w] = "dispatch"]
    /\ UNCHANGED <<server, notifying, lane, accepted>>

Exit(w) ==
    /\ worker[w] = "awake"
    /\ stopping /\ pending = <<>>
    /\ worker' = [worker EXCEPT ![w] = "exited"]
    /\ UNCHANGED <<pending, active, server, request, notifying, lane, task, accepted>>

\* handle_text(): the call of the control plane begins,
Dispatch(w) ==
    /\ worker[w] = "dispatch"
    /\ worker' = [worker EXCEPT ![w] = "calling"]
    /\ UNCHANGED <<pending, active, server, request, notifying, lane, task, accepted>>

\* and returns, or throws: either way there is an answer, sent if the peer is there.
Answer(w) ==
    /\ worker[w] = "calling"
    /\ worker' = [worker EXCEPT ![w] = "release"]
    /\ request' = [request EXCEPT ![task[w]] = "answered"]
    /\ UNCHANGED <<pending, active, server, notifying, lane, task, accepted>>

\* release_route(), run by the RouteGuard at the end of the iteration
Release(w) ==
    /\ worker[w] = "release"
    /\ active' = active \ {lane[task[w]]}
    /\ task' = [task EXCEPT ![w] = None]
    /\ worker' = [worker EXCEPT ![w] = "notify"]
    /\ UNCHANGED <<pending, server, request, notifying, lane, accepted>>

NotifyReleased(w) ==
    /\ worker[w] = "notify"
    /\ worker' = [Woken(worker) EXCEPT ![w] = "awake"]
    /\ UNCHANGED <<pending, active, server, request, notifying, lane, task, accepted>>

-----------------------------------------------------------------------------
\* start_worker() and stop_worker(), called by one thread

StartWorkers ==
    /\ server = "stopped"
    /\ server' = "running"
    /\ worker' = [w \in Workers |-> "awake"]
    /\ UNCHANGED <<pending, active, request, notifying, lane, task, accepted>>

\* Mutant: the workers are not woken.
MutantStopWorkers ==
    /\ server = "running"
    /\ server' = "joining"
    /\ pending' = <<>>
    /\ request' = [r \in Requests |-> IF r \in Range(pending) THEN "dropped" ELSE request[r]]
    /\ UNCHANGED <<active, notifying, lane, worker, task, accepted>>

\* The pending requests are dropped without an answer; every worker is woken.
StopWorkers ==
    /\ server = "running"
    /\ server' = "joining"
    /\ pending' = <<>>
    /\ request' = [r \in Requests |-> IF r \in Range(pending) THEN "dropped" ELSE request[r]]
    /\ worker' = Woken(worker)
    /\ UNCHANGED <<active, notifying, lane, task, accepted>>

\* Mutant: the workers are detached instead of joined.
MutantJoinWorkers ==
    /\ server = "joining"
    /\ server' = "stopped"
    /\ active' = {}
    /\ UNCHANGED <<pending, request, notifying, lane, worker, task, accepted>>

\* The workers are joined, then active_routes is cleared.
JoinWorkers ==
    /\ server = "joining" /\ AllExited
    /\ server' = "stopped"
    /\ active' = {}
    /\ UNCHANGED <<pending, request, notifying, lane, worker, task, accepted>>

-----------------------------------------------------------------------------
Step(w) == Sleep(w) \/ Take(w) \/ Exit(w) \/ Dispatch(w) \/ Release(w) \/ NotifyReleased(w)

Next ==
    \/ \E r \in Requests : (\E l \in Lanes : Route(r, l)) \/ Enqueue(r) \/ NotifyEnqueued(r)
    \/ \E w \in Workers : Step(w) \/ Answer(w)
    \/ StartWorkers \/ StopWorkers \/ JoinWorkers

\* Threads run; a call of the control plane returns unless its device is blocked.
Fairness ==
    /\ WF_vars(JoinWorkers)
    /\ \A r \in Requests : WF_vars(NotifyEnqueued(r))
    /\ \A w \in Workers :
          /\ WF_vars(Step(w))
          /\ WF_vars(Answer(w) /\ lane[task[w]] \notin Blocked)

Spec == Init /\ [][Next]_vars /\ Fairness

-----------------------------------------------------------------------------
Busy(w) == worker[w] \in {"dispatch", "calling", "release"}

\* Two workers never execute requests of the same lane, also across a restart
\* of the server (active_routes and the joins of stop_worker).
LaneIsExclusive ==
    \A v, w \in Workers : v # w /\ Busy(v) /\ Busy(w) => lane[task[v]] # lane[task[w]]

\* The requests of one lane start in the order they were accepted: one that is
\* still queued was accepted after every one of its lane that was taken.
FifoPerLane ==
    \A i, j \in DOMAIN accepted :
        /\ request[accepted[i]] = "queued"
        /\ request[accepted[j]] \in {"taken", "answered"}
        /\ lane[accepted[i]] = lane[accepted[j]]
        => j < i

\* When stop() returns no request is left half done: each accepted one was
\* answered, or dropped while it waited.
StopLeavesNothingBehind ==
    server = "stopped" =>
        /\ active = {}
        /\ \A r \in Requests : request[r] \notin {"queued", "taken"}

\* A queued request leaves the queue although the device of another lane never
\* answers ("a blocked call for device A does not starve device B").
BlockedLaneStarvesNoOther ==
    \A r \in Requests :
        (request[r] = "queued" /\ lane[r] \notin Blocked) ~> request[r] # "queued"

\* stop() returns unless a worker is inside a call that never does.
StopReturns ==
    (server = "joining" /\ \A w \in Workers : Busy(w) => lane[task[w]] \notin Blocked)
        ~> server = "stopped"
=============================================================================
