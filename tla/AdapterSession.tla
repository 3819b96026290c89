--------------------------- MODULE AdapterSession ---------------------------
(***************************************************************************)
(* One leaf of the AXTP adapter (src/src/adapters/axtp_adapter.cpp): the   *)
(* private context of one physical device, from its creation to its        *)
(* destruction.  It has a FIFO of control calls, a pump thread that is the *)
(* only user of the AXTP client, a recovery worker that replaces a dead    *)
(* physical session, and a manager that retires the leaf when the last     *)
(* lease of the device is gone.                                            *)
(*                                                                         *)
(* Threads: the callers in Calls (those in SyncCalls use the synchronous   *)
(* call(), the others call_async()), "opener" (open_session_status),       *)
(* "worker" (the recovery worker), "reset" (the manager's                  *)
(* reset_session_for_device) and the pump.  One step is one critical       *)
(* section of a mutex of the leaf or one blocking point.                   *)
(*                                                                         *)
(* The payload of a call, the status of its result (Ok, Busy, Unavailable  *)
(* ...), the media streams and the probe's wire format are left out.  Time *)
(* is the step Deadline(c), of which nothing depends once the result is    *)
(* there.                                                                  *)
(***************************************************************************)
EXTENDS Naturals, Sequences, Queues

CONSTANTS
    Calls,              \* the control calls made during the life of the leaf
    SyncCalls,          \* those made through the synchronous call()
    NoCall,             \* in_flight_control_call_ == nullptr
    MaxOutstanding,     \* 32 in call_async
    FailureThreshold,   \* session_health_failure_threshold
    MaxGeneration,      \* bound: the pump requests no recovery beyond it
    MaxSessions         \* bound: physical sessions opened by the leaf

ASSUME ConstantsAssumption ==
    /\ SyncCalls \subseteq Calls
    /\ NoCall \notin Calls
    /\ Calls \cap {"opener", "worker", "reset", "free"} = {}
    /\ MaxOutstanding \in Nat \ {0}
    /\ FailureThreshold \in Nat \ {0}
    /\ MaxGeneration \in Nat
    /\ MaxSessions \in Nat

Free == "free"
Openers == SyncCalls \cup {"opener", "worker"}
Threads == Calls \cup {"opener", "worker", "reset"}

VARIABLES
    pending,     \* pending_control_calls_
    inFlight,    \* in_flight_control_call_
    accepting,   \* accepting_control_calls_
    result,      \* the caller's operation: "none" before it exists
    callGen,     \* PendingControlCall::recovery_generation
    late,        \* the call's deadline has passed
    erasing,     \* cancelled calls whose cancel handler has not run yet
    generation,  \* recovery_generation_
    open,        \* diagnostics_.open, with active_device_id_ and the client
    physical,    \* RuntimeState::physical_session_generation
    holder,      \* the thread that holds session_mutex_
    stopPump,    \* stop_session_pump_
    pump,        \* where the pump thread is; "none" when it was joined
    bound,       \* media_delivery_sessions_ has the device
    health,      \* session_health_
    failures,    \* health_probe_failures_
    requested,   \* recovery_requested_
    stopWorker,  \* stop_recovery_worker_
    workerGen,   \* the generation the worker recovers
    pc,          \* where the other threads are
    retired,     \* DeviceContext::retired
    published,   \* the leaf is in device_contexts_
    users,       \* the threads counted by DeviceContext::in_flight
    accepted,    \* history: the calls in the order they were queued
    sent         \* history: the calls in the order callJson sent them

queueVars == <<pending, inFlight, accepting, result>>
callVars == <<callGen, late, erasing>>
sessionVars == <<open, physical, holder, stopPump, pump>>
healthVars == <<health, failures, requested>>
workerVars == <<stopWorker, workerGen>>
fenceVars == <<retired, published, users>>
historyVars == <<accepted, sent>>
vars == <<queueVars, callVars, generation, sessionVars, bound, healthVars,
          workerVars, pc, fenceVars, historyVars>>

Init ==
    /\ pending = <<>>
    /\ inFlight = NoCall
    /\ accepting = TRUE
    /\ result = [c \in Calls |-> "none"]
    /\ callGen = [c \in Calls |-> 0]
    /\ late = [c \in Calls |-> FALSE]
    /\ erasing = {}
    /\ generation = 0
    /\ open = FALSE
    /\ physical = 0
    /\ holder = Free
    /\ stopPump = FALSE
    /\ pump = "none"
    /\ bound = FALSE
    /\ health = "healthy"
    /\ failures = 0
    /\ requested = FALSE
    /\ stopWorker = FALSE
    /\ workerGen = 0
    /\ pc = [t \in Threads |-> "idle"]
    /\ retired = FALSE
    /\ published = TRUE
    /\ users = {}
    /\ accepted = <<>>
    /\ sent = <<>>

-----------------------------------------------------------------------------
(* Shared by several operations                                            *)

Goto(t, label) == pc' = [pc EXCEPT ![t] = label]

\* ControlOperationSource::complete: only an operation without a result
\* takes one.
Settle(calls) ==
    result' = [c \in Calls |-> IF c \in calls /\ result[c] = "pending"
                               THEN "ready" ELSE result[c]]

MutantCancelCalls ==
    /\ pending' = <<>>
    /\ Settle({inFlight})
    /\ UNCHANGED <<inFlight, accepting>>

\* cancel_control_calls: the queue is emptied, and what was queued or in
\* flight is completed.  The call in flight stays with the pump.
CancelCalls ==
    /\ pending' = <<>>
    /\ Settle(ToSet(pending) \cup {inFlight})
    /\ UNCHANGED <<inFlight, accepting>>

\* expire_pending_control_calls: the ready and the late ones leave the queue.
ExpireCalls ==
    /\ pending' = Kept(pending, {c \in Calls : result[c] = "pending" /\ ~late[c]})
    /\ Settle({c \in ToSet(pending) : late[c]})
    /\ UNCHANGED <<inFlight, accepting>>

Outstanding == Len(pending) + (IF inFlight = NoCall THEN 0 ELSE 1)

Deadline(c) ==
    /\ pc[c] # "idle"
    /\ result[c] # "ready"
    /\ ~late[c]
    /\ late' = [late EXCEPT ![c] = TRUE]
    /\ UNCHANGED <<queueVars, callGen, erasing, generation, sessionVars,
                   bound, healthVars, workerVars, pc, fenceVars, historyVars>>

-----------------------------------------------------------------------------
(* Callers                                                                 *)

\* The caller leaves the leaf with a result.
Return(c) ==
    /\ result' = [result EXCEPT ![c] = "ready"]
    /\ Goto(c, "returned")
    /\ users' = users \ {c}

\* The manager finds the leaf and enters it, unless it is being retired.  The
\* synchronous call looks at the session first and opens it when it is closed.
CallEnter(c) ==
    /\ pc[c] = "idle"
    /\ published
    /\ IF retired
       THEN Return(c)
       ELSE /\ users' = users \cup {c}
            /\ Goto(c, IF c \in SyncCalls /\ ~open THEN "want" ELSE "ready")
            /\ UNCHANGED result
    /\ UNCHANGED <<pending, inFlight, accepting, callVars, generation,
                   sessionVars, bound, healthVars, workerVars, retired,
                   published, historyVars>>

\* call_async up to the creation of the request: an early answer, or a request
\* stamped with the recovery generation.
CallSubmit(c) ==
    /\ pc[c] \in {"ready", "opened"}
    /\ IF late[c] \/ ~accepting \/ Outstanding >= MaxOutstanding
       THEN /\ Return(c)
            /\ UNCHANGED callGen
       ELSE /\ callGen' = [callGen EXCEPT ![c] = generation]
            /\ Goto(c, "stamped")
            /\ UNCHANGED <<result, users>>
    /\ UNCHANGED <<pending, inFlight, accepting, late, erasing, generation,
                   sessionVars, bound, healthVars, workerVars, retired,
                   published, historyVars>>

\* The second critical section of call_async.  An asynchronous caller leaves
\* with the operation, a synchronous one waits for it inside the leaf.
CallEnqueue(c) ==
    /\ pc[c] = "stamped"
    /\ IF ~accepting \/ callGen[c] # generation \/ Outstanding >= MaxOutstanding
       THEN /\ Return(c)
            /\ UNCHANGED <<pending, accepted>>
       ELSE /\ pending' = Append(pending, c)
            /\ result' = [result EXCEPT ![c] = "pending"]
            /\ accepted' = Append(accepted, c)
            /\ Goto(c, IF c \in SyncCalls THEN "waiting" ELSE "returned")
            /\ users' = IF c \in SyncCalls THEN users ELSE users \ {c}
    /\ UNCHANGED <<inFlight, accepting, callVars, generation, sessionVars,
                   bound, healthVars, workerVars, retired, published, sent>>

\* The synchronous call could not open the session, or its operation is ready.
CallLeave(c) ==
    /\ \/ pc[c] = "failed" /\ Return(c)
       \/ pc[c] = "waiting" /\ result[c] # "pending" /\ Return(c)
    /\ UNCHANGED <<pending, inFlight, accepting, callVars, generation,
                   sessionVars, bound, healthVars, workerVars, retired,
                   published, historyVars>>

\* ControlOperation::cancel, from the owner of an asynchronous operation.  Its
\* cancel handler removes the request from the queue in a step of its own.
CancelOperation(c) ==
    /\ c \notin SyncCalls
    /\ result[c] = "pending"
    /\ Settle({c})
    /\ erasing' = erasing \cup {c}
    /\ UNCHANGED <<pending, inFlight, accepting, callGen, late, generation,
                   sessionVars, bound, healthVars, workerVars, pc, fenceVars,
                   historyVars>>

CancelHandler(c) ==
    /\ c \in erasing
    /\ erasing' = erasing \ {c}
    /\ pending' = Kept(pending, Calls \ {c})
    /\ UNCHANGED <<inFlight, accepting, result, callGen, late, generation,
                   sessionVars, bound, healthVars, workerVars, pc, fenceVars,
                   historyVars>>

-----------------------------------------------------------------------------
(* Opening a session: ensure_session_locked, under session_mutex_          *)

OpenBegin ==
    /\ pc["opener"] = "idle"
    /\ published /\ ~retired
    /\ users' = users \cup {"opener"}
    /\ Goto("opener", "want")
    /\ UNCHANGED <<queueVars, callVars, generation, sessionVars, bound,
                   healthVars, workerVars, retired, published, historyVars>>

\* ensure_session_locked returns: the opener leaves the leaf, a synchronous
\* call and the worker go on.
EnsureReturn(t, label) ==
    /\ Goto(t, IF t = "opener" THEN "idle" ELSE label)
    /\ users' = users \ ({t} \cap {"opener"})

\* An open session is used as it is.  Otherwise the pump of the last session
\* is told to stop.
EnsureBegin(t) ==
    /\ pc[t] = "want"
    /\ holder = Free
    /\ IF open
       THEN /\ EnsureReturn(t, "opened")
            /\ UNCHANGED <<holder, stopPump>>
       ELSE /\ Goto(t, "join")
            /\ holder' = t
            /\ stopPump' = TRUE
            /\ UNCHANGED users
    /\ UNCHANGED <<queueVars, callVars, generation, open, physical, pump,
                   bound, healthVars, workerVars, retired, published,
                   historyVars>>

EnsureJoin(t) ==
    /\ pc[t] = "join"
    /\ pump \in {"none", "exited"}
    /\ pump' = "none"
    /\ Goto(t, "handshake")
    /\ UNCHANGED <<queueVars, callVars, generation, open, physical, holder,
                   stopPump, bound, healthVars, workerVars, fenceVars,
                   historyVars>>

\* publish_runtime_progress from the handshake
EnsureProgress(t) ==
    /\ pc[t] = "handshake"
    /\ ExpireCalls
    /\ UNCHANGED <<callVars, generation, sessionVars, bound, healthVars,
                   workerVars, pc, fenceVars, historyVars>>

\* The handshake fails on the wire, or because the generation has advanced.
EnsureFail(t) ==
    /\ pc[t] = "handshake"
    /\ holder' = Free
    /\ EnsureReturn(t, "failed")
    /\ UNCHANGED <<queueVars, callVars, generation, open, physical, stopPump,
                   pump, bound, healthVars, workerVars, retired, published,
                   historyVars>>

EnsureOpen(t) ==
    /\ pc[t] = "handshake"
    /\ physical < MaxSessions
    /\ physical' = physical + 1
    /\ open' = TRUE
    /\ health' = "healthy"
    /\ failures' = 0
    /\ stopPump' = FALSE
    /\ pump' = "top"
    /\ holder' = Free
    /\ EnsureReturn(t, "opened")
    /\ UNCHANGED <<queueVars, callVars, generation, bound, requested,
                   workerVars, retired, published, historyVars>>

EnsureStep(t) ==
    \/ EnsureBegin(t)
    \/ EnsureJoin(t)
    \/ EnsureFail(t)
    \/ EnsureOpen(t)

-----------------------------------------------------------------------------
(* The session pump                                                        *)

PumpTop ==
    /\ pump = "top"
    /\ IF stopPump
       THEN /\ pump' = "exited"
            /\ UNCHANGED queueVars
       ELSE /\ pump' = "take"
            /\ ExpireCalls
    /\ UNCHANGED <<callVars, generation, open, physical, holder, stopPump,
                   bound, healthVars, workerVars, pc, fenceVars, historyVars>>

\* The first request of the queue whose operation has no result yet; the ones
\* before it are dropped.
Popped == SelectInSeq(pending, LAMBDA c : result[c] = "pending")

MutantTakeLast ==
    /\ pump = "take"
    /\ IF Popped = 0
       THEN /\ pending' = <<>>
            /\ pump' = "probe"
            /\ UNCHANGED inFlight
       ELSE /\ inFlight' = Last(pending)
            /\ pending' = Front(pending)
            /\ pump' = "check"
    /\ UNCHANGED <<accepting, result, callVars, generation, open, physical,
                   holder, stopPump, bound, healthVars, workerVars, pc,
                   fenceVars, historyVars>>

\* process_next_control_call, its first critical section
PumpTake ==
    /\ pump = "take"
    /\ IF Popped = 0
       THEN /\ pending' = <<>>
            /\ pump' = "probe"
            /\ UNCHANGED inFlight
       ELSE /\ inFlight' = pending[Popped]
            /\ pending' = SubSeq(pending, Popped + 1, Len(pending))
            /\ pump' = "check"
    /\ UNCHANGED <<accepting, result, callVars, generation, open, physical,
                   holder, stopPump, bound, healthVars, workerVars, pc,
                   fenceVars, historyVars>>

Dispatchable(c) == callGen[c] = generation /\ open /\ ~late[c]

MutantPumpCheck ==
    /\ pump = "check"
    /\ IF Dispatchable(inFlight)
       THEN /\ pump' = "calling"
            /\ sent' = Append(sent, inFlight)
       ELSE /\ pump' = "clear"
            /\ UNCHANGED sent
    /\ UNCHANGED <<queueVars, callVars, generation, open, physical, holder,
                   stopPump, bound, healthVars, workerVars, pc, fenceVars,
                   accepted>>

PumpCheck ==
    /\ pump = "check"
    /\ IF Dispatchable(inFlight)
       THEN /\ pump' = "calling"
            /\ sent' = Append(sent, inFlight)
            /\ UNCHANGED result
       ELSE /\ pump' = "clear"
            /\ Settle({inFlight})
            /\ UNCHANGED sent
    /\ UNCHANGED <<pending, inFlight, accepting, callVars, generation, open,
                   physical, holder, stopPump, bound, healthVars, workerVars,
                   pc, fenceVars, accepted>>

ProbeDue == open /\ health # "recovering"

\* publish_runtime_progress while callJson or a probe waits for the device
PumpProgress ==
    /\ \/ pump = "calling"
       \/ pump = "probe" /\ ProbeDue
    /\ ExpireCalls
    /\ UNCHANGED <<callVars, generation, sessionVars, bound, healthVars,
                   workerVars, pc, fenceVars, historyVars>>

\* callJson returns: an answer, an error, a timeout or an abort
PumpAnswer ==
    /\ pump = "calling"
    /\ Settle({inFlight})
    /\ pump' = "clear"
    /\ UNCHANGED <<pending, inFlight, accepting, callVars, generation, open,
                   physical, holder, stopPump, bound, healthVars, workerVars,
                   pc, fenceVars, historyVars>>

PumpClear ==
    /\ pump = "clear"
    /\ inFlight' = NoCall
    /\ pump' = "probe"
    /\ UNCHANGED <<pending, accepting, result, callVars, generation, open,
                   physical, holder, stopPump, bound, healthVars, workerVars,
                   pc, fenceVars, historyVars>>

\* No probe is due, or the device answered it, or nobody receives its media.
PumpProbe ==
    /\ pump = "probe"
    /\ \/ UNCHANGED <<health, failures>>
       \/ ProbeDue /\ health' = "healthy" /\ failures' = 0
    /\ pump' = "top"
    /\ UNCHANGED <<queueVars, callVars, generation, open, physical, holder,
                   stopPump, bound, requested, workerVars, pc, fenceVars,
                   historyVars>>

PumpProbeFails ==
    /\ pump = "probe"
    /\ ProbeDue /\ bound
    /\ generation < MaxGeneration
    /\ failures' = failures + 1
    /\ IF failures' >= FailureThreshold
       THEN health' = "recovering" /\ pump' = "request"
       ELSE health' = "suspect" /\ pump' = "top"
    /\ UNCHANGED <<queueVars, callVars, generation, open, physical, holder,
                   stopPump, bound, requested, workerVars, pc, fenceVars,
                   historyVars>>

\* request_session_recovery, under recovery_mutex_ and then under mutex_
PumpRequest ==
    /\ pump = "request"
    /\ IF stopWorker \/ requested
       THEN /\ pump' = "top"
            /\ UNCHANGED <<generation, requested>>
       ELSE /\ generation' = generation + 1
            /\ requested' = TRUE
            /\ pump' = "mark"
    /\ UNCHANGED <<queueVars, callVars, open, physical, holder, stopPump,
                   bound, health, failures, workerVars, pc, fenceVars,
                   historyVars>>

PumpMark ==
    /\ pump = "mark"
    /\ health' = "recovering"
    /\ pump' = "top"
    /\ UNCHANGED <<queueVars, callVars, generation, open, physical, holder,
                   stopPump, bound, failures, requested, workerVars, pc,
                   fenceVars, historyVars>>

PumpStep ==
    \/ PumpTop
    \/ PumpTake
    \/ PumpCheck
    \/ PumpAnswer
    \/ PumpClear
    \/ PumpProbe
    \/ PumpProbeFails
    \/ PumpRequest
    \/ PumpMark

-----------------------------------------------------------------------------
(* The recovery worker                                                     *)

WorkerTake ==
    /\ pc["worker"] = "idle"
    /\ stopWorker \/ requested
    /\ IF stopWorker
       THEN /\ Goto("worker", "exited")
            /\ UNCHANGED <<requested, workerGen>>
       ELSE /\ Goto("worker", "check")
            /\ requested' = FALSE
            /\ workerGen' = generation
    /\ UNCHANGED <<queueVars, callVars, generation, sessionVars, bound,
                   health, failures, stopWorker, fenceVars, historyVars>>

\* The device still has a media lease, and no reset or later request has
\* advanced the generation.
Wanted == bound /\ generation = workerGen

WorkerCheck ==
    /\ pc["worker"] = "check"
    /\ Goto("worker", IF Wanted THEN "recover" ELSE "idle")
    /\ UNCHANGED <<queueVars, callVars, generation, sessionVars, bound,
                   healthVars, workerVars, fenceVars, historyVars>>

\* recover_session_once: check again, and cancel what is queued
WorkerRecover ==
    /\ pc["worker"] = "recover"
    /\ IF Wanted
       THEN Goto("worker", "lock") /\ CancelCalls
       ELSE Goto("worker", "failed") /\ UNCHANGED queueVars
    /\ UNCHANGED <<callVars, generation, sessionVars, bound, healthVars,
                   workerVars, fenceVars, historyVars>>

WorkerStopPump ==
    /\ pc["worker"] = "lock"
    /\ holder = Free
    /\ holder' = "worker"
    /\ stopPump' = TRUE
    /\ Goto("worker", "joinOld")
    /\ UNCHANGED <<queueVars, callVars, generation, open, physical, pump,
                   bound, healthVars, workerVars, fenceVars, historyVars>>

Joined == pump \in {"none", "exited"}

MutantWorkerClose ==
    /\ pc["worker"] = "joinOld"
    /\ open' = FALSE
    /\ holder' = Free
    /\ Goto("worker", "drain")
    /\ UNCHANGED <<queueVars, callVars, generation, physical, stopPump, pump,
                   bound, healthVars, workerVars, fenceVars, historyVars>>

WorkerClose ==
    /\ pc["worker"] = "joinOld"
    /\ Joined
    /\ pump' = "none"
    /\ open' = FALSE
    /\ holder' = Free
    /\ Goto("worker", "drain")
    /\ UNCHANGED <<queueVars, callVars, generation, physical, stopPump, bound,
                   healthVars, workerVars, fenceVars, historyVars>>

WorkerDrain ==
    /\ pc["worker"] = "drain"
    /\ CancelCalls
    /\ Goto("worker", "verify")
    /\ UNCHANGED <<callVars, generation, sessionVars, bound, healthVars,
                   workerVars, fenceVars, historyVars>>

WorkerVerify ==
    /\ pc["worker"] = "verify"
    /\ Goto("worker", IF Wanted THEN "want" ELSE "failed")
    /\ UNCHANGED <<queueVars, callVars, generation, sessionVars, bound,
                   healthVars, workerVars, fenceVars, historyVars>>

WorkerRecovered ==
    /\ pc["worker"] = "opened"
    /\ health' = "healthy"
    /\ failures' = 0
    /\ Goto("worker", "idle")
    /\ UNCHANGED <<queueVars, callVars, generation, sessionVars, bound,
                   requested, workerVars, fenceVars, historyVars>>

WorkerFailed ==
    /\ pc["worker"] = "failed"
    /\ health' = "failed"
    /\ Goto("worker", "backoff")
    /\ UNCHANGED <<queueVars, callVars, generation, sessionVars, bound,
                   failures, requested, workerVars, fenceVars, historyVars>>

WorkerBackoff ==
    /\ pc["worker"] = "backoff"
    /\ Goto("worker",
            IF stopWorker \/ generation # workerGen THEN "idle" ELSE "check")
    /\ UNCHANGED <<queueVars, callVars, generation, sessionVars, bound,
                   healthVars, workerVars, fenceVars, historyVars>>

WorkerStep ==
    \/ WorkerTake
    \/ WorkerCheck
    \/ WorkerRecover
    \/ WorkerStopPump
    \/ WorkerClose
    \/ WorkerDrain
    \/ WorkerVerify
    \/ WorkerRecovered
    \/ WorkerFailed
    \/ WorkerBackoff

-----------------------------------------------------------------------------
(* Leases, retirement and destruction                                      *)

Bind ==
    /\ published /\ ~retired
    /\ ~bound
    /\ bound' = TRUE
    /\ UNCHANGED <<queueVars, callVars, generation, sessionVars, healthVars,
                   workerVars, pc, fenceVars, historyVars>>

Unbind ==
    /\ published /\ ~retired
    /\ bound
    /\ bound' = FALSE
    /\ UNCHANGED <<queueVars, callVars, generation, sessionVars, healthVars,
                   workerVars, pc, fenceVars, historyVars>>

\* The manager marks the identity as retiring, and nobody enters any more.
RetireBegin ==
    /\ pc["reset"] = "idle"
    /\ retired' = TRUE
    /\ Goto("reset", "fence")
    /\ UNCHANGED <<queueVars, callVars, generation, sessionVars, bound,
                   healthVars, workerVars, published, users, historyVars>>

\* Nobody is inside: the leaf's reset_session_for_device begins.
ResetAdvance ==
    /\ pc["reset"] = "fence"
    /\ users = {}
    /\ generation' = generation + 1
    /\ Goto("reset", "cancel")
    /\ UNCHANGED <<queueVars, callVars, sessionVars, bound, healthVars,
                   workerVars, fenceVars, historyVars>>

ResetCancel ==
    /\ pc["reset"] = "cancel"
    /\ CancelCalls
    /\ Goto("reset", "forget")
    /\ UNCHANGED <<callVars, generation, sessionVars, bound, healthVars,
                   workerVars, fenceVars, historyVars>>

ResetForget ==
    /\ pc["reset"] = "forget"
    /\ requested' = FALSE
    /\ Goto("reset", "unbind")
    /\ UNCHANGED <<queueVars, callVars, generation, sessionVars, bound, health,
                   failures, workerVars, fenceVars, historyVars>>

ResetUnbind ==
    /\ pc["reset"] = "unbind"
    /\ bound' = FALSE
    /\ Goto("reset", "lock")
    /\ UNCHANGED <<queueVars, callVars, generation, sessionVars, healthVars,
                   workerVars, fenceVars, historyVars>>

\* Without an active session the leaf returns here.
ResetStopPump ==
    /\ pc["reset"] = "lock"
    /\ holder = Free
    /\ IF open
       THEN /\ holder' = "reset"
            /\ stopPump' = TRUE
            /\ Goto("reset", "joinPump")
       ELSE /\ Goto("reset", "erase")
            /\ UNCHANGED <<holder, stopPump>>
    /\ UNCHANGED <<queueVars, callVars, generation, open, physical, pump,
                   bound, healthVars, workerVars, fenceVars, historyVars>>

MutantResetClose ==
    /\ pc["reset"] = "joinPump"
    /\ Joined
    /\ pump' = "none"
    /\ open' = FALSE
    /\ Goto("reset", "drain")
    /\ UNCHANGED <<queueVars, callVars, generation, physical, holder,
                   stopPump, bound, healthVars, workerVars, fenceVars,
                   historyVars>>

ResetClose ==
    /\ pc["reset"] = "joinPump"
    /\ Joined
    /\ pump' = "none"
    /\ open' = FALSE
    /\ holder' = Free
    /\ Goto("reset", "drain")
    /\ UNCHANGED <<queueVars, callVars, generation, physical, stopPump, bound,
                   healthVars, workerVars, fenceVars, historyVars>>

ResetDrain ==
    /\ pc["reset"] = "drain"
    /\ CancelCalls
    /\ Goto("reset", "erase")
    /\ UNCHANGED <<callVars, generation, sessionVars, bound, healthVars,
                   workerVars, fenceVars, historyVars>>

\* The identity is free again: a replacement leaf may be created from here on.
RetireEnd ==
    /\ pc["reset"] = "erase"
    /\ published' = FALSE
    /\ Goto("reset", "destroy")
    /\ UNCHANGED <<queueVars, callVars, generation, sessionVars, bound,
                   healthVars, workerVars, retired, users, historyVars>>

\* ~AxtpAdapter of the leaf: it refuses calls, makes those in flight stale, drains
\* the queue, and tells the recovery worker to stop before it takes the pump.
DestroyRefuse ==
    /\ pc["reset"] = "destroy"
    /\ accepting' = FALSE
    /\ Goto("reset", "lastAdvance")
    /\ UNCHANGED <<pending, inFlight, result, callVars, generation, sessionVars,
                   bound, healthVars, workerVars, fenceVars, historyVars>>

DestroyAdvance ==
    /\ pc["reset"] = "lastAdvance"
    /\ generation' = generation + 1
    /\ Goto("reset", "lastCancel")
    /\ UNCHANGED <<queueVars, callVars, sessionVars, bound, healthVars,
                   workerVars, fenceVars, historyVars>>

DestroyCancel ==
    /\ pc["reset"] = "lastCancel"
    /\ CancelCalls
    /\ Goto("reset", "lastUnbind")
    /\ UNCHANGED <<callVars, generation, sessionVars, bound, healthVars,
                   workerVars, fenceVars, historyVars>>

DestroyUnbind ==
    /\ pc["reset"] = "lastUnbind"
    /\ bound' = FALSE
    /\ Goto("reset", "stopWorker")
    /\ UNCHANGED <<queueVars, callVars, generation, sessionVars, healthVars,
                   workerVars, fenceVars, historyVars>>

DestroyStopWorker ==
    /\ pc["reset"] = "stopWorker"
    /\ stopWorker' = TRUE
    /\ requested' = FALSE
    /\ Goto("reset", "joinWorker")
    /\ UNCHANGED <<queueVars, callVars, generation, sessionVars, bound, health,
                   failures, workerGen, fenceVars, historyVars>>

DestroyStopPump ==
    /\ pc["reset"] = "joinWorker"
    /\ pc["worker"] = "exited"
    /\ stopPump' = TRUE
    /\ Goto("reset", "joinLast")
    /\ UNCHANGED <<queueVars, callVars, generation, open, physical, holder,
                   pump, bound, healthVars, workerVars, fenceVars,
                   historyVars>>

DestroyEnd ==
    /\ pc["reset"] = "joinLast"
    /\ Joined
    /\ pump' = "none"
    /\ open' = FALSE
    /\ Goto("reset", "gone")
    /\ UNCHANGED <<queueVars, callVars, generation, physical, holder,
                   stopPump, bound, healthVars, workerVars, fenceVars,
                   historyVars>>

ResetStep ==
    \/ ResetAdvance
    \/ ResetCancel
    \/ ResetForget
    \/ ResetUnbind
    \/ ResetStopPump
    \/ ResetClose
    \/ ResetDrain
    \/ RetireEnd
    \/ DestroyRefuse
    \/ DestroyAdvance
    \/ DestroyCancel
    \/ DestroyUnbind
    \/ DestroyStopWorker
    \/ DestroyStopPump
    \/ DestroyEnd

CallStep(c) == CallSubmit(c) \/ CallEnqueue(c) \/ CallLeave(c)

Next ==
    \/ \E c \in Calls : \/ Deadline(c)
                        \/ CallEnter(c)
                        \/ CallStep(c)
                        \/ CancelOperation(c)
                        \/ CancelHandler(c)
    \/ OpenBegin
    \/ \E t \in Openers : EnsureStep(t) \/ EnsureProgress(t)
    \/ PumpStep
    \/ PumpProgress
    \/ WorkerStep
    \/ Bind
    \/ Unbind
    \/ RetireBegin
    \/ ResetStep

\* Threads that have begun an operation go on with it, a handshake and a call
\* on the wire end (both have a timeout), and time passes.  An opener that
\* waits for session_mutex_ gets it in the end: the worker holds no mutex
\* during the backoff between two attempts.
Fairness ==
    /\ WF_vars(PumpStep)
    /\ WF_vars(WorkerStep)
    /\ WF_vars(ResetStep)
    /\ \A t \in Openers : SF_vars(EnsureStep(t))
    /\ \A c \in Calls : /\ WF_vars(CallStep(c))
                        /\ WF_vars(CancelHandler(c))
                        /\ WF_vars(Deadline(c))

Spec == Init /\ [][Next]_vars

FairSpec == Spec /\ Fairness

-----------------------------------------------------------------------------
(* Properties                                                              *)

(***************************************************************************)
(* The pump runs only while its physical session is open: recovery, reset  *)
(* and destruction join the pump before they close the client it uses.     *)
(***************************************************************************)
PumpOwnsAnOpenSession == pump \notin {"none", "exited"} => open

(***************************************************************************)
(* Calls reach the device in the order in which call_async accepted them,  *)
(* whatever was cancelled, expired or drained in between.                  *)
(***************************************************************************)
SentInAcceptanceOrder ==
    LET rank(c) == SelectInSeq(accepted, LAMBDA d : d = c)
    IN  \A i, j \in 1..Len(sent) : i < j => rank(sent[i]) < rank(sent[j])

(***************************************************************************)
(* When the leaf is destroyed every operation it gave out has its result:  *)
(* the drains of reset_session_for_device and of the destructor leave no   *)
(* caller waiting on an object that is gone.                               *)
(***************************************************************************)
DestroyedLeafOwesNoResult ==
    pc["reset"] = "gone" => \A c \in Calls : result[c] # "pending"

(***************************************************************************)
(* While a session stays open, every queued call gets its result: the pump *)
(* sends it, refuses it or expires it.                                     *)
(***************************************************************************)
PumpServesTheQueue ==
    <>[]open => \A c \in Calls : result[c] = "pending" ~> result[c] # "pending"

(***************************************************************************)
(* A retirement that has begun ends, unless a synchronous call waits in    *)
(* the leaf forever.  reset_session_for_device waits for the callers that  *)
(* are inside, for session_mutex_, for the pump and for the recovery       *)
(* worker, and of these only a caller in ControlOperation::wait may never  *)
(* move: see DeadlineBoundsTheWait.                                        *)
(***************************************************************************)
RetirementEnds ==
    (\A c \in SyncCalls : []<>(pc[c] # "waiting"))
        => (pc["reset"] = "fence" ~> pc["reset"] = "gone")

(***************************************************************************)
(* What control_operation.hpp says of the deadline, it bounds the time a   *)
(* caller waits, and what call_async says of its second look at the        *)
(* generation, no operation is stranded behind a stopped pump: a queued    *)
(* call whose deadline has passed gets its result.                         *)
(***************************************************************************)
DeadlineBoundsTheWait ==
    \A c \in Calls :
        (result[c] = "pending" /\ late[c]) ~> result[c] # "pending"

(***************************************************************************)
(* What the comment in device_context_for says of a reset: it owns the     *)
(* physical identity until the old leaf has closed.  Once the identity may *)
(* be used again, the old leaf neither has nor opens a physical session.   *)
(***************************************************************************)
ReplacementWaitsForTheOldLeaf ==
    ~published => ~open /\ pc["worker"] # "handshake"
=============================================================================
