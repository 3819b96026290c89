# A TLA+ model of Axent

Axent is a device-control runtime: an application (or the daemon) embeds a Host
that finds devices, leases them to sessions, sends them control calls over AXTP
and delivers their audio and video. This directory holds TLA+ modules for the
concurrent parts of that runtime, TLC configurations that check them on small
instances, and TLAPS proofs of the central invariants for every size.

The reference is the C++ source under `src/`. Every definition that models code
is listed with its file and lines in `PROJECT.json` (`map`).

## 1. The system

| Part | State | Operations | What makes it hard |
|---|---|---|---|
| Host leases (`host/axent_host.cpp`) | leases, media owner per device, registry of activities and maintenance (of the Host, and kept alive by its maintenance leases), operation index | start, stop, acquire, release, discovery, maintenance, call, call_async | acquire and release give up the Host mutex half way; stop and a late completion race with them |
| Host stream subscriptions (same file) | item queue, open and delivered streams, delivery thread | subscribe, publish event or frame, activate, cancel (outside, Host, sink) | publishers, cancellers and a worker drain one queue in turn and wait for each other on two condition variables |
| Control operation (`core/control_operation.cpp`) | result, handlers, cancel handler | complete, cancel, on_complete, set_cancel_handler, wait | handlers run after the mutex is released |
| Device registry and routes (`core/device_manager.cpp`, `core/route_manager.cpp`) | rows per (adapter, id), endpoint bindings | upsert, reconcile_discovery, mark_adapter_offline, resolve | bindings of a batch depend on each other and on the other adapters' rows |
| Control server (`control/websocket_server.cpp`) | request queue, active lanes, workers | accept, take, answer, stop, restart | four workers, one FIFO per physical device, a device that never answers |
| Broker and control plane (`core/broker.cpp`, `control/control_plane.cpp`) | none of its own | route_key, dispatch | the route is computed twice, at arrival and at dispatch |
| AXTP leaf session (`adapters/axtp_adapter.cpp`) | control FIFO, session, pump, recovery worker, generation, health | call, call_async, open, pump loop, recovery, bind, reset, destruction | five kinds of thread, four mutexes, sessions replaced under way |
| AXTP media pipeline (same file) | staged frames, source-state events, open streams, dispatcher FIFO, binding epoch | poll, open, close, recover, dispatch, bind | nested polling inside a call, ids reused by the device, two lifetimes (stream and lease) |
| Video reconfiguration (same file) | one operation with two legs | set params, advance, roll back | every step is a call that can fail and that polls again |
| AXTP control endpoint (`control/axtp_control_endpoint.cpp`) | handler slots with their operations, worker thread, queues | register, reset a token, start, stop, post, publish | a handler is taken away while it runs, and returns an operation afterwards |
| Firmware update (`firmware/*.cpp`) | maintenance lease, position in the image | run | the device chooses the chunk size, the Host restarts meanwhile, the lease must end on every path |
| Transports (`transports/*`) | reader thread, report queue | open, close, send, poll | I/O; not modelled |

Not state machines worth a model, with the reason for each, are listed in
`PROJECT.json` (`components`): codecs and JSON, the command line, configuration,
logging, diagnostics, MD5, stub adapters, single-lock tables.

## 2. Modules

**`HostLeases`** models `AxentHost` without media delivery. `dispatch_mutex` is
held by one call from its beginning to its end, so one variable `call` is the
progress of that call; a call is split where it leaves `impl_->mutex` or the
registry's mutex. Completions of operations, `upsert_device` and the release of
a maintenance lease do not take `dispatch_mutex` and interleave everywhere.
`broker` and `running` are two variables because `start` can throw in between
(`StartThrows`): such a Host is not running, acquires no session, and yet accepts
endpoint calls and discoveries until the next `start` or `stop`.

**`ControlOperation`** models one operation object and its source. Each critical
section is a step; the notification and each handler is a further step of the
thread that took the handlers. **`OperationPromise`** says what an operation
promises to its users, with no threads, lists or copies: one outcome, each handler
told once, a cancel handler owed from the cancellation on and called once.
`ControlOperation` implements it (`Promise == INSTANCE OperationPromise WITH ...`):
`owed` is the set of cancel handlers that some thread has copied, the outcome is the
result, and every other step of the threads is a stutter.

**`FirmwareUpdate`** extends `HostLeases` with `FirmwareUpdateService::run`. The
lease of an update is the maintenance lease of `HostLeases`, taken in
`FirmwareAcquire` and given back in `Return` on every way out of `run`. An image is
the sequence of its byte positions, and a device is the sequence it received.
`HostLeases` names its steps other than maintenance `HostStep`, so that the
composition can pair the maintenance steps with those of the service. `PercentOf`
is `percent_of` of the task with the width of its integers as a constant;
`PercentAssumption` compares it with the definition of a percentage, which TLC
evaluates for all pairs of integers of the width.

**`ControlEndpoint`** models the endpoint, its worker and the threads of the
application. `lifecycle_mutex` is held through `start`, so `locked` names its
holder. A slot is an endpoint handler with the operations its calls returned; a
handler that returns none behaves as a synchronous one. Resetting a token is split
where the code waits for the handler, collects the operations, and cancels them
without the mutex. A handler may reset tokens itself, its own included. A queued
task or event is the number of stops before it was accepted, which is all a
property asks about it.

**`DeviceRegistry`** models `DeviceManager` and the lookups of `RouteManager`.
A row keeps its endpoint, its serial number (standing for every field that
`snapshots_equivalent` compares) and whether it is online. A reconciliation is a
sequence of steps, one per plan, that keeps the mutex.

**`LaneScheduler`** models the request queue of the WebSocket server with
`queue_cv`: a worker that finds nothing to do is asleep until it is notified.

**`ControlLanes`** composes the two through `INSTANCE`: the lane of a request
comes from the registry at its arrival, its device from the registry when a
worker dispatches it.

**`AdapterSession`** models one leaf of the AXTP adapter from its creation to its
destruction: callers, the session pump, openers, the recovery worker and the
manager's reset. One step is one critical section or one blocking point: the reset
forgets the recovery request and the media binding in two, and the destructor
refuses calls, makes those in flight stale, drains the queue, unbinds and stops the
recovery worker in five (`DestroyRefuse` to `DestroyStopWorker`). Time is the step
`Deadline(c)`.

**`MediaStreamSubscription`** models one stream subscription in both dispatch
modes with the Host operations around it. `cv_` and `terminal_cv_` are modelled
by the set of threads that are asleep. There is one stream id; a generation is a
number. A frame is its generation and its size. A limit of 0 is no limit, as in
`over_limit_locked`; the run gives both limits. The drop counters, the reported
drop count and the order of delivery are kept; timestamps, flags and payloads
are not.

**`MediaPipeline`** models the media path of one leaf: the pump, the dispatcher
and a Host that hands the device from one media session to the next. Every call
to the device polls again, and what the poll brings is processed inside the call,
so the pump is a stack of activations (`stack`): the loop, a call, the processing
of source events, an open, a commit. `core`, `incoming`, `ingress` and `fifo` are
the places where a frame can wait. `origin` and `announced` are history: the
session that was bound when a frame was decoded, and what the event callback was
last told. A source event is terminal, streamable, or neither; the last kind only
makes older deferred events outdated. A frame-rate request of the Host is two critical sections: the streams
are read in the first (`RequestRate`), the operation is decided in the second. The
pump advances the operation once in each iteration: it closes what the request saw,
asks again until both legs are closed, and opens the replacements, with one rollback
(`ReconfigureClose` to `ReconfigureDone`). `straddled` is history: a request whose
two halves lie in different sessions.

**`Queues`** has what the containers of the code do to their elements: the operators of
`SequencesExt` that the components use, with the same names, and `Kept`, what a loop
that erases elements leaves. A module that extends it instead of `SequencesExt` keeps
the context of the proofs small.

`MC*.tla` give the constants their values for TLC. `*Proofs.tla` hold theorems.

## 3. What the runs check

| Run | Bounds | Shows |
|---|---|---|
| `host_leases` | 2 devices, 1 operation, 3 sessions, symmetric devices; an image of 3 bytes, chunks of 2 or of the 4 preferred, percentages of 5 bits in 20 turns | `FinishedImageIsComplete`, `ActivityIsCountedOnce`, `MaintenanceIsExclusive`, `OwnerIsTheMediaLease`, `PendingOperationIsReachable`, `MediaLeaseIsBound` |
| `control_operation` | 3 threads, 2 handlers, 2 cancel handlers | the refinement `KeepsItsPromise`; no waiter sleeps through the notification |
| `device_registry` | 2 adapters, 3 keys, 2 endpoints, 2 serial numbers | one adapter per endpoint, a sole claimant owns its endpoint, rows erased only by their successor |
| `lane_scheduler` | 3 requests, 2 lanes, 2 workers, queue of 2, one lane whose device may never answer | exclusive FIFO lanes; a blocked lane starves no other; stop returns and leaves nothing behind |
| `control_lanes` | 2 requests, 2 workers, 1 endpoint | requests that resolve alike at arrival and at dispatch never overlap |
| `adapter_session` | 1 asynchronous and 1 synchronous call, 2 sessions, 1 recovery | the pump has an open session, calls are sent in the order of acceptance, a destroyed leaf owes no result |
| `adapter_liveness` | 1 synchronous call, 2 sessions, 1 recovery | an open session serves its queue; a retirement ends unless a synchronous call waits in the leaf forever |
| `adapter_deadline` | as `adapter_liveness` | a counterexample, see section 6: such a call exists |
| `adapter_replacement` | 1 asynchronous call, 2 sessions, 1 recovery | a counterexample, see section 6 |
| `media_subscription` | 2 publishers, 2 cancellers, 3 publications, 2 generations, limit of 1 frame and 2 bytes, frames of 1 and 3 bytes | serialized callbacks, the fence of `cancel`, drop accounting, a well-formed history for the sink, every call returns |
| `media_pipeline` | 1 frame, 3 streams of each kind, 3 disturbances, or 1 with a released lease or with up to 2 requests, 2 frame rates | frames stay in their lease and follow their `Opened`; events describe the open streams; an ended source has no stream; no kind without a stream is forgotten; a frame-rate change closes before it opens, its report matches what the pump still does and what is streamed |
| `control_endpoint` | 2 threads, 2 handlers, 2 calls, 2 starts, 1 task and 1 event queued | a reset token is a fence; stop and reset leave no operation running; nothing accepted before a stop is handled after it; every call returns |

Why the bounds are enough to be interesting. Two devices are needed for a lease
of one to disturb the other, three sessions for an id to be reused after a
restart while an older one is released. Three threads make a completion, a
cancellation and a registration overlap. Three keys in two adapters give two
rows of one adapter fighting over an endpoint and a foreign claimant. Two workers
and three requests give a lane with one request running and one queued while a
second lane has work. Two physical sessions give a call queued for one session
and executed, cancelled or expired under the next. The liveness run needs a
synchronous call: only such a caller stays inside the leaf, where a retirement
waits for it. With an asynchronous call beside it and one physical session the two
properties held as well (2,131,258 states in 11 minutes, too long for a run); two
calls with two sessions were not exhausted. One failed probe starts a recovery in
every adapter run, so the count below the threshold is not exercised. In the subscription a frame
of 3 bytes exceeds the byte limit alone, two of 1 byte exceed the frame limit,
and two generations give a stream that is replaced while the sink still has the
old one. In the media pipeline a disturbance is a frame, a source event, a failed
open, a released lease or a replaced session. Three of them give a frame that waits
through a handover, and the end of a source, its return and a second end inside
the call that reopens it; several generations give an id that is used again. A
request needs three streams of a kind (before, replacement, rollback) and many steps
of the pump, so it takes the place of two disturbances (`HostCost`); the one that
is left is a failed close or open, a source event, a frame or a replaced session
at any point of the reconfiguration, and a second request meets the first one or what
it left. A released lease counts for two as well: it adds the steps of the handover
and touches only the binding and the frames, so it meets every one of the others but
no request. Two bytes of three give a full and a partial chunk, four more than the
image. 100 turns and 64 bits of `percent_of` are 20 and 5 here: the argument is the
same for each, and the recursion of 100 turns exceeds TLC's stack. In the endpoint
two threads give a reset and a stop that meet, and a stop that waits for a stop; two
starts give a stop between them; two calls give an operation of an earlier call and
one that is just being returned.

`CHECK_DEADLOCK FALSE` is used where the system may stop: an operation that has
its result, a leaf that is destroyed, publications that have reached the bound, an
endpoint that is stopped for the last time.

### Fairness

* `ControlOperation`: a thread that has taken handlers runs them, and one that
  waits is scheduled after a notification. Nobody has to complete or cancel.
* `ControlEndpoint`: the worker runs and a call that has begun goes on; handlers
  and tasks return, as the worker cannot be stopped inside one. Nobody has to start,
  stop, reset or end an operation.
* `LaneScheduler`: workers run; a device answers unless its lane is in `Blocked`.
* `AdapterSession`: threads go on with what they have begun, because every call
  on the wire has a timeout. Strong fairness for an opener stands for a mutex
  that the recovery worker releases between two attempts.
* `MediaPipeline`: none. Its properties are safety properties; `NoKindIsForgotten`
  says that somebody is responsible for a kind, not that the open succeeds.
* `MediaStreamSubscription`: as long as some thread can go on with its call, some
  thread does. This is weaker than fairness for each thread and enough, since
  nothing inside a call repeats without end.

## 4. What is proved

TLAPS proves these for all constants that satisfy the named assumptions of the
modules, with no bound on devices, operations, threads, keys, endpoints, calls or
requests. Every inductive invariant was first checked by TLC on the instance of the
component's run.

`HostLeasesProofs`: `TypeCorrect`, `ActivityCounted`, `OwnerIsUnique`,
`MaintenanceExclusive`. They rest on the inductive invariant `LeaseInvariant`.
`ActivityIsCountedOnce` alone is not inductive: a step of acquire or release is
only right if the session id it commits is fresh, if a reservation belongs to the
call in progress and if the registry entry of a device under maintenance is
empty, so these are part of the invariant. The assumption that `Devices` is
finite is needed because counts are cardinalities. Two more invariants are
inductive relative to it. `OperationsAreReachable` adds what the call in progress
has taken from the index and what it will still register (`OperationsInv`).
`MediaLeasesAreBound` adds, for each point between the binding of the adapter and
the commit or the release of a lease, which session the adapter is bound to
(`BindingInv`).

`DeviceRegistryProofs`: `RegistryInvariant` is inductive also in the middle of a
reconciliation, and gives `TypeCorrect`, `OneAdapterOwnsEndpoint`,
`SoleClaimantOwns`, `AcceptedStored`; the action properties `BindingsNeverChange`
and `ErasedOnlyBySuccessor` follow from it. What makes it inductive is the
relation between the plans still to apply and the rows already written: an
accepted plan whose endpoint another row holds names that row as its predecessor.

The second half of `HostLeasesProofs` is about `FirmwareUpdate`.
`FirmwareImplementsHost` shows `FirmwareSpec => Spec` for the specification of `HostLeases`: a step of the service is the acquisition or the
release of maintenance, or leaves the Host alone. `UpdateIsExclusive` is then the
Host's `MaintenanceExclusive` in the presence of updates. `ImageComplete` proves
`FinishedImageIsComplete` for every image size and every chunk size the device may
answer. The inductive invariant `UpdateInv` says that an update holds the one
maintenance grant of its device, and that the device has received exactly the bytes
up to the position of the loop, or the whole image once the position has passed its
end (the last chunk may be shorter than the step of the loop). That no step of the
Host touches the grants of an update (`HostStepKeepsGrants`) is what makes it
inductive.

`LaneSchedulerProofs`: `LanesAreExclusive`, `LanesAreFifo`, `StopIsComplete` from
`LaneInvariant`. Exclusion needs that the lane of every busy worker is active, as a
worker takes only from a lane that is not. FIFO order needs that the queue is in the
order of acceptance, which erasing from the middle keeps (`RemoveAtProperties`), and
that `find_if` gives the first request of its lane (`FirstIsLeast`).

`ControlOperationProofs`: `OperationKeepsItsPromise` is the refinement of
`OperationPromise` without its fairness, step by step: each critical section, each
handler call is a step of the promise or a stutter. The mapping of `owed` is only
right because a cancel handler is copied by one thread and a completion handler is
either stored or in the list of one thread (`OperationInvariant`).

`ControlEndpointProofs`: `ResetIsAFence`, `NoOperationIsLeft`, `StopDropsTheQueues`
from `EndpointInvariant`: one start or stop is under way at a time, a handler that is
being called is registered, a slot that is reset is inactive and no longer called
when its operations are cancelled, and an inactive slot lists operations only until
the reset that deactivated it collects them.

`AdapterSessionProofs`: `PumpHasItsSession`, `CallsAreSentInOrder`, `NoResultIsOwed`
from `LeafInvariant`. `SessionOK` says who holds `session_mutex_` at which point of
an open, a recovery or a retirement. `ResultOK` says that a call without a result is
queued or in flight, that the pump forgets the call in flight only with its result,
and that a leaf that is being destroyed accepts none and, from the drain of its queue
on, owes none. Calls are refused in an earlier critical section than the drain, so
until then a queued call may be without a result; that nothing enters the queue in
between is what makes the drain final. `OrderOK`
relates the queue, the call in flight and what was sent to the order of acceptance;
each way of changing one of them has a lemma (`OrderAccept`, `OrderPart`, `OrderTake`,
`OrderSend`).
A drained or expired queue is `Kept(queue, calls)`, defined by counting instead of
the recursive `SelectSeq`, about which the prover knows nothing; `KeptProperties`
shows that it is the queue without the other calls, in the same order.

`MediaStreamSubscriptionProofs`: `CallbacksAreSerial` and `CancelIsAFence` from
`SubscriptionInvariant`. A canceller may leave the queue only when
`terminal_delivered_` is set, which needs that `SubscriptionClosed` is the last item
of the queue, or in its callback, from the first `cancel()` on, that it alone carries
a completion, and that a canceller that does not own the items finds none that
belongs to somebody else (`TerminalOK`). Nothing is needed of the queue before that,
so the limits and the drop policy do not enter the proof. When a sink cancels inside
its callback `terminal_delivered_` is set while the callback runs; later cancellers
then wait until nobody delivers (`CancelOK`).

`MediaPipelineProofs`: `PipelineKeepsLeases`, `EndedSourcesAreClosed`, `ReportsMatch`
and `ReplacementsWait` from `PipelineInvariant`. The pump is a stack of activations
that call each other, so each property has to say what an activation that is
suspended below the top relies on. First the stack: every step either begins a new
one or replaces the top by some fresh activations (`Rebuilt`, `StackStep`), the bottom
is the loop or a call of it, and an `openStream` is the top or has only a commit above
it (`OpensOK`). With that one lemma for all steps, `StackKept` says of an activation
after a step that it was there before, or is fresh.

* `LeaseOK`: whatever waits between the core and the Host carries a binding token that
  is not in the future, and the session of the binding if the token is the present one.
  A frame that is accepted has the present token (`is_current_media_frame`).
* `EndedOK`: a kind that has ended has no stream, nor has one whose end was reported
  by an id that is not known yet, nor one that is being opened and has ended meanwhile.
* `OperationOK`: a step of `advance_video_reconfigure` on the stack means that the
  operation is pending, and an `openStream` for video means that it is, or that video
  is not withheld. A session that is replaced drops the operation when only the loop of
  the pump is left on the stack.
* `ClosedOK`: generations only grow, so a stream of the request that was seen closed
  stays closed, and the part of `advance_video_reconfigure` that opens the replacement
  is reached only when all of them were seen closed.

What `Kept` returns is needed only for its type (`KeptIsSeq`), at the end of the module.

The assumptions are that the sets of threads are disjoint and contain none of the
constants that stand for nobody, that counters and limits are natural numbers, and
that sets that are counted are finite.

Only model-checked:

* all liveness properties, `Delivery` of `OperationPromise` among them: fairness is
  out of the prover's reach;
* `PercentAssumption`, `QueueWithinLimits`, `DropsAreReported`: what a recursive
  function, a loop that drops frames or a sum over the queue computes needs an
  induction over data that the prover cannot instantiate;
* `SinkSeesWellFormedStreams`, for the same reason: it depends on what the drop
  policy leaves of the queue;
* `FrameFollowsItsOpened` and `EventsLeadToTheOpenStream` of `MediaPipeline`: they read
  the queue as a history, and what a filtered queue still contains, in which order, is
  again an induction over the queue (`KeptIsSeq` gives its type only);
* `NoKindIsForgotten` and `ReportedRateIsStreamed`: they hold for the whole stack at once,
  not for each activation by itself, so they need an invariant that follows a kind, or a
  rate, from one activation to the next through every return; that
  invariant has not been worked out;
* `ResolvedAliasesShareTheLane`, which needs an invariant of `ControlLanes` on top of
  `LaneInvariant`; it has not been worked out either.

## 5. What is abstracted

Payloads, JSON, wording and logging. The status of a result is kept only where
the control depends on it. Physical sessions, generations, publications and
requests are bounded, and the constants that bound them say so. In
`AdapterSession` the choice of the health probe is its outcome. In
`MediaStreamSubscription` a sink does not publish from a callback, because the
Host refuses it, and the older frame-only subscription is left out.

In `MediaPipeline` the device has one stream id for each kind and uses it again.
Deadlines of retries are a choice. The capabilities call and `openStream` are one
call that fails in one of three ways; codec selection and fallback are inside it.
Both sources are configured, events are valid and name the configured source. A
control lease keeps the device open when the media lease is released. The device
supports a frame-rate change while it streams and both rates that are asked for. The
dispatcher's wake-up is not modelled.

Some pairs of critical sections of the pump are one step there. They are pairs
between which no other thread does anything that a property tells apart:

* The end of a source tests for a pending reconfiguration
  (`axtp_adapter.cpp:2768`) and reports Idle later (`:2912`). A request accepted in
  between is reported as Idle until the pump has closed both streams, when it reports
  Pending again (`ReportAdvance`); `ReportMatchesTheOperation` is about the reports Pending,
  Applied and RolledBack.
* An open that is not part of a reconfiguration tests `suppress_video_auto_open` and
  the operation (`:4777`) and copies the session's rate after it (`:4846`), with no
  call to the device between the two. A request accepted there makes it open at the
  new rate; the reconfiguration then opens the replacement in any case, and reports
  what that one did.
* A commit puts back what it retained (`:5604`) and then pushes the batch to the
  dispatcher (`:5615`). The pump is the only one to commit, and the two queues share
  no frame; a handover between the two finds the frames of the batch fenced by their
  token.
* A stream is entered in the table and its event queued: frames of the new generation
  cannot be in the queue before, and those of the old one are refused either way.

In `FirmwareUpdate` a run that fails before it has the lease changes nothing and is
left out, as are result codes and progress notices. In `ControlEndpoint` a request
that reaches no active handler changes nothing; what the broker and the transport do
with requests and answers is outside, and the one failure of `start` before
`running` stands for all of them. The test of `running` before the mutex in `post`
and `publish_event` is left out, because only the second one decides. A slot holds its
operations by weak pointers, so one that everybody else has let go of is dropped
without a cancellation; the model has it end first (`Complete`), as nobody is left who
could observe the difference.

## 6. Where code and documents disagree

* `adapter_replacement`. The recovery worker tests the generation before it waits
  for `session_mutex_`. A reset that passes in between returns the identity, and
  the worker then opens the device on the leaf that is being retired, against the
  comment at `axtp_adapter.cpp:943`.
* `adapter_deadline`. A call that is queued when no pump is left is expired by
  nobody, so that its deadline bounds nothing (`control_operation.hpp:14`). The
  comment at `axtp_adapter.cpp:1546` rules this out for an enqueue that races a
  teardown. A recovery advances the generation long before its last drain: a call
  stamped in between and queued after that drain passes the test, and when the media
  lease has been released meanwhile the worker opens no new session. A synchronous
  caller then waits in `ControlOperation::wait` inside the leaf. The retirement of the
  device waits for that caller in turn and does not end, which is why
  `RetirementEnds` has a hypothesis; without it TLC finds this behaviour.

Met while modelling and not a run:

* The lane of a request is fixed when it arrives, and only an online device gives
  the physical lane (`websocket_server.cpp:127`). A device that comes online between
  the arrivals of an endpoint request and a legacy request is then called from two
  lanes at once, which `docs/architecture/MULTI_DEVICE_CONTROL.md:162` and
  `broker.hpp:26` exclude. `ResolvedAliasesShareTheLane` is what does hold.
* `MULTI_DEVICE_CONTROL.md:107` says that a duplicate binding is rejected;
  `device_manager.cpp:249` lets two devices of one adapter share an endpoint, which
  the route then reports as ambiguous.
* A rollback whose audio open fails ends as Failed with the video stream open
  (`axtp_adapter.cpp:4649`), although `active_stream_id` is reset and
  `tests/axtp_real_adapter_test.cpp:2896` expects no active video stream after a
  failed rollback.
* A reconfiguration that fails without a preserved stream leaves
  `suppress_video_auto_open` set (`axtp_adapter.cpp:4355`): the video stream is not
  opened by any retry, and a request for the previous rate answers Unchanged without
  opening it. A request for another rate does open it.
* A rollback whose close fails keeps the stream of the new rate while the session
  rate is the old one; the report is then Failed, which is why
  `ReportedRateIsStreamed` is about reported successes.
* A request whose second half runs after the parameters were cleared for a new
  session and before they are initialised (`axtp_adapter.cpp:2291`, `:4118`) leaves an
  operation that the pump carries out while the state says Idle. `straddled` excludes
  this case from `ReportedRateIsStreamed`.
* Source-state events are dropped, not deferred, while a reconfiguration is pending
  (`axtp_adapter.cpp:2767`).
* A second `stop()` of the control endpoint that waits for the first one returns
  `invalid_state` when the endpoint was started again before it woke
  (`axtp_control_endpoint.cpp:631`). Tasks posted between `running` and a failed
  creation of the thread stay queued for the next start (`:606`). An exception while
  one event is sent drops the rest of the batch (`:736`).

Met while reading the media code, by inspection and not shown by a run:

* `axtp_adapter.cpp:2963` wants a waiting source that becomes streamable to retry at
  once. `video_source_waiting_` and `audio_source_waiting_` are never set, so the
  event is dropped until the fallback of 15 seconds.
* `axtp_adapter.cpp:3047` drains late events before it reopens, so that an old one
  cannot close the new stream. An event that the outer loop had already taken is
  not in the queue that is drained.
* The paired close at `axtp_adapter.cpp:3037` is sent for every captured id, also for
  one that has been reopened under a newer generation.
* Only deferred events are compared with the latest order before they are applied
  (`axtp_adapter.cpp:2728`); an older streamable event can reset a newer terminal
  latch. The test at `axtp_adapter.cpp:3086` can no longer hold where it stands.

## 7. Not modelled

* The composition of `MediaPipeline` and `MediaStreamSubscription`. It would show
  two subscriptions that join at different times and the order in which the Host
  fans events out; each of the two has millions of states on the smallest instance
  that is interesting, and their product is out of TLC's reach.
* The table of leaf contexts around `AdapterSession`, with its replaceable
  callbacks, and the choice of the health probe.
* The HID transport: one reader that appends to a queue under one mutex, two flags
  and a join in `close`. Report framing, device paths and counters are the rest of it.
  The TCP and WebSocket transports are polled by their caller.
* The frame-only subscription of the Host and the media relay, which repeat the
  queue and the drop policy of `MediaStreamSubscription` without its lifecycle.
* The command line tools, the daemon, the codecs, JSON, configuration, logging and
  MD5: sequential code and I/O without state that a step of another thread could see.

Open for proofs: `NoKindIsForgotten` and `ReportedRateIsStreamed` from
`PipelineInvariant`, and `ResolvedAliasesShareTheLane` from `LaneInvariant`.
