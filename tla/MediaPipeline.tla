---------------------------- MODULE MediaPipeline ----------------------------
(***************************************************************************)
(* The media path of one leaf of the AXTP adapter                          *)
(* (src/src/adapters/axtp_adapter.cpp): from the frames and source-state   *)
(* events the AXTP client decodes to the Host that is given them.          *)
(*                                                                         *)
(* The pump thread polls the client, reconciles source-state events, opens *)
(* and closes streams and commits staged frames.  It polls again inside    *)
(* every call to the device, so its progress is a stack of activations.    *)
(* The dispatcher thread empties the FIFO of events and frames.  A Host    *)
(* thread hands the device from one media session to the next.             *)
(*                                                                         *)
(* The device has one stream id for each kind and uses it again after a    *)
(* close, as the code says it may.  Retry deadlines are a choice.  The     *)
(* owner of the media lease may ask for another frame rate, which the pump *)
(* brings about by closing and opening both streams.                       *)
(***************************************************************************)
EXTENDS Naturals, Sequences, Queues

CONSTANTS
    MaxFrames,      \* bound: frames the device sends
    MaxOpens,       \* bound: streams opened of each kind
    MaxDisturbances,\* bound: frames, source-state events, failed opens and closes, released
                    \*        leases and replaced sessions, together
    MaxRequests,    \* bound: requests for a frame rate
    HostCost        \* bound: the disturbances that a released lease and a request count for

ASSUME ConstantsAssumption ==
    {MaxFrames, MaxOpens, MaxDisturbances, MaxRequests, HostCost} \subseteq Nat

Kinds == {"video", "audio"}
Other(k) == IF k = "video" THEN "audio" ELSE "video"
InOrder(kinds) ==
    (IF "video" \in kinds THEN <<"video">> ELSE <<>>)
        \o (IF "audio" \in kinds THEN <<"audio">> ELSE <<>>)

VARIABLES
    core,         \* frames decoded by the AXTP client, each with its ingress token
    incoming,     \* the frame handle_stream_payload is staging
    ingress,      \* pending_media_ingress_frames_
    fifo,         \* pending_media_dispatch_items_
    active,       \* active_media_streams_: the generation of the open stream, or 0
    gens,         \* media_stream_generations_
    tracked,      \* kinds with a stream id in diagnostics_
    terminal,     \* video_source_terminal_, audio_source_terminal_
    recovering,   \* video_source_recovery_pending_, audio_source_recovery_pending_
    rejected,     \* diagnostics_.video_retry.terminal, audio_retry.terminal
    cycle,        \* the paired source recovery
    pending,      \* pending_media_source_state_events_
    deferred,     \* deferred_media_source_state_events_
    order,        \* next_media_source_state_order_
    latest,       \* latest_video_source_state_order_, latest_audio_...
    candidate,    \* pending_video_open_terminal_orders_, pending_audio_...
    orphans,      \* pending_orphan_stream_closes_
    stack,        \* what the pump is doing
    item, dispatcher,      \* the dispatcher's item and progress
    announced,    \* the generation the event callback was told is open (history)
    bound, epoch, \* media_delivery_sessions_ and media_binding_epoch_
    owner, host,  \* media_owner_session_by_device and the Host's progress
    request,      \* the frame-rate request the Host is making, with the streams it saw
    operation,    \* video_reconfigure
    rate,         \* session_video_frame_rate; 0 is the default of the source
    streamed,     \* the frame rate of the video stream that was opened last
    withheld,     \* suppress_video_auto_open
    configured,   \* kinds with active_video_open_params, active_audio_open_params
    report,       \* video_params_state.state
    straddled,    \* a request was accepted while a session was being replaced (history)
    sent          \* how much of each bound is used

streams == <<active, gens, tracked>>
flags == <<terminal, recovering, rejected>>
sources == <<pending, deferred, order, latest, candidate>>
frames == <<core, incoming, ingress>>
dispatch == <<item, dispatcher, announced>>
lease == <<bound, epoch, owner, host>>
settings == <<request, operation, rate, streamed, withheld, configured, straddled>>
params == <<settings, report>>
media == <<streams, flags, cycle, sources, orphans, params>>
vars == <<frames, fifo, media, stack, dispatch, lease, sent>>

\* An entry of the FIFO; token and origin are those of a frame.  origin is the
\* session that was bound when the client decoded the frame (history).
Entry(type, kind, gen) ==
    [type |-> type, kind |-> kind, gen |-> gen, session |-> 0, token |-> 0, origin |-> 0,
     known |-> TRUE]
NoEntry == Entry("none", "none", 0)
IsFrame(entry) == entry.type = "Frame"

NoCycle == [on |-> FALSE, sent |-> FALSE, reopen |-> {}, close |-> [k \in Kinds |-> 0]]

\* A source-state event: state says whether is_terminal_source_state or
\* is_streamable_source_state hold of it, exact that it names the stream id, and
\* late is deferred_client_action.
SourceStates == {"terminal", "streamable", "other"}
NoEvent == [kind |-> "none", state |-> "other", exact |-> FALSE, order |-> 0, late |-> FALSE]

\* An activation of the pump: the loop, a call that waits for the device, or
\* one of the functions that make such calls
Activation(op, at, todo) ==
    [op |-> op, at |-> at, todo |-> todo, events |-> <<>>, event |-> NoEvent, closed |-> {},
     first |-> FALSE, arg |-> 0]

\* VideoReconfigureOperation: the streams to close, by generation, and the kinds
\* that have closed
NoOperation ==
    [on |-> FALSE, requested |-> 0, previous |-> 0, streams |-> [k \in Kinds |-> 0],
     configured |-> {}, closed |-> {}, opened |-> FALSE, rollback |-> FALSE]

NoRequest == [rate |-> 0, streams |-> NoOperation.streams]
Rates == {0, 1}

Loop(at, todo) == Activation("loop", at, todo)
Call == Activation("call", "waiting", <<>>)
Process == Activation("process", "", <<>>)
Commit == Activation("commit", "take", <<>>)
CommitStaged == IF pending # <<>> \/ ingress = <<>> THEN <<>> ELSE <<Commit>>

\* configure_media_stream_kind: a kind whose source has ended is not opened.
\* Otherwise the capabilities and openStream calls begin at a frame rate that is
\* chosen now, and with them the lifecycle transition.
OpenAt(k, frameRate) ==
    IF k \in terminal THEN <<>>
    ELSE <<[Activation("open", "waiting", <<k>>) EXCEPT !.arg = frameRate]>>

\* Only a pending reconfiguration opens while there is one, or opens a video
\* stream that is withheld.
Open(k) ==
    IF operation.on \/ (k = "video" /\ withheld) THEN <<>> ELSE OpenAt(k, rate)

Top == stack[Len(stack)]
Below == Front(stack)
Goto(activation) == stack' = Append(Below, activation)
Return == stack' = Below
At(op, at) == Top.op = op /\ Top.at = at /\ incoming = NoEntry

\* The pump is inside AxtpClient::poll(), or in a call that polls.
Polling ==
    \/ At("loop", "poll") \/ At("call", "waiting") \/ At("open", "waiting")
    \/ At("reconfigure", "waiting")

\* The steps that MaxDisturbances bounds.  A second request may exceed it, and is
\* the last of them then.
Disturbances == sent.disturbances + HostCost * sent.requests
MayDisturb == Disturbances < MaxDisturbances
DisturbBy(n) ==
    Disturbances + n <= MaxDisturbances /\ sent' = [sent EXCEPT !.disturbances = @ + n]
Disturb == DisturbBy(1)

\* The kinds whose lifecycle_transition_depth_ is not zero
Opening == {Head(a.todo) : a \in {b \in ToSet(stack) : b.op = "open"}}

Init ==
    /\ core = <<>> /\ incoming = NoEntry /\ ingress = <<>> /\ fifo = <<>>
    /\ active = [k \in Kinds |-> 0] /\ gens = [k \in Kinds |-> 0] /\ tracked = {}
    /\ terminal = {} /\ recovering = {} /\ rejected = {}
    /\ cycle = NoCycle
    /\ pending = <<>> /\ deferred = <<>> /\ order = 0
    /\ latest = [k \in Kinds |-> 0] /\ candidate = [k \in Kinds |-> 0]
    /\ orphans = <<>>
    /\ stack = <<Loop("configure", <<>>)>>
    /\ item = NoEntry /\ dispatcher = "idle" /\ announced = [k \in Kinds |-> 0]
    /\ bound = 1 /\ epoch = 1 /\ owner = 1 /\ host = "idle"
    /\ request = NoRequest /\ operation = NoOperation /\ rate = 0 /\ streamed = 0
    /\ withheld = FALSE /\ configured = {} /\ report = "Idle" /\ straddled = FALSE
    /\ sent = [frames |-> 0, disturbances |-> 0, requests |-> 0]

-----------------------------------------------------------------------------
(* What the client decodes while it polls *)

\* setIngressTokenProvider: a decoded frame carries the epoch of the binding,
\* or 0 when the device is not bound.
Decode(k) ==
    /\ Polling /\ sent.frames < MaxFrames /\ MayDisturb
    /\ sent' = [sent EXCEPT !.frames = @ + 1, !.disturbances = @ + 1]
    /\ core' = Append(core, [Entry("Frame", k, 0) EXCEPT
                               !.token = IF bound = 0 THEN 0 ELSE epoch, !.origin = bound])
    /\ UNCHANGED <<incoming, ingress, fifo, media, stack, dispatch, lease>>

\* frame_from_stream: the session, and the generation that is open or was
\* open last.  The kind is known unless the stream has been closed.
StreamPayload ==
    /\ Polling /\ core # <<>>
    /\ \E f \in {Head(core)} :
           incoming' = [f EXCEPT !.session = bound, !.gen = gens[f.kind],
                                 !.known = active[f.kind] # 0 \/ gens[f.kind] = 0]
    /\ core' = Tail(core)
    /\ UNCHANGED <<ingress, fifo, media, stack, dispatch, lease, sent>>

\* handle_stream_payload, the second critical section
StageFrame ==
    /\ incoming # NoEntry
    /\ ingress' = Append(ingress, incoming) /\ incoming' = NoEntry
    /\ UNCHANGED <<core, fifo, media, stack, dispatch, lease, sent>>

\* enqueue_media_source_state_event: an event that names a stream which is not
\* open does not count as the latest of its kind.
SourceEvent(k, state, exact) ==
    /\ Polling /\ Disturb
    /\ order' = order + 1
    /\ latest' = IF exact /\ active[k] = 0 THEN latest
                 ELSE [latest EXCEPT ![k] = order + 1]
    /\ pending' = Append(pending, [kind |-> k, state |-> state, exact |-> exact,
                                   order |-> order + 1, late |-> FALSE])
    /\ UNCHANGED <<frames, fifo, streams, flags, cycle, deferred, candidate, orphans,
                   params, stack, dispatch, lease>>

-----------------------------------------------------------------------------
(* Source-state events *)

IsLatest(e) == e.order = latest[e.kind]

\* Mutant: the second leg is closed without an event.
MutantClosedEvents(kinds) ==
    LET ks == InOrder(kinds) IN
    IF ks = <<>> THEN <<>> ELSE <<Entry("Closed", ks[1], active[ks[1]])>>

ClosedEvents(kinds) ==
    LET ks == InOrder(kinds) IN [i \in 1..Len(ks) |-> Entry("Closed", ks[i], active[ks[i]])]

\* The first terminal video event starts a paired recovery.  It captures the
\* streams that are open, the one that has just closed included.
Capture(c) ==
    LET captured == {k \in Kinds : active[k] # 0 /\ c.close[k] = 0} IN
    IF c.sent \/ (~c.on /\ \A k \in Kinds : active[k] = 0) THEN c
    ELSE [c EXCEPT !.on = TRUE, !.reopen = (IF c.on THEN @ ELSE {}) \cup captured,
                   !.close = [k \in Kinds |-> IF k \in captured THEN active[k] ELSE @[k]]]

\* Mutant: the end of a source is recorded and its stream stays open.
MutantTerminalEvent(e) ==
    /\ terminal' = terminal \cup {e.kind}
    /\ UNCHANGED <<streams, recovering, rejected, cycle, fifo, candidate, report>>

\* process_media_source_state_event for a terminal state.  No event counts while
\* a reconfiguration is pending.  A stream id that is not open is ignored, unless
\* an openStream in flight may be about to return it.
TerminalEvent(e) ==
    LET k == e.kind IN
    IF operation.on THEN UNCHANGED <<streams, flags, cycle, fifo, candidate, report>>
    ELSE IF e.exact /\ active[k] = 0
    THEN /\ candidate' = IF k \in Opening THEN [candidate EXCEPT ![k] = e.order]
                         ELSE candidate
         /\ UNCHANGED <<streams, flags, cycle, fifo, report>>
    ELSE /\ fifo' = fifo \o ClosedEvents({k} \cap {j \in Kinds : active[j] # 0})
         /\ tracked' = IF active[k] # 0 THEN tracked \ {k} ELSE tracked
         /\ active' = [active EXCEPT ![k] = 0]
         /\ cycle' = IF k = "video" THEN Capture(cycle) ELSE cycle
         /\ terminal' = terminal \cup {k} /\ recovering' = recovering \ {k}
         /\ report' = IF k = "video" THEN "Idle" ELSE report
         /\ UNCHANGED <<gens, rejected, candidate>>

\* publish_runtime_progress, called after each poll inside a call: terminal
\* events take effect, streamable ones wait until no call is in flight.  Of the
\* others only the order counts.
ProgressEvent ==
    /\ Polling /\ Top.op # "loop" /\ pending # <<>>
    /\ \E e \in {Head(pending)} :
           IF e.state = "terminal" THEN TerminalEvent(e) /\ UNCHANGED deferred
           ELSE /\ deferred' = IF e.state = "other" THEN deferred
                               ELSE Append(deferred, [e EXCEPT !.late = TRUE])
                /\ UNCHANGED <<fifo, streams, flags, cycle, candidate, report>>
    /\ pending' = Tail(pending)
    /\ UNCHANGED <<frames, order, latest, orphans, settings, stack, dispatch, lease, sent>>

ProgressCommit ==
    /\ Polling /\ Top.op # "loop" /\ pending = <<>> /\ ingress # <<>>
    /\ stack' = Append(stack, Commit)
    /\ UNCHANGED <<frames, fifo, media, dispatch, lease, sent>>

\* process_pending_media_source_state_events outside a call: takes the deferred
\* events and then the pending ones, until there are none.
ProcessTake ==
    /\ At("process", "") /\ Top.events = <<>>
    /\ IF deferred \o pending = <<>> THEN Return
       ELSE Goto([Top EXCEPT !.events = deferred \o pending])
    /\ deferred' = <<>> /\ pending' = <<>>
    /\ UNCHANGED <<frames, fifo, streams, flags, cycle, order, latest, candidate, orphans,
                   params, dispatch, lease, sent>>

ProcessTerminal ==
    /\ At("process", "") /\ Top.events # <<>>
    /\ Head(Top.events).state = "terminal"
    /\ TerminalEvent(Head(Top.events))
    /\ Goto([Top EXCEPT !.events = Tail(@)])
    /\ UNCHANGED <<frames, pending, deferred, order, latest, orphans, settings, dispatch,
                   lease, sent>>

\* A state that is not streamable, a deferred event that is no longer the latest, a kind that the device has
\* rejected, a kind whose retry is not due and, while a reconfiguration is
\* pending, every kind are left alone.
ProcessIgnored ==
    /\ At("process", "") /\ Top.events # <<>>
    /\ LET e == Head(Top.events) IN
           /\ e.state # "terminal"
           /\ \/ e.state = "other" \/ operation.on \/ (e.late /\ ~IsLatest(e))
              \/ e.kind \in rejected \/ e.kind \in recovering
    /\ Goto([Top EXCEPT !.events = Tail(@)])
    /\ UNCHANGED <<frames, fifo, media, dispatch, lease, sent>>

\* A streamable state ends the terminal latch.  The first one for video after a
\* terminal one resets both legs: the captured streams are closed here, and the
\* device is told so by calls.
ProcessStreamable ==
    /\ At("process", "") /\ Top.events # <<>>
    /\ \E e \in {Head(Top.events)} :
       \E closed \in {IF e.kind = "video" /\ cycle.on /\ ~cycle.sent
                       THEN {k \in Kinds : cycle.close[k] # 0} ELSE {}} :
       \E erased \in {{k \in closed : active[k] = cycle.close[k]}} :
          /\ ~operation.on /\ e.state = "streamable"
          /\ (e.late => IsLatest(e)) /\ e.kind \notin rejected
          /\ terminal' = terminal \ {e.kind} /\ recovering' = recovering \ {e.kind}
          /\ cycle' = IF e.kind = "video" /\ cycle.on /\ ~cycle.sent
                      THEN [cycle EXCEPT !.sent = TRUE, !.close = NoCycle.close] ELSE cycle
          /\ active' = [k \in Kinds |-> IF k \in erased THEN 0 ELSE active[k]]
          /\ tracked' = IF closed # {} /\ \A k \in Kinds \ erased : active[k] = 0 THEN {}
                        ELSE tracked
          /\ fifo' = fifo \o ClosedEvents(erased)
          /\ stack' = Below \o <<[Top EXCEPT !.events = Tail(@)],
                      [Activation("source", IF closed = {} THEN "decide" ELSE "closing",
                                  InOrder(closed)) EXCEPT !.event = e, !.closed = closed]>>
    /\ UNCHANGED <<frames, gens, rejected, sources, orphans, params, dispatch, lease, sent>>

-----------------------------------------------------------------------------
(* The rest of process_media_source_state_event for a streamable state *)

\* One closeStream for each captured stream, then the events they brought
SourceClosing ==
    /\ At("source", "closing")
    /\ stack' = Below \o (IF Top.todo = <<>> THEN <<[Top EXCEPT !.at = "drained"], Process>>
                          ELSE <<[Top EXCEPT !.todo = Tail(@)], Call>>)
    /\ UNCHANGED <<frames, fifo, media, dispatch, lease, sent>>

\* The event is dropped when the drain found a later one.
SourceDrained ==
    /\ At("source", "drained")
    /\ IF IsLatest(Top.event) THEN Goto([Top EXCEPT !.at = "decide"]) ELSE Return
    /\ UNCHANGED <<frames, fifo, media, dispatch, lease, sent>>

SourceIsActive ==
    /\ At("source", "decide") /\ active[Top.event.kind] # 0
    /\ recovering' = recovering \ {Top.event.kind}
    /\ Return
    /\ UNCHANGED <<frames, fifo, streams, terminal, rejected, cycle, sources, orphans,
                   params, dispatch, lease, sent>>

\* The test of the retry deadline that follows in the code never holds here: the
\* recovery was reset above, and an event that renews it also is the latest.
SourceOpen ==
    /\ At("source", "decide") /\ active[Top.event.kind] = 0
    /\ stack' = IF IsLatest(Top.event)
                THEN Append(Below, [Top EXCEPT !.at = "opened"]) \o Open(Top.event.kind)
                ELSE IF Top.closed = {} THEN Below
                ELSE Append(Below, [Top EXCEPT !.at = "opened"])
    /\ UNCHANGED <<frames, fifo, media, dispatch, lease, sent>>

\* configure_media_stream_kind returned true iff the kind is active now: it was
\* not before, and nothing has polled since.  After a paired close the other
\* kind is opened as well, unless its source has ended.
SourceOpened ==
    /\ At("source", "opened")
    /\ \E k \in {Top.event.kind} :
          IF Other(k) \in Top.closed \ terminal /\ active[Other(k)] = 0
          THEN /\ stack' = Append(Below, [Top EXCEPT !.at = "paired", !.first = active[k] # 0])
                           \o Open(Other(k))
               /\ UNCHANGED recovering
          ELSE /\ recovering' = IF active[k] = 0 THEN recovering \cup {k} ELSE recovering
               /\ Return
    /\ UNCHANGED <<frames, fifo, streams, terminal, rejected, cycle, sources, orphans,
                   params, dispatch, lease, sent>>

SourcePaired ==
    /\ At("source", "paired")
    /\ recovering' = recovering \cup (IF Top.first THEN {} ELSE {Top.event.kind})
                       \cup {k \in {Other(Top.event.kind)} : active[k] = 0}
    /\ Return
    /\ UNCHANGED <<frames, fifo, streams, terminal, rejected, cycle, sources, orphans,
                   params, dispatch, lease, sent>>

-----------------------------------------------------------------------------
(* configure_media_stream_kind and the other calls to the device *)

\* LifecycleTransitionGuard: the candidates are forgotten and, with the fence
\* lifted, the staged frames are committed.
EndTransition(k) ==
    /\ candidate' = [candidate EXCEPT ![k] = 0]
    /\ stack' = Below \o CommitStaged

\* The device rejects the method, its source is waiting, or the failure is
\* transient, which the capabilities call or openStream may tell.
OpenFailures == {"terminal", "waiting", "transient"}

\* mark_retry_failure
MarkRetryFailure(k, failure) ==
    /\ terminal' = IF failure = "terminal" THEN terminal \cup {k} ELSE terminal
    /\ rejected' = IF failure = "terminal" THEN rejected \cup {k} ELSE rejected \ {k}
    /\ recovering' = IF failure = "waiting" THEN recovering \cup {k} ELSE recovering \ {k}

OpenFails ==
    /\ At("open", "waiting")
    /\ \E k \in {Head(Top.todo)}, failure \in OpenFailures :
          /\ \/ Disturb
             \/ gens[k] = MaxOpens /\ failure = "transient" /\ UNCHANGED sent
          /\ MarkRetryFailure(k, failure)
          /\ EndTransition(k)
    /\ UNCHANGED <<frames, fifo, streams, cycle, pending, deferred, order, latest, orphans,
                   params, dispatch, lease>>

\* The source ended while the call was in flight: by an event that took effect,
\* or by one that named the id which the response has brought.
OpenIsOrphan ==
    /\ At("open", "waiting")
    /\ \E k \in {Head(Top.todo)} :
          /\ k \in terminal \/ candidate[k] # 0
          /\ latest' = [latest EXCEPT ![k] = IF candidate[k] > @ THEN candidate[k] ELSE @]
          /\ terminal' = terminal \cup {k}
          /\ orphans' = Append(orphans, k)
          /\ EndTransition(k)
    /\ UNCHANGED <<frames, fifo, streams, recovering, rejected, cycle, pending, deferred,
                   order, params, dispatch, lease, sent>>

\* The stream gets the next generation of its id.  A stream with that id which
\* is still open is replaced.  The last leg to reopen ends the paired recovery.
OpenSucceeds ==
    /\ At("open", "waiting")
    /\ \E k \in {Head(Top.todo)} :
          /\ k \notin terminal /\ candidate[k] = 0 /\ gens[k] < MaxOpens
          /\ gens' = [gens EXCEPT ![k] = @ + 1]
          /\ active' = [active EXCEPT ![k] = gens[k] + 1]
          /\ cycle' = IF cycle.reopen \subseteq {k} THEN NoCycle
                      ELSE [cycle EXCEPT !.reopen = @ \ {k}]
          /\ fifo' = fifo \o ClosedEvents({k} \cap {j \in Kinds : active[j] # 0})
                          \o <<Entry("Opened", k, gens[k] + 1)>>
          /\ tracked' = tracked \cup {k}
          /\ recovering' = recovering \ {k} /\ rejected' = rejected \ {k}
          /\ configured' = configured \cup {k}
          /\ streamed' = IF k = "video" THEN Top.arg ELSE streamed
          /\ report' = IF k = "video" /\ ~operation.on THEN "Applied" ELSE report
          /\ EndTransition(k)
    /\ UNCHANGED <<frames, terminal, pending, deferred, order, latest, orphans, request,
                   operation, rate, withheld, straddled, dispatch, lease, sent>>

\* closeStream, a control call or a health probe has its answer or times out.
CallReturns ==
    /\ At("call", "waiting")
    /\ Return
    /\ UNCHANGED <<frames, fifo, media, dispatch, lease, sent>>

\* commit_pending_media_batch, first the staged frames are taken
CommitTake ==
    /\ At("commit", "take")
    /\ IF pending # <<>> \/ ingress = <<>> THEN Return /\ UNCHANGED ingress
       ELSE /\ Goto([Top EXCEPT !.at = "push", !.events = ingress])
            /\ ingress' = <<>>
    /\ UNCHANGED <<core, incoming, fifo, media, dispatch, lease, sent>>

\* The kind of a frame is being opened; a frame of unknown kind waits for both.
Fenced(f) == IF f.known THEN f.kind \in Opening ELSE Opening # {}

\* and then they are put back or appended to the dispatcher's queue
CommitPush ==
    /\ At("commit", "push")
    /\ LET fenced == {f \in ToSet(Top.events) : Fenced(f)}
       IN  /\ fifo' = fifo \o Kept(Top.events, ToSet(Top.events) \ fenced)
           /\ ingress' = Kept(Top.events, fenced) \o ingress
    /\ Return
    /\ UNCHANGED <<core, incoming, media, dispatch, lease, sent>>

-----------------------------------------------------------------------------
(* advance_video_reconfigure.  The pump works on a copy of the operation, which *)
(* nobody else can change while it does.                                        *)

\* Mutant: only the video stream is closed first.
MutantToClose(o, ks) ==
    InOrder({k \in ToSet(ks) : k = "video" /\ o.streams[k] # 0 /\ k \notin o.closed})

\* The streams to close are those the request saw.  NA20 applies an encoder change
\* only after both have stopped.
ToClose(o, ks) == InOrder({k \in ToSet(ks) : o.streams[k] # 0 /\ k \notin o.closed})

Recoverable == InOrder(recovering \ terminal)
ReconfigureEnds == stack' = <<Loop("retry", Recoverable)>>

OpensAudio == operation.streams["audio"] # 0 \/ "audio" \in operation.configured

\* The replacement of a stream is opened; arg tells later whether
\* configure_media_stream_kind returned true.
Replace(o, k) ==
    <<[Activation("reconfigure", k, <<>>) EXCEPT !.arg = gens[k]]>>
    \o (IF k = "audio" /\ ~OpensAudio THEN <<>>
        ELSE OpenAt(k, IF o.rollback THEN o.previous ELSE o.requested))

\* Before that the operation is reported as pending, whatever was reported meanwhile.
ReportAdvance(o, ks) ==
    report' = IF ToClose(o, ks) = <<>> /\ ToClose(o, <<"video", "audio">>) = <<>>
              THEN "Pending" ELSE report

\* The rest of one call: the kinds ks are still to be asked about.  The
\* replacements are opened once both streams have closed.
Advance(o, ks) ==
    IF ToClose(o, ks) # <<>> THEN <<Activation("reconfigure", "waiting", ToClose(o, ks))>>
    ELSE IF ToClose(o, <<"video", "audio">>) # <<>> THEN <<Loop("retry", Recoverable)>>
    ELSE Replace(o, IF o.opened THEN "audio" ELSE "video")

\* advance_close: closeStream the first time, getStreamState in later iterations.
\* The stream is closing still or has closed, and mark_previous_closed takes it
\* out of the active streams if it is the generation that the request saw.
ReconfigureClose ==
    /\ At("reconfigure", "waiting")
    /\ \E k \in {Head(Top.todo)}, hasClosed \in BOOLEAN :
       \E erased \in {{j \in {k} : hasClosed /\ active[j] = operation.streams[j]}},
          o \in {[operation EXCEPT !.closed = IF hasClosed THEN @ \cup {k} ELSE @]} :
          /\ operation' = o
          /\ fifo' = fifo \o ClosedEvents(erased)
          /\ active' = [j \in Kinds |-> IF j \in erased THEN 0 ELSE active[j]]
          /\ tracked' = tracked \ erased
          /\ stack' = Advance(o, Tail(Top.todo))
          /\ ReportAdvance(o, Tail(Top.todo))
    /\ UNCHANGED <<frames, gens, flags, cycle, sources, orphans, request, rate, streamed,
                   withheld, configured, straddled, dispatch, lease, sent>>

\* finish_failed: the rate of before; unless it is preserved, the video stream is
\* not opened again.
FinishFailed(preserve) ==
    /\ rate' = operation.previous /\ operation' = NoOperation
    /\ withheld' = ~preserve /\ report' = "Failed"

\* closeStream was refused, the stream failed to close or the deadline has passed.
\* The previous video stream counts as preserved when it was the one.
ReconfigureCloseFails ==
    /\ At("reconfigure", "waiting") /\ Disturb
    /\ FinishFailed(Head(Top.todo) = "video")
    /\ ReconfigureEnds
    /\ UNCHANGED <<frames, fifo, streams, flags, cycle, sources, orphans, request, streamed,
                   configured, straddled, dispatch, lease>>

ReconfigureVideoOpened ==
    /\ At("reconfigure", "video") /\ gens["video"] > Top.arg
    /\ operation' = [operation EXCEPT !.opened = TRUE]
    /\ stack' = Replace(operation, "audio")
    /\ UNCHANGED <<frames, fifo, streams, flags, cycle, sources, orphans, request, rate,
                   streamed, withheld, configured, report, straddled, dispatch, lease,
                   sent>>

\* The first failure is followed by a rollback to the previous rate in the next
\* iteration, if there was a stream before.
ReconfigureVideoFailed ==
    /\ At("reconfigure", "video") /\ gens["video"] = Top.arg
    /\ IF ~operation.rollback
          /\ (operation.streams["video"] # 0 \/ "video" \in operation.configured)
       THEN /\ rate' = operation.previous
            /\ operation' = [operation EXCEPT !.rollback = TRUE]
            /\ UNCHANGED <<withheld, report>>
       ELSE FinishFailed(FALSE)
    /\ ReconfigureEnds
    /\ UNCHANGED <<frames, fifo, streams, flags, cycle, sources, orphans, request, streamed,
                   configured, straddled, dispatch, lease, sent>>

ReconfigureDone ==
    /\ At("reconfigure", "audio") /\ (OpensAudio => gens["audio"] > Top.arg)
    /\ report' = IF operation.rollback THEN "RolledBack" ELSE "Applied"
    /\ operation' = NoOperation /\ withheld' = FALSE
    /\ ReconfigureEnds
    /\ UNCHANGED <<frames, fifo, streams, flags, cycle, sources, orphans, request, rate,
                   streamed, configured, straddled, dispatch, lease, sent>>

\* Mutant: the rollback keeps the video stream of the new rate.
MutantRollback ==
    [operation EXCEPT !.rollback = TRUE, !.streams = NoOperation.streams]

\* The rollback after a failed audio open closes the new video stream first.
Rollback ==
    [operation EXCEPT !.rollback = TRUE, !.opened = FALSE,
                      !.streams = [video |-> active["video"], audio |-> 0],
                      !.closed = {"audio"} \cup {k \in {"video"} : active[k] = 0}]

ReconfigureAudioFailed ==
    /\ At("reconfigure", "audio") /\ OpensAudio /\ gens["audio"] = Top.arg
    /\ IF operation.rollback THEN FinishFailed(FALSE)
       ELSE /\ rate' = operation.previous /\ operation' = Rollback
            /\ UNCHANGED <<withheld, report>>
    /\ ReconfigureEnds
    /\ UNCHANGED <<frames, fifo, streams, flags, cycle, sources, orphans, request, streamed,
                   configured, straddled, dispatch, lease, sent>>

-----------------------------------------------------------------------------
(* One iteration of the session pump *)

\* media_configure_retry_due_locked
ConfigureDue == Kinds \ (tracked \cup terminal \cup recovering)

LoopConfigure ==
    /\ At("loop", "configure")
    /\ \E due \in SUBSET ConfigureDue :
          Goto(IF due = {} THEN Loop("poll", <<>>) ELSE Loop("open", InOrder(due)))
    /\ UNCHANGED <<frames, fifo, media, dispatch, lease, sent>>

LoopOpen ==
    /\ At("loop", "open")
    /\ stack' = <<IF Len(Top.todo) = 1 THEN Loop("poll", <<>>) ELSE Loop("open", Tail(Top.todo))>>
                \o Open(Head(Top.todo))
    /\ UNCHANGED <<frames, fifo, media, dispatch, lease, sent>>

LoopPolled ==
    /\ At("loop", "poll")
    /\ stack' = <<Loop("orphans", <<>>)>>
                \o (IF deferred \o pending = <<>> THEN <<>> ELSE <<Process>>)
    /\ UNCHANGED <<frames, fifo, media, dispatch, lease, sent>>

\* run_pending_orphan_stream_closes, and then the reconfiguration if there is one
LoopOrphans ==
    /\ At("loop", "orphans")
    /\ stack' = IF orphans # <<>> THEN <<Top, Call>>
                ELSE IF operation.on THEN Advance(operation, <<"video", "audio">>)
                ELSE <<Loop("retry", Recoverable)>>
    /\ orphans' = IF orphans = <<>> THEN <<>> ELSE Tail(orphans)
    /\ IF orphans = <<>> /\ operation.on
       THEN ReportAdvance(operation, <<"video", "audio">>) ELSE UNCHANGED report
    /\ UNCHANGED <<frames, fifo, streams, flags, cycle, sources, settings, dispatch, lease,
                   sent>>

\* retry_pending_media_source_recoveries
LoopRetry ==
    /\ At("loop", "retry") /\ Top.todo # <<>>
    /\ Head(Top.todo) \in recovering
    /\ stack' = <<Loop("retry", Tail(Top.todo)), Process>> \o Open(Head(Top.todo))
    /\ UNCHANGED <<frames, fifo, media, dispatch, lease, sent>>

LoopRetryNotDue ==
    /\ At("loop", "retry") /\ Top.todo # <<>>
    /\ Goto(Loop("retry", Tail(Top.todo)))
    /\ UNCHANGED <<frames, fifo, media, dispatch, lease, sent>>

\* process_next_control_call, the health probe and commit_pending_media_batch
LoopControl ==
    /\ At("loop", "retry") /\ Top.todo = <<>>
    /\ \E calls \in {<<>>, <<Call>>, <<Process, Call>>} :
          stack' = <<Loop("configure", <<>>)>>
                   \o (IF calls = <<>> THEN CommitStaged ELSE <<Commit>>) \o calls
    /\ UNCHANGED <<frames, fifo, media, dispatch, lease, sent>>

PumpStep ==
    \/ ProgressEvent \/ ProgressCommit
    \/ ProcessTake \/ ProcessTerminal \/ ProcessIgnored \/ ProcessStreamable
    \/ SourceClosing \/ SourceDrained \/ SourceIsActive \/ SourceOpen
    \/ SourceOpened \/ SourcePaired
    \/ OpenFails \/ OpenIsOrphan \/ OpenSucceeds \/ CallReturns
    \/ CommitTake \/ CommitPush
    \/ ReconfigureClose \/ ReconfigureCloseFails
    \/ ReconfigureVideoOpened \/ ReconfigureVideoFailed
    \/ ReconfigureDone \/ ReconfigureAudioFailed
    \/ LoopConfigure \/ LoopOpen \/ LoopPolled \/ LoopOrphans \/ LoopRetry
    \/ LoopRetryNotDue \/ LoopControl \/ StageFrame \/ StreamPayload

-----------------------------------------------------------------------------
(* The recovery worker, with the pump joined: clear_media_streams, then        *)
(* drop_pending_media_frames_for_device; the new session starts from scratch.  *)

\* Mutant: the diagnostics keep the stream ids of the old session.
MutantClearStreams == active' = [k \in Kinds |-> 0] /\ UNCHANGED tracked

\* clear_media_streams: no stream is open and none is in the diagnostics.
ClearStreams == active' = [k \in Kinds |-> 0] /\ tracked' = {}

ReplaceSession ==
    /\ At("loop", "configure") /\ Disturb
    /\ fifo' = fifo \o ClosedEvents({k \in Kinds : active[k] # 0})
    /\ ClearStreams
    /\ terminal' = {} /\ recovering' = {} /\ rejected' = {}
    /\ cycle' = NoCycle
    /\ pending' = <<>> /\ deferred' = <<>> /\ order' = 0
    /\ latest' = [k \in Kinds |-> 0] /\ candidate' = [k \in Kinds |-> 0]
    /\ orphans' = <<>> /\ core' = <<>>
    /\ stack' = <<Loop("replaced", <<>>)>>
    /\ UNCHANGED <<incoming, ingress, gens, params, dispatch, lease>>

DropFrames(queue) == Kept(queue, {e \in ToSet(queue) : ~IsFrame(e)})

\* Mutant: the pending reconfiguration goes, what is reported of it stays.
MutantClearParams ==
    /\ rate' = 0 /\ operation' = NoOperation /\ withheld' = FALSE /\ configured' = {}
    /\ UNCHANGED report

\* clear_video_stream_params_session
ClearParams ==
    /\ rate' = 0 /\ operation' = NoOperation /\ withheld' = FALSE /\ configured' = {}
    /\ report' = "Idle"

ReplaceDrop ==
    /\ At("loop", "replaced")
    /\ ingress' = <<>> /\ fifo' = DropFrames(fifo)
    /\ ClearParams
    /\ stack' = <<Loop("reopen", <<>>)>>
    /\ UNCHANGED <<core, incoming, streams, flags, cycle, sources, orphans, request,
                   streamed, straddled, dispatch, lease, sent>>

\* The new session is open.  A reconfiguration is not looked for here.
ReplaceReopen ==
    /\ At("loop", "reopen")
    /\ rate' = 0 /\ withheld' = FALSE /\ report' = "Idle"
    /\ straddled' = (straddled \/ operation.on)
    /\ stack' = <<Loop("configure", <<>>)>>
    /\ UNCHANGED <<frames, fifo, streams, flags, cycle, sources, orphans, request,
                   operation, streamed, configured, dispatch, lease, sent>>

-----------------------------------------------------------------------------
(* The dispatcher: drain_pending_media_callbacks *)

DispatchEvent ==
    /\ dispatcher = "idle" /\ fifo # <<>> /\ ~IsFrame(Head(fifo))
    /\ fifo' = Tail(fifo)
    /\ announced' = [announced EXCEPT ![Head(fifo).kind] =
                        IF Head(fifo).type = "Opened" THEN Head(fifo).gen ELSE 0]
    /\ UNCHANGED <<frames, media, stack, item, dispatcher, lease, sent>>

DispatchFrame ==
    /\ dispatcher = "idle" /\ fifo # <<>> /\ IsFrame(Head(fifo))
    /\ fifo' = Tail(fifo) /\ item' = Head(fifo) /\ dispatcher' = "check"
    /\ UNCHANGED <<frames, media, stack, announced, lease, sent>>

\* Mutant: the session id alone decides.
MutantIsBoundFrame(f) == f.session = bound

\* is_current_media_frame: the binding, then the generation
IsBoundFrame(f) ==
    IF bound = 0 THEN f.session = 0 /\ f.token = 0
    ELSE f.session = bound /\ f.token # 0 /\ f.token = epoch

\* Mutant: an open stream with the frame's id is enough.
MutantIsCurrent(f) == IsBoundFrame(f) /\ (f.gen = 0 \/ active[f.kind] # 0)

IsCurrent(f) == IsBoundFrame(f) /\ (f.gen = 0 \/ active[f.kind] = f.gen)

DispatchCheck ==
    /\ dispatcher = "check"
    /\ IF IsCurrent(item) THEN dispatcher' = "deliver" /\ UNCHANGED item
       ELSE dispatcher' = "idle" /\ item' = NoEntry
    /\ UNCHANGED <<frames, fifo, media, stack, announced, lease, sent>>

\* publish_media_frame_for_device hands the frame to the owner's subscriptions
Accepts(f) == owner # 0 /\ f.session = owner

DispatchDeliver ==
    /\ dispatcher = "deliver"
    /\ dispatcher' = "idle" /\ item' = NoEntry
    /\ UNCHANGED <<frames, fifo, media, stack, announced, lease, sent>>

-----------------------------------------------------------------------------
(* The Host: a media lease comes and goes while a control lease keeps the      *)
(* device open                                                                 *)

\* The next session id; the epoch has moved on since every earlier one.
AcquireMedia ==
    /\ host = "idle" /\ owner = 0
    /\ owner' = epoch + 1 /\ host' = "bind"
    /\ UNCHANGED <<frames, fifo, media, stack, dispatch, bound, epoch, sent>>

BindMedia ==
    /\ host = "bind"
    /\ epoch' = epoch + 1 /\ bound' = owner /\ host' = "idle"
    /\ UNCHANGED <<frames, fifo, media, stack, dispatch, owner, sent>>

ReleaseMedia ==
    /\ host = "idle" /\ owner # 0 /\ DisturbBy(HostCost)
    /\ owner' = 0 /\ host' = "unbind"
    /\ UNCHANGED <<frames, fifo, media, stack, dispatch, bound, epoch>>

UnbindMedia ==
    /\ host = "unbind"
    /\ epoch' = epoch + 1 /\ bound' = 0 /\ host' = "dropIngress"
    /\ UNCHANGED <<frames, fifo, media, stack, dispatch, owner, sent>>

\* drop_pending_media_frames_for_device, one queue after the other
DropIngress ==
    /\ host = "dropIngress"
    /\ ingress' = <<>> /\ host' = "dropDispatch"
    /\ UNCHANGED <<core, incoming, fifo, media, stack, dispatch, bound, epoch, owner, sent>>

DropDispatch ==
    /\ host = "dropDispatch"
    /\ fifo' = DropFrames(fifo) /\ host' = "idle"
    /\ UNCHANGED <<frames, media, stack, dispatch, bound, epoch, owner, sent>>

\* AxentHost::set_video_stream_params for the media lease, with dispatch_mutex
\* held.  The streams, and whether the session is open, are read first
RequestRate(r) ==
    /\ host = "idle" /\ owner # 0
    /\ sent.requests < MaxRequests /\ sent.disturbances + HostCost <= MaxDisturbances
    /\ sent' = [sent EXCEPT !.requests = @ + 1]
    /\ ~At("loop", "replaced") /\ ~At("loop", "reopen")
    /\ request' = [rate |-> r, streams |-> active] /\ host' = "request"
    /\ UNCHANGED <<frames, fifo, streams, flags, cycle, sources, orphans, operation, rate,
                   streamed, withheld, configured, report, straddled, stack, dispatch,
                   bound, epoch, owner>>

\* and the rest is decided in another critical section.
RequestEnds == host = "request" /\ host' = "idle" /\ request' = NoRequest

RequestBusy ==
    /\ RequestEnds /\ operation.on
    /\ UNCHANGED <<frames, fifo, streams, flags, cycle, sources, orphans, operation, rate,
                   streamed, withheld, configured, report, straddled, stack, dispatch,
                   bound, epoch, owner, sent>>

RequestUnchanged ==
    /\ RequestEnds /\ ~operation.on /\ request.rate = rate
    /\ report' = "Unchanged"
    /\ UNCHANGED <<frames, fifo, streams, flags, cycle, sources, orphans, operation, rate,
                   streamed, withheld, configured, straddled, stack, dispatch, bound, epoch,
                   owner, sent>>

RequestAccepted ==
    /\ RequestEnds /\ ~operation.on /\ request.rate # rate
    /\ operation' = [NoOperation EXCEPT !.on = TRUE, !.requested = request.rate,
                                        !.previous = rate, !.streams = request.streams,
                                        !.configured = configured]
    /\ rate' = request.rate /\ withheld' = TRUE /\ report' = "Pending"
    /\ UNCHANGED <<frames, fifo, streams, flags, cycle, sources, orphans, streamed,
                   configured, straddled, stack, dispatch, bound, epoch, owner, sent>>

-----------------------------------------------------------------------------

DispatchStep == DispatchEvent \/ DispatchFrame \/ DispatchCheck \/ DispatchDeliver

HostStep ==
    \/ AcquireMedia \/ BindMedia \/ ReleaseMedia
    \/ UnbindMedia \/ DropIngress \/ DropDispatch
    \/ (\E r \in Rates : RequestRate(r))
    \/ RequestBusy \/ RequestUnchanged \/ RequestAccepted

Next ==
    \/ \E k \in Kinds : Decode(k)
    \/ \E k \in Kinds, state \in SourceStates, exact \in BOOLEAN :
           (exact => state = "terminal") /\ SourceEvent(k, state, exact)
    \/ PumpStep \/ ReplaceSession \/ ReplaceDrop \/ ReplaceReopen
    \/ DispatchStep
    \/ HostStep

Spec == Init /\ [][Next]_vars

-----------------------------------------------------------------------------

\* A frame that the Host hands to the subscriptions of a lease was decoded while
\* that lease was bound.  The frame may have waited in the client, between the
\* two critical sections of handle_stream_payload, in ingress, in a batch or in
\* the dispatcher's queue while the lease was released and the next one bound:
\* the token of its decoding has to meet the epoch of the binding
\* (is_current_media_frame, publish_media_frame_for_device).
FrameStaysInItsLease ==
    dispatcher = "deliver" /\ Accepts(item) => item.origin = owner

\* When the dispatcher delivers a frame of a configured stream, the last event
\* it delivered for that stream opened the frame's generation: the frame neither
\* overtakes Opened nor follows Closed, although the device uses the id again
\* (commit_pending_media_batch, the fence around an open, is_current_media_frame).
FrameFollowsItsOpened ==
    dispatcher = "deliver" /\ item.gen # 0 => announced[item.kind] = item.gen

EventsOf(k) == SelectSeq(fifo, LAMBDA e : e.kind = k /\ ~IsFrame(e))
\* The generation that is open before or after an event
OpenAfter(e) == IF e.type = "Opened" THEN e.gen ELSE 0
OpenBefore(e) == IF e.type = "Opened" THEN 0 ELSE e.gen

\* What has been announced for a stream, followed by its queued events, opens
\* only what is closed, closes only the generation that is open, and ends in
\* the state of active_media_streams_, through source events inside calls, paired
\* closes, replaced streams and replaced sessions.
EventsLeadToTheOpenStream ==
    \A k \in Kinds :
        LET events == EventsOf(k) IN
        IF events = <<>> THEN announced[k] = active[k]
        ELSE /\ OpenBefore(events[1]) = announced[k]
             /\ \A i \in 2..Len(events) : OpenBefore(events[i]) = OpenAfter(events[i - 1])
             /\ OpenAfter(Last(events)) = active[k]

\* No stream is open for a kind whose source has ended, also when the end was
\* reported while openStream was in flight (configure_media_stream_kind).  The
\* same latch is set when the device rejects openStream, which leaves a stream
\* open if the pump opened one between a request for another frame rate and the
\* reconfiguration.
EndedSourceHasNoStream == \A k \in terminal \ rejected : active[k] = 0

\* At the beginning of an iteration a kind without a stream is one whose source
\* has ended or one that somebody will open: the configure retry, which looks at
\* the diagnostics, or the source recovery.
NoKindIsForgotten ==
    At("loop", "configure") =>
        \A k \in Kinds \ terminal : active[k] = 0 => k \in recovering \/ k \in ConfigureDue

\* Whoever sees a reconfiguration as pending waits for one that the pump still
\* advances, and a reported success is never of a video stream that is withheld:
\* source events, opens and replaced sessions on the way leave the report and the
\* operation together (set_video_stream_params, advance_video_reconfigure,
\* clear_video_stream_params_session).
ReportMatchesTheOperation ==
    /\ report = "Pending" => operation.on
    /\ report \in {"Applied", "RolledBack"} => ~withheld

\* While a replacement is being opened, neither stream that the request saw is
\* open any more, in the first attempt and in the rollback ("NA20 only applies
\* NT10 encoder changes after both receiver-pull legs stop").
ReplacementFollowsTheClose ==
    \A i \in 1..Len(stack) :
        stack[i].op = "reconfigure" /\ stack[i].at \in {"video", "audio"} =>
            \A k \in Kinds : operation.streams[k] # 0 => active[k] # operation.streams[k]

\* A success that is reported, of a reconfiguration or of a rollback, is of a
\* video stream that was opened at the frame rate of the session.  The exception
\* is a request whose two critical sections straddle the end of one session and
\* the beginning of the next.
ReportedRateIsStreamed ==
    report \in {"Applied", "RolledBack"} /\ active["video"] # 0 /\ ~straddled
        => streamed = rate

=============================================================================
