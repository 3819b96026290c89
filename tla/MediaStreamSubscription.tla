----------------------- MODULE MediaStreamSubscription ----------------------
(***************************************************************************)
(* One stream subscription of the Host (MediaStreamSubscriptionState::Core *)
(* in src/src/host/axent_host.cpp) with the Host operations that create,   *)
(* feed and end it.  A publisher decides under the Host mutex what the     *)
(* session's subscriptions are to be told and tells them without it.  A    *)
(* Direct subscription is drained by its publishers, one at a time; an     *)
(* AsyncQueued one by a worker.  cv_ and terminal_cv_ are modelled: who    *)
(* waits is asleep until somebody notifies.                                *)
(*                                                                         *)
(* One stream id; a generation is a number, 0 is no stream.  A sink does   *)
(* not publish from a callback: publish_media_frame and                    *)
(* publish_media_stream_event refuse it (lines 2019 and 2083).             *)
(***************************************************************************)
EXTENDS Integers, Sequences, Queues

CONSTANTS Publishers, Cancellers,
          Subscriber,     \* the thread in subscribe_media_stream
          Worker,         \* the subscription's own thread
          None,
          MaxGeneration,  \* bound: generations published
          MaxPublished,   \* bound: publications begun
          Sizes,          \* of frame payloads
          MaxFrames,      \* options_.max_frames, 0 is no limit
          MaxBytes        \* options_.max_bytes, 0 is no limit

ASSUME ConstantsAssumption ==
    /\ MaxGeneration \in Nat /\ MaxPublished \in Nat
    /\ MaxFrames \in Nat /\ MaxBytes \in Nat
    /\ Sizes \subseteq Nat
    /\ Publishers \cap Cancellers = {}
    /\ {Subscriber, Worker} \cap (Publishers \cup Cancellers) = {} /\ Subscriber # Worker
    /\ None \notin Publishers \cup Cancellers \cup {Subscriber, Worker}

VARIABLES
    mode,        \* options_.dispatch
    leased,      \* the session has its media lease
    hostActive,  \* active_media_streams of the session
    registered,  \* stream_subscriptions of the session holds it
    published,   \* publications begun so far
    todo,        \* what each publisher has still to tell the subscription
    items,       \* items_
    active,      \* active_streams_
    delivered,   \* delivered_streams_
    queuedFrames, queuedBytes,
    dropped,     \* stats_.dropped_frames
    reported,    \* the last DeliveryDropped value the sink was given (history)
    accepting,   \* accepting_, the negation of terminal_enqueued_
    activated, terminalDelivered,
    deliverer,   \* delivery_thread_, None unless delivering_
    pc,          \* what each thread is about to do
    current,     \* the item whose callback each thread is in
    target,      \* target of drain_direct_queue
    asleep       \* threads waiting for terminal_cv_, and the worker for cv_

host == <<leased, hostActive, registered, published>>
queue == <<items, queuedFrames, queuedBytes>>
drops == <<dropped, reported>>
lifecycle == <<accepting, activated, terminalDelivered>>
vars == <<mode, host, todo, queue, active, delivered, drops, lifecycle,
          deliverer, pc, current, target, asleep>>

Threads == Publishers \cup Cancellers \cup {Subscriber, Worker}
Generations == 1..MaxGeneration

\* kind, generation, and a number: the payload size of a frame, the cumulative
\* count of DeliveryDropped, 1 on a SubscriptionClosed that closes the streams.
\* owner is direct_owner, last says that it carries its owner's completion.
Item(kind, gen, n) == [kind |-> kind, gen |-> gen, n |-> n, owner |-> None, last |-> FALSE]
Opened(gen) == Item("Opened", gen, 0)
Closed(gen) == Item("Closed", gen, 0)
NoItem == Item("None", 0, 0)

IsFrame(item) == item.kind = "Frame"
IsStreamEvent(item) == item.kind \in {"Opened", "Closed"}

\* The items of one publication, given to the thread that will deliver them
OwnedBy(t, seq) ==
    [i \in DOMAIN seq |-> [seq[i] EXCEPT !.owner = t, !.last = (i = Len(seq))]]

Init ==
    /\ mode \in {"Direct", "AsyncQueued"}
    /\ leased = TRUE
    /\ hostActive \in {0, 1}
    /\ registered = FALSE
    /\ published = 0
    /\ todo = [p \in Publishers |-> <<>>]
    /\ items = <<>>
    /\ active = 0
    /\ delivered = 0
    /\ queuedFrames = 0 /\ queuedBytes = 0
    /\ dropped = 0 /\ reported = 0
    /\ accepting = TRUE /\ activated = FALSE /\ terminalDelivered = FALSE
    /\ deliverer = None
    /\ pc = [t \in Threads |-> IF t = Worker THEN "none" ELSE "idle"]
    /\ current = [t \in Threads |-> NoItem]
    /\ target = [t \in Threads |-> "none"]
    /\ asleep = {}

Awake(t) == t \notin asleep
Goto(t, where) == pc' = [pc EXCEPT ![t] = where]

\* cv_ has one waiter, the worker; everybody else waits for terminal_cv_.
NotifyWorker == asleep' = asleep \ {Worker}
NotifyAll == asleep' = {}
Waiters == asleep \ {Worker}

-----------------------------------------------------------------------------
(* The Host                                                                *)

\* subscribe_media_stream, under the Host mutex: a stream the adapter reports
\* replaces the Host's, and what is open then is primed.
Subscribe(gen) ==
    /\ pc[Subscriber] = "idle" /\ leased
    /\ registered' = TRUE
    /\ hostActive' = gen
    /\ active' = gen
    /\ items' = IF gen = 0 THEN <<>> ELSE <<Opened(gen)>>
    /\ Goto(Subscriber, "activate")
    /\ UNCHANGED <<mode, leased, published, todo, queuedFrames, queuedBytes,
                   delivered, drops, lifecycle, deliverer, current, target, asleep>>

\* stream_subscriptions_for_session_locked: only one that is active() is told
Told(p, seq) ==
    todo' = [todo EXCEPT ![p] = IF registered /\ accepting THEN seq ELSE <<>>]

BeginPublication(p) ==
    /\ pc[p] = "idle" /\ todo[p] = <<>>
    /\ published < MaxPublished
    /\ leased
    /\ published' = published + 1
    /\ UNCHANGED <<mode, leased, registered, queue, active, delivered, drops, lifecycle,
                   deliverer, pc, current, target, asleep>>

\* publish_media_stream_event_for_session, under the Host mutex
PublishOpened(p, gen) ==
    /\ BeginPublication(p)
    /\ hostActive # gen
    /\ hostActive' = gen
    /\ Told(p, IF hostActive = 0 THEN <<Opened(gen)>> ELSE <<Closed(hostActive), Opened(gen)>>)

PublishClosed(p) ==
    /\ BeginPublication(p)
    /\ hostActive # 0
    /\ hostActive' = 0
    /\ Told(p, <<Closed(hostActive)>>)

\* publish_media_frame and publish_media_frame_for_device, under the Host mutex
PublishFrame(p, gen, size) ==
    /\ BeginPublication(p)
    /\ Told(p, <<Item("Frame", gen, size)>>)
    /\ UNCHANGED hostActive

-----------------------------------------------------------------------------
(* Publication                                                             *)

\* What a thread goes on with after its call of drain_direct_queue
Return(t) == IF t \in Publishers THEN "idle" ELSE "done"

\* over_limit_locked
OverLimit(frames, bytes) ==
    \/ MaxFrames # 0 /\ frames > MaxFrames
    \/ MaxBytes # 0 /\ bytes > MaxBytes

FirstFrame(seq) == SelectInSeq(seq, IsFrame)

\* Mutant: the bytes of a dropped frame stay counted.
MutantWithoutOldest(q) ==
    [items |-> RemoveAt(q.items, FirstFrame(q.items)), frames |-> q.frames - 1,
     bytes |-> q.bytes, dropped |-> q.dropped + 1]

\* drop_oldest_frame_locked
WithoutOldest(q) ==
    [items |-> RemoveAt(q.items, FirstFrame(q.items)), frames |-> q.frames - 1,
     bytes |-> q.bytes - q.items[FirstFrame(q.items)].n, dropped |-> q.dropped + 1]

\* The loop of publish_frame: frames are dropped until the limits are kept.
Limited(q) ==
    LET rest[n \in 0..q.frames] ==
            IF n = 0 THEN q
            ELSE IF OverLimit(rest[n - 1].frames, rest[n - 1].bytes) THEN WithoutOldest(rest[n - 1])
            ELSE rest[n - 1]
    IN  rest[q.frames]

\* Mutant: the drop is appended to the queue.
MutantWithDropEvent(seq, count) == Append(seq, Item("Dropped", 0, count))

\* enqueue_drop_event_locked: the DeliveryDropped queued after the last stream
\* event takes the new value, or one is put before the first frame.
WithDropEvent(seq, count) ==
    LET lastEvent == SelectLastInSeq(seq, IsStreamEvent)
        queued == SelectLastInSeq(seq, LAMBDA item : item.kind = "Dropped")
    IN  IF queued > lastEvent
        THEN [seq EXCEPT ![queued].n = count]
        ELSE LET at == IF FirstFrame(seq) = 0 THEN Len(seq) + 1 ELSE FirstFrame(seq)
             IN  InsertAt(seq, at, Item("Dropped", 0, count))

\* publish_frame: the queue after the limits are applied and a drop reported
Trimmed(q) ==
    LET kept == Limited(q)
    IN  IF kept.dropped = q.dropped THEN kept
        ELSE [kept EXCEPT !.items = WithDropEvent(kept.items, kept.dropped)]

\* publish_stream_event_impl: what is queued; nothing for a repeated Opened or
\* the Closed of a stream that is not open
EventItems(event) ==
    CASE event.kind = "Opened" /\ active = event.gen -> <<>>
      [] event.kind = "Opened" /\ active = 0 -> <<event>>
      [] event.kind = "Opened" -> <<Closed(active), event>>
      [] event.kind = "Closed" /\ active = event.gen -> <<event>>
      [] OTHER -> <<>>

\* A Direct publisher owns its items and drains the queue up to them.
Enqueue(p, seq) ==
    IF mode = "Direct"
    THEN /\ items' = items \o OwnedBy(p, seq)
         /\ Goto(p, "drain")
         /\ target' = [target EXCEPT ![p] = "pending"]
    ELSE /\ items' = items \o seq
         /\ UNCHANGED <<pc, target>>

TellEvent(p) ==
    /\ pc[p] = "idle" /\ todo[p] # <<>>
    /\ IsStreamEvent(Head(todo[p]))
    /\ LET event == Head(todo[p])
           seq == EventItems(event)
       IN  IF ~accepting \/ seq = <<>>
           THEN UNCHANGED <<items, active, pc, target, asleep>>
           ELSE /\ active' = IF event.kind = "Opened" THEN event.gen ELSE 0
                /\ Enqueue(p, seq)
                /\ NotifyWorker
    /\ todo' = [todo EXCEPT ![p] = Tail(@)]
    /\ UNCHANGED <<mode, host, queuedFrames, queuedBytes, delivered, drops, lifecycle,
                   deliverer, current>>

\* publish_frame: a frame of another generation is discarded.
TellFrame(p) ==
    /\ pc[p] = "idle" /\ todo[p] # <<>>
    /\ IsFrame(Head(todo[p]))
    /\ \E frame \in {Head(todo[p])} :
         IF ~accepting \/ active # frame.gen
         THEN UNCHANGED <<queue, dropped, pc, target, asleep>>
         ELSE IF mode = "Direct"
         THEN /\ Enqueue(p, <<frame>>)
              /\ queuedFrames' = queuedFrames + 1
              /\ queuedBytes' = queuedBytes + frame.n
              /\ UNCHANGED <<dropped, asleep>>
         ELSE \E kept \in {Trimmed([items |-> Append(items, frame), frames |-> queuedFrames + 1,
                                    bytes |-> queuedBytes + frame.n, dropped |-> dropped])} :
              /\ items' = kept.items
              /\ queuedFrames' = kept.frames /\ queuedBytes' = kept.bytes
              /\ dropped' = kept.dropped
              /\ NotifyWorker
              /\ UNCHANGED <<pc, target>>
    /\ todo' = [todo EXCEPT ![p] = Tail(@)]
    /\ UNCHANGED <<mode, host, active, delivered, reported, lifecycle, deliverer, current>>

-----------------------------------------------------------------------------
(* Delivery                                                                *)

\* Mutant: activation does not notify the publishers that wait for it.
MutantActivate ==
    /\ pc[Subscriber] = "activate"
    /\ activated' = TRUE
    /\ pc' = IF activated THEN [pc EXCEPT ![Subscriber] = "done"]
             ELSE IF mode = "Direct" THEN [pc EXCEPT ![Subscriber] = "drain"]
             ELSE [pc EXCEPT ![Subscriber] = "done", ![Worker] = "run"]
    /\ UNCHANGED <<mode, host, todo, queue, active, delivered, drops, accepting,
                   terminalDelivered, deliverer, current, target, asleep>>

\* activate(): a subscription the Host has cancelled is already activated.
Activate ==
    /\ pc[Subscriber] = "activate"
    /\ activated' = TRUE
    /\ pc' = IF activated THEN [pc EXCEPT ![Subscriber] = "done"]
             ELSE IF mode = "Direct" THEN [pc EXCEPT ![Subscriber] = "drain"]
             ELSE [pc EXCEPT ![Subscriber] = "done", ![Worker] = "run"]
    /\ IF activated THEN UNCHANGED asleep ELSE NotifyAll
    /\ UNCHANGED <<mode, host, todo, queue, active, delivered, drops, accepting,
                   terminalDelivered, deliverer, current, target>>

\* update_delivered_lifecycle_locked
Delivered(item) ==
    CASE item.kind = "Opened" -> item.gen
      [] item.kind = "Closed" /\ delivered = item.gen -> 0
      [] OTHER -> delivered

\* take_next_item_locked and its twin in drain_direct_queue; then the callback
\* runs without the mutex.
Take(t) ==
    LET item == Head(items)
    IN  /\ items # <<>>
        /\ items' = Tail(items)
        /\ queuedFrames' = queuedFrames - (IF IsFrame(item) THEN 1 ELSE 0)
        /\ queuedBytes' = queuedBytes - (IF IsFrame(item) THEN item.n ELSE 0)
        /\ delivered' = Delivered(item)
        /\ reported' = IF item.kind = "Dropped" THEN item.n ELSE reported
        /\ deliverer' = t
        /\ current' = [current EXCEPT ![t] = item]
        /\ Goto(t, "callback")
        /\ UNCHANGED <<mode, host, todo, active, dropped, lifecycle, target, asleep>>

Eligible(t) == items # <<>> /\ Head(items).owner \in {None, t}

\* Mutant: a thread delivers while another one is in a callback.
MutantMayDeliver(t) == TRUE

\* Nobody else is delivering.
MayDeliver(t) == deliverer \in {None, t}

DrainTake(t) ==
    /\ pc[t] = "drain" /\ Awake(t)
    /\ ~terminalDelivered /\ activated /\ MayDeliver(t)
    /\ Eligible(t)
    /\ Take(t)

\* The queue is at an end for this thread: it returns.
DrainLeave(t) ==
    /\ pc[t] = "drain" /\ Awake(t)
    /\ \/ terminalDelivered
       \/ activated /\ MayDeliver(t) /\ ~Eligible(t) /\ target[t] = "none"
    /\ deliverer' = IF deliverer = t THEN None ELSE deliverer
    /\ asleep' = IF deliverer = t THEN asleep \ Waiters ELSE asleep
    /\ target' = [target EXCEPT ![t] = "none"]
    /\ Goto(t, Return(t))
    /\ UNCHANGED <<mode, host, todo, queue, active, delivered, drops, lifecycle, current>>

\* It waits for the activation, for the thread that delivers, or for its item
\* to come to the front.
DrainWait(t) ==
    /\ pc[t] = "drain" /\ Awake(t)
    /\ ~terminalDelivered
    /\ \/ ~activated
       \/ ~MayDeliver(t)
       \/ ~Eligible(t) /\ target[t] = "pending"
    /\ deliverer' = IF deliverer = t THEN None ELSE deliverer
    /\ asleep' = (IF deliverer = t THEN asleep \ Waiters ELSE asleep) \cup {t}
    /\ UNCHANGED <<mode, host, todo, queue, active, delivered, drops, lifecycle, pc,
                   current, target>>

\* finish_item_locked
Ends(item) == terminalDelivered \/ item.kind = "Terminal"

\* The callback, whatever the sink throws, returns.  A Direct thread whose own item
\* is consumed returns unless the front is still its to deliver.
Finish(t) ==
    LET item == current[t]
        ends == Ends(item)
        completed == item.last
        leaves == ends \/ (completed /\ ~Eligible(t)) \/ t = Worker
    IN  /\ pc[t] = "callback"
        /\ terminalDelivered' = ends
        /\ current' = [current EXCEPT ![t] = NoItem]
        /\ deliverer' = IF leaves THEN None ELSE t
        /\ target' = [target EXCEPT ![t] = IF leaves \/ completed THEN "none" ELSE @]
        /\ Goto(t, IF t = Worker THEN (IF ends THEN "exited" ELSE "run")
                   ELSE IF leaves THEN Return(t) ELSE "drain")
        /\ asleep' = asleep \ Waiters
        /\ UNCHANGED <<mode, host, todo, queue, active, delivered, drops, accepting, activated>>

\* run()
WorkerTake ==
    /\ pc[Worker] = "run" /\ Awake(Worker)
    /\ ~terminalDelivered
    /\ Take(Worker)

WorkerWait ==
    /\ pc[Worker] = "run" /\ Awake(Worker)
    /\ ~terminalDelivered /\ items = <<>>
    /\ asleep' = asleep \cup {Worker}
    /\ UNCHANGED <<mode, host, todo, queue, active, delivered, drops, lifecycle, deliverer,
                   pc, current, target>>
-----------------------------------------------------------------------------
(* Cancellation                                                            *)

\* Mutant: the stream that is open is closed, not the one the sink knows.
MutantTerminalItems(close) ==
    (IF close /\ active # 0 THEN <<Closed(active)>> ELSE <<>>)
        \o <<Item("Terminal", 0, IF close THEN 1 ELSE 0)>>

\* prepare_terminal_locked: the sink's open stream is closed, one it has not
\* seen yet is opened and closed, and SubscriptionClosed ends it all.
TerminalItems(close) ==
    (IF close /\ delivered # 0 THEN <<Closed(delivered)>> ELSE <<>>)
        \o (IF close /\ active \notin {0, delivered} THEN <<Opened(active), Closed(active)>>
            ELSE <<>>)
        \o <<Item("Terminal", 0, IF close THEN 1 ELSE 0)>>

\* The first cancel() from outside a callback: what is pending is replaced.
CancelFirst(c, close) ==
    LET seq == TerminalItems(close)
        owned == activated /\ mode = "Direct"
    IN  /\ accepting' = FALSE
        /\ items' = IF owned THEN OwnedBy(c, seq) ELSE seq
        /\ queuedFrames' = 0 /\ queuedBytes' = 0
        /\ active' = 0
        /\ activated' = TRUE
        /\ target' = [target EXCEPT ![c] = IF owned THEN "pending" ELSE "none"]
        /\ pc' = IF mode = "Direct" THEN [pc EXCEPT ![c] = "drain"]
                 ELSE [pc EXCEPT ![c] = "join", ![Worker] = IF @ = "none" THEN "run" ELSE @]
        /\ NotifyWorker
        /\ UNCHANGED <<delivered, drops, terminalDelivered, deliverer, current>>

\* Mutant: a second cancel() returns although a callback is running.
MutantCancelAgain(c) ==
    /\ Goto(c, "done")
    /\ UNCHANGED <<queue, active, delivered, drops, lifecycle, deliverer, current, target, asleep>>

\* A later cancel() waits for the terminal item, or for the callback in which
\* the sink cancelled.
CancelAgain(c) ==
    /\ Goto(c, IF terminalDelivered THEN "untilIdle" ELSE "untilTerminal")
    /\ UNCHANGED <<queue, active, delivered, drops, lifecycle, deliverer, current, target, asleep>>

Cancel(c, close) ==
    /\ IF accepting THEN CancelFirst(c, close) ELSE CancelAgain(c)
    /\ UNCHANGED <<mode, published, todo>>

\* cancel(), or the destructor, once subscribe_media_stream has returned it
UserCancel(c) ==
    /\ pc[c] = "idle" /\ pc[Subscriber] = "done"
    /\ Cancel(c, FALSE)
    /\ UNCHANGED <<leased, hostActive, registered>>

\* release_session and stop(): under the Host mutex the subscription is taken
\* from the session; then it is cancelled.
HostRelease(c) ==
    /\ pc[c] = "idle" /\ registered
    /\ leased' = FALSE /\ hostActive' = 0 /\ registered' = FALSE
    /\ Goto(c, "close")
    /\ UNCHANGED <<mode, published, todo, queue, active, delivered, drops, lifecycle,
                   deliverer, current, target, asleep>>

HostCancel(c) ==
    /\ pc[c] = "close"
    /\ Cancel(c, TRUE)
    /\ UNCHANGED <<leased, hostActive, registered>>

\* A sink cancels inside its callback: nothing more is delivered.
SelfCancel(t) ==
    /\ pc[t] = "callback" /\ pc[Subscriber] = "done"
    /\ accepting
    /\ accepting' = FALSE
    /\ items' = <<>> /\ queuedFrames' = 0 /\ queuedBytes' = 0
    /\ active' = 0
    /\ terminalDelivered' = TRUE
    /\ asleep' = {}
    /\ UNCHANGED <<mode, host, todo, delivered, drops, activated, deliverer, pc, current, target>>

CancelJoin(c) ==
    /\ pc[c] = "join" /\ pc[Worker] = "exited"
    /\ Goto(c, "done")
    /\ UNCHANGED <<mode, host, todo, queue, active, delivered, drops, lifecycle, deliverer,
                   current, target, asleep>>

Waited(c) == IF pc[c] = "untilIdle" THEN deliverer = None ELSE terminalDelivered

CancelWait(c) ==
    /\ pc[c] \in {"untilIdle", "untilTerminal"} /\ Awake(c)
    /\ IF Waited(c)
       THEN Goto(c, "done") /\ UNCHANGED asleep
       ELSE asleep' = asleep \cup {c} /\ UNCHANGED pc
    /\ UNCHANGED <<mode, host, todo, queue, active, delivered, drops, lifecycle, deliverer,
                   current, target>>

-----------------------------------------------------------------------------
Publish(p) ==
    \/ \E gen \in Generations : PublishOpened(p, gen)
    \/ PublishClosed(p)
    \/ \E gen \in Generations, size \in Sizes : PublishFrame(p, gen, size)

Tell(p) == TellEvent(p) \/ TellFrame(p)
Drain(t) == DrainTake(t) \/ DrainLeave(t) \/ DrainWait(t)
CancelGoesOn(c) == HostCancel(c) \/ CancelJoin(c) \/ CancelWait(c)

\* What a thread does inside a call, and what the worker does
GoesOn(t) ==
    \/ t = Subscriber /\ Activate
    \/ t \in Cancellers /\ CancelGoesOn(t)
    \/ t = Worker /\ (WorkerTake \/ WorkerWait)
    \/ Drain(t)
    \/ Finish(t)
    \/ t \in Publishers /\ Tell(t)

Next ==
    \/ \E gen \in {hostActive} \cup Generations : Subscribe(gen)
    \/ \E p \in Publishers : Publish(p)
    \/ \E c \in Cancellers : UserCancel(c) \/ HostRelease(c)
    \/ \E t \in Threads : GoesOn(t) \/ SelfCancel(t)

\* As long as some thread can go on with its call (the worker with its loop),
\* some thread does: the sink's callbacks return and the mutex is handed on.
\* Nobody has to publish, subscribe or cancel.
Fairness == WF_vars(\E t \in Threads : GoesOn(t))

Spec == Init /\ [][Next]_vars /\ Fairness

-----------------------------------------------------------------------------
InCallback == {t \in Threads : pc[t] = "callback"}

Frames(seq) == SelectSeq(seq, IsFrame)
Bytes(seq) ==
    LET sum[i \in 0..Len(seq)] ==
            IF i = 0 THEN 0 ELSE sum[i - 1] + IF IsFrame(seq[i]) THEN seq[i].n ELSE 0
    IN  sum[Len(seq)]

\* The counters that decide what is dropped are those of the queue, and an
\* asynchronous queue keeps both limits (over_limit_locked).
QueueWithinLimits ==
    /\ queuedFrames = Len(Frames(items))
    /\ queuedBytes = Bytes(items)
    /\ mode = "AsyncQueued" => ~OverLimit(queuedFrames, queuedBytes)

\* Callbacks are serialized, and run in the thread delivery_thread_ names,
\* whichever publisher, canceller or worker drains the queue.
CallbacksAreSerialized == \A t \in InCallback : deliverer = t

\* media_subscription.hpp, cancel(): "From an external thread, return guarantees
\* that no callback remains in flight and no future callback will start."
ReturnedCancelFencesCallbacks ==
    (\E c \in Cancellers : pc[c] = "done") => InCallback = {} /\ terminalDelivered

\* The sink knows of every dropped frame before it gets another frame: the last
\* DeliveryDropped, queued before every frame or delivered, has the cumulative count.
DropsAreReported ==
    LET last == SelectLastInSeq(items, LAMBDA item : item.kind = "Dropped")
    IN  accepting => /\ dropped = IF last = 0 THEN reported ELSE items[last].n
                     /\ \A i \in 1..last : ~IsFrame(items[i])

\* What the sink sees is a well-formed history: a stream is opened when none is
\* open, closed or given frames while it is, nothing follows SubscriptionClosed,
\* and a release by the Host leaves no stream open.
SinkSeesWellFormedStreams ==
    [][\A t \in Threads :
         LET item == current'[t]
         IN  item # current[t] /\ item # NoItem =>
             /\ ~terminalDelivered
             /\ item.kind = "Opened" => delivered = 0
             /\ item.kind \in {"Closed", "Frame"} => delivered = item.gen
             /\ item.kind = "Terminal" /\ item.n = 1 => delivered = 0]_vars

\* Every thread is outside every call of the Host and the subscription.
AllAtRest == \A t \in Threads \ {Worker} : pc[t] \in {"idle", "done"}

\* Every publication, subscription, cancellation and release returns, so that
\* once nothing new begins all threads come to rest with an empty queue: nobody
\* waits for an item that nobody delivers or for a notification that is not sent.
CallsReturn == []<>(AllAtRest /\ items = <<>>)
=============================================================================
