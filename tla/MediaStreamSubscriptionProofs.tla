------------------- MODULE MediaStreamSubscriptionProofs --------------------
(***************************************************************************)
(* Proofs about MediaStreamSubscription, for every set of publishers and   *)
(* cancellers, both dispatch modes and every queue limit: the callbacks of *)
(* the sink are serialized, and a cancel() that has returned is a fence.   *)
(***************************************************************************)
EXTENDS MediaStreamSubscription, TLAPS

\* What the proofs need of the types.  Nothing is said of the queue as long as
\* publications are accepted.
TypeOK ==
    /\ mode \in {"Direct", "AsyncQueued"}
    /\ DOMAIN pc = Threads /\ DOMAIN current = Threads /\ DOMAIN target = Threads

\* A Direct subscription has no worker, and in an AsyncQueued one nobody else
\* delivers.
ModeOK ==
    /\ mode = "Direct" => pc[Worker] = "none"
    /\ pc[Worker] \in {"none", "run", "callback", "exited"}
    /\ mode = "AsyncQueued" =>
          \A t \in Threads \ {Worker} : pc[t] \notin {"drain", "callback"}
    /\ CallbacksAreSerialized

Cancelling == {"drain", "callback", "join", "untilTerminal"}

\* Who cancels finds or has set accepting_ to false.  Unless a sink cancels in its
\* callback, which needs accepting_, terminal_delivered_ is set when no callback is
\* running, and a cancel() that finds it set waits for the callback.
CancelOK ==
    /\ accepting /\ terminalDelivered => InCallback = {}
    /\ pc[Subscriber] = "idle" => /\ accepting /\ ~registered
                                  /\ \A c \in Cancellers : pc[c] = "idle"
    /\ \A c \in Cancellers :
          /\ pc[c] \in Cancelling \cup {"untilIdle", "done"} => ~accepting
          /\ pc[c] \in Cancelling /\ terminalDelivered => InCallback = {}
          /\ pc[c] = "untilIdle" => terminalDelivered
    /\ pc[Worker] = "exited" => terminalDelivered
    /\ ReturnedCancelFencesCallbacks

\* A sequence, of whatever its elements are
IsQueue(seq) == seq \in Seq(ToSet(seq))

Delivering(c) == pc[c] \in {"drain", "callback"}

\* From the first cancel() until it is delivered, SubscriptionClosed is the last
\* item of the queue or in its callback.  It alone completes a canceller, so that
\* none leaves the queue before, whether or not it owns the items.
TerminalOK ==
    ~accepting /\ ~terminalDelivered =>
        /\ IsQueue(items)
        /\ \/ Len(items) # 0 /\ items[Len(items)].kind = "Terminal"
           \/ \E t \in InCallback : current[t].kind = "Terminal"
        /\ \A i \in 1..Len(items) : items[i].last => items[i].kind = "Terminal"
        /\ \A c \in Cancellers :
              /\ Delivering(c) /\ target[c] = "none" =>
                    \A i \in 1..Len(items) : items[i].owner = None
              /\ pc[c] = "callback" /\ current[c].last => current[c].kind = "Terminal"

\* Whoever cancels, or has returned from activate(), has set activated_.
ActivatedOK ==
    /\ pc[Subscriber] \notin {"idle", "activate"} => activated
    /\ ~accepting => activated

IInv == TypeOK /\ ModeOK /\ CancelOK /\ ActivatedOK /\ TerminalOK

-----------------------------------------------------------------------------
(* What the steps do                                                       *)

\* A publication that the subscription is told of: a Direct publisher goes to
\* drain the queue, and nothing happens when accepting_ is false.
LEMMA TellShape ==
    ASSUME NEW p \in Publishers, TellEvent(p) \/ TellFrame(p)
    PROVE  /\ UNCHANGED <<mode, registered, accepting, activated, terminalDelivered>>
           /\ UNCHANGED <<deliverer, current>>
           /\ \/ UNCHANGED <<pc, target>>
              \/ /\ accepting /\ mode = "Direct"
                 /\ pc' = [pc EXCEPT ![p] = "drain"]
                 /\ target' = [target EXCEPT ![p] = "pending"]
           /\ ~accepting => UNCHANGED items
           /\ pc[p] = "idle"
<1> USE DEF host, queue, drops, lifecycle
<1>1. CASE TellEvent(p)
  BY <1>1, Zenon DEF TellEvent, Enqueue, Goto
<1>2. CASE TellFrame(p)
  BY <1>2, Zenon DEF TellFrame, Enqueue, Goto
<1> QED
  BY <1>1, <1>2, Zenon

\* cancel() from outside a callback.  The first one replaces the queue and drains it
\* or waits for the worker, a later one waits.
CancelsFirst(c, close) ==
    /\ accepting /\ ~accepting' /\ activated'
    /\ UNCHANGED <<mode, terminalDelivered, deliverer, current>>
    /\ \A t \in Threads \ {c, Worker} : pc'[t] = pc[t]
    /\ \A t \in Threads \ {c} : target'[t] = target[t]
    /\ \/ /\ mode = "Direct" /\ pc'[c] = "drain" /\ pc'[Worker] = pc[Worker]
          /\ \/ items' = OwnedBy(c, TerminalItems(close)) /\ target'[c] = "pending"
             \/ items' = TerminalItems(close) /\ target'[c] = "none"
       \/ /\ mode # "Direct" /\ pc'[c] = "join"
          /\ pc'[Worker] = IF pc[Worker] = "none" THEN "run" ELSE pc[Worker]
          /\ items' = TerminalItems(close) /\ target'[c] = "none"

CancelsAgain(c) ==
    /\ ~accepting
    /\ pc'[c] = IF terminalDelivered THEN "untilIdle" ELSE "untilTerminal"
    /\ \A t \in Threads \ {c} : pc'[t] = pc[t]
    /\ UNCHANGED <<mode, accepting, activated, terminalDelivered, deliverer, current>>
    /\ UNCHANGED <<items, target>>

\* Cancel is one or the other.
LEMMA CancelShape ==
    ASSUME TypeOK, NEW c \in Cancellers, NEW close, Cancel(c, close)
    PROVE  CancelsFirst(c, close) \/ CancelsAgain(c)
<1> USE ConstantsAssumption DEF TypeOK, Threads, host, queue, drops, lifecycle
<1>1. CASE accepting
  <2>1. c \in Threads /\ Worker \in Threads /\ c # Worker
    BY Zenon
  <2>2. /\ ~accepting' /\ activated'
        /\ UNCHANGED <<mode, terminalDelivered, deliverer, current>>
        /\ pc' = IF mode = "Direct" THEN [pc EXCEPT ![c] = "drain"]
                 ELSE [pc EXCEPT ![c] = "join", ![Worker] = IF @ = "none" THEN "run" ELSE @]
        /\ \/ /\ mode = "Direct" /\ items' = OwnedBy(c, TerminalItems(close))
              /\ target' = [target EXCEPT ![c] = "pending"]
           \/ items' = TerminalItems(close) /\ target' = [target EXCEPT ![c] = "none"]
    BY <1>1, Zenon DEF Cancel, CancelFirst
  <2> QED
    BY <1>1, <2>1, <2>2, Zenon DEF CancelsFirst
<1>2. CASE ~accepting
  BY <1>2, Zenon DEF Cancel, CancelAgain, CancelsAgain, Goto
<1> QED
  BY <1>1, <1>2, Zenon

-----------------------------------------------------------------------------
(* Each step keeps the invariant                                           *)

\* The mode of a subscription and the threads stay what they are.
LEMMA TypeStep ==
    ASSUME TypeOK, [Next]_vars
    PROVE  TypeOK'
<1> USE ConstantsAssumption DEF TypeOK, Goto, host, queue, drops, lifecycle
<1>1. CASE UNCHANGED vars
  BY <1>1, Zenon DEF vars
<1>2. ASSUME NEW gen \in {hostActive} \cup Generations, Subscribe(gen)
      PROVE  TypeOK'
  BY <1>2, Zenon DEF Subscribe
<1>3. ASSUME NEW p \in Publishers, Publish(p)
      PROVE  TypeOK'
  BY <1>3, Zenon DEF Publish, PublishOpened, PublishClosed, PublishFrame, BeginPublication
<1>4. ASSUME NEW p \in Publishers, TellEvent(p)
      PROVE  TypeOK'
  BY <1>4, TellShape, Zenon
<1>5. ASSUME NEW p \in Publishers, TellFrame(p)
      PROVE  TypeOK'
  BY <1>5, TellShape, Zenon
<1>6. CASE Activate
  BY <1>6, Zenon DEF Activate
<1>7. ASSUME NEW t \in Threads, DrainTake(t)
      PROVE  TypeOK'
  BY <1>7, Zenon DEF DrainTake, Take, Awake, MayDeliver
<1>8. ASSUME NEW t \in Threads, DrainLeave(t)
      PROVE  TypeOK'
  BY <1>8, Zenon DEF DrainLeave, Awake, MayDeliver, Return
<1>9. ASSUME NEW t \in Threads, DrainWait(t)
      PROVE  TypeOK'
  BY <1>9, Zenon DEF DrainWait, Awake, MayDeliver
<1>10. ASSUME NEW t \in Threads, Finish(t)
      PROVE  TypeOK'
  BY <1>10, Zenon DEF Finish, Ends, Return
<1>11. CASE WorkerTake
  BY <1>11, Zenon DEF WorkerTake, Take
<1>12. CASE WorkerWait
  BY <1>12, Zenon DEF WorkerWait
<1>13. ASSUME NEW c \in Cancellers, UserCancel(c)
      PROVE  TypeOK'
  BY <1>13, Zenon DEF UserCancel, Cancel, CancelFirst, CancelAgain
<1>14. ASSUME NEW c \in Cancellers, HostRelease(c)
      PROVE  TypeOK'
  BY <1>14, Zenon DEF HostRelease
<1>15. ASSUME NEW c \in Cancellers, HostCancel(c)
      PROVE  TypeOK'
  BY <1>15, Zenon DEF HostCancel, Cancel, CancelFirst, CancelAgain
<1>16. ASSUME NEW t \in Threads, SelfCancel(t)
      PROVE  TypeOK'
  BY <1>16, Zenon DEF SelfCancel
<1>17. ASSUME NEW c \in Cancellers, CancelJoin(c)
      PROVE  TypeOK'
  BY <1>17, Zenon DEF CancelJoin
<1>18. ASSUME NEW c \in Cancellers, CancelWait(c)
      PROVE  TypeOK'
  BY <1>18, Zenon DEF CancelWait, Waited
<1> QED
  BY <1>1, <1>2, <1>3, <1>4, <1>5, <1>6, <1>7, <1>8, <1>9, <1>10, <1>11, <1>12, <1>13,
      <1>14, <1>15, <1>16, <1>17, <1>18, Zenon DEF Next, GoesOn, Tell, Drain,
      CancelGoesOn, Threads

\* Only one thread delivers, the worker or one of the Direct callers.
LEMMA ModeStep ==
    ASSUME TypeOK, ModeOK, [Next]_vars
    PROVE  ModeOK'
<1> USE ConstantsAssumption DEF TypeOK, ModeOK, CallbacksAreSerialized, InCallback,
        Threads, Goto, host, queue, drops, lifecycle
<1>1. CASE UNCHANGED vars
  BY <1>1, Zenon DEF vars
<1>2. ASSUME NEW gen \in {hostActive} \cup Generations, Subscribe(gen)
      PROVE  ModeOK'
  BY <1>2, Zenon DEF Subscribe
<1>3. ASSUME NEW p \in Publishers, Publish(p)
      PROVE  ModeOK'
  BY <1>3, Zenon DEF Publish, PublishOpened, PublishClosed, PublishFrame, BeginPublication
<1>4. ASSUME NEW p \in Publishers, TellEvent(p)
      PROVE  ModeOK'
  BY <1>4, TellShape
<1>5. ASSUME NEW p \in Publishers, TellFrame(p)
      PROVE  ModeOK'
  BY <1>5, TellShape
<1>6. CASE Activate
  BY <1>6, Zenon DEF Activate
<1>7. ASSUME NEW t \in Threads, DrainTake(t)
      PROVE  ModeOK'
  BY <1>7, Zenon DEF DrainTake, Take, Awake, MayDeliver
<1>8. ASSUME NEW t \in Threads, DrainLeave(t)
      PROVE  ModeOK'
  BY <1>8, Zenon DEF DrainLeave, Awake, MayDeliver, Return
<1>9. ASSUME NEW t \in Threads, DrainWait(t)
      PROVE  ModeOK'
  BY <1>9, Zenon DEF DrainWait, Awake, MayDeliver
<1>10. ASSUME NEW t \in Threads, Finish(t)
      PROVE  ModeOK'
  BY <1>10, Zenon DEF Finish, Ends, Return
<1>11. CASE WorkerTake
  BY <1>11, Zenon DEF WorkerTake, Take
<1>12. CASE WorkerWait
  BY <1>12, Zenon DEF WorkerWait
<1>13. ASSUME NEW c \in Cancellers, UserCancel(c)
      PROVE  ModeOK'
  <2>1. CancelsFirst(c, FALSE) \/ CancelsAgain(c)
    BY <1>13, CancelShape, Zenon DEF UserCancel
  <2> QED
    BY <1>13, <2>1, Zenon DEF CancelsFirst, CancelsAgain
<1>14. ASSUME NEW c \in Cancellers, HostRelease(c)
      PROVE  ModeOK'
  BY <1>14, Zenon DEF HostRelease
<1>15. ASSUME NEW c \in Cancellers, HostCancel(c)
      PROVE  ModeOK'
  <2>1. CancelsFirst(c, TRUE) \/ CancelsAgain(c)
    BY <1>15, CancelShape, Zenon DEF HostCancel
  <2> QED
    BY <1>15, <2>1, Zenon DEF CancelsFirst, CancelsAgain
<1>16. ASSUME NEW t \in Threads, SelfCancel(t)
      PROVE  ModeOK'
  BY <1>16, Zenon DEF SelfCancel
<1>17. ASSUME NEW c \in Cancellers, CancelJoin(c)
      PROVE  ModeOK'
  BY <1>17, Zenon DEF CancelJoin
<1>18. ASSUME NEW c \in Cancellers, CancelWait(c)
      PROVE  ModeOK'
  BY <1>18, Zenon DEF CancelWait, Waited
<1> QED
  BY <1>1, <1>2, <1>3, <1>4, <1>5, <1>6, <1>7, <1>8, <1>9, <1>10, <1>11, <1>12, <1>13,
      <1>14, <1>15, <1>16, <1>17, <1>18, Zenon DEF Next, GoesOn, Tell, Drain,
      CancelGoesOn, Threads

\* A canceller leaves the queue only when terminal_delivered_ is set.
LEMMA CancellerLeaves ==
    ASSUME TypeOK, ModeOK, CancelOK, TerminalOK, NEW c \in Cancellers
    PROVE  /\ DrainLeave(c) => terminalDelivered
           /\ pc[c] = "callback" /\ current[c].last => Ends(current[c])
<1> USE ConstantsAssumption
<1>1. c \in Threads
  BY Zenon DEF Threads
<1>2. ASSUME DrainLeave(c), ~terminalDelivered
      PROVE  FALSE
  <2>1. /\ pc[c] = "drain" /\ MayDeliver(c) /\ ~Eligible(c) /\ target[c] = "none"
        /\ ~accepting
    BY <1>2, Zenon DEF DrainLeave, CancelOK, Cancelling
  <2>2. CASE Len(items) # 0
    <3>1. items # <<>> /\ 1 \in 1..Len(items) /\ Head(items) = items[1]
      BY <1>2, <2>1, <2>2 DEF TerminalOK, IsQueue
    <3> QED
      BY <1>2, <2>1, <3>1, Zenon DEF TerminalOK, Delivering, Eligible
  <2>3. CASE \E t \in InCallback : current[t].kind = "Terminal"
    BY <1>1, <2>1, <2>3, Zenon DEF ModeOK, CallbacksAreSerialized, InCallback, MayDeliver, Threads
  <2> QED
    BY <1>2, <2>1, <2>2, <2>3, Zenon DEF TerminalOK
<1>3. ASSUME pc[c] = "callback", current[c].last
      PROVE  Ends(current[c])
  BY <1>3, Zenon DEF CancelOK, TerminalOK, Cancelling, Ends
<1> QED
  BY <1>2, <1>3, Zenon

\* terminal_delivered_ is set only when no callback is left to wait for, or by the
\* sink whose callback the cancellers then wait for.
LEMMA CancelStep ==
    ASSUME TypeOK, ModeOK, CancelOK, TerminalOK, [Next]_vars
    PROVE  CancelOK'
<1> USE ConstantsAssumption DEF TypeOK, CancelOK, Cancelling,
        ReturnedCancelFencesCallbacks, InCallback, Threads, Goto, host, queue, drops,
        lifecycle
<1>1. CASE UNCHANGED vars
  BY <1>1, Zenon DEF vars
<1>2. ASSUME NEW gen \in {hostActive} \cup Generations, Subscribe(gen)
      PROVE  CancelOK'
  BY <1>2, Zenon DEF Subscribe
<1>3. ASSUME NEW p \in Publishers, Publish(p)
      PROVE  CancelOK'
  <2>1. UNCHANGED <<registered, accepting, terminalDelivered, pc>>
    BY <1>3, Zenon DEF Publish, PublishOpened, PublishClosed, PublishFrame, BeginPublication
  <2> QED
    BY <2>1, Zenon
<1>4. ASSUME NEW p \in Publishers, TellEvent(p)
      PROVE  CancelOK'
  BY <1>4, TellShape
<1>5. ASSUME NEW p \in Publishers, TellFrame(p)
      PROVE  CancelOK'
  BY <1>5, TellShape
<1>6. CASE Activate
  BY <1>6, Zenon DEF Activate
<1>7. ASSUME NEW t \in Threads, DrainTake(t)
      PROVE  CancelOK'
  BY <1>7, Zenon DEF DrainTake, Take, Awake, MayDeliver
<1>8. ASSUME NEW t \in Threads, DrainLeave(t)
      PROVE  CancelOK'
  <2>1. t \in Cancellers => terminalDelivered
    BY <1>8, CancellerLeaves, Zenon
  <2>2. CASE t \in Cancellers
    <3>1. InCallback = {}
      BY <1>8, <2>1, <2>2, Zenon DEF DrainLeave
    <3> QED
      BY <1>8, <2>1, <2>2, <3>1, Zenon DEF DrainLeave, Return
  <2>3. CASE t \notin Cancellers
    BY <1>8, <2>3, Zenon DEF DrainLeave, Return
  <2> QED
    BY <2>2, <2>3, Zenon
<1>9. ASSUME NEW t \in Threads, DrainWait(t)
      PROVE  CancelOK'
  BY <1>9, Zenon DEF DrainWait, Awake, MayDeliver
<1>10. ASSUME NEW t \in Threads, Finish(t)
      PROVE  CancelOK'
  <2>1. pc[t] = "callback" /\ InCallback = {t} /\ t \in Threads
    BY <1>10 DEF Finish, ModeOK, CallbacksAreSerialized
  <2>2. /\ terminalDelivered' = Ends(current[t]) /\ UNCHANGED <<accepting, registered>>
        /\ \A u \in Threads \ {t} : pc'[u] = pc[u]
    BY <1>10, Zenon DEF Finish
  <2>3. pc'[t] \in {"exited", "run", "idle", "done", "drain"}
    BY <1>10, Zenon DEF Finish, Return
  <2>4. /\ t \in Cancellers /\ pc'[t] = "done" => terminalDelivered'
        /\ t \in Cancellers => pc'[t] \in {"done", "drain"}
    <3>1. t \in Cancellers => (current[t].last => Ends(current[t]))
      BY <2>1, CancellerLeaves, Zenon
    <3> QED
      BY <1>10, <3>1, Zenon DEF Finish, Return
  <2>5. t = Subscriber => pc'[t] # "idle"
    BY <1>10, Zenon DEF Finish, Return
  <2>6. pc'[t] = "exited" => terminalDelivered'
    BY <1>10, Zenon DEF Finish, Return
  <2>7. InCallback' = {}
    BY <2>1, <2>2, <2>3, Zenon
  <2>8. \A c \in Cancellers : pc[c] # "done"
    BY <2>1, Zenon
  <2>9. terminalDelivered => terminalDelivered'
    BY <2>2, Zenon DEF Ends
  <2> HIDE DEF InCallback
  <2> QED
    BY <2>1, <2>2, <2>3, <2>4, <2>5, <2>6, <2>7, <2>8, <2>9, Zenon
<1>11. CASE WorkerTake
  BY <1>11, Zenon DEF WorkerTake, Take
<1>12. CASE WorkerWait
  BY <1>12, Zenon DEF WorkerWait
<1>13. ASSUME NEW c \in Cancellers, UserCancel(c)
      PROVE  CancelOK'
  <2>1. CancelsFirst(c, FALSE) \/ CancelsAgain(c)
    BY <1>13, CancelShape, Zenon DEF UserCancel
  <2>2. pc[c] = "idle" /\ pc[Subscriber] # "idle" /\ registered' = registered
    BY <1>13, Zenon DEF UserCancel
  <2>3. InCallback' = InCallback
    BY <2>1, <2>2, Zenon DEF CancelsFirst, CancelsAgain
  <2>4. CASE CancelsFirst(c, FALSE)
    BY <2>2, <2>3, <2>4, Zenon DEF CancelsFirst
  <2>5. CASE CancelsAgain(c)
    BY <2>2, <2>3, <2>5, Zenon DEF CancelsAgain
  <2> QED
    BY <2>1, <2>4, <2>5, Zenon
<1>14. ASSUME NEW c \in Cancellers, HostRelease(c)
      PROVE  CancelOK'
  BY <1>14, Zenon DEF HostRelease
<1>15. ASSUME NEW c \in Cancellers, HostCancel(c)
      PROVE  CancelOK'
  <2>1. CancelsFirst(c, TRUE) \/ CancelsAgain(c)
    BY <1>15, CancelShape, Zenon DEF HostCancel
  <2>2. pc[c] = "close" /\ pc[Subscriber] # "idle" /\ registered' = registered
    BY <1>15, Zenon DEF HostCancel
  <2>3. InCallback' = InCallback
    BY <2>1, <2>2, Zenon DEF CancelsFirst, CancelsAgain
  <2>4. CASE CancelsFirst(c, TRUE)
    BY <2>2, <2>3, <2>4, Zenon DEF CancelsFirst
  <2>5. CASE CancelsAgain(c)
    BY <2>2, <2>3, <2>5, Zenon DEF CancelsAgain
  <2> QED
    BY <2>1, <2>4, <2>5, Zenon
<1>16. ASSUME NEW t \in Threads, SelfCancel(t)
      PROVE  CancelOK'
  BY <1>16, Zenon DEF SelfCancel
<1>17. ASSUME NEW c \in Cancellers, CancelJoin(c)
      PROVE  CancelOK'
  BY <1>17, Zenon DEF CancelJoin
<1>18. ASSUME NEW c \in Cancellers, CancelWait(c)
      PROVE  CancelOK'
  <2>1. deliverer = None => InCallback = {}
    BY DEF ModeOK, CallbacksAreSerialized
  <2>2. Waited(c) => InCallback = {} /\ terminalDelivered
    BY <1>18, <2>1, Zenon DEF CancelWait, Waited
  <2>3. UNCHANGED <<accepting, terminalDelivered, registered>>
    BY <1>18, Zenon DEF CancelWait
  <2>4. CASE UNCHANGED pc
    BY <2>3, <2>4, Zenon
  <2>5. CASE Waited(c) /\ pc' = [pc EXCEPT ![c] = "done"]
    <3>1. InCallback' = {}
      BY <2>2, <2>5, Zenon
    <3> QED
      BY <1>18, <2>2, <2>3, <2>5, <3>1 DEF CancelWait
  <2> QED
    BY <1>18, <2>4, <2>5, Zenon DEF CancelWait
<1> QED
  BY <1>1, <1>2, <1>3, <1>4, <1>5, <1>6, <1>7, <1>8, <1>9, <1>10, <1>11, <1>12, <1>13,
      <1>14, <1>15, <1>16, <1>17, <1>18, Zenon DEF Next, GoesOn, Tell, Drain,
      CancelGoesOn, Threads

\* activated_ is never reset, and every way to end accepting_ finds or sets it.
LEMMA ActivatedStep ==
    ASSUME TypeOK, ActivatedOK, [Next]_vars
    PROVE  ActivatedOK'
<1> USE ConstantsAssumption DEF TypeOK, ActivatedOK, Threads, Goto, host, queue, drops,
        lifecycle
<1>1. CASE UNCHANGED vars
  BY <1>1, Zenon DEF vars
<1>2. ASSUME NEW gen \in {hostActive} \cup Generations, Subscribe(gen)
      PROVE  ActivatedOK'
  BY <1>2, Zenon DEF Subscribe
<1>3. ASSUME NEW p \in Publishers, Publish(p)
      PROVE  ActivatedOK'
  BY <1>3, Zenon DEF Publish, PublishOpened, PublishClosed, PublishFrame, BeginPublication
<1>4. ASSUME NEW p \in Publishers, TellEvent(p)
      PROVE  ActivatedOK'
  BY <1>4, TellShape, Zenon
<1>5. ASSUME NEW p \in Publishers, TellFrame(p)
      PROVE  ActivatedOK'
  BY <1>5, TellShape, Zenon
<1>6. CASE Activate
  BY <1>6, Zenon DEF Activate
<1>7. ASSUME NEW t \in Threads, DrainTake(t)
      PROVE  ActivatedOK'
  BY <1>7, Zenon DEF DrainTake, Take, Awake, MayDeliver
<1>8. ASSUME NEW t \in Threads, DrainLeave(t)
      PROVE  ActivatedOK'
  BY <1>8, Zenon DEF DrainLeave, Awake, MayDeliver, Return
<1>9. ASSUME NEW t \in Threads, DrainWait(t)
      PROVE  ActivatedOK'
  BY <1>9, Zenon DEF DrainWait, Awake, MayDeliver
<1>10. ASSUME NEW t \in Threads, Finish(t)
      PROVE  ActivatedOK'
  BY <1>10, Zenon DEF Finish, Ends, Return
<1>11. CASE WorkerTake
  BY <1>11, Zenon DEF WorkerTake, Take
<1>12. CASE WorkerWait
  BY <1>12, Zenon DEF WorkerWait
<1>13. ASSUME NEW c \in Cancellers, UserCancel(c)
      PROVE  ActivatedOK'
  <2>1. CancelsFirst(c, FALSE) \/ CancelsAgain(c)
    BY <1>13, CancelShape, Zenon DEF UserCancel
  <2> QED
    BY <1>13, <2>1, Zenon DEF CancelsFirst, CancelsAgain
<1>14. ASSUME NEW c \in Cancellers, HostRelease(c)
      PROVE  ActivatedOK'
  BY <1>14, Zenon DEF HostRelease
<1>15. ASSUME NEW c \in Cancellers, HostCancel(c)
      PROVE  ActivatedOK'
  <2>1. CancelsFirst(c, TRUE) \/ CancelsAgain(c)
    BY <1>15, CancelShape, Zenon DEF HostCancel
  <2> QED
    BY <1>15, <2>1, Zenon DEF CancelsFirst, CancelsAgain
<1>16. ASSUME NEW t \in Threads, SelfCancel(t)
      PROVE  ActivatedOK'
  BY <1>16, Zenon DEF SelfCancel
<1>17. ASSUME NEW c \in Cancellers, CancelJoin(c)
      PROVE  ActivatedOK'
  BY <1>17, Zenon DEF CancelJoin
<1>18. ASSUME NEW c \in Cancellers, CancelWait(c)
      PROVE  ActivatedOK'
  BY <1>18, Zenon DEF CancelWait, Waited
<1> QED
  BY <1>1, <1>2, <1>3, <1>4, <1>5, <1>6, <1>7, <1>8, <1>9, <1>10, <1>11, <1>12, <1>13,
      <1>14, <1>15, <1>16, <1>17, <1>18, Zenon DEF Next, GoesOn, Tell, Drain,
      CancelGoesOn, Threads

\* A sequence of elements of some set is one of its own elements.
LEMMA QueueOf ==
    ASSUME NEW S, NEW s \in Seq(S)
    PROVE  IsQueue(s)
BY DEF IsQueue, ToSet

\* What is left of a queue when its front is taken
LEMMA QueueTail ==
    ASSUME NEW s, IsQueue(s), s # <<>>
    PROVE  /\ IsQueue(Tail(s)) /\ Len(s) \in Nat \ {0} /\ Len(Tail(s)) = Len(s) - 1
           /\ Head(s) = s[1]
           /\ \A i \in 1..Len(Tail(s)) : i + 1 \in 1..Len(s) /\ Tail(s)[i] = s[i + 1]
<1>1. s \in Seq(ToSet(s))
  BY Zenon DEF IsQueue
<1>2. Tail(s) \in Seq(ToSet(s))
  BY <1>1
<1>3. IsQueue(Tail(s))
  BY <1>2, QueueOf, Zenon
<1>4. /\ Len(s) \in Nat \ {0} /\ Len(Tail(s)) = Len(s) - 1 /\ Head(s) = s[1]
      /\ \A i \in 1..Len(Tail(s)) : Tail(s)[i] = s[i + 1]
  BY <1>1
<1> QED
  BY <1>3, <1>4

\* A function on 1..n is a sequence of length n.
LEMMA SeqOfFunction ==
    ASSUME NEW n \in Nat, NEW S, NEW f \in [1..n -> S]
    PROVE  f \in Seq(S) /\ Len(f) = n
OBVIOUS

\* The records that Item() makes
IsItem(x) ==
    x = [kind |-> x.kind, gen |-> x.gen, n |-> x.n, owner |-> x.owner, last |-> x.last]

\* A queue that SubscriptionClosed ends, and that completes nobody before
Terminated(seq) ==
    /\ IsQueue(seq) /\ Len(seq) \in Nat \ {0}
    /\ seq[Len(seq)].kind = "Terminal"
    /\ \A i \in 1..Len(seq) : seq[i].last => seq[i].kind = "Terminal"

\* Such a queue, given to a thread, is still one.
LEMMA OwnedShape ==
    ASSUME NEW c, NEW plain, IsQueue(plain), Len(plain) \in Nat \ {0},
           plain[Len(plain)].kind = "Terminal",
           \A i \in 1..Len(plain) : IsItem(plain[i])
    PROVE  Terminated(OwnedBy(c, plain))
<1> DEFINE seq == OwnedBy(c, plain)
<1>1. seq = [i \in DOMAIN plain |-> [plain[i] EXCEPT !.owner = c, !.last = (i = Len(plain))]]
  BY Zenon DEF OwnedBy
<1> HIDE DEF seq
<1>2. DOMAIN plain = 1..Len(plain)
  BY DEF IsQueue
<1>3. IsQueue(seq) /\ Len(seq) = Len(plain)
  <2>1. DOMAIN seq = 1..Len(plain) /\ seq = [i \in 1..Len(plain) |-> seq[i]]
    BY <1>1, <1>2, Zenon
  <2>2. seq \in [1..Len(plain) -> ToSet(seq)]
    BY <2>1, Zenon DEF ToSet
  <2> QED
    BY <2>2, SeqOfFunction, Zenon DEF IsQueue
<1>4. \A i \in 1..Len(seq) : seq[i].kind = plain[i].kind /\ (seq[i].last => i = Len(plain))
  <2> TAKE i \in 1..Len(seq)
  <2>1. seq[i] = [plain[i] EXCEPT !.owner = c, !.last = (i = Len(plain))]
    BY <1>1, <1>2, <1>3, Zenon
  <2>2. IsItem(plain[i])
    BY <1>3, Zenon
  <2> QED
    BY <2>1, <2>2, Zenon DEF IsItem
<1>5. Terminated(seq)
  BY <1>3, <1>4 DEF Terminated
<1> QED
  BY <1>5, Zenon DEF seq

\* What prepare_terminal_locked queues, as it is and given to the canceller
LEMMA TerminalShape ==
    ASSUME NEW close \in BOOLEAN
    PROVE  /\ Terminated(TerminalItems(close))
           /\ \A i \in 1..Len(TerminalItems(close)) : TerminalItems(close)[i].owner = None
           /\ \A c : Terminated(OwnedBy(c, TerminalItems(close)))
<1> DEFINE seq == TerminalItems(close)
           end == Item("Terminal", 0, IF close THEN 1 ELSE 0)
           S == {Closed(delivered), Opened(active), Closed(active), end}
           first == IF close /\ delivered # 0 THEN <<Closed(delivered)>> ELSE <<>>
           second == IF close /\ active \notin {0, delivered}
                     THEN <<Opened(active), Closed(active)>> ELSE <<>>
<1>1. \A x \in S : ~x.last /\ x.owner = None /\ IsItem(x)
  BY DEF Item, Opened, Closed, IsItem
<1>2. end \in S /\ end.kind = "Terminal"
  BY Zenon DEF Item
<1>3. seq = first \o second \o <<end>>
  BY Zenon DEF TerminalItems
<1>4. first \in Seq(S) /\ second \in Seq(S)
  <2>1. \A T : \A x, y \in T : <<>> \in Seq(T) /\ <<x>> \in Seq(T) /\ <<x, y>> \in Seq(T)
    OBVIOUS
  <2> QED
    BY <2>1, Zenon
<1> HIDE DEF seq, end, S, first, second
<1>5. seq \in Seq(S) /\ Len(seq) \in Nat \ {0} /\ seq[Len(seq)] = end
  BY <1>2, <1>3, <1>4
<1>6. \A i \in 1..Len(seq) : seq[i] \in S
  BY <1>5
<1>7. /\ Terminated(seq) /\ \A i \in 1..Len(seq) : IsItem(seq[i])
      /\ \A i \in 1..Len(seq) : seq[i].owner = None
  BY <1>1, <1>2, <1>5, <1>6, QueueOf, Zenon DEF Terminated
<1>8. \A c : Terminated(OwnedBy(c, seq))
  BY <1>7, OwnedShape, Zenon DEF Terminated
<1> QED
  BY <1>7, <1>8, Zenon DEF seq

\* SubscriptionClosed stays the last item until its callback has returned.
LEMMA TerminalStep ==
    ASSUME TypeOK, ModeOK, CancelOK, ActivatedOK, TerminalOK, [Next]_vars
    PROVE  TerminalOK'
<1> USE ConstantsAssumption DEF TypeOK, TerminalOK, Delivering, InCallback, Threads,
        Goto, host, queue, drops, lifecycle
<1>1. CASE UNCHANGED vars
  BY <1>1, Zenon DEF vars
<1>2. ASSUME NEW gen \in {hostActive} \cup Generations, Subscribe(gen)
      PROVE  TerminalOK'
  BY <1>2, Zenon DEF Subscribe, CancelOK
<1>3. ASSUME NEW p \in Publishers, Publish(p)
      PROVE  TerminalOK'
  <2>1. UNCHANGED <<accepting, terminalDelivered, items, pc, current, target>>
    BY <1>3, Zenon DEF Publish, PublishOpened, PublishClosed, PublishFrame, BeginPublication
  <2> QED
    BY <2>1, Zenon
<1>4. ASSUME NEW p \in Publishers, TellEvent(p)
      PROVE  TerminalOK'
  BY <1>4, TellShape, Zenon
<1>5. ASSUME NEW p \in Publishers, TellFrame(p)
      PROVE  TerminalOK'
  BY <1>5, TellShape, Zenon
<1>6. CASE Activate
  <2>1. CASE ~accepting
    BY <1>6, <2>1, Zenon DEF Activate, ActivatedOK
  <2>2. CASE accepting
    BY <1>6, <2>2, Zenon DEF Activate
  <2> QED
    BY <2>1, <2>2, Zenon
<1>7. ASSUME NEW t \in Threads, DrainTake(t)
      PROVE  TerminalOK'
  <2> SUFFICES ASSUME ~accepting, ~terminalDelivered
               PROVE  TerminalOK'
    BY <1>7, Zenon DEF DrainTake, WorkerTake, Take
  <2> DEFINE T == t
  <2>1. /\ T \in Threads /\ pc[T] # "callback" /\ items # <<>>
        /\ items' = Tail(items) /\ UNCHANGED target
        /\ current' = [current EXCEPT ![T] = Head(items)]
        /\ pc' = [pc EXCEPT ![T] = "callback"]
        /\ T \in Cancellers => pc[T] = "drain"
    BY <1>7, Zenon DEF DrainTake, WorkerTake, Take
  <2> HIDE DEF T
  <2>2. IsQueue(items)
    BY Zenon
  <2>3. /\ IsQueue(items') /\ Len(items) \in Nat \ {0} /\ Len(items') = Len(items) - 1
        /\ Head(items) = items[1]
        /\ \A i \in 1..Len(items') : i + 1 \in 1..Len(items) /\ items'[i] = items[i + 1]
    BY <2>1, <2>2, QueueTail, Zenon
  <2>4. /\ \A u \in Threads \ {T} : pc'[u] = pc[u] /\ current'[u] = current[u]
        /\ pc'[T] = "callback" /\ current'[T] = items[1]
    BY <2>1, <2>3, Zenon
  <2>5. \/ Len(items') # 0 /\ items'[Len(items')].kind = "Terminal"
        \/ \E u \in InCallback' : current'[u].kind = "Terminal"
    <3>1. CASE Len(items) # 0 /\ items[Len(items)].kind = "Terminal" /\ Len(items) = 1
      BY <2>1, <2>4, <3>1
    <3>2. CASE Len(items) # 0 /\ items[Len(items)].kind = "Terminal" /\ Len(items) # 1
      BY <2>3, <3>2
    <3>3. ASSUME NEW u \in InCallback, current[u].kind = "Terminal"
          PROVE  \E v \in InCallback' : current'[v].kind = "Terminal"
      BY <2>1, <2>4, <3>3, Zenon
    <3> QED
      BY <3>1, <3>2, <3>3, Zenon
  <2>6. \A i \in 1..Len(items') : items'[i].last => items'[i].kind = "Terminal"
    BY <2>3
  <2>7. ASSUME NEW c \in Cancellers
        PROVE  /\ Delivering(c)' /\ target'[c] = "none" =>
                      \A i \in 1..Len(items') : items'[i].owner = None
               /\ pc'[c] = "callback" /\ current'[c].last => current'[c].kind = "Terminal"
    <3>1. Delivering(c)' => Delivering(c)
      BY <2>1, <2>4, Zenon
    <3>2. 1 \in 1..Len(items)
      BY <2>3
    <3> QED
      BY <2>1, <2>3, <2>4, <3>1, <3>2
  <2> QED
    BY <2>3, <2>5, <2>6, <2>7, Zenon
<1>8. ASSUME NEW t \in Threads, DrainLeave(t)
      PROVE  TerminalOK'
  <2>1. t \in Cancellers => terminalDelivered
    BY <1>8, CancellerLeaves, Zenon
  <2>2. InCallback' = InCallback
    BY <1>8, Zenon DEF DrainLeave, Return
  <2> QED
    BY <1>8, <2>1, <2>2, Zenon DEF DrainLeave, Return
<1>9. ASSUME NEW t \in Threads, DrainWait(t)
      PROVE  TerminalOK'
  BY <1>9, Zenon DEF DrainWait, Awake, MayDeliver
<1>10. ASSUME NEW t \in Threads, Finish(t)
      PROVE  TerminalOK'
  <2> SUFFICES ASSUME ~accepting, ~Ends(current[t])
               PROVE  TerminalOK'
    BY <1>10, Zenon DEF Finish
  <2>1. /\ pc[t] = "callback" /\ InCallback = {t} /\ ~terminalDelivered
        /\ current[t].kind # "Terminal"
    BY <1>10 DEF Finish, Ends, ModeOK, CallbacksAreSerialized
  <2>2. /\ UNCHANGED items
        /\ \A u \in Threads \ {t} : /\ pc'[u] = pc[u] /\ target'[u] = target[u]
                                     /\ current'[u] = current[u]
    BY <1>10, Zenon DEF Finish
  <2>3. t \in Cancellers => pc'[t] = "drain" /\ target'[t] = target[t]
    <3>1. t \in Cancellers => ~current[t].last /\ t # Worker
      BY <2>1, Zenon
    <3> QED
      BY <1>10, <3>1, Zenon DEF Finish
  <2>4. Len(items) # 0 /\ items[Len(items)].kind = "Terminal"
    BY <2>1, Zenon
  <2> QED
    BY <2>1, <2>2, <2>3, <2>4
<1>11. CASE WorkerTake
  <2> SUFFICES ASSUME ~accepting, ~terminalDelivered
               PROVE  TerminalOK'
    BY <1>11, Zenon DEF DrainTake, WorkerTake, Take
  <2> DEFINE T == Worker
  <2>1. /\ T \in Threads /\ pc[T] # "callback" /\ items # <<>>
        /\ items' = Tail(items) /\ UNCHANGED target
        /\ current' = [current EXCEPT ![T] = Head(items)]
        /\ pc' = [pc EXCEPT ![T] = "callback"]
        /\ T \in Cancellers => pc[T] = "drain"
    BY <1>11, Zenon DEF DrainTake, WorkerTake, Take
  <2> HIDE DEF T
  <2>2. IsQueue(items)
    BY Zenon
  <2>3. /\ IsQueue(items') /\ Len(items) \in Nat \ {0} /\ Len(items') = Len(items) - 1
        /\ Head(items) = items[1]
        /\ \A i \in 1..Len(items') : i + 1 \in 1..Len(items) /\ items'[i] = items[i + 1]
    BY <2>1, <2>2, QueueTail, Zenon
  <2>4. /\ \A u \in Threads \ {T} : pc'[u] = pc[u] /\ current'[u] = current[u]
        /\ pc'[T] = "callback" /\ current'[T] = items[1]
    BY <2>1, <2>3, Zenon
  <2>5. \/ Len(items') # 0 /\ items'[Len(items')].kind = "Terminal"
        \/ \E u \in InCallback' : current'[u].kind = "Terminal"
    <3>1. CASE Len(items) # 0 /\ items[Len(items)].kind = "Terminal" /\ Len(items) = 1
      BY <2>1, <2>4, <3>1
    <3>2. CASE Len(items) # 0 /\ items[Len(items)].kind = "Terminal" /\ Len(items) # 1
      BY <2>3, <3>2
    <3>3. ASSUME NEW u \in InCallback, current[u].kind = "Terminal"
          PROVE  \E v \in InCallback' : current'[v].kind = "Terminal"
      BY <2>1, <2>4, <3>3, Zenon
    <3> QED
      BY <3>1, <3>2, <3>3, Zenon
  <2>6. \A i \in 1..Len(items') : items'[i].last => items'[i].kind = "Terminal"
    BY <2>3
  <2>7. ASSUME NEW c \in Cancellers
        PROVE  /\ Delivering(c)' /\ target'[c] = "none" =>
                      \A i \in 1..Len(items') : items'[i].owner = None
               /\ pc'[c] = "callback" /\ current'[c].last => current'[c].kind = "Terminal"
    <3>1. Delivering(c)' => Delivering(c)
      BY <2>1, <2>4, Zenon
    <3>2. 1 \in 1..Len(items)
      BY <2>3
    <3> QED
      BY <2>1, <2>3, <2>4, <3>1, <3>2
  <2> QED
    BY <2>3, <2>5, <2>6, <2>7, Zenon
<1>12. CASE WorkerWait
  BY <1>12, Zenon DEF WorkerWait
<1>13. ASSUME NEW c \in Cancellers, UserCancel(c)
      PROVE  TerminalOK'
  <2>1. CancelsFirst(c, FALSE) \/ CancelsAgain(c)
    BY <1>13, CancelShape, Zenon DEF UserCancel
  <2>2. pc[c] = "idle" /\ c # Worker
    BY <1>13, Zenon DEF UserCancel
  <2>3. CASE CancelsFirst(c, FALSE)
    <3>1. Terminated(items')
      <4>1. Terminated(TerminalItems(FALSE)) /\ Terminated(OwnedBy(c, TerminalItems(FALSE)))
        BY TerminalShape, Zenon
      <4>2. items' \in {TerminalItems(FALSE), OwnedBy(c, TerminalItems(FALSE))}
        BY <2>3, Zenon DEF CancelsFirst
      <4> QED
        BY <4>1, <4>2, Zenon
    <3>2. target'[c] = "none" => \A i \in 1..Len(items') : items'[i].owner = None
      BY <2>3, TerminalShape, Zenon DEF CancelsFirst
    <3>3. /\ pc'[c] # "callback"
          /\ \A d \in Cancellers \ {c} : pc'[d] = pc[d] /\ ~Delivering(d)
      BY <2>3, Zenon DEF CancelsFirst, CancelOK, Cancelling
    <3> QED
      BY <3>1, <3>2, <3>3, Zenon DEF Terminated
  <2>4. CASE CancelsAgain(c)
    <3>1. InCallback' = InCallback
      BY <2>2, <2>4, Zenon DEF CancelsAgain
    <3> QED
      BY <2>2, <2>4, <3>1, Zenon DEF CancelsAgain
  <2> QED
    BY <2>1, <2>3, <2>4, Zenon
<1>14. ASSUME NEW c \in Cancellers, HostRelease(c)
      PROVE  TerminalOK'
  BY <1>14, Zenon DEF HostRelease
<1>15. ASSUME NEW c \in Cancellers, HostCancel(c)
      PROVE  TerminalOK'
  <2>1. CancelsFirst(c, TRUE) \/ CancelsAgain(c)
    BY <1>15, CancelShape, Zenon DEF HostCancel
  <2>2. pc[c] = "close" /\ c # Worker
    BY <1>15, Zenon DEF HostCancel
  <2>3. CASE CancelsFirst(c, TRUE)
    <3>1. Terminated(items')
      <4>1. Terminated(TerminalItems(TRUE)) /\ Terminated(OwnedBy(c, TerminalItems(TRUE)))
        BY TerminalShape, Zenon
      <4>2. items' \in {TerminalItems(TRUE), OwnedBy(c, TerminalItems(TRUE))}
        BY <2>3, Zenon DEF CancelsFirst
      <4> QED
        BY <4>1, <4>2, Zenon
    <3>2. target'[c] = "none" => \A i \in 1..Len(items') : items'[i].owner = None
      BY <2>3, TerminalShape, Zenon DEF CancelsFirst
    <3>3. /\ pc'[c] # "callback"
          /\ \A d \in Cancellers \ {c} : pc'[d] = pc[d] /\ ~Delivering(d)
      BY <2>3, Zenon DEF CancelsFirst, CancelOK, Cancelling
    <3> QED
      BY <3>1, <3>2, <3>3, Zenon DEF Terminated
  <2>4. CASE CancelsAgain(c)
    <3>1. InCallback' = InCallback
      BY <2>2, <2>4, Zenon DEF CancelsAgain
    <3> QED
      BY <2>2, <2>4, <3>1, Zenon DEF CancelsAgain
  <2> QED
    BY <2>1, <2>3, <2>4, Zenon
<1>16. ASSUME NEW t \in Threads, SelfCancel(t)
      PROVE  TerminalOK'
  BY <1>16, Zenon DEF SelfCancel
<1>17. ASSUME NEW c \in Cancellers, CancelJoin(c)
      PROVE  TerminalOK'
  BY <1>17, Zenon DEF CancelJoin
<1>18. ASSUME NEW c \in Cancellers, CancelWait(c)
      PROVE  TerminalOK'
  BY <1>18, Zenon DEF CancelWait, Waited
<1> QED
  BY <1>1, <1>2, <1>3, <1>4, <1>5, <1>6, <1>7, <1>8, <1>9, <1>10, <1>11, <1>12, <1>13,
      <1>14, <1>15, <1>16, <1>17, <1>18, Zenon DEF Next, GoesOn, Tell, Drain,
      CancelGoesOn, Threads

-----------------------------------------------------------------------------
(* The theorems                                                            *)

\* A subscription that nobody has registered yet satisfies the invariant.
LEMMA InitIInv == Init => IInv
<1> SUFFICES ASSUME Init PROVE IInv
  BY Zenon
<1> USE ConstantsAssumption DEF Init, Threads, InCallback
<1>1. TypeOK
  BY Zenon DEF TypeOK
<1>2. ModeOK
  BY Zenon DEF ModeOK, CallbacksAreSerialized
<1>3. CancelOK
  BY Zenon DEF CancelOK, Cancelling, ReturnedCancelFencesCallbacks
<1>4. ActivatedOK /\ TerminalOK
  BY Zenon DEF ActivatedOK, TerminalOK
<1> QED
  BY <1>1, <1>2, <1>3, <1>4, Zenon DEF IInv

\* The inductive invariant: from the first cancel() of MediaStreamSubscription until
\* its callback returns, SubscriptionClosed is the end of the queue, and the
\* cancellers that wait for it do not find terminal_delivered_ set too early.
THEOREM SubscriptionInvariant == Spec => []IInv
<1>1. IInv /\ [Next]_vars => IInv'
  BY TypeStep, ModeStep, CancelStep, ActivatedStep, TerminalStep, Zenon DEF IInv
<1> QED
  BY InitIInv, <1>1, PTL DEF Spec

\* Whichever publishers, cancellers or worker drain the queue of a subscription, at
\* most one of them is in a callback, and delivery_thread_ names it.
THEOREM CallbacksAreSerial == Spec => []CallbacksAreSerialized
<1>1. IInv => CallbacksAreSerialized
  BY Zenon DEF IInv, ModeOK
<1> QED
  BY SubscriptionInvariant, <1>1, PTL

\* Once a cancel() from outside a callback has returned, no callback is running and
\* terminal_delivered_ keeps any from starting: in both dispatch modes, for the
\* first cancel() and for the later ones, also when the sink has cancelled itself.
THEOREM CancelIsAFence == Spec => []ReturnedCancelFencesCallbacks
<1>1. IInv => ReturnedCancelFencesCallbacks
  BY Zenon DEF IInv, CancelOK
<1> QED
  BY SubscriptionInvariant, <1>1, PTL

=============================================================================
