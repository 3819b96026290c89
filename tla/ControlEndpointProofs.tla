----------------------- MODULE ControlEndpointProofs -----------------------
(***************************************************************************)
(* Proofs of the safety invariants of ControlEndpoint, for any number of   *)
(* threads, handlers, calls and restarts.  The parts of the inductive      *)
(* invariant follow the parts of the endpoint: its lifecycle, the handlers *)
(* that are called and released, the operations they return, the queues.   *)
(***************************************************************************)
EXTENDS ControlEndpoint, TLAPS

OperationSets == SUBSET Nat
CallerStates == {"idle", "starting", "spawning", "waiting", "joining", "collecting",
                 "idling", "canceling"}

\* The shape of the state, as far as the proofs need it.
TypeOK ==
    /\ calls \in Nat /\ given \subseteq Nat
    /\ handlers \subseteq Slots /\ methods \subseteq Slots
    /\ active \subseteq Slots /\ released \subseteq Slots
    /\ pending \in [Slots -> OperationSets]
    /\ calling \in Slots \cup {None}
    /\ pc \in [Callers -> CallerStates]
    /\ arg \in [Callers -> Slots \cup {None}]
    /\ held \in [Callers -> OperationSets]

\* One start or one stop is under way; there is a worker only between them.
LifeOK ==
    /\ \A c \in Callers : pc[c] \in {"starting", "spawning"} <=> locked = c
    /\ locked # None => life = "Stopped" /\ sealed
    /\ life = "Stopped" => worker = "none"
    /\ life # "Stopped" => sealed
    /\ \A c \in Callers : pc[c] \in {"joining", "collecting"} => life = "Stopping"
    /\ \A c, d \in Callers : pc[c] \in {"joining", "collecting"}
                             /\ pc[d] \in {"joining", "collecting"} => c = d
    /\ \A c \in Callers : pc[c] = "collecting" => worker = "none"

\* A slot that is reset is not active, and idle once its operations are cancelled.
HandlerOK ==
    /\ calling # None <=> worker = "handler"
    /\ calling # None => calling \in methods
    /\ methods # {} => sealed /\ methods \subseteq handlers
    /\ \A c \in Callers : IF pc[c] \in {"idling", "canceling"} THEN arg[c] \in Slots \ active
                                                             ELSE arg[c] = None
    /\ \A c \in Callers : pc[c] = "canceling" => calling # arg[c]
    /\ released \cap active = {}
    /\ calling \notin released

\* Operations are listed in slots of a started endpoint that are registered, and in
\* an inactive slot only until the reset that deactivated it collects them.
OperationOK ==
    /\ \A o \in given : o <= calls
    /\ worker = "handler" => calls \notin given
    /\ \A s \in Slots : pending[s] # {} =>
          /\ s \in handlers /\ life # "Stopped"
          /\ s \in active \/ \E c \in Callers : pc[c] = "idling" /\ arg[c] = s
    /\ \A c \in Callers : held[c] # {} => pc[c] \in {"collecting", "canceling"}

\* What is queued, and what the worker has taken, was accepted since the last stop.
QueueOK ==
    /\ queue \in [Queues -> Seq({stops})]
    /\ worker \in Queues => batch \in Seq({stops})

IInv == TypeOK /\ LifeOK /\ HandlerOK /\ OperationOK /\ QueueOK /\ OperationsAreCanceled

-----------------------------------------------------------------------------
\* Before the first start nothing is registered, listed or queued.
LEMMA InitIInv == Init => IInv
<1> SUFFICES ASSUME Init PROVE IInv
  BY Zenon
<1>1. TypeOK
  BY ConstantsAssumption, Zenon DEF Init, TypeOK, OperationSets, CallerStates
<1>2. LifeOK /\ HandlerOK /\ OperationOK /\ QueueOK /\ OperationsAreCanceled
  BY ConstantsAssumption
     DEF Init, LifeOK, HandlerOK, OperationOK, OperationsAreCanceled, QueueOK, Queues
<1> QED
  BY <1>1, <1>2, Zenon DEF IInv

\* Sequences of the elements of a set.
LEMMA SeqFacts ==
    ASSUME NEW S, NEW b \in Seq(S)
    PROVE  /\ <<>> \in Seq(S)
           /\ b # <<>> => Tail(b) \in Seq(S)
           /\ \A e \in S : Append(b, e) \in Seq(S)
OBVIOUS

\* run_pending_tasks and send_pending_events: taking the queue has the same shape in both.
LEMMA TakeShape ==
    ASSUME NEW q \in Queues, Take(q)
    PROVE  /\ worker \in {"poll", "tasks done"} /\ worker' \in {"tasks", "events", "gone"}
           /\ \/ batch' = queue[q] /\ queue' = [queue EXCEPT ![q] = <<>>]
              \/ worker' = "gone" /\ UNCHANGED queue
           /\ UNCHANGED <<lifecycle, registry, slots, calling, calls, callers>>
<1>1. q = "tasks" \/ q = "events"
  BY Zenon DEF Queues
<1> QED
  BY <1>1, Zenon DEF Take

\* ... and what handling one item, or the end of the batch, has in common.
LEMMA HandleShape ==
    ASSUME NEW q \in Queues, Handle(q)
    PROVE  /\ worker \in {"tasks", "events"}
           /\ worker' \in {"tasks", "events", "tasks done", "loop"}
           /\ \/ batch # <<>> /\ batch' = Tail(batch)
              \/ batch' = <<>>
           /\ UNCHANGED <<lifecycle, registry, slots, calling, calls, queue, callers>>
<1>1. q = "tasks" \/ q = "events"
  BY Zenon DEF Queues
<1> QED
  BY <1>1, Zenon DEF Handle

\* Every variable keeps its type.
LEMMA TypeStep ==
    ASSUME IInv, [Next]_vars
    PROVE  TypeOK'
<1> USE ConstantsAssumption DEF IInv, TypeOK, CallerStates, Operations
<1>1. CASE UNCHANGED vars
  BY <1>1, Zenon DEF vars, lifecycle, registry, slots, work, callers
<1>2. CASE HandlerReturns
  <2>1. calling \in Slots /\ pending[calling] \in OperationSets
    BY <1>2, Zenon DEF HandlerReturns, HandlerOK
  <2>2. /\ pending[calling] \ ready \in OperationSets
        /\ (pending[calling] \ ready) \cup {calls} \in OperationSets
    BY <2>1, Zenon DEF OperationSets
  <2> QED
    BY <1>2, <2>1, <2>2, ZenonT(60) DEF HandlerReturns, Keep, lifecycle, registry, slots, work, callers
<1>3. CASE HandlerEnds
  <2>1. calling \in Slots /\ pending[calling] \ ready \in OperationSets
    BY <1>3, Zenon DEF HandlerEnds, HandlerOK, OperationSets
  <2> QED
    BY <1>3, <2>1, Zenon DEF HandlerEnds, lifecycle, registry, slots, work, callers
<1>4. CASE CancelReturned
  BY <1>4, Zenon DEF CancelReturned, lifecycle, registry, slots, work, callers
<1>5. CASE Throws \/ Loop
  BY <1>5, Zenon DEF Throws, Loop, lifecycle, registry, slots, work, callers
<1>6. CASE \E s \in Slots : Invoke(s)
  BY <1>6 DEF Invoke, lifecycle, registry, slots, work, callers
<1>7. CASE \E s \in Slots : HandlerReleases(s)
  <2>1. {} \in OperationSets
    BY Zenon DEF OperationSets
  <2> QED
    BY <1>7, <2>1 DEF HandlerReleases, lifecycle, registry, slots, work, callers
<1>8. CASE \E q \in Queues : Take(q)
  BY <1>8, TakeShape, Zenon DEF lifecycle, registry, slots, work, callers
<1>9. CASE \E q \in Queues : Handle(q)
  BY <1>9, HandleShape, Zenon DEF lifecycle, registry, slots, work, callers
<1>10. CASE \/ \E o \in Operations : Complete(o)
           \/ \E s \in Slots : Register(s)
  BY <1>10, Zenon DEF Complete, Register, Operations, lifecycle, registry, slots, work, callers
<1>11. CASE \E c \in Callers, s \in Slots : Reset(c, s)
  BY <1>11 DEF Reset, Goto, lifecycle, registry, slots, work, callers
<1>12. CASE \E c \in Callers, q \in Queues : Post(c, q)
  BY <1>12, Zenon DEF Post, lifecycle, registry, slots, work, callers
<1>13. CASE \E c \in Callers : StartSeals(c) \/ StartIsUnavailable(c) \/ StartRuns(c)
  BY <1>13, Zenon DEF StartSeals, StartIsUnavailable, StartRuns, Goto,
     lifecycle, registry, slots, work, callers
<1>14. CASE \E c \in Callers : StartSpawns(c) \/ StartThrows(c)
  BY <1>14, Zenon DEF StartSpawns, StartThrows, Goto, lifecycle, registry, slots, work, callers
<1>15. CASE \E c \in Callers : Stop(c) \/ StopWaited(c) \/ StopJoined(c)
  BY <1>15, Zenon DEF Stop, StopWaited, StopJoined, Goto, lifecycle, registry, slots, work, callers
<1>16. CASE \E c \in Callers : StopCollects(c)
  <2>1. \A s \in Slots : pending[s] \ ready \in OperationSets /\ {} \in OperationSets
    BY Zenon DEF OperationSets
  <2>2. PICK c \in Callers, s \in handlers :
          /\ held' = [held EXCEPT ![c] = pending[s] \ ready]
          /\ pending' = [pending EXCEPT ![s] = {}]
    BY <1>16, Zenon DEF StopCollects
  <2>3. s \in Slots /\ UNCHANGED <<calls, given, registry, active, released, calling, pc, arg>>
    BY <1>16, Zenon DEF StopCollects, lifecycle, registry, slots, work, callers
  <2> QED
    BY <2>1, <2>2, <2>3, Zenon DEF registry
<1>17. CASE \E c \in Callers : CancelHeld(c)
  <2>1. \A c \in Callers, o \in Nat : held[c] \ {o} \in OperationSets
    BY Zenon DEF OperationSets
  <2>2. \A c \in Callers : held[c] \subseteq Nat
    BY Zenon DEF OperationSets
  <2> QED
    BY <1>17, <2>1, <2>2 DEF CancelHeld, lifecycle, registry, slots, work, callers
<1>18. CASE \E c \in Callers : StopEnds(c)
  BY <1>18, Zenon DEF StopEnds, Cleared, Goto, lifecycle, registry, slots, work, callers
<1>19. CASE \E c \in Callers : CollectReleased(c)
  <2>1. PICK c \in Callers : CollectReleased(c)
    BY <1>19, Zenon
  <2>2. arg[c] \in Slots
    BY <2>1, Zenon DEF CollectReleased, HandlerOK
  <2>3. pending[arg[c]] \ ready \in OperationSets /\ {} \in OperationSets
    BY <2>2, Zenon DEF OperationSets
  <2> QED
    BY <2>1, <2>2, <2>3, Zenon DEF CollectReleased, Goto, lifecycle, registry, slots, work, callers
<1>20. CASE \E c \in Callers : ResetReturns(c)
  BY <1>20 DEF HandlerOK, ResetReturns, Goto, lifecycle, registry, slots, work, callers
<1> QED
  BY <1>1, <1>2, <1>3, <1>4, <1>5, <1>6, <1>7, <1>8, <1>9, <1>10,
     <1>11, <1>12, <1>13, <1>14, <1>15, <1>16, <1>17, <1>18, <1>19, <1>20, Zenon
     DEF Next, WorkerStep, CallerStep

\* The lifecycle: one start or one stop at a time.
LEMMA LifeStep ==
    ASSUME IInv, [Next]_vars
    PROVE  LifeOK'
<1> USE ConstantsAssumption DEF IInv, TypeOK, LifeOK, HandlerOK
<1>1. CASE UNCHANGED vars
  BY <1>1, Zenon DEF vars, lifecycle, registry, slots, work, callers
<1>2. CASE HandlerReturns
  BY <1>2, Zenon DEF HandlerReturns, Keep, lifecycle, registry, slots, work, callers
<1>3. CASE HandlerEnds
  BY <1>3, Zenon DEF HandlerEnds, lifecycle, registry, slots, work, callers
<1>4. CASE CancelReturned
  BY <1>4, Zenon DEF CancelReturned, lifecycle, registry, slots, work, callers
<1>5. CASE Throws \/ Loop
  BY <1>5, Zenon DEF Throws, Loop, lifecycle, registry, slots, work, callers
<1>6. CASE \E s \in Slots : Invoke(s)
  BY <1>6 DEF Invoke, lifecycle, registry, slots, work, callers
<1>7. CASE \E s \in Slots : HandlerReleases(s)
  BY <1>7 DEF HandlerReleases, lifecycle, registry, slots, work, callers
<1>8. CASE \E q \in Queues : Take(q)
  BY <1>8, TakeShape, Zenon DEF lifecycle, registry, slots, work, callers
<1>9. CASE \E q \in Queues : Handle(q)
  BY <1>9, HandleShape, Zenon DEF lifecycle, registry, slots, work, callers
<1>10. CASE \/ \E o \in Operations : Complete(o)
           \/ \E s \in Slots : Register(s)
  BY <1>10, Zenon DEF Complete, Register, lifecycle, registry, slots, work, callers
<1>11. CASE \E c \in Callers, s \in Slots : Reset(c, s)
  BY <1>11 DEF Reset, Goto, lifecycle, registry, slots, work, callers
<1>12. CASE \E c \in Callers, q \in Queues : Post(c, q)
  BY <1>12 DEF Post, lifecycle, registry, slots, work, callers
<1>13. CASE \E c \in Callers : StartSeals(c) \/ StartIsUnavailable(c) \/ StartRuns(c)
  BY <1>13 DEF StartSeals, StartIsUnavailable, StartRuns, Goto,
     lifecycle, registry, slots, work, callers
<1>14. CASE \E c \in Callers : StartSpawns(c) \/ StartThrows(c)
  BY <1>14 DEF StartSpawns, StartThrows, Goto, lifecycle, registry, slots, work, callers
<1>15. CASE \E c \in Callers : Stop(c) \/ StopWaited(c) \/ StopJoined(c)
  BY <1>15 DEF Stop, StopWaited, StopJoined, Goto, lifecycle, registry, slots, work, callers
<1>16. CASE \E c \in Callers : StopCollects(c)
  BY <1>16 DEF StopCollects, lifecycle, registry, slots, work, callers
<1>17. CASE \E c \in Callers : CancelHeld(c)
  BY <1>17 DEF CancelHeld, lifecycle, registry, slots, work, callers
<1>18. CASE \E c \in Callers : StopEnds(c)
  BY <1>18 DEF StopEnds, Cleared, Goto, lifecycle, registry, slots, work, callers
<1>19. CASE \E c \in Callers : CollectReleased(c)
  BY <1>19 DEF CollectReleased, IsIdle, Goto, lifecycle, registry, slots, work, callers
<1>20. CASE \E c \in Callers : ResetReturns(c)
  BY <1>20 DEF ResetReturns, Goto, lifecycle, registry, slots, work, callers
<1> QED
  BY <1>1, <1>2, <1>3, <1>4, <1>5, <1>6, <1>7, <1>8, <1>9, <1>10,
     <1>11, <1>12, <1>13, <1>14, <1>15, <1>16, <1>17, <1>18, <1>19, <1>20, Zenon
     DEF Next, WorkerStep, CallerStep

\* The handlers: a slot that was reset is not called, and idle when reset returns.
LEMMA HandlerStep ==
    ASSUME IInv, [Next]_vars
    PROVE  HandlerOK'
<1> USE ConstantsAssumption DEF IInv, TypeOK, LifeOK, HandlerOK
<1>1. CASE UNCHANGED vars
  BY <1>1, Zenon DEF vars, lifecycle, registry, slots, work, callers
<1>2. CASE HandlerReturns
  BY <1>2, Zenon DEF HandlerReturns, Keep, lifecycle, registry, slots, work, callers
<1>3. CASE HandlerEnds
  BY <1>3, Zenon DEF HandlerEnds, lifecycle, registry, slots, work, callers
<1>4. CASE CancelReturned
  BY <1>4, Zenon DEF CancelReturned, lifecycle, registry, slots, work, callers
<1>5. CASE Throws \/ Loop
  BY <1>5, Zenon DEF Throws, Loop, lifecycle, registry, slots, work, callers
<1>6. CASE \E s \in Slots : Invoke(s)
  BY <1>6 DEF Invoke, lifecycle, registry, slots, work, callers
<1>7. CASE \E s \in Slots : HandlerReleases(s)
  BY <1>7 DEF HandlerReleases, lifecycle, registry, slots, work, callers
<1>8. CASE \E q \in Queues : Take(q)
  BY <1>8, TakeShape, Zenon DEF lifecycle, registry, slots, work, callers
<1>9. CASE \E q \in Queues : Handle(q)
  BY <1>9, HandleShape, Zenon DEF lifecycle, registry, slots, work, callers
<1>10. CASE \/ \E o \in Operations : Complete(o)
           \/ \E s \in Slots : Register(s)
  BY <1>10, Zenon DEF Complete, Register, lifecycle, registry, slots, work, callers
<1>11. CASE \E c \in Callers, s \in Slots : Reset(c, s)
  BY <1>11 DEF Reset, Goto, lifecycle, registry, slots, work, callers
<1>12. CASE \E c \in Callers, q \in Queues : Post(c, q)
  BY <1>12 DEF Post, lifecycle, registry, slots, work, callers
<1>13. CASE \E c \in Callers : StartSeals(c) \/ StartIsUnavailable(c) \/ StartRuns(c)
  BY <1>13 DEF StartSeals, StartIsUnavailable, StartRuns, Goto,
     lifecycle, registry, slots, work, callers
<1>14. CASE \E c \in Callers : StartSpawns(c) \/ StartThrows(c)
  BY <1>14 DEF StartSpawns, StartThrows, Goto, lifecycle, registry, slots, work, callers
<1>15. CASE \E c \in Callers : Stop(c) \/ StopWaited(c) \/ StopJoined(c)
  BY <1>15 DEF Stop, StopWaited, StopJoined, Goto, lifecycle, registry, slots, work, callers
<1>16. CASE \E c \in Callers : StopCollects(c)
  BY <1>16 DEF StopCollects, lifecycle, registry, slots, work, callers
<1>17. CASE \E c \in Callers : CancelHeld(c)
  BY <1>17 DEF CancelHeld, lifecycle, registry, slots, work, callers
<1>18. CASE \E c \in Callers : StopEnds(c)
  BY <1>18 DEF StopEnds, Cleared, Goto, lifecycle, registry, slots, work, callers
<1>19. CASE \E c \in Callers : CollectReleased(c)
  BY <1>19 DEF CollectReleased, IsIdle, Goto, lifecycle, registry, slots, work, callers
<1>20. CASE \E c \in Callers : ResetReturns(c)
  BY <1>20 DEF ResetReturns, Goto, lifecycle, registry, slots, work, callers
<1> QED
  BY <1>1, <1>2, <1>3, <1>4, <1>5, <1>6, <1>7, <1>8, <1>9, <1>10,
     <1>11, <1>12, <1>13, <1>14, <1>15, <1>16, <1>17, <1>18, <1>19, <1>20, Zenon
     DEF Next, WorkerStep, CallerStep

\* The queues: a stop ends with empty queues and without a worker.
LEMMA QueueStep ==
    ASSUME IInv, [Next]_vars
    PROVE  QueueOK'
<1> USE ConstantsAssumption DEF IInv, LifeOK, QueueOK, Queues
<1>1. CASE UNCHANGED vars
  BY <1>1, Zenon DEF vars, lifecycle, registry, slots, work, callers
<1>2. CASE HandlerReturns
  BY <1>2, Zenon DEF HandlerReturns, Keep, lifecycle, registry, slots, work, callers
<1>3. CASE HandlerEnds
  BY <1>3, Zenon DEF HandlerEnds, lifecycle, registry, slots, work, callers
<1>4. CASE CancelReturned
  BY <1>4, Zenon DEF CancelReturned, lifecycle, registry, slots, work, callers
<1>5. CASE Throws \/ Loop
  BY <1>5, Zenon DEF Throws, Loop, lifecycle, registry, slots, work, callers
<1>6. CASE \E s \in Slots : Invoke(s)
  BY <1>6, Zenon DEF Invoke, lifecycle, registry, slots, work, callers
<1>7. CASE \E s \in Slots : HandlerReleases(s)
  BY <1>7, Zenon DEF HandlerReleases, lifecycle, registry, slots, work, callers
<1>8. CASE \E q \in Queues : Take(q)
  <2>1. PICK q \in Queues : Take(q)
    BY <1>8, Zenon
  <2> DEFINE S == Seq({stops})
  <2>2. UNCHANGED stops /\ queue \in [Queues -> S] /\ <<>> \in S
    BY <2>1, TakeShape, SeqFacts, Zenon DEF lifecycle
  <2>3. S' = S
    BY <2>2, Zenon
  <2> HIDE DEF S
  <2>4. queue' \in [Queues -> S] /\ (worker' \in Queues => batch' \in S)
    BY <2>1, <2>2, TakeShape, Zenon
  <2> QED
    BY <2>3, <2>4, Zenon DEF S
<1>9. CASE \E q \in Queues : Handle(q)
  <2>1. PICK q \in Queues : Handle(q)
    BY <1>9, Zenon
  <2>2. /\ batch \in Seq({stops}) /\ UNCHANGED <<stops, queue>>
        /\ (batch # <<>> /\ batch' = Tail(batch)) \/ batch' = <<>>
    BY <2>1, HandleShape, Zenon DEF lifecycle
  <2>3. <<>> \in Seq({stops}) /\ (batch # <<>> => Tail(batch) \in Seq({stops}))
    BY <2>2, SeqFacts, Zenon
  <2> QED
    BY <2>2, <2>3, Zenon
<1>10. CASE \/ \E o \in Operations : Complete(o)
           \/ \E s \in Slots : Register(s)
  BY <1>10, Zenon DEF Complete, Register, lifecycle, registry, slots, work, callers
<1>11. CASE \E c \in Callers, s \in Slots : Reset(c, s)
  BY <1>11, Zenon DEF Reset, Goto, lifecycle, registry, slots, work, callers
<1>12. CASE \E c \in Callers, q \in Queues : Post(c, q)
  <2>1. PICK c \in Callers, q \in Queues : Post(c, q)
    BY <1>12, Zenon
  <2>2. /\ queue' = [queue EXCEPT ![q] = Append(queue[q], stops)]
        /\ UNCHANGED <<stops, worker, batch>>
    BY <2>1, Zenon DEF Post, lifecycle, work
  <2>3. Append(queue[q], stops) \in Seq({stops})
    BY SeqFacts, Zenon
  <2> QED
    BY <2>2, <2>3, Zenon
<1>13. CASE \E c \in Callers : StartSeals(c) \/ StartIsUnavailable(c) \/ StartRuns(c)
  BY <1>13, Zenon DEF StartSeals, StartIsUnavailable, StartRuns, Goto,
     lifecycle, registry, slots, work, callers
<1>14. CASE \E c \in Callers : StartSpawns(c) \/ StartThrows(c)
  BY <1>14, Zenon DEF StartSpawns, StartThrows, Goto, lifecycle, registry, slots, work, callers
<1>15. CASE \E c \in Callers : Stop(c) \/ StopWaited(c) \/ StopJoined(c)
  BY <1>15, Zenon DEF Stop, StopWaited, StopJoined, Goto, lifecycle, registry, slots, work, callers
<1>16. CASE \E c \in Callers : StopCollects(c)
  BY <1>16, Zenon DEF StopCollects, lifecycle, registry, slots, work, callers
<1>17. CASE \E c \in Callers : CancelHeld(c)
  BY <1>17, Zenon DEF CancelHeld, lifecycle, registry, slots, work, callers
<1>18. CASE \E c \in Callers : StopEnds(c)
  BY <1>18 DEF StopEnds, Cleared, Goto, lifecycle, registry, slots, work, callers
<1>19. CASE \E c \in Callers : CollectReleased(c)
  BY <1>19, Zenon DEF CollectReleased, IsIdle, Goto, lifecycle, registry, slots, work, callers
<1>20. CASE \E c \in Callers : ResetReturns(c)
  BY <1>20, Zenon DEF ResetReturns, Goto, lifecycle, registry, slots, work, callers
<1> QED
  BY <1>1, <1>2, <1>3, <1>4, <1>5, <1>6, <1>7, <1>8, <1>9, <1>10,
     <1>11, <1>12, <1>13, <1>14, <1>15, <1>16, <1>17, <1>18, <1>19, <1>20, Zenon
     DEF Next, WorkerStep, CallerStep

\* A step that leaves the operations, their lists and the slots alone.
LEMMA QuietStep ==
    ASSUME IInv, UNCHANGED <<given, pending, held, active, arg, calls>>,
           ready \subseteq ready', handlers \subseteq handlers',
           life # "Stopped" => life' # "Stopped",
           worker' = "handler" => worker = "handler",
           worker = "cancel" => UNCHANGED <<worker, batch>>,
           \A c \in Callers : pc[c] \in {"idling", "collecting", "canceling"} => pc'[c] = pc[c]
    PROVE  OperationOK' /\ OperationsAreCanceled'
<1>1. OperationOK'
  BY DEF IInv, OperationOK
<1>2. OperationsAreCanceled'
  BY Zenon DEF IInv, OperationsAreCanceled
<1> QED
  BY <1>1, <1>2, Zenon

\* A caller that is not in one of the states of a reset or a collection moves without
\* disturbing those that are.
LEMMA CallerMoves ==
    ASSUME IInv, NEW c \in Callers, \E to : Goto(c, to),
           pc[c] \notin {"idling", "collecting", "canceling"}
    PROVE  \A d \in Callers : pc[d] \in {"idling", "collecting", "canceling"} => pc'[d] = pc[d]
BY Zenon DEF IInv, TypeOK, Goto

\* The operations and the lists that hold them.
LEMMA OperationStep ==
    ASSUME IInv, [Next]_vars
    PROVE  OperationOK' /\ OperationsAreCanceled'
<1> USE ConstantsAssumption DEF IInv, TypeOK, LifeOK, HandlerOK, OperationOK, OperationsAreCanceled
<1>1. CASE UNCHANGED vars
  BY <1>1, QuietStep, Zenon DEF vars, lifecycle, registry, slots, work, callers
<1>2. CASE HandlerReturns
  BY <1>2 DEF HandlerReturns, Keep, lifecycle, registry, slots, work, callers
<1>3. CASE HandlerEnds
  BY <1>3 DEF HandlerEnds, lifecycle, registry, slots, work, callers
<1>4. CASE CancelReturned
  <2>1. /\ worker = "cancel" /\ worker' = "poll" /\ ready' = ready \cup ToSet(batch)
        /\ UNCHANGED <<life, handlers, active, pending, given, calls, pc, arg, held>>
    BY <1>4, Zenon DEF CancelReturned, lifecycle, registry, slots, work, callers
  <2>2. OperationOK'
    BY <2>1, Zenon
  <2>3. \A o : batch = <<o>> => o \in ready'
    BY <2>1 DEF ToSet
  <2>4. OperationsAreCanceled'
    BY <2>1, <2>3
  <2> QED
    BY <2>2, <2>4, Zenon
<1>5. CASE Throws \/ Loop
  BY <1>5, QuietStep, Zenon DEF Throws, Loop, lifecycle, registry, slots, work, callers
<1>6. CASE \E s \in Slots : Invoke(s)
  BY <1>6 DEF Invoke, lifecycle, registry, slots, work, callers
<1>7. CASE \E s \in Slots : HandlerReleases(s)
  BY <1>7 DEF HandlerReleases, lifecycle, registry, slots, work, callers
<1>8. CASE \E q \in Queues : Take(q)
  <2>1. /\ worker \in {"poll", "tasks done"} /\ worker' \in {"tasks", "events", "gone"}
        /\ UNCHANGED <<life, handlers, active, pending, ready, given, calls, pc, arg, held>>
    BY <1>8, TakeShape, Zenon DEF lifecycle, registry, slots, work, callers
  <2> QED
    BY <2>1, QuietStep, Zenon
<1>9. CASE \E q \in Queues : Handle(q)
  <2>1. /\ worker \in {"tasks", "events"} /\ worker' \in {"tasks", "events", "tasks done", "loop"}
        /\ UNCHANGED <<life, handlers, active, pending, ready, given, calls, pc, arg, held>>
    BY <1>9, HandleShape, Zenon DEF lifecycle, registry, slots, work, callers
  <2> QED
    BY <2>1, QuietStep, Zenon
<1>10. CASE \/ \E o \in Operations : Complete(o)
           \/ \E s \in Slots : Register(s)
  BY <1>10, QuietStep, Zenon DEF Complete, Register, lifecycle, registry, slots, work, callers
<1>11. CASE \E c \in Callers, s \in Slots : Reset(c, s)
  BY <1>11 DEF Reset, Goto, lifecycle, registry, slots, work, callers
<1>12. CASE \E c \in Callers, q \in Queues : Post(c, q)
  BY <1>12, QuietStep, Zenon DEF Post, lifecycle, registry, slots, work, callers
<1>13. ASSUME NEW c \in Callers, StartSeals(c) \/ StartIsUnavailable(c) \/ StartRuns(c)
       PROVE  OperationOK' /\ OperationsAreCanceled'
  <2>1. /\ pc[c] \in {"idle", "starting"} /\ \E to : Goto(c, to)
        /\ UNCHANGED <<life, handlers, slots, work, arg, held>>
    BY <1>13, Zenon DEF StartSeals, StartIsUnavailable, StartRuns, registry
  <2> QED
    BY <2>1, CallerMoves, QuietStep, Zenon DEF slots, work
<1>14. ASSUME NEW c \in Callers, StartSpawns(c) \/ StartThrows(c)
       PROVE  OperationOK' /\ OperationsAreCanceled'
  <2>1. /\ pc[c] = "spawning" /\ \E to : Goto(c, to)
        /\ UNCHANGED <<handlers, slots, batch, calls, arg, held>>
        /\ life' = "Running" \/ life' = life
        /\ (worker' = "loop" /\ life' = "Running") \/ worker' = worker
    BY <1>14, Zenon DEF StartSpawns, StartThrows, registry, work
  <2>2. worker # "cancel" \/ worker' = worker
    BY <2>1, <1>14 DEF StartSpawns, StartThrows, work
  <2> QED
    BY <2>1, <2>2, CallerMoves, QuietStep, Zenon DEF slots
<1>15. ASSUME NEW c \in Callers, Stop(c) \/ StopWaited(c) \/ StopJoined(c)
       PROVE  OperationOK' /\ OperationsAreCanceled'
  <2>1. /\ pc[c] \in {"idle", "waiting", "joining"} /\ \E to : Goto(c, to)
        /\ UNCHANGED <<handlers, slots, batch, calls, arg, held>>
        /\ life' = "Stopping" \/ life' = life
        /\ (worker = "gone" /\ worker' = "none") \/ worker' = worker
    BY <1>15, Zenon DEF Stop, StopWaited, StopJoined, lifecycle, registry, work
  <2> QED
    BY <2>1, CallerMoves, QuietStep, Zenon DEF slots
<1>16. CASE \E c \in Callers : StopCollects(c)
  BY <1>16 DEF StopCollects, lifecycle, registry, slots, work, callers
<1>17. CASE \E c \in Callers : CancelHeld(c)
  BY <1>17 DEF CancelHeld, lifecycle, registry, slots, work, callers
<1>18. CASE \E c \in Callers : StopEnds(c)
  BY <1>18 DEF StopEnds, Cleared, Goto, lifecycle, registry, slots, work, callers
<1>19. CASE \E c \in Callers : CollectReleased(c)
  BY <1>19 DEF CollectReleased, IsIdle, Goto, lifecycle, registry, slots, work, callers
<1>20. CASE \E c \in Callers : ResetReturns(c)
  BY <1>20 DEF ResetReturns, Goto, lifecycle, registry, slots, work, callers
<1> QED
  BY <1>1, <1>2, <1>3, <1>4, <1>5, <1>6, <1>7, <1>8, <1>9, <1>10,
     <1>11, <1>12, <1>13, <1>14, <1>15, <1>16, <1>17, <1>18, <1>19, <1>20, Zenon
     DEF Next, WorkerStep, CallerStep

-----------------------------------------------------------------------------
\* The inductive invariant: the lifecycle, the handlers, the operations and the
\* queues of the endpoint fit together in every state.
THEOREM EndpointInvariant == Spec => []IInv
<1>1. IInv /\ [Next]_vars => IInv'
  BY TypeStep, LifeStep, HandlerStep, QueueStep, OperationStep, Zenon DEF IInv
<1> QED
  BY InitIInv, <1>1, PTL DEF Spec

\* A handler whose token was reset is not running and is not called again, by any
\* number of callers and over any number of restarts.
THEOREM ResetIsAFence == Spec => []ReleasedHandlerIsQuiet
<1>1. IInv => ReleasedHandlerIsQuiet
  BY Zenon DEF IInv, HandlerOK, ReleasedHandlerIsQuiet
<1> QED
  BY <1>1, EndpointInvariant, PTL

\* Whatever a handler returned has ended, is about to be cancelled, or is listed in a
\* slot of an endpoint that is not stopped.
THEOREM NoOperationIsLeft == Spec => []OperationsAreCanceled
<1>1. IInv => OperationsAreCanceled
  BY Zenon DEF IInv
<1> QED
  BY <1>1, EndpointInvariant, PTL

\* What the worker runs and sends was accepted after the last stop.
THEOREM StopDropsTheQueues == Spec => []NothingSurvivesAStop
<1>1. IInv => NothingSurvivesAStop
  <2> SUFFICES ASSUME IInv, worker \in Queues, NEW k \in ToSet(batch) PROVE k = stops
    BY Zenon DEF NothingSurvivesAStop
  <2>1. batch \in Seq({stops})
    BY Zenon DEF IInv, QueueOK
  <2> QED
    BY <2>1 DEF ToSet
<1> QED
  BY <1>1, EndpointInvariant, PTL
=============================================================================
