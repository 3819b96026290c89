----------------------- MODULE ControlOperationProofs -----------------------
(***************************************************************************)
(* Proof that ControlOperation implements the safety part of               *)
(* OperationPromise, for every set of threads and of handlers.             *)
(***************************************************************************)
EXTENDS ControlOperation, SequenceTheorems, TLAPS

-----------------------------------------------------------------------------
(* The inductive invariant.                                                *)

Outcomes == {"none", "completed", "cancelled"}
Inside == {"notify", "cancel", "complete"}

TypeOK ==
    /\ result \in Outcomes
    /\ cancelRequested \in BOOLEAN
    /\ cancelHandler \in CancelHandlers \cup {None}
    /\ handlers \in Seq(Handlers)
    /\ pc \in [Threads -> Inside \cup {"idle", "waiting", "waiting_for"}]
    /\ todo \in [Threads -> Seq(Handlers)]
    /\ given \in [Threads -> Outcomes]
    /\ cancelTodo \in [Threads -> CancelHandlers \cup {None}]
    /\ registered \subseteq Handlers /\ installed \subseteq CancelHandlers
    /\ ran \in [Handlers -> Nat] /\ seen \in [Handlers -> Outcomes]
    /\ cancelRan \in [CancelHandlers -> Nat]

\* A completion handler that has not run is in one place: it is stored while there
\* is no result, and one thread that runs handlers has it afterwards.
CompletionOK ==
    /\ \A h \in Handlers \ registered : ran[h] = 0
    /\ \A i \in DOMAIN handlers : handlers[i] \in registered /\ ran[handlers[i]] = 0
    /\ \A i, j \in DOMAIN handlers : handlers[i] = handlers[j] => i = j
    /\ Ready => handlers = <<>>
    /\ \A t \in Threads : todo[t] # <<>> => pc[t] \in Inside /\ Ready /\ given[t] = result
    /\ \A t \in Threads : \A i \in DOMAIN todo[t] :
          todo[t][i] \in registered /\ ran[todo[t][i]] = 0
    /\ \A t, u \in Threads : \A i \in DOMAIN todo[t], j \in DOMAIN todo[u] :
          todo[t][i] = todo[u][j] => t = u /\ i = j

\* A cancel handler is owed a call, by one thread, only after a cancellation.
CancellationOK ==
    /\ cancelRequested <=> result = "cancelled"
    /\ \A c \in CancelHandlers : cancelRan[c] # 0 => c \in installed /\ result = "cancelled"
    /\ cancelHandler # None => cancelHandler \in installed
    /\ \A t \in Threads : cancelTodo[t] # None =>
          /\ pc[t] \in {"notify", "cancel"} /\ result = "cancelled"
          /\ cancelTodo[t] \in installed /\ cancelRan[cancelTodo[t]] = 0
    /\ \A t, u \in Threads : cancelTodo[t] # None /\ cancelTodo[t] = cancelTodo[u] => t = u

IInv == TypeOK /\ CompletionOK /\ CancellationOK

-----------------------------------------------------------------------------
\* What OperationPromise calls owed.
Owed == {cancelTodo[t] : t \in Threads} \ {None}

\* A step of the operation keeps the invariant and is a step, or a stutter, of
\* OperationPromise.
Implements == IInv' /\ (Promise!Next \/ UNCHANGED Promise!vars)

\* A new operation satisfies the invariant and starts as the promise does.
LEMMA InitIInv == Init => IInv /\ Promise!Init
<1> SUFFICES ASSUME Init PROVE IInv /\ Promise!Init
  BY Zenon
<1>1. TypeOK
  <2>1. <<>> \in Seq(Handlers) /\ "none" \in Outcomes
    BY DEF Outcomes
  <2>2. handlers \in Seq(Handlers) /\ todo \in [Threads -> Seq(Handlers)]
    BY <2>1, Zenon DEF Init
  <2> QED
    BY <2>1, <2>2, Zenon DEF Init, TypeOK
<1>2. CompletionOK /\ CancellationOK
  BY DEF Init, CompletionOK, CancellationOK, Ready
<1>3. Owed = {}
  BY Zenon DEF Init, Owed
<1>4. Promise!Init
  BY <1>3, Zenon DEF Init, Promise!Init, Owed
<1> QED
  BY <1>1, <1>2, <1>4, Zenon DEF IInv

\* A step that only moves threads, none of which owes a call, changes nothing.
LEMMA MoveStep ==
    ASSUME IInv, UNCHANGED <<stateVars, todo, given, cancelTodo, ghostVars>>,
           pc' \in [Threads -> Inside \cup {"idle", "waiting", "waiting_for"}],
           \A t \in Threads : pc[t] \in Inside => pc'[t] \in Inside \/ todo[t] = <<>>,
           \A t \in Threads : pc[t] \in {"notify", "cancel"} => pc'[t] \in {"notify", "cancel"}
    PROVE  Implements
<1>1. TypeOK'
  BY Zenon DEF IInv, TypeOK, stateVars, ghostVars
<1>2. CompletionOK'
  BY DEF IInv, CompletionOK, Ready, stateVars, ghostVars
<1>3. CancellationOK'
  BY Zenon DEF IInv, CancellationOK, stateVars, ghostVars
<1>4. UNCHANGED Promise!vars
  BY Zenon DEF Promise!vars, stateVars, ghostVars
<1> QED
  BY <1>1, <1>2, <1>3, <1>4, Zenon DEF IInv, Implements

\* cancel() and complete(): the stored handlers go to the thread that ends the
\* operation, and the cancel handler with them in a cancellation.
LEMMA FinishStep ==
    ASSUME IInv, NEW t \in Threads, Cancel(t) \/ Complete(t)
    PROVE  Implements
<1>1. /\ pc[t] = "idle" /\ result = "none"
      /\ result' \in {"cancelled", "completed"}
      /\ cancelRequested' = (result' = "cancelled")
      /\ handlers' = <<>>
      /\ pc' = [pc EXCEPT ![t] = "notify"]
      /\ todo' = [todo EXCEPT ![t] = handlers]
      /\ given' = [given EXCEPT ![t] = result']
      /\ cancelTodo' = IF result' = "cancelled" THEN [cancelTodo EXCEPT ![t] = cancelHandler]
                       ELSE cancelTodo
      /\ UNCHANGED <<cancelHandler, registered, installed, ran, seen, cancelRan>>
  BY Zenon DEF Cancel, Complete, Ready, ghostVars, IInv, CancellationOK, TypeOK
<1>2. \A u \in Threads : todo[u] = <<>> /\ cancelTodo[u] = None
  BY <1>1, Zenon DEF IInv, CompletionOK, CancellationOK, Ready
<1>3. \A u \in Threads : todo'[u] = IF u = t THEN handlers ELSE <<>>
  BY <1>1, <1>2, Zenon DEF IInv, TypeOK
<1>4. \A u \in Threads : cancelTodo'[u] = IF u = t /\ result' = "cancelled" THEN cancelHandler ELSE None
  BY <1>1, <1>2, Zenon DEF IInv, TypeOK
<1>5. TypeOK'
  BY <1>1 DEF IInv, TypeOK, Outcomes, Inside
<1>6. CompletionOK'
  <2>1. \A u \in Threads : todo'[u] # <<>> => pc'[u] \in Inside /\ Ready' /\ given'[u] = result'
    BY <1>1, <1>3, Zenon DEF IInv, TypeOK, Inside, Ready
  <2>2. \A u \in Threads : \A i \in DOMAIN todo'[u] :
           todo'[u][i] \in registered' /\ ran'[todo'[u][i]] = 0
    BY <1>1, <1>3 DEF IInv, CompletionOK
  <2>3. \A u, v \in Threads : \A i \in DOMAIN todo'[u], j \in DOMAIN todo'[v] :
          todo'[u][i] = todo'[v][j] => u = v /\ i = j
    BY <1>1, <1>3 DEF IInv, CompletionOK
  <2> QED
    BY <1>1, <2>1, <2>2, <2>3 DEF IInv, CompletionOK, Ready
<1>7. CancellationOK'
  BY <1>1, <1>4, Zenon DEF IInv, CancellationOK, TypeOK
<1>8. Promise!Next
  <2>1. Owed' = IF result' = "cancelled" THEN {cancelHandler} \ {None} ELSE {}
    BY <1>4, Zenon DEF Owed
  <2> QED
    BY <1>1, <2>1, Zenon DEF Promise!Next, Promise!Finish, Owed
<1> QED
  BY <1>5, <1>6, <1>7, <1>8, Zenon DEF IInv, Implements

\* on_complete(): the handler is new, so no thread has it and it has not run.
LEMMA OnCompleteStep ==
    ASSUME IInv, NEW t \in Threads, NEW h \in Handlers, OnComplete(t, h)
    PROVE  Implements
<1>1. /\ pc[t] = "idle" /\ h \notin registered
      /\ registered' = registered \cup {h}
      /\ UNCHANGED <<result, cancelRequested, cancelHandler, cancelTodo,
                     installed, ran, seen, cancelRan>>
  BY Zenon DEF OnComplete
<1>2. todo[t] = <<>> /\ cancelTodo[t] = None /\ ran[h] = 0
  BY <1>1, Zenon DEF IInv, CompletionOK, CancellationOK, Inside
<1>3. Promise!Next
  BY <1>1, Zenon DEF Promise!Next, Promise!Register
<1>4. CASE Ready
  <2>1. /\ pc' = [pc EXCEPT ![t] = "complete"]
        /\ todo' = [todo EXCEPT ![t] = <<h>>]
        /\ given' = [given EXCEPT ![t] = result]
        /\ handlers' = handlers
    BY <1>4, Zenon DEF OnComplete
  <2>2. \A u \in Threads : todo'[u] = IF u = t THEN <<h>> ELSE todo[u]
    BY <2>1, Zenon DEF IInv, TypeOK
  <2>3. TypeOK'
    <3>1. <<h>> \in Seq(Handlers)
      OBVIOUS
    <3> QED
      BY <1>1, <2>1, <3>1, Zenon DEF IInv, TypeOK, Inside
  <2>4. CompletionOK'
    <3>1. \A u \in Threads : todo'[u] # <<>> => pc'[u] \in Inside /\ Ready' /\ given'[u] = result'
      BY <1>1, <1>4, <2>1, <2>2, Zenon DEF IInv, TypeOK, CompletionOK, Inside, Ready
    <3>2. \A u \in Threads : \A i \in DOMAIN todo'[u] :
             todo'[u][i] \in registered' /\ ran'[todo'[u][i]] = 0
      BY <1>1, <1>2, <2>2 DEF IInv, CompletionOK
    <3>3. \A u, v \in Threads : \A i \in DOMAIN todo'[u], j \in DOMAIN todo'[v] :
            todo'[u][i] = todo'[v][j] => u = v /\ i = j
      BY <1>1, <2>2 DEF IInv, CompletionOK
    <3> QED
      BY <1>1, <2>1, <3>1, <3>2, <3>3, Zenon DEF IInv, CompletionOK, Ready
  <2>5. CancellationOK'
    BY <1>1, <1>2, <2>1, Zenon DEF IInv, CancellationOK, TypeOK
  <2> QED
    BY <1>3, <2>3, <2>4, <2>5, Zenon DEF IInv, Implements
<1>5. CASE ~Ready
  <2>1. handlers' = Append(handlers, h) /\ UNCHANGED <<pc, todo, given>>
    BY <1>5, Zenon DEF OnComplete
  <2>2. handlers \in Seq(Handlers)
    BY Zenon DEF IInv, TypeOK
  <2>3. /\ DOMAIN handlers' = 1..(Len(handlers) + 1) /\ DOMAIN handlers = 1..Len(handlers)
        /\ Len(handlers) \in Nat
        /\ \A i \in 1..(Len(handlers) + 1) :
              handlers'[i] = IF i = Len(handlers) + 1 THEN h ELSE handlers[i]
    BY <2>1, <2>2
  <2>4. TypeOK'
    BY <1>1, <2>1, <2>2 DEF IInv, TypeOK
  <2>5. CompletionOK'
    <3>1. \A i \in DOMAIN handlers' : handlers'[i] \in registered' /\ ran'[handlers'[i]] = 0
      BY <1>1, <1>2, <2>3 DEF IInv, CompletionOK
    <3>2. \A i, j \in DOMAIN handlers' : handlers'[i] = handlers'[j] => i = j
      BY <1>1, <2>3 DEF IInv, CompletionOK
    <3>3. ~Ready'
      BY <1>1, <1>5, Zenon DEF Ready
    <3>4. \A u \in Threads : todo'[u] = <<>>
      BY <1>5, <2>1, Zenon DEF IInv, CompletionOK
    <3> QED
      BY <1>1, <3>1, <3>2, <3>3, <3>4 DEF IInv, CompletionOK
  <2>6. CancellationOK'
    BY <1>1, <2>1, Zenon DEF IInv, CancellationOK
  <2> QED
    BY <1>3, <2>4, <2>5, <2>6, Zenon DEF IInv, Implements
<1> QED
  BY <1>4, <1>5, Zenon

\* set_cancel_handler(): the handler is new, so no other thread owes it a call.
LEMMA SetCancelHandlerStep ==
    ASSUME IInv, NEW t \in Threads, NEW c \in CancelHandlers, SetCancelHandler(t, c)
    PROVE  Implements
<1>1. /\ pc[t] = "idle" /\ c \notin installed
      /\ installed' = installed \cup {c}
      /\ cancelHandler' = c
      /\ UNCHANGED <<result, cancelRequested, handlers, todo, given, registered,
                     ran, seen, cancelRan>>
  BY Zenon DEF SetCancelHandler
<1>2. todo[t] = <<>> /\ cancelTodo[t] = None /\ c # None
  BY <1>1, NoneAssumption, Zenon DEF IInv, CompletionOK, CancellationOK, Inside
<1>3. CASE cancelRequested
  <2>1. /\ pc' = [pc EXCEPT ![t] = "cancel"]
        /\ cancelTodo' = [cancelTodo EXCEPT ![t] = c]
        /\ result = "cancelled"
    BY <1>3, Zenon DEF SetCancelHandler, IInv, CancellationOK
  <2>2. \A u \in Threads : cancelTodo'[u] = IF u = t THEN c ELSE cancelTodo[u]
    BY <2>1, Zenon DEF IInv, TypeOK
  <2>3. TypeOK'
    BY <1>1, <2>1, Zenon DEF IInv, TypeOK, Inside
  <2>4. CompletionOK'
    BY <1>1, <1>2, <2>1 DEF IInv, CompletionOK, TypeOK, Ready
  <2>5. cancelRan[c] = 0
    BY <1>1, Zenon DEF IInv, CancellationOK
  <2>6. CancellationOK'
    BY <1>1, <1>2, <2>1, <2>2, <2>5, Zenon DEF IInv, CancellationOK, TypeOK
  <2>7. Owed' = Owed \cup {c}
    BY <1>2, <2>2, Zenon DEF Owed
  <2>8. Promise!Next
    BY <1>1, <2>1, <2>7, Zenon DEF Promise!Next, Promise!Install, Owed
  <2> QED
    BY <2>3, <2>4, <2>6, <2>8, Zenon DEF IInv, Implements
<1>4. CASE ~cancelRequested
  <2>1. UNCHANGED <<pc, cancelTodo>> /\ result # "cancelled"
    BY <1>4, Zenon DEF SetCancelHandler, IInv, CancellationOK
  <2>2. TypeOK'
    BY <1>1, <2>1, Zenon DEF IInv, TypeOK
  <2>3. CompletionOK'
    BY <1>1, <2>1 DEF IInv, CompletionOK, Ready
  <2>4. CancellationOK'
    BY <1>1, <2>1, Zenon DEF IInv, CancellationOK
  <2>5. Promise!Next
    BY <1>1, <2>1, Zenon DEF Promise!Next, Promise!Install
  <2> QED
    BY <2>2, <2>3, <2>4, <2>5, Zenon DEF IInv, Implements
<1> QED
  BY <1>3, <1>4, Zenon

\* The copied cancel handler runs for the first time: the thread alone owed it.
LEMMA RunCancelHandlerStep ==
    ASSUME IInv, NEW t \in Threads, RunCancelHandler(t)
    PROVE  Implements
<1>1. /\ pc[t] = "cancel"
      /\ cancelRan' = IF cancelTodo[t] = None THEN cancelRan
                      ELSE [cancelRan EXCEPT ![cancelTodo[t]] = @ + 1]
      /\ cancelTodo' = [cancelTodo EXCEPT ![t] = None]
      /\ pc' = [pc EXCEPT ![t] = "complete"]
      /\ UNCHANGED <<result, cancelRequested, cancelHandler, handlers, todo, given,
                     registered, installed, ran, seen>>
  BY Zenon DEF RunCancelHandler, stateVars
<1>2. \A u \in Threads : cancelTodo'[u] = IF u = t THEN None ELSE cancelTodo[u]
  BY <1>1, Zenon DEF IInv, TypeOK
<1>3. TypeOK'
  BY <1>1 DEF IInv, TypeOK, Inside
<1>4. CompletionOK'
  BY <1>1 DEF IInv, CompletionOK, TypeOK, Inside, Ready
<1>5. \A c \in CancelHandlers : cancelRan'[c] = IF c = cancelTodo[t] THEN cancelRan[c] + 1 ELSE cancelRan[c]
  BY <1>1, NoneAssumption, Zenon DEF IInv, TypeOK
<1>6. CancellationOK'
  <2>1. \A c \in CancelHandlers : cancelRan'[c] # 0 => c \in installed' /\ result' = "cancelled"
    BY <1>1, <1>5, NoneAssumption, Zenon DEF IInv, CancellationOK
  <2>2. \A u \in Threads : cancelTodo'[u] # None =>
          /\ pc'[u] \in {"notify", "cancel"} /\ result' = "cancelled"
          /\ cancelTodo'[u] \in installed' /\ cancelRan'[cancelTodo'[u]] = 0
    BY <1>1, <1>2, <1>5, Zenon DEF IInv, CancellationOK, TypeOK
  <2> QED
    BY <1>1, <1>2, <2>1, <2>2 DEF IInv, CancellationOK
<1>7. CASE cancelTodo[t] = None
  <2>1. cancelTodo' = cancelTodo /\ cancelRan' = cancelRan
    BY <1>1, <1>7, Zenon DEF IInv, TypeOK
  <2>2. UNCHANGED Promise!vars
    BY <1>1, <2>1 DEF Promise!vars
  <2> QED
    BY <1>3, <1>4, <1>6, <2>2, Zenon DEF IInv, Implements
<1>8. CASE cancelTodo[t] # None
  <2> DEFINE c == cancelTodo[t]
  <2>1. c \in CancelHandlers /\ c \in Owed /\ cancelRan[c] = 0
    BY <1>8, Zenon DEF IInv, TypeOK, CancellationOK, Owed
  <2>2. Owed' = Owed \ {c}
    BY <1>2, <1>8 DEF Owed, IInv, CancellationOK
  <2>3. cancelRan' = [cancelRan EXCEPT ![c] = 1]
    BY <1>1, <1>8, <2>1
  <2> HIDE DEF c
  <2>4. Promise!Next
    BY <1>1, <2>1, <2>2, <2>3, Zenon DEF Promise!Next, Promise!CallCancelHandler, Owed
  <2> QED
    BY <1>3, <1>4, <1>6, <2>4, Zenon DEF IInv, Implements
<1> QED
  BY <1>7, <1>8, Zenon

\* The next completion handler runs for the first time, with the result.
LEMMA RunHandlerStep ==
    ASSUME IInv, NEW t \in Threads, RunHandler(t)
    PROVE  Implements
<1>1. /\ pc[t] = "complete"
      /\ UNCHANGED <<stateVars, given, cancelTodo, registered, installed, cancelRan>>
  BY Zenon DEF RunHandler
<1>2. CASE todo[t] = <<>>
  <2>1. pc' = [pc EXCEPT ![t] = "idle"] /\ UNCHANGED <<todo, ran, seen>>
    BY <1>2, Zenon DEF RunHandler
  <2> QED
    BY <1>1, <1>2, <2>1, MoveStep, Zenon DEF IInv, TypeOK, ghostVars
<1>3. CASE todo[t] # <<>>
  <2> DEFINE h == Head(todo[t])
  <2>1. /\ ran' = [ran EXCEPT ![h] = @ + 1]
        /\ seen' = [seen EXCEPT ![h] = given[t]]
        /\ todo' = [todo EXCEPT ![t] = Tail(@)]
        /\ pc' = pc
    BY <1>3, Zenon DEF RunHandler
  <2>2. todo[t] \in Seq(Handlers)
    BY Zenon DEF IInv, TypeOK
  <2>3. /\ h = todo[t][1] /\ h \in Handlers /\ 1 \in DOMAIN todo[t]
        /\ Tail(todo[t]) \in Seq(Handlers)
        /\ \A i \in DOMAIN Tail(todo[t]) :
              i + 1 \in DOMAIN todo[t] /\ Tail(todo[t])[i] = todo[t][i + 1] /\ i \in Nat \ {0}
    BY <1>3, <2>2
  <2>4. h \in registered /\ ran[h] = 0 /\ Ready /\ given[t] = result
    BY <1>3, <2>3 DEF IInv, CompletionOK
  <2> HIDE DEF h
  <2>5. \A u \in Threads : todo'[u] = IF u = t THEN Tail(todo[t]) ELSE todo[u]
    BY <2>1, Zenon DEF IInv, TypeOK
  <2>6. \A g \in Handlers : ran'[g] = IF g = h THEN 1 ELSE ran[g]
    BY <2>1, <2>4 DEF IInv, TypeOK
  <2>7. TypeOK'
    BY <1>1, <2>1, <2>3 DEF IInv, TypeOK, stateVars
  <2>8. \A u \in Threads : \A i \in DOMAIN todo'[u] :
          /\ todo'[u][i] \in Handlers /\ todo'[u][i] # h
          /\ todo'[u][i] \in registered' /\ ran'[todo'[u][i]] = 0
    <3> SUFFICES ASSUME NEW u \in Threads, NEW i \in DOMAIN todo'[u]
                 PROVE  /\ todo'[u][i] \in Handlers /\ todo'[u][i] # h
                        /\ todo'[u][i] \in registered' /\ ran'[todo'[u][i]] = 0
      BY Zenon
    <3>1. CASE u = t
      <4>1. i \in DOMAIN Tail(todo[t]) /\ todo'[u][i] = Tail(todo[t])[i]
        BY <2>5, <3>1, Zenon
      <4>2. i + 1 \in DOMAIN todo[t] /\ todo'[u][i] = todo[t][i + 1] /\ i + 1 # 1
        BY <2>3, <4>1
      <4> QED
        BY <1>1, <2>2, <2>3, <2>6, <4>2 DEF IInv, CompletionOK
    <3>2. CASE u # t
      <4>1. todo'[u] = todo[u] /\ todo[u] \in Seq(Handlers)
        BY <2>5, <3>2, Zenon DEF IInv, TypeOK
      <4> QED
        BY <1>1, <2>3, <2>6, <3>2, <4>1 DEF IInv, CompletionOK
    <3> QED
      BY <3>1, <3>2, Zenon
  <2>9. \A u, v \in Threads : \A i \in DOMAIN todo'[u], j \in DOMAIN todo'[v] :
          todo'[u][i] = todo'[v][j] => u = v /\ i = j
    <3> SUFFICES ASSUME NEW u \in Threads, NEW v \in Threads, NEW i \in DOMAIN todo'[u],
                        NEW j \in DOMAIN todo'[v], todo'[u][i] = todo'[v][j]
                 PROVE  u = v /\ i = j
      BY Zenon
    <3>1. PICK a \in DOMAIN todo[u] : todo[u][a] = todo'[u][i] /\ (u = t => a = i + 1 /\ i \in Nat) /\ (u # t => a = i)
      BY <2>3, <2>5, Zenon
    <3>2. PICK b \in DOMAIN todo[v] : todo[v][b] = todo'[v][j] /\ (v = t => b = j + 1 /\ j \in Nat) /\ (v # t => b = j)
      BY <2>3, <2>5, Zenon
    <3>3. u = v /\ a = b
      BY <3>1, <3>2 DEF IInv, CompletionOK
    <3> QED
      BY <3>1, <3>2, <3>3
  <2>10. CompletionOK'
    <3>1. \A u \in Threads : todo'[u] # <<>> => pc'[u] \in Inside /\ Ready' /\ given'[u] = result'
      BY <1>1, <1>3, <2>1, <2>5, Zenon DEF IInv, CompletionOK, Ready, stateVars
    <3>2. \A g \in Handlers \ registered' : ran'[g] = 0
      BY <1>1, <2>4, <2>6, Zenon DEF IInv, CompletionOK
    <3>3. handlers' = <<>>
      BY <1>1, <2>4, Zenon DEF IInv, CompletionOK, stateVars
    <3> QED
      BY <2>8, <2>9, <3>1, <3>2, <3>3 DEF CompletionOK
  <2>11. CancellationOK'
    BY <1>1, <2>1, Zenon DEF IInv, CancellationOK, stateVars
  <2>12. Promise!Tell(h)
    <3>1. ran' = [ran EXCEPT ![h] = 1] /\ seen' = [seen EXCEPT ![h] = result]
      BY <2>1, <2>4
    <3> QED
      BY <1>1, <2>4, <3>1, Zenon DEF Promise!Tell, stateVars, Ready
  <2> QED
    BY <2>3, <2>7, <2>10, <2>11, <2>12, Zenon DEF IInv, Implements, Promise!Next
<1> QED
  BY <1>2, <1>3, Zenon

-----------------------------------------------------------------------------
\* Every step keeps the invariant and is a step of OperationPromise or changes
\* nothing of it.
LEMMA StepImplements == IInv /\ [Next]_vars => Implements
<1> SUFFICES ASSUME IInv, [Next]_vars PROVE Implements
  BY Zenon
<1>1. CASE UNCHANGED vars
  BY <1>1, MoveStep, Zenon DEF vars, IInv, TypeOK
<1>2. CASE Next
  <2>1. PICK t \in Threads :
          \/ Cancel(t) \/ Complete(t)
          \/ \E h \in Handlers : OnComplete(t, h)
          \/ \E c \in CancelHandlers : SetCancelHandler(t, c)
          \/ Proceed(t)
          \/ Wait(t) \/ WaitFor(t) \/ WaitTimeout(t)
    BY <1>2, Zenon DEF Next
  <2>2. CASE Cancel(t) \/ Complete(t)
    BY <2>2, FinishStep, Zenon
  <2>3. CASE \E h \in Handlers : OnComplete(t, h)
    BY <2>3, OnCompleteStep, Zenon
  <2>4. CASE \E c \in CancelHandlers : SetCancelHandler(t, c)
    BY <2>4, SetCancelHandlerStep, Zenon
  <2>5. CASE Notify(t)
    BY <2>5, MoveStep, Zenon DEF Notify, IInv, TypeOK, Inside
  <2>6. CASE Wait(t) \/ WaitFor(t) \/ WaitTimeout(t)
    BY <2>6, MoveStep, Zenon DEF Wait, WaitFor, WaitTimeout, IInv, TypeOK, Inside
  <2> QED
    BY <2>1, <2>2, <2>3, <2>4, <2>5, <2>6, RunCancelHandlerStep, RunHandlerStep, Zenon DEF Proceed
<1> QED
  BY <1>1, <1>2, Zenon

\* In every state: the two places of a completion handler exclude each other, and
\* a call of a cancel handler is owed by one thread at most.
THEOREM OperationInvariant == Spec => []IInv
<1>1. Init => IInv
  BY InitIInv, Zenon
<1>2. IInv /\ [Next]_vars => IInv'
  BY StepImplements, Zenon DEF Implements
<1> QED
  BY <1>1, <1>2, PTL DEF Spec

\* control_operation.cpp keeps the safety part of its promise with any number of
\* threads and handlers: the first result stays, every completion handler runs at
\* most once and with that result, and a cancel handler runs at most once and only
\* after a cancellation.  This is KeepsItsPromise without Delivery.
THEOREM OperationKeepsItsPromise == Spec => Promise!Safety
<1>1. Init => Promise!Init
  BY InitIInv, Zenon
<1>2. IInv /\ [Next]_vars => [Promise!Next]_(Promise!vars)
  BY StepImplements, Zenon DEF Implements
<1> QED
  BY <1>1, <1>2, OperationInvariant, PTL DEF Spec, Promise!Safety
=============================================================================
