-------------------------- MODULE ControlOperation --------------------------
(***************************************************************************)
(* One ControlOperation and its ControlOperationSource                     *)
(* (src/src/core/control_operation.cpp): a result that is assigned once,   *)
(* by complete() or by cancel(); completion handlers; a cancel handler;    *)
(* waiters.  State::mutex makes each access to the state one step; the     *)
(* notification and every handler run after it is released, so the calls   *)
(* of several threads interleave there.                                    *)
(***************************************************************************)
EXTENDS Naturals, Sequences

CONSTANTS Threads,         \* threads that call the operation
          Handlers,        \* completion handlers, each registered once
          CancelHandlers,  \* cancel handlers, each installed once
          None

ASSUME NoneAssumption == None \notin CancelHandlers

VARIABLES
    result,            \* State::result
    cancelRequested,   \* State::cancellation_requested
    cancelHandler,     \* State::cancel_handler
    handlers,          \* State::completion_handlers
    pc,                \* what each thread is about to do
    todo,              \* the completion handlers a thread took and has to run
    given,             \* the copy of the result a thread runs handlers with
    cancelTodo,        \* the cancel handler a thread copied and has to run
    registered,        \* handlers passed to on_complete
    installed,         \* cancel handlers passed to set_cancel_handler
    ran,               \* how often each completion handler ran
    seen,              \* the result each completion handler was given last
    cancelRan          \* how often each cancel handler ran

stateVars == <<result, cancelRequested, cancelHandler, handlers>>
ghostVars == <<registered, installed, ran, seen, cancelRan>>
vars == <<stateVars, pc, todo, given, cancelTodo, ghostVars>>

Ready == result # "none"

Init ==
    /\ result = "none"
    /\ cancelRequested = FALSE
    /\ cancelHandler = None
    /\ handlers = <<>>
    /\ pc = [t \in Threads |-> "idle"]
    /\ todo = [t \in Threads |-> <<>>]
    /\ given = [t \in Threads |-> "none"]
    /\ cancelTodo = [t \in Threads |-> None]
    /\ registered = {}
    /\ installed = {}
    /\ ran = [h \in Handlers |-> 0]
    /\ seen = [h \in Handlers |-> "none"]
    /\ cancelRan = [c \in CancelHandlers |-> 0]

-----------------------------------------------------------------------------
\* cancel(): an operation with a result is left alone.
Cancel(t) ==
    /\ pc[t] = "idle"
    /\ ~Ready
    /\ cancelRequested' = TRUE
    /\ result' = "cancelled"
    /\ handlers' = <<>>
    /\ pc' = [pc EXCEPT ![t] = "notify"]
    /\ todo' = [todo EXCEPT ![t] = handlers]
    /\ given' = [given EXCEPT ![t] = result']
    /\ cancelTodo' = [cancelTodo EXCEPT ![t] = cancelHandler]
    /\ UNCHANGED <<cancelHandler, ghostVars>>

\* complete(): the first result stays.
Complete(t) ==
    /\ pc[t] = "idle"
    /\ ~Ready
    /\ result' = "completed"
    /\ handlers' = <<>>
    /\ pc' = [pc EXCEPT ![t] = "notify"]
    /\ todo' = [todo EXCEPT ![t] = handlers]
    /\ given' = [given EXCEPT ![t] = result']
    /\ UNCHANGED <<cancelRequested, cancelHandler, cancelTodo, ghostVars>>

\* Mutant: a handler that arrives after the result is stored with the others.
MutantOnComplete(t, h) ==
    /\ pc[t] = "idle"
    /\ h \notin registered
    /\ registered' = registered \cup {h}
    /\ handlers' = Append(handlers, h)
    /\ UNCHANGED <<result, cancelRequested, cancelHandler, pc, todo, given, cancelTodo,
                   installed, ran, seen, cancelRan>>

\* on_complete(): stored, or run at once when the result is there.
OnComplete(t, h) ==
    /\ pc[t] = "idle"
    /\ h \notin registered
    /\ registered' = registered \cup {h}
    /\ IF Ready
       THEN /\ pc' = [pc EXCEPT ![t] = "complete"]
            /\ todo' = [todo EXCEPT ![t] = <<h>>]
            /\ given' = [given EXCEPT ![t] = result]
            /\ UNCHANGED handlers
       ELSE /\ handlers' = Append(handlers, h)
            /\ UNCHANGED <<pc, todo, given>>
    /\ UNCHANGED <<result, cancelRequested, cancelHandler, cancelTodo,
                   installed, ran, seen, cancelRan>>

\* set_cancel_handler(): stored, and run at once after a cancellation.
SetCancelHandler(t, c) ==
    /\ pc[t] = "idle"
    /\ c \notin installed
    /\ installed' = installed \cup {c}
    /\ cancelHandler' = c
    /\ IF cancelRequested
       THEN /\ pc' = [pc EXCEPT ![t] = "cancel"]
            /\ cancelTodo' = [cancelTodo EXCEPT ![t] = c]
       ELSE UNCHANGED <<pc, cancelTodo>>
    /\ UNCHANGED <<result, cancelRequested, handlers, todo, given, registered,
                   ran, seen, cancelRan>>

-----------------------------------------------------------------------------
\* What runs after the mutex is released

\* Mutant: only one waiter is woken.
MutantNotify(t) ==
    /\ pc[t] = "notify"
    /\ \E w \in Threads :
          pc' = [pc EXCEPT ![w] = IF @ = "waiting" THEN "idle" ELSE @,
                           ![t] = "cancel"]
    /\ UNCHANGED <<stateVars, todo, given, cancelTodo, ghostVars>>

\* cv.notify_all(): the result is set, so every waiter returns.
Notify(t) ==
    /\ pc[t] = "notify"
    /\ pc' = [w \in Threads |-> IF w = t THEN "cancel"
                                ELSE IF pc[w] \in {"waiting", "waiting_for"} THEN "idle"
                                ELSE pc[w]]
    /\ UNCHANGED <<stateVars, todo, given, cancelTodo, ghostVars>>

\* The copied cancel handler, if there is one, runs before the others.
RunCancelHandler(t) ==
    /\ pc[t] = "cancel"
    /\ cancelRan' = IF cancelTodo[t] = None THEN cancelRan
                    ELSE [cancelRan EXCEPT ![cancelTodo[t]] = @ + 1]
    /\ cancelTodo' = [cancelTodo EXCEPT ![t] = None]
    /\ pc' = [pc EXCEPT ![t] = "complete"]
    /\ UNCHANGED <<stateVars, todo, given, registered, installed, ran, seen>>

\* Exceptions of a handler are caught: the next one runs all the same.
RunHandler(t) ==
    /\ pc[t] = "complete"
    /\ IF todo[t] = <<>>
       THEN /\ pc' = [pc EXCEPT ![t] = "idle"]
            /\ UNCHANGED <<todo, ran, seen>>
       ELSE /\ ran' = [ran EXCEPT ![Head(todo[t])] = @ + 1]
            /\ seen' = [seen EXCEPT ![Head(todo[t])] = given[t]]
            /\ todo' = [todo EXCEPT ![t] = Tail(@)]
            /\ UNCHANGED pc
    /\ UNCHANGED <<stateVars, given, cancelTodo, registered, installed, cancelRan>>

-----------------------------------------------------------------------------
\* wait() and wait_for(): the predicate is checked under the mutex the wait gives up.
Wait(t) ==
    /\ pc[t] = "idle"
    /\ ~Ready
    /\ pc' = [pc EXCEPT ![t] = "waiting"]
    /\ UNCHANGED <<stateVars, todo, given, cancelTodo, ghostVars>>

WaitFor(t) ==
    /\ pc[t] = "idle"
    /\ ~Ready
    /\ pc' = [pc EXCEPT ![t] = "waiting_for"]
    /\ UNCHANGED <<stateVars, todo, given, cancelTodo, ghostVars>>

WaitTimeout(t) ==
    /\ pc[t] = "waiting_for"
    /\ pc' = [pc EXCEPT ![t] = "idle"]
    /\ UNCHANGED <<stateVars, todo, given, cancelTodo, ghostVars>>

-----------------------------------------------------------------------------
Proceed(t) == Notify(t) \/ RunCancelHandler(t) \/ RunHandler(t)

Next ==
    \E t \in Threads :
        \/ Cancel(t) \/ Complete(t)
        \/ \E h \in Handlers : OnComplete(t, h)
        \/ \E c \in CancelHandlers : SetCancelHandler(t, c)
        \/ Proceed(t)
        \/ Wait(t) \/ WaitFor(t) \/ WaitTimeout(t)

\* A thread inside cancel() or complete() keeps running; nothing else is owed.
Spec == Init /\ [][Next]_vars /\ \A t \in Threads : WF_vars(Proceed(t))

-----------------------------------------------------------------------------
Promise == INSTANCE OperationPromise WITH
    outcome <- result, told <- ran, heard <- seen, current <- cancelHandler,
    owed <- {cancelTodo[t] : t \in Threads} \ {None}, called <- cancelRan

\* The operation implements OperationPromise.  The first result stays: a late
\* answer of the adapter never replaces a cancellation, nor the other way round.
\* Each completion handler runs exactly once with that result, whichever of
\* cancel(), complete() and on_complete() took it, and the cancel handler exactly
\* once and for a cancelled operation only, also when they are registered while
\* another thread ends the operation (the has_value() tests, and the handlers
\* that are swapped out or copied under State::mutex and run after it).
KeepsItsPromise == Promise!Spec

\* No wait() sleeps through the notification.
WaitersReturn ==
    \A t \in Threads : (pc[t] = "waiting" /\ Ready) ~> (pc[t] = "idle")
=============================================================================
