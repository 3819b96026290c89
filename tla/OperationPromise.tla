-------------------------- MODULE OperationPromise --------------------------
(***************************************************************************)
(* What a ControlOperation promises to the code that holds it: one result, *)
(* told once to every completion handler; one call of the cancel handler   *)
(* of a cancelled operation, and of each one that is installed afterwards. *)
(* No threads, no queues and no copies.                                    *)
(***************************************************************************)
EXTENDS Naturals

CONSTANTS Handlers, CancelHandlers, None

VARIABLES
    outcome,     \* the result
    registered,  \* completion handlers
    told, heard, \* how often each was called, and with which result
    installed,   \* cancel handlers
    current,     \* the cancel handler installed last
    owed,        \* cancel handlers that are to be called
    called       \* how often each was called

vars == <<outcome, registered, told, heard, installed, current, owed, called>>

Init ==
    /\ outcome = "none"
    /\ registered = {} /\ told = [h \in Handlers |-> 0] /\ heard = [h \in Handlers |-> "none"]
    /\ installed = {} /\ current = None /\ owed = {}
    /\ called = [c \in CancelHandlers |-> 0]

Finish(how) ==
    /\ outcome = "none"
    /\ outcome' = how
    /\ owed' = IF how = "cancelled" THEN {current} \ {None} ELSE {}
    /\ UNCHANGED <<registered, told, heard, installed, current, called>>

Register(h) ==
    /\ h \notin registered
    /\ registered' = registered \cup {h}
    /\ UNCHANGED <<outcome, told, heard, installed, current, owed, called>>

Tell(h) ==
    /\ h \in registered /\ told[h] = 0 /\ outcome # "none"
    /\ told' = [told EXCEPT ![h] = 1]
    /\ heard' = [heard EXCEPT ![h] = outcome]
    /\ UNCHANGED <<outcome, registered, installed, current, owed, called>>

Install(c) ==
    /\ c \notin installed
    /\ installed' = installed \cup {c} /\ current' = c
    /\ owed' = IF outcome = "cancelled" THEN owed \cup {c} ELSE owed
    /\ UNCHANGED <<outcome, registered, told, heard, called>>

CallCancelHandler(c) ==
    /\ c \in owed /\ called[c] = 0
    /\ owed' = owed \ {c}
    /\ called' = [called EXCEPT ![c] = 1]
    /\ UNCHANGED <<outcome, registered, told, heard, installed, current>>

Next ==
    \/ Finish("completed") \/ Finish("cancelled")
    \/ \E h \in Handlers : Register(h) \/ Tell(h)
    \/ \E c \in CancelHandlers : Install(c) \/ CallCancelHandler(c)

\* Every handler of an operation that has ended is told, and what is owed is paid.
Delivery ==
    /\ \A h \in Handlers : (h \in registered /\ outcome # "none") ~> (told[h] = 1)
    /\ \A c \in CancelHandlers : (c \in owed) ~> (called[c] = 1)

Safety == Init /\ [][Next]_vars
Spec == Safety /\ Delivery
=============================================================================
