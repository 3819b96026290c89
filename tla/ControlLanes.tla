---------------------------- MODULE ControlLanes ----------------------------
(***************************************************************************)
(* The control plane: LaneScheduler's requests are routed and dispatched   *)
(* by the Broker (src/src/core/broker.cpp) against a DeviceRegistry that   *)
(* changes meanwhile.  The lane of a request is resolved when it arrives   *)
(* (Broker::route_key), its device when a worker dispatches it             *)
(* (Broker::dispatch).                                                     *)
(***************************************************************************)
EXTENDS Naturals, Sequences

CONSTANTS Keys, Endpoints, Serials, None, Reports,      \* DeviceRegistry
          Requests, Workers, MaxPending, Blocked,       \* LaneScheduler
          Command      \* the [dst, selector, kind] each request carries

VARIABLES devices, row, reconciling, current, plan, todo, results,
          pending, active, server, request, notifying, lane, worker, task, accepted,
          target,      \* the device each worker calls
          arrival      \* the device each request resolved to when it arrived (history)

registryVars == <<devices, row, reconciling, current, plan, todo, results>>
serverVars == <<pending, active, server, request, notifying, lane, worker, task, accepted>>
vars == <<registryVars, serverVars, target, arrival>>

Physical(k) == <<"physical", k>>

Lanes == {Physical(k) : k \in Keys}
         \cup {<<"endpoint", e>> : e \in Endpoints}
         \cup {<<"legacy-device", Command[r].selector>> : r \in Requests}
         \cup {<<"control-plane", None>>}

Registry == INSTANCE DeviceRegistry
Server == INSTANCE LaneScheduler

-----------------------------------------------------------------------------
\* resolve_endpoint and resolve_device, as Broker calls them
Target(c) ==
    IF c.dst # None
    THEN IF Registry!ResolveEndpoint(c.dst) = "Found"
         THEN CHOOSE k \in Registry!Owners(c.dst) : TRUE
         ELSE None
    ELSE IF c.selector # None THEN Registry!ResolveDevice(c.selector, c.kind)
    ELSE None

\* Mutant: the selector is used as the lane whether or not it resolves.
MutantRouteKey(c) ==
    IF c.dst # None THEN <<"endpoint", c.dst>>
    ELSE IF c.selector # None THEN <<"legacy-device", c.selector>>
    ELSE <<"control-plane", None>>

\* Broker::route_key: the physical lane of what the selector names now.
RouteKey(c) ==
    IF Target(c) # None THEN Physical(Target(c))
    ELSE IF c.dst # None THEN <<"endpoint", c.dst>>
    ELSE IF c.selector # None THEN <<"legacy-device", c.selector>>
    ELSE <<"control-plane", None>>

-----------------------------------------------------------------------------
\* A lookup waits for a reconciliation to release DeviceManager::mutex_.
Route(r) ==
    /\ reconciling = None
    /\ Server!Route(r, RouteKey(Command[r]))
    /\ arrival' = [arrival EXCEPT ![r] = Target(Command[r])]
    /\ UNCHANGED <<registryVars, target>>

\* Broker::dispatch resolves the command again; a paused flow, a malformed
\* command or an adapter that is not registered leaves nothing to call.
Dispatch(w) ==
    /\ reconciling = None
    /\ Server!Dispatch(w)
    /\ \E t \in {Target(Command[task[w]]), None} : target' = [target EXCEPT ![w] = t]
    /\ UNCHANGED <<registryVars, arrival>>

Answer(w) ==
    /\ Server!Answer(w)
    /\ target' = [target EXCEPT ![w] = None]
    /\ UNCHANGED <<registryVars, arrival>>

ServerStep ==
    /\ \/ \E r \in Requests : Server!Enqueue(r) \/ Server!NotifyEnqueued(r)
       \/ \E w \in Workers :
             \/ Server!Sleep(w) \/ Server!Take(w) \/ Server!Exit(w)
             \/ Server!Release(w) \/ Server!NotifyReleased(w)
       \/ Server!StartWorkers \/ Server!StopWorkers \/ Server!JoinWorkers
    /\ UNCHANGED <<registryVars, target, arrival>>

RegistryStep == Registry!Next /\ UNCHANGED <<serverVars, target, arrival>>

Init ==
    /\ Registry!Init
    /\ Server!Init
    /\ target = [w \in Workers |-> None]
    /\ arrival = [r \in Requests |-> None]

Next ==
    \/ \E r \in Requests : Route(r)
    \/ \E w \in Workers : Dispatch(w) \/ Answer(w)
    \/ ServerStep
    \/ RegistryStep

Spec == Init /\ [][Next]_vars

-----------------------------------------------------------------------------
\* Requests that resolve to one device when they arrive and when they are
\* dispatched are never executed on it at once, whatever selectors they use:
\* Broker::route_key gives them the same lane.
ResolvedAliasesShareTheLane ==
    \A v, w \in Workers :
        /\ v # w
        /\ target[v] # None
        /\ target[v] = target[w]
        => ~(arrival[task[v]] = target[v] /\ arrival[task[w]] = target[v])
=============================================================================
