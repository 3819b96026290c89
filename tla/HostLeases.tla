----------------------------- MODULE HostLeases -----------------------------
(***************************************************************************)
(* AxentHost: session leases, the maintenance lease, the media owner of a  *)
(* device and the control operations issued on a lease                     *)
(* (src/src/host/axent_host.cpp).                                          *)
(*                                                                         *)
(* dispatch_mutex is held by at most one of start, stop, acquire_session,  *)
(* release_session, refresh_devices, reserve_maintenance and call_async    *)
(* from beginning to end, so one variable, call, holds the progress of the *)
(* call that owns it; a call is split where it leaves impl_->mutex or the  *)
(* registry's mutex.  upsert_device, the release of a maintenance lease    *)
(* and the completion of a control operation do not take dispatch_mutex:   *)
(* they interleave with every such step.                                   *)
(***************************************************************************)
EXTENDS Naturals, FiniteSets

CONSTANTS Devices,      \* device ids
          NoDevice,     \* no device
          Ops,          \* control operation objects
          MaxSession    \* bound: sessions opened between two starts

ASSUME ConstantsAssumption ==
    /\ NoDevice \notin Devices
    /\ IsFiniteSet(Devices)
    /\ MaxSession \in Nat

VARIABLES
    running,      \* Impl::running
    broker,       \* Impl::broker and Impl::devices exist
    rows,         \* the adapters that hold a DeviceManager row for an id
    leases,       \* Impl::leases
    owner,        \* Impl::media_owner_session_by_device
    registry,     \* HostLeaseRegistry::devices_
    nextId,       \* DeviceSessionManager::next_id_
    granted,      \* MaintenanceLease objects held by callers, per device
    binding,      \* AxtpAdapter's media delivery binding, per device
    opState,      \* state of each control operation
    opSession,    \* the session an operation was submitted on
    operations,   \* Impl::control_operations, by operation key
    call          \* the call that owns dispatch_mutex

hostVars == <<running, broker, rows, leases, owner, nextId>>
opVars == <<opState, opSession, operations>>
vars == <<running, broker, rows, leases, owner, registry, nextId, granted, binding,
          opState, opSession, operations, call>>

-----------------------------------------------------------------------------
SessionIds == 1 .. MaxSession
NoSession == 0
EndpointKey == 0      \* the key of operations issued by call_endpoint

Adapters == {"axtp", "mock"}
NoLease == [device |-> NoDevice, media |-> FALSE, axtp |-> FALSE]
Lease == [device : Devices, media : BOOLEAN, axtp : BOOLEAN]
RegistryEntry == [control : Nat, media : Nat, maintenance : BOOLEAN]
NoEntry == [control |-> 0, media |-> 0, maintenance |-> FALSE]

Steps == {"idle",
          "start_reset", "start_destroy", "start_build",
          "stop_reset", "stop_destroy",
          "acquire_reserve", "acquire_open", "acquire_commit", "acquire_bind",
          "release_cancel", "release_unbind", "release_reset",
          "maintenance_acquire", "call_register", "endpoint_register"}

Call == [step : Steps, device : Devices \cup {NoDevice}, media : BOOLEAN,
         axtp : BOOLEAN, session : SessionIds \cup {NoSession},
         ops : SUBSET Ops, unbind : BOOLEAN, reset : BOOLEAN]

Idle == [step |-> "idle", device |-> NoDevice, media |-> FALSE, axtp |-> FALSE,
         session |-> NoSession, ops |-> {}, unbind |-> FALSE, reset |-> FALSE]

Leased(s) == leases[s] # NoLease
LeasesOf(d, media) ==
    {s \in SessionIds : Leased(s) /\ leases[s].device = d /\ leases[s].media = media}

\* DeviceManager::get(id): fails closed unless exactly one adapter has the id.
Known(d) == \E a \in Adapters : rows[d] = {a}
IsAxtp(d) == rows[d] = {"axtp"}

-----------------------------------------------------------------------------
\* HostLeaseRegistry

Count(entry, media) == IF media THEN entry.media ELSE entry.control

WithCount(entry, media, n) ==
    IF media THEN [entry EXCEPT !.media = n] ELSE [entry EXCEPT !.control = n]

Monus(a, b) == IF a > b THEN a - b ELSE 0

AcquireActivity(d, media) ==
    /\ ~registry[d].maintenance
    /\ registry' = [registry EXCEPT ![d] =
                        WithCount(@, media, Count(@, media) + 1)]

ReleaseActivity(d, media) ==
    registry' = [registry EXCEPT ![d] =
                    WithCount(@, media, Monus(Count(@, media), 1))]

\* Mutant: media activity does not keep maintenance out.
MutantAcquireMaintenance(d) ==
    /\ ~registry[d].maintenance /\ registry[d].control = 0
    /\ registry' = [registry EXCEPT ![d].maintenance = TRUE]

AcquireMaintenance(d) ==
    /\ registry[d] = NoEntry
    /\ registry' = [registry EXCEPT ![d].maintenance = TRUE]

ReleaseMaintenance(d) ==
    registry' = [registry EXCEPT ![d].maintenance = FALSE]

-----------------------------------------------------------------------------
\* Parts shared by start and stop

\* take_control_operations_locked(): every operation, of every key.
\* Mutant: the operations of endpoint calls are forgotten.
MutantAllOperations == UNION {operations[k] : k \in SessionIds}

AllOperations == UNION {operations[k] : k \in SessionIds \cup {EndpointKey}}

TakeAllOperations(next) ==
    /\ call' = [Idle EXCEPT !.step = next, !.ops = AllOperations]
    /\ operations' = [k \in SessionIds \cup {EndpointKey} |-> {}]
    /\ UNCHANGED <<hostVars, registry, granted, binding, opState, opSession>>

Cancelled(ops) ==
    [o \in Ops |-> IF o \in ops /\ opState[o] = "pending" THEN "ready" ELSE opState[o]]

\* Mutant: the media owners survive the reset.
MutantReset ==
    /\ registry' = [d \in Devices |-> [NoEntry EXCEPT !.maintenance = registry[d].maintenance]]
    /\ leases' = [s \in SessionIds |-> NoLease]
    /\ operations' = [k \in SessionIds \cup {EndpointKey} |-> {}]
    /\ rows' = [d \in Devices |-> {}]
    /\ nextId' = 1
    /\ running' = FALSE /\ broker' = FALSE
    /\ UNCHANGED owner

\* Impl::reset(): every lease gives its activity back, the session manager
\* starts again from id 1, the devices are forgotten.
Reset ==
    /\ registry' = [d \in Devices |->
           [control |-> Monus(registry[d].control, Cardinality(LeasesOf(d, FALSE))),
            media |-> Monus(registry[d].media, Cardinality(LeasesOf(d, TRUE))),
            maintenance |-> registry[d].maintenance]]
    /\ leases' = [s \in SessionIds |-> NoLease]
    /\ owner' = [d \in Devices |-> NoSession]
    /\ operations' = [k \in SessionIds \cup {EndpointKey} |-> {}]
    /\ rows' = [d \in Devices |-> {}]
    /\ nextId' = 1
    /\ running' = FALSE /\ broker' = FALSE

\* The adapter object, with its leaves and bindings, is destroyed.
DestroyAdapter(next) ==
    /\ binding' = [d \in Devices |-> NoSession]
    /\ call' = next
    /\ UNCHANGED <<hostVars, registry, granted, opVars>>

-----------------------------------------------------------------------------
\* AxentHost::start

StartTake ==
    /\ call.step = "idle"
    /\ TakeAllOperations("start_reset")

StartReset ==
    /\ call.step = "start_reset"
    /\ opState' = Cancelled(call.ops)
    /\ Reset
    /\ call' = [Idle EXCEPT !.step = "start_destroy"]
    /\ UNCHANGED <<granted, binding, opSession>>

StartDestroy ==
    /\ call.step = "start_destroy"
    /\ DestroyAdapter([Idle EXCEPT !.step = "start_build"])

\* The managers and adapters are rebuilt; discovery fills the device rows.
StartBuild(found) ==
    /\ call.step = "start_build"
    /\ rows' = found
    /\ running' = TRUE /\ broker' = TRUE
    /\ call' = Idle
    /\ UNCHANGED <<leases, owner, nextId, registry, granted, binding, opVars>>

\* The AXTP adapter cannot be made, or its discovery throws: what was built before
\* stays, and accepts endpoint calls.
StartThrows(found) ==
    /\ call.step = "start_build"
    /\ rows' = found
    /\ broker' = TRUE
    /\ call' = Idle
    /\ UNCHANGED <<running, leases, owner, nextId, registry, granted, binding, opVars>>

\* AxentHost::stop

StopTake ==
    /\ call.step = "idle"
    /\ running \/ broker
    /\ TakeAllOperations("stop_reset")

StopReset ==
    /\ call.step = "stop_reset"
    /\ opState' = Cancelled(call.ops)
    /\ Reset
    /\ call' = [Idle EXCEPT !.step = "stop_destroy"]
    /\ UNCHANGED <<granted, binding, opSession>>

StopDestroy ==
    /\ call.step = "stop_destroy"
    /\ DestroyAdapter(Idle)

-----------------------------------------------------------------------------
\* The device inventory changes under an open lease.

\* AxentHost::upsert_device takes impl_->mutex only.
UpsertDevice(d, a) ==
    /\ broker
    /\ a \notin rows[d]
    /\ rows' = [rows EXCEPT ![d] = @ \cup {a}]
    /\ UNCHANGED <<running, broker, leases, owner, nextId, registry, granted, binding,
                   opVars, call>>

\* AxentHost::refresh_devices: reconcile_discovery("axtp") inserts the AXTP row
\* of an id, or erases it when another id took its endpoint over.
RefreshDevices(d) ==
    /\ call.step = "idle"
    /\ running
    /\ rows' = [rows EXCEPT ![d] = IF "axtp" \in @ THEN @ \ {"axtp"}
                                                   ELSE @ \cup {"axtp"}]
    /\ UNCHANGED <<running, broker, leases, owner, nextId, registry, granted, binding,
                   opVars, call>>

-----------------------------------------------------------------------------
\* AxentHost::acquire_session

AcquireCheck(d, media) ==
    /\ call.step = "idle"
    /\ nextId <= MaxSession
    /\ running
    /\ Known(d)
    /\ media => owner[d] = NoSession
    /\ call' = [Idle EXCEPT !.step = "acquire_reserve", !.device = d,
                            !.media = media, !.axtp = IsAxtp(d)]
    /\ UNCHANGED <<hostVars, registry, granted, binding, opVars>>

AcquireReserve ==
    /\ call.step = "acquire_reserve"
    /\ \/ /\ AcquireActivity(call.device, call.media)
          /\ call' = [call EXCEPT !.step = IF call.axtp THEN "acquire_open"
                                                        ELSE "acquire_commit"]
       \/ /\ registry[call.device].maintenance
          /\ call' = Idle
          /\ UNCHANGED registry
    /\ UNCHANGED <<hostVars, granted, binding, opVars>>

\* open_session_status: the physical session opens or the reservation's
\* destructor gives the activity back.
AcquireOpen ==
    /\ call.step = "acquire_open"
    /\ \/ /\ call' = [call EXCEPT !.step = "acquire_commit"]
          /\ UNCHANGED registry
       \/ /\ ReleaseActivity(call.device, call.media)
          /\ call' = Idle
    /\ UNCHANGED <<hostVars, granted, binding, opVars>>

\* Mutant: the reservation is committed before the second look at the inventory.
MutantAcquireCommit ==
    /\ call.step = "acquire_commit"
    /\ ~Known(call.device)
    /\ call' = Idle
    /\ UNCHANGED <<hostVars, registry, granted, binding, opVars>>

\* The inventory and the media owner are read again under impl_->mutex.
AcquireCommit ==
    /\ call.step = "acquire_commit"
    /\ IF Known(call.device) /\ (call.media => owner[call.device] = NoSession)
       THEN /\ leases' = [leases EXCEPT ![nextId] =
                            [device |-> call.device, media |-> call.media,
                             axtp |-> call.axtp]]
            /\ owner' = IF call.media THEN [owner EXCEPT ![call.device] = nextId]
                                      ELSE owner
            /\ nextId' = nextId + 1
            /\ call' = IF call.media /\ call.axtp
                       THEN [call EXCEPT !.step = "acquire_bind", !.session = nextId]
                       ELSE Idle
            /\ UNCHANGED registry
       ELSE /\ ReleaseActivity(call.device, call.media)
            /\ call' = Idle
            /\ UNCHANGED <<leases, owner, nextId>>
    /\ UNCHANGED <<running, broker, rows, granted, binding, opVars>>

AcquireBind ==
    /\ call.step = "acquire_bind"
    /\ binding' = [binding EXCEPT ![call.device] = call.session]
    /\ call' = Idle
    /\ UNCHANGED <<hostVars, registry, granted, opVars>>

-----------------------------------------------------------------------------
\* AxentHost::release_session

\* Mutant: only leases of the same kind keep the physical session alive.
MutantReleaseLocked(s) ==
    LET d == leases[s].device
        m == leases[s].media
    IN  /\ call.step = "idle"
        /\ Leased(s)
        /\ leases' = [leases EXCEPT ![s] = NoLease]
        /\ owner' = IF m THEN [owner EXCEPT ![d] = NoSession] ELSE owner
        /\ operations' = [operations EXCEPT ![s] = {}]
        /\ ReleaseActivity(d, m)
        /\ call' = [Idle EXCEPT
                      !.step = "release_cancel", !.device = d, !.session = s,
                      !.ops = operations[s], !.unbind = m,
                      !.reset = IsAxtp(d) /\ LeasesOf(d, m) = {s}]
        /\ UNCHANGED <<running, broker, rows, nextId, granted, binding, opState, opSession>>

ReleaseLocked(s) ==
    LET d == leases[s].device
        m == leases[s].media
    IN  /\ call.step = "idle"
        /\ Leased(s)
        /\ leases' = [leases EXCEPT ![s] = NoLease]
        /\ owner' = IF m /\ owner[d] = s THEN [owner EXCEPT ![d] = NoSession]
                                         ELSE owner
        /\ operations' = [operations EXCEPT ![s] = {}]
        /\ ReleaseActivity(d, m)
        /\ call' = [Idle EXCEPT
                      !.step = "release_cancel", !.device = d, !.session = s,
                      !.ops = operations[s],
                      !.unbind = m /\ IsAxtp(d),
                      !.reset = IsAxtp(d) /\ LeasesOf(d, TRUE) \cup LeasesOf(d, FALSE) = {s}]
        /\ UNCHANGED <<running, broker, rows, nextId, granted, binding, opState, opSession>>

ReleaseCancel ==
    /\ call.step = "release_cancel"
    /\ opState' = Cancelled(call.ops)
    /\ call' = [call EXCEPT !.step = "release_unbind", !.ops = {}]
    /\ UNCHANGED <<hostVars, registry, granted, binding, opSession, operations>>

\* unbind_media_delivery_session removes the binding of this session only.
ReleaseUnbind ==
    /\ call.step = "release_unbind"
    /\ binding' = IF call.unbind /\ binding[call.device] = call.session
                  THEN [binding EXCEPT ![call.device] = NoSession]
                  ELSE binding
    /\ call' = [call EXCEPT !.step = "release_reset"]
    /\ UNCHANGED <<hostVars, registry, granted, opVars>>

\* reset_session_for_device removes whatever binding the device has.
ReleaseReset ==
    /\ call.step = "release_reset"
    /\ binding' = IF call.reset THEN [binding EXCEPT ![call.device] = NoSession]
                                ELSE binding
    /\ call' = Idle
    /\ UNCHANGED <<hostVars, registry, granted, opVars>>

-----------------------------------------------------------------------------
\* AxentHost::reserve_maintenance

MaintenanceCheck(d) ==
    /\ call.step = "idle"
    /\ running
    /\ Known(d)
    /\ call' = [Idle EXCEPT !.step = "maintenance_acquire", !.device = d]
    /\ UNCHANGED <<hostVars, registry, granted, binding, opVars>>

MaintenanceAcquire ==
    /\ call.step = "maintenance_acquire"
    /\ \/ /\ AcquireMaintenance(call.device)
          /\ granted' = [granted EXCEPT ![call.device] = @ + 1]
       \/ /\ registry[call.device] # NoEntry
          /\ UNCHANGED <<registry, granted>>
    /\ call' = Idle
    /\ UNCHANGED <<hostVars, binding, opVars>>

\* The closure in the MaintenanceLease runs on the holder's thread whenever the
\* holder drops the lease, with no Host lock, the Host running or not.
MaintenanceRelease(d) ==
    /\ granted[d] > 0
    /\ ReleaseMaintenance(d)
    /\ granted' = [granted EXCEPT ![d] = @ - 1]
    /\ UNCHANGED <<hostVars, binding, opVars, call>>

-----------------------------------------------------------------------------
\* AxentHost::call_async and call_endpoint.  dispatch_mutex is only tried: a
\* submission that meets a running call is refused with Busy.

Submit(o, session, next) ==
    /\ opState[o] = "unused"
    /\ opState' = [opState EXCEPT ![o] = "pending"]
    /\ opSession' = [opSession EXCEPT ![o] = session]
    /\ call' = [Idle EXCEPT !.step = next, !.session = session, !.ops = {o}]
    /\ UNCHANGED <<hostVars, registry, granted, binding, operations>>

CallAsync(s, o) ==
    /\ call.step = "idle"
    /\ broker
    /\ Leased(s)
    /\ Submit(o, s, "call_register")

CallEndpoint(o) ==
    /\ call.step = "idle"
    /\ broker
    /\ Submit(o, EndpointKey, "endpoint_register")

\* Finished operations of the key are pruned, the new one is appended.
Register ==
    operations' = [operations EXCEPT ![call.session] =
                      {p \in @ : opState[p] # "ready"} \cup call.ops]

CallRegister ==
    /\ call.step = "call_register"
    /\ IF Leased(call.session)
       THEN Register /\ UNCHANGED opState
       ELSE opState' = Cancelled(call.ops) /\ UNCHANGED operations
    /\ call' = Idle
    /\ UNCHANGED <<hostVars, registry, granted, binding, opSession>>

EndpointRegister ==
    /\ call.step = "endpoint_register"
    /\ Register
    /\ call' = Idle
    /\ UNCHANGED <<hostVars, registry, granted, binding, opState, opSession>>

\* The adapter completes an operation, or its caller cancels it.
OperationReady(o) ==
    /\ opState[o] = "pending"
    /\ opState' = [opState EXCEPT ![o] = "ready"]
    /\ UNCHANGED <<hostVars, registry, granted, binding, opSession, operations, call>>

-----------------------------------------------------------------------------
Init ==
    /\ running = FALSE /\ broker = FALSE
    /\ rows = [d \in Devices |-> {}]
    /\ leases = [s \in SessionIds |-> NoLease]
    /\ owner = [d \in Devices |-> NoSession]
    /\ registry = [d \in Devices |-> NoEntry]
    /\ nextId = 1
    /\ granted = [d \in Devices |-> 0]
    /\ binding = [d \in Devices |-> NoSession]
    /\ opState = [o \in Ops |-> "unused"]
    /\ opSession = [o \in Ops |-> NoSession]
    /\ operations = [k \in SessionIds \cup {EndpointKey} |-> {}]
    /\ call = Idle

CallStep ==
    \/ StartReset \/ StartDestroy
    \/ \E found \in [Devices -> {{}, {"axtp"}, {"mock"}}] : StartBuild(found)
    \/ \E found \in [Devices -> {{}, {"mock"}}] : StartThrows(found)
    \/ StopReset \/ StopDestroy
    \/ AcquireReserve \/ AcquireOpen \/ AcquireCommit \/ AcquireBind
    \/ ReleaseCancel \/ ReleaseUnbind \/ ReleaseReset
    \/ CallRegister \/ EndpointRegister

\* What the Host does, other than granting and taking back a maintenance lease
HostStep ==
    \/ StartTake \/ StopTake
    \/ \E d \in Devices, a \in Adapters : UpsertDevice(d, a)
    \/ \E d \in Devices : RefreshDevices(d)
    \/ \E d \in Devices, media \in BOOLEAN : AcquireCheck(d, media)
    \/ \E s \in SessionIds : ReleaseLocked(s)
    \/ \E d \in Devices : MaintenanceCheck(d)
    \/ \E s \in SessionIds, o \in Ops : CallAsync(s, o)
    \/ \E o \in Ops : CallEndpoint(o) \/ OperationReady(o)
    \/ CallStep

Next ==
    \/ HostStep
    \/ MaintenanceAcquire
    \/ \E d \in Devices : MaintenanceRelease(d)

Spec == Init /\ [][Next]_vars

-----------------------------------------------------------------------------
\* Every variable holds a value the Host's state can have.
TypeOK ==
    /\ running \in BOOLEAN /\ broker \in BOOLEAN
    /\ rows \in [Devices -> SUBSET Adapters]
    /\ leases \in [SessionIds -> Lease \cup {NoLease}]
    /\ owner \in [Devices -> SessionIds \cup {NoSession}]
    /\ registry \in [Devices -> RegistryEntry]
    /\ nextId \in 1 .. MaxSession + 1
    /\ granted \in [Devices -> Nat]
    /\ binding \in [Devices -> SessionIds \cup {NoSession}]
    /\ opState \in [Ops -> {"unused", "pending", "ready"}]
    /\ opSession \in [Ops -> SessionIds \cup {EndpointKey}]
    /\ operations \in [SessionIds \cup {EndpointKey} -> SUBSET Ops]
    /\ call \in Call

\* An acquire_session that owns a reservation not yet turned into a lease.
Reserving(d, media) ==
    /\ call.step \in {"acquire_open", "acquire_commit"}
    /\ call.device = d
    /\ call.media = media

\* The registry counts, for every device and kind of activity, exactly the live
\* leases and the reservation in flight: no failed open, refused commit, release
\* or restart of the Host leaks an activity (the device would stay Busy for
\* maintenance for ever) or gives one back twice.
ActivityIsCountedOnce ==
    \A d \in Devices, media \in BOOLEAN :
        Count(registry[d], media) =
            Cardinality(LeasesOf(d, media)) + (IF Reserving(d, media) THEN 1 ELSE 0)

\* While a caller holds the maintenance lease of a device nobody else does, and
\* no session lease or reservation exists on the device, restarts included
\* (HostLeaseRegistry::acquire_maintenance and acquire_activity).
MaintenanceIsExclusive ==
    \A d \in Devices :
        granted[d] > 0 =>
            /\ granted[d] = 1
            /\ \A media \in BOOLEAN : LeasesOf(d, media) = {} /\ ~Reserving(d, media)

\* The media owner of a device and its media lease determine each other, so a
\* device never has two media leases (media_owner_session_by_device).
OwnerIsTheMediaLease ==
    /\ \A d \in Devices :
          owner[d] # NoSession => owner[d] \in LeasesOf(d, TRUE)
    /\ \A d \in Devices : \A s \in LeasesOf(d, TRUE) : owner[d] = s

\* A pending control operation is registered under a live lease (or under its
\* endpoint while there is a broker, also after a start that failed), or the call
\* in progress is about to register or to cancel it: none outlives release_session
\* or stop.
PendingOperationIsReachable ==
    \A o \in Ops :
        opState[o] = "pending" =>
            \/ o \in call.ops
            \/ /\ o \in operations[opSession[o]]
               /\ IF opSession[o] = EndpointKey THEN broker ELSE Leased(opSession[o])

\* The adapter delivers the media of a device to the session that holds its
\* media lease: no release, reset or failed acquisition of another session takes
\* the binding of a live lease away.
MediaLeaseIsBound ==
    \A s \in SessionIds :
        Leased(s) /\ leases[s].media /\ leases[s].axtp =>
            \/ binding[leases[s].device] = s
            \/ call.step = "acquire_bind" /\ call.session = s
=============================================================================
