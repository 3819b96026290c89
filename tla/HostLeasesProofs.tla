-------------------------- MODULE HostLeasesProofs --------------------------
(***************************************************************************)
(* Proofs about HostLeases, for every set of devices and operations and    *)
(* every number of sessions, and about FirmwareUpdate, for every size of   *)
(* an image and of a chunk.                                                *)
(***************************************************************************)
EXTENDS FirmwareUpdate, FiniteSetTheorems, TLAPS

-----------------------------------------------------------------------------
(* The records the actions build.                                          *)

\* The record of no call in progress is a call record.
LEMMA IdleIsCall == Idle \in Call
BY Zenon DEF Idle, Call, Steps, NoSession

\* The fields of a call record have their types.
LEMMA CallFields ==
    ASSUME NEW c \in Call
    PROVE  /\ c.step \in Steps /\ c.device \in Devices \cup {NoDevice}
           /\ c.media \in BOOLEAN /\ c.axtp \in BOOLEAN
           /\ c.session \in SessionIds \cup {NoSession}
           /\ c.ops \in SUBSET Ops /\ c.unbind \in BOOLEAN /\ c.reset \in BOOLEAN
BY Zenon DEF Call

\* WithCount replaces one counter of a registry entry and Count reads it back.
LEMMA WithCountTyped ==
    ASSUME NEW e \in RegistryEntry, NEW media \in BOOLEAN, NEW n \in Nat
    PROVE  /\ WithCount(e, media, n) \in RegistryEntry
           /\ Count(e, media) \in Nat
           /\ Count(WithCount(e, media, n), media) = n
           /\ Count(WithCount(e, media, n), ~media) = Count(e, ~media)
           /\ WithCount(e, media, n).maintenance = e.maintenance
BY Zenon DEF RegistryEntry, WithCount, Count

\* Truncated subtraction: what the registry's "if not zero, decrement" computes.
LEMMA MonusTyped ==
    ASSUME NEW a \in Nat, NEW b \in Nat
    PROVE  Monus(a, b) \in Nat
BY DEF Monus

\* An activity that is acquired or released leaves every registry entry in its type.
LEMMA ActivityTyped ==
    ASSUME registry \in [Devices -> RegistryEntry],
           NEW d \in Devices, NEW media \in BOOLEAN,
           AcquireActivity(d, media) \/ ReleaseActivity(d, media)
    PROVE  registry' \in [Devices -> RegistryEntry]
<1>1. Count(registry[d], media) \in Nat
  BY WithCountTyped, Zenon
<1>2. /\ Count(registry[d], media) + 1 \in Nat
      /\ Monus(Count(registry[d], media), 1) \in Nat
  BY <1>1 DEF Monus
<1> QED
  BY <1>2, WithCountTyped DEF AcquireActivity, ReleaseActivity

\* The leases of a device are finitely many.
LEMMA LeasesFinite ==
    ASSUME NEW d, NEW media
    PROVE  /\ IsFiniteSet(LeasesOf(d, media))
           /\ Cardinality(LeasesOf(d, media)) \in Nat
<1>1. IsFiniteSet(SessionIds)
  BY FS_Interval, ConstantsAssumption DEF SessionIds
<1>2. LeasesOf(d, media) \subseteq SessionIds
  BY Zenon DEF LeasesOf
<1>3. IsFiniteSet(LeasesOf(d, media))
  BY <1>1, <1>2, FS_Subset, Zenon
<1> QED
  BY <1>3, FS_CardinalityType, Zenon

-----------------------------------------------------------------------------
(* Type correctness.                                                       *)

\* A call between its first and its last step on a device has a device.
CallHasDevice ==
    /\ call.step \in {"acquire_reserve", "acquire_open", "acquire_commit",
                      "acquire_bind", "release_cancel", "release_unbind",
                      "release_reset", "maintenance_acquire"}
          => call.device \in Devices
    /\ call.step \in {"acquire_reserve", "acquire_open", "acquire_commit"}
          => nextId <= MaxSession
    /\ call.step = "call_register" => call.session \in SessionIds

\* The invariant TypeOK rests on.
TypeInv == TypeOK /\ CallHasDevice

\* Init establishes the type invariant.
LEMMA InitType == Init => TypeInv
<1> SUFFICES ASSUME Init PROVE TypeInv
  BY Zenon
<1>1. call \in Call
  BY IdleIsCall, Zenon DEF Init
<1>2. NoEntry \in RegistryEntry
  BY Zenon DEF NoEntry, RegistryEntry
<1>3. nextId \in 1 .. MaxSession + 1
  BY ConstantsAssumption DEF Init
<1> QED
  BY Zenon, <1>1, <1>2, <1>3 DEF Init, TypeInv, TypeOK, CallHasDevice, Idle, NoSession, EndpointKey

\* Impl::reset leaves every variable it assigns in its type.
LEMMA ResetTyped ==
    ASSUME TypeOK, Reset
    PROVE  /\ registry' \in [Devices -> RegistryEntry]
           /\ leases' \in [SessionIds -> Lease \cup {NoLease}]
           /\ owner' \in [Devices -> SessionIds \cup {NoSession}]
           /\ operations' \in [SessionIds \cup {EndpointKey} -> SUBSET Ops]
           /\ rows' \in [Devices -> SUBSET Adapters]
           /\ nextId' \in 1 .. MaxSession + 1
           /\ running' \in BOOLEAN /\ broker' \in BOOLEAN
<1>1. ASSUME NEW d \in Devices
      PROVE  /\ Cardinality(LeasesOf(d, FALSE)) \in Nat
             /\ Cardinality(LeasesOf(d, TRUE)) \in Nat
  BY Zenon, LeasesFinite
<1>2. ASSUME NEW d \in Devices
      PROVE  /\ Monus(registry[d].control, Cardinality(LeasesOf(d, FALSE))) \in Nat
             /\ Monus(registry[d].media, Cardinality(LeasesOf(d, TRUE))) \in Nat
             /\ registry[d].maintenance \in BOOLEAN
  <2>1. /\ registry[d].control \in Nat
        /\ registry[d].media \in Nat
        /\ registry[d].maintenance \in BOOLEAN
    BY Zenon DEF TypeOK, RegistryEntry
  <2> QED
    BY Zenon, <1>1, <2>1, MonusTyped
<1>3. registry' \in [Devices -> RegistryEntry]
  BY Zenon, <1>2 DEF Reset, RegistryEntry
<1>4. nextId' \in 1 .. MaxSession + 1
  BY ConstantsAssumption DEF Reset
<1> QED
  BY Zenon, <1>3, <1>4 DEF Reset

\* Every step keeps the type invariant.
LEMMA NextType == TypeInv /\ [Next]_vars => TypeInv'
<1> SUFFICES ASSUME TypeInv, [Next]_vars PROVE TypeInv'
  BY Zenon
<1>0. call \in Call
  BY Zenon DEF TypeInv, TypeOK
<1>1. ASSUME NEW st \in {"start_reset", "stop_reset"}, TakeAllOperations(st)
      PROVE  TypeInv'
  <2>1. AllOperations \in SUBSET Ops
    BY DEF AllOperations, TypeInv, TypeOK
  <2>2. call' \in Call /\ call'.step = st
    BY Zenon, <1>1, <2>1 DEF TakeAllOperations, Steps, Call, Idle, NoSession
  <2> QED
    BY <1>1, <2>2, Zenon DEF TakeAllOperations, hostVars, TypeInv, TypeOK, CallHasDevice
<1>2. ASSUME NEW st \in {"start_destroy", "stop_destroy"}, Reset,
             opState' = Cancelled(call.ops), call' = [Idle EXCEPT !.step = st],
             UNCHANGED <<granted, binding, opSession>>
      PROVE  TypeInv'
  <2>1. opState' \in [Ops -> {"unused", "pending", "ready"}]
    BY <1>2, Zenon DEF Cancelled, TypeInv, TypeOK
  <2>2. call' \in Call /\ call'.step = st
    BY Zenon, <1>2 DEF Steps, Call, Idle, NoSession
  <2> QED
    BY <1>2, <2>1, <2>2, ResetTyped, Zenon DEF TypeInv, TypeOK, CallHasDevice
<1>3. CASE StartTake
  BY <1>1, <1>3, Zenon DEF StartTake
<1>4. CASE StartReset
  BY <1>2, <1>4, Zenon DEF StartReset
<1>5. CASE StartDestroy
  <2>1. call' \in Call /\ call'.step = "start_build"
    BY Zenon, <1>5 DEF StartDestroy, DestroyAdapter, Steps, Call, Idle, NoSession
  <2> QED
    BY <1>5, <2>1, Zenon DEF StartDestroy, DestroyAdapter, hostVars, opVars, NoSession,
                      TypeInv, TypeOK, CallHasDevice
<1> USE IdleIsCall
<1>6. ASSUME NEW found \in [Devices -> {{}, {"axtp"}, {"mock"}}], StartBuild(found)
      PROVE  TypeInv'
  BY <1>6 DEF StartBuild, opVars, Adapters, Idle, TypeInv, TypeOK, CallHasDevice
<1>32. ASSUME NEW found \in [Devices -> {{}, {"mock"}}], StartThrows(found)
       PROVE  TypeInv'
  BY <1>32 DEF StartThrows, opVars, Adapters, Idle, TypeInv, TypeOK, CallHasDevice
<1>7. CASE StopTake
  BY <1>1, <1>7, Zenon DEF StopTake
<1>8. CASE StopReset
  BY <1>2, <1>8, Zenon DEF StopReset
<1>9. CASE StopDestroy
  BY <1>9, Zenon DEF StopDestroy, DestroyAdapter, hostVars, opVars, NoSession, Idle,
              TypeInv, TypeOK, CallHasDevice
<1>10. ASSUME NEW d \in Devices, NEW a \in Adapters, UpsertDevice(d, a)
       PROVE  TypeInv'
  BY <1>10, Zenon DEF UpsertDevice, opVars, TypeInv, TypeOK, CallHasDevice
<1>11. ASSUME NEW d \in Devices, RefreshDevices(d)
       PROVE  TypeInv'
  BY <1>11, Zenon DEF RefreshDevices, opVars, Adapters, TypeInv, TypeOK, CallHasDevice
<1>12. ASSUME NEW d \in Devices, NEW media \in BOOLEAN, AcquireCheck(d, media)
       PROVE  TypeInv'
  <2>1. call' \in Call /\ call'.step = "acquire_reserve" /\ call'.device = d
    BY Zenon, <1>12 DEF AcquireCheck, Steps, IsAxtp, Call, Idle, NoSession
  <2> QED
    BY <1>12, <2>1, Zenon DEF AcquireCheck, hostVars, opVars, TypeInv, TypeOK, CallHasDevice
<1>13. CASE AcquireReserve
  <2>1. call.device \in Devices /\ call.media \in BOOLEAN /\ nextId <= MaxSession
    BY <1>0, <1>13, CallFields, Zenon DEF AcquireReserve, TypeInv, CallHasDevice
  <2>2. CASE /\ AcquireActivity(call.device, call.media)
             /\ call' = [call EXCEPT !.step = IF call.axtp THEN "acquire_open"
                                                           ELSE "acquire_commit"]
    <3>1. registry' \in [Devices -> RegistryEntry]
      BY <2>1, <2>2, ActivityTyped, Zenon DEF TypeInv, TypeOK
    <3>2. /\ call' \in Call /\ call'.step \in {"acquire_open", "acquire_commit"}
          /\ call'.device = call.device
      BY <1>0, <2>2, Zenon DEF Steps, Call
    <3> QED
      BY <1>13, <2>1, <3>1, <3>2, Zenon
         DEF AcquireReserve, hostVars, opVars, TypeInv, TypeOK, CallHasDevice
  <2>3. CASE call' = Idle /\ UNCHANGED registry
    BY <1>13, <2>3, Zenon
       DEF AcquireReserve, hostVars, opVars, Idle, TypeInv, TypeOK, CallHasDevice
  <2> QED
    BY <1>13, <2>2, <2>3, Zenon DEF AcquireReserve
<1>14. CASE AcquireOpen
  <2>1. call.device \in Devices /\ call.media \in BOOLEAN /\ nextId <= MaxSession
    BY <1>0, <1>14, CallFields, Zenon DEF AcquireOpen, TypeInv, CallHasDevice
  <2>2. CASE call' = [call EXCEPT !.step = "acquire_commit"] /\ UNCHANGED registry
    <3>1. call' \in Call /\ call'.step = "acquire_commit" /\ call'.device = call.device
      BY <1>0, <2>2, Zenon DEF Steps, Call
    <3> QED
      BY <1>14, <2>1, <2>2, <3>1, Zenon
         DEF AcquireOpen, hostVars, opVars, TypeInv, TypeOK, CallHasDevice
  <2>3. CASE ReleaseActivity(call.device, call.media) /\ call' = Idle
    <3>1. registry' \in [Devices -> RegistryEntry]
      BY <2>1, <2>3, ActivityTyped, Zenon DEF TypeInv, TypeOK
    <3> QED
      BY <1>14, <2>3, <3>1, Zenon
         DEF AcquireOpen, hostVars, opVars, Idle, TypeInv, TypeOK, CallHasDevice
  <2> QED
    BY <1>14, <2>2, <2>3, Zenon DEF AcquireOpen
<1>15. CASE AcquireCommit
  <2>1. call.device \in Devices /\ call.media \in BOOLEAN /\ call.axtp \in BOOLEAN
    BY <1>0, <1>15, CallFields, Zenon DEF AcquireCommit, TypeInv, CallHasDevice
  <2>2. nextId \in SessionIds /\ nextId + 1 \in 1 .. MaxSession + 1
    BY <1>15, ConstantsAssumption DEF AcquireCommit, TypeInv, TypeOK, CallHasDevice, SessionIds
  <2>3. CASE Known(call.device) /\ (call.media => owner[call.device] = NoSession)
    <3>1. [device |-> call.device, media |-> call.media, axtp |-> call.axtp] \in Lease
      BY <2>1, Zenon DEF Lease
    <3>2. /\ call' \in Call
          /\ \/ call' = Idle
             \/ call'.step = "acquire_bind" /\ call'.device = call.device
      <4>1. \/ call' = Idle
            \/ call' = [call EXCEPT !.step = "acquire_bind", !.session = nextId]
        BY <1>15, <2>3, Zenon DEF AcquireCommit
      <4>2. CASE call' = Idle
        BY <4>2, IdleIsCall, Zenon
      <4>3. CASE call' = [call EXCEPT !.step = "acquire_bind", !.session = nextId]
        BY Zenon, <1>0, <2>2, <4>3 DEF Steps, Call
      <4> QED
        BY <4>1, <4>2, <4>3, Zenon
    <3>3. leases' \in [SessionIds -> Lease \cup {NoLease}]
      BY <1>15, <2>2, <2>3, <3>1, Zenon DEF AcquireCommit, TypeInv, TypeOK
    <3>4. owner' \in [Devices -> SessionIds \cup {NoSession}]
      BY <1>15, <2>1, <2>2, <2>3 DEF AcquireCommit, TypeInv, TypeOK
    <3>5. nextId' \in 1 .. MaxSession + 1
      BY <1>15, <2>2, <2>3, Zenon DEF AcquireCommit
    <3>6. CallHasDevice'
      BY <2>1, <3>2 DEF Idle, CallHasDevice
    <3>7. TypeOK'
      BY <1>15, <2>3, <3>2, <3>3, <3>4, <3>5, Zenon DEF AcquireCommit, opVars, TypeInv, TypeOK
    <3> QED
      BY <3>6, <3>7, Zenon DEF TypeInv
  <2>4. CASE ~(Known(call.device) /\ (call.media => owner[call.device] = NoSession))
    <3>1. registry' \in [Devices -> RegistryEntry]
      BY <1>15, <2>1, <2>4, ActivityTyped, Zenon DEF AcquireCommit, TypeInv, TypeOK
    <3>2. /\ call' = Idle
          /\ UNCHANGED <<running, broker, rows, leases, owner, nextId, granted, binding,
                         opState, opSession, operations>>
      BY <1>15, <2>4, Zenon DEF AcquireCommit, opVars
    <3> QED
      BY <3>1, <3>2, Zenon DEF Idle, TypeInv, TypeOK, CallHasDevice
  <2> QED
    BY <2>3, <2>4, Zenon
<1>16. CASE AcquireBind
  <2>1. call.device \in Devices /\ call.session \in SessionIds \cup {NoSession}
    BY <1>0, <1>16, CallFields, Zenon DEF AcquireBind, TypeInv, CallHasDevice
  <2> QED
    BY <1>16, <2>1, Zenon
       DEF AcquireBind, hostVars, opVars, Idle, TypeInv, TypeOK, CallHasDevice
<1>17. ASSUME NEW s \in SessionIds, ReleaseLocked(s)
       PROVE  TypeInv'
  <2>1. leases[s].device \in Devices /\ leases[s].media \in BOOLEAN
    BY <1>17, Zenon DEF ReleaseLocked, Leased, TypeInv, TypeOK, Lease
  <2>2. registry' \in [Devices -> RegistryEntry]
    BY <1>17, <2>1, ActivityTyped, Zenon DEF ReleaseLocked, TypeInv, TypeOK
  <2>3. operations[s] \in SUBSET Ops
    BY Zenon DEF TypeInv, TypeOK
  <2>4. /\ call' \in Call /\ call'.step = "release_cancel"
        /\ call'.device = leases[s].device
    BY Zenon, <1>17, <2>1, <2>3 DEF ReleaseLocked, Steps, Call, Idle, NoSession, IsAxtp
  <2>5. owner' \in [Devices -> SessionIds \cup {NoSession}]
    BY <1>17, <2>1, Zenon DEF ReleaseLocked, TypeInv, TypeOK
  <2>6. operations' \in [SessionIds \cup {EndpointKey} -> SUBSET Ops]
    BY <1>17, Zenon DEF ReleaseLocked, TypeInv, TypeOK
  <2>7. leases' \in [SessionIds -> Lease \cup {NoLease}]
    BY <1>17, Zenon DEF ReleaseLocked, TypeInv, TypeOK
  <2> QED
    BY <1>17, <2>1, <2>2, <2>4, <2>5, <2>6, <2>7, Zenon
       DEF ReleaseLocked, TypeInv, TypeOK, CallHasDevice
<1>18. CASE ReleaseCancel
  <2>1. /\ call' \in Call /\ call'.step = "release_unbind"
        /\ call'.device = call.device
    BY Zenon, <1>0, <1>18 DEF ReleaseCancel, Steps, Call
  <2>2. opState' \in [Ops -> {"unused", "pending", "ready"}]
    BY <1>18, Zenon DEF ReleaseCancel, Cancelled, TypeInv, TypeOK
  <2> QED
    BY <1>18, <2>1, <2>2, Zenon DEF ReleaseCancel, hostVars, TypeInv, TypeOK, CallHasDevice
<1>19. CASE ReleaseUnbind
  <2>1. /\ call' \in Call /\ call'.step = "release_reset"
        /\ call'.device = call.device
    BY <1>0, <1>19, Zenon DEF ReleaseUnbind, Steps, Call
  <2>2. binding' \in [Devices -> SessionIds \cup {NoSession}]
    BY Zenon, <1>19 DEF ReleaseUnbind, TypeInv, TypeOK
  <2> QED
    BY <1>19, <2>1, <2>2, Zenon
       DEF ReleaseUnbind, hostVars, opVars, TypeInv, TypeOK, CallHasDevice
<1>20. CASE ReleaseReset
  <2>1. binding' \in [Devices -> SessionIds \cup {NoSession}]
    BY Zenon, <1>20 DEF ReleaseReset, TypeInv, TypeOK
  <2> QED
    BY <1>20, <2>1, Zenon
       DEF ReleaseReset, hostVars, opVars, Idle, TypeInv, TypeOK, CallHasDevice
<1>21. ASSUME NEW d \in Devices, MaintenanceCheck(d)
       PROVE  TypeInv'
  <2>1. call' \in Call /\ call'.step = "maintenance_acquire" /\ call'.device = d
    BY Zenon, <1>21 DEF MaintenanceCheck, Steps, Call, Idle, NoSession
  <2> QED
    BY <1>21, <2>1, Zenon DEF MaintenanceCheck, hostVars, opVars, TypeInv, TypeOK, CallHasDevice
<1>22. CASE MaintenanceAcquire
  <2>0. call.device \in Devices
    BY <1>22, Zenon DEF MaintenanceAcquire, TypeInv, CallHasDevice
  <2>1. registry' \in [Devices -> RegistryEntry]
    <3>1. CASE AcquireMaintenance(call.device)
      <4>1. registry[call.device] \in RegistryEntry /\ registry \in [Devices -> RegistryEntry]
        BY <2>0, Zenon DEF TypeInv, TypeOK
      <4>2. [registry[call.device] EXCEPT !.maintenance = TRUE] \in RegistryEntry
        BY Zenon, <4>1 DEF RegistryEntry
      <4> QED
        BY <2>0, <3>1, <4>1, <4>2, Zenon DEF AcquireMaintenance
    <3>2. CASE UNCHANGED registry
      BY <3>2, Zenon DEF TypeInv, TypeOK
    <3> QED
      BY <1>22, <3>1, <3>2, Zenon DEF MaintenanceAcquire
  <2>2. granted' \in [Devices -> Nat]
    BY <1>22 DEF MaintenanceAcquire, TypeInv, TypeOK
  <2> QED
    BY <1>22, <2>1, <2>2, Zenon
       DEF MaintenanceAcquire, hostVars, opVars, Idle, TypeInv, TypeOK, CallHasDevice
<1>23. ASSUME NEW d \in Devices, MaintenanceRelease(d)
       PROVE  TypeInv'
  <2>1. registry' \in [Devices -> RegistryEntry]
    BY Zenon, <1>23 DEF MaintenanceRelease, ReleaseMaintenance, RegistryEntry, TypeInv, TypeOK
  <2>2. granted' \in [Devices -> Nat]
    BY <1>23 DEF MaintenanceRelease, TypeInv, TypeOK
  <2> QED
    BY <1>23, <2>1, <2>2, Zenon
       DEF MaintenanceRelease, hostVars, opVars, TypeInv, TypeOK, CallHasDevice
<1>24. ASSUME NEW k \in SessionIds \cup {EndpointKey}, NEW o \in Ops, NEW st \in Steps,
              Submit(o, k, st), 
              \/ st = "call_register" /\ k \in SessionIds
              \/ st = "endpoint_register"
       PROVE  TypeInv'
  <2>1. call' \in Call /\ call'.step = st /\ call'.session = k
    BY Zenon, <1>24 DEF Submit, Call, Idle, NoSession, EndpointKey
  <2> QED
    BY <1>24, <2>1, Zenon DEF Submit, hostVars, TypeInv, TypeOK, CallHasDevice
<1>25. ASSUME NEW s \in SessionIds, NEW o \in Ops, CallAsync(s, o)
       PROVE  TypeInv'
  BY <1>24, <1>25, Zenon DEF CallAsync, Steps
<1>26. ASSUME NEW o \in Ops, CallEndpoint(o)
       PROVE  TypeInv'
  BY <1>24, <1>26, Zenon DEF CallEndpoint, Steps
<1>27. ASSUME Register
       PROVE  operations' \in [SessionIds \cup {EndpointKey} -> SUBSET Ops]
  BY Zenon, <1>0, <1>27, CallFields DEF Register, TypeInv, TypeOK
<1>28. CASE CallRegister
  <2>1. operations' \in [SessionIds \cup {EndpointKey} -> SUBSET Ops]
    BY <1>27, <1>28, Zenon DEF CallRegister, TypeInv, TypeOK
  <2>2. opState' \in [Ops -> {"unused", "pending", "ready"}]
    BY <1>28, Zenon DEF CallRegister, Cancelled, TypeInv, TypeOK
  <2> QED
    BY <1>28, <2>1, <2>2, Zenon DEF CallRegister, hostVars, Idle, TypeInv, TypeOK, CallHasDevice
<1>29. CASE EndpointRegister
  BY <1>27, <1>29, Zenon DEF EndpointRegister, hostVars, Idle, TypeInv, TypeOK, CallHasDevice
<1>30. ASSUME NEW o \in Ops, OperationReady(o)
       PROVE  TypeInv'
  BY <1>30, Zenon DEF OperationReady, hostVars, TypeInv, TypeOK, CallHasDevice
<1>31. CASE UNCHANGED vars
  BY <1>31, Zenon DEF vars, TypeInv, TypeOK, CallHasDevice
<1> QED
  BY <1>3, <1>4, <1>5, <1>6, <1>7, <1>8, <1>9, <1>10, <1>11, <1>12, <1>13, <1>14,
     <1>15, <1>16, <1>17, <1>18, <1>19, <1>20, <1>21, <1>22, <1>23, <1>25, <1>26,
     <1>28, <1>29, <1>30, <1>31, <1>32, Zenon
  DEF Next, HostStep, CallStep

\* Every reachable state of the Host is well typed.
THEOREM TypeCorrect == Spec => []TypeOK
<1>1. TypeInv => TypeOK
  BY Zenon DEF TypeInv
<1> QED
  BY <1>1, InitType, NextType, PTL DEF Spec

-----------------------------------------------------------------------------
(* The lease invariant: what the registry, the leases and the owners say   *)
(* about each other.                                                       *)

\* DeviceSessionManager hands out the ids of live leases once.
SessionIdsAreFresh == \A s \in SessionIds : Leased(s) => s < nextId

\* The maintenance flag of a device is set exactly while one caller holds it.
MaintenanceIsRecorded ==
    \A d \in Devices : granted[d] = IF registry[d].maintenance THEN 1 ELSE 0

\* A device under maintenance has no counted activity.
MaintenanceKeepsActivityOut ==
    \A d \in Devices :
        registry[d].maintenance => \A media \in BOOLEAN : Count(registry[d], media) = 0

\* The inductive invariant.
LeaseInv ==
    /\ TypeInv
    /\ SessionIdsAreFresh
    /\ MaintenanceIsRecorded
    /\ MaintenanceKeepsActivityOut
    /\ ActivityIsCountedOnce
    /\ OwnerIsTheMediaLease

\* acquire_activity adds one to one counter of one device without maintenance.
LEMMA AcquireActivityCounts ==
    ASSUME registry \in [Devices -> RegistryEntry],
           NEW d \in Devices, NEW m \in BOOLEAN, AcquireActivity(d, m)
    PROVE  /\ ~registry[d].maintenance
           /\ Count(registry'[d], m) = Count(registry[d], m) + 1
           /\ \A e \in Devices, k \in BOOLEAN :
                 e # d \/ k # m => Count(registry'[e], k) = Count(registry[e], k)
           /\ \A e \in Devices : registry'[e].maintenance = registry[e].maintenance
<1>1. registry[d] \in RegistryEntry /\ Count(registry[d], m) + 1 \in Nat
  BY WithCountTyped
<1>2. /\ registry'[d] = WithCount(registry[d], m, Count(registry[d], m) + 1)
      /\ \A e \in Devices : e # d => registry'[e] = registry[e]
      /\ ~registry[d].maintenance
  BY Zenon DEF AcquireActivity
<1>3. /\ Count(registry'[d], m) = Count(registry[d], m) + 1
      /\ Count(registry'[d], ~m) = Count(registry[d], ~m)
      /\ registry'[d].maintenance = registry[d].maintenance
  BY <1>1, <1>2, WithCountTyped
<1>4. ASSUME NEW k \in BOOLEAN, k # m PROVE k = ~m
  BY <1>4, Zenon
<1> QED
  BY <1>2, <1>3, <1>4, Zenon

\* release_activity takes one, if there is one, from one counter of one device.
LEMMA ReleaseActivityCounts ==
    ASSUME registry \in [Devices -> RegistryEntry],
           NEW d \in Devices, NEW m \in BOOLEAN, ReleaseActivity(d, m)
    PROVE  /\ Count(registry'[d], m) = Monus(Count(registry[d], m), 1)
           /\ \A e \in Devices, k \in BOOLEAN :
                 e # d \/ k # m => Count(registry'[e], k) = Count(registry[e], k)
           /\ \A e \in Devices : registry'[e].maintenance = registry[e].maintenance
<1>1. registry[d] \in RegistryEntry /\ Monus(Count(registry[d], m), 1) \in Nat
  BY WithCountTyped, MonusTyped, Zenon
<1>2. /\ registry'[d] = WithCount(registry[d], m, Monus(Count(registry[d], m), 1))
      /\ \A e \in Devices : e # d => registry'[e] = registry[e]
  BY Zenon DEF ReleaseActivity
<1>3. /\ Count(registry'[d], m) = Monus(Count(registry[d], m), 1)
      /\ Count(registry'[d], ~m) = Count(registry[d], ~m)
      /\ registry'[d].maintenance = registry[d].maintenance
  BY <1>1, <1>2, WithCountTyped
<1>4. ASSUME NEW k \in BOOLEAN, k # m PROVE k = ~m
  BY <1>4, Zenon
<1> QED
  BY <1>2, <1>3, <1>4, Zenon

\* A new lease joins the leases of its device and kind, and no others.
LEMMA LeaseAdded ==
    ASSUME TypeOK, NEW n \in SessionIds, ~Leased(n), NEW l \in Lease,
           leases' = [leases EXCEPT ![n] = l]
    PROVE  /\ LeasesOf(l.device, l.media)' = LeasesOf(l.device, l.media) \cup {n}
           /\ n \notin LeasesOf(l.device, l.media)
           /\ \A e \in Devices, k \in BOOLEAN :
                 e # l.device \/ k # l.media => LeasesOf(e, k)' = LeasesOf(e, k)
<1>1. l # NoLease
  BY ConstantsAssumption DEF Lease, NoLease
<1> QED
  BY <1>1, Zenon DEF LeasesOf, Leased, TypeOK

\* A lease that ends leaves the leases of its device and kind, and no others.
LEMMA LeaseRemoved ==
    ASSUME TypeOK, NEW n \in SessionIds, Leased(n),
           leases' = [leases EXCEPT ![n] = NoLease],
           NEW d, NEW m, d = leases[n].device, m = leases[n].media
    PROVE  /\ LeasesOf(d, m)' = LeasesOf(d, m) \ {n}
           /\ n \in LeasesOf(d, m)
           /\ \A e \in Devices, k \in BOOLEAN :
                 e # d \/ k # m => LeasesOf(e, k)' = LeasesOf(e, k)
BY Zenon DEF LeasesOf, Leased, TypeOK

\* Init establishes the lease invariant.
LEMMA InitLease == Init => LeaseInv
<1> SUFFICES ASSUME Init PROVE LeaseInv
  BY Zenon
<1>1. TypeInv
  BY InitType, Zenon
<1>2. ASSUME NEW d \in Devices, NEW m \in BOOLEAN
      PROVE  LeasesOf(d, m) = {} /\ Count(registry[d], m) = 0 /\ ~Reserving(d, m)
  BY Zenon DEF Init, LeasesOf, Leased, Count, NoEntry, Reserving, Idle
<1>3. ActivityIsCountedOnce
  BY <1>2, FS_EmptySet DEF ActivityIsCountedOnce
<1>4. SessionIdsAreFresh /\ OwnerIsTheMediaLease
  BY Zenon, <1>2 DEF Init, SessionIdsAreFresh, OwnerIsTheMediaLease, Leased
<1>5. MaintenanceIsRecorded /\ MaintenanceKeepsActivityOut
  BY Zenon DEF Init, NoEntry, MaintenanceIsRecorded, MaintenanceKeepsActivityOut
<1> QED
  BY <1>1, <1>3, <1>4, <1>5, Zenon DEF LeaseInv

\* A step that touches neither the leases nor the registry and starts or ends no
\* reservation keeps the lease invariant.
LEMMA LeaseFrame ==
    ASSUME LeaseInv, TypeInv',
           UNCHANGED <<leases, owner, registry, granted, nextId>>,
           \A d \in Devices, m \in BOOLEAN : Reserving(d, m)' <=> Reserving(d, m)
    PROVE  LeaseInv'
<1>1. ASSUME NEW d, NEW m PROVE LeasesOf(d, m)' = LeasesOf(d, m)
  BY Zenon DEF LeasesOf, Leased
<1>2. ActivityIsCountedOnce'
  BY <1>1, Zenon DEF LeaseInv, ActivityIsCountedOnce
<1>3. OwnerIsTheMediaLease'
  BY Zenon, <1>1 DEF LeaseInv, OwnerIsTheMediaLease
<1>4. SessionIdsAreFresh'
  BY Zenon DEF LeaseInv, SessionIdsAreFresh, Leased
<1>5. MaintenanceIsRecorded' /\ MaintenanceKeepsActivityOut'
  BY Zenon DEF LeaseInv, MaintenanceIsRecorded, MaintenanceKeepsActivityOut
<1> QED
  BY <1>2, <1>3, <1>4, <1>5, Zenon DEF LeaseInv

\* Impl::reset gives every activity back and ends every lease.
LEMMA ResetLease ==
    ASSUME LeaseInv, TypeInv', Reset, UNCHANGED granted,
           \A d \in Devices, m \in BOOLEAN : ~Reserving(d, m) /\ ~Reserving(d, m)'
    PROVE  LeaseInv'
<1>1. ASSUME NEW d \in Devices, NEW m \in BOOLEAN PROVE LeasesOf(d, m)' = {}
  BY Zenon DEF Reset, LeasesOf, Leased
<1>2. ASSUME NEW d \in Devices
      PROVE  /\ registry'[d].control = 0
             /\ registry'[d].media = 0
             /\ registry'[d].maintenance = registry[d].maintenance
  <2>1. ASSUME NEW m \in BOOLEAN
        PROVE  /\ Count(registry[d], m) = Cardinality(LeasesOf(d, m))
               /\ Cardinality(LeasesOf(d, m)) \in Nat
    <3>1. Count(registry[d], m) = Cardinality(LeasesOf(d, m)) + 0
      BY Zenon DEF LeaseInv, ActivityIsCountedOnce
    <3> QED
      BY <3>1, LeasesFinite
  <2>2. /\ registry[d].control = Cardinality(LeasesOf(d, FALSE))
        /\ registry[d].media = Cardinality(LeasesOf(d, TRUE))
    BY Zenon, <2>1 DEF Count
  <2>3. \A n \in Nat : Monus(n, n) = 0
    BY DEF Monus
  <2> QED
    BY Zenon, <2>1, <2>2, <2>3 DEF Reset
<1>3. ActivityIsCountedOnce'
  BY <1>1, <1>2, FS_EmptySet DEF ActivityIsCountedOnce, Count
<1>4. OwnerIsTheMediaLease' /\ SessionIdsAreFresh'
  BY Zenon, <1>1 DEF Reset, OwnerIsTheMediaLease, SessionIdsAreFresh, Leased
<1>5. MaintenanceIsRecorded' /\ MaintenanceKeepsActivityOut'
  BY <1>2, Zenon DEF LeaseInv, MaintenanceIsRecorded, MaintenanceKeepsActivityOut, Count
<1> QED
  BY <1>3, <1>4, <1>5, Zenon DEF LeaseInv

\* The destructor of the reservation takes back what acquire_activity counted.
LEMMA ReservationReturned ==
    ASSUME LeaseInv, TypeInv', NEW d \in Devices, NEW m \in BOOLEAN, Reserving(d, m),
           ReleaseActivity(d, m), call' = Idle,
           UNCHANGED <<leases, owner, granted, nextId>>
    PROVE  LeaseInv'
<1>0. registry \in [Devices -> RegistryEntry]
  BY Zenon DEF LeaseInv, TypeInv, TypeOK
<1>1. ASSUME NEW e, NEW k PROVE LeasesOf(e, k)' = LeasesOf(e, k)
  BY Zenon DEF LeasesOf, Leased
<1>2. ASSUME NEW e \in Devices, NEW k \in BOOLEAN
      PROVE  /\ ~Reserving(e, k)'
             /\ (e # d \/ k # m) => ~Reserving(e, k)
  BY Zenon DEF Reserving, Idle
<1>3. /\ Count(registry[d], m) = Cardinality(LeasesOf(d, m)) + 1
      /\ Cardinality(LeasesOf(d, m)) \in Nat
  BY LeasesFinite, Zenon DEF LeaseInv, ActivityIsCountedOnce
<1>4. Count(registry'[d], m) = Cardinality(LeasesOf(d, m)) + 0
  BY <1>0, <1>3, ReleaseActivityCounts DEF Monus
<1>5. ActivityIsCountedOnce'
  <2> SUFFICES ASSUME NEW e \in Devices, NEW k \in BOOLEAN
               PROVE  Count(registry'[e], k) = Cardinality(LeasesOf(e, k)) + 0
    BY <1>1, <1>2, Zenon DEF ActivityIsCountedOnce
  <2>1. CASE e = d /\ k = m
    BY <1>4, <2>1, Zenon
  <2>2. CASE e # d \/ k # m
    BY <1>0, <1>2, <2>2, ReleaseActivityCounts DEF LeaseInv, ActivityIsCountedOnce
  <2> QED
    BY <2>1, <2>2, Zenon
<1>6. ~registry[d].maintenance
  BY <1>3 DEF LeaseInv, MaintenanceKeepsActivityOut
<1>7. MaintenanceIsRecorded' /\ MaintenanceKeepsActivityOut'
  BY <1>0, <1>6, ReleaseActivityCounts
     DEF LeaseInv, MaintenanceIsRecorded, MaintenanceKeepsActivityOut
<1>8. SessionIdsAreFresh' /\ OwnerIsTheMediaLease'
  BY Zenon, <1>1 DEF LeaseInv, SessionIdsAreFresh, OwnerIsTheMediaLease, Leased
<1> QED
  BY <1>5, <1>7, <1>8, Zenon DEF LeaseInv

\* A reservation is counted from the step that makes it.
LEMMA ReserveLease == LeaseInv /\ TypeInv' /\ AcquireReserve => LeaseInv'
<1> SUFFICES ASSUME LeaseInv, TypeInv', AcquireReserve PROVE LeaseInv'
  BY Zenon
<1>0. /\ registry \in [Devices -> RegistryEntry] /\ call \in Call
      /\ call.device \in Devices /\ call.media \in BOOLEAN
  BY CallFields, Zenon DEF AcquireReserve, LeaseInv, TypeInv, TypeOK, CallHasDevice
<1>1. UNCHANGED <<leases, owner, granted, nextId>>
  BY Zenon DEF AcquireReserve, hostVars
<1>2. ASSUME NEW e \in Devices, NEW k \in BOOLEAN PROVE ~Reserving(e, k)
  BY Zenon DEF AcquireReserve, Reserving
<1>3. CASE /\ AcquireActivity(call.device, call.media)
           /\ call' = [call EXCEPT !.step = IF call.axtp THEN "acquire_open"
                                                         ELSE "acquire_commit"]
  <2>1. PICK d \in Devices, m \in BOOLEAN : d = call.device /\ m = call.media
    BY <1>0, Zenon
  <2>2. /\ call'.step \in {"acquire_open", "acquire_commit"}
        /\ call'.device = d /\ call'.media = m
    BY <1>0, <1>3, <2>1, Zenon DEF Call
  <2>3. AcquireActivity(d, m)
    BY <1>3, <2>1, Zenon
  <2>4. ASSUME NEW e, NEW k PROVE LeasesOf(e, k)' = LeasesOf(e, k)
    BY <1>1, Zenon DEF LeasesOf, Leased
  <2>5. ASSUME NEW e \in Devices, NEW k \in BOOLEAN
        PROVE  Reserving(e, k)' = (e = d /\ k = m)
    BY Zenon, <2>2 DEF Reserving
  <2>6. ASSUME NEW e \in Devices, NEW k \in BOOLEAN
        PROVE  /\ Count(registry[e], k) = Cardinality(LeasesOf(e, k)) + 0
               /\ Cardinality(LeasesOf(e, k)) \in Nat
    BY <1>2, LeasesFinite, Zenon DEF LeaseInv, ActivityIsCountedOnce
  <2>7. ActivityIsCountedOnce'
    <3> SUFFICES ASSUME NEW e \in Devices, NEW k \in BOOLEAN
                 PROVE  Count(registry'[e], k) =
                          Cardinality(LeasesOf(e, k)) + (IF e = d /\ k = m THEN 1 ELSE 0)
      BY Zenon, <2>4, <2>5 DEF ActivityIsCountedOnce
    <3>1. CASE e = d /\ k = m
      BY <1>0, <2>3, <2>6, <3>1, AcquireActivityCounts
    <3>2. CASE e # d \/ k # m
      BY <1>0, <2>3, <2>6, <3>2, AcquireActivityCounts
    <3> QED
      BY <3>1, <3>2, Zenon
  <2>8. MaintenanceIsRecorded' /\ MaintenanceKeepsActivityOut'
    BY <1>0, <1>1, <2>3, AcquireActivityCounts
       DEF LeaseInv, MaintenanceIsRecorded, MaintenanceKeepsActivityOut
  <2>9. SessionIdsAreFresh' /\ OwnerIsTheMediaLease'
    BY Zenon, <1>1, <2>4 DEF LeaseInv, SessionIdsAreFresh, OwnerIsTheMediaLease, Leased
  <2> QED
    BY <2>7, <2>8, <2>9, Zenon DEF LeaseInv
<1>4. CASE call' = Idle /\ UNCHANGED registry
  <2>1. ASSUME NEW e \in Devices, NEW k \in BOOLEAN PROVE ~Reserving(e, k)'
    BY <1>4, Zenon DEF Reserving, Idle
  <2>2. UNCHANGED <<leases, owner, registry, granted, nextId>>
    BY <1>1, <1>4, Zenon
  <2> QED
    BY <1>2, <2>1, <2>2, LeaseFrame, Zenon
<1> QED
  BY <1>3, <1>4, Zenon DEF AcquireReserve

\* A reservation becomes a lease, or is given back when the inventory changed.
LEMMA CommitLease == LeaseInv /\ TypeInv' /\ AcquireCommit => LeaseInv'
<1> SUFFICES ASSUME LeaseInv, TypeInv', AcquireCommit PROVE LeaseInv'
  BY Zenon
<1>0. /\ registry \in [Devices -> RegistryEntry] /\ call \in Call
      /\ call.device \in Devices /\ call.media \in BOOLEAN /\ call.axtp \in BOOLEAN
      /\ TypeOK
  BY CallFields, Zenon DEF AcquireCommit, LeaseInv, TypeInv, TypeOK, CallHasDevice
<1>1. PICK d \in Devices, m \in BOOLEAN : d = call.device /\ m = call.media
  BY <1>0, Zenon
<1>2. ASSUME NEW e \in Devices, NEW k \in BOOLEAN
      PROVE  Reserving(e, k) <=> (e = d /\ k = m)
  BY <1>1, Zenon DEF AcquireCommit, Reserving
<1>3. CASE Known(call.device) /\ (call.media => owner[call.device] = NoSession)
  <2> DEFINE l == [device |-> d, media |-> m, axtp |-> call.axtp]
  <2>1. /\ leases' = [leases EXCEPT ![nextId] = l]
        /\ owner' = IF m THEN [owner EXCEPT ![d] = nextId] ELSE owner
        /\ nextId' = nextId + 1
        /\ UNCHANGED <<registry, granted>>
    BY <1>1, <1>3, Zenon DEF AcquireCommit
  <2>2. l \in Lease /\ l.device = d /\ l.media = m
    BY <1>0, Zenon DEF Lease
  <2>3. nextId \in SessionIds /\ nextId \in Nat /\ ~Leased(nextId)
    BY ConstantsAssumption
       DEF AcquireCommit, LeaseInv, TypeInv, TypeOK, CallHasDevice, SessionIds,
           SessionIdsAreFresh
  <2> HIDE DEF l
  <2>4. /\ LeasesOf(d, m)' = LeasesOf(d, m) \cup {nextId}
        /\ nextId \notin LeasesOf(d, m)
        /\ \A e \in Devices, k \in BOOLEAN :
              e # d \/ k # m => LeasesOf(e, k)' = LeasesOf(e, k)
    <3>1. PICK n \in SessionIds : n = nextId
      BY <2>3, Zenon
    <3>2. leases' = [leases EXCEPT ![n] = l] /\ ~Leased(n)
      BY <2>1, <2>3, <3>1, Zenon
    <3>3. PICK r \in Lease : r = l
      BY <2>2, Zenon
    <3>4. leases' = [leases EXCEPT ![n] = r] /\ r.device = d /\ r.media = m
      BY <2>2, <3>2, <3>3, Zenon
    <3>5. /\ LeasesOf(r.device, r.media)' = LeasesOf(r.device, r.media) \cup {n}
          /\ n \notin LeasesOf(r.device, r.media)
          /\ \A e \in Devices, k \in BOOLEAN :
                e # r.device \/ k # r.media => LeasesOf(e, k)' = LeasesOf(e, k)
      BY Zenon, <1>0, <3>2, <3>4, LeaseAdded
    <3> QED
      BY <3>1, <3>4, <3>5, Zenon
  <2>5. ASSUME NEW e \in Devices, NEW k \in BOOLEAN PROVE ~Reserving(e, k)'
    <3>1. call' = Idle \/ call' = [call EXCEPT !.step = "acquire_bind", !.session = nextId]
      BY <1>3, Zenon DEF AcquireCommit
    <3>2. CASE call' = Idle
      BY <3>2, Zenon DEF Idle, Reserving
    <3>3. CASE call' = [call EXCEPT !.step = "acquire_bind", !.session = nextId]
      <4>1. call'.step = "acquire_bind"
        BY <1>0, <3>3, Zenon DEF Call
      <4> QED
        BY <4>1, Zenon DEF Reserving
    <3> QED
      BY <3>1, <3>2, <3>3, Zenon
  <2>6. ActivityIsCountedOnce'
    <3> SUFFICES ASSUME NEW e \in Devices, NEW k \in BOOLEAN
                 PROVE  Count(registry[e], k) = Cardinality(LeasesOf(e, k)') + 0
      BY <2>1, <2>5, Zenon DEF ActivityIsCountedOnce
    <3>1. CASE e = d /\ k = m
      <4>1. Count(registry[d], m) = Cardinality(LeasesOf(d, m)) + 1
        BY <1>2, Zenon DEF LeaseInv, ActivityIsCountedOnce
      <4>2. Cardinality(LeasesOf(d, m) \cup {nextId}) = Cardinality(LeasesOf(d, m)) + 1
        BY Zenon, <2>4, LeasesFinite, FS_AddElement
      <4>3. LeasesOf(e, k)' = LeasesOf(d, m) \cup {nextId}
        BY <2>4, <3>1, Zenon
      <4>4. Cardinality(LeasesOf(e, k)') = Cardinality(LeasesOf(d, m)) + 1
        BY <4>2, <4>3, Zenon
      <4> QED
        BY <3>1, <4>1, <4>4, LeasesFinite
    <3>2. CASE e # d \/ k # m
      <4>1. LeasesOf(e, k)' = LeasesOf(e, k)
        BY <2>4, <3>2, Zenon
      <4>2. Count(registry[e], k) = Cardinality(LeasesOf(e, k)) + 0
        BY <1>2, <3>2, Zenon DEF LeaseInv, ActivityIsCountedOnce
      <4> QED
        BY <4>1, <4>2, Zenon
    <3> QED
      BY <3>1, <3>2, Zenon
  <2>7. SessionIdsAreFresh'
    BY <2>1, <2>3 DEF LeaseInv, SessionIdsAreFresh, Leased, SessionIds, TypeInv, TypeOK
  <2>8. MaintenanceIsRecorded' /\ MaintenanceKeepsActivityOut'
    BY <2>1, Zenon DEF LeaseInv, MaintenanceIsRecorded, MaintenanceKeepsActivityOut
  <2>9. OwnerIsTheMediaLease'
    <3>1. CASE m = TRUE
      <4>1. owner[d] = NoSession
        BY <1>1, <1>3, <3>1, Zenon
      <4>2. LeasesOf(d, TRUE) = {}
        BY <2>3, <4>1 DEF LeaseInv, OwnerIsTheMediaLease, LeasesOf, SessionIds, NoSession
      <4>3. owner' = [owner EXCEPT ![d] = nextId]
        BY <2>1, <3>1, Zenon
      <4>4. /\ owner'[d] = nextId
            /\ \A e \in Devices : e # d => owner'[e] = owner[e]
        BY <1>0, <4>3, Zenon DEF TypeOK
      <4>5. /\ LeasesOf(d, TRUE)' = {nextId}
            /\ \A e \in Devices : e # d => LeasesOf(e, TRUE)' = LeasesOf(e, TRUE)
        BY Zenon, <2>4, <3>1, <4>2
      <4>6. \A e \in Devices : owner'[e] # NoSession => owner'[e] \in LeasesOf(e, TRUE)'
        BY Zenon, <4>4, <4>5 DEF LeaseInv, OwnerIsTheMediaLease
      <4>7. \A e \in Devices : \A s \in LeasesOf(e, TRUE)' : owner'[e] = s
        BY Zenon, <4>4, <4>5 DEF LeaseInv, OwnerIsTheMediaLease
      <4> QED
        BY Zenon, <4>6, <4>7 DEF OwnerIsTheMediaLease, NoSession
    <3>2. CASE m = FALSE
      <4>1. owner' = owner
        BY <2>1, <3>2, Zenon
      <4>2. \A e \in Devices : LeasesOf(e, TRUE)' = LeasesOf(e, TRUE)
        BY Zenon, <2>4, <3>2
      <4>3. \A e \in Devices : owner'[e] # NoSession => owner'[e] \in LeasesOf(e, TRUE)'
        BY Zenon, <4>1, <4>2 DEF LeaseInv, OwnerIsTheMediaLease
      <4>4. \A e \in Devices : \A s \in LeasesOf(e, TRUE)' : owner'[e] = s
        BY Zenon, <4>1, <4>2 DEF LeaseInv, OwnerIsTheMediaLease
      <4> QED
        BY Zenon, <4>3, <4>4 DEF OwnerIsTheMediaLease, NoSession
    <3> QED
      BY Zenon, <3>1, <3>2
  <2> QED
    BY <2>6, <2>7, <2>8, <2>9, Zenon DEF LeaseInv
<1>4. CASE ~(Known(call.device) /\ (call.media => owner[call.device] = NoSession))
  <2>1. /\ ReleaseActivity(d, m) /\ call' = Idle
        /\ UNCHANGED <<leases, owner, granted, nextId>>
    BY <1>1, <1>4, Zenon DEF AcquireCommit
  <2> QED
    BY <1>2, <2>1, ReservationReturned, Zenon
<1> QED
  BY <1>3, <1>4, Zenon

\* release_session ends one lease and returns its one activity.
LEMMA ReleaseLease ==
    ASSUME LeaseInv, TypeInv', NEW s \in SessionIds, ReleaseLocked(s)
    PROVE  LeaseInv'
<1>0. /\ registry \in [Devices -> RegistryEntry] /\ TypeOK /\ Leased(s)
      /\ leases[s].device \in Devices /\ leases[s].media \in BOOLEAN
  BY Zenon DEF ReleaseLocked, Leased, LeaseInv, TypeInv, TypeOK, Lease
<1>1. PICK d \in Devices, m \in BOOLEAN : d = leases[s].device /\ m = leases[s].media
  BY <1>0, Zenon
<1>2. /\ leases' = [leases EXCEPT ![s] = NoLease]
      /\ ReleaseActivity(d, m)
      /\ owner' = IF m /\ owner[d] = s THEN [owner EXCEPT ![d] = NoSession] ELSE owner
      /\ UNCHANGED <<granted, nextId>>
      /\ call.step = "idle"
  BY <1>1, Zenon DEF ReleaseLocked
<1>3. ASSUME NEW e \in Devices, NEW k \in BOOLEAN
      PROVE  ~Reserving(e, k) /\ ~Reserving(e, k)'
  <2>1. call'.step = "release_cancel"
    BY Zenon DEF ReleaseLocked, Idle
  <2> QED
    BY <1>2, <2>1, Zenon DEF Reserving
<1>4. /\ LeasesOf(d, m)' = LeasesOf(d, m) \ {s}
      /\ s \in LeasesOf(d, m)
      /\ \A e \in Devices, k \in BOOLEAN :
            e # d \/ k # m => LeasesOf(e, k)' = LeasesOf(e, k)
  <2>1. TypeOK /\ Leased(s)
    BY <1>0, Zenon
  <2>2. leases' = [leases EXCEPT ![s] = NoLease]
    BY <1>2, Zenon
  <2> QED
    BY <1>1, <2>1, <2>2, LeaseRemoved, ZenonT(40)
<1>5. ASSUME NEW e \in Devices, NEW k \in BOOLEAN
      PROVE  /\ Count(registry[e], k) = Cardinality(LeasesOf(e, k))
             /\ Cardinality(LeasesOf(e, k)) \in Nat
  <2>1. Count(registry[e], k) = Cardinality(LeasesOf(e, k)) + 0
    BY <1>3, Zenon DEF LeaseInv, ActivityIsCountedOnce
  <2> QED
    BY <2>1, LeasesFinite
<1>6. /\ Cardinality(LeasesOf(d, m) \ {s}) = Cardinality(LeasesOf(d, m)) - 1
      /\ Cardinality(LeasesOf(d, m) \ {s}) \in Nat
  BY <1>4, LeasesFinite, FS_RemoveElement, FS_CardinalityType, Zenon
<1>7. Count(registry'[d], m) = Cardinality(LeasesOf(d, m) \ {s})
  <2>1. Count(registry'[d], m) = Monus(Count(registry[d], m), 1)
    BY <1>0, <1>2, ReleaseActivityCounts, Zenon
  <2>2. PICK n \in Nat : n = Cardinality(LeasesOf(d, m) \ {s})
    BY <1>6, Zenon
  <2>3. Count(registry[d], m) = n + 1
    BY <1>5, <1>6, <2>2
  <2>4. Monus(n + 1, 1) = n
    BY DEF Monus
  <2> QED
    BY <2>1, <2>2, <2>3, <2>4, Zenon
<1>8. ActivityIsCountedOnce'
  <2> SUFFICES ASSUME NEW e \in Devices, NEW k \in BOOLEAN
               PROVE  Count(registry'[e], k) = Cardinality(LeasesOf(e, k)') + 0
    BY <1>3, Zenon DEF ActivityIsCountedOnce
  <2>1. CASE e = d /\ k = m
    <3>1. LeasesOf(e, k)' = LeasesOf(d, m) \ {s}
      BY <1>4, <2>1, Zenon
    <3>2. Count(registry'[e], k) = Cardinality(LeasesOf(d, m) \ {s})
      BY <1>7, <2>1, Zenon
    <3> QED
      BY <1>6, <3>1, <3>2
  <2>2. CASE e # d \/ k # m
    <3>1. LeasesOf(e, k)' = LeasesOf(e, k)
      BY <1>4, <2>2, Zenon
    <3>2. Count(registry'[e], k) = Count(registry[e], k)
      BY <1>0, <1>2, <2>2, ReleaseActivityCounts, Zenon
    <3> QED
      BY <1>5, <3>1, <3>2
  <2> QED
    BY <2>1, <2>2, Zenon
<1>9. SessionIdsAreFresh'
  BY <1>0, <1>2, Zenon DEF LeaseInv, SessionIdsAreFresh, Leased, TypeOK
<1>10. ~registry[d].maintenance
  <2>1. Count(registry[d], m) # 0
    BY <1>5, <1>6
  <2> QED
    BY <2>1, Zenon DEF LeaseInv, MaintenanceKeepsActivityOut
<1>11. MaintenanceIsRecorded' /\ MaintenanceKeepsActivityOut'
  <2>1. /\ \A e \in Devices, k \in BOOLEAN :
              e # d => Count(registry'[e], k) = Count(registry[e], k)
        /\ \A e \in Devices : registry'[e].maintenance = registry[e].maintenance
    BY <1>0, <1>2, ReleaseActivityCounts, Zenon
  <2>2. MaintenanceIsRecorded'
    BY <1>2, <2>1, Zenon DEF LeaseInv, MaintenanceIsRecorded
  <2>3. MaintenanceKeepsActivityOut'
    BY <1>10, <2>1, Zenon DEF LeaseInv, MaintenanceKeepsActivityOut
  <2> QED
    BY <2>2, <2>3, Zenon
<1>12. OwnerIsTheMediaLease'
  <2>1. CASE m = TRUE
    <3>1. owner[d] = s /\ LeasesOf(d, TRUE)' = {}
      BY Zenon, <1>4, <2>1 DEF LeaseInv, OwnerIsTheMediaLease
    <3>2. /\ owner'[d] = NoSession
          /\ \A e \in Devices : e # d => owner'[e] = owner[e]
      BY <1>0, <1>2, <2>1, <3>1, Zenon DEF TypeOK
    <3>3. \A e \in Devices : e # d => LeasesOf(e, TRUE)' = LeasesOf(e, TRUE)
      BY Zenon, <1>4
    <3>4. \A e \in Devices : owner'[e] # NoSession => owner'[e] \in LeasesOf(e, TRUE)'
      BY Zenon, <3>1, <3>2, <3>3 DEF LeaseInv, OwnerIsTheMediaLease
    <3>5. \A e \in Devices : \A n \in LeasesOf(e, TRUE)' : owner'[e] = n
      BY Zenon, <3>1, <3>2, <3>3 DEF LeaseInv, OwnerIsTheMediaLease
    <3> QED
      BY Zenon, <3>4, <3>5 DEF OwnerIsTheMediaLease, NoSession
  <2>2. CASE m = FALSE
    <3>1. owner' = owner
      BY <1>2, <2>2, Zenon
    <3>2. \A e \in Devices : LeasesOf(e, TRUE)' = LeasesOf(e, TRUE)
      BY Zenon, <1>4, <2>2
    <3> QED
      BY Zenon, <3>1, <3>2 DEF LeaseInv, OwnerIsTheMediaLease
  <2> QED
    BY Zenon, <2>1, <2>2
<1> QED
  BY <1>8, <1>9, <1>11, <1>12, Zenon DEF LeaseInv

\* The maintenance flag goes to one caller, and only on a device without activity.
LEMMA MaintenanceLease ==
    ASSUME LeaseInv, TypeInv', NEW d \in Devices,
           \/ AcquireMaintenance(d) /\ granted' = [granted EXCEPT ![d] = @ + 1]
           \/ /\ granted[d] > 0 /\ ReleaseMaintenance(d)
              /\ granted' = [granted EXCEPT ![d] = @ - 1],
           UNCHANGED <<leases, owner, nextId>>,
           \A e \in Devices, m \in BOOLEAN : Reserving(e, m)' <=> Reserving(e, m)
    PROVE  LeaseInv'
<1>0. /\ registry \in [Devices -> RegistryEntry] /\ granted \in [Devices -> Nat]
      /\ registry[d] \in RegistryEntry
  BY Zenon DEF LeaseInv, TypeInv, TypeOK
<1>1. ASSUME NEW e, NEW k PROVE LeasesOf(e, k)' = LeasesOf(e, k)
  BY Zenon DEF LeasesOf, Leased
<1>2. ASSUME NEW e \in Devices, NEW k \in BOOLEAN
      PROVE  Count(registry'[e], k) = Count(registry[e], k)
  BY <1>0 DEF AcquireMaintenance, ReleaseMaintenance, Count, RegistryEntry
<1>3. ActivityIsCountedOnce'
  BY <1>1, <1>2, Zenon DEF LeaseInv, ActivityIsCountedOnce
<1>4. SessionIdsAreFresh' /\ OwnerIsTheMediaLease'
  BY Zenon, <1>1 DEF LeaseInv, SessionIdsAreFresh, OwnerIsTheMediaLease, Leased
<1>5. ASSUME NEW e \in Devices, e # d
      PROVE  registry'[e] = registry[e] /\ granted'[e] = granted[e]
  BY <1>0, <1>5, Zenon DEF AcquireMaintenance, ReleaseMaintenance
<1>6. CASE AcquireMaintenance(d) /\ granted' = [granted EXCEPT ![d] = @ + 1]
  <2>1. registry'[d].maintenance /\ ~registry[d].maintenance
    BY <1>0, <1>6 DEF AcquireMaintenance, NoEntry, RegistryEntry
  <2>2. \A k \in BOOLEAN : Count(registry[d], k) = 0
    BY <1>6 DEF AcquireMaintenance, NoEntry, Count
  <2>3. granted'[d] = 1
    BY <1>0, <1>6, <2>1 DEF LeaseInv, MaintenanceIsRecorded
  <2>4. MaintenanceIsRecorded'
    BY <1>5, <2>1, <2>3, Zenon DEF LeaseInv, MaintenanceIsRecorded
  <2>5. MaintenanceKeepsActivityOut'
    BY <1>2, <1>5, <2>2, Zenon DEF LeaseInv, MaintenanceKeepsActivityOut
  <2> QED
    BY <1>3, <1>4, <2>4, <2>5, Zenon DEF LeaseInv
<1>7. CASE /\ granted[d] > 0 /\ ReleaseMaintenance(d)
           /\ granted' = [granted EXCEPT ![d] = @ - 1]
  <2>1. registry'[d].maintenance = FALSE
    BY <1>0, <1>7, Zenon DEF ReleaseMaintenance, RegistryEntry
  <2>2. granted'[d] = 0
    <3>1. granted[d] = 1
      BY <1>7 DEF LeaseInv, MaintenanceIsRecorded
    <3> QED
      BY <1>0, <1>7, <3>1
  <2>3. MaintenanceIsRecorded'
    BY <1>5, <2>1, <2>2, Zenon DEF LeaseInv, MaintenanceIsRecorded
  <2>4. MaintenanceKeepsActivityOut'
    BY <1>2, <1>5, <2>1, Zenon DEF LeaseInv, MaintenanceKeepsActivityOut
  <2> QED
    BY <1>3, <1>4, <2>3, <2>4, Zenon DEF LeaseInv
<1> QED
  BY <1>6, <1>7, Zenon

\* Every step keeps the lease invariant.
LEMMA NextLease == LeaseInv /\ [Next]_vars => LeaseInv'
<1> SUFFICES ASSUME LeaseInv, [Next]_vars PROVE LeaseInv'
  BY Zenon
<1>0. TypeInv /\ TypeInv' /\ call \in Call
  BY NextType, Zenon DEF LeaseInv, TypeInv, TypeOK
<1> DEFINE Frame == UNCHANGED <<leases, owner, registry, granted, nextId>>
           Quiet == call.step \notin {"acquire_open", "acquire_commit"}
           QuietNext == call'.step \notin {"acquire_open", "acquire_commit"}
<1>1. ASSUME Frame, Quiet, QuietNext PROVE LeaseInv'
  <2>1. \A d \in Devices, m \in BOOLEAN : Reserving(d, m)' <=> Reserving(d, m)
    BY <1>1, Zenon DEF Reserving
  <2> QED
    BY <1>0, <1>1, <2>1, LeaseFrame, Zenon
<1>2. ASSUME Frame, UNCHANGED call PROVE LeaseInv'
  <2>1. \A d \in Devices, m \in BOOLEAN : Reserving(d, m)' <=> Reserving(d, m)
    BY <1>2, Zenon DEF Reserving
  <2> QED
    BY <1>0, <1>2, <2>1, LeaseFrame, Zenon
<1>3. ASSUME Reset, UNCHANGED granted, Quiet, QuietNext PROVE LeaseInv'
  <2>1. \A d \in Devices, m \in BOOLEAN : ~Reserving(d, m) /\ ~Reserving(d, m)'
    BY <1>3, Zenon DEF Reserving
  <2> QED
    BY <1>0, <1>3, <2>1, ResetLease, Zenon
<1>4. CASE StartTake \/ StopTake
  <2>1. Frame /\ Quiet
    BY <1>4, Zenon DEF StartTake, StopTake, TakeAllOperations, hostVars
  <2>2. QuietNext
    BY Zenon, <1>4 DEF StartTake, StopTake, TakeAllOperations, Idle
  <2> QED
    BY <1>1, <2>1, <2>2, Zenon
<1>5. CASE StartReset \/ StopReset
  <2>1. Reset /\ UNCHANGED granted /\ Quiet
    BY <1>5, Zenon DEF StartReset, StopReset
  <2>2. QuietNext
    BY <1>5, Zenon DEF StartReset, StopReset, Idle
  <2> QED
    BY <1>3, <2>1, <2>2, Zenon
<1>6. CASE StartDestroy \/ StopDestroy
  <2>1. Frame /\ Quiet
    BY <1>6, Zenon DEF StartDestroy, StopDestroy, DestroyAdapter, hostVars
  <2>2. QuietNext
    BY <1>6 DEF StartDestroy, StopDestroy, DestroyAdapter, Idle
  <2> QED
    BY <1>1, <2>1, <2>2, Zenon
<1>7. CASE \/ \E found \in [Devices -> {{}, {"axtp"}, {"mock"}}] : StartBuild(found)
           \/ \E found \in [Devices -> {{}, {"mock"}}] : StartThrows(found)
  <2>1. Frame /\ Quiet /\ call' = Idle
    BY <1>7, Zenon DEF StartBuild, StartThrows
  <2>2. QuietNext
    BY <2>1, Zenon DEF Idle
  <2> QED
    BY <1>1, <2>1, <2>2, Zenon
<1>8. CASE \/ \E d \in Devices, a \in Adapters : UpsertDevice(d, a)
           \/ \E d \in Devices : RefreshDevices(d)
           \/ \E o \in Ops : OperationReady(o)
  <2>1. Frame /\ UNCHANGED call
    BY <1>8, Zenon DEF UpsertDevice, RefreshDevices, OperationReady, hostVars
  <2> QED
    BY <1>2, <2>1, Zenon
<1>9. CASE \E d \in Devices, m \in BOOLEAN : AcquireCheck(d, m)
  <2>1. Frame /\ Quiet
    BY <1>9, Zenon DEF AcquireCheck, hostVars
  <2>2. QuietNext
    BY <1>9, Zenon DEF AcquireCheck, Idle
  <2> QED
    BY <1>1, <2>1, <2>2, Zenon
<1>10. CASE AcquireReserve
  BY <1>0, <1>10, ReserveLease, Zenon
<1>11. CASE AcquireOpen
  <2>1. /\ UNCHANGED <<leases, owner, granted, nextId>>
        /\ call.device \in Devices /\ call.media \in BOOLEAN
    BY <1>0, <1>11, CallFields, Zenon DEF AcquireOpen, hostVars, TypeInv, CallHasDevice
  <2>2. CASE call' = [call EXCEPT !.step = "acquire_commit"] /\ UNCHANGED registry
    <3>1. /\ call'.step = "acquire_commit" /\ call'.device = call.device
          /\ call'.media = call.media
      BY <1>0, <2>2, Zenon DEF Call
    <3>2. \A d \in Devices, m \in BOOLEAN : Reserving(d, m)' <=> Reserving(d, m)
      BY <1>11, <3>1, Zenon DEF AcquireOpen, Reserving
    <3>3. Frame
      BY <2>1, <2>2, Zenon
    <3> QED
      BY <1>0, <3>2, <3>3, LeaseFrame, Zenon
  <2>3. CASE ReleaseActivity(call.device, call.media) /\ call' = Idle
    <3>1. PICK d \in Devices, m \in BOOLEAN : d = call.device /\ m = call.media
      BY <2>1, Zenon
    <3>2. Reserving(d, m)
      BY <1>11, <3>1, Zenon DEF AcquireOpen, Reserving
    <3>3. ReleaseActivity(d, m)
      BY <2>3, <3>1, Zenon
    <3> QED
      BY <1>0, <2>1, <2>3, <3>2, <3>3, ReservationReturned, Zenon
  <2> QED
    BY <1>11, <2>2, <2>3, Zenon DEF AcquireOpen
<1>12. CASE AcquireCommit
  BY <1>0, <1>12, CommitLease, Zenon
<1>13. CASE AcquireBind \/ ReleaseReset \/ CallRegister \/ EndpointRegister
  <2>1. Frame /\ Quiet /\ call' = Idle
    BY <1>13, Zenon DEF AcquireBind, ReleaseReset, CallRegister, EndpointRegister, hostVars
  <2>2. QuietNext
    BY <2>1, Zenon DEF Idle
  <2> QED
    BY <1>1, <2>1, <2>2, Zenon
<1>14. CASE \E s \in SessionIds : ReleaseLocked(s)
  BY <1>0, <1>14, ReleaseLease, Zenon
<1>15. CASE ReleaseCancel \/ ReleaseUnbind
  <2>1. Frame /\ Quiet
    BY <1>15, Zenon DEF ReleaseCancel, ReleaseUnbind, hostVars
  <2>2. QuietNext
    BY Zenon, <1>0, <1>15 DEF ReleaseCancel, ReleaseUnbind, Call
  <2> QED
    BY <1>1, <2>1, <2>2, Zenon
<1>16. CASE \E d \in Devices : MaintenanceCheck(d)
  <2>1. Frame /\ Quiet
    BY <1>16, Zenon DEF MaintenanceCheck, hostVars
  <2>2. QuietNext
    BY <1>16, Zenon DEF MaintenanceCheck, Idle
  <2> QED
    BY <1>1, <2>1, <2>2, Zenon
<1>17. CASE MaintenanceAcquire
  <2>1. /\ UNCHANGED <<leases, owner, nextId>> /\ Quiet /\ call' = Idle
        /\ call.device \in Devices
    BY <1>0, <1>17, Zenon DEF MaintenanceAcquire, hostVars, TypeInv, CallHasDevice
  <2>2. QuietNext
    BY <2>1, Zenon DEF Idle
  <2>3. \A e \in Devices, m \in BOOLEAN : Reserving(e, m)' <=> Reserving(e, m)
    BY <2>1, <2>2, Zenon DEF Reserving
  <2>4. PICK d \in Devices : d = call.device
    BY <2>1, Zenon
  <2>5. CASE UNCHANGED <<registry, granted>>
    BY <1>1, <2>1, <2>2, <2>5, Zenon
  <2>6. CASE AcquireMaintenance(d) /\ granted' = [granted EXCEPT ![d] = @ + 1]
    BY Zenon, <1>0, <2>1, <2>3, <2>6, MaintenanceLease
  <2> QED
    BY <1>17, <2>4, <2>5, <2>6, Zenon DEF MaintenanceAcquire
<1>18. CASE \E d \in Devices : MaintenanceRelease(d)
  <2>1. PICK d \in Devices : MaintenanceRelease(d)
    BY <1>18, Zenon
  <2>2. /\ granted[d] > 0 /\ ReleaseMaintenance(d)
        /\ granted' = [granted EXCEPT ![d] = @ - 1]
        /\ UNCHANGED <<leases, owner, nextId>> /\ UNCHANGED call
    BY <2>1, Zenon DEF MaintenanceRelease, hostVars
  <2>3. \A e \in Devices, m \in BOOLEAN : Reserving(e, m)' <=> Reserving(e, m)
    BY <2>2, Zenon DEF Reserving
  <2> QED
    BY Zenon, <1>0, <2>2, <2>3, MaintenanceLease
<1>19. CASE \/ \E s \in SessionIds, o \in Ops : CallAsync(s, o)
            \/ \E o \in Ops : CallEndpoint(o)
  <2>1. Frame /\ Quiet
    BY Zenon, <1>19 DEF CallAsync, CallEndpoint, Submit, hostVars
  <2>2. QuietNext
    BY Zenon, <1>19 DEF CallAsync, CallEndpoint, Submit, Idle
  <2> QED
    BY <1>1, <2>1, <2>2, Zenon
<1>20. CASE UNCHANGED vars
  BY <1>2, <1>20, Zenon DEF vars
<1> QED
  BY <1>4, <1>5, <1>6, <1>7, <1>8, <1>9, <1>10, <1>11, <1>12, <1>13, <1>14,
     <1>15, <1>16, <1>17, <1>18, <1>19, <1>20, Zenon
  DEF Next, HostStep, CallStep

\* The lease invariant holds in every reachable state.
THEOREM LeaseInvariant == Spec => []LeaseInv
BY InitLease, NextLease, PTL DEF Spec

\* The registry counts each live lease and the reservation in flight once,
\* whatever fails, is released or restarted (HostLeaseRegistry).
THEOREM ActivityCounted == Spec => []ActivityIsCountedOnce
<1>1. LeaseInv => ActivityIsCountedOnce
  BY Zenon DEF LeaseInv
<1> QED
  BY <1>1, LeaseInvariant, PTL

\* A device never has two media leases, and its owner is the one it has
\* (media_owner_session_by_device).
THEOREM OwnerIsUnique == Spec => []OwnerIsTheMediaLease
<1>1. LeaseInv => OwnerIsTheMediaLease
  BY Zenon DEF LeaseInv
<1> QED
  BY <1>1, LeaseInvariant, PTL

\* The maintenance lease of a device excludes every other lease on it, through
\* any interleaving of its release with the Host's calls.
THEOREM MaintenanceExclusive == Spec => []MaintenanceIsExclusive
<1>1. LeaseInv => MaintenanceIsExclusive
  <2> SUFFICES ASSUME LeaseInv, NEW d \in Devices, granted[d] > 0
               PROVE  /\ granted[d] = 1
                      /\ \A m \in BOOLEAN : LeasesOf(d, m) = {} /\ ~Reserving(d, m)
    BY Zenon DEF MaintenanceIsExclusive
  <2>1. granted[d] = 1 /\ registry[d].maintenance
    BY DEF LeaseInv, MaintenanceIsRecorded
  <2>2. ASSUME NEW m \in BOOLEAN PROVE LeasesOf(d, m) = {} /\ ~Reserving(d, m)
    <3>1. 0 = Cardinality(LeasesOf(d, m)) + (IF Reserving(d, m) THEN 1 ELSE 0)
      BY <2>1, Zenon DEF LeaseInv, MaintenanceKeepsActivityOut, ActivityIsCountedOnce
    <3>2. Cardinality(LeasesOf(d, m)) = 0 /\ ~Reserving(d, m)
      BY <3>1, LeasesFinite
    <3> QED
      BY <3>2, LeasesFinite, FS_EmptySet, Zenon
  <2> QED
    BY <2>1, <2>2, Zenon
<1> QED
  BY <1>1, LeaseInvariant, PTL

-----------------------------------------------------------------------------
(* Control operations and media bindings.                                  *)

\* The steps of a call that has taken operations from the Host or submitted one.
OperationSteps == {"start_reset", "stop_reset", "release_cancel", "call_register",
                   "endpoint_register"}

\* Where the operations are that the call in progress has taken or submitted.
OperationsInv ==
    /\ PendingOperationIsReachable
    /\ call.step \notin OperationSteps => call.ops = {}
    /\ call.step \in {"start_reset", "stop_reset"} =>
          \A k \in SessionIds \cup {EndpointKey} : operations[k] = {}
    /\ call.step \in {"call_register", "endpoint_register"} =>
          \A o \in call.ops : opSession[o] = call.session
    /\ call.step = "call_register" => call.session \in SessionIds
    /\ call.step = "endpoint_register" => call.session = EndpointKey /\ broker

\* The keys of operations.
LEMMA OperationKeys == EndpointKey \notin SessionIds
BY ConstantsAssumption DEF EndpointKey, SessionIds

\* A step that leaves the operations alone, ends no lease and drops no broker.
LEMMA OperationsFrame ==
    ASSUME TypeInv, OperationsInv, UNCHANGED opVars, broker => broker',
           \A s \in SessionIds : Leased(s) => Leased(s)',
           \/ UNCHANGED call
           \/ /\ call.step \notin OperationSteps /\ call'.step \notin OperationSteps
              /\ call'.ops = {}
    PROVE  OperationsInv'
<1>1. \A o \in Ops : opSession[o] \in SessionIds \cup {EndpointKey}
  BY Zenon DEF TypeInv, TypeOK
<1>2. PendingOperationIsReachable'
  BY <1>1, Zenon DEF OperationsInv, PendingOperationIsReachable, opVars
<1> QED
  BY <1>2, Zenon DEF OperationsInv, OperationSteps, opVars

\* Every step keeps the operations reachable.
LEMMA NextOperations == LeaseInv /\ OperationsInv /\ [Next]_vars => OperationsInv'
<1> SUFFICES ASSUME LeaseInv, OperationsInv, [Next]_vars PROVE OperationsInv'
  BY Zenon
<1>0. TypeInv /\ TypeInv' /\ call \in Call
  BY NextType, Zenon DEF LeaseInv, TypeInv, TypeOK
<1>a. \A o \in Ops : opSession[o] \in SessionIds \cup {EndpointKey}
  BY <1>0, Zenon DEF TypeInv, TypeOK
<1>b. Idle.step = "idle" /\ Idle.ops = {}
  BY Zenon DEF Idle
<1>1. CASE StartTake \/ StopTake
  <2>1. /\ call.step = "idle"
        /\ call'.step \in {"start_reset", "stop_reset"}
        /\ call'.ops = AllOperations
        /\ operations' = [k \in SessionIds \cup {EndpointKey} |-> {}]
        /\ UNCHANGED <<opState, opSession>>
    BY <1>1, Zenon DEF StartTake, StopTake, TakeAllOperations, Idle
  <2>2. call.ops = {}
    BY <2>1, Zenon DEF OperationsInv, OperationSteps
  <2>3. \A o \in Ops : opState[o] = "pending" => o \in AllOperations
    BY <1>a, <2>2, Zenon DEF OperationsInv, PendingOperationIsReachable, AllOperations
  <2>4. PendingOperationIsReachable'
    BY <2>1, <2>3, Zenon DEF PendingOperationIsReachable
  <2> QED
    BY <2>1, <2>4, Zenon DEF OperationsInv, OperationSteps
<1>2. CASE StartReset \/ StopReset
  <2>1. /\ call.step \in {"start_reset", "stop_reset"}
        /\ opState' = Cancelled(call.ops) /\ opSession' = opSession
        /\ call'.step \in {"start_destroy", "stop_destroy"} /\ call'.ops = {}
    BY <1>2, Zenon DEF StartReset, StopReset, Idle
  <2>2. \A o \in Ops : opState[o] = "pending" => o \in call.ops
    BY <1>a, <2>1, Zenon DEF OperationsInv, PendingOperationIsReachable
  <2>3. \A o \in Ops : opState'[o] # "pending"
    BY <2>1, <2>2, Zenon DEF Cancelled
  <2> QED
    BY <2>1, <2>3, Zenon DEF OperationsInv, PendingOperationIsReachable, OperationSteps
<1>3. CASE StartDestroy \/ StopDestroy
  <2>1. /\ call.step \in {"start_destroy", "stop_destroy"}
        /\ call'.step \in {"start_build", "idle"} /\ call'.ops = {}
        /\ UNCHANGED <<hostVars, opVars>>
    BY <1>3 DEF StartDestroy, StopDestroy, DestroyAdapter, Idle
  <2> QED
    BY <1>0, <2>1, OperationsFrame, Zenon DEF hostVars, Leased, OperationSteps
<1>4. CASE \/ \E found \in [Devices -> {{}, {"axtp"}, {"mock"}}] : StartBuild(found)
           \/ \E found \in [Devices -> {{}, {"mock"}}] : StartThrows(found)
  BY <1>0, <1>4, <1>b, OperationsFrame, Zenon DEF StartBuild, StartThrows, Leased, OperationSteps
<1>5. CASE \/ \E d \in Devices, a \in Adapters : UpsertDevice(d, a)
           \/ \E d \in Devices : RefreshDevices(d) \/ MaintenanceRelease(d)
  BY <1>0, <1>5, OperationsFrame
     DEF UpsertDevice, RefreshDevices, MaintenanceRelease, hostVars, Leased
<1>6. CASE \/ \E d \in Devices, media \in BOOLEAN : AcquireCheck(d, media)
           \/ \E d \in Devices : MaintenanceCheck(d)
  <2>1. /\ call.step = "idle"
        /\ call'.step \in {"acquire_reserve", "maintenance_acquire"} /\ call'.ops = {}
        /\ UNCHANGED <<hostVars, opVars>>
    BY <1>6, Zenon DEF AcquireCheck, MaintenanceCheck, Idle
  <2> QED
    BY <1>0, <2>1, OperationsFrame, Zenon DEF hostVars, Leased, OperationSteps
<1>7. CASE AcquireReserve \/ AcquireOpen \/ AcquireBind \/ MaintenanceAcquire
  <2>1. /\ call.step \in {"acquire_reserve", "acquire_open", "acquire_bind", "maintenance_acquire"}
        /\ UNCHANGED <<hostVars, opVars>>
    BY <1>7, Zenon DEF AcquireReserve, AcquireOpen, AcquireBind, MaintenanceAcquire
  <2>2. call.ops = {}
    BY <2>1, Zenon DEF OperationsInv, OperationSteps
  <2>3. call'.step \in {"acquire_open", "acquire_commit", "idle"} /\ call'.ops = {}
    BY <1>0, <1>7, <1>b, <2>2, Zenon
       DEF AcquireReserve, AcquireOpen, AcquireBind, MaintenanceAcquire, Call
  <2> QED
    BY <1>0, <2>1, <2>3, OperationsFrame, Zenon DEF hostVars, Leased, OperationSteps
<1>8. CASE AcquireCommit
  <2>1. call.step = "acquire_commit" /\ broker' = broker /\ UNCHANGED opVars
    BY <1>8, Zenon DEF AcquireCommit
  <2>2. call.ops = {}
    BY <2>1, Zenon DEF OperationsInv, OperationSteps
  <2>3. call'.step \in {"acquire_bind", "idle"} /\ call'.ops = {}
    BY <1>0, <1>8, <1>b, <2>2, Zenon DEF AcquireCommit, Call
  <2>4. \A s \in SessionIds : Leased(s) => Leased(s)'
    <3>1. call.device \in Devices
      BY <1>0, <2>1, CallFields, Zenon DEF TypeInv, CallHasDevice
    <3>2. [device |-> call.device, media |-> call.media, axtp |-> call.axtp] # NoLease
      BY <3>1, ConstantsAssumption, Zenon DEF NoLease
    <3> QED
      BY <1>0, <1>8, <3>2, Zenon DEF AcquireCommit, Leased, TypeInv, TypeOK
  <2> QED
    BY <1>0, <2>1, <2>3, <2>4, OperationsFrame, Zenon DEF OperationSteps
<1>9. CASE \E s \in SessionIds : ReleaseLocked(s)
  <2>1. PICK s \in SessionIds : ReleaseLocked(s)
    BY <1>9, Zenon
  <2>2. /\ call.step = "idle"
        /\ leases' = [leases EXCEPT ![s] = NoLease]
        /\ operations' = [operations EXCEPT ![s] = {}]
        /\ call'.step = "release_cancel" /\ call'.ops = operations[s]
        /\ UNCHANGED <<broker, opState, opSession>>
    BY <2>1, Zenon DEF ReleaseLocked, Idle
  <2>3. call.ops = {}
    BY <2>2, Zenon DEF OperationsInv, OperationSteps
  <2>4. PendingOperationIsReachable'
    BY <1>0, <1>a, <2>2, <2>3, OperationKeys
       DEF OperationsInv, PendingOperationIsReachable, Leased, TypeInv, TypeOK
  <2> QED
    BY <2>2, <2>4, Zenon DEF OperationsInv, OperationSteps
<1>10. CASE ReleaseCancel
  <2>1. /\ call.step = "release_cancel"
        /\ opState' = Cancelled(call.ops)
        /\ call'.step = "release_unbind" /\ call'.ops = {}
        /\ UNCHANGED <<broker, leases, opSession, operations>>
    BY <1>0, <1>10, Zenon DEF ReleaseCancel, hostVars, Call
  <2>2. PendingOperationIsReachable'
    BY <1>a, <2>1, Zenon DEF OperationsInv, PendingOperationIsReachable, Leased, Cancelled
  <2> QED
    BY <2>1, <2>2, Zenon DEF OperationsInv, OperationSteps
<1>11. CASE ReleaseUnbind \/ ReleaseReset
  <2>1. call.step \in {"release_unbind", "release_reset"} /\ UNCHANGED <<hostVars, opVars>>
    BY <1>11, Zenon DEF ReleaseUnbind, ReleaseReset
  <2>2. call.ops = {}
    BY <2>1, Zenon DEF OperationsInv, OperationSteps
  <2>3. call'.step \in {"release_reset", "idle"} /\ call'.ops = {}
    BY <1>0, <1>11, <1>b, <2>2, Zenon DEF ReleaseUnbind, ReleaseReset, Call
  <2> QED
    BY <1>0, <2>1, <2>3, OperationsFrame, Zenon DEF hostVars, Leased, OperationSteps
<1>12. CASE \/ \E s \in SessionIds, o \in Ops : CallAsync(s, o)
            \/ \E o \in Ops : CallEndpoint(o)
  <2>1. PICK o \in Ops, k \in SessionIds \cup {EndpointKey} :
          /\ call.step = "idle" /\ broker
          /\ opState' = [opState EXCEPT ![o] = "pending"]
          /\ opSession' = [opSession EXCEPT ![o] = k]
          /\ call'.session = k /\ call'.ops = {o}
          /\ \/ call'.step = "call_register" /\ k \in SessionIds
             \/ call'.step = "endpoint_register" /\ k = EndpointKey
          /\ UNCHANGED <<broker, leases, operations>>
    BY <1>12, Zenon DEF CallAsync, CallEndpoint, Submit, Idle, hostVars
  <2>2. call.ops = {}
    BY <2>1, Zenon DEF OperationsInv, OperationSteps
  <2>3. PendingOperationIsReachable'
    BY <1>0, <1>a, <2>1, <2>2, SMTT(60)
       DEF OperationsInv, PendingOperationIsReachable, Leased, TypeInv, TypeOK
  <2>4. \A p \in call'.ops : opSession'[p] = call'.session
    BY <1>0, <2>1 DEF TypeInv, TypeOK
  <2> QED
    BY <2>1, <2>3, <2>4, Zenon DEF OperationsInv, OperationSteps
<1>13. CASE CallRegister \/ EndpointRegister
  <2>1. /\ call.step \in {"call_register", "endpoint_register"}
        /\ call' = Idle /\ UNCHANGED <<broker, leases, opSession>>
    BY <1>13, Zenon DEF CallRegister, EndpointRegister, hostVars
  <2>2. /\ call.session \in SessionIds \cup {EndpointKey}
        /\ \A o \in call.ops : opSession[o] = call.session
        /\ call.session = EndpointKey => broker
    BY <2>1, OperationKeys, Zenon DEF OperationsInv
  <2>3. CASE /\ Register /\ opState' = opState
             /\ IF call.session = EndpointKey THEN broker ELSE Leased(call.session)
    <3>1. operations' = [operations EXCEPT ![call.session] =
                           {p \in operations[call.session] : opState[p] # "ready"} \cup call.ops]
      BY <2>3, Zenon DEF Register
    <3>2. PendingOperationIsReachable'
      BY <1>0, <1>a, <2>1, <2>2, <2>3, <3>1, Zenon
         DEF OperationsInv, PendingOperationIsReachable, Leased, TypeInv, TypeOK
    <3> QED
      BY <1>b, <2>1, <3>2, Zenon DEF OperationsInv, OperationSteps
  <2>4. CASE opState' = Cancelled(call.ops) /\ operations' = operations
    <3>1. PendingOperationIsReachable'
      BY <1>a, <2>1, <2>4, Zenon DEF OperationsInv, PendingOperationIsReachable, Leased, Cancelled
    <3> QED
      BY <1>b, <2>1, <3>1, Zenon DEF OperationsInv, OperationSteps
  <2> QED
    BY <1>13, <2>3, <2>4, OperationKeys, Zenon DEF CallRegister, EndpointRegister, OperationsInv
<1>14. CASE \E o \in Ops : OperationReady(o)
  <2>1. PICK o \in Ops : OperationReady(o)
    BY <1>14, Zenon
  <2>2. /\ opState' = [opState EXCEPT ![o] = "ready"]
        /\ UNCHANGED <<broker, leases, opSession, operations, call>>
    BY <2>1, Zenon DEF OperationReady, hostVars
  <2>3. PendingOperationIsReachable'
    BY <1>0, <1>a, <2>2
       DEF OperationsInv, PendingOperationIsReachable, Leased, TypeInv, TypeOK
  <2> QED
    BY <2>2, <2>3, Zenon DEF OperationsInv
<1>15. CASE UNCHANGED vars
  BY <1>0, <1>15, OperationsFrame, Zenon DEF vars, opVars, Leased
<1> QED
  BY <1>1, <1>2, <1>3, <1>4, <1>5, <1>6, <1>7, <1>8, <1>9, <1>10, <1>11, <1>12, <1>13,
     <1>14, <1>15, Zenon DEF Next, HostStep, CallStep

\* No pending control operation outlives its lease or the Host: a release, a stop or a
\* restart takes it and cancels it, and one that is submitted meanwhile is registered
\* under a live lease or cancelled (call_async against release_session and stop).
THEOREM OperationsAreReachable == Spec => []PendingOperationIsReachable
<1>1. Init => OperationsInv
  BY DEF Init, OperationsInv, PendingOperationIsReachable, Idle
<1>2. LeaseInv /\ OperationsInv /\ [Next]_vars => OperationsInv'
  BY NextOperations, Zenon
<1>3. OperationsInv => PendingOperationIsReachable
  BY Zenon DEF OperationsInv
<1> QED
  BY <1>1, <1>2, <1>3, LeaseInvariant, PTL DEF Spec

-----------------------------------------------------------------------------
(* Media bindings.                                                         *)

\* The steps of a call that may change a binding, and those that lead to them.
BindingSteps == {"acquire_bind", "release_cancel", "release_unbind", "release_reset",
                 "start_destroy", "stop_destroy"}

\* Which leases are left when the call in progress changes a binding.
BindingInv ==
    /\ MediaLeaseIsBound
    /\ call.step = "acquire_bind" => call.session \in LeasesOf(call.device, TRUE)
    /\ call.step \in {"release_cancel", "release_unbind", "release_reset"} =>
          /\ call.session \in SessionIds /\ ~Leased(call.session)
          /\ call.reset => \A s \in SessionIds : Leased(s) => leases[s].device # call.device
    /\ call.step \in {"start_destroy", "stop_destroy"} => \A s \in SessionIds : ~Leased(s)

\* A step that leaves the leases and the bindings alone.
LEMMA BindingFrame ==
    ASSUME BindingInv, UNCHANGED <<leases, binding>>,
           \/ UNCHANGED call
           \/ call.step \notin BindingSteps /\ call'.step \notin BindingSteps
    PROVE  BindingInv'
<1>1. \A d, m : LeasesOf(d, m)' = LeasesOf(d, m)
  BY Zenon DEF LeasesOf, Leased
<1>2. MediaLeaseIsBound'
  BY Zenon DEF BindingInv, MediaLeaseIsBound, Leased, BindingSteps
<1> QED
  BY <1>1, <1>2, Zenon DEF BindingInv, BindingSteps, Leased

\* No lease is left: nothing has to be bound.
LEMMA NothingToBind ==
    ASSUME \A s \in SessionIds : ~Leased(s)',
           call'.step \notin {"acquire_bind", "release_cancel", "release_unbind", "release_reset"}
    PROVE  BindingInv'
BY Zenon DEF BindingInv, MediaLeaseIsBound, Leased

\* Every step keeps the media leases bound.
LEMMA NextBinding == LeaseInv /\ BindingInv /\ [Next]_vars => BindingInv'
<1> SUFFICES ASSUME LeaseInv, BindingInv, [Next]_vars PROVE BindingInv'
  BY Zenon
<1>0. TypeInv /\ TypeInv' /\ call \in Call
  BY NextType, Zenon DEF LeaseInv, TypeInv, TypeOK
<1>b. Idle.step = "idle"
  BY Zenon DEF Idle
<1>1. CASE StartTake \/ StopTake
  <2>1. /\ call.step = "idle"
        /\ call'.step \in {"start_reset", "stop_reset"}
        /\ UNCHANGED <<leases, binding>>
    BY <1>1, Zenon DEF StartTake, StopTake, TakeAllOperations, Idle, hostVars
  <2> QED
    BY <2>1, BindingFrame, Zenon DEF BindingSteps
<1>2. CASE StartReset \/ StopReset
  <2>1. /\ leases' = [s \in SessionIds |-> NoLease]
        /\ call'.step \in {"start_destroy", "stop_destroy"}
    BY <1>2, Zenon DEF StartReset, StopReset, Reset, Idle
  <2>2. \A s \in SessionIds : ~Leased(s)'
    BY <2>1, Zenon DEF Leased
  <2> QED
    BY <2>1, <2>2, NothingToBind, Zenon
<1>3. CASE StartDestroy \/ StopDestroy
  <2>1. /\ call.step \in {"start_destroy", "stop_destroy"} /\ leases' = leases
        /\ call'.step \in {"start_build", "idle"}
    BY <1>3 DEF StartDestroy, StopDestroy, DestroyAdapter, Idle, hostVars
  <2>2. \A s \in SessionIds : ~Leased(s)'
    BY <2>1, Zenon DEF BindingInv, Leased
  <2> QED
    BY <2>1, <2>2, NothingToBind, Zenon
<1>4. CASE \/ \E found \in [Devices -> {{}, {"axtp"}, {"mock"}}] : StartBuild(found)
           \/ \E found \in [Devices -> {{}, {"mock"}}] : StartThrows(found)
  BY <1>4, <1>b, BindingFrame, Zenon DEF StartBuild, StartThrows, BindingSteps
<1>5. CASE \/ \E d \in Devices, a \in Adapters : UpsertDevice(d, a)
           \/ \E d \in Devices : RefreshDevices(d) \/ MaintenanceRelease(d)
           \/ \E o \in Ops : OperationReady(o)
  BY <1>5, BindingFrame, Zenon
     DEF UpsertDevice, RefreshDevices, MaintenanceRelease, OperationReady, hostVars
<1>6. CASE \/ \E d \in Devices, media \in BOOLEAN : AcquireCheck(d, media)
           \/ \E d \in Devices : MaintenanceCheck(d)
           \/ \E s \in SessionIds, o \in Ops : CallAsync(s, o)
           \/ \E o \in Ops : CallEndpoint(o)
  <2>1. /\ call.step = "idle"
        /\ call'.step \in {"acquire_reserve", "maintenance_acquire", "call_register",
                           "endpoint_register"}
        /\ UNCHANGED <<leases, binding>>
    BY <1>6, Zenon DEF AcquireCheck, MaintenanceCheck, CallAsync, CallEndpoint, Submit, Idle, hostVars
  <2> QED
    BY <2>1, BindingFrame, Zenon DEF BindingSteps
<1>7. CASE AcquireReserve \/ AcquireOpen \/ MaintenanceAcquire \/ CallRegister \/ EndpointRegister
  <2>1. /\ call.step \in {"acquire_reserve", "acquire_open", "maintenance_acquire",
                          "call_register", "endpoint_register"}
        /\ UNCHANGED <<leases, binding>>
    BY <1>7, Zenon DEF AcquireReserve, AcquireOpen, MaintenanceAcquire, CallRegister,
                EndpointRegister, hostVars
  <2>2. call'.step \in {"acquire_open", "acquire_commit", "idle"}
    BY <1>0, <1>7, <1>b, Zenon DEF AcquireReserve, AcquireOpen, MaintenanceAcquire, CallRegister,
                            EndpointRegister, Call
  <2> QED
    BY <2>1, <2>2, BindingFrame, Zenon DEF BindingSteps
<1>8. CASE AcquireCommit
  <2>1. call.step = "acquire_commit" /\ binding' = binding
    BY <1>8, Zenon DEF AcquireCommit
  <2>2. \A s \in SessionIds : Leased(s) /\ leases[s].media /\ leases[s].axtp =>
          binding[leases[s].device] = s
    BY <2>1, Zenon DEF BindingInv, MediaLeaseIsBound
  <2>3. CASE Known(call.device) /\ (call.media => owner[call.device] = NoSession)
    <3> DEFINE new == [device |-> call.device, media |-> call.media, axtp |-> call.axtp]
    <3>1. /\ leases' = [leases EXCEPT ![nextId] = new]
          /\ call' = IF call.media /\ call.axtp
                     THEN [call EXCEPT !.step = "acquire_bind", !.session = nextId]
                     ELSE Idle
      BY <1>8, <2>3, Zenon DEF AcquireCommit
    <3>2. nextId \in SessionIds /\ call.device \in Devices /\ call.media \in BOOLEAN
      BY <1>0, <1>8, CallFields, ConstantsAssumption
         DEF AcquireCommit, TypeInv, TypeOK, CallHasDevice, SessionIds
    <3>3. new # NoLease /\ new.device = call.device /\ new.media = call.media /\ new.axtp = call.axtp
      BY <3>2, ConstantsAssumption, Zenon DEF NoLease
    <3> HIDE DEF new
    <3>4. \A s \in SessionIds : leases'[s] = IF s = nextId THEN new ELSE leases[s]
      BY <1>0, <3>1, <3>2, Zenon DEF TypeInv, TypeOK
    <3>5. CASE call.media /\ call.axtp
      <4>1. call'.step = "acquire_bind" /\ call'.session = nextId /\ call'.device = call.device
        BY <1>0, <3>1, <3>5, Zenon DEF Call
      <4>2. nextId \in LeasesOf(call.device, TRUE)'
        BY <3>2, <3>3, <3>4, <3>5, <4>1, Zenon DEF LeasesOf, Leased
      <4>3. MediaLeaseIsBound'
        BY <2>1, <2>2, <3>4, <4>1, Zenon DEF MediaLeaseIsBound, Leased
      <4> QED
        BY <4>1, <4>2, <4>3, Zenon DEF BindingInv
    <3>6. CASE ~(call.media /\ call.axtp)
      <4>1. call'.step = "idle"
        BY <1>b, <3>1, <3>6, Zenon
      <4>2. MediaLeaseIsBound'
        BY <2>1, <2>2, <3>3, <3>4, <3>6, Zenon DEF MediaLeaseIsBound, Leased
      <4> QED
        BY <4>1, <4>2, Zenon DEF BindingInv
    <3> QED
      BY <3>5, <3>6, Zenon
  <2>4. CASE ~(Known(call.device) /\ (call.media => owner[call.device] = NoSession))
    <3>1. call' = Idle /\ UNCHANGED leases
      BY <1>8, <2>4, Zenon DEF AcquireCommit
    <3> QED
      BY <1>b, <2>1, <3>1, BindingFrame, Zenon DEF BindingSteps
  <2> QED
    BY <2>3, <2>4, Zenon
<1>9. CASE AcquireBind
  <2>1. /\ call.step = "acquire_bind" /\ call' = Idle /\ leases' = leases
        /\ binding' = [binding EXCEPT ![call.device] = call.session]
    BY <1>9, Zenon DEF AcquireBind, hostVars
  <2>2. call.session \in LeasesOf(call.device, TRUE) /\ call.device \in Devices
    BY <1>0, <2>1, CallFields, Zenon DEF BindingInv, TypeInv, CallHasDevice
  <2>3. \A s \in LeasesOf(call.device, TRUE) : s = call.session
    BY <2>2, Zenon DEF LeaseInv, OwnerIsTheMediaLease
  <2>4. \A s \in SessionIds : Leased(s) => leases[s].device \in Devices /\ leases[s].media \in BOOLEAN
    BY <1>0, Zenon DEF TypeInv, TypeOK, Leased, Lease
  <2>5. ASSUME NEW s \in SessionIds, Leased(s), leases[s].media, leases[s].axtp
        PROVE  binding'[leases[s].device] = s
    <3>1. CASE leases[s].device = call.device
      <4>1. s \in LeasesOf(call.device, TRUE)
        BY <2>4, <2>5, <3>1, Zenon DEF LeasesOf
      <4> QED
        BY <1>0, <2>1, <2>2, <2>3, <3>1, <4>1, Zenon DEF TypeInv, TypeOK
    <3>2. CASE leases[s].device # call.device
      <4>1. s # call.session
        BY <2>2, <3>2, Zenon DEF LeasesOf
      <4> QED
        BY <1>0, <2>1, <2>4, <2>5, <3>2, <4>1, Zenon DEF TypeInv, TypeOK, BindingInv, MediaLeaseIsBound
    <3> QED
      BY <3>1, <3>2, Zenon
  <2> QED
    BY <1>b, <2>1, <2>5, Zenon DEF BindingInv, MediaLeaseIsBound, Leased
<1>10. CASE \E s \in SessionIds : ReleaseLocked(s)
  <2>1. PICK s \in SessionIds : ReleaseLocked(s)
    BY <1>10, Zenon
  <2>2. /\ call.step = "idle" /\ Leased(s)
        /\ leases' = [leases EXCEPT ![s] = NoLease] /\ binding' = binding
        /\ call'.step = "release_cancel" /\ call'.session = s
        /\ call'.device = leases[s].device
        /\ call'.reset => LeasesOf(leases[s].device, TRUE) \cup LeasesOf(leases[s].device, FALSE) = {s}
    BY <2>1, Zenon DEF ReleaseLocked, Idle
  <2>3. \A t \in SessionIds : leases'[t] = IF t = s THEN NoLease ELSE leases[t]
    BY <1>0, <2>2, Zenon DEF TypeInv, TypeOK
  <2>4. MediaLeaseIsBound'
    BY <2>2, <2>3, Zenon DEF BindingInv, MediaLeaseIsBound, Leased
  <2>5. call'.reset => \A t \in SessionIds : Leased(t)' => leases'[t].device # call'.device
    <3> SUFFICES ASSUME call'.reset, NEW t \in SessionIds, Leased(t)', leases'[t].device = call'.device
                 PROVE  FALSE
      BY Zenon
    <3>1. t # s /\ Leased(t) /\ leases[t].device = leases[s].device
      BY <2>2, <2>3, Zenon DEF Leased
    <3>2. leases[t].media \in BOOLEAN
      BY <1>0, <3>1, Zenon DEF TypeInv, TypeOK, Leased, Lease
    <3>3. t \in LeasesOf(leases[s].device, TRUE) \cup LeasesOf(leases[s].device, FALSE)
      BY <3>1, <3>2, Zenon DEF LeasesOf
    <3> QED
      BY <2>2, <3>1, <3>3, Zenon
  <2> QED
    BY <2>2, <2>3, <2>4, <2>5, Zenon DEF BindingInv, Leased
<1>11. CASE ReleaseCancel
  <2>1. /\ call.step = "release_cancel" /\ call'.step = "release_unbind"
        /\ call'.session = call.session /\ call'.device = call.device /\ call'.reset = call.reset
        /\ UNCHANGED <<leases, binding>>
    BY <1>0, <1>11, Zenon DEF ReleaseCancel, hostVars, Call
  <2> QED
    BY <2>1, Zenon DEF BindingInv, MediaLeaseIsBound, Leased
<1>12. CASE ReleaseUnbind
  <2>1. /\ call.step = "release_unbind" /\ call'.step = "release_reset"
        /\ call'.session = call.session /\ call'.device = call.device /\ call'.reset = call.reset
        /\ leases' = leases
        /\ binding' = IF call.unbind /\ binding[call.device] = call.session
                      THEN [binding EXCEPT ![call.device] = NoSession]
                      ELSE binding
    BY <1>0, <1>12, Zenon DEF ReleaseUnbind, hostVars, Call
  <2>2. \A s \in SessionIds : Leased(s) => leases[s].device \in Devices /\ s # call.session
    BY <1>0, <2>1, Zenon DEF TypeInv, TypeOK, Leased, Lease, BindingInv
  <2>3. MediaLeaseIsBound'
    BY <1>0, <2>1, <2>2, SMTT(60) DEF BindingInv, MediaLeaseIsBound, Leased, TypeInv, TypeOK
  <2> QED
    BY <2>1, <2>3, Zenon DEF BindingInv, Leased
<1>13. CASE ReleaseReset
  <2>1. /\ call.step = "release_reset" /\ call' = Idle /\ leases' = leases
        /\ binding' = IF call.reset THEN [binding EXCEPT ![call.device] = NoSession]
                                    ELSE binding
    BY <1>13, Zenon DEF ReleaseReset, hostVars
  <2>2. \A s \in SessionIds : Leased(s) =>
          leases[s].device \in Devices /\ (call.reset => leases[s].device # call.device)
    BY <1>0, <2>1, Zenon DEF TypeInv, TypeOK, Leased, Lease, BindingInv
  <2>3. MediaLeaseIsBound'
    BY <1>0, <2>1, <2>2, Zenon DEF BindingInv, MediaLeaseIsBound, Leased, TypeInv, TypeOK
  <2> QED
    BY <1>b, <2>1, <2>3, Zenon DEF BindingInv, Leased
<1>14. CASE UNCHANGED vars
  BY <1>14, BindingFrame, Zenon DEF vars
<1> QED
  BY <1>1, <1>2, <1>3, <1>4, <1>5, <1>6, <1>7, <1>8, <1>9, <1>10, <1>11, <1>12, <1>13,
     <1>14, Zenon DEF Next, HostStep, CallStep

\* The media of a device go to the session that holds its media lease: what another
\* session's release, reset or failed acquisition does to the adapter's binding never
\* touches it, for any number of devices and sessions.
THEOREM MediaLeasesAreBound == Spec => []MediaLeaseIsBound
<1>1. Init => BindingInv
  BY DEF Init, BindingInv, MediaLeaseIsBound, Idle, Leased
<1>2. LeaseInv /\ BindingInv /\ [Next]_vars => BindingInv'
  BY NextBinding, Zenon
<1>3. BindingInv => MediaLeaseIsBound
  BY Zenon DEF BindingInv
<1> QED
  BY <1>1, <1>2, <1>3, LeaseInvariant, PTL DEF Spec

-----------------------------------------------------------------------------
(* A firmware update is a holder of a maintenance lease as HostLeases has  *)
(* it, so what is proved of the Host holds while updates run; and an       *)
(* update that reaches its end has sent the image.                         *)

INSTANCE SequenceTheorems

\* A step of the composition is a step of the Host and of a holder that drops its
\* lease when run returns, or changes nothing of the Host.
LEMMA FirmwareStepIsHostStep == [FirmwareNext]_firmwareVars => [Next]_vars
<1> SUFFICES ASSUME [FirmwareNext]_firmwareVars PROVE [Next]_vars
  BY Zenon
<1>1. CASE HostStep
  BY <1>1, Zenon DEF Next
<1>2. ASSUME NEW size \in ImageSizes, FirmwareAcquire(size) PROVE [Next]_vars
  BY <1>2, Zenon DEF FirmwareAcquire, Next
<1>3. ASSUME NEW d \in Devices, UpdateStep(d) PROVE [Next]_vars
  <2>1. CASE MaintenanceRelease(d)
    BY <2>1, Zenon DEF Next
  <2>2. CASE UNCHANGED vars
    BY <2>2, Zenon
  <2> QED
    BY <1>3, <2>1, <2>2, Zenon DEF UpdateStep, BeginFails, SendChunk, SendChunkFails, Finish,
       FinishReturns, Begin, Return
<1>4. CASE UNCHANGED firmwareVars
  BY <1>4, Zenon DEF firmwareVars
<1> QED
  BY <1>1, <1>2, <1>3, <1>4, Zenon DEF FirmwareNext

\* The Host under firmware updates is the Host of HostLeases.
THEOREM FirmwareImplementsHost == FirmwareSpec => Spec
<1>1. FirmwareInit => Init
  BY Zenon DEF FirmwareInit
<1> QED
  BY <1>1, FirmwareStepIsHostStep, PTL DEF FirmwareSpec, Spec

\* No session is leased on a device while it is being updated, whatever the Host
\* does meanwhile (HostLeaseRegistry under FirmwareUpdateService::run).
THEOREM UpdateIsExclusive == FirmwareSpec => []MaintenanceIsExclusive
BY FirmwareImplementsHost, MaintenanceExclusive, PTL

-----------------------------------------------------------------------------
Image(n) == [i \in 1 .. n |-> i]
Least(a, b) == IF a < b THEN a ELSE b

Update == [stage : {"none", "begin", "transfer", "finish"}, size : Nat, chunk : Nat,
           offset : Nat]

\* One device: what it received is the part of the image before the offset, and
\* nothing before the update session or after it.
UpdateInvOf(u, bytes, grants) ==
    /\ u \in Update
    /\ u.stage # "none" => grants = 1
    /\ u.stage \in {"none", "begin"} => bytes = <<>> /\ u.offset = 0
    /\ u.stage \in {"transfer", "finish"} =>
          u.chunk > 0 /\ bytes = Image(Least(u.offset, u.size))
    /\ u.stage = "finish" => u.offset >= u.size

UpdateInv ==
    /\ update \in [Devices -> Update]
    /\ received \in [Devices -> Seq(Nat)]
    /\ \A d \in Devices : UpdateInvOf(update[d], received[d], granted[d])

\* The Host changes the leases it granted only when it grants one or takes it back.
LEMMA HostStepKeepsGrants == HostStep => UNCHANGED granted
BY Zenon DEF HostStep, CallStep, StartTake, StopTake, TakeAllOperations, StartReset, StartDestroy,
   DestroyAdapter, StartBuild, StartThrows, StopReset, StopDestroy, UpsertDevice, RefreshDevices,
   AcquireCheck, AcquireReserve, AcquireOpen, AcquireCommit, AcquireBind, ReleaseLocked,
   ReleaseCancel, ReleaseUnbind, ReleaseReset, MaintenanceCheck, CallAsync, CallEndpoint,
   Submit, CallRegister, EndpointRegister, OperationReady

Part(n, count) == [i \in 1 .. count |-> n + i]

\* The first bytes of the image and the bytes that follow them are its first bytes.
LEMMA ImageAppends ==
  ASSUME NEW n \in Nat, NEW count \in Nat
  PROVE  /\ Image(n) \o Part(n, count) = Image(n + count)
         /\ Image(n) \in Seq(Nat) /\ Part(n, count) \in Seq(Nat)
<1>1. Image(n) \in Seq(Nat) /\ Len(Image(n)) = n
  BY DEF Image
<1>2. Part(n, count) \in Seq(Nat) /\ Len(Part(n, count)) = count
  BY DEF Part
<1>3. Image(n + count) \in Seq(Nat) /\ Len(Image(n + count)) = n + count
  BY DEF Image
<1> DEFINE joined == Image(n) \o Part(n, count)
<1>4. /\ joined \in Seq(Nat)
      /\ Len(joined) = Len(Image(n)) + Len(Part(n, count))
      /\ \A i \in 1 .. Len(Image(n)) + Len(Part(n, count)) :
            joined[i] = IF i <= Len(Image(n)) THEN Image(n)[i]
                                              ELSE Part(n, count)[i - Len(Image(n))]
  BY Zenon, <1>1, <1>2, ConcatProperties
<1> HIDE DEF joined
<1>5. /\ joined \in Seq(Nat) /\ Len(joined) = n + count
      /\ \A i \in 1 .. n + count :
            joined[i] = IF i <= n THEN Image(n)[i] ELSE Part(n, count)[i - n]
  BY Zenon, <1>1, <1>2, <1>4
<1>6. ASSUME NEW i \in 1 .. n + count PROVE joined[i] = Image(n + count)[i]
  <2>1. Image(n + count)[i] = i
    BY Zenon DEF Image
  <2>2. CASE i <= n
    <3>1. i \in 1 .. n
      BY <2>2
    <3> QED
      BY <1>5, <2>1, <2>2, <3>1, Zenon DEF Image
  <2>3. CASE ~(i <= n)
    <3>1. i - n \in 1 .. count /\ n + (i - n) = i
      BY <2>3
    <3>2. Part(n, count)[i - n] = i
      BY <3>1, Zenon DEF Part
    <3> QED
      BY <1>5, <2>1, <2>3, <3>2, Zenon
  <2> QED
    BY <2>2, <2>3, Zenon
<1>7. joined = Image(n + count)
  BY <1>3, <1>5, <1>6, SeqEqual, Zenon
<1> QED
  BY <1>1, <1>2, <1>7, Zenon DEF joined

\* A chunk continues what was sent before it, and the last one ends with the image.
LEMMA ChunkAppends ==
  ASSUME NEW u \in Update, u.chunk > 0, Transfers(u)
  PROVE  /\ Image(Least(u.offset, u.size)) \o Chunk(u) = Image(Least(u.offset + u.chunk, u.size))
         /\ Chunk(u) \in Seq(Nat)
<1> DEFINE count == IF u.chunk < u.size - u.offset THEN u.chunk ELSE u.size - u.offset
<1>1. /\ u.offset \in Nat /\ u.size \in Nat /\ u.chunk \in Nat /\ u.offset < u.size
  BY Zenon DEF Update, Transfers
<1>2. /\ count \in Nat
      /\ Least(u.offset, u.size) = u.offset
      /\ Least(u.offset + u.chunk, u.size) = u.offset + count
  BY <1>1 DEF Least
<1>3. Chunk(u) = Part(u.offset, count)
  BY Zenon DEF Chunk, Part
<1> HIDE DEF count
<1> QED
  BY <1>1, <1>2, <1>3, ImageAppends, Zenon

\* Before the first chunk a device has received the first 0 bytes.
LEMMA EmptyIsSeq == <<>> \in Seq(Nat) /\ Image(0) = <<>>
<1>1. Image(0) \in Seq(Nat) /\ Len(Image(0)) = 0
  BY DEF Image
<1> QED
  BY <1>1

\* No update runs when the Host is created.
LEMMA InitUpdate == FirmwareInit => UpdateInv
<1> SUFFICES ASSUME FirmwareInit PROVE UpdateInv
  BY Zenon
<1>1. NoUpdate \in Update /\ NoUpdate.stage = "none" /\ NoUpdate.offset = 0
  BY Zenon DEF NoUpdate, Update
<1> QED
  BY <1>1 DEF FirmwareInit, UpdateInv, UpdateInvOf

\* A step that concerns one device leaves the others what they are.
LEMMA OneDevice ==
  ASSUME UpdateInv, NEW d \in Devices, NEW u, NEW bytes \in Seq(Nat),
         update' = [update EXCEPT ![d] = u],
         received' = [received EXCEPT ![d] = bytes],
         \A e \in Devices \ {d} : granted'[e] = granted[e],
         UpdateInvOf(u, bytes, granted'[d])
  PROVE  UpdateInv'
<1>1. u \in Update
  BY Zenon DEF UpdateInvOf
<1>2. update' \in [Devices -> Update] /\ received' \in [Devices -> Seq(Nat)]
  BY <1>1, Zenon DEF UpdateInv
<1>3. update'[d] = u /\ received'[d] = bytes
  BY Zenon DEF UpdateInv
<1>4. ASSUME NEW e \in Devices \ {d}
      PROVE  update'[e] = update[e] /\ received'[e] = received[e] /\ granted'[e] = granted[e]
  BY Zenon DEF UpdateInv
<1>5. ASSUME NEW e \in Devices PROVE UpdateInvOf(update'[e], received'[e], granted'[e])
  <2>1. CASE e = d
    BY <1>3, <2>1, Zenon
  <2>2. CASE e # d
    BY <1>4, <2>2, Zenon DEF UpdateInv
  <2> QED
    BY <2>1, <2>2, Zenon
<1> QED
  BY <1>2, <1>5, Zenon DEF UpdateInv

\* However run returns, it leaves no update behind (the lease is released on every path).
LEMMA ReturnUpdate ==
  ASSUME UpdateInv, TypeOK, NEW d \in Devices, Return(d)
  PROVE  UpdateInv'
<1>1. \A e \in Devices \ {d} : granted'[e] = granted[e]
  BY Zenon DEF Return, MaintenanceRelease, TypeOK
<1>2. NoUpdate \in Update /\ NoUpdate.stage = "none" /\ NoUpdate.offset = 0
  BY Zenon DEF NoUpdate, Update
<1>3. UpdateInvOf(NoUpdate, <<>>, granted'[d])
  BY <1>2, Zenon DEF UpdateInvOf
<1> QED
  BY <1>1, <1>3, OneDevice, EmptyIsSeq, Zenon DEF Return

\* Every step of the Host, of the grant and of an update keeps the invariant; that
\* a device is granted to one holder (MaintenanceIsExclusive) keeps two runs apart.
LEMMA NextUpdate ==
  ASSUME UpdateInv, TypeOK, MaintenanceIsExclusive', [FirmwareNext]_firmwareVars
  PROVE  UpdateInv'
<1>1. CASE UNCHANGED <<granted, updateVars>>
  <2>1. granted' = granted /\ update' = update /\ received' = received
    BY <1>1, Zenon DEF updateVars
  <2> QED
    BY <2>1, Zenon DEF UpdateInv
<1>2. CASE HostStep /\ UNCHANGED updateVars
  BY <1>1, <1>2, HostStepKeepsGrants, Zenon
<1>3. ASSUME NEW size \in ImageSizes, FirmwareAcquire(size) PROVE UpdateInv'
  <2>1. CASE granted' = granted
    BY <1>1, <1>3, <2>1, Zenon DEF FirmwareAcquire, updateVars
  <2>2. CASE granted' # granted
    <3> DEFINE d == call.device
               u == [stage |-> "begin", size |-> size, chunk |-> 0, offset |-> 0]
    <3>1. d \in Devices /\ granted' = [granted EXCEPT ![d] = @ + 1]
      BY <1>3, <2>2, CallFields, SMTT(60) DEF FirmwareAcquire, MaintenanceAcquire, TypeOK
    <3>2. granted'[d] = granted[d] + 1 /\ granted[d] \in Nat
      BY <3>1, Zenon DEF TypeOK
    <3>3. granted'[d] = 1 /\ granted[d] = 0
      BY <3>1, <3>2 DEF MaintenanceIsExclusive
    <3>4. update[d].stage = "none" /\ received[d] = <<>>
      BY <3>1, <3>3 DEF UpdateInv, UpdateInvOf
    <3>5. u \in Update /\ u.stage = "begin" /\ u.offset = 0
      BY FirmwareAssumption, Zenon DEF Update
    <3> HIDE DEF u
    <3>6. UpdateInvOf(u, <<>>, granted'[d])
      BY <3>3, <3>5, Zenon DEF UpdateInvOf
    <3>7. update' = [update EXCEPT ![d] = u]
      BY <1>3, <2>2, Zenon DEF FirmwareAcquire, u
    <3>8. received' = [received EXCEPT ![d] = <<>>]
      BY <1>3, <3>1, <3>4, Zenon DEF FirmwareAcquire, UpdateInv
    <3>9. \A e \in Devices \ {d} : granted'[e] = granted[e]
      BY <3>1, Zenon DEF TypeOK
    <3> QED
      BY <3>1, <3>6, <3>7, <3>8, <3>9, OneDevice, EmptyIsSeq, Zenon
  <2> QED
    BY <2>1, <2>2, Zenon
<1>4. ASSUME NEW d \in Devices, Return(d) PROVE UpdateInv'
  BY <1>4, ReturnUpdate, Zenon
<1>5. ASSUME NEW d \in Devices, NEW chunk \in ChunkSizes, Begin(d, chunk) PROVE UpdateInv'
  <2> DEFINE size == IF chunk = 0 THEN Preferred ELSE chunk
             u == [update[d] EXCEPT !.stage = "transfer", !.chunk = size]
  <2>1. size \in Nat /\ size > 0
    BY FirmwareAssumption
  <2>2. update[d] \in Update /\ update[d].stage = "begin" /\ received[d] = <<>>
        /\ update[d].offset = 0 /\ granted[d] = 1
    BY <1>5, Zenon DEF Begin, UpdateInv, UpdateInvOf
  <2>3. u \in Update /\ u.stage = "transfer" /\ u.chunk > 0 /\ u.offset = 0
    BY <2>1, <2>2, Zenon DEF Update
  <2>4. Image(Least(u.offset, u.size)) = <<>>
    <3> HIDE DEF u
    <3>1. u.offset = 0 /\ u.size \in Nat
      BY <2>3, Zenon DEF Update
    <3>2. Least(u.offset, u.size) = 0
      BY <3>1 DEF Least
    <3> QED
      BY <3>2, EmptyIsSeq, Zenon
  <2>5. UpdateInvOf(u, <<>>, granted'[d])
    BY <1>5, <2>2, <2>3, <2>4, Zenon DEF UpdateInvOf, Begin, vars
  <2>6. update' = [update EXCEPT ![d] = u] /\ received' = [received EXCEPT ![d] = <<>>]
    BY <1>5, <2>2, Zenon DEF Begin, UpdateInv
  <2>7. \A e \in Devices \ {d} : granted'[e] = granted[e]
    BY <1>5, Zenon DEF Begin, vars
  <2> QED
    BY <2>5, <2>6, <2>7, OneDevice, EmptyIsSeq, Zenon
<1>6. ASSUME NEW d \in Devices, SendChunk(d) PROVE UpdateInv'
  <2> DEFINE u == [update[d] EXCEPT !.offset = @ + update[d].chunk]
             bytes == received[d] \o Chunk(update[d])
  <2>1. /\ update[d] \in Update /\ update[d].stage = "transfer" /\ update[d].chunk > 0
        /\ received[d] = Image(Least(update[d].offset, update[d].size)) /\ granted[d] = 1
        /\ received[d] \in Seq(Nat) /\ Transfers(update[d])
    BY <1>6, Zenon DEF SendChunk, UpdateInv, UpdateInvOf
  <2>2. /\ u \in Update /\ u.stage = "transfer" /\ u.chunk = update[d].chunk
        /\ u.size = update[d].size /\ u.offset = update[d].offset + update[d].chunk
    BY <2>1 DEF Update
  <2>3. bytes = Image(Least(u.offset, u.size)) /\ Chunk(update[d]) \in Seq(Nat)
    BY <2>1, <2>2, ChunkAppends, Zenon
  <2>4. bytes \in Seq(Nat)
    BY Zenon, <2>1, <2>3, ConcatProperties
  <2>5. UpdateInvOf(u, bytes, granted'[d])
    BY <1>6, <2>1, <2>2, <2>3, Zenon DEF UpdateInvOf, SendChunk, vars
  <2>6. update' = [update EXCEPT ![d] = u] /\ received' = [received EXCEPT ![d] = bytes]
    BY <1>6, Zenon DEF SendChunk
  <2>7. \A e \in Devices \ {d} : granted'[e] = granted[e]
    BY <1>6, Zenon DEF SendChunk, vars
  <2> QED
    BY <2>4, <2>5, <2>6, <2>7, OneDevice, Zenon
<1>7. ASSUME NEW d \in Devices, Finish(d) PROVE UpdateInv'
  <2> DEFINE u == [update[d] EXCEPT !.stage = "finish"]
  <2>1. /\ update[d] \in Update /\ update[d].stage = "transfer" /\ update[d].chunk > 0
        /\ received[d] = Image(Least(update[d].offset, update[d].size)) /\ granted[d] = 1
        /\ received[d] \in Seq(Nat) /\ ~Transfers(update[d])
    BY <1>7, Zenon DEF Finish, UpdateInv, UpdateInvOf
  <2>2. /\ u \in Update /\ u.stage = "finish" /\ u.chunk = update[d].chunk
        /\ u.size = update[d].size /\ u.offset = update[d].offset /\ u.offset >= u.size
    BY <2>1 DEF Update, Transfers
  <2>3. UpdateInvOf(u, received[d], granted'[d])
    BY <1>7, <2>1, <2>2, Zenon DEF UpdateInvOf, Finish, vars
  <2>4. update' = [update EXCEPT ![d] = u] /\ received' = [received EXCEPT ![d] = received[d]]
    BY <1>7, Zenon DEF Finish, UpdateInv
  <2>5. \A e \in Devices \ {d} : granted'[e] = granted[e]
    BY <1>7, Zenon DEF Finish, vars
  <2> QED
    BY <2>1, <2>3, <2>4, <2>5, OneDevice, Zenon
<1>8. CASE UNCHANGED firmwareVars
  BY <1>1, <1>8, Zenon DEF firmwareVars, vars
<1> QED
  BY <1>2, <1>3, <1>4, <1>5, <1>6, <1>7, <1>8, Zenon
  DEF FirmwareNext, UpdateStep, BeginFails, SendChunkFails, FinishReturns

\* A device is asked to finish an update only with the whole image, for any images,
\* chunk sizes and devices (the loop of FirmwareUpdateService::run under the lease).
THEOREM ImageComplete == FirmwareSpec => []FinishedImageIsComplete
<1>1. UpdateInv => FinishedImageIsComplete
  <2> SUFFICES ASSUME UpdateInv, NEW d \in Devices
               PROVE  /\ update[d].stage # "none" => granted[d] = 1
                      /\ update[d].stage = "finish" =>
                            received[d] = [i \in 1 .. update[d].size |-> i]
    BY Zenon DEF FinishedImageIsComplete
  <2>1. UpdateInvOf(update[d], received[d], granted[d])
    BY Zenon DEF UpdateInv
  <2>2. ASSUME update[d].stage = "finish" PROVE Least(update[d].offset, update[d].size) = update[d].size
    BY <2>1, <2>2 DEF UpdateInvOf, Update, Least
  <2> QED
    BY <2>1, <2>2, Zenon DEF UpdateInvOf, Image
<1>2. FirmwareSpec => []TypeOK /\ []MaintenanceIsExclusive
  BY FirmwareImplementsHost, TypeCorrect, UpdateIsExclusive, PTL
<1>3. UpdateInv /\ TypeOK /\ MaintenanceIsExclusive' /\ [FirmwareNext]_firmwareVars => UpdateInv'
  BY NextUpdate, Zenon
<1> QED
  BY <1>1, <1>2, <1>3, InitUpdate, PTL DEF FirmwareSpec
=============================================================================
