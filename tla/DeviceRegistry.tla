--------------------------- MODULE DeviceRegistry ---------------------------
(***************************************************************************)
(* DeviceManager (src/src/core/device_manager.cpp) and the lookups of      *)
(* RouteManager (src/src/core/route_manager.cpp): the rows of the devices  *)
(* the adapters know, the Endpoint each row is bound to, and the batch     *)
(* reconciliation of one adapter's discovery.                              *)
(*                                                                         *)
(* A row is keyed by (adapter, id).  Its remaining fields are abstracted   *)
(* to the Endpoint, the serial number and whether the device is online;    *)
(* the serial stands for every field snapshots_equivalent compares.        *)
(* DeviceManager::mutex_ is held for a whole reconciliation: its plans are *)
(* applied one step each and `reconciling` keeps every other call out.     *)
(* The plans are applied in the order of the keys' strings, which the      *)
(* model leaves open.                                                      *)
(***************************************************************************)
EXTENDS Naturals, FiniteSets

CONSTANTS Keys,       \* pairs <<adapter, id>>
          Endpoints,
          Serials,
          None,       \* the empty string
          Reports     \* the sets of rows a discovery may hold for one key

Adapter(k) == k[1]
Id(k) == k[2]
Adapters == {Adapter(k) : k \in Keys}
Ids == {Id(k) : k \in Keys}

Row == [endpoint : Endpoints \cup {None}, serial : Serials \cup {None}, online : BOOLEAN]

ASSUME ConstantsAssumption ==
    /\ None \notin Endpoints
    /\ None \notin Serials
    /\ None \notin Adapters
    /\ Reports \subseteq SUBSET Row

Blank == [endpoint |-> None, serial |-> None, online |-> FALSE]

Accepted == {"Inserted", "Refreshed", "EndpointBound"}
Rejected == {"EndpointConflict", "EndpointChangeRejected", "DiscoveryClaimConflict"}
Statuses == Accepted \cup Rejected

\* ClaimPlan: the row a current key claims, or keeps when its rows disagree.
Plan == [valid : BOOLEAN, authoritative : BOOLEAN, rejection : Rejected, row : Row]
NoPlan == [valid |-> FALSE, authoritative |-> FALSE,
           rejection |-> "DiscoveryClaimConflict", row |-> Blank]

VARIABLES
    devices,      \* the keys that have a row in devices_
    row,          \* their rows (Blank for the others)
    reconciling,  \* the adapter whose discovery holds mutex_, or None
    current,      \* the keys of rows_by_key
    plan,         \* their plans
    todo,         \* the plans that are still to be applied
    results       \* the status reported for each applied key, or None

vars == <<devices, row, reconciling, current, plan, todo, results>>
reconVars == <<reconciling, current, plan, todo, results>>

NoReconciliation ==
    /\ reconciling = None
    /\ current = {}
    /\ plan = [k \in Keys |-> NoPlan]
    /\ todo = {}
    /\ results = [k \in Keys |-> None]

Init ==
    /\ devices = {}
    /\ row = [k \in Keys |-> Blank]
    /\ NoReconciliation

Owners(e) == {k \in devices : row[k].endpoint = e}

-----------------------------------------------------------------------------
\* upsert

\* Mutant: a conflict is looked for only among the devices of the same adapter.
MutantConflict(D, k, e, allow) ==
    \E j \in D \ {k} : row[j].endpoint = e /\ ~allow /\ Adapter(j) = Adapter(k)

\* Another row of D has the Endpoint; a batch with several claims for it may
\* disregard the rows of the same adapter.
Conflict(D, k, e, allow) ==
    \E j \in D \ {k} : row[j].endpoint = e /\ (allow => Adapter(j) # Adapter(k))

UpsertStatus(D, k, r, allow) ==
    IF r.endpoint # None /\ Conflict(D, k, r.endpoint, allow) THEN "EndpointConflict"
    ELSE IF k \notin D THEN "Inserted"
    ELSE IF row[k].endpoint = None
         THEN IF r.endpoint = None THEN "Refreshed" ELSE "EndpointBound"
    ELSE IF r.endpoint \in {None, row[k].endpoint} THEN "Refreshed"
    ELSE "EndpointChangeRejected"

\* A refresh that omits the Endpoint keeps the stored binding.
Stored(k, r) ==
    [r EXCEPT !.endpoint = IF r.endpoint = None THEN row[k].endpoint ELSE r.endpoint]

\* upsert_locked on the rows of D: the rows outside D are erased before it.
UpsertLocked(D, k, r, allow) ==
    IF UpsertStatus(D, k, r, allow) \in Accepted
    THEN /\ devices' = D \cup {k}
         /\ row' = [j \in Keys |-> IF j = k THEN Stored(k, r)
                                   ELSE IF j \in D THEN row[j] ELSE Blank]
    ELSE /\ devices' = D
         /\ row' = [j \in Keys |-> IF j \in D THEN row[j] ELSE Blank]

Upsert(k, r) ==
    /\ reconciling = None
    /\ UpsertLocked(devices, k, r, FALSE)
    /\ UNCHANGED reconVars

-----------------------------------------------------------------------------
\* reconcile_discovery: the plans

Bound(k) == row[k].endpoint

\* The Endpoints the rows of a key and its stored binding name.
Named(k, rows) == ({r.endpoint : r \in rows} \cup {Bound(k)}) \ {None}

\* At most one Endpoint is named, and the rows differ in nothing else.
Agree(k, rows) ==
    /\ \A e, f \in Named(k, rows) : e = f
    /\ \A r, q \in rows : r.serial = q.serial /\ r.online = q.online

EffectiveEndpoint(k, rows) ==
    IF Named(k, rows) = {} THEN None ELSE CHOOSE e \in Named(k, rows) : TRUE

\* A key whose rows disagree keeps its claim when its row is already bound.
PlanFor(k, rows) ==
    LET front == CHOOSE r \in rows : TRUE
        changed == k \in devices /\ \E e, f \in Named(k, rows) : e # f
    IN  IF Agree(k, rows)
        THEN [valid |-> TRUE, authoritative |-> FALSE,
              rejection |-> "DiscoveryClaimConflict",
              row |-> [front EXCEPT !.endpoint = EffectiveEndpoint(k, rows)]]
        ELSE [valid |-> FALSE, authoritative |-> Bound(k) # None,
              rejection |-> IF changed THEN "EndpointChangeRejected"
                            ELSE "DiscoveryClaimConflict",
              row |-> IF Bound(k) # None THEN row[k] ELSE Blank]

\* `discovered[k]` is the set of rows the discovery holds for key k.
ReconcileBegin(a, discovered) ==
    /\ reconciling = None
    /\ reconciling' = a
    /\ current' = {k \in Keys : discovered[k] # {}}
    /\ plan' = [k \in Keys |-> IF discovered[k] = {} THEN NoPlan
                               ELSE PlanFor(k, discovered[k])]
    /\ todo' = current'
    /\ UNCHANGED <<devices, row, results>>

-----------------------------------------------------------------------------
\* reconcile_discovery: applying the plans

Claims(k) == plan[k].valid \/ plan[k].authoritative

\* claim_counts: the keys of the reconciled adapter that claim Endpoint e.
Claimants(e) ==
    {k \in current : Claims(k) /\ Adapter(k) = reconciling /\ plan[k].row.endpoint = e}

SeveralClaims(e) == e # None /\ \E i, j \in Claimants(e) : i # j

\* Mutant: a claimant replaces every other owner of its adapter, present or not.
MutantReplaced(k) ==
    {j \in Owners(plan[k].row.endpoint) : j # k /\ Adapter(j) = Adapter(k)}

\* Mutant: an earlier owner is not erased.
MutantKeepReplaced(k) == {}

\* The absent rows a sole claimant replaces, when no other adapter owns e.
Replaced(k) ==
    LET e == plan[k].row.endpoint
    IN  IF /\ e # None
           /\ Claimants(e) = {k}
           /\ \A j \in Owners(e) : Adapter(j) = Adapter(k)
        THEN {j \in Owners(e) : j # k /\ j \notin current}
        ELSE {}

ReconcileKey(k) ==
    /\ k \in todo
    /\ todo' = todo \ {k}
    /\ IF plan[k].valid
       THEN LET D == devices \ Replaced(k)
                allow == SeveralClaims(plan[k].row.endpoint)
            IN  /\ UpsertLocked(D, k, plan[k].row, allow)
                /\ results' = [results EXCEPT ![k] = UpsertStatus(D, k, plan[k].row, allow)]
       ELSE /\ devices' = IF plan[k].authoritative THEN devices \ Replaced(k) ELSE devices
            /\ row' = [j \in Keys |-> IF j \in devices' THEN row[j] ELSE Blank]
            /\ results' = [results EXCEPT ![k] = plan[k].rejection]
    /\ UNCHANGED <<reconciling, current, plan>>

\* The adapter's rows that were not discovered go offline; the lock is released.
ReconcileEnd ==
    /\ reconciling # None
    /\ todo = {}
    /\ row' = [k \in Keys |->
                  IF k \in devices /\ Adapter(k) = reconciling /\ k \notin current
                  THEN [row[k] EXCEPT !.online = FALSE] ELSE row[k]]
    /\ reconciling' = None
    /\ current' = {}
    /\ plan' = [k \in Keys |-> NoPlan]
    /\ results' = [k \in Keys |-> None]
    /\ UNCHANGED <<devices, todo>>

-----------------------------------------------------------------------------
\* mark_offline, with the adapter or with the id alone

MarkOffline(k) ==
    /\ reconciling = None
    /\ k \in devices
    /\ row' = [row EXCEPT ![k].online = FALSE]
    /\ UNCHANGED <<devices, reconVars>>

\* Nothing happens when several adapters have the id.
MarkIdOffline(i) ==
    /\ reconciling = None
    /\ \E k \in devices :
          /\ {j \in devices : Id(j) = i} = {k}
          /\ row' = [row EXCEPT ![k].online = FALSE]
    /\ UNCHANGED <<devices, reconVars>>

-----------------------------------------------------------------------------
\* Lookups.  A lookup reads list(), one copy taken under the mutex.

\* resolve_endpoint_route
ResolveEndpoint(e) ==
    IF e = None \/ Owners(e) = {} THEN "NotFound"
    ELSE IF \E i, j \in Owners(e) : i # j THEN "Conflict"
    ELSE IF \E k \in Owners(e) : row[k].online THEN "Found"
    ELSE "Unavailable"

\* The rows a legacy selector names: get(id), find_by_serial_number, or both.
Selected(selector, kind) ==
    {k \in devices :
        \/ kind # "serial" /\ Id(k) = selector
        \/ kind # "id" /\ row[k].serial = selector}

\* resolve_device: one row, and it is online; the key or None.
ResolveDevice(selector, kind) ==
    IF \E k \in Selected(selector, kind) : Selected(selector, kind) = {k} /\ row[k].online
    THEN CHOOSE k \in Selected(selector, kind) : TRUE
    ELSE None

-----------------------------------------------------------------------------
Next ==
    \/ \E k \in Keys, rows \in Reports : \E r \in rows : Upsert(k, r)
    \/ \E a \in Adapters, discovered \in [Keys -> Reports] : ReconcileBegin(a, discovered)
    \/ \E k \in Keys : ReconcileKey(k)
    \/ ReconcileEnd
    \/ \E k \in Keys : MarkOffline(k)
    \/ \E i \in Ids : MarkIdOffline(i)

Spec == Init /\ [][Next]_vars

-----------------------------------------------------------------------------
\* Every variable holds a value of the registry's state, and only known
\* devices have data.
TypeOK ==
    /\ devices \in SUBSET Keys
    /\ row \in [Keys -> Row]
    /\ \A k \in Keys \ devices : row[k] = Blank
    /\ reconciling \in Adapters \cup {None}
    /\ current \in SUBSET Keys
    /\ plan \in [Keys -> Plan]
    /\ todo \in SUBSET current
    /\ results \in [Keys -> Statuses \cup {None}]

\* An Endpoint is never bound to devices of two adapters, whatever sequence of
\* upserts and discoveries claims it (the conflict test of upsert_locked).
EndpointOwnedByOneAdapter ==
    \A i, j \in devices :
        row[i].endpoint # None /\ row[i].endpoint = row[j].endpoint => Adapter(i) = Adapter(j)

\* A device that stays in the registry keeps the Endpoint it is bound to: no
\* upsert, discovery or mark_offline changes or drops the binding.
BindingNeverChanges ==
    [][\A k \in devices \cap devices' :
          row[k].endpoint # None => row'[k].endpoint = row[k].endpoint]_vars

\* A row disappears only in a reconciliation that does not list it, and only
\* when a listed device of the same adapter holds its Endpoint afterwards: a
\* routable Endpoint is never lost.
ErasedOnlyByItsSuccessor ==
    [][\A k \in devices \ devices' :
          /\ k \notin current
          /\ \E j \in current \cap devices' :
                /\ Adapter(j) = Adapter(k)
                /\ row[k].endpoint # None
                /\ row'[j].endpoint = row[k].endpoint]_vars

\* Once its plan is applied, the only claimant of an Endpoint is its only owner
\* unless another adapter owns it: stale owners never leave the route in conflict.
SoleClaimantOwnsEndpoint ==
    \A k \in current \ todo :
        LET e == plan[k].row.endpoint
        IN  /\ e # None
            /\ Claimants(e) = {k}
            /\ \A j \in Owners(e) : Adapter(j) = reconciling
            => Owners(e) = {k}

\* A row reported as accepted is in the registry, with the data of its plan, for
\* as long as the reconciliation runs: no later plan of the batch takes it away.
AcceptedIsStored ==
    \A k \in current \ todo :
        results[k] \in Accepted => k \in devices /\ row[k] = plan[k].row
=============================================================================
