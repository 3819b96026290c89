------------------------ MODULE DeviceRegistryProofs ------------------------
(***************************************************************************)
(* Proofs about DeviceRegistry: who owns an Endpoint, and what a           *)
(* reconciliation may do to the rows, for any set of devices, Endpoints    *)
(* and discovery reports.                                                  *)
(***************************************************************************)
EXTENDS DeviceRegistry, TLAPS

\* The plans of a reconciliation that holds the lock fit the rows: a plan never
\* names another Endpoint than the one its row is bound to, a bound row is always
\* claimed, and an authoritative claim is the stored row itself.
PlansFit ==
    /\ reconciling = None => current = {}
    /\ \A k \in current :
          /\ row[k].endpoint \in {None, plan[k].row.endpoint}
          /\ row[k].endpoint # None => Claims(k)
          /\ ~Claims(k) => plan[k].row.endpoint = None
          /\ plan[k].authoritative =>
                ~plan[k].valid /\ row[k] = plan[k].row /\ row[k].endpoint # None

\* The inductive invariant.
RegistryInv ==
    /\ TypeOK
    /\ PlansFit
    /\ EndpointOwnedByOneAdapter
    /\ SoleClaimantOwnsEndpoint
    /\ AcceptedIsStored

-----------------------------------------------------------------------------
\* PlanFor gives a plan that fits the row of its key.
LEMMA PlanForFits ==
    ASSUME TypeOK, NEW k \in Keys, NEW rows \in SUBSET Row, rows # {},
           NEW p, p = PlanFor(k, rows)
    PROVE  /\ p \in Plan
           /\ row[k].endpoint \in {None, p.row.endpoint}
           /\ row[k].endpoint # None => p.valid \/ p.authoritative
           /\ ~(p.valid \/ p.authoritative) => p.row.endpoint = None
           /\ p.authoritative =>
                ~p.valid /\ row[k] = p.row /\ row[k].endpoint # None
<1> DEFINE front == CHOOSE r \in rows : TRUE
<1> DEFINE changed == k \in devices /\ \E e, f \in Named(k, rows) : e # f
<1> DEFINE rejection == IF changed THEN "EndpointChangeRejected" ELSE "DiscoveryClaimConflict"
<1>1. front \in Row /\ row[k] \in Row /\ Blank \in Row
  BY Zenon DEF TypeOK, Row, Blank
<1>2. Named(k, rows) \subseteq Endpoints /\ (row[k].endpoint # None => row[k].endpoint \in Named(k, rows))
  BY <1>1 DEF Named, Bound, Row
<1>3. EffectiveEndpoint(k, rows) \in Endpoints \cup {None}
  BY <1>2, Zenon DEF EffectiveEndpoint
<1>4. CASE Agree(k, rows)
  <2>1. row[k].endpoint \in {None, EffectiveEndpoint(k, rows)}
    BY <1>2, <1>4, Zenon DEF Agree, EffectiveEndpoint
  <2> DEFINE q == [front EXCEPT !.endpoint = EffectiveEndpoint(k, rows)]
  <2>2. q \in Row /\ q.endpoint = EffectiveEndpoint(k, rows)
    BY <1>1, <1>3, Zenon DEF Row
  <2>3. p = [valid |-> TRUE, authoritative |-> FALSE,
             rejection |-> "DiscoveryClaimConflict", row |-> q]
    BY <1>4, Zenon DEF PlanFor
  <2> HIDE DEF q
  <2>4. p \in Plan
    BY <2>2, <2>3 DEF Plan, Rejected
  <2>5. p.valid = TRUE /\ p.authoritative = FALSE /\ p.row = q
    BY <2>3
  <2> QED
    BY <2>1, <2>2, <2>4, <2>5, Zenon
<1>5. CASE ~Agree(k, rows)
  <2>1. p = [valid |-> FALSE, authoritative |-> Bound(k) # None,
             rejection |-> rejection,
             row |-> IF Bound(k) # None THEN row[k] ELSE Blank]
    BY <1>5, Zenon DEF PlanFor
  <2>2. rejection \in Rejected
    BY Zenon DEF Rejected
  <2> HIDE DEF rejection
  <2>3. CASE row[k].endpoint # None
    <3>1. p = [valid |-> FALSE, authoritative |-> TRUE, rejection |-> rejection, row |-> row[k]]
      BY Zenon, <2>1, <2>3 DEF Bound
    <3>2. p \in Plan
      BY <1>1, <2>2, <3>1 DEF Plan
    <3>3. p.valid = FALSE /\ p.authoritative = TRUE /\ p.row = row[k]
      BY <3>1
    <3> QED
      BY <2>3, <3>2, <3>3, Zenon
  <2>4. CASE row[k].endpoint = None
    <3>1. p = [valid |-> FALSE, authoritative |-> FALSE, rejection |-> rejection, row |-> Blank]
      BY Zenon, <2>1, <2>4 DEF Bound
    <3>2. p \in Plan
      BY <1>1, <2>2, <3>1 DEF Plan
    <3>3. p.valid = FALSE /\ p.authoritative = FALSE /\ p.row.endpoint = None
      BY <3>1 DEF Blank
    <3> QED
      BY <2>4, <3>2, <3>3, Zenon
  <2> QED
    BY <2>3, <2>4, Zenon
<1> QED
  BY <1>4, <1>5, Zenon

\* What upsert_locked leaves of the rows: those outside D are erased, the others
\* stay, and the row of k becomes the stored snapshot or stays as it is.
LEMMA UpsertRows ==
    ASSUME TypeOK, NEW D \in SUBSET devices, NEW k \in Keys, NEW r \in Row,
           NEW allow \in BOOLEAN, k \in devices => k \in D,
           UpsertLocked(D, k, r, allow)
    PROVE  /\ devices' \in SUBSET Keys
           /\ row' \in [Keys -> Row]
           /\ \A j \in Keys \ devices' : row'[j] = Blank
           /\ \A j \in Keys \ {k} : (j \in devices' <=> j \in D) /\ (j \in D => row'[j] = row[j])
           /\ row[k].endpoint # None => k \in devices' /\ row'[k].endpoint = row[k].endpoint
           /\ \/ row'[k] = row[k]
              \/ /\ UpsertStatus(D, k, r, allow) \in Accepted
                 /\ k \in devices'
                 /\ row'[k] = Stored(k, r)
                 /\ r.endpoint # None => ~Conflict(D, k, r.endpoint, allow)
<1>1. row[k] \in Row /\ r \in Row /\ Blank \in Row /\ D \subseteq Keys
  BY Zenon DEF TypeOK, Row, Blank
<1>2. Stored(k, r) \in Row /\ Stored(k, r).endpoint = (IF r.endpoint = None THEN row[k].endpoint ELSE r.endpoint)
  BY <1>1, Zenon DEF Stored, Row
<1>3. row[k].endpoint # None => k \in D
  BY DEF TypeOK, Blank
<1>4. CASE UpsertStatus(D, k, r, allow) \in Accepted
  <2>1. /\ devices' = D \cup {k}
        /\ row' = [j \in Keys |-> IF j = k THEN Stored(k, r)
                                  ELSE IF j \in D THEN row[j] ELSE Blank]
    BY <1>4, Zenon DEF UpsertLocked
  <2>2. r.endpoint # None => ~Conflict(D, k, r.endpoint, allow)
    BY <1>4, Zenon DEF UpsertStatus, Accepted
  <2>3. row[k].endpoint # None => r.endpoint \in {None, row[k].endpoint}
    BY <1>3, <1>4, Zenon DEF UpsertStatus, Accepted
  <2> QED
    BY <1>1, <1>2, <1>4, <2>1, <2>2, <2>3, Zenon DEF TypeOK
<1>5. CASE ~(UpsertStatus(D, k, r, allow) \in Accepted)
  <2>1. /\ devices' = D
        /\ row' = [j \in Keys |-> IF j \in D THEN row[j] ELSE Blank]
    BY <1>5, Zenon DEF UpsertLocked
  <2> QED
    BY <1>1, <1>3, <2>1, Zenon DEF TypeOK
<1> QED
  BY <1>4, <1>5, Zenon

-----------------------------------------------------------------------------
\* A reconciliation never erases a key of the batch, and erases nothing for a
\* plan that claims no Endpoint.
LEMMA ReplacedRows ==
    ASSUME NEW k \in current
    PROVE  /\ Replaced(k) \subseteq devices \ current
           /\ k \notin Replaced(k)
           /\ plan[k].row.endpoint = None => Replaced(k) = {}
BY Zenon DEF Replaced, Owners

\* A plan that is upserted is stored as it is, because it fits the row.
LEMMA StoredIsThePlan ==
    ASSUME NEW k \in Keys, NEW r \in Row, row[k].endpoint \in {None, r.endpoint}
    PROVE  Stored(k, r) = r
<1>1. (IF r.endpoint = None THEN row[k].endpoint ELSE r.endpoint) = r.endpoint
  BY Zenon
<1>2. Stored(k, r) = [r EXCEPT !.endpoint = r.endpoint]
  BY <1>1, Zenon DEF Stored
<1> QED
  BY <1>2, Zenon DEF Row

\* What applying one plan leaves of the rows.
LEMMA KeyRows ==
    ASSUME RegistryInv, NEW k \in todo, ReconcileKey(k)
    PROVE  /\ devices' \in SUBSET Keys
           /\ row' \in [Keys -> Row]
           /\ \A j \in Keys \ devices' : row'[j] = Blank
           /\ \A j \in Keys \ {k} : /\ j \in devices' <=> j \in devices \ Replaced(k)
                                    /\ j \in devices' => row'[j] = row[j]
           /\ row[k].endpoint # None => k \in devices' /\ row'[k].endpoint = row[k].endpoint
           /\ \/ row'[k] = row[k]
              \/ /\ plan[k].valid
                 /\ k \in devices'
                 /\ row'[k] = plan[k].row
                 /\ plan[k].row.endpoint # None =>
                       ~Conflict(devices \ Replaced(k), k, plan[k].row.endpoint,
                                 SeveralClaims(plan[k].row.endpoint))
           /\ results' \in [Keys -> Statuses \cup {None}]
           /\ results'[k] \in Accepted => k \in devices' /\ row'[k] = plan[k].row
           /\ \A j \in Keys \ {k} : results'[j] = results[j]
<1>1. k \in current /\ k \in Keys /\ plan[k] \in Plan /\ plan[k].row \in Row
  BY Zenon DEF RegistryInv, TypeOK, Plan
<1>2. Replaced(k) \subseteq devices /\ k \notin Replaced(k)
      /\ (plan[k].row.endpoint = None => Replaced(k) = {})
  BY <1>1, ReplacedRows, Zenon
<1>3. row[k].endpoint # None => k \in devices
  BY <1>1 DEF RegistryInv, TypeOK, Blank
<1>4. CASE plan[k].valid
  <2> DEFINE D == devices \ Replaced(k)
  <2> DEFINE allow == SeveralClaims(plan[k].row.endpoint)
  <2>1. UpsertLocked(D, k, plan[k].row, allow)
        /\ results' = [results EXCEPT ![k] = UpsertStatus(D, k, plan[k].row, allow)]
    BY <1>4, Zenon DEF ReconcileKey
  <2>2. D \in SUBSET devices /\ (k \in devices => k \in D) /\ allow \in BOOLEAN
    BY <1>2, Zenon DEF SeveralClaims
  <2>3. Stored(k, plan[k].row) = plan[k].row
    BY <1>1, StoredIsThePlan, Zenon DEF RegistryInv, PlansFit
  <2>4. UpsertStatus(D, k, plan[k].row, allow) \in Statuses
    BY Zenon DEF UpsertStatus, Statuses, Accepted, Rejected
  <2>5. UpsertStatus(D, k, plan[k].row, allow) \in Accepted =>
            k \in devices' /\ row'[k] = Stored(k, plan[k].row)
    BY <1>1, <2>1, Zenon DEF UpsertLocked
  <2>6. results' \in [Keys -> Statuses \cup {None}]
        /\ results'[k] = UpsertStatus(D, k, plan[k].row, allow)
        /\ \A j \in Keys \ {k} : results'[j] = results[j]
    BY <1>1, <2>1, <2>4, Zenon DEF RegistryInv, TypeOK
  <2> HIDE DEF D, allow
  <2>7. /\ devices' \in SUBSET Keys
        /\ row' \in [Keys -> Row]
        /\ \A j \in Keys \ devices' : row'[j] = Blank
        /\ \A j \in Keys \ {k} : (j \in devices' <=> j \in D) /\ (j \in D => row'[j] = row[j])
        /\ row[k].endpoint # None => k \in devices' /\ row'[k].endpoint = row[k].endpoint
        /\ \/ row'[k] = row[k]
           \/ /\ k \in devices'
              /\ row'[k] = Stored(k, plan[k].row)
              /\ plan[k].row.endpoint # None => ~Conflict(D, k, plan[k].row.endpoint, allow)
    <3>1. PICK D0 \in SUBSET devices, r0 \in Row, a0 \in BOOLEAN :
              D0 = D /\ r0 = plan[k].row /\ a0 = allow
      BY <1>1, <2>2, Zenon
    <3>2. UpsertLocked(D0, k, r0, a0) /\ (k \in devices => k \in D0)
      BY <2>1, <2>2, <3>1, Zenon
    <3>3. /\ devices' \in SUBSET Keys
          /\ row' \in [Keys -> Row]
          /\ \A j \in Keys \ devices' : row'[j] = Blank
          /\ \A j \in Keys \ {k} : (j \in devices' <=> j \in D0) /\ (j \in D0 => row'[j] = row[j])
          /\ row[k].endpoint # None => k \in devices' /\ row'[k].endpoint = row[k].endpoint
          /\ \/ row'[k] = row[k]
             \/ /\ UpsertStatus(D0, k, r0, a0) \in Accepted
                /\ k \in devices'
                /\ row'[k] = Stored(k, r0)
                /\ r0.endpoint # None => ~Conflict(D0, k, r0.endpoint, a0)
      <4>1. TypeOK
        BY Zenon DEF RegistryInv
      <4> QED
        BY <1>1, <3>2, <4>1, UpsertRows
    <3> QED
      BY <3>1, <3>3, Zenon
  <2> USE DEF D, allow
  <2> QED
    BY <1>4, <2>3, <2>5, <2>6, <2>7, Zenon
<1>5. CASE ~plan[k].valid
  <2>1. /\ devices' = devices \ Replaced(k)
        /\ row' = [j \in Keys |-> IF j \in devices' THEN row[j] ELSE Blank]
        /\ results' = [results EXCEPT ![k] = plan[k].rejection]
    BY <1>1, <1>2, <1>5, Zenon DEF ReconcileKey, RegistryInv, PlansFit, Claims
  <2>2. plan[k].rejection \in Statuses /\ plan[k].rejection \notin Accepted
    BY <1>1, Zenon DEF Plan, Statuses, Rejected, Accepted
  <2>3. Blank \in Row
    BY Zenon DEF Blank, Row
  <2>4. results' \in [Keys -> Statuses \cup {None}]
        /\ results'[k] \notin Accepted
        /\ \A j \in Keys \ {k} : results'[j] = results[j]
    BY <1>1, <2>1, <2>2, Zenon DEF RegistryInv, TypeOK
  <2>5. row'[k] = row[k]
    BY <1>1, <1>2, <2>1, Zenon DEF RegistryInv, TypeOK
  <2>6. /\ devices' \in SUBSET Keys
        /\ row' \in [Keys -> Row]
        /\ \A j \in Keys \ devices' : row'[j] = Blank
        /\ \A j \in Keys \ {k} : /\ j \in devices' <=> j \in devices \ Replaced(k)
                                 /\ j \in devices' => row'[j] = row[j]
        /\ row[k].endpoint # None => k \in devices'
    BY <1>1, <1>2, <1>3, <2>1, <2>3, Zenon DEF RegistryInv, TypeOK
  <2> QED
    BY <2>4, <2>5, <2>6, Zenon
<1> QED
  BY <1>4, <1>5, Zenon

\* The plan of the sole claimant of an Endpoint no other adapter owns leaves it
\* the only owner.
LEMMA SoleClaimantWins ==
    ASSUME RegistryInv, NEW k \in todo, ReconcileKey(k),
           NEW e, e = plan[k].row.endpoint, e # None, Claimants(e) = {k},
           \A j \in Owners(e) : Adapter(j) = Adapter(k)
    PROVE  /\ k \in devices'
           /\ row'[k].endpoint = e
           /\ \A j \in devices' : row'[j].endpoint = e => j = k
<1>1. k \in current /\ k \in Keys /\ plan[k].row \in Row /\ Adapter(k) = reconciling /\ Claims(k)
  BY Zenon DEF RegistryInv, TypeOK, Plan, Claimants
<1>2. ASSUME NEW j \in devices \ Replaced(k), row[j].endpoint = e
      PROVE  j = k
  <2>1. j \in Owners(e) /\ Adapter(j) = Adapter(k)
    BY <1>2, Zenon DEF Owners
  <2>2. j \in current \/ j = k
    BY <1>2, <2>1, Zenon DEF Replaced
  <2>3. j \in current => j \in Claimants(e)
    BY <1>1, <1>2, <2>1, Zenon DEF RegistryInv, PlansFit, Claimants
  <2> QED
    BY <2>2, <2>3, Zenon
<1>3. \A j \in devices' : row'[j].endpoint = e => j = k
  <2>1. devices' \in SUBSET Keys
    BY Zenon, KeyRows
  <2>2. \A j \in Keys \ {k} :
           j \in devices' => j \in devices \ Replaced(k) /\ row'[j] = row[j]
    BY Zenon, KeyRows
  <2> QED
    BY <1>2, <2>1, <2>2, Zenon
<1>4. CASE plan[k].valid
  <2> DEFINE D == devices \ Replaced(k)
  <2> DEFINE allow == SeveralClaims(plan[k].row.endpoint)
  <2>1. ~Conflict(D, k, e, allow)
    BY <1>2, Zenon DEF Conflict
  <2>2. row[k].endpoint \in {None, e}
    BY <1>1, Zenon DEF RegistryInv, PlansFit
  <2>3. UpsertStatus(D, k, plan[k].row, allow) \in Accepted
    BY <2>1, <2>2, Zenon DEF UpsertStatus, Accepted
  <2>4. UpsertLocked(D, k, plan[k].row, allow)
    BY <1>4, Zenon DEF ReconcileKey
  <2>5. k \in devices' /\ row'[k] = Stored(k, plan[k].row)
    BY <1>1, <2>3, <2>4, Zenon DEF UpsertLocked
  <2>6. Stored(k, plan[k].row) = plan[k].row
    BY <1>1, <2>2, StoredIsThePlan, Zenon
  <2> QED
    BY <1>3, <2>5, <2>6, Zenon
<1>5. CASE ~plan[k].valid
  <2>1. row[k].endpoint = e
    BY <1>1, <1>5, Zenon DEF RegistryInv, PlansFit, Claims
  <2> QED
    BY Zenon, <1>3, <2>1, KeyRows
<1> QED
  BY <1>4, <1>5, Zenon

-----------------------------------------------------------------------------
\* What an upsert outside a reconciliation does, for the constant k and r.
LEMMA PlainUpsertRows ==
    ASSUME TypeOK, NEW k \in Keys, NEW r \in Row, Upsert(k, r)
    PROVE  /\ devices' \in SUBSET Keys
           /\ row' \in [Keys -> Row]
           /\ \A j \in Keys \ devices' : row'[j] = Blank
           /\ \A j \in Keys \ {k} : /\ j \in devices' <=> j \in devices
                                    /\ j \in devices => row'[j] = row[j]
           /\ row[k].endpoint # None => k \in devices' /\ row'[k].endpoint = row[k].endpoint
           /\ k \in devices => k \in devices'
           /\ \/ row'[k] = row[k]
              \/ /\ row'[k] = Stored(k, r)
                 /\ r.endpoint # None => ~Conflict(devices, k, r.endpoint, FALSE)
<1>1. PICK D \in SUBSET devices : D = devices
  BY Zenon
<1>2. UpsertLocked(D, k, r, FALSE) /\ (k \in devices => k \in D)
  BY <1>1, Zenon DEF Upsert
<1>3. /\ devices' \in SUBSET Keys
      /\ row' \in [Keys -> Row]
      /\ \A j \in Keys \ devices' : row'[j] = Blank
      /\ \A j \in Keys \ {k} : (j \in devices' <=> j \in D) /\ (j \in D => row'[j] = row[j])
      /\ row[k].endpoint # None => k \in devices' /\ row'[k].endpoint = row[k].endpoint
      /\ \/ row'[k] = row[k]
         \/ /\ UpsertStatus(D, k, r, FALSE) \in Accepted
            /\ k \in devices'
            /\ row'[k] = Stored(k, r)
            /\ r.endpoint # None => ~Conflict(D, k, r.endpoint, FALSE)
  BY Zenon, <1>2, UpsertRows
<1>4. k \in devices => k \in devices'
  BY Zenon, <1>1, <1>2 DEF UpsertLocked
<1> QED
  BY <1>1, <1>3, <1>4, Zenon

\* A registry outside a reconciliation has no plans to fit.
LEMMA NothingPlanned ==
    ASSUME current' = {}
    PROVE  PlansFit' /\ SoleClaimantOwnsEndpoint' /\ AcceptedIsStored'
BY Zenon DEF PlansFit, SoleClaimantOwnsEndpoint, AcceptedIsStored

\* The empty registry satisfies the invariant.
LEMMA InitInv == Init => RegistryInv
<1> SUFFICES ASSUME Init PROVE RegistryInv
  BY Zenon
<1>1. TypeOK
  BY Zenon DEF Init, NoReconciliation, TypeOK, Blank, Row, NoPlan, Plan, Rejected
<1>2. PlansFit /\ SoleClaimantOwnsEndpoint /\ AcceptedIsStored
  BY Zenon DEF Init, NoReconciliation, PlansFit, SoleClaimantOwnsEndpoint, AcceptedIsStored
<1>3. EndpointOwnedByOneAdapter
  BY Zenon DEF Init, EndpointOwnedByOneAdapter
<1> QED
  BY <1>1, <1>2, <1>3, Zenon DEF RegistryInv

\* Upsert keeps the invariant.
LEMMA UpsertInv ==
    ASSUME RegistryInv, NEW k \in Keys, NEW r \in Row, Upsert(k, r)
    PROVE  RegistryInv'
<1>1. UNCHANGED reconVars /\ reconciling = None
  BY Zenon DEF Upsert
<1>2. current = {} /\ current' = {}
  BY <1>1, Zenon DEF reconVars, RegistryInv, PlansFit
<1>3. TypeOK /\ EndpointOwnedByOneAdapter
  BY Zenon DEF RegistryInv
<1>4. TypeOK'
  BY Zenon, <1>1, <1>3, PlainUpsertRows DEF TypeOK, reconVars
<1>5. EndpointOwnedByOneAdapter'
  <2>1. Stored(k, r).endpoint = (IF r.endpoint = None THEN row[k].endpoint ELSE r.endpoint)
    BY Zenon DEF Stored, Row
  <2>2. row[k].endpoint # None => k \in devices
    BY <1>3 DEF TypeOK, Blank
  <2>3. ASSUME NEW i \in devices', i # k, row'[i].endpoint # None,
               row'[i].endpoint = row'[k].endpoint
        PROVE  Adapter(i) = Adapter(k)
    <3>1. i \in devices /\ row'[i] = row[i]
      BY Zenon, <1>4, <2>3, <1>3, PlainUpsertRows DEF TypeOK
    <3>2. CASE row'[k].endpoint = row[k].endpoint
      BY <1>3, <2>2, <2>3, <3>1, <3>2, Zenon DEF EndpointOwnedByOneAdapter
    <3>3. CASE row'[k].endpoint # row[k].endpoint
      <4>1. row'[k] = Stored(k, r) /\ ~Conflict(devices, k, r.endpoint, FALSE)
            /\ row'[k].endpoint = r.endpoint
        BY Zenon, <1>3, <2>1, <3>3, PlainUpsertRows
      <4> QED
        BY <2>3, <3>1, <4>1, Zenon DEF Conflict
    <3> QED
      BY <3>2, <3>3, Zenon
  <2>4. ASSUME NEW i \in devices', NEW j \in devices', i # k, j # k,
               row'[i].endpoint # None, row'[i].endpoint = row'[j].endpoint
        PROVE  Adapter(i) = Adapter(j)
    <3>1. i \in devices /\ row'[i] = row[i] /\ j \in devices /\ row'[j] = row[j]
      BY Zenon, <1>4, <1>3, <2>4, PlainUpsertRows DEF TypeOK
    <3> QED
      BY <1>3, <2>4, <3>1, Zenon DEF EndpointOwnedByOneAdapter
  <2> QED
    BY <2>3, <2>4, Zenon DEF EndpointOwnedByOneAdapter
<1> QED
  BY <1>2, <1>4, <1>5, NothingPlanned, Zenon DEF RegistryInv

\* The plans of a new reconciliation fit; nothing is applied yet.
LEMMA ReconcileBeginInv ==
    ASSUME RegistryInv, NEW a \in Adapters, NEW discovered \in [Keys -> Reports],
           ReconcileBegin(a, discovered)
    PROVE  RegistryInv'
<1>1. \A k \in Keys : discovered[k] \in SUBSET Row
  BY ConstantsAssumption, Zenon
<1>2. /\ reconciling' = a
      /\ current' = {k \in Keys : discovered[k] # {}}
      /\ plan' = [k \in Keys |-> IF discovered[k] = {} THEN NoPlan ELSE PlanFor(k, discovered[k])]
      /\ todo' = current'
      /\ UNCHANGED <<devices, row, results>>
  BY Zenon DEF ReconcileBegin
<1>3. TypeOK
  BY Zenon DEF RegistryInv
<1>4. \A k \in Keys : plan'[k] \in Plan
  <2> TAKE k \in Keys
  <2>1. CASE discovered[k] = {}
    BY <1>2, <2>1, Zenon DEF NoPlan, Plan, Rejected, Blank, Row
  <2>2. CASE discovered[k] # {}
    BY <1>1, <1>2, <1>3, <2>2, PlanForFits, Zenon
  <2> QED
    BY <2>1, <2>2, Zenon
<1>5. TypeOK'
  BY <1>2, <1>3, <1>4, Zenon DEF TypeOK
<1>6. PlansFit'
  <2>1. reconciling' # None
    BY <1>2, ConstantsAssumption, Zenon
  <2>2. ASSUME NEW k \in current'
        PROVE  /\ row'[k].endpoint \in {None, plan'[k].row.endpoint}
               /\ row'[k].endpoint # None => Claims(k)'
               /\ ~Claims(k)' => plan'[k].row.endpoint = None
               /\ plan'[k].authoritative =>
                     ~plan'[k].valid /\ row'[k] = plan'[k].row /\ row'[k].endpoint # None
    <3>1. k \in Keys /\ discovered[k] # {} /\ plan'[k] = PlanFor(k, discovered[k]) /\ row' = row
      BY <1>2, Zenon
    <3>2. PICK p : p = PlanFor(k, discovered[k])
      BY Zenon
    <3>3. /\ row[k].endpoint \in {None, p.row.endpoint}
          /\ row[k].endpoint # None => p.valid \/ p.authoritative
          /\ ~(p.valid \/ p.authoritative) => p.row.endpoint = None
          /\ p.authoritative => ~p.valid /\ row[k] = p.row /\ row[k].endpoint # None
      BY <1>1, <1>3, <3>1, <3>2, PlanForFits
    <3>4. plan'[k] = p
      BY <3>1, <3>2, Zenon
    <3> QED
      BY <3>1, <3>3, <3>4, Zenon DEF Claims
  <2> QED
    BY <2>1, <2>2, Zenon DEF PlansFit
<1>7. EndpointOwnedByOneAdapter'
  BY <1>2, Zenon DEF RegistryInv, EndpointOwnedByOneAdapter
<1>8. SoleClaimantOwnsEndpoint' /\ AcceptedIsStored'
  BY <1>2, Zenon DEF SoleClaimantOwnsEndpoint, AcceptedIsStored
<1> QED
  BY <1>5, <1>6, <1>7, <1>8, Zenon DEF RegistryInv

-----------------------------------------------------------------------------
\* Applying one plan keeps the invariant.
LEMMA ReconcileKeyInv ==
    ASSUME RegistryInv, NEW k \in todo, ReconcileKey(k)
    PROVE  RegistryInv'
<1>1. k \in current /\ k \in Keys /\ plan[k] \in Plan /\ current \subseteq Keys
  BY Zenon DEF RegistryInv, TypeOK
<1>2. UNCHANGED <<reconciling, current, plan>> /\ todo' = todo \ {k}
  BY Zenon DEF ReconcileKey
<1>3. Replaced(k) \subseteq devices \ current
  BY <1>1, ReplacedRows, Zenon
<1>4. \A j \in current \ {k} : (j \in devices' <=> j \in devices) /\ row'[j] = row[j]
  BY Zenon, <1>1, <1>3, KeyRows DEF RegistryInv, TypeOK
<1>5. TypeOK'
  BY Zenon, <1>2, KeyRows DEF RegistryInv, TypeOK
<1>51. \A j \in devices' \ {k} : j \in Keys /\ j \in devices \ Replaced(k) /\ row'[j] = row[j]
  <2>1. devices' \in SUBSET Keys
    BY Zenon, KeyRows
  <2>2. \A j \in Keys \ {k} :
           j \in devices' => j \in devices \ Replaced(k) /\ row'[j] = row[j]
    BY Zenon, KeyRows
  <2> QED
    BY <2>1, <2>2, Zenon
<1>52. \/ row'[k] = row[k]
       \/ /\ plan[k].valid
          /\ k \in devices'
          /\ row'[k] = plan[k].row
          /\ plan[k].row.endpoint # None =>
                ~Conflict(devices \ Replaced(k), k, plan[k].row.endpoint,
                          SeveralClaims(plan[k].row.endpoint))
  BY KeyRows, Zenon
<1>53. row[k].endpoint # None => k \in devices
  BY <1>1 DEF RegistryInv, TypeOK, Blank
<1>6. PlansFit'
  <2>1. \A j : Claims(j)' <=> Claims(j)
    BY <1>2, Zenon DEF Claims
  <2>2. ASSUME NEW j \in current
        PROVE  /\ row'[j].endpoint \in {None, plan[j].row.endpoint}
               /\ row'[j].endpoint # None => Claims(j)
               /\ plan[j].authoritative => row'[j] = plan[j].row /\ row'[j].endpoint # None
    <3>1. CASE j # k
      BY <1>4, <3>1, Zenon DEF RegistryInv, PlansFit
    <3>2. CASE j = k /\ row'[k] = row[k]
      BY <3>2, Zenon DEF RegistryInv, PlansFit
    <3>3. CASE j = k /\ plan[k].valid /\ row'[k] = plan[k].row
      BY <3>3, Zenon DEF RegistryInv, PlansFit, Claims
    <3> QED
      BY <1>52, <3>1, <3>2, <3>3, Zenon
  <2> QED
    BY <1>2, <2>1, <2>2, Zenon DEF RegistryInv, PlansFit
<1>7. EndpointOwnedByOneAdapter'
  <2>1. ASSUME NEW i \in devices', i # k, row'[i].endpoint # None,
               row'[i].endpoint = row'[k].endpoint
        PROVE  Adapter(i) = Adapter(k)
    <3>1. i \in devices \ Replaced(k) /\ row'[i] = row[i]
      BY <1>51, <2>1, Zenon
    <3>2. CASE row'[k] = row[k]
      <4>1. k \in devices
        BY <1>53, <2>1, <3>2, Zenon
      <4> QED
        BY <2>1, <3>1, <3>2, <4>1, Zenon DEF RegistryInv, EndpointOwnedByOneAdapter
    <3>3. CASE /\ row'[k] = plan[k].row
               /\ ~Conflict(devices \ Replaced(k), k, plan[k].row.endpoint,
                            SeveralClaims(plan[k].row.endpoint))
      BY <2>1, <3>1, <3>3, Zenon DEF Conflict
    <3> QED
      BY <1>52, <2>1, <3>2, <3>3, Zenon
  <2>2. ASSUME NEW i \in devices', NEW j \in devices', i # k, j # k,
               row'[i].endpoint # None, row'[i].endpoint = row'[j].endpoint
        PROVE  Adapter(i) = Adapter(j)
    <3>1. i \in devices /\ row'[i] = row[i] /\ j \in devices /\ row'[j] = row[j]
      BY <1>51, <2>2, Zenon
    <3> QED
      BY <2>2, <3>1, Zenon DEF RegistryInv, EndpointOwnedByOneAdapter
  <2> QED
    BY <2>1, <2>2, Zenon DEF EndpointOwnedByOneAdapter
<1>8. SoleClaimantOwnsEndpoint'
  <2>1. ASSUME NEW c \in current \ todo', NEW e, e = plan[c].row.endpoint, e # None,
               Claimants(e) = {c},
               \A j \in devices' : row'[j].endpoint = e => Adapter(j) = reconciling
        PROVE  /\ c \in devices'
               /\ row'[c].endpoint = e
               /\ \A j \in devices' : row'[j].endpoint = e => j = c
    <3>1. c \in Keys /\ Adapter(c) = reconciling /\ (c = k \/ c \notin todo)
      BY <1>1, <1>2, <2>1, Zenon DEF Claimants
    <3>2. \A j \in Keys \ {k} : j \in devices \ Replaced(k) => j \in devices' /\ row'[j] = row[j]
      BY Zenon, KeyRows
    <3>3. row[k].endpoint = e => k \in devices' /\ row'[k].endpoint = e
      BY Zenon, <2>1, KeyRows
    <3>4. ASSUME NEW i \in Owners(e)
          PROVE  Adapter(i) = reconciling
      <4>1. i \in devices /\ i \in Keys /\ row[i].endpoint = e
        BY Zenon DEF Owners, RegistryInv, TypeOK
      <4>2. CASE i \in Replaced(k)
        <5>1. i \in Owners(plan[k].row.endpoint) /\ Claimants(plan[k].row.endpoint) = {k}
              /\ Adapter(i) = Adapter(k)
          BY <4>2, Zenon DEF Replaced
        <5> QED
          BY <5>1, Zenon DEF Claimants
      <4>3. CASE i \notin Replaced(k)
        BY <2>1, <3>2, <3>3, <4>1, <4>3, Zenon
      <4> QED
        BY <4>2, <4>3, Zenon
    <3>5. CASE c = k
      <4>1. \A j \in Owners(e) : Adapter(j) = Adapter(k)
        BY <3>1, <3>4, <3>5, Zenon
      <4> QED
        BY <2>1, <3>5, <4>1, SoleClaimantWins, Zenon
    <3>6. CASE c # k
      <4>1. Owners(e) = {c}
        BY <2>1, <3>1, <3>4, <3>6, Zenon DEF RegistryInv, SoleClaimantOwnsEndpoint
      <4>2. c \in devices' /\ row'[c].endpoint = e
        BY <1>4, <3>6, <4>1, Zenon DEF Owners
      <4>3. ASSUME NEW j \in devices', row'[j].endpoint = e, j # c
            PROVE  FALSE
        <5>1. j = k
          <6>1. SUFFICES ASSUME j # k PROVE FALSE
            BY Zenon
          <6>2. j \in devices /\ row'[j] = row[j]
            BY <1>51, <6>1, Zenon
          <6> QED
            BY <4>1, <4>3, <6>2, Zenon DEF Owners
        <5>2. row[k].endpoint # e
          BY <1>53, <2>1, <3>6, <4>1, Zenon DEF Owners
        <5>3. row'[k] = plan[k].row /\ plan[k].row.endpoint = e
              /\ ~Conflict(devices \ Replaced(k), k, e, SeveralClaims(e)) /\ plan[k].valid
          BY <1>52, <2>1, <4>3, <5>1, <5>2, Zenon
        <5>4. Adapter(k) # reconciling
          BY <1>1, <2>1, <3>6, <5>3, Zenon DEF Claimants, Claims
        <5> QED
          BY <2>1, <4>3, <5>1, <5>4, Zenon
      <4> QED
        BY <4>2, <4>3, Zenon
    <3> QED
      BY <3>5, <3>6, Zenon
  <2>2. ASSUME NEW c \in current' \ todo', plan'[c].row.endpoint # None,
               {i \in current' : Claims(i)' /\ Adapter(i) = reconciling'
                                 /\ plan'[i].row.endpoint = plan'[c].row.endpoint} = {c},
               \A j \in {i \in devices' : row'[i].endpoint = plan'[c].row.endpoint} :
                   Adapter(j) = reconciling'
        PROVE  {i \in devices' : row'[i].endpoint = plan'[c].row.endpoint} = {c}
    <3>1. PICK e : e = plan[c].row.endpoint
      BY Zenon
    <3>2. Claimants(e) = {c}
      BY <1>2, <2>2, <3>1, Zenon DEF Claimants, Claims
    <3> QED
      BY <1>2, <2>1, <2>2, <3>1, <3>2
  <2> QED
    BY <2>2, Zenon DEF SoleClaimantOwnsEndpoint, Claimants, Owners
<1>9. AcceptedIsStored'
  <2>1. ASSUME NEW j \in current \ todo', results'[j] \in Accepted
        PROVE  j \in devices' /\ row'[j] = plan[j].row
    <3>1. CASE j = k
      BY Zenon, <2>1, <3>1, KeyRows
    <3>2. CASE j # k
      <4>1. j \in current \ todo /\ results[j] \in Accepted
        BY Zenon, <1>1, <1>2, <2>1, <3>2, KeyRows
      <4> QED
        BY <1>4, <3>2, <4>1, Zenon DEF RegistryInv, AcceptedIsStored
    <3> QED
      BY <3>1, <3>2, Zenon
  <2> QED
    BY <1>2, <2>1, Zenon DEF AcceptedIsStored
<1> QED
  BY <1>5, <1>6, <1>7, <1>8, <1>9, Zenon DEF RegistryInv

\* Marking rows offline, at the end of a reconciliation or by a caller, leaves
\* the bindings alone.
LEMMA OfflineInv ==
    ASSUME RegistryInv, UNCHANGED <<devices, todo>>, current' = {}, todo = {},
           reconciling' = None,
           plan' \in [Keys -> Plan], results' \in [Keys -> Statuses \cup {None}],
           NEW S \in SUBSET devices,
           row' = [k \in Keys |-> IF k \in S THEN [row[k] EXCEPT !.online = FALSE] ELSE row[k]]
    PROVE  RegistryInv'
<1>1. TypeOK /\ EndpointOwnedByOneAdapter
  BY Zenon DEF RegistryInv
<1>2. \A k \in Keys : row'[k] \in Row /\ row'[k].endpoint = row[k].endpoint
                      /\ (k \notin devices => row'[k] = row[k])
  BY Zenon, <1>1 DEF TypeOK, Row
<1>3. TypeOK'
  BY <1>1, <1>2, Zenon DEF TypeOK
<1>4. EndpointOwnedByOneAdapter'
  BY <1>1, <1>2 DEF TypeOK, EndpointOwnedByOneAdapter
<1> QED
  BY <1>3, <1>4, NothingPlanned, Zenon DEF RegistryInv

\* The online flag of one row, as the set OfflineInv takes.
LEMMA MarkOfflineInv ==
    ASSUME RegistryInv, reconciling = None, NEW k \in devices,
           row' = [row EXCEPT ![k].online = FALSE],
           UNCHANGED <<devices, reconVars>>
    PROVE  RegistryInv'
<1>1. current = {} /\ todo = {}
  BY Zenon DEF RegistryInv, PlansFit, TypeOK
<1>2. PICK S \in SUBSET devices : S = {k}
  BY Zenon
<1>3. row' = [j \in Keys |-> IF j \in S THEN [row[j] EXCEPT !.online = FALSE] ELSE row[j]]
  BY Zenon, <1>2 DEF RegistryInv, TypeOK
<1>4. UNCHANGED <<devices, todo>> /\ current' = {} /\ reconciling' = None
      /\ plan' \in [Keys -> Plan] /\ results' \in [Keys -> Statuses \cup {None}]
  BY <1>1, Zenon DEF reconVars, RegistryInv, TypeOK
<1> QED
  BY Zenon, <1>1, <1>3, <1>4, OfflineInv

\* The end of a reconciliation takes the unreported devices of its adapter offline.
LEMMA ReconcileEndInv ==
    ASSUME RegistryInv, ReconcileEnd
    PROVE  RegistryInv'
<1>1. PICK S \in SUBSET devices :
          S = {k \in devices : Adapter(k) = reconciling /\ k \notin current}
  BY Zenon
<1>2. row' = [k \in Keys |-> IF k \in S THEN [row[k] EXCEPT !.online = FALSE] ELSE row[k]]
  BY <1>1, Zenon DEF ReconcileEnd
<1>3. UNCHANGED <<devices, todo>> /\ current' = {} /\ todo = {} /\ reconciling' = None
  BY Zenon DEF ReconcileEnd
<1>4. plan' \in [Keys -> Plan] /\ results' \in [Keys -> Statuses \cup {None}]
  <2>1. NoPlan \in Plan
    BY Zenon DEF NoPlan, Plan, Rejected, Blank, Row
  <2> QED
    BY <2>1, Zenon DEF ReconcileEnd
<1> QED
  BY <1>2, <1>3, <1>4, OfflineInv, Zenon

-----------------------------------------------------------------------------
\* The invariant is inductive: the registry, with its plans, is consistent after
\* any sequence of upserts, discoveries and mark_offline calls.
THEOREM RegistryInvariant == Spec => []RegistryInv
<1>1. RegistryInv /\ [Next]_vars => RegistryInv'
  <2> SUFFICES ASSUME RegistryInv, [Next]_vars
               PROVE  RegistryInv'
    BY Zenon
  <2>1. ASSUME NEW k \in Keys, NEW rows \in Reports, NEW r \in rows, Upsert(k, r)
        PROVE  RegistryInv'
    <3>1. r \in Row
      BY ConstantsAssumption, Zenon
    <3> QED
      BY <2>1, <3>1, UpsertInv, Zenon
  <2>2. ASSUME NEW a \in Adapters, NEW discovered \in [Keys -> Reports],
               ReconcileBegin(a, discovered)
        PROVE  RegistryInv'
    BY <2>2, ReconcileBeginInv, Zenon
  <2>3. ASSUME NEW k \in Keys, ReconcileKey(k)
        PROVE  RegistryInv'
    <3>1. k \in todo
      BY <2>3, Zenon DEF ReconcileKey
    <3> QED
      BY <2>3, <3>1, ReconcileKeyInv, Zenon
  <2>4. CASE ReconcileEnd
    BY <2>4, ReconcileEndInv, Zenon
  <2>5. ASSUME NEW k \in Keys, MarkOffline(k)
        PROVE  RegistryInv'
    BY Zenon, <2>5, MarkOfflineInv DEF MarkOffline
  <2>6. ASSUME NEW i \in Ids, MarkIdOffline(i)
        PROVE  RegistryInv'
    BY Zenon, <2>6, MarkOfflineInv DEF MarkIdOffline
  <2>7. CASE UNCHANGED vars
    <3>1. TypeOK' /\ PlansFit'
      BY <2>7, Zenon DEF RegistryInv, TypeOK, PlansFit, Claims, vars
    <3>2. EndpointOwnedByOneAdapter' /\ AcceptedIsStored'
      BY <2>7, Zenon DEF RegistryInv, EndpointOwnedByOneAdapter, AcceptedIsStored, vars
    <3>3. SoleClaimantOwnsEndpoint'
      <4>1. \A e : Claimants(e)' = Claimants(e) /\ Owners(e)' = Owners(e)
        BY <2>7, Zenon DEF Claimants, Claims, Owners, vars
      <4> QED
        BY <2>7, <4>1, Zenon DEF RegistryInv, SoleClaimantOwnsEndpoint, vars
    <3> QED
      BY <3>1, <3>2, <3>3, Zenon DEF RegistryInv
  <2> QED
    BY <2>1, <2>2, <2>3, <2>4, <2>5, <2>6, <2>7, Zenon DEF Next
<1> QED
  BY <1>1, InitInv, PTL DEF Spec

\* The registry's variables keep their types.
THEOREM TypeCorrect == Spec => []TypeOK
BY RegistryInvariant, PTL DEF RegistryInv

\* An Endpoint is never bound to devices of two adapters.
THEOREM OneAdapterOwnsEndpoint == Spec => []EndpointOwnedByOneAdapter
BY RegistryInvariant, PTL DEF RegistryInv

\* The sole claimant of an Endpoint ends up its only owner.
THEOREM SoleClaimantOwns == Spec => []SoleClaimantOwnsEndpoint
BY RegistryInvariant, PTL DEF RegistryInv

\* What a reconciliation reports as accepted is stored.
THEOREM AcceptedStored == Spec => []AcceptedIsStored
BY RegistryInvariant, PTL DEF RegistryInv

-----------------------------------------------------------------------------
\* What a step does to a row that is bound to an Endpoint.
LEMMA BoundRowStep ==
    ASSUME RegistryInv, Next
    PROVE  /\ \A k \in devices \cap devices' :
                 row[k].endpoint # None => row'[k].endpoint = row[k].endpoint
           /\ \A k \in devices \ devices' :
                 /\ k \notin current
                 /\ \E j \in current \cap devices' :
                       /\ Adapter(j) = Adapter(k)
                       /\ row[k].endpoint # None
                       /\ row'[j].endpoint = row[k].endpoint
<1>1. TypeOK
  BY Zenon DEF RegistryInv
<1> DEFINE Kept == /\ \A k \in devices : row[k].endpoint # None => row'[k].endpoint = row[k].endpoint
                   /\ devices \subseteq devices'
<1>2. ASSUME NEW k \in Keys, NEW rows \in Reports, NEW r \in rows, Upsert(k, r)
      PROVE  Kept
  <2>1. r \in Row
    BY ConstantsAssumption, Zenon
  <2>2. \A j \in devices : j # k => j \in devices' /\ row'[j] = row[j]
    BY Zenon, <1>1, <1>2, <2>1, PlainUpsertRows DEF TypeOK
  <2>3. (row[k].endpoint # None => row'[k].endpoint = row[k].endpoint)
        /\ (k \in devices => k \in devices')
    BY Zenon, <1>1, <1>2, <2>1, PlainUpsertRows
  <2> QED
    BY <2>2, <2>3, Zenon
<1>3. ASSUME NEW k \in Keys, ReconcileKey(k)
      PROVE  /\ \A j \in devices \cap devices' :
                   row[j].endpoint # None => row'[j].endpoint = row[j].endpoint
             /\ \A j \in devices \ devices' :
                   /\ j \notin current
                   /\ \E i \in current \cap devices' :
                         /\ Adapter(i) = Adapter(j)
                         /\ row[j].endpoint # None
                         /\ row'[i].endpoint = row[j].endpoint
  <2>1. k \in todo /\ k \in current
    BY <1>1, <1>3, Zenon DEF ReconcileKey, TypeOK
  <2>2. ASSUME NEW j \in devices \cap devices', row[j].endpoint # None
        PROVE  row'[j].endpoint = row[j].endpoint
    <3>1. j \in Keys
      BY <1>1, Zenon DEF TypeOK
    <3> QED
      BY Zenon, <1>3, <2>1, <2>2, <3>1, KeyRows
  <2>3. ASSUME NEW j \in devices \ devices', j # k
        PROVE  /\ j \notin current
               /\ Adapter(k) = Adapter(j) /\ row[j].endpoint # None
               /\ k \in devices' /\ row'[k].endpoint = row[j].endpoint
    <3>1. j \in Replaced(k)
      BY Zenon, <1>1, <1>3, <2>1, <2>3, KeyRows DEF TypeOK
    <3>2. PICK e : e = plan[k].row.endpoint
      BY Zenon
    <3>3. /\ e # None /\ Claimants(e) = {k}
          /\ \A i \in Owners(e) : Adapter(i) = Adapter(k)
          /\ j \in Owners(e) /\ j \notin current
      BY <3>1, <3>2, Zenon DEF Replaced
    <3>4. k \in devices' /\ row'[k].endpoint = e
      BY <1>3, <2>1, <3>2, <3>3, SoleClaimantWins
    <3> QED
      BY <3>3, <3>4, Zenon DEF Owners
  <2>4. k \in devices => k \in devices'
    <3>1. k \notin Replaced(k)
      BY <2>1, ReplacedRows, Zenon
    <3> QED
      BY <1>3, <3>1, Zenon DEF ReconcileKey, UpsertLocked
  <2> QED
    BY <2>1, <2>2, <2>3, <2>4, Zenon
<1>4. ASSUME NEW a \in Adapters, NEW discovered \in [Keys -> Reports],
             ReconcileBegin(a, discovered)
      PROVE  Kept
  BY <1>4, Zenon DEF ReconcileBegin
<1>5. CASE ReconcileEnd
  BY <1>1, <1>5, Zenon DEF ReconcileEnd, TypeOK, Row
<1>6. ASSUME NEW k \in devices, devices' = devices, row' = [row EXCEPT ![k].online = FALSE]
      PROVE  Kept
  BY <1>1, <1>6, Zenon DEF TypeOK, Row
<1>7. ASSUME NEW k \in Keys, MarkOffline(k)
      PROVE  Kept
  BY <1>6, <1>7, Zenon DEF MarkOffline
<1>8. ASSUME NEW i \in Ids, MarkIdOffline(i)
      PROVE  Kept
  BY <1>6, <1>8, Zenon DEF MarkIdOffline
<1> QED
  BY <1>2, <1>3, <1>4, <1>5, <1>7, <1>8, Zenon DEF Next

\* A device that stays registered keeps its Endpoint.
THEOREM BindingsNeverChange == Spec => BindingNeverChanges
<1>1. RegistryInv /\ [Next]_vars =>
         [\A k \in devices \cap devices' :
             row[k].endpoint # None => row'[k].endpoint = row[k].endpoint]_vars
  BY BoundRowStep, Zenon
<1> QED
  BY <1>1, RegistryInvariant, PTL DEF Spec, BindingNeverChanges

\* A row disappears only when a listed device of its adapter holds its Endpoint.
THEOREM ErasedOnlyBySuccessor == Spec => ErasedOnlyByItsSuccessor
<1>1. RegistryInv /\ [Next]_vars =>
         [\A k \in devices \ devices' :
             /\ k \notin current
             /\ \E j \in current \cap devices' :
                   /\ Adapter(j) = Adapter(k)
                   /\ row[k].endpoint # None
                   /\ row'[j].endpoint = row[k].endpoint]_vars
  BY BoundRowStep, Zenon
<1> QED
  BY <1>1, RegistryInvariant, PTL DEF Spec, ErasedOnlyByItsSuccessor
=============================================================================
