------------------------ MODULE LaneSchedulerProofs -------------------------
(***************************************************************************)
(* Proofs about LaneScheduler, for every set of requests, lanes and        *)
(* workers and every limit of the queue.                                   *)
(***************************************************************************)
EXTENDS LaneScheduler, SequenceTheorems, WellFoundedInduction, TLAPS

-----------------------------------------------------------------------------
(* The inductive invariant.                                                *)

RequestStates == {"new", "routed", "full", "queued", "taken", "answered", "dropped"}
WorkerStates == {"awake", "asleep", "dispatch", "calling", "release", "notify", "exited"}

TypeOK ==
    /\ pending \in Seq(Requests) /\ accepted \in Seq(Requests)
    /\ active \subseteq Lanes
    /\ server \in {"running", "joining", "stopped"}
    /\ request \in [Requests -> RequestStates]
    /\ notifying \subseteq Requests
    /\ lane \in [Requests -> Lanes \cup {None}]
    /\ worker \in [Workers -> WorkerStates]
    /\ task \in [Workers -> Requests \cup {None}]

\* The queue holds the requests that are queued, each once and with its lane, and
\* is empty unless the server runs.
QueueOK ==
    /\ \A i, j \in DOMAIN pending : pending[i] = pending[j] => i = j
    /\ \A r \in Requests : request[r] = "queued" <=> \E i \in DOMAIN pending : pending[i] = r
    /\ \A r \in Requests : request[r] # "new" => lane[r] \in Lanes
    /\ server # "running" => pending = <<>>

\* A busy worker has a request of a lane that is active because of it alone.
WorkersOK ==
    /\ \A w \in Workers : Busy(w) =>
          /\ task[w] \in Requests
          /\ request[task[w]] = IF worker[w] = "release" THEN "answered" ELSE "taken"
          /\ lane[task[w]] \in active
    /\ LaneIsExclusive
    /\ \A r \in Requests : request[r] = "taken" =>
          \E w \in Workers : Busy(w) /\ task[w] = r
    /\ server = "stopped" => AllExited /\ active = {}

\* The history holds what was accepted, each once, and the queue is in its order.
HistoryOK ==
    /\ \A i, j \in DOMAIN accepted : accepted[i] = accepted[j] => i = j
    /\ \A i \in DOMAIN accepted : request[accepted[i]] \notin {"new", "routed", "full"}
    /\ \A i, j \in DOMAIN pending : \A p, q \in DOMAIN accepted :
          i < j /\ accepted[p] = pending[i] /\ accepted[q] = pending[j] => p < q
    /\ FifoPerLane

IInv == TypeOK /\ QueueOK /\ WorkersOK /\ HistoryOK

-----------------------------------------------------------------------------
(* The operators of the queue.                                             *)

\* find_if: the first of several indexes is one of them, and none is before it.
LEMMA FirstIsLeast ==
    ASSUME NEW S, S \subseteq Nat, S # {}
    PROVE  First(S) \in S /\ \A i \in S : First(S) <= i
<1>1. PICK i \in S : \A j \in S : ~(<<j, i>> \in OpToRel(<, Nat))
  BY WFMin, NatLessThanWellFounded, Zenon
<1>2. ASSUME NEW j \in S, j < i
      PROVE  FALSE
  <2>1. <<j, i>> \in OpToRel(<, Nat)
    BY <1>2, Zenon DEF OpToRel
  <2> QED
    BY <2>1, <1>1, Zenon
<1>3. \A j \in S : i <= j
  BY <1>2
<1> QED
  BY <1>3, Zenon DEF First, Min

\* erase: the elements before the one that is erased stay, the others move up.
LEMMA RemoveAtProperties ==
    ASSUME NEW S, NEW s \in Seq(S), NEW i \in 1..Len(s)
    PROVE  /\ RemoveAt(s, i) \in Seq(S)
           /\ Len(RemoveAt(s, i)) = Len(s) - 1
           /\ \A j \in 1..(Len(s) - 1) : RemoveAt(s, i)[j] = IF j < i THEN s[j] ELSE s[j + 1]
<1> DEFINE a == SubSeq(s, 1, i - 1)
           b == SubSeq(s, i + 1, Len(s))
<1>1. /\ a \in Seq(S) /\ Len(a) = i - 1
      /\ \A j \in 1..(i - 1) : a[j] = s[j]
  <2>1. \A j \in 1..(i - 1) : s[j] \in S
    BY ElementOfSeq
  <2> QED
    BY <2>1, SubSeqProperties, SMT
<1>2. /\ b \in Seq(S) /\ Len(b) = Len(s) - i
      /\ \A j \in 1..(Len(s) - i) : b[j] = s[i + j]
  <2>1. \A j \in (i + 1)..Len(s) : s[j] \in S
    BY ElementOfSeq
  <2> QED
    BY <2>1, SubSeqProperties, SMT
<1>3. /\ a \o b \in Seq(S) /\ Len(a \o b) = Len(a) + Len(b)
      /\ \A j \in 1..(Len(a) + Len(b)) :
            (a \o b)[j] = IF j <= Len(a) THEN a[j] ELSE b[j - Len(a)]
  BY <1>1, <1>2, ConcatProperties, Zenon
<1> DEFINE c == a \o b
<1>4. c = RemoveAt(s, i)
  BY Zenon DEF RemoveAt
<1>5. /\ c \in Seq(S) /\ Len(c) = Len(a) + Len(b)
      /\ \A j \in 1..(Len(a) + Len(b)) : c[j] = IF j <= Len(a) THEN a[j] ELSE b[j - Len(a)]
  BY <1>3, Zenon
<1> HIDE DEF a, b, c
<1>6. ASSUME NEW j \in 1..(Len(s) - 1)
      PROVE  c[j] = IF j < i THEN s[j] ELSE s[j + 1]
  <2>0. /\ Len(s) \in Nat /\ i \in Nat /\ j \in Nat /\ Len(a) = i - 1 /\ Len(b) = Len(s) - i
        /\ j \in 1..(Len(a) + Len(b))
    BY <1>1, <1>2
  <2>1. CASE j < i
    <3>1. j \in 1..(i - 1) /\ j <= Len(a)
      BY <2>0, <2>1
    <3> QED
      BY <2>0, <2>1, <3>1, <1>1, <1>5, Zenon
  <2>2. CASE ~(j < i)
    <3>1. ~(j <= Len(a)) /\ j - Len(a) \in 1..(Len(s) - i) /\ i + (j - Len(a)) = j + 1
      BY <2>0, <2>2
    <3>2. c[j] = b[j - Len(a)]
      BY <2>0, <3>1, <1>5, Zenon
    <3>3. b[j - Len(a)] = s[i + (j - Len(a))]
      BY <3>1, <1>2, Zenon
    <3> QED
      BY <2>2, <3>1, <3>2, <3>3, Zenon
  <2> QED
    BY <2>1, <2>2, Zenon
<1> QED
  BY <1>1, <1>2, <1>4, <1>5, <1>6

-----------------------------------------------------------------------------
(* Every step preserves the invariant.                                     *)

\* start_worker has not been called yet.
LEMMA InitIInv == Init => IInv
BY EmptySeq DEF Init, IInv, TypeOK, QueueOK, WorkersOK, HistoryOK, LaneIsExclusive, FifoPerLane,
     Busy, AllExited, RequestStates, WorkerStates

\* Notifications only wake workers that sleep: no busy worker is disturbed.
LEMMA WokenProperties ==
    ASSUME TypeOK
    PROVE  /\ Woken(worker) \in [Workers -> WorkerStates]
           /\ \A w \in Workers : worker[w] \notin {"asleep", "awake"} =>
                                    Woken(worker)[w] = worker[w]
           /\ \A w \in Workers : worker[w] \in {"asleep", "awake"} => Woken(worker)[w] = "awake"
BY Zenon DEF TypeOK, Woken, WorkerStates

\* A step that changes neither the queue nor the requests, and the workers only
\* between states in which they are not busy, preserves the invariant.
LEMMA IdleStep ==
    ASSUME IInv,
           UNCHANGED <<pending, active, server, request, lane, task, accepted>>,
           notifying' \subseteq Requests,
           worker' \in [Workers -> WorkerStates],
           \A w \in Workers : Busy(w)' <=> Busy(w),
           \A w \in Workers : Busy(w) => (worker[w]' = "release" <=> worker[w] = "release"),
           server = "stopped" => AllExited'
    PROVE  IInv'
<1>1. TypeOK' /\ QueueOK' /\ HistoryOK'
  BY ZenonT(60) DEF IInv, TypeOK, QueueOK, HistoryOK, FifoPerLane
<1>2. WorkersOK'
  BY Zenon DEF IInv, WorkersOK, LaneIsExclusive
<1> QED
  BY <1>1, <1>2, Zenon DEF IInv

\* A request is routed once, before it can be accepted.
LEMMA RouteIInv ==
    ASSUME IInv, NEW r \in Requests, NEW l \in Lanes, Route(r, l)
    PROVE  IInv'
<1> USE DEF IInv, Route
<1>1. TypeOK'
  BY Zenon DEF TypeOK, RequestStates
<1>2. QueueOK'
  BY Zenon DEF TypeOK, QueueOK, RequestStates
<1>3. WorkersOK'
  BY DEF TypeOK, WorkersOK, Busy, LaneIsExclusive, AllExited, RequestStates
<1>4. HistoryOK'
  BY DEF TypeOK, HistoryOK, FifoPerLane, RequestStates
<1> QED
  BY <1>1, <1>2, <1>3, <1>4, Zenon

\* A request is refused, or appended to the queue and to the history.
LEMMA EnqueueIInv ==
    ASSUME IInv, NEW r \in Requests, Enqueue(r)
    PROVE  IInv'
<1> USE DEF IInv, Enqueue
<1>1. CASE Full
  <2>1. TypeOK' /\ QueueOK'
    BY <1>1 DEF TypeOK, QueueOK, RequestStates
  <2>2. WorkersOK'
    BY <1>1, SMTT(60) DEF TypeOK, WorkersOK, Busy, LaneIsExclusive, AllExited, RequestStates
  <2>3. HistoryOK'
    BY <1>1, SMTT(60) DEF TypeOK, HistoryOK, FifoPerLane, RequestStates
  <2> QED
    BY <2>1, <2>2, <2>3, Zenon
<1>2. CASE ~Full
  <2>1. /\ request[r] = "routed" /\ request' = [request EXCEPT ![r] = "queued"]
        /\ pending' = Append(pending, r) /\ accepted' = Append(accepted, r)
        /\ UNCHANGED <<active, server, lane, worker, task>>
    BY <1>2, Zenon
  <2>2. /\ pending' \in Seq(Requests) /\ accepted' \in Seq(Requests)
        /\ DOMAIN pending' = 1..(Len(pending) + 1) /\ DOMAIN pending = 1..Len(pending)
        /\ DOMAIN accepted' = 1..(Len(accepted) + 1) /\ DOMAIN accepted = 1..Len(accepted)
        /\ \A i \in DOMAIN pending : pending'[i] = pending[i]
        /\ \A i \in DOMAIN accepted : accepted'[i] = accepted[i]
        /\ pending'[Len(pending) + 1] = r /\ accepted'[Len(accepted) + 1] = r
        /\ Len(pending) \in Nat /\ Len(accepted) \in Nat
    BY <2>1, AppendProperties, LenProperties DEF TypeOK
  <2>0. TypeOK /\ QueueOK /\ HistoryOK
    BY Zenon
  <2>3. /\ \A i \in DOMAIN pending : pending[i] \in Requests /\ pending[i] # r
        /\ \A i \in DOMAIN accepted : accepted[i] \in Requests /\ accepted[i] # r
    <3> HIDE DEF IInv, Enqueue
    <3>1. \A i \in DOMAIN pending : pending[i] \in Requests
      BY <2>2, <2>0 DEF TypeOK
    <3>2. \A i \in DOMAIN accepted : accepted[i] \in Requests
      BY <2>2, <2>0 DEF TypeOK
    <3>3. \A i \in DOMAIN pending : request[pending[i]] = "queued"
      BY <3>1, <2>0, Zenon DEF QueueOK
    <3>4. \A i \in DOMAIN accepted : request[accepted[i]] # "routed"
      BY <2>0, Zenon DEF HistoryOK
    <3> QED
      BY <2>1, <3>1, <3>2, <3>3, <3>4, Zenon
  <2>4. TypeOK'
    BY <1>2, <2>2, Zenon DEF TypeOK, RequestStates
  <2>5. QueueOK'
    <3>1. \A i, j \in DOMAIN pending' : pending'[i] = pending'[j] => i = j
      BY <2>2, <2>3 DEF QueueOK
    <3>2. ASSUME NEW q \in Requests
          PROVE  request'[q] = "queued" <=> \E i \in DOMAIN pending' : pending'[i] = q
      <4>1. CASE q = r
        <5>1. request'[q] = "queued"
          BY <4>1, <2>1, Zenon DEF TypeOK
        <5>2. Len(pending) + 1 \in DOMAIN pending'
          BY <2>2
        <5> QED
          BY <4>1, <5>1, <5>2, <2>2, Zenon
      <4>2. CASE q # r
        <5>1. request'[q] = request[q]
          BY <4>2, <2>1, Zenon DEF TypeOK
        <5>2. (\E i \in DOMAIN pending' : pending'[i] = q) <=> \E i \in DOMAIN pending : pending[i] = q
          BY <4>2, <2>2
        <5> QED
          BY <5>1, <5>2, Zenon DEF QueueOK
      <4> QED
        BY <4>1, <4>2, Zenon
    <3>3. server = "running"
      BY <1>2, Zenon DEF Full, stopping
    <3>4. \A q \in Requests : request'[q] # "new" => lane'[q] \in Lanes
      BY <2>1, Zenon DEF TypeOK, QueueOK
    <3> QED
      BY <2>1, <3>1, <3>2, <3>3, <3>4, Zenon DEF QueueOK
  <2>6. WorkersOK'
    BY <2>1 DEF TypeOK, WorkersOK, Busy, LaneIsExclusive, AllExited, RequestStates
  <2>7. HistoryOK'
    <3>1. \A i, j \in DOMAIN accepted' : accepted'[i] = accepted'[j] => i = j
      BY <2>2, <2>3 DEF HistoryOK
    <3>2. \A i \in DOMAIN accepted' : request'[accepted'[i]] \notin {"new", "routed", "full"}
      <4> HIDE DEF IInv, Enqueue
      <4>1. \A q \in Requests : request'[q] = IF q = r THEN "queued" ELSE request[q]
        BY <2>1, <2>0, Zenon DEF TypeOK
      <4>2. \A i \in DOMAIN accepted' : i \in DOMAIN accepted \/ accepted'[i] = r
        BY <2>2
      <4> QED
        BY <4>1, <4>2, <2>2, <2>3, <2>0, Zenon DEF HistoryOK
    <3>3. ASSUME NEW i \in DOMAIN pending', NEW j \in DOMAIN pending',
                 NEW p \in DOMAIN accepted', NEW q \in DOMAIN accepted',
                 i < j, accepted'[p] = pending'[i], accepted'[q] = pending'[j]
          PROVE  p < q
      <4>1. i \in DOMAIN pending /\ p \in DOMAIN accepted
        BY <3>3, <2>2, <2>3
      <4>2. CASE j \in DOMAIN pending
        BY <4>1, <4>2, <3>3, <2>2, <2>3 DEF HistoryOK
      <4>3. CASE j \notin DOMAIN pending
        BY <4>1, <4>3, <3>3, <2>2, <2>3
      <4> QED
        BY <4>2, <4>3, Zenon
    <3>4. FifoPerLane'
      <4> HIDE DEF IInv, Enqueue
      <4>1. \A q \in Requests : request'[q] = IF q = r THEN "queued" ELSE request[q]
        BY <2>1, <2>0, Zenon DEF TypeOK
      <4>2. SUFFICES ASSUME NEW i \in DOMAIN accepted', NEW j \in DOMAIN accepted',
                            request'[accepted'[i]] = "queued",
                            request'[accepted'[j]] \in {"taken", "answered"},
                            lane'[accepted'[i]] = lane'[accepted'[j]]
                     PROVE  j < i
        BY Zenon DEF FifoPerLane
      <4>3. j \in DOMAIN accepted
        BY <4>1, <4>2, <2>2
      <4>4. CASE i \in DOMAIN accepted
        <5>1. /\ request[accepted[i]] = "queued"
              /\ request[accepted[j]] \in {"taken", "answered"}
              /\ lane[accepted[i]] = lane[accepted[j]]
          BY <4>1, <4>2, <4>3, <4>4, <2>1, <2>2, <2>3
        <5> QED
          BY <4>3, <4>4, <5>1, <2>0, Zenon DEF HistoryOK, FifoPerLane
      <4>5. CASE i \notin DOMAIN accepted
        BY <4>2, <4>3, <4>5, <2>2
      <4> QED
        BY <4>4, <4>5, Zenon
    <3> QED
      BY <3>1, <3>2, <3>3, <3>4, Zenon DEF HistoryOK
  <2> QED
    BY <2>4, <2>5, <2>6, <2>7, Zenon
<1> QED
  BY <1>1, <1>2, Zenon

\* The request that is taken is the first of a lane that is not active: no other
\* worker has one of that lane, and every queued one of it was accepted later.
LEMMA TakeIInv ==
    ASSUME IInv, NEW w \in Workers, Take(w)
    PROVE  IInv'
<1> DEFINE k == First(Runnable)
           r == pending[k]
<1>1. /\ k \in Runnable /\ \A i \in Runnable : k <= i
      /\ DOMAIN pending = 1..Len(pending) /\ Len(pending) \in Nat
      /\ k \in 1..Len(pending) /\ r \in Requests /\ lane[r] \notin active
  <2>1. DOMAIN pending = 1..Len(pending) /\ Len(pending) \in Nat
    BY LenProperties, Zenon DEF IInv, TypeOK
  <2>2. Runnable \subseteq Nat /\ Runnable # {}
    BY <2>1 DEF Runnable, Take
  <2>3. k \in Runnable /\ \A i \in Runnable : k <= i
    BY <2>2, FirstIsLeast, Zenon
  <2> QED
    BY <2>1, <2>3, ElementOfSeq, Zenon DEF Runnable, IInv, TypeOK
<1>2. /\ task' = [task EXCEPT ![w] = r] /\ request' = [request EXCEPT ![r] = "taken"]
      /\ active' = active \cup {lane[r]} /\ pending' = RemoveAt(pending, k)
      /\ worker[w] = "awake" /\ worker' = [worker EXCEPT ![w] = "dispatch"]
      /\ UNCHANGED <<server, notifying, lane, accepted>>
  BY Zenon DEF Take
<1>3. /\ pending' \in Seq(Requests)
      /\ DOMAIN pending' = 1..(Len(pending) - 1)
      /\ \A i \in DOMAIN pending' : pending'[i] = IF i < k THEN pending[i] ELSE pending[i + 1]
  <2>1. pending \in Seq(Requests) /\ k \in 1..Len(pending)
    BY <1>1, Zenon DEF IInv, TypeOK
  <2> HIDE DEF k
  <2>2. /\ RemoveAt(pending, k) \in Seq(Requests)
        /\ Len(RemoveAt(pending, k)) = Len(pending) - 1
        /\ \A i \in 1..(Len(pending) - 1) :
              RemoveAt(pending, k)[i] = IF i < k THEN pending[i] ELSE pending[i + 1]
    BY <2>1, RemoveAtProperties, Zenon
  <2> QED
    BY <1>2, <2>2, SMTT(60)
<1>4. request[r] = "queued" /\ lane[r] \in Lanes
  BY <1>1, Zenon DEF IInv, QueueOK
<1> HIDE DEF k, r
<1>5. TypeOK'
  BY <1>1, <1>2, <1>3, <1>4, Zenon DEF IInv, TypeOK, RequestStates, WorkerStates
<1>6. QueueOK'
  <2>1. \A i, j \in DOMAIN pending' : pending'[i] = pending'[j] => i = j
    BY <1>1, <1>3 DEF IInv, QueueOK
  <2>2. ASSUME NEW q \in Requests
        PROVE  request'[q] = "queued" <=> \E i \in DOMAIN pending' : pending'[i] = q
    <3>1. CASE q = r
      <4>1. request'[q] = "taken"
        BY <3>1, <1>1, <1>2, Zenon DEF IInv, TypeOK
      <4>2. \A i \in DOMAIN pending' : pending'[i] # q
        BY <3>1, <1>1, <1>3 DEF IInv, QueueOK, r
      <4> QED
        BY <4>1, <4>2, Zenon
    <3>2. CASE q # r
      <4>1. request'[q] = request[q]
        BY <3>2, <1>1, <1>2, Zenon DEF IInv, TypeOK
      <4>2. ASSUME NEW i \in DOMAIN pending, pending[i] = q
            PROVE  \E j \in DOMAIN pending' : pending'[j] = q
        <5>1. i # k
          BY <4>2, <3>2, Zenon DEF r
        <5>2. CASE i < k
          <6>1. i \in DOMAIN pending' /\ pending'[i] = q
            BY <5>2, <4>2, <1>1, <1>3
          <6> QED
            BY <6>1, Zenon
        <5>3. CASE i > k
          <6>1. i - 1 \in DOMAIN pending' /\ pending'[i - 1] = q
            BY <5>3, <4>2, <1>1, <1>3
          <6> QED
            BY <6>1, Zenon
        <5> QED
          BY <5>1, <5>2, <5>3, <1>1
      <4>3. ASSUME NEW j \in DOMAIN pending', pending'[j] = q
            PROVE  \E i \in DOMAIN pending : pending[i] = q
        BY <4>3, <1>1, <1>3
      <4> QED
        BY <4>1, <4>2, <4>3, Zenon DEF IInv, QueueOK
    <3> QED
      BY <3>1, <3>2, Zenon
  <2>3. \A q \in Requests : request'[q] # "new" => lane'[q] \in Lanes
    BY <1>1, <1>2, <1>4, Zenon DEF IInv, TypeOK, QueueOK
  <2>4. server = "running"
    BY <1>1 DEF IInv, QueueOK
  <2> QED
    BY <2>1, <2>2, <2>3, <2>4, <1>2, Zenon DEF QueueOK
<1>7. WorkersOK'
  <2>1. /\ \A v \in Workers \ {w} : worker'[v] = worker[v] /\ task'[v] = task[v]
        /\ worker'[w] = "dispatch" /\ task'[w] = r
        /\ \A q \in Requests \ {r} : request'[q] = request[q]
        /\ request'[r] = "taken"
    BY <1>1, <1>2, Zenon DEF IInv, TypeOK
  <2>2. ASSUME NEW v \in Workers, Busy(v)
        PROVE  v # w /\ task[v] # r /\ lane[task[v]] # lane[r]
    BY <2>2, <1>1, <1>2, Zenon DEF Busy, IInv, WorkersOK
  <2>3. ASSUME NEW v \in Workers, Busy(v)'
        PROVE  /\ task'[v] \in Requests
               /\ request'[task'[v]] = IF worker'[v] = "release" THEN "answered" ELSE "taken"
               /\ lane'[task'[v]] \in active'
    <3>1. CASE v = w
      BY <3>1, <2>1, <1>1, <1>2, Zenon
    <3>2. CASE v # w
      <4>1. Busy(v)
        BY <3>2, <2>3, <2>1, Zenon DEF Busy
      <4> QED
        BY <4>1, <3>2, <2>1, <2>2, <1>2 DEF IInv, WorkersOK
    <3> QED
      BY <3>1, <3>2, Zenon
  <2>4. LaneIsExclusive'
    BY <2>1, <2>2, <1>2 DEF LaneIsExclusive, Busy, IInv, WorkersOK
  <2>5. ASSUME NEW q \in Requests, request'[q] = "taken"
        PROVE  \E v \in Workers : Busy(v)' /\ task'[v] = q
    <3>1. CASE q = r
      BY <3>1, <2>1, Zenon DEF Busy
    <3>2. CASE q # r
      <4>1. PICK v \in Workers : Busy(v) /\ task[v] = q
        BY <3>2, <2>1, <2>5, Zenon DEF IInv, WorkersOK
      <4>2. v # w
        BY <4>1, <2>2, Zenon
      <4> QED
        BY <4>1, <4>2, <2>1, Zenon DEF Busy
    <3> QED
      BY <3>1, <3>2, Zenon
  <2>6. server = "running"
    BY <1>1 DEF IInv, QueueOK
  <2> QED
    BY <2>3, <2>4, <2>5, <2>6, <1>2, Zenon DEF WorkersOK
<1>8. HistoryOK'
  <2>1. /\ DOMAIN accepted = 1..Len(accepted) /\ Len(accepted) \in Nat
        /\ \A i \in DOMAIN accepted : accepted[i] \in Requests
    BY LenProperties, ElementOfSeq, Zenon DEF IInv, TypeOK
  <2>2. \A i \in DOMAIN accepted' : request'[accepted'[i]] \notin {"new", "routed", "full"}
    BY <2>1, <1>1, <1>2, Zenon DEF IInv, TypeOK, HistoryOK
  <2>3. ASSUME NEW i \in DOMAIN pending', NEW j \in DOMAIN pending',
               NEW p \in DOMAIN accepted', NEW q \in DOMAIN accepted',
               i < j, accepted'[p] = pending'[i], accepted'[q] = pending'[j]
        PROVE  p < q
    <3> DEFINE before(n) == IF n < k THEN n ELSE n + 1
    <3>1. /\ before(i) \in DOMAIN pending /\ before(j) \in DOMAIN pending /\ before(i) < before(j)
          /\ pending'[i] = pending[before(i)] /\ pending'[j] = pending[before(j)]
      BY <2>3, <1>1, <1>3
    <3> HIDE DEF before
    <3> QED
      BY <3>1, <2>3, <1>2, ZenonT(60) DEF IInv, HistoryOK
  <2>4. ASSUME NEW i \in DOMAIN accepted, NEW j \in DOMAIN accepted,
               request'[accepted[i]] = "queued",
               request'[accepted[j]] \in {"taken", "answered"},
               lane[accepted[i]] = lane[accepted[j]]
        PROVE  j < i
    <3>1. accepted[i] # r /\ request[accepted[i]] = "queued"
      BY <2>4, <2>1, <1>1, <1>2, Zenon DEF IInv, TypeOK
    <3>2. CASE accepted[j] = r
      <4>1. PICK n \in DOMAIN pending : pending[n] = accepted[i]
        BY <3>1, <2>1, Zenon DEF IInv, QueueOK
      <4>2. n \in Runnable /\ n # k
        BY <4>1, <3>1, <3>2, <2>4, <1>1, Zenon DEF Runnable, r
      <4>3. k < n /\ k \in DOMAIN pending /\ pending[k] = accepted[j]
        BY <4>2, <1>1, <3>2 DEF r
      <4> QED
        BY <4>1, <4>3, Zenon DEF IInv, HistoryOK
    <3>3. CASE accepted[j] # r
      <4>1. request[accepted[j]] \in {"taken", "answered"}
        BY <3>3, <2>4, <2>1, <1>1, <1>2, Zenon DEF IInv, TypeOK
      <4> QED
        BY <4>1, <3>1, <2>4, Zenon DEF IInv, HistoryOK, FifoPerLane
    <3> QED
      BY <3>2, <3>3, Zenon
  <2>5. FifoPerLane'
    BY <2>4, <1>2 DEF FifoPerLane
  <2> QED
    BY <2>2, <2>3, <2>5, <1>2, ZenonT(60) DEF HistoryOK, IInv
<1> QED
  BY <1>5, <1>6, <1>7, <1>8, Zenon DEF IInv

\* Waking, going to sleep, leaving and beginning a call keep what a worker has.
LEMMA WorkerIInv ==
    ASSUME IInv, NEW w \in Workers,
           Sleep(w) \/ Exit(w) \/ Dispatch(w) \/ NotifyReleased(w)
    PROVE  IInv'
<1> USE DEF IInv, TypeOK, WorkersOK, AllExited, Busy, WorkerStates
<1>1. CASE Sleep(w)
  BY <1>1, IdleStep, Zenon DEF Sleep
<1>2. CASE Exit(w)
  BY <1>2, IdleStep, Zenon DEF Exit
<1>3. CASE Dispatch(w)
  BY <1>3, IdleStep, Zenon DEF Dispatch
<1>4. CASE NotifyReleased(w)
  <2>1. /\ worker[w] = "notify" /\ worker' = [Woken(worker) EXCEPT ![w] = "awake"]
        /\ UNCHANGED <<pending, active, server, request, lane, task, accepted, notifying>>
    BY <1>4, Zenon DEF NotifyReleased
  <2>2. \A v \in Workers : Busy(v)' <=> Busy(v)
    BY <2>1, WokenProperties
  <2>3. \A v \in Workers : Busy(v) => (worker'[v] = "release" <=> worker[v] = "release")
    BY <2>1, WokenProperties, Zenon
  <2>4. worker' \in [Workers -> WorkerStates]
    BY <2>1, WokenProperties, Zenon
  <2> QED
    BY <2>1, <2>2, <2>3, <2>4, IdleStep, Zenon
<1> QED
  BY <1>1, <1>2, <1>3, <1>4, Zenon

\* The notification of a connection thread only wakes workers.
LEMMA NotifyIInv ==
    ASSUME IInv, NEW r \in Requests, NotifyEnqueued(r)
    PROVE  IInv'
<1>1. /\ worker' = Woken(worker) /\ notifying' \subseteq Requests
      /\ UNCHANGED <<pending, active, server, request, lane, task, accepted>>
  BY Zenon DEF NotifyEnqueued, IInv, TypeOK
<1>2. /\ \A v \in Workers : Busy(v)' <=> Busy(v)
      /\ \A v \in Workers : Busy(v) => (worker'[v] = "release" <=> worker[v] = "release")
      /\ worker' \in [Workers -> WorkerStates]
  BY <1>1, WokenProperties, Zenon DEF IInv, TypeOK, Busy, WorkerStates
<1>3. server = "stopped" => AllExited'
  BY <1>1, WokenProperties, Zenon DEF IInv, WorkersOK, AllExited
<1> QED
  BY <1>1, <1>2, <1>3, IdleStep, Zenon

\* The call of one worker returns; the others have requests of other lanes.
LEMMA AnswerIInv ==
    ASSUME IInv, NEW w \in Workers, Answer(w)
    PROVE  IInv'
<1>1. /\ worker[w] = "calling" /\ worker' = [worker EXCEPT ![w] = "release"]
      /\ request' = [request EXCEPT ![task[w]] = "answered"]
      /\ UNCHANGED <<pending, active, server, notifying, lane, task, accepted>>
      /\ task[w] \in Requests /\ request[task[w]] = "taken"
  BY Zenon DEF Answer, IInv, WorkersOK, Busy
<1>2. \A v \in Workers : Busy(v) /\ v # w => task[v] # task[w]
  BY <1>1, Zenon DEF IInv, WorkersOK, LaneIsExclusive, Busy
<1>3. TypeOK' /\ QueueOK'
  BY <1>1, Zenon DEF IInv, TypeOK, QueueOK, RequestStates, WorkerStates
<1>4. HistoryOK'
  BY <1>1 DEF IInv, TypeOK, HistoryOK, FifoPerLane
<1>5. WorkersOK'
  <2>1. \A v \in Workers : Busy(v)' <=> Busy(v)
    BY <1>1, Zenon DEF IInv, TypeOK, Busy
  <2>2. ASSUME NEW v \in Workers, Busy(v)'
        PROVE  /\ task'[v] \in Requests
               /\ request'[task'[v]] = IF worker'[v] = "release" THEN "answered" ELSE "taken"
               /\ lane'[task'[v]] \in active'
    BY <2>1, <2>2, <1>1, <1>2, Zenon DEF IInv, TypeOK, WorkersOK
  <2>3. LaneIsExclusive'
    BY <2>1, <1>1, Zenon DEF IInv, WorkersOK, LaneIsExclusive
  <2>4. ASSUME NEW q \in Requests, request'[q] = "taken"
        PROVE  \E v \in Workers : Busy(v)' /\ task'[v] = q
    <3>1. request[q] = "taken"
      BY <2>4, <1>1, Zenon DEF IInv, TypeOK
    <3>2. PICK v \in Workers : Busy(v) /\ task[v] = q
      BY <3>1, Zenon DEF IInv, WorkersOK
    <3> QED
      BY <3>2, <2>1, <1>1, Zenon
  <2>5. server # "stopped"
    BY <1>1, Zenon DEF IInv, WorkersOK, AllExited
  <2> QED
    BY <2>2, <2>3, <2>4, <2>5, <1>1, Zenon DEF WorkersOK
<1> QED
  BY <1>3, <1>4, <1>5, Zenon DEF IInv

\* The lane that is freed is that of no other worker.
LEMMA ReleaseIInv ==
    ASSUME IInv, NEW w \in Workers, Release(w)
    PROVE  IInv'
<1>1. /\ worker[w] = "release" /\ worker' = [worker EXCEPT ![w] = "notify"]
      /\ active' = active \ {lane[task[w]]} /\ task' = [task EXCEPT ![w] = None]
      /\ UNCHANGED <<pending, server, request, notifying, lane, accepted>>
      /\ task[w] \in Requests /\ request[task[w]] = "answered"
  BY Zenon DEF Release, IInv, WorkersOK, Busy
<1>2. /\ \A v \in Workers : v # w => (Busy(v)' <=> Busy(v)) /\ worker'[v] = worker[v]
                                    /\ task'[v] = task[v]
      /\ ~Busy(w)'
      /\ \A v \in Workers : Busy(v) /\ v # w => lane[task[v]] # lane[task[w]]
  BY <1>1, Zenon DEF IInv, TypeOK, WorkersOK, LaneIsExclusive, Busy
<1>3. TypeOK' /\ QueueOK' /\ HistoryOK'
  BY <1>1 DEF IInv, TypeOK, QueueOK, HistoryOK, FifoPerLane, WorkerStates
<1>4. WorkersOK'
  <2>1. ASSUME NEW v \in Workers, Busy(v)'
        PROVE  /\ task'[v] \in Requests
               /\ request'[task'[v]] = IF worker'[v] = "release" THEN "answered" ELSE "taken"
               /\ lane'[task'[v]] \in active'
    BY <2>1, <1>1, <1>2 DEF IInv, WorkersOK
  <2>2. LaneIsExclusive'
    BY <1>1, <1>2 DEF IInv, WorkersOK, LaneIsExclusive
  <2>3. ASSUME NEW q \in Requests, request'[q] = "taken"
        PROVE  \E v \in Workers : Busy(v)' /\ task'[v] = q
    <3>1. PICK v \in Workers : Busy(v) /\ task[v] = q
      BY <2>3, <1>1, Zenon DEF IInv, WorkersOK
    <3> QED
      BY <3>1, <2>3, <1>1, <1>2, Zenon
  <2>4. server # "stopped"
    BY <1>1, Zenon DEF IInv, WorkersOK, AllExited
  <2> QED
    BY <2>1, <2>2, <2>3, <2>4, <1>1, Zenon DEF WorkersOK
<1> QED
  BY <1>3, <1>4, Zenon DEF IInv

\* start() creates the workers of a server that has none.
LEMMA StartIInv ==
    ASSUME IInv, StartWorkers
    PROVE  IInv'
<1>1. /\ server = "stopped" /\ server' = "running" /\ worker' = [w \in Workers |-> "awake"]
      /\ UNCHANGED <<pending, active, request, notifying, lane, task, accepted>>
      /\ \A w \in Workers : ~Busy(w) /\ ~Busy(w)'
  BY Zenon DEF StartWorkers, IInv, WorkersOK, AllExited, Busy
<1>2. TypeOK' /\ QueueOK' /\ HistoryOK'
  BY <1>1 DEF IInv, TypeOK, QueueOK, HistoryOK, FifoPerLane, WorkerStates
<1>3. WorkersOK'
  BY <1>1, Zenon DEF IInv, WorkersOK, LaneIsExclusive
<1> QED
  BY <1>2, <1>3, Zenon DEF IInv

\* stop() drops what is queued, and nothing that a worker has.
LEMMA StopIInv ==
    ASSUME IInv, StopWorkers
    PROVE  IInv'
<1>1. /\ server = "running" /\ server' = "joining" /\ pending' = <<>>
      /\ request' = [r \in Requests |-> IF r \in Range(pending) THEN "dropped" ELSE request[r]]
      /\ worker' = Woken(worker)
      /\ UNCHANGED <<active, notifying, lane, task, accepted>>
  BY Zenon DEF StopWorkers
<1>2. \A r \in Requests : r \in Range(pending) <=> request[r] = "queued"
  BY DEF IInv, QueueOK, Range
<1>3. \A r \in Requests : request'[r] = IF request[r] = "queued" THEN "dropped" ELSE request[r]
  BY <1>1, <1>2, Zenon
<1>4. /\ \A v \in Workers : Busy(v)' <=> Busy(v)
      /\ \A v \in Workers : Busy(v) => (worker'[v] = "release" <=> worker[v] = "release")
      /\ worker' \in [Workers -> WorkerStates]
  BY <1>1, WokenProperties, Zenon DEF IInv, TypeOK, Busy, WorkerStates
<1>5. TypeOK'
  BY <1>1, <1>4 DEF IInv, TypeOK, RequestStates
<1>6. QueueOK'
  <2>1. DOMAIN pending' = {}
    BY <1>1
  <2> QED
    BY <2>1, <1>1, <1>3, Zenon DEF IInv, QueueOK
<1>7. WorkersOK'
  <2>1. ASSUME NEW v \in Workers, Busy(v)'
        PROVE  /\ task'[v] \in Requests
               /\ request'[task'[v]] = IF worker'[v] = "release" THEN "answered" ELSE "taken"
               /\ lane'[task'[v]] \in active'
    BY <2>1, <1>1, <1>3, <1>4, Zenon DEF IInv, WorkersOK
  <2>2. LaneIsExclusive'
    BY <1>1, <1>4, Zenon DEF IInv, WorkersOK, LaneIsExclusive
  <2>3. ASSUME NEW q \in Requests, request'[q] = "taken"
        PROVE  \E v \in Workers : Busy(v)' /\ task'[v] = q
    BY <2>3, <1>1, <1>3, <1>4, Zenon DEF IInv, WorkersOK
  <2> QED
    BY <2>1, <2>2, <2>3, <1>1, Zenon DEF WorkersOK
<1>8. HistoryOK'
  <2>1. DOMAIN pending' = {} /\ \A i \in DOMAIN accepted : accepted[i] \in Requests
    BY <1>1, LenProperties, ElementOfSeq DEF IInv, TypeOK
  <2> QED
    BY <2>1, <1>1, <1>3, Zenon DEF IInv, HistoryOK, FifoPerLane
<1> QED
  BY <1>5, <1>6, <1>7, <1>8, Zenon DEF IInv

\* When every worker has left, none holds a lane and none has a request.
LEMMA JoinIInv ==
    ASSUME IInv, JoinWorkers
    PROVE  IInv'
<1>1. /\ AllExited /\ server = "joining" /\ server' = "stopped" /\ active' = {}
      /\ UNCHANGED <<pending, request, notifying, lane, worker, task, accepted>>
      /\ \A w \in Workers : ~Busy(w) /\ ~Busy(w)'
  BY Zenon DEF JoinWorkers, AllExited, Busy
<1>2. TypeOK' /\ QueueOK' /\ HistoryOK'
  BY <1>1, ZenonT(60) DEF IInv, TypeOK, QueueOK, HistoryOK, FifoPerLane
<1>3. WorkersOK'
  BY <1>1, Zenon DEF IInv, WorkersOK, LaneIsExclusive, AllExited
<1> QED
  BY <1>2, <1>3, Zenon DEF IInv

-----------------------------------------------------------------------------
(* The theorems.                                                           *)

\* The queue, the workers, the active lanes and the history agree in every
\* reachable state of the request queue.
THEOREM LaneInvariant == Spec => []IInv
<1>1. ASSUME IInv, [Next]_vars
      PROVE  IInv'
  <2>1. CASE UNCHANGED vars
    BY <1>1, <2>1 DEF vars, IInv, TypeOK, QueueOK, WorkersOK, HistoryOK, LaneIsExclusive,
                      FifoPerLane, AllExited, Busy
  <2>2. CASE Next
    BY <1>1, <2>2, RouteIInv, EnqueueIInv, NotifyIInv, TakeIInv, WorkerIInv, AnswerIInv,
       ReleaseIInv, StartIInv, StopIInv, JoinIInv, Zenon DEF Next, Step
  <2> QED
    BY <1>1, <2>1, <2>2, Zenon
<1> QED
  BY <1>1, InitIInv, PTL DEF Spec

\* Two workers never execute requests of the same lane, for any number of workers,
\* lanes and requests and across every restart of the server.
THEOREM LanesAreExclusive == Spec => []LaneIsExclusive
<1>1. IInv => LaneIsExclusive
  BY Zenon DEF IInv, WorkersOK
<1> QED
  BY <1>1, LaneInvariant, PTL

\* The requests of a lane start in the order in which they were accepted.
THEOREM LanesAreFifo == Spec => []FifoPerLane
<1>1. IInv => FifoPerLane
  BY Zenon DEF IInv, HistoryOK
<1> QED
  BY <1>1, LaneInvariant, PTL

\* When stop() has returned no lane is active and no accepted request is left half
\* done: a queued one would be in the queue, a taken one with a worker.
THEOREM StopIsComplete == Spec => []StopLeavesNothingBehind
<1>1. ASSUME IInv, server = "stopped"
      PROVE  active = {} /\ \A r \in Requests : request[r] \notin {"queued", "taken"}
  <2>1. active = {} /\ AllExited /\ DOMAIN pending = {}
    BY <1>1 DEF IInv, WorkersOK, QueueOK
  <2>2. \A w \in Workers : ~Busy(w)
    BY <2>1, Zenon DEF AllExited, Busy
  <2> QED
    BY <1>1, <2>1, <2>2, Zenon DEF IInv, WorkersOK, QueueOK
<1>2. IInv => StopLeavesNothingBehind
  BY <1>1, Zenon DEF StopLeavesNothingBehind
<1> QED
  BY <1>2, LaneInvariant, PTL

=============================================================================
