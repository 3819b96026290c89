------------------------ MODULE AdapterSessionProofs ------------------------
(***************************************************************************)
(* Proofs about AdapterSession, for every set of calls, queue limit and    *)
(* failure threshold: the pump owns an open session, the calls are sent in *)
(* the order of their acceptance, and a destroyed leaf owes no result.     *)
(***************************************************************************)
EXTENDS AdapterSession, FiniteSetTheorems, NaturalsInduction, WellFoundedInduction,
        TLAPS

Labels ==
    {"idle", "want", "ready", "stamped", "waiting", "returned", "join", "handshake",
     "opened", "failed", "check", "recover", "lock", "joinOld", "drain", "verify",
     "backoff", "exited", "fence", "cancel", "forget", "unbind", "joinPump",
     "erase", "destroy", "lastAdvance", "lastCancel", "lastUnbind", "stopWorker",
     "joinWorker", "joinLast", "gone"}

Results == {"none", "pending", "ready"}

TypeOK ==
    /\ pending \in Seq(Calls)
    /\ inFlight \in Calls \cup {NoCall}
    /\ result \in [Calls -> Results]
    /\ pc \in [Threads -> Labels]
    /\ erasing \subseteq Calls
    /\ accepted \in Seq(Calls)
    /\ sent \in Seq(Calls)

\* session_mutex_ protects the life of the physical session: who opens one has
\* found none, and who stops or replaces the pump holds the mutex.
SessionOK ==
    /\ PumpOwnsAnOpenSession
    /\ \A t \in Openers : pc[t] \in {"join", "handshake"} => holder = t /\ ~open
    /\ pc["worker"] = "joinOld" => holder = "worker"
    /\ pc["reset"] = "joinPump" => holder = "reset"

Handed == {"waiting", "returned"}
Serving == {"check", "calling", "clear"}
Drained == {"lastUnbind", "stopWorker", "joinWorker", "joinLast", "gone"}
Destroying == {"lastAdvance", "lastCancel", "lastUnbind", "stopWorker", "joinWorker",
               "joinLast", "gone"}

\* An operation without a result is in the queue or in flight.  The pump forgets
\* the call in flight only when it has its result, and a cancelled call has one.  The
\* destructor refuses calls before it drains the queue, so from the drain on the leaf
\* owes no result.
ResultOK ==
    /\ \A c \in Calls : result[c] = "pending" => c \in ToSet(pending) \cup {inFlight}
    /\ \A c \in Calls : result[c] # "none" => pc[c] \in Handed
    /\ \A c \in ToSet(pending) \cup ToSet(accepted) : result[c] # "none"
    /\ \A c \in erasing : result[c] = "ready"
    /\ pump \in Serving => inFlight \in Calls /\ result[inFlight] # "none"
    /\ pump \notin Serving => inFlight = NoCall
    /\ pump = "clear" => result[inFlight] = "ready"
    /\ pc["reset"] \in Destroying => ~accepting
    /\ pc["reset"] \in Drained => \A c \in Calls : result[c] # "pending"

Before(c, d) ==
    \E i, j \in 1..Len(accepted) : i < j /\ accepted[i] = c /\ accepted[j] = d

\* What was sent, what the pump is about to send and what is queued follow each
\* other in the order of acceptance, in which no call occurs twice.
AcceptedOnce ==
    \A i, j \in 1..Len(accepted) : accepted[i] = accepted[j] => i = j

OnlyAccepted == ToSet(sent) \cup ToSet(pending) \subseteq ToSet(accepted)

SentInOrder ==
    \A i, j \in 1..Len(sent) : i < j => Before(sent[i], sent[j])

SentFirst ==
    \A i \in 1..Len(sent), j \in 1..Len(pending) : Before(sent[i], pending[j])

QueuedInOrder ==
    \A i, j \in 1..Len(pending) : i < j => Before(pending[i], pending[j])

TakenBetween ==
    pump = "check" =>
        /\ inFlight \in ToSet(accepted)
        /\ \A i \in 1..Len(sent) : Before(sent[i], inFlight)
        /\ \A j \in 1..Len(pending) : Before(inFlight, pending[j])

OrderOK == /\ AcceptedOnce /\ OnlyAccepted
           /\ SentInOrder /\ SentFirst /\ QueuedInOrder /\ TakenBetween

IInv == TypeOK /\ SessionOK /\ ResultOK /\ OrderOK

-----------------------------------------------------------------------------
(* The operators of the queue.                                             *)

\* A set of natural numbers has a least element.
LEMMA LeastExists ==
    ASSUME NEW S, S \subseteq Nat, S # {}
    PROVE  \E i \in S : \A j \in S : i <= j
<1>1. PICK i \in S : \A j \in S : ~(<<j, i>> \in OpToRel(<, Nat))
  BY WFMin, NatLessThanWellFounded, Zenon
<1>2. ASSUME NEW j \in S, j < i
      PROVE  FALSE
  <2>1. <<j, i>> \in OpToRel(<, Nat)
    BY <1>2 DEF OpToRel
  <2> QED
    BY <2>1, <1>1
<1> QED
  BY <1>2

\* SelectInSeq on the queue: the first call without a result, if there is one.
LEMMA PoppedProperties ==
    ASSUME TypeOK
    PROVE  /\ Popped \in 0..Len(pending)
           /\ Popped # 0 => result[pending[Popped]] = "pending"
           /\ \A i \in 1..Len(pending) :
                 Popped = 0 \/ i < Popped => result[pending[i]] # "pending"
<1> DEFINE I == {i \in 1..Len(pending) : result[pending[i]] = "pending"}
           least == CHOOSE i \in I : \A j \in I : i <= j
<1>1. Popped = IF I # {} THEN least ELSE 0
  BY DEF Popped, SelectInSeq
<1>2. I \subseteq 1..Len(pending) /\ I \subseteq Nat /\ Len(pending) \in Nat
  BY DEF TypeOK
<1>4. \A i \in 1..Len(pending) : i \in I <=> result[pending[i]] = "pending"
  OBVIOUS
<1> HIDE DEF I
<1>3. ASSUME I # {}
      PROVE  least \in I /\ \A j \in I : least <= j
  <2>1. \E i \in I : \A j \in I : i <= j
    BY <1>2, <1>3, LeastExists, Zenon
  <2> QED
    BY <2>1
<1>5. CASE I = {}
  BY <1>1, <1>2, <1>4, <1>5
<1>6. CASE I # {}
  <2>1. Popped \in I /\ \A j \in I : Popped <= j
    BY <1>1, <1>3, <1>6
  <2>2. Popped \in 1..Len(pending) /\ result[pending[Popped]] = "pending"
    BY <2>1, <1>2, <1>4
  <2> QED
    BY <2>1, <2>2, <1>2, <1>4
<1> QED
  BY <1>5, <1>6

\* SelectInSeq on the history, in which no call occurs twice: where the call is.
LEMMA RankProperty ==
    ASSUME NEW s \in Seq(Calls), NEW i \in 1..Len(s),
           \A k, j \in 1..Len(s) : s[k] = s[j] => k = j
    PROVE  SelectInSeq(s, LAMBDA d : d = s[i]) = i
<1> DEFINE I == {k \in 1..Len(s) : s[k] = s[i]}
           least == CHOOSE k \in I : \A j \in I : k <= j
<1>1. I = {i}
  OBVIOUS
<1>2. least = i
  BY <1>1
<1> QED
  BY <1>1, <1>2 DEF SelectInSeq

\* f tells where in q the elements of its part r are: in the same order, all in S,
\* and every element of q that is in S is there.
Embeds(f, r, q, S) ==
    /\ f \in [1..Len(r) -> 1..Len(q)]
    /\ \A m, n \in 1..Len(r) : m < n => f[m] < f[n]
    /\ \A n \in 1..Len(r) : r[n] = q[f[n]] /\ q[f[n]] \in S
    /\ \A i \in 1..Len(q) : q[i] \in S => \E n \in 1..Len(r) : f[n] = i

\* What erase() leaves of a queue is a part of it in the same order: it has every
\* call that is kept and no other.
LEMMA KeptProperties ==
    ASSUME NEW X, NEW q \in Seq(X), NEW S
    PROVE  Kept(q, S) \in Seq(X) /\ \E f : Embeds(f, Kept(q, S), q, S)
<1> DEFINE K == {i \in DOMAIN q : q[i] \in S}
           upTo(i) == {j \in K : j <= i}
           N == Cardinality(K)
           f == [n \in 1..N |-> CHOOSE i \in K : Cardinality(upTo(i)) = n]
<1>1. DOMAIN q = 1..Len(q) /\ Len(q) \in Nat /\ K \subseteq 1..Len(q)
  OBVIOUS
<1>2. IsFiniteSet(K) /\ N \in Nat
  <2>1. IsFiniteSet(1..Len(q))
    BY <1>1, FS_Interval
  <2> QED
    BY <1>1, <2>1, FS_Subset, FS_CardinalityType
<1>3. ASSUME NEW i
      PROVE  /\ IsFiniteSet(upTo(i)) /\ Cardinality(upTo(i)) \in Nat
             /\ Cardinality(upTo(i)) <= N
  <2>1. upTo(i) \in SUBSET K
    OBVIOUS
  <2> HIDE DEF K, upTo
  <2> QED
    BY <2>1, <1>2, FS_Subset, FS_CardinalityType
<1>4. ASSUME NEW i \in K, NEW j \in K, i < j
      PROVE  Cardinality(upTo(i)) < Cardinality(upTo(j))
  <2>1. upTo(i) \in SUBSET upTo(j) /\ j \in upTo(j) /\ j \notin upTo(i)
    BY <1>1, <1>4
  <2> HIDE DEF K, upTo
  <2>2. /\ Cardinality(upTo(i)) <= Cardinality(upTo(j))
        /\ Cardinality(upTo(j)) # Cardinality(upTo(i))
    BY <2>1, <1>3, FS_Subset
  <2> QED
    BY <2>2, <1>3
<1>5. ASSUME NEW n \in 1..N
      PROVE  \E i \in K : Cardinality(upTo(i)) = n
  <2> DEFINE T == {i \in 0..Len(q) : Cardinality(upTo(i)) >= n}
  <2>1. upTo(Len(q)) = K /\ upTo(0) = {}
    BY <1>1
  <2>2. ASSUME NEW i \in 1..Len(q)
        PROVE  /\ i \notin K => upTo(i) = upTo(i - 1)
               /\ i \in K => upTo(i) = upTo(i - 1) \cup {i} /\ i \notin upTo(i - 1)
    BY <1>1
  <2> HIDE DEF K, upTo
  <2>3. Cardinality(upTo(Len(q))) = N /\ Cardinality(upTo(0)) = 0
    BY <2>1, FS_EmptySet, Zenon
  <2>4. ASSUME NEW i \in 1..Len(q)
        PROVE  /\ i \notin K => Cardinality(upTo(i)) = Cardinality(upTo(i - 1))
               /\ i \in K => Cardinality(upTo(i)) = Cardinality(upTo(i - 1)) + 1
    <3>1. /\ IsFiniteSet(upTo(i - 1) \cup {i})
          /\ Cardinality(upTo(i - 1) \cup {i}) =
                IF i \in upTo(i - 1) THEN Cardinality(upTo(i - 1))
                ELSE Cardinality(upTo(i - 1)) + 1
      BY <1>3, FS_AddElement, Zenon
    <3> QED
      BY <2>2, <3>1, Zenon
  <2> HIDE DEF N
  <2>5. Len(q) \in T /\ T \subseteq Nat
    BY <2>3, <1>1, <1>2
  <2>6. \A i \in 0..Len(q) : i \in T <=> Cardinality(upTo(i)) >= n
    OBVIOUS
  <2>7. T \subseteq 0..Len(q)
    OBVIOUS
  <2> HIDE DEF T
  <2>8. PICK i \in T : \A j \in T : i <= j
    BY <2>5, LeastExists, Zenon
  <2>9. i \in 1..Len(q) /\ i - 1 \in 0..Len(q) /\ i - 1 \notin T
    BY <2>3, <2>6, <2>7, <2>8, <1>1
  <2>10. Cardinality(upTo(i - 1)) < n /\ Cardinality(upTo(i)) >= n
    BY <2>6, <2>7, <2>8, <2>9, <1>3
  <2> QED
    BY <2>4, <2>9, <2>10, <1>3
<1>6. ASSUME NEW n \in 1..N
      PROVE  f[n] \in K /\ Cardinality(upTo(f[n])) = n
  BY <1>5, <1>6, Zenon
<1>7. Kept(q, S) = [n \in 1..N |-> q[f[n]]]
  BY DEF Kept
<1> HIDE DEF K, upTo, N, f
<1>8. f \in [1..N -> 1..Len(q)]
  BY <1>6, <1>1, Zenon DEF f
<1>9. Kept(q, S) \in Seq(X) /\ Len(Kept(q, S)) = N
  BY <1>7, <1>8, <1>2
<1>10. \A m, n \in 1..N : m < n => f[m] < f[n]
  <2>1. SUFFICES ASSUME NEW m \in 1..N, NEW n \in 1..N, m < n, ~(f[m] < f[n])
                 PROVE  FALSE
    OBVIOUS
  <2>2. f[n] = f[m] \/ f[n] < f[m]
    BY <2>1, <1>8, <1>1
  <2> QED
    BY <2>1, <2>2, <1>2, <1>4, <1>6
<1>11. \A n \in 1..N : Kept(q, S)[n] = q[f[n]] /\ q[f[n]] \in S
  BY <1>6, <1>7 DEF K
<1>12. ASSUME NEW i \in 1..Len(q), q[i] \in S
       PROVE  \E n \in 1..N : f[n] = i
  <2>1. i \in K
    BY <1>12, <1>1 DEF K
  <2>2. i \in upTo(i)
    BY <2>1, <1>1 DEF upTo
  <2>3. Cardinality(upTo(i)) \in 1..N
    BY <2>2, <1>2, <1>3, FS_EmptySet
  <2>4. f[Cardinality(upTo(i))] \in K
        /\ Cardinality(upTo(f[Cardinality(upTo(i))])) = Cardinality(upTo(i))
    BY <2>3, <1>6
  <2>5. ASSUME NEW j \in K, Cardinality(upTo(j)) = Cardinality(upTo(i))
        PROVE  j = i
    <3>1. i \in Nat /\ j \in Nat
      BY <2>1, <1>1
    <3>2. ~(i < j) /\ ~(j < i)
      BY <2>1, <2>5, <1>3, <1>4
    <3> QED
      BY <3>1, <3>2
  <2> QED
    BY <2>3, <2>4, <2>5
<1> QED
  BY <1>8, <1>9, <1>10, <1>11, <1>12, Zenon DEF Embeds

-----------------------------------------------------------------------------
(* What the steps do to the queue                                          *)

\* The queue is a part of what it was, in the same order.
Part(queue) ==
    \E f \in [1..Len(queue) -> 1..Len(pending)] :
        /\ \A m, n \in 1..Len(queue) : m < n => f[m] < f[n]
        /\ \A n \in 1..Len(queue) : queue[n] = pending[f[n]]

\* The queue has become shorter, operations have got their results, and none that
\* still has none was dropped.
Shrinks ==
    /\ pending' \in Seq(Calls)
    /\ result' \in [Calls -> Results]
    /\ Part(pending')
    /\ ToSet(pending') \subseteq ToSet(pending)
    /\ \A c \in Calls : \/ result'[c] = result[c]
                        \/ result[c] = "pending" /\ result'[c] = "ready"
    /\ \A c \in ToSet(pending) : result'[c] = "pending" => c \in ToSet(pending')

\* Kept gives a part of the queue.
LEMMA KeptIsPart ==
    ASSUME TypeOK, NEW S
    PROVE  /\ Kept(pending, S) \in Seq(Calls)
           /\ Part(Kept(pending, S))
           /\ ToSet(Kept(pending, S)) = ToSet(pending) \cap S
<1> DEFINE q == Kept(pending, S)
<1>1. q \in Seq(Calls) /\ \E f : Embeds(f, q, pending, S)
  BY KeptProperties, Zenon DEF TypeOK
<1> HIDE DEF q
<1>5. PICK f : Embeds(f, q, pending, S)
  BY <1>1
<1>2. Part(q)
  BY <1>5 DEF Part, Embeds
<1>3. DOMAIN q = 1..Len(q) /\ DOMAIN pending = 1..Len(pending)
  BY <1>1 DEF TypeOK
<1>4. ToSet(q) = ToSet(pending) \cap S
  <2>1. ASSUME NEW c \in ToSet(q)
        PROVE  c \in ToSet(pending) \cap S
    BY <2>1, <1>5, <1>3 DEF ToSet, Embeds
  <2>2. ASSUME NEW c \in ToSet(pending) \cap S
        PROVE  c \in ToSet(q)
    <3>1. PICK i \in 1..Len(pending) : c = pending[i]
      BY <2>2, <1>3 DEF ToSet
    <3>2. PICK n \in 1..Len(q) : f[n] = i
      BY <3>1, <2>2, <1>5 DEF Embeds
    <3> QED
      BY <3>1, <3>2, <1>5, <1>3 DEF ToSet, Embeds
  <2> QED
    BY <2>1, <2>2
<1> QED
  BY <1>1, <1>2, <1>4 DEF q

\* So is the empty queue.
LEMMA EmptyIsPart ==
    <<>> \in Seq(Calls) /\ Part(<<>>) /\ ToSet(<<>>) = {}
<1> DEFINE f == [i \in 1..Len(<<>>) |-> 1]
<1>1. f \in [1..Len(<<>>) -> 1..Len(pending)] /\ Len(<<>>) = 0
  OBVIOUS
<1> HIDE DEF f
<1>2. 1..Len(<<>>) = {}
  BY <1>1
<1>3. Part(<<>>)
  BY <1>1, <1>2, Zenon DEF Part
<1> QED
  BY <1>3 DEF ToSet

\* expire_pending_control_calls
LEMMA ExpireShrinks ==
    ASSUME TypeOK, ExpireCalls
    PROVE  Shrinks /\ UNCHANGED <<inFlight, accepting>>
<1> DEFINE S == {c \in Calls : result[c] = "pending" /\ ~late[c]}
<1>1. pending' = Kept(pending, S)
  BY DEF ExpireCalls
<1> HIDE DEF S
<1>2. pending' \in Seq(Calls) /\ Part(pending') /\ ToSet(pending') = ToSet(pending) \cap S
  BY <1>1, KeptIsPart
<1>3. \A c \in ToSet(pending) : c \in Calls
  BY DEF TypeOK, ToSet
<1> QED
  BY <1>2, <1>3 DEF Shrinks, TypeOK, ExpireCalls, Settle, S, Results

\* cancel_control_calls, and the same lines of the destructor
LEMMA CancelShrinks ==
    ASSUME TypeOK, pending' = <<>>, Settle(ToSet(pending) \cup {inFlight})
    PROVE  /\ Shrinks
           /\ \A c \in ToSet(pending) \cup {inFlight} :
                 c \in Calls => result'[c] # "pending"
<1>1. pending' \in Seq(Calls) /\ Part(pending') /\ ToSet(pending') = {}
  BY EmptyIsPart
<1>2. \A c \in ToSet(pending) : c \in Calls
  BY DEF TypeOK, ToSet
<1>3. /\ result' \in [Calls -> Results]
      /\ \A c \in Calls : \/ result'[c] = result[c]
                          \/ result[c] = "pending" /\ result'[c] = "ready"
      /\ \A c \in Calls : c \in ToSet(pending) \cup {inFlight} => result'[c] # "pending"
  BY DEF TypeOK, Settle, Results
<1> QED
  BY <1>1, <1>2, <1>3 DEF Shrinks

\* The cancel handler of an operation that has its result
LEMMA HandlerShrinks ==
    ASSUME TypeOK, ResultOK, NEW c \in Calls, CancelHandler(c)
    PROVE  Shrinks
<1>1. /\ pending' \in Seq(Calls) /\ Part(pending')
      /\ ToSet(pending') = ToSet(pending) \cap (Calls \ {c})
  BY KeptIsPart DEF CancelHandler
<1>2. \A d \in ToSet(pending) : d \in Calls
  BY DEF TypeOK, ToSet
<1> QED
  BY <1>1, <1>2, Zenon DEF Shrinks, TypeOK, ResultOK, CancelHandler, Results

\* What is behind an element of a queue.
LEMMA SuffixProperties ==
    ASSUME NEW s \in Seq(Calls), NEW p \in 1..Len(s)
    PROVE  /\ SubSeq(s, p + 1, Len(s)) \in Seq(Calls)
           /\ Len(SubSeq(s, p + 1, Len(s))) = Len(s) - p
           /\ \A i \in 1..(Len(s) - p) : SubSeq(s, p + 1, Len(s))[i] = s[p + i]
OBVIOUS

\* process_next_control_call takes the first call without a result, and drops only
\* calls that have one.
LEMMA TakeShape ==
    ASSUME TypeOK, PumpTake
    PROVE  /\ pending' \in Seq(Calls) /\ Part(pending')
           /\ \/ inFlight' = inFlight /\ pump' = "probe" /\ pending' = <<>>
                 /\ \A c \in ToSet(pending) : result[c] # "pending"
              \/ /\ pump' = "check"
                 /\ \E p \in 1..Len(pending) :
                      /\ inFlight' = pending[p]
                      /\ result[pending[p]] = "pending"
                      /\ Len(pending') = Len(pending) - p
                      /\ \A i \in 1..Len(pending') : pending'[i] = pending[p + i]
                      /\ \A i \in 1..(p - 1) : result[pending[i]] # "pending"
<1>1. /\ Popped \in 0..Len(pending)
      /\ Popped # 0 => result[pending[Popped]] = "pending"
      /\ \A i \in 1..Len(pending) :
            Popped = 0 \/ i < Popped => result[pending[i]] # "pending"
  BY PoppedProperties
<1> DEFINE p == Popped
<1>2. /\ p = 0 => pending' = <<>> /\ pump' = "probe" /\ inFlight' = inFlight
      /\ p # 0 => /\ inFlight' = pending[p] /\ pump' = "check"
                  /\ pending' = SubSeq(pending, p + 1, Len(pending))
  BY DEF PumpTake
<1> HIDE DEF p
<1>3. CASE p = 0
  <2>1. pending' \in Seq(Calls) /\ Part(pending')
    BY <1>2, <1>3, EmptyIsPart
  <2>2. \A c \in ToSet(pending) : result[c] # "pending"
    BY <1>1, <1>3 DEF p, TypeOK, ToSet
  <2> QED
    BY <1>2, <1>3, <2>1, <2>2
<1>4. CASE p # 0
  <2>1. p \in 1..Len(pending) /\ Len(pending) \in Nat
    BY <1>1, <1>4 DEF p, TypeOK
  <2>2. /\ pending' \in Seq(Calls) /\ Len(pending') = Len(pending) - p
        /\ \A i \in 1..Len(pending') : pending'[i] = pending[p + i]
    <3>1. pending \in Seq(Calls) /\ pending' = SubSeq(pending, p + 1, Len(pending))
      BY <1>2, <1>4 DEF TypeOK
    <3>2. /\ pending' \in Seq(Calls) /\ Len(pending') = Len(pending) - p
          /\ \A i \in 1..(Len(pending) - p) : pending'[i] = pending[p + i]
      BY <3>1, <2>1, SuffixProperties, Zenon
    <3> QED
      BY <3>2
  <2>3. Part(pending')
    <3> DEFINE f == [i \in 1..Len(pending') |-> p + i]
    <3>1. f \in [1..Len(pending') -> 1..Len(pending)]
      BY <2>1, <2>2
    <3>2. /\ \A m, n \in 1..Len(pending') : m < n => f[m] < f[n]
          /\ \A n \in 1..Len(pending') : pending'[n] = pending[f[n]]
      BY <2>1, <2>2
    <3> HIDE DEF f
    <3> QED
      BY <3>1, <3>2 DEF Part
  <2>4. /\ inFlight' = pending[p] /\ pump' = "check" /\ result[pending[p]] = "pending"
        /\ \A i \in 1..(p - 1) : result[pending[i]] # "pending"
    BY <1>1, <1>2, <1>4, <2>1 DEF p
  <2> QED
    BY <2>1, <2>2, <2>3, <2>4, Zenon
<1> QED
  BY <1>3, <1>4

-----------------------------------------------------------------------------
(* Each step keeps the invariant                                           *)

\* A step keeps the pump within the life of an open session.
LEMMA SessionStep ==
    ASSUME TypeOK, SessionOK, [Next]_vars
    PROVE  SessionOK'
<1> USE ConstantsAssumption DEF SessionOK, PumpOwnsAnOpenSession, TypeOK, Openers,
        Threads, Free, Goto, queueVars, callVars, sessionVars, healthVars, workerVars,
        fenceVars, historyVars
<1>1. CASE UNCHANGED vars
  BY <1>1, Zenon DEF vars
<1>2. ASSUME NEW c \in Calls, Deadline(c)
      PROVE  SessionOK'
  BY <1>2, Zenon DEF Deadline
<1>3. ASSUME NEW c \in Calls, CallEnter(c)
      PROVE  SessionOK'
  BY <1>3, Zenon DEF CallEnter, Return
<1>4. ASSUME NEW c \in Calls, CallSubmit(c)
      PROVE  SessionOK'
  BY <1>4, Zenon DEF CallSubmit, Return
<1>5. ASSUME NEW c \in Calls, CallEnqueue(c)
      PROVE  SessionOK'
  BY <1>5, Zenon DEF CallEnqueue, Return
<1>6. ASSUME NEW c \in Calls, CallLeave(c)
      PROVE  SessionOK'
  BY <1>6, Zenon DEF CallLeave, Return
<1>7. ASSUME NEW c \in Calls, CancelOperation(c)
      PROVE  SessionOK'
  BY <1>7, Zenon DEF CancelOperation
<1>8. ASSUME NEW c \in Calls, CancelHandler(c)
      PROVE  SessionOK'
  BY <1>8, Zenon DEF CancelHandler
<1>9. ASSUME NEW t \in Openers, EnsureBegin(t)
      PROVE  SessionOK'
  BY <1>9 DEF EnsureBegin, EnsureReturn
<1>10. ASSUME NEW t \in Openers, EnsureJoin(t)
      PROVE  SessionOK'
  BY <1>10, Zenon DEF EnsureJoin
<1>11. ASSUME NEW t \in Openers, EnsureFail(t)
      PROVE  SessionOK'
  BY <1>11, Zenon DEF EnsureFail, EnsureReturn
<1>12. ASSUME NEW t \in Openers, EnsureOpen(t)
      PROVE  SessionOK'
  BY <1>12, Zenon DEF EnsureOpen, EnsureReturn
<1>13. ASSUME NEW t \in Openers, EnsureProgress(t)
      PROVE  SessionOK'
  BY <1>13, Zenon DEF EnsureProgress
<1>14. CASE OpenBegin
  BY <1>14, Zenon DEF OpenBegin
<1>15. CASE PumpTop
  BY <1>15, Zenon DEF PumpTop
<1>16. CASE PumpTake
  BY <1>16, Zenon DEF PumpTake
<1>17. CASE PumpCheck
  BY <1>17, Zenon DEF PumpCheck
<1>18. CASE PumpAnswer
  BY <1>18, Zenon DEF PumpAnswer
<1>19. CASE PumpClear
  BY <1>19, Zenon DEF PumpClear
<1>20. CASE PumpProbe
  BY <1>20, Zenon DEF PumpProbe
<1>21. CASE PumpProbeFails
  BY <1>21, Zenon DEF PumpProbeFails
<1>22. CASE PumpRequest
  BY <1>22, Zenon DEF PumpRequest
<1>23. CASE PumpMark
  BY <1>23, Zenon DEF PumpMark
<1>24. CASE PumpProgress
  BY <1>24, Zenon DEF PumpProgress
<1>25. CASE WorkerTake
  BY <1>25, Zenon DEF WorkerTake
<1>26. CASE WorkerCheck
  BY <1>26, Zenon DEF WorkerCheck
<1>27. CASE WorkerRecover
  BY <1>27, Zenon DEF WorkerRecover
<1>28. CASE WorkerStopPump
  BY <1>28, Zenon DEF WorkerStopPump
<1>29. CASE WorkerClose
  BY <1>29, Zenon DEF WorkerClose, Joined
<1>30. CASE WorkerDrain
  BY <1>30, Zenon DEF WorkerDrain
<1>31. CASE WorkerVerify
  BY <1>31, Zenon DEF WorkerVerify
<1>32. CASE WorkerRecovered
  BY <1>32, Zenon DEF WorkerRecovered
<1>33. CASE WorkerFailed
  BY <1>33, Zenon DEF WorkerFailed
<1>34. CASE WorkerBackoff
  BY <1>34, Zenon DEF WorkerBackoff
<1>35. CASE Bind
  BY <1>35, Zenon DEF Bind
<1>36. CASE Unbind
  BY <1>36, Zenon DEF Unbind
<1>37. CASE RetireBegin
  BY <1>37, Zenon DEF RetireBegin
<1>38. CASE ResetAdvance
  BY <1>38, Zenon DEF ResetAdvance
<1>39. CASE ResetCancel
  BY <1>39, Zenon DEF ResetCancel
<1>40. CASE ResetForget
  BY <1>40, Zenon DEF ResetForget
<1>41. CASE ResetUnbind
  BY <1>41, Zenon DEF ResetUnbind
<1>42. CASE ResetStopPump
  BY <1>42, Zenon DEF ResetStopPump
<1>43. CASE ResetClose
  BY <1>43, Zenon DEF ResetClose, Joined
<1>44. CASE ResetDrain
  BY <1>44, Zenon DEF ResetDrain
<1>45. CASE RetireEnd
  BY <1>45, Zenon DEF RetireEnd
<1>46. CASE DestroyRefuse
  BY <1>46, Zenon DEF DestroyRefuse
<1>47. CASE DestroyAdvance
  BY <1>47, Zenon DEF DestroyAdvance
<1>48. CASE DestroyCancel
  BY <1>48, Zenon DEF DestroyCancel
<1>49. CASE DestroyUnbind
  BY <1>49, Zenon DEF DestroyUnbind
<1>50. CASE DestroyStopWorker
  BY <1>50, Zenon DEF DestroyStopWorker
<1>51. CASE DestroyStopPump
  BY <1>51, Zenon DEF DestroyStopPump
<1>52. CASE DestroyEnd
  BY <1>52, Zenon DEF DestroyEnd, Joined
<1> QED
  BY <1>1, <1>2, <1>3, <1>4, <1>5, <1>6, <1>7, <1>8, <1>9, <1>10, <1>11, <1>12, <1>13,
      <1>14, <1>15, <1>16, <1>17, <1>18, <1>19, <1>20, <1>21, <1>22, <1>23, <1>24,
      <1>25, <1>26, <1>27, <1>28, <1>29, <1>30, <1>31, <1>32, <1>33, <1>34, <1>35,
      <1>36, <1>37, <1>38, <1>39, <1>40, <1>41, <1>42, <1>43, <1>44, <1>45, <1>46,
      <1>47, <1>48, <1>49, <1>50, <1>51, <1>52, Zenon DEF Next, CallStep, EnsureStep, PumpStep, WorkerStep, ResetStep

\* The types
LEMMA TypeStep ==
    ASSUME TypeOK, ResultOK, [Next]_vars
    PROVE  TypeOK'
<1> USE ConstantsAssumption DEF TypeOK, Results, Labels, Openers, Threads, Goto,
        queueVars, callVars, sessionVars, healthVars, workerVars, fenceVars, historyVars
<1>1. CASE UNCHANGED vars
  BY <1>1, Zenon DEF vars
<1>2. ASSUME NEW c \in Calls, Deadline(c)
      PROVE  TypeOK'
  BY <1>2, Zenon DEF Deadline
<1>3. ASSUME NEW c \in Calls, CallEnter(c)
      PROVE  TypeOK'
  BY <1>3, Zenon DEF CallEnter, Return
<1>4. ASSUME NEW c \in Calls, CallSubmit(c)
      PROVE  TypeOK'
  BY <1>4, Zenon DEF CallSubmit, Return
<1>5. ASSUME NEW c \in Calls, CallEnqueue(c)
      PROVE  TypeOK'
  <2> DEFINE refused == \/ ~accepting \/ callGen[c] # generation
                        \/ Outstanding >= MaxOutstanding
  <2>1. CASE refused
    BY <1>5, <2>1, Zenon DEF CallEnqueue, Return
  <2>2. CASE ~refused
    <3>1. /\ pending' = Append(pending, c) /\ accepted' = Append(accepted, c)
          /\ result' = [result EXCEPT ![c] = "pending"]
          /\ pc' = [pc EXCEPT ![c] = IF c \in SyncCalls THEN "waiting" ELSE "returned"]
          /\ UNCHANGED <<inFlight, erasing, sent>>
      BY <1>5, <2>2, Zenon DEF CallEnqueue
    <3> QED
      BY <3>1
  <2> QED
    BY <2>1, <2>2, Zenon
<1>6. ASSUME NEW c \in Calls, CallLeave(c)
      PROVE  TypeOK'
  <2>1. Return(c)
    BY <1>6, Zenon DEF CallLeave
  <2> QED
    BY <1>6, <2>1, Zenon DEF CallLeave, Return
<1>7. ASSUME NEW c \in Calls, CancelOperation(c)
      PROVE  TypeOK'
  BY <1>7, Zenon DEF CancelOperation, Settle
<1>8. ASSUME NEW c \in Calls, CancelHandler(c)
      PROVE  TypeOK'
  <2>1. Shrinks
    BY <1>8, HandlerShrinks, Zenon
  <2> QED
    BY <1>8, <2>1, Zenon DEF CancelHandler, Shrinks
<1>9. ASSUME NEW t \in Openers, EnsureBegin(t)
      PROVE  TypeOK'
  BY <1>9, ZenonT(60) DEF EnsureBegin, EnsureReturn
<1>10. ASSUME NEW t \in Openers, EnsureJoin(t)
      PROVE  TypeOK'
  BY <1>10, Zenon DEF EnsureJoin
<1>11. ASSUME NEW t \in Openers, EnsureFail(t)
      PROVE  TypeOK'
  BY <1>11, Zenon DEF EnsureFail, EnsureReturn
<1>12. ASSUME NEW t \in Openers, EnsureOpen(t)
      PROVE  TypeOK'
  BY <1>12, Zenon DEF EnsureOpen, EnsureReturn
<1>13. ASSUME NEW t \in Openers, EnsureProgress(t)
      PROVE  TypeOK'
  <2>1. Shrinks
    BY <1>13, ExpireShrinks, Zenon DEF EnsureProgress
  <2> QED
    BY <1>13, <2>1, Zenon DEF EnsureProgress, Shrinks, ExpireCalls
<1>14. CASE OpenBegin
  BY <1>14, Zenon DEF OpenBegin
<1>15. CASE PumpTop
  <2>1. CASE stopPump
    BY <1>15, <2>1, Zenon DEF PumpTop
  <2>2. CASE ~stopPump
    <3>1. Shrinks
      BY <1>15, <2>2, ExpireShrinks, Zenon DEF PumpTop
    <3> QED
      BY <1>15, <2>2, <3>1, Zenon DEF PumpTop, Shrinks, ExpireCalls
  <2> QED
    BY <2>1, <2>2, Zenon
<1>16. CASE PumpTake
  <2>1. pending' \in Seq(Calls) /\ inFlight' \in Calls \cup {NoCall}
    BY <1>16, TakeShape
  <2> QED
    BY <1>16, <2>1, Zenon DEF PumpTake
<1>17. CASE PumpCheck
  <2>1. inFlight \in Calls
    BY <1>17, Zenon DEF PumpCheck, ResultOK, Serving
  <2>2. sent' \in Seq(Calls) /\ result' \in [Calls -> Results]
    <3>1. sent' = Append(sent, inFlight) \/ sent' = sent
      BY <1>17, Zenon DEF PumpCheck
    <3>2. result' = result \/ Settle({inFlight})
      BY <1>17, Zenon DEF PumpCheck
    <3>3. sent' \in Seq(Calls)
      <4>1. sent \in Seq(Calls) /\ Append(sent, inFlight) \in Seq(Calls)
        BY <2>1
      <4> QED
        BY <3>1, <4>1, Zenon
    <3>4. result' \in [Calls -> Results]
      BY <3>2, Zenon DEF Settle
    <3> QED
      BY <3>3, <3>4, Zenon
  <2> QED
    BY <1>17, <2>2, Zenon DEF PumpCheck
<1>18. CASE PumpAnswer
  BY <1>18, Zenon DEF PumpAnswer, Settle
<1>19. CASE PumpClear
  BY <1>19, Zenon DEF PumpClear
<1>20. CASE PumpProbe
  BY <1>20, Zenon DEF PumpProbe
<1>21. CASE PumpProbeFails
  BY <1>21, Zenon DEF PumpProbeFails
<1>22. CASE PumpRequest
  BY <1>22, Zenon DEF PumpRequest
<1>23. CASE PumpMark
  BY <1>23, Zenon DEF PumpMark
<1>24. CASE PumpProgress
  <2>1. Shrinks
    BY <1>24, ExpireShrinks, Zenon DEF PumpProgress
  <2> QED
    BY <1>24, <2>1, Zenon DEF PumpProgress, Shrinks, ExpireCalls
<1>25. CASE WorkerTake
  BY <1>25 DEF WorkerTake
<1>26. CASE WorkerCheck
  BY <1>26, Zenon DEF WorkerCheck
<1>27. CASE WorkerRecover
  <2>1. CASE Wanted
    <3>1. pending' = <<>> /\ Settle(ToSet(pending) \cup {inFlight})
      BY <1>27, <2>1, Zenon DEF WorkerRecover, CancelCalls
    <3>2. Shrinks
      BY <3>1, CancelShrinks, Zenon
    <3> QED
      BY <1>27, <2>1, <3>2, Zenon DEF WorkerRecover, CancelCalls, Shrinks
  <2>2. CASE ~Wanted
    BY <1>27, <2>2, Zenon DEF WorkerRecover
  <2> QED
    BY <2>1, <2>2, Zenon
<1>28. CASE WorkerStopPump
  BY <1>28, Zenon DEF WorkerStopPump
<1>29. CASE WorkerClose
  BY <1>29, Zenon DEF WorkerClose, Joined
<1>30. CASE WorkerDrain
  <2>1. pending' = <<>> /\ Settle(ToSet(pending) \cup {inFlight})
    BY <1>30, Zenon DEF WorkerDrain, CancelCalls
  <2>2. Shrinks
    BY <2>1, CancelShrinks, Zenon
  <2> QED
    BY <1>30, <2>2, Zenon DEF WorkerDrain, CancelCalls, Shrinks
<1>31. CASE WorkerVerify
  BY <1>31, Zenon DEF WorkerVerify
<1>32. CASE WorkerRecovered
  BY <1>32, Zenon DEF WorkerRecovered
<1>33. CASE WorkerFailed
  BY <1>33, Zenon DEF WorkerFailed
<1>34. CASE WorkerBackoff
  BY <1>34, Zenon DEF WorkerBackoff
<1>35. CASE Bind
  BY <1>35, Zenon DEF Bind
<1>36. CASE Unbind
  BY <1>36, Zenon DEF Unbind
<1>37. CASE RetireBegin
  BY <1>37, Zenon DEF RetireBegin
<1>38. CASE ResetAdvance
  BY <1>38, Zenon DEF ResetAdvance
<1>39. CASE ResetCancel
  <2>1. pending' = <<>> /\ Settle(ToSet(pending) \cup {inFlight})
    BY <1>39, Zenon DEF ResetCancel, CancelCalls
  <2>2. Shrinks
    BY <2>1, CancelShrinks, Zenon
  <2> QED
    BY <1>39, <2>2, Zenon DEF ResetCancel, CancelCalls, Shrinks
<1>40. CASE ResetForget
  BY <1>40, Zenon DEF ResetForget
<1>41. CASE ResetUnbind
  BY <1>41, Zenon DEF ResetUnbind
<1>42. CASE ResetStopPump
  BY <1>42 DEF ResetStopPump
<1>43. CASE ResetClose
  BY <1>43, Zenon DEF ResetClose, Joined
<1>44. CASE ResetDrain
  <2>1. pending' = <<>> /\ Settle(ToSet(pending) \cup {inFlight})
    BY <1>44, Zenon DEF ResetDrain, CancelCalls
  <2>2. Shrinks
    BY <2>1, CancelShrinks, Zenon
  <2> QED
    BY <1>44, <2>2, Zenon DEF ResetDrain, CancelCalls, Shrinks
<1>45. CASE RetireEnd
  BY <1>45, Zenon DEF RetireEnd
<1>46. CASE DestroyRefuse
  BY <1>46, Zenon DEF DestroyRefuse
<1>47. CASE DestroyAdvance
  BY <1>47, Zenon DEF DestroyAdvance
<1>48. CASE DestroyCancel
  <2>1. pending' = <<>> /\ Settle(ToSet(pending) \cup {inFlight})
    BY <1>48, Zenon DEF DestroyCancel, CancelCalls
  <2>2. Shrinks
    BY <2>1, CancelShrinks, Zenon
  <2> QED
    BY <1>48, <2>2, Zenon DEF DestroyCancel, CancelCalls, Shrinks
<1>49. CASE DestroyUnbind
  BY <1>49, Zenon DEF DestroyUnbind
<1>50. CASE DestroyStopWorker
  BY <1>50, Zenon DEF DestroyStopWorker
<1>51. CASE DestroyStopPump
  BY <1>51, Zenon DEF DestroyStopPump
<1>52. CASE DestroyEnd
  BY <1>52, Zenon DEF DestroyEnd, Joined
<1> QED
  BY <1>1, <1>2, <1>3, <1>4, <1>5, <1>6, <1>7, <1>8, <1>9, <1>10, <1>11, <1>12, <1>13,
      <1>14, <1>15, <1>16, <1>17, <1>18, <1>19, <1>20, <1>21, <1>22, <1>23, <1>24,
      <1>25, <1>26, <1>27, <1>28, <1>29, <1>30, <1>31, <1>32, <1>33, <1>34, <1>35,
      <1>36, <1>37, <1>38, <1>39, <1>40, <1>41, <1>42, <1>43, <1>44, <1>45, <1>46,
      <1>47, <1>48, <1>49, <1>50, <1>51, <1>52, Zenon DEF Next, CallStep, EnsureStep, PumpStep, WorkerStep, ResetStep

\* What a step that shortens the queue does for the results.
LEMMA ResultShrinks ==
    ASSUME TypeOK, ResultOK, Shrinks, UNCHANGED <<inFlight, accepted>>,
           pump' \in Serving <=> pump \in Serving, pump' = "clear" => pump = "clear",
           erasing' \subseteq erasing, \A c \in Calls : pc'[c] = pc[c],
           pc'["reset"] \in Destroying => ~accepting',
           pc'["reset"] \in Drained => \/ pc["reset"] \in Drained
                                      \/ \A c \in Calls : result'[c] # "pending"
    PROVE  ResultOK'
<1>1. \A c \in ToSet(pending) \cup ToSet(accepted) \cup erasing : c \in Calls
  BY DEF TypeOK, ToSet
<1>2. \A c \in Calls : result'[c] # "none" <=> result[c] # "none"
  BY Zenon DEF Shrinks
<1>3. \A c \in Calls : result'[c] = "pending" => c \in ToSet(pending') \cup {inFlight'}
  BY <1>1, Zenon DEF Shrinks, ResultOK
<1>4. \A c \in Calls : result'[c] # "none" => pc'[c] \in Handed
  BY <1>2, Zenon DEF ResultOK
<1>5. \A c \in ToSet(pending') \cup ToSet(accepted') : result'[c] # "none"
  BY <1>1, <1>2, Zenon DEF Shrinks, ResultOK
<1>6. \A c \in erasing' : result'[c] = "ready"
  BY <1>1, Zenon DEF Shrinks, ResultOK
<1>7. /\ pump' \in Serving => inFlight' \in Calls /\ result'[inFlight'] # "none"
      /\ pump' \notin Serving => inFlight' = NoCall
  BY <1>2, Zenon DEF ResultOK
<1>8. pump' = "clear" => result'[inFlight'] = "ready"
  BY Zenon DEF ResultOK, Shrinks, Serving
<1>9. pc'["reset"] \in Drained => \A c \in Calls : result'[c] # "pending"
  BY Zenon DEF ResultOK, Shrinks
<1> QED
  BY <1>3, <1>4, <1>5, <1>6, <1>7, <1>8, <1>9, Zenon DEF ResultOK

\* What a step that leaves the queue alone and gives results does for them.
LEMMA ResultForward ==
    ASSUME TypeOK, ResultOK, UNCHANGED <<pending, inFlight, accepting, accepted>>,
           \A c \in Calls : \/ result'[c] = result[c]
                            \/ result'[c] = "ready" /\ pc'[c] \in Handed,
           \A c \in Calls : \/ pc'[c] = pc[c]
                            \/ pc'[c] \in Handed
                            \/ result'[c] = "none",
           \A c \in erasing' : c \in erasing \/ result'[c] = "ready",
           pump' \in Serving <=> pump \in Serving,
           pump' = "clear" => pump = "clear" \/ result'[inFlight] = "ready",
           pc'["reset"] = pc["reset"]
    PROVE  ResultOK'
<1>1. \A c \in ToSet(pending) \cup ToSet(accepted) \cup erasing : c \in Calls
  BY DEF TypeOK, ToSet
<1>2. \A c \in Calls : result[c] # "none" => result'[c] # "none"
  BY Zenon
<1>3. \A c \in Calls : result'[c] = "pending" => c \in ToSet(pending') \cup {inFlight'}
  BY Zenon DEF ResultOK
<1>4. \A c \in Calls : result'[c] # "none" => pc'[c] \in Handed
  BY <1>2, Zenon DEF ResultOK
<1>5. \A c \in ToSet(pending') \cup ToSet(accepted') : result'[c] # "none"
  BY <1>1, <1>2, Zenon DEF ResultOK
<1>6. \A c \in erasing' : result'[c] = "ready"
  BY <1>1, Zenon DEF ResultOK
<1>7. /\ pump' \in Serving => inFlight' \in Calls /\ result'[inFlight'] # "none"
      /\ pump' \notin Serving => inFlight' = NoCall
  BY <1>2, Zenon DEF ResultOK
<1>8. pump' = "clear" => result'[inFlight'] = "ready"
  BY Zenon DEF ResultOK, Serving
<1>9. /\ pc'["reset"] \in Destroying => ~accepting'
      /\ pc'["reset"] \in Drained => \A c \in Calls : result'[c] # "pending"
  BY Zenon DEF ResultOK
<1> QED
  BY <1>3, <1>4, <1>5, <1>6, <1>7, <1>8, <1>9, Zenon DEF ResultOK

\* Appending an element
LEMMA AppendSet ==
    ASSUME NEW s \in Seq(Calls), NEW c \in Calls
    PROVE  ToSet(Append(s, c)) = ToSet(s) \cup {c}
<1>1. DOMAIN s = 1..Len(s) /\ DOMAIN Append(s, c) = 1..(Len(s) + 1) /\ Len(s) \in Nat
  OBVIOUS
<1>2. /\ \A i \in 1..Len(s) : Append(s, c)[i] = s[i]
      /\ Append(s, c)[Len(s) + 1] = c
  OBVIOUS
<1> QED
  BY <1>1, <1>2 DEF ToSet

\* A step that leaves the queue and the results alone moves only calls without one.
LEMMA ResultFrame ==
    ASSUME TypeOK, ResultOK,
           UNCHANGED <<pending, inFlight, accepting, result, erasing, accepted>>,
           \A c \in Calls : pc'[c] = pc[c] \/ result[c] = "none",
           pump' \in Serving <=> pump \in Serving, pump' = "clear" => pump = "clear",
           pc'["reset"] \in Destroying => pc["reset"] \in Destroying,
           pc'["reset"] \in Drained => pc["reset"] \in Drained
    PROVE  ResultOK'
<1>1. /\ \A c \in Calls : result'[c] # "none" => pc'[c] \in Handed
      /\ pc'["reset"] \in Destroying => ~accepting'
      /\ pc'["reset"] \in Drained => \A c \in Calls : result'[c] # "pending"
      /\ pump' = "clear" => result'[inFlight'] = "ready"
  BY Zenon DEF ResultOK
<1> QED
  BY <1>1, Zenon DEF ResultOK

\* What Goto does to the other threads.
LEMMA GotoShape ==
    ASSUME TypeOK, NEW t \in Threads, NEW label, Goto(t, label)
    PROVE  /\ pc'[t] = label
           /\ \A u \in Threads : u # t => pc'[u] = pc[u]
BY Zenon DEF TypeOK, Goto

\* A thread that is no call moves no call.
LEMMA GotoFrame ==
    ASSUME TypeOK, NEW t \in {"opener", "worker", "reset"}, NEW label, Goto(t, label)
    PROVE  /\ \A c \in Calls : pc'[c] = pc[c]
           /\ pc'["reset"] = IF t = "reset" THEN label ELSE pc["reset"]
BY GotoShape, ConstantsAssumption, Zenon DEF Threads

\* A call that still opens the session has no result.
LEMMA OpenerFrame ==
    ASSUME TypeOK, ResultOK, NEW t \in Openers, pc[t] \notin Handed, NEW label,
           Goto(t, label)
    PROVE  /\ \A c \in Calls : pc'[c] = pc[c] \/ result[c] = "none"
           /\ pc'["reset"] = pc["reset"]
<1>1. /\ t \in Threads /\ t # "reset"
      /\ \A c \in Calls : c \in Threads
      /\ "reset" \in Threads
  BY ConstantsAssumption, Zenon DEF Openers, Threads
<1>2. t \in Calls => result[t] = "none"
  BY Zenon DEF ResultOK
<1> QED
  BY <1>1, <1>2, GotoShape, Zenon

\* Where a call goes, and the result it gets.
LEMMA CallShape ==
    ASSUME TypeOK, NEW c \in Calls, NEW label, Goto(c, label),
           \/ result' = [result EXCEPT ![c] = "ready"] /\ label \in Handed
           \/ result' = result /\ result[c] = "none"
    PROVE  /\ \A d \in Calls : \/ result'[d] = result[d]
                               \/ result'[d] = "ready" /\ pc'[d] \in Handed
           /\ \A d \in Calls : pc'[d] = pc[d] \/ pc'[d] \in Handed \/ result'[d] = "none"
           /\ pc'["reset"] = pc["reset"]
<1>1. /\ \A d \in Calls : d \in Threads /\ d # "reset"
      /\ "reset" \in Threads
  BY ConstantsAssumption, Zenon DEF Threads
<1>2. /\ pc'[c] = label /\ pc'["reset"] = pc["reset"]
      /\ \A d \in Calls : d # c => pc'[d] = pc[d]
  BY <1>1, GotoShape, Zenon
<1>3. \A d \in Calls : result'[d] = IF d = c THEN result'[c] ELSE result[d]
  BY Zenon DEF TypeOK
<1>4. \/ result'[c] = "ready" /\ label \in Handed
      \/ result'[c] = "none" /\ result[c] = "none"
  BY Zenon DEF TypeOK
<1> QED
  BY <1>2, <1>3, <1>4, Zenon

\* What Settle does to the results.
LEMMA SettleShape ==
    ASSUME ResultOK, NEW S, Settle(S), UNCHANGED pc
    PROVE  /\ \A d \in Calls : \/ result'[d] = result[d]
                               \/ result'[d] = "ready" /\ pc'[d] \in Handed
           /\ \A d \in Calls : d \in S /\ result[d] # "none" /\ result[d] \in Results
                               => result'[d] = "ready"
BY Zenon DEF ResultOK, Settle, Results

\* The pump takes the first call that still waits; those in front of it have results.
LEMMA TakeResult ==
    ASSUME TypeOK, ResultOK, PumpTake
    PROVE  ResultOK'
<1>1. UNCHANGED <<accepting, result, pc, erasing, accepted>> /\ pump = "take"
  BY Zenon DEF PumpTake, callVars, historyVars
<1>2. inFlight = NoCall
  BY <1>1, Zenon DEF ResultOK, Serving
<1>3. CASE /\ inFlight' = inFlight /\ pump' = "probe" /\ pending' = <<>>
           /\ \A c \in ToSet(pending) : result[c] # "pending"
  <2>1. ToSet(pending') = {}
    BY <1>3, EmptyIsPart, Zenon
  <2> QED
    BY <1>1, <1>2, <1>3, <2>1, Zenon DEF ResultOK, Serving
<1>4. CASE /\ pump' = "check"
           /\ \E p \in 1..Len(pending) :
                /\ inFlight' = pending[p]
                /\ result[pending[p]] = "pending"
                /\ Len(pending') = Len(pending) - p
                /\ \A i \in 1..Len(pending') : pending'[i] = pending[p + i]
                /\ \A i \in 1..(p - 1) : result[pending[i]] # "pending"
  <2>1. PICK p \in 1..Len(pending) :
                /\ inFlight' = pending[p]
                /\ result[pending[p]] = "pending"
                /\ Len(pending') = Len(pending) - p
                /\ \A i \in 1..Len(pending') : pending'[i] = pending[p + i]
                /\ \A i \in 1..(p - 1) : result[pending[i]] # "pending"
    BY <1>4, Zenon
  <2>2. pending' \in Seq(Calls)
    BY TakeShape, Zenon
  <2>3. /\ DOMAIN pending = 1..Len(pending) /\ DOMAIN pending' = 1..Len(pending')
        /\ Len(pending) \in Nat /\ Len(pending') \in Nat
        /\ \A i \in 1..Len(pending) : pending[i] \in Calls
    BY <2>2 DEF TypeOK
  <2>4. inFlight' \in ToSet(pending) /\ inFlight' \in Calls
    BY <2>1, <2>3, Zenon DEF ToSet
  <2>5. ASSUME NEW c \in ToSet(pending')
        PROVE  c \in ToSet(pending)
    <3>1. PICK i \in 1..Len(pending') : c = pending'[i]
      BY <2>3, Zenon DEF ToSet
    <3>2. p + i \in 1..Len(pending) /\ c = pending[p + i]
      BY <2>1, <2>3, <3>1
    <3> QED
      BY <2>3, <3>2, Zenon DEF ToSet
  <2>6. ASSUME NEW c \in ToSet(pending), result[c] = "pending"
        PROVE  c \in ToSet(pending') \/ c = inFlight'
    <3>1. PICK i \in 1..Len(pending) : c = pending[i]
      BY <2>3, Zenon DEF ToSet
    <3>2. i >= p
      BY <2>1, <2>3, <2>6, <3>1
    <3>3. CASE i = p
      BY <2>1, <3>1, <3>3, Zenon
    <3>4. CASE i > p
      <4>1. i - p \in 1..Len(pending') /\ pending'[i - p] = pending[i]
        BY <2>1, <2>3, <3>4
      <4> QED
        BY <2>3, <3>1, <4>1, Zenon DEF ToSet
    <3> QED
      BY <2>3, <3>2, <3>3, <3>4
  <2>7. \A c \in Calls : result'[c] = "pending" => c \in ToSet(pending') \cup {inFlight'}
    BY <1>1, <1>2, <2>6, ConstantsAssumption, Zenon DEF ResultOK
  <2>8. \A c \in ToSet(pending') \cup ToSet(accepted') : result'[c] # "none"
    BY <1>1, <2>5, Zenon DEF ResultOK
  <2>9. pump' \in Serving /\ pump' # "clear" /\ inFlight' \in Calls /\ result'[inFlight'] # "none"
    BY <1>1, <1>4, <2>1, <2>4, Zenon DEF Serving
  <2> QED
    BY <1>1, <2>7, <2>8, <2>9, Zenon DEF ResultOK
<1> QED
  BY <1>3, <1>4, TakeShape, Zenon

\* A step loses no operation that has no result.
LEMMA ResultStep ==
    ASSUME TypeOK, SessionOK, ResultOK, [Next]_vars
    PROVE  ResultOK'
<1> USE DEF queueVars, callVars, sessionVars, healthVars, workerVars, fenceVars,
        historyVars
<1>1. CASE UNCHANGED vars
  BY <1>1, ResultFrame, Zenon DEF vars
<1>2. ASSUME NEW c \in Calls, Deadline(c)
      PROVE  ResultOK'
  BY <1>2, ResultFrame, Zenon DEF Deadline
<1>3. ASSUME NEW c \in Calls, CallEnter(c)
      PROVE  ResultOK'
  <2>1. result[c] = "none"
    BY <1>3, Zenon DEF CallEnter, ResultOK, Handed
  <2>2. \E label :
          /\ Goto(c, label)
          /\ \/ result' = [result EXCEPT ![c] = "ready"] /\ label \in Handed
             \/ result' = result /\ result[c] = "none"
    BY <1>3, <2>1, Zenon DEF CallEnter, Return, Handed
  <2> QED
    BY <1>3, <2>2, CallShape, ResultForward, Zenon DEF CallEnter
<1>4. ASSUME NEW c \in Calls, CallSubmit(c)
      PROVE  ResultOK'
  <2>1. result[c] = "none"
    BY <1>4, Zenon DEF CallSubmit, ResultOK, Handed
  <2>2. \E label :
          /\ Goto(c, label)
          /\ \/ result' = [result EXCEPT ![c] = "ready"] /\ label \in Handed
             \/ result' = result /\ result[c] = "none"
    BY <1>4, <2>1, Zenon DEF CallSubmit, Return, Handed
  <2> QED
    BY <1>4, <2>2, CallShape, ResultForward, Zenon DEF CallSubmit
<1>5. ASSUME NEW c \in Calls, CallEnqueue(c)
      PROVE  ResultOK'
  <2> DEFINE refused == \/ ~accepting \/ callGen[c] # generation
                        \/ Outstanding >= MaxOutstanding
  <2>1. CASE refused
    <3>1. /\ result' = [result EXCEPT ![c] = "ready"] /\ Goto(c, "returned")
          /\ UNCHANGED <<pending, inFlight, accepting, accepted, erasing, pump>>
      BY <1>5, <2>1, Zenon DEF CallEnqueue, Return
    <3>2. "returned" \in Handed
      BY Zenon DEF Handed
    <3> QED
      BY <3>1, <3>2, CallShape, ResultForward, Zenon
  <2>2. CASE ~refused
    <3>1. /\ pending' = Append(pending, c) /\ accepted' = Append(accepted, c)
          /\ result' = [result EXCEPT ![c] = "pending"]
          /\ Goto(c, IF c \in SyncCalls THEN "waiting" ELSE "returned")
          /\ UNCHANGED <<inFlight, accepting, erasing, sent, pump>>
          /\ accepting
      BY <1>5, <2>2, Zenon DEF CallEnqueue
    <3>2. result[c] = "none"
      BY <1>5, Zenon DEF CallEnqueue, ResultOK, Handed
    <3>3. /\ ToSet(pending') = ToSet(pending) \cup {c}
          /\ ToSet(accepted') = ToSet(accepted) \cup {c}
      BY <3>1, AppendSet, Zenon DEF TypeOK
    <3>4. /\ pc'[c] \in Handed /\ pc'["reset"] = pc["reset"]
          /\ \A d \in Calls : d # c => pc'[d] = pc[d]
      BY <3>1, GotoShape, ConstantsAssumption, Zenon DEF Threads, Handed
    <3>5. \A d \in Calls : result'[d] = IF d = c THEN "pending" ELSE result[d]
      BY <3>1, Zenon DEF TypeOK
    <3>6. \A d \in ToSet(pending) \cup ToSet(accepted) \cup erasing : d \in Calls
      BY DEF TypeOK, ToSet
    <3>7. /\ \A d \in Calls : result'[d] = "pending" => d \in ToSet(pending') \cup {inFlight'}
          /\ \A d \in Calls : result'[d] # "none" => pc'[d] \in Handed
      BY <3>1, <3>3, <3>4, <3>5, Zenon DEF ResultOK
    <3>8. /\ \A d \in ToSet(pending') \cup ToSet(accepted') : result'[d] # "none"
          /\ \A d \in erasing' : result'[d] = "ready"
      BY <3>1, <3>2, <3>3, <3>5, <3>6 DEF ResultOK
    <3>9. /\ pump' \in Serving => inFlight' \in Calls /\ result'[inFlight'] # "none"
          /\ pump' \notin Serving => inFlight' = NoCall
          /\ pump' = "clear" => result'[inFlight'] = "ready"
      BY <3>1, <3>2, <3>5, Zenon DEF ResultOK, Serving
    <3>10. pc'["reset"] \notin Destroying /\ pc'["reset"] \notin Drained
      BY <3>1, <3>4, Zenon DEF ResultOK, Destroying, Drained
    <3> QED
      BY <3>7, <3>8, <3>9, <3>10, Zenon DEF ResultOK
  <2> QED
    BY <2>1, <2>2, Zenon
<1>6. ASSUME NEW c \in Calls, CallLeave(c)
      PROVE  ResultOK'
  <2>1. /\ result' = [result EXCEPT ![c] = "ready"] /\ Goto(c, "returned")
        /\ UNCHANGED <<pending, inFlight, accepting, accepted, erasing, pump>>
    BY <1>6, Zenon DEF CallLeave, Return
  <2>2. "returned" \in Handed
    BY Zenon DEF Handed
  <2> QED
    BY <2>1, <2>2, CallShape, ResultForward, Zenon
<1>7. ASSUME NEW c \in Calls, CancelOperation(c)
      PROVE  ResultOK'
  <2>1. Settle({c}) /\ UNCHANGED pc /\ result[c] = "pending" /\ erasing' = erasing \cup {c}
    BY <1>7, Zenon DEF CancelOperation
  <2>2. result'[c] = "ready"
    BY <2>1, Zenon DEF Settle
  <2> QED
    BY <1>7, <2>1, <2>2, SettleShape, ResultForward, Zenon DEF CancelOperation
<1>8. ASSUME NEW c \in Calls, CancelHandler(c)
      PROVE  ResultOK'
  <2>1. Shrinks
    BY <1>8, HandlerShrinks, Zenon
  <2> QED
    BY <1>8, <2>1, ResultShrinks, Zenon DEF CancelHandler, ResultOK
<1>9. ASSUME NEW t \in Openers, EnsureBegin(t)
      PROVE  ResultOK'
  <2>1. pc[t] \notin Handed /\ \E label : Goto(t, label)
    BY <1>9, Zenon DEF EnsureBegin, EnsureReturn, Handed
  <2> QED
    BY <1>9, <2>1, OpenerFrame, ResultFrame, Zenon DEF EnsureBegin
<1>10. ASSUME NEW t \in Openers, EnsureJoin(t)
      PROVE  ResultOK'
  <2>1. pc[t] \notin Handed /\ \E label : Goto(t, label)
    BY <1>10, Zenon DEF EnsureJoin, Handed
  <2> QED
    BY <1>10, <2>1, OpenerFrame, ResultFrame, Zenon DEF EnsureJoin, Serving
<1>11. ASSUME NEW t \in Openers, EnsureFail(t)
      PROVE  ResultOK'
  <2>1. pc[t] \notin Handed /\ \E label : Goto(t, label)
    BY <1>11, Zenon DEF EnsureFail, EnsureReturn, Handed
  <2> QED
    BY <1>11, <2>1, OpenerFrame, ResultFrame, Zenon DEF EnsureFail
<1>12. ASSUME NEW t \in Openers, EnsureOpen(t)
      PROVE  ResultOK'
  <2>1. pc[t] \notin Handed /\ \E label : Goto(t, label)
    BY <1>12, Zenon DEF EnsureOpen, EnsureReturn, Handed
  <2>2. pump \notin Serving
    BY <1>12, Zenon DEF EnsureOpen, SessionOK, PumpOwnsAnOpenSession, Serving
  <2> QED
    BY <1>12, <2>1, <2>2, OpenerFrame, ResultFrame, Zenon DEF EnsureOpen, Serving
<1>13. ASSUME NEW t \in Openers, EnsureProgress(t)
      PROVE  ResultOK'
  <2>1. Shrinks
    BY <1>13, ExpireShrinks, Zenon DEF EnsureProgress
  <2> QED
    BY <1>13, <2>1, ResultShrinks, Zenon DEF EnsureProgress, ExpireCalls, ResultOK
<1>14. CASE OpenBegin
  BY <1>14, GotoFrame, ResultFrame, Zenon DEF OpenBegin
<1>15. CASE PumpTop
  <2>1. CASE stopPump
    BY <1>15, <2>1, ResultFrame, Zenon DEF PumpTop, Serving
  <2>2. CASE ~stopPump
    <3>1. Shrinks
      BY <1>15, <2>2, ExpireShrinks, Zenon DEF PumpTop
    <3> QED
      BY <1>15, <2>2, <3>1, ResultShrinks, Zenon DEF PumpTop, ExpireCalls, ResultOK, Serving
  <2> QED
    BY <2>1, <2>2, Zenon
<1>16. CASE PumpTake
  BY <1>16, TakeResult, Zenon
<1>17. CASE PumpCheck
  <2>1. inFlight \in Calls /\ result[inFlight] # "none" /\ result[inFlight] \in Results
    BY <1>17, Zenon DEF PumpCheck, ResultOK, Serving, TypeOK
  <2>2. /\ \/ result' = result /\ pump' = "calling"
           \/ Settle({inFlight}) /\ pump' = "clear"
        /\ UNCHANGED <<pending, inFlight, accepting, accepted, erasing, pc>>
        /\ pump \in Serving /\ pump' \in Serving
    BY <1>17, Zenon DEF PumpCheck, Serving
  <2>3. /\ \A d \in Calls : \/ result'[d] = result[d]
                            \/ result'[d] = "ready" /\ pc'[d] \in Handed
        /\ pump' = "clear" => result'[inFlight] = "ready"
    BY <2>1, <2>2, SettleShape, Zenon
  <2> QED
    BY <2>2, <2>3, ResultForward, Zenon
<1>18. CASE PumpAnswer
  <2>1. inFlight \in Calls /\ result[inFlight] # "none" /\ result[inFlight] \in Results
    BY <1>18, Zenon DEF PumpAnswer, ResultOK, Serving, TypeOK
  <2>2. /\ \/ result' = result /\ pump' = "calling"
           \/ Settle({inFlight}) /\ pump' = "clear"
        /\ UNCHANGED <<pending, inFlight, accepting, accepted, erasing, pc>>
        /\ pump \in Serving /\ pump' \in Serving
    BY <1>18, Zenon DEF PumpAnswer, Serving
  <2>3. /\ \A d \in Calls : \/ result'[d] = result[d]
                            \/ result'[d] = "ready" /\ pc'[d] \in Handed
        /\ pump' = "clear" => result'[inFlight] = "ready"
    BY <2>1, <2>2, SettleShape, Zenon
  <2> QED
    BY <2>2, <2>3, ResultForward, Zenon
<1>19. CASE PumpClear
  BY <1>19, Zenon DEF PumpClear, ResultOK, Serving
<1>20. CASE PumpProbe
  BY <1>20, ResultFrame, Zenon DEF PumpProbe, Serving
<1>21. CASE PumpProbeFails
  BY <1>21, ResultFrame, Zenon DEF PumpProbeFails, Serving
<1>22. CASE PumpRequest
  BY <1>22, ResultFrame, Zenon DEF PumpRequest, Serving
<1>23. CASE PumpMark
  BY <1>23, ResultFrame, Zenon DEF PumpMark, Serving
<1>24. CASE PumpProgress
  <2>1. Shrinks
    BY <1>24, ExpireShrinks, Zenon DEF PumpProgress
  <2> QED
    BY <1>24, <2>1, ResultShrinks, Zenon DEF PumpProgress, ExpireCalls, ResultOK
<1>25. CASE WorkerTake
  BY <1>25, GotoFrame, ResultFrame, Zenon DEF WorkerTake
<1>26. CASE WorkerCheck
  BY <1>26, GotoFrame, ResultFrame, Zenon DEF WorkerCheck
<1>27. CASE WorkerRecover
  <2>1. CASE Wanted
    <3>1. pending' = <<>> /\ Settle(ToSet(pending) \cup {inFlight})
      BY <1>27, <2>1, Zenon DEF WorkerRecover, CancelCalls
    <3>2. Shrinks
      BY <3>1, CancelShrinks, Zenon
    <3> QED
      BY <1>27, <2>1, <3>2, GotoFrame, ResultShrinks, Zenon DEF WorkerRecover, CancelCalls, ResultOK
  <2>2. CASE ~Wanted
    BY <1>27, <2>2, GotoFrame, ResultFrame, Zenon DEF WorkerRecover
  <2> QED
    BY <2>1, <2>2, Zenon
<1>28. CASE WorkerStopPump
  BY <1>28, GotoFrame, ResultFrame, Zenon DEF WorkerStopPump
<1>29. CASE WorkerClose
  BY <1>29, GotoFrame, ResultFrame, Zenon DEF WorkerClose, Joined, Serving
<1>30. CASE WorkerDrain
  <2>1. pending' = <<>> /\ Settle(ToSet(pending) \cup {inFlight})
    BY <1>30, Zenon DEF WorkerDrain, CancelCalls
  <2>2. Shrinks
    BY <2>1, CancelShrinks, Zenon
  <2> QED
    BY <1>30, <2>2, GotoFrame, ResultShrinks, Zenon DEF WorkerDrain, CancelCalls, ResultOK, Destroying, Drained
<1>31. CASE WorkerVerify
  BY <1>31, GotoFrame, ResultFrame, Zenon DEF WorkerVerify
<1>32. CASE WorkerRecovered
  BY <1>32, GotoFrame, ResultFrame, Zenon DEF WorkerRecovered
<1>33. CASE WorkerFailed
  BY <1>33, GotoFrame, ResultFrame, Zenon DEF WorkerFailed
<1>34. CASE WorkerBackoff
  BY <1>34, GotoFrame, ResultFrame, Zenon DEF WorkerBackoff
<1>35. CASE Bind
  BY <1>35, ResultFrame, Zenon DEF Bind
<1>36. CASE Unbind
  BY <1>36, ResultFrame, Zenon DEF Unbind
<1>37. CASE RetireBegin
  BY <1>37, GotoFrame, ResultFrame DEF RetireBegin, Destroying, Drained
<1>38. CASE ResetAdvance
  BY <1>38, GotoFrame, ResultFrame DEF ResetAdvance, Destroying, Drained
<1>39. CASE ResetCancel
  <2>1. pending' = <<>> /\ Settle(ToSet(pending) \cup {inFlight})
    BY <1>39, Zenon DEF ResetCancel, CancelCalls
  <2>2. Shrinks
    BY <2>1, CancelShrinks, Zenon
  <2> QED
    BY <1>39, <2>2, GotoFrame, ResultShrinks DEF ResetCancel, CancelCalls, ResultOK, Destroying, Drained
<1>40. CASE ResetForget
  BY <1>40, GotoFrame, ResultFrame DEF ResetForget, Destroying, Drained
<1>41. CASE ResetUnbind
  BY <1>41, GotoFrame, ResultFrame DEF ResetUnbind, Destroying, Drained
<1>42. CASE ResetStopPump
  BY <1>42, GotoFrame, ResultFrame DEF ResetStopPump, Destroying, Drained
<1>43. CASE ResetClose
  BY <1>43, GotoFrame, ResultFrame DEF ResetClose, Joined, Serving, Destroying, Drained
<1>44. CASE ResetDrain
  <2>1. pending' = <<>> /\ Settle(ToSet(pending) \cup {inFlight})
    BY <1>44, Zenon DEF ResetDrain, CancelCalls
  <2>2. Shrinks
    BY <2>1, CancelShrinks, Zenon
  <2> QED
    BY <1>44, <2>2, GotoFrame, ResultShrinks DEF ResetDrain, CancelCalls, ResultOK, Destroying, Drained
<1>45. CASE RetireEnd
  BY <1>45, GotoFrame, ResultFrame DEF RetireEnd, Destroying, Drained
<1>46. CASE DestroyRefuse
  <2>1. /\ \A c \in Calls : pc'[c] = pc[c]
        /\ pc'["reset"] \notin Drained
        /\ ~accepting'
    BY <1>46, GotoFrame DEF DestroyRefuse, Drained
  <2> QED
    BY <1>46, <2>1, Zenon DEF DestroyRefuse, ResultOK
<1>47. CASE DestroyAdvance
  BY <1>47, GotoFrame, ResultFrame DEF DestroyAdvance, Destroying, Drained
<1>48. CASE DestroyCancel
  <2>1. pending' = <<>> /\ Settle(ToSet(pending) \cup {inFlight})
    BY <1>48, Zenon DEF DestroyCancel, CancelCalls
  <2>2. /\ Shrinks
        /\ \A c \in ToSet(pending) \cup {inFlight} : c \in Calls => result'[c] # "pending"
    BY <2>1, CancelShrinks, Zenon
  <2>3. \A c \in Calls : result'[c] # "pending"
    BY <2>2, Zenon DEF Shrinks, ResultOK
  <2>4. ~accepting'
    BY <1>48, Zenon DEF DestroyCancel, CancelCalls, ResultOK, Destroying
  <2> QED
    BY <1>48, <2>2, <2>3, <2>4, GotoFrame, ResultShrinks, Zenon DEF DestroyCancel, CancelCalls
<1>49. CASE DestroyUnbind
  BY <1>49, GotoFrame, ResultFrame DEF DestroyUnbind, Destroying, Drained
<1>50. CASE DestroyStopWorker
  BY <1>50, GotoFrame, ResultFrame DEF DestroyStopWorker, Destroying, Drained
<1>51. CASE DestroyStopPump
  BY <1>51, GotoFrame, ResultFrame, Zenon DEF DestroyStopPump, Destroying, Drained
<1>52. CASE DestroyEnd
  BY <1>52, GotoFrame, ResultFrame, Zenon DEF DestroyEnd, Joined, Serving, Destroying, Drained
<1> QED
  BY <1>1, <1>2, <1>3, <1>4, <1>5, <1>6, <1>7, <1>8, <1>9, <1>10, <1>11, <1>12, <1>13,
      <1>14, <1>15, <1>16, <1>17, <1>18, <1>19, <1>20, <1>21, <1>22, <1>23, <1>24,
      <1>25, <1>26, <1>27, <1>28, <1>29, <1>30, <1>31, <1>32, <1>33, <1>34, <1>35,
      <1>36, <1>37, <1>38, <1>39, <1>40, <1>41, <1>42, <1>43, <1>44, <1>45, <1>46,
      <1>47, <1>48, <1>49, <1>50, <1>51, <1>52, Zenon DEF Next, CallStep, EnsureStep, PumpStep, WorkerStep, ResetStep

\* A step that leaves the order of acceptance alone.
LEMMA BeforeFrame ==
    ASSUME accepted' = accepted
    PROVE  \A c, d : Before(c, d)' <=> Before(c, d)
BY Zenon DEF Before

\* A step that leaves the queue and the histories alone, and takes no call.
LEMMA OrderFrame ==
    ASSUME OrderOK, UNCHANGED <<pending, accepted, sent>>,
           pump' = "check" => pump = "check" /\ inFlight' = inFlight
    PROVE  OrderOK'
<1>1. \A c, d : Before(c, d)' <=> Before(c, d)
  BY BeforeFrame, Zenon
<1>2. AcceptedOnce' /\ OnlyAccepted'
  BY Zenon DEF OrderOK, AcceptedOnce, OnlyAccepted
<1>3. SentInOrder' /\ SentFirst'
  BY <1>1, Zenon DEF OrderOK, SentInOrder, SentFirst
<1>4. QueuedInOrder'
  BY <1>1, Zenon DEF OrderOK, QueuedInOrder
<1>5. TakenBetween'
  BY <1>1, Zenon DEF OrderOK, TakenBetween
<1> QED
  BY <1>2, <1>3, <1>4, <1>5, Zenon DEF OrderOK

\* A step that shortens the queue.
LEMMA OrderPart ==
    ASSUME TypeOK, OrderOK, UNCHANGED <<accepted, sent>>,
           pending' \in Seq(Calls), Part(pending'),
           pump' = "check" => pump = "check" /\ inFlight' = inFlight
    PROVE  OrderOK'
<1>1. PICK f \in [1..Len(pending') -> 1..Len(pending)] :
              /\ \A m, n \in 1..Len(pending') : m < n => f[m] < f[n]
              /\ \A n \in 1..Len(pending') : pending'[n] = pending[f[n]]
  BY Zenon DEF Part
<1>2. \A c, d : Before(c, d)' <=> Before(c, d)
  BY BeforeFrame, Zenon
<1>3. \A n \in 1..Len(pending') : pending'[n] = pending[f[n]] /\ f[n] \in 1..Len(pending)
  BY <1>1, Zenon
<1>4. OnlyAccepted'
  <2>1. DOMAIN pending = 1..Len(pending) /\ DOMAIN pending' = 1..Len(pending')
    BY DEF TypeOK
  <2>2. ASSUME NEW c \in ToSet(pending')
        PROVE  c \in ToSet(pending)
    <3>1. PICK n \in 1..Len(pending') : c = pending'[n]
      BY <2>1, <2>2, Zenon DEF ToSet
    <3>2. PICK m \in 1..Len(pending) : c = pending[m]
      BY <1>3, <3>1, Zenon
    <3> QED
      BY <2>1, <3>2, Zenon DEF ToSet
  <2> QED
    BY <2>2, Zenon DEF OrderOK, OnlyAccepted
<1>5. SentFirst'
  BY <1>2, <1>3, Zenon DEF OrderOK, SentFirst
<1>6. QueuedInOrder'
  BY <1>1, <1>2, <1>3, Zenon DEF OrderOK, QueuedInOrder
<1>7. TakenBetween'
  BY <1>2, <1>3, Zenon DEF OrderOK, TakenBetween
<1>8. AcceptedOnce' /\ SentInOrder'
  BY <1>2, Zenon DEF OrderOK, AcceptedOnce, SentInOrder
<1> QED
  BY <1>4, <1>5, <1>6, <1>7, <1>8, Zenon DEF OrderOK

\* What Append does to a sequence of calls.
LEMMA AppendShape ==
    ASSUME NEW s \in Seq(Calls), NEW c \in Calls
    PROVE  /\ Len(Append(s, c)) = Len(s) + 1 /\ Len(s) \in Nat
           /\ \A i \in 1..Len(s) : Append(s, c)[i] = s[i]
           /\ Append(s, c)[Len(s) + 1] = c
OBVIOUS

\* A step that accepts a call that was not accepted before, at the end of the queue.
LEMMA OrderAccept ==
    ASSUME TypeOK, OrderOK, NEW c \in Calls, c \notin ToSet(accepted),
           pending' = Append(pending, c), accepted' = Append(accepted, c),
           UNCHANGED <<pump, inFlight, sent>>
    PROVE  OrderOK'
<1>1. /\ pending \in Seq(Calls) /\ accepted \in Seq(Calls)
      /\ DOMAIN accepted = 1..Len(accepted)
      /\ DOMAIN pending = 1..Len(pending) /\ DOMAIN sent = 1..Len(sent)
  BY DEF TypeOK
<1>2. /\ Len(accepted') = Len(accepted) + 1 /\ Len(accepted) \in Nat
      /\ \A i \in 1..Len(accepted) : accepted'[i] = accepted[i]
      /\ accepted'[Len(accepted) + 1] = c
  BY <1>1, AppendShape, Zenon
<1>3. /\ Len(pending') = Len(pending) + 1 /\ Len(pending) \in Nat
      /\ \A i \in 1..Len(pending) : pending'[i] = pending[i]
      /\ pending'[Len(pending) + 1] = c
  BY <1>1, AppendShape, Zenon
<1>4. /\ ToSet(pending') = ToSet(pending) \cup {c}
      /\ ToSet(accepted') = ToSet(accepted) \cup {c}
  BY <1>1, AppendSet, Zenon
<1>5. \A j \in 1..Len(pending') : j \in 1..Len(pending) \/ pending'[j] = c
  BY <1>3
<1>6. \A d, e : Before(d, e) => Before(d, e)'
  BY <1>2 DEF Before
<1>7. \A d \in ToSet(accepted) : Before(d, c)'
  <2>1. \A d \in ToSet(accepted) : \E i \in 1..Len(accepted) : accepted[i] = d
    BY <1>1, Zenon DEF ToSet
  <2> QED
    BY <1>2, <2>1 DEF Before
<1>8. AcceptedOnce'
  <2>1. \A i \in 1..Len(accepted) : accepted[i] # c
    BY <1>1, Zenon DEF ToSet
  <2> QED
    BY <1>2, <2>1 DEF OrderOK, AcceptedOnce
<1>9. OnlyAccepted'
  BY <1>4, Zenon DEF OrderOK, OnlyAccepted
<1>10. SentInOrder'
  BY <1>6, Zenon DEF OrderOK, SentInOrder
<1>11. \A i \in 1..Len(sent) : Before(sent[i], c)'
  <2>1. \A i \in 1..Len(sent) : sent[i] \in ToSet(sent)
    BY <1>1, Zenon DEF ToSet
  <2> QED
    BY <1>7, <2>1, Zenon DEF OrderOK, OnlyAccepted
<1>12. \A j \in 1..Len(pending) : Before(pending[j], c)'
  <2>1. \A j \in 1..Len(pending) : pending[j] \in ToSet(pending)
    BY <1>1, Zenon DEF ToSet
  <2> QED
    BY <1>3, <1>7, <2>1, Zenon DEF OrderOK, OnlyAccepted
<1>13. SentFirst'
  <2>1. \A i \in 1..Len(sent), j \in 1..Len(pending) : Before(sent[i], pending[j])'
    BY <1>3, <1>6, Zenon DEF OrderOK, SentFirst
  <2> QED
    BY <1>5, <1>11, <2>1, Zenon DEF SentFirst
<1>14. QueuedInOrder'
  <2>1. \A i, j \in 1..Len(pending) : i < j => Before(pending[i], pending[j])'
    BY <1>3, <1>6, Zenon DEF OrderOK, QueuedInOrder
  <2>2. \A i, j \in 1..Len(pending') : i < j => i \in 1..Len(pending)
    BY <1>3
  <2> QED
    BY <1>5, <1>12, <2>1, <2>2, Zenon DEF QueuedInOrder
<1>15. TakenBetween'
  <2>1. CASE pump # "check"
    BY <2>1, Zenon DEF TakenBetween
  <2>2. CASE pump = "check"
    <3>1. inFlight' \in ToSet(accepted)
      BY <2>2, Zenon DEF OrderOK, TakenBetween
    <3>2. \A i \in 1..Len(sent) : Before(sent[i], inFlight)'
      BY <2>2, <1>6, Zenon DEF OrderOK, TakenBetween
    <3>3. \A j \in 1..Len(pending) : Before(inFlight, pending[j])'
      BY <2>2, <1>3, <1>6, Zenon DEF OrderOK, TakenBetween
    <3>4. \A j \in 1..Len(pending') : Before(inFlight, pending[j])'
      BY <1>5, <1>7, <3>1, <3>3, Zenon
    <3> QED
      BY <1>4, <3>1, <3>2, <3>4, Zenon DEF TakenBetween
  <2> QED
    BY <2>1, <2>2, Zenon
<1> QED
  BY <1>8, <1>9, <1>10, <1>13, <1>14, <1>15, Zenon DEF OrderOK

\* A step that takes the p-th call of the queue to send it, and drops those before it.
LEMMA OrderTake ==
    ASSUME TypeOK, OrderOK, UNCHANGED <<accepted, sent>>, pending' \in Seq(Calls),
           NEW p \in 1..Len(pending),
           inFlight' = pending[p],
           Len(pending') = Len(pending) - p,
           \A i \in 1..Len(pending') : pending'[i] = pending[p + i]
    PROVE  OrderOK'
<1>1. /\ DOMAIN pending = 1..Len(pending) /\ DOMAIN pending' = 1..Len(pending')
      /\ Len(pending) \in Nat
  BY DEF TypeOK
<1>2. \A c, d : Before(c, d)' <=> Before(c, d)
  BY BeforeFrame, Zenon
<1>3. \A i \in 1..Len(pending') :
          pending'[i] = pending[p + i] /\ p + i \in 1..Len(pending) /\ p < p + i
  BY <1>1
<1>4. ToSet(pending') \subseteq ToSet(pending) /\ inFlight' \in ToSet(pending)
  BY <1>1, <1>3, Zenon DEF ToSet
<1>5. AcceptedOnce' /\ SentInOrder'
  BY <1>2, Zenon DEF OrderOK, AcceptedOnce, SentInOrder
<1>6. OnlyAccepted'
  BY <1>4, Zenon DEF OrderOK, OnlyAccepted
<1>7. SentFirst'
  BY <1>2, <1>3, Zenon DEF OrderOK, SentFirst
<1>8. QueuedInOrder'
  <2>1. \A i, j \in 1..Len(pending') : i < j => p + i < p + j
    BY <1>1
  <2> QED
    BY <1>2, <1>3, <2>1, Zenon DEF OrderOK, QueuedInOrder
<1>9. TakenBetween'
  <2>1. inFlight' \in ToSet(accepted')
    BY <1>4, Zenon DEF OrderOK, OnlyAccepted
  <2>2. \A i \in 1..Len(sent) : Before(sent[i], inFlight')
    BY Zenon DEF OrderOK, SentFirst
  <2>3. \A j \in 1..Len(pending') : Before(inFlight', pending'[j])
    BY <1>3, Zenon DEF OrderOK, QueuedInOrder
  <2> QED
    BY <1>2, <2>1, <2>2, <2>3, Zenon DEF TakenBetween
<1> QED
  BY <1>5, <1>6, <1>7, <1>8, <1>9, Zenon DEF OrderOK

\* A step that sends the call in flight.
LEMMA OrderSend ==
    ASSUME TypeOK, OrderOK, UNCHANGED <<accepted, pending>>, inFlight \in Calls,
           pump = "check", pump' # "check", sent' = Append(sent, inFlight)
    PROVE  OrderOK'
<1>1. \A c, d : Before(c, d)' <=> Before(c, d)
  BY BeforeFrame, Zenon
<1>2. sent \in Seq(Calls)
  BY Zenon DEF TypeOK
<1>3. /\ Len(sent') = Len(sent) + 1 /\ Len(sent) \in Nat
      /\ \A i \in 1..Len(sent) : sent'[i] = sent[i]
      /\ sent'[Len(sent) + 1] = inFlight
  BY <1>2, AppendShape, Zenon
<1>4. ToSet(sent') = ToSet(sent) \cup {inFlight}
  BY <1>2, AppendSet, Zenon
<1>5. \A i \in 1..Len(sent') : i \in 1..Len(sent) \/ sent'[i] = inFlight
  BY <1>3
<1>6. AcceptedOnce' /\ QueuedInOrder'
  BY <1>1, Zenon DEF OrderOK, AcceptedOnce, QueuedInOrder
<1>7. OnlyAccepted'
  BY <1>4, Zenon DEF OrderOK, OnlyAccepted, TakenBetween
<1>8. SentInOrder'
  <2>1. \A i, j \in 1..Len(sent') : i < j => i \in 1..Len(sent)
    BY <1>3
  <2>2. \A i \in 1..Len(sent) : Before(sent'[i], inFlight)
    BY <1>3, Zenon DEF OrderOK, TakenBetween
  <2>3. \A i, j \in 1..Len(sent) : i < j => Before(sent'[i], sent'[j])
    BY <1>3, Zenon DEF OrderOK, SentInOrder
  <2> QED
    BY <1>1, <1>5, <2>1, <2>2, <2>3, Zenon DEF SentInOrder
<1>9. SentFirst'
  <2>1. \A j \in 1..Len(pending) : Before(inFlight, pending[j])
    BY Zenon DEF OrderOK, TakenBetween
  <2>2. \A i \in 1..Len(sent), j \in 1..Len(pending) : Before(sent'[i], pending[j])
    BY <1>3, Zenon DEF OrderOK, SentFirst
  <2> QED
    BY <1>1, <1>5, <2>1, <2>2, Zenon DEF SentFirst
<1>10. TakenBetween'
  BY Zenon DEF TakenBetween
<1> QED
  BY <1>6, <1>7, <1>8, <1>9, <1>10, Zenon DEF OrderOK

\* A step keeps what was sent, is in flight and is queued in order.
LEMMA OrderStep ==
    ASSUME TypeOK, ResultOK, OrderOK, [Next]_vars
    PROVE  OrderOK'
<1> USE ConstantsAssumption DEF Goto, queueVars, callVars, sessionVars, healthVars,
        workerVars, fenceVars, historyVars
<1>1. CASE UNCHANGED vars
  BY <1>1, OrderFrame, Zenon DEF vars
<1>2. ASSUME NEW c \in Calls, Deadline(c)
      PROVE  OrderOK'
  BY <1>2, OrderFrame, Zenon DEF Deadline
<1>3. ASSUME NEW c \in Calls, CallEnter(c)
      PROVE  OrderOK'
  BY <1>3, OrderFrame, Zenon DEF CallEnter, Return
<1>4. ASSUME NEW c \in Calls, CallSubmit(c)
      PROVE  OrderOK'
  BY <1>4, OrderFrame, Zenon DEF CallSubmit, Return
<1>5. ASSUME NEW c \in Calls, CallEnqueue(c)
      PROVE  OrderOK'
  <2>1. pump' = pump /\ inFlight' = inFlight /\ sent' = sent
    BY <1>5, Zenon DEF CallEnqueue
  <2>2. CASE UNCHANGED <<pending, accepted>>
    BY <2>1, <2>2, OrderFrame, Zenon
  <2>3. CASE pending' = Append(pending, c) /\ accepted' = Append(accepted, c)
    <3>1. c \notin ToSet(accepted)
      BY <1>5, Zenon DEF CallEnqueue, ResultOK, Handed
    <3> QED
      BY <2>1, <2>3, <3>1, OrderAccept, Zenon
  <2> QED
    BY <1>5, <2>2, <2>3, Zenon DEF CallEnqueue
<1>6. ASSUME NEW c \in Calls, CallLeave(c)
      PROVE  OrderOK'
  BY <1>6, OrderFrame, Zenon DEF CallLeave, Return
<1>7. ASSUME NEW c \in Calls, CancelOperation(c)
      PROVE  OrderOK'
  BY <1>7, OrderFrame, Zenon DEF CancelOperation
<1>8. ASSUME NEW c \in Calls, CancelHandler(c)
      PROVE  OrderOK'
  <2>1. Shrinks
    BY <1>8, HandlerShrinks, Zenon
  <2> QED
    BY <1>8, <2>1, OrderPart, Zenon DEF CancelHandler, Shrinks
<1>9. ASSUME NEW t \in Openers, EnsureBegin(t)
      PROVE  OrderOK'
  BY <1>9, OrderFrame, Zenon DEF EnsureBegin, EnsureReturn
<1>10. ASSUME NEW t \in Openers, EnsureJoin(t)
      PROVE  OrderOK'
  BY <1>10, OrderFrame, Zenon DEF EnsureJoin
<1>11. ASSUME NEW t \in Openers, EnsureFail(t)
      PROVE  OrderOK'
  BY <1>11, OrderFrame, Zenon DEF EnsureFail, EnsureReturn
<1>12. ASSUME NEW t \in Openers, EnsureOpen(t)
      PROVE  OrderOK'
  BY <1>12, OrderFrame, Zenon DEF EnsureOpen, EnsureReturn
<1>13. ASSUME NEW t \in Openers, EnsureProgress(t)
      PROVE  OrderOK'
  <2>1. Shrinks
    BY <1>13, ExpireShrinks, Zenon DEF EnsureProgress
  <2> QED
    BY <1>13, <2>1, OrderPart, Zenon DEF EnsureProgress, ExpireCalls, Shrinks
<1>14. CASE OpenBegin
  BY <1>14, OrderFrame, Zenon DEF OpenBegin
<1>15. CASE PumpTop
  <2>1. CASE stopPump
    BY <1>15, <2>1, OrderFrame, Zenon DEF PumpTop
  <2>2. CASE ~stopPump
    <3>1. Shrinks
      BY <1>15, <2>2, ExpireShrinks, Zenon DEF PumpTop
    <3> QED
      BY <1>15, <2>2, <3>1, OrderPart, Zenon DEF PumpTop, Shrinks
  <2> QED
    BY <2>1, <2>2, Zenon
<1>16. CASE PumpTake
  <2>1. UNCHANGED <<accepted, sent>> /\ pending' \in Seq(Calls) /\ Part(pending')
    BY <1>16, TakeShape, Zenon DEF PumpTake
  <2>2. CASE pump' = "probe"
    BY <2>1, <2>2, OrderPart, Zenon
  <2>3. CASE \E p \in 1..Len(pending) :
                  /\ inFlight' = pending[p]
                  /\ Len(pending') = Len(pending) - p
                  /\ \A i \in 1..Len(pending') : pending'[i] = pending[p + i]
    <3>1. PICK p \in 1..Len(pending) :
                  /\ inFlight' = pending[p]
                  /\ Len(pending') = Len(pending) - p
                  /\ \A i \in 1..Len(pending') : pending'[i] = pending[p + i]
      BY <2>3, Zenon
    <3> QED
      BY <2>1, <3>1, OrderTake, Zenon
  <2> QED
    BY <1>16, <2>2, <2>3, TakeShape, Zenon
<1>17. CASE PumpCheck
  <2>1. UNCHANGED <<accepted, pending>> /\ pump = "check" /\ pump' # "check"
    BY <1>17, Zenon DEF PumpCheck
  <2>2. CASE sent' = sent
    BY <2>1, <2>2, OrderFrame, Zenon
  <2>3. CASE sent' = Append(sent, inFlight)
    <3>1. inFlight \in Calls
      BY <2>1, Zenon DEF ResultOK, Serving
    <3> QED
      BY <2>1, <2>3, <3>1, OrderSend, Zenon
  <2> QED
    BY <1>17, <2>2, <2>3, Zenon DEF PumpCheck
<1>18. CASE PumpAnswer
  BY <1>18, OrderFrame, Zenon DEF PumpAnswer
<1>19. CASE PumpClear
  BY <1>19, OrderFrame, Zenon DEF PumpClear
<1>20. CASE PumpProbe
  BY <1>20, OrderFrame, Zenon DEF PumpProbe
<1>21. CASE PumpProbeFails
  BY <1>21, OrderFrame, Zenon DEF PumpProbeFails
<1>22. CASE PumpRequest
  BY <1>22, OrderFrame, Zenon DEF PumpRequest
<1>23. CASE PumpMark
  BY <1>23, OrderFrame, Zenon DEF PumpMark
<1>24. CASE PumpProgress
  <2>1. Shrinks
    BY <1>24, ExpireShrinks, Zenon DEF PumpProgress
  <2> QED
    BY <1>24, <2>1, OrderPart, Zenon DEF PumpProgress, ExpireCalls, Shrinks
<1>25. CASE WorkerTake
  BY <1>25, OrderFrame, Zenon DEF WorkerTake
<1>26. CASE WorkerCheck
  BY <1>26, OrderFrame, Zenon DEF WorkerCheck
<1>27. CASE WorkerRecover
  <2>1. pending' = <<>> \/ pending' = pending
    BY <1>27, Zenon DEF WorkerRecover, CancelCalls
  <2> QED
    BY <1>27, <2>1, EmptyIsPart, OrderPart, OrderFrame, Zenon DEF WorkerRecover, CancelCalls
<1>28. CASE WorkerStopPump
  BY <1>28, OrderFrame, Zenon DEF WorkerStopPump
<1>29. CASE WorkerClose
  BY <1>29, OrderFrame, Zenon DEF WorkerClose, Joined
<1>30. CASE WorkerDrain
  <2>1. pending' = <<>>
    BY <1>30, Zenon DEF WorkerDrain, CancelCalls
  <2> QED
    BY <1>30, <2>1, EmptyIsPart, OrderPart, Zenon DEF WorkerDrain, CancelCalls
<1>31. CASE WorkerVerify
  BY <1>31, OrderFrame, Zenon DEF WorkerVerify
<1>32. CASE WorkerRecovered
  BY <1>32, OrderFrame, Zenon DEF WorkerRecovered
<1>33. CASE WorkerFailed
  BY <1>33, OrderFrame, Zenon DEF WorkerFailed
<1>34. CASE WorkerBackoff
  BY <1>34, OrderFrame, Zenon DEF WorkerBackoff
<1>35. CASE Bind
  BY <1>35, OrderFrame, Zenon DEF Bind
<1>36. CASE Unbind
  BY <1>36, OrderFrame, Zenon DEF Unbind
<1>37. CASE RetireBegin
  BY <1>37, OrderFrame, Zenon DEF RetireBegin
<1>38. CASE ResetAdvance
  BY <1>38, OrderFrame, Zenon DEF ResetAdvance
<1>39. CASE ResetCancel
  <2>1. pending' = <<>>
    BY <1>39, Zenon DEF ResetCancel, CancelCalls
  <2> QED
    BY <1>39, <2>1, EmptyIsPart, OrderPart, Zenon DEF ResetCancel, CancelCalls
<1>40. CASE ResetForget
  BY <1>40, OrderFrame, Zenon DEF ResetForget
<1>41. CASE ResetUnbind
  BY <1>41, OrderFrame, Zenon DEF ResetUnbind
<1>42. CASE ResetStopPump
  BY <1>42, OrderFrame, Zenon DEF ResetStopPump
<1>43. CASE ResetClose
  BY <1>43, OrderFrame, Zenon DEF ResetClose, Joined
<1>44. CASE ResetDrain
  <2>1. pending' = <<>>
    BY <1>44, Zenon DEF ResetDrain, CancelCalls
  <2> QED
    BY <1>44, <2>1, EmptyIsPart, OrderPart, Zenon DEF ResetDrain, CancelCalls
<1>45. CASE RetireEnd
  BY <1>45, OrderFrame, Zenon DEF RetireEnd
<1>46. CASE DestroyRefuse
  BY <1>46, OrderFrame, Zenon DEF DestroyRefuse
<1>47. CASE DestroyAdvance
  BY <1>47, OrderFrame, Zenon DEF DestroyAdvance
<1>48. CASE DestroyCancel
  <2>1. pending' = <<>>
    BY <1>48, Zenon DEF DestroyCancel, CancelCalls
  <2> QED
    BY <1>48, <2>1, EmptyIsPart, OrderPart, Zenon DEF DestroyCancel, CancelCalls
<1>49. CASE DestroyUnbind
  BY <1>49, OrderFrame, Zenon DEF DestroyUnbind
<1>50. CASE DestroyStopWorker
  BY <1>50, OrderFrame, Zenon DEF DestroyStopWorker
<1>51. CASE DestroyStopPump
  BY <1>51, OrderFrame, Zenon DEF DestroyStopPump
<1>52. CASE DestroyEnd
  BY <1>52, OrderFrame, Zenon DEF DestroyEnd, Joined
<1> QED
  BY <1>1, <1>2, <1>3, <1>4, <1>5, <1>6, <1>7, <1>8, <1>9, <1>10, <1>11, <1>12, <1>13,
      <1>14, <1>15, <1>16, <1>17, <1>18, <1>19, <1>20, <1>21, <1>22, <1>23, <1>24,
      <1>25, <1>26, <1>27, <1>28, <1>29, <1>30, <1>31, <1>32, <1>33, <1>34, <1>35,
      <1>36, <1>37, <1>38, <1>39, <1>40, <1>41, <1>42, <1>43, <1>44, <1>45, <1>46,
      <1>47, <1>48, <1>49, <1>50, <1>51, <1>52, Zenon DEF Next, CallStep, EnsureStep, PumpStep, WorkerStep, ResetStep

-----------------------------------------------------------------------------
(* The theorems                                                            *)

\* The leaf begins with no session and an empty queue.
LEMMA InitIInv == Init => IInv
<1> SUFFICES ASSUME Init PROVE IInv
  BY Zenon
<1> USE ConstantsAssumption DEF Init
<1>1. Len(<<>>) = 0 /\ ToSet(<<>>) = {} /\ <<>> \in Seq(Calls)
  BY EmptyIsPart, Zenon
<1>2. TypeOK
  BY <1>1, Zenon DEF TypeOK, Results, Labels
<1>3. SessionOK
  BY Zenon DEF SessionOK, PumpOwnsAnOpenSession, Openers, Threads
<1>4. ResultOK
  BY <1>1, Zenon DEF ResultOK, Serving, Destroying, Drained, Threads
<1>5. OrderOK
  BY <1>1 DEF OrderOK, AcceptedOnce, OnlyAccepted, SentInOrder, SentFirst, QueuedInOrder,
            TakenBetween
<1> QED
  BY <1>2, <1>3, <1>4, <1>5, Zenon DEF IInv

\* The invariant of the leaf, for every set of calls, queue limit and failure
\* threshold: the session's mutex, the results that are owed and the order of the
\* queue, through cancellation, expiry, recovery, reset and destruction.
THEOREM LeafInvariant == Spec => []IInv
<1>1. IInv /\ [Next]_vars => IInv'
  BY TypeStep, SessionStep, ResultStep, OrderStep, Zenon DEF IInv
<1> QED
  BY InitIInv, <1>1, PTL DEF Spec

\* The pump runs only while its physical session is open: WorkerClose, ResetClose
\* and the destructor join it before they close the client it uses.
THEOREM PumpHasItsSession == Spec => []PumpOwnsAnOpenSession
<1>1. IInv => PumpOwnsAnOpenSession
  BY Zenon DEF IInv, SessionOK
<1> QED
  BY LeafInvariant, <1>1, PTL

\* callJson sends the calls in the order in which call_async accepted them,
\* whatever was cancelled, expired or drained in between.
THEOREM CallsAreSentInOrder == Spec => []SentInAcceptanceOrder
<1>1. ASSUME IInv
      PROVE  SentInAcceptanceOrder
  <2> DEFINE rank(c) == SelectInSeq(accepted, LAMBDA d : d = c)
  <2>1. ASSUME NEW i \in 1..Len(accepted)
        PROVE  rank(accepted[i]) = i
    BY <1>1, RankProperty, Zenon DEF IInv, TypeOK, OrderOK, AcceptedOnce
  <2> HIDE DEF rank
  <2>2. ASSUME NEW i \in 1..Len(sent), NEW j \in 1..Len(sent), i < j
        PROVE  rank(sent[i]) < rank(sent[j])
    <3>1. Before(sent[i], sent[j])
      BY <1>1, <2>2, Zenon DEF IInv, OrderOK, SentInOrder
    <3>2. PICK k, m \in 1..Len(accepted) :
                 k < m /\ accepted[k] = sent[i] /\ accepted[m] = sent[j]
      BY <3>1, Zenon DEF Before
    <3> QED
      BY <2>1, <3>2, Zenon
  <2> QED
    BY <2>2, Zenon DEF SentInAcceptanceOrder, rank
<1> QED
  BY LeafInvariant, <1>1, PTL

\* When ~AxtpAdapter has run, every operation that call_async gave out has its
\* result, and nobody waits on the leaf that is gone.
THEOREM NoResultIsOwed == Spec => []DestroyedLeafOwesNoResult
<1>1. IInv => DestroyedLeafOwesNoResult
  BY DEF IInv, ResultOK, Drained, DestroyedLeafOwesNoResult
<1> QED
  BY LeafInvariant, <1>1, PTL

=============================================================================
