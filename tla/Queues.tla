------------------------------- MODULE Queues -------------------------------
(***************************************************************************)
(* What the containers of the code do to their elements.  The operators    *)
(* that SequencesExt also has keep its names and mean the same; a module   *)
(* that extends this one instead leaves the proofs about it without the    *)
(* rest of SequencesExt, which every obligation would carry.               *)
(***************************************************************************)
EXTENDS Naturals, Sequences, FiniteSets

\* The elements of a queue
ToSet(s) == {s[i] : i \in DOMAIN s}

\* back() and what pop_back() leaves
Last(s) == s[Len(s)]

Front(s) == SubSeq(s, 1, Len(s) - 1)

\* erase(position) and insert(position, element)
RemoveAt(s, i) == SubSeq(s, 1, i - 1) \o SubSeq(s, i + 1, Len(s))

InsertAt(s, i, e) == SubSeq(s, 1, i - 1) \o <<e>> \o SubSeq(s, i, Len(s))

\* find_if from the front and from the back; 0 is end()
SelectInSeq(seq, Test(_)) ==
    LET found == {i \in 1..Len(seq) : Test(seq[i])}
    IN  IF found # {} THEN CHOOSE i \in found : \A j \in found : i <= j ELSE 0

SelectLastInSeq(seq, Test(_)) ==
    LET found == {i \in 1..Len(seq) : Test(seq[i])}
    IN  IF found # {} THEN CHOOSE i \in found : \A j \in found : i >= j ELSE 0

\* What a loop that erases elements leaves: those in the set, in their order.
\* SelectSeq says the same recursively.
Kept(queue, elements) ==
    LET kept == {i \in DOMAIN queue : queue[i] \in elements}
        upTo(i) == {j \in kept : j <= i}
    IN  [n \in 1..Cardinality(kept) |->
            queue[CHOOSE i \in kept : Cardinality(upTo(i)) = n]]
=============================================================================
