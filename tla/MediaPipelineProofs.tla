------------------------ MODULE MediaPipelineProofs -------------------------
(***************************************************************************)
(* Proofs about MediaPipeline, for every number of frames, streams,        *)
(* requests and replaced sessions: frames stay in their lease, a source    *)
(* that has ended has no stream, a frame-rate change closes before it      *)
(* opens, and its report matches what the pump still does.                 *)
(***************************************************************************)
EXTENDS MediaPipeline, TLAPS

Events == [kind : Kinds, state : SourceStates, exact : BOOLEAN, order : Nat, late : BOOLEAN]

Entries ==
    [type : {"Frame", "Opened", "Closed", "none"}, kind : Kinds \cup {"none"}, gen : Nat,
     session : Nat, token : Nat, origin : Nat, known : BOOLEAN]

Operations ==
    [on : BOOLEAN, requested : Nat, previous : Nat, streams : [Kinds -> Nat],
     configured : SUBSET Kinds, closed : SUBSET Kinds, opened : BOOLEAN,
     rollback : BOOLEAN]

Ops == {"loop", "call", "process", "source", "open", "commit", "reconfigure"}
Bottom == {"loop", "reconfigure"}
Places == {"", "waiting", "take", "push", "configure", "poll", "open", "orphans", "retry",
           "replaced", "reopen", "closing", "drained", "decide", "opened", "paired",
           "video", "audio"}

\* What each kind of activation works on
Activations ==
    {a \in [op : Ops, at : Places, todo : Seq(Kinds), events : Seq(Events \cup Entries),
            event : Events \cup {NoEvent}, closed : SUBSET Kinds, first : BOOLEAN,
            arg : Nat] :
        /\ a.op = "process" => a.events \in Seq(Events)
        /\ a.op = "commit" => a.events \in Seq(Entries)
        /\ a.op = "source" => a.event \in Events
        /\ a.op = "open" => a.todo # <<>>
        /\ a.op = "loop" /\ a.at = "open" => a.todo # <<>>
        /\ a.op = "reconfigure" /\ a.at = "waiting" => a.todo # <<>>}

TypeOK ==
    /\ core \in Seq(Entries) /\ ingress \in Seq(Entries) /\ fifo \in Seq(Entries)
    /\ incoming \in Entries /\ item \in Entries
    /\ active \in [Kinds -> Nat] /\ gens \in [Kinds -> Nat]
    /\ terminal \subseteq Kinds /\ recovering \subseteq Kinds
    /\ pending \in Seq(Events) /\ deferred \in Seq(Events) /\ order \in Nat
    /\ candidate \in [Kinds -> Nat]
    /\ bound \in Nat /\ epoch \in Nat \ {0} /\ owner \in Nat
    /\ request \in [rate : Nat, streams : [Kinds -> Nat]]
    /\ operation \in Operations
    /\ rate \in Nat /\ withheld \in BOOLEAN /\ configured \subseteq Kinds
    /\ stack \in Seq(Activations) /\ stack # <<>> /\ stack[1].op \in Bottom

\* The token of a frame is an epoch that has been, and the session that was bound
\* when the frame was decoded is the one that is bound now if it still is that epoch.
Stamped == {e \in Entries : e.token <= epoch /\ (e.token = epoch => e.origin = bound)}

Decoded == {e \in Stamped : e.kind \in Kinds}

\* Wherever a frame waits it is stamped, and one that has passed
\* is_current_media_frame is of the session that was bound when it was decoded.
LeaseOK ==
    /\ core \in Seq(Decoded) /\ ingress \in Seq(Stamped) /\ fifo \in Seq(Stamped)
    /\ incoming \in Stamped /\ item \in Stamped
    /\ \A i \in 1..Len(stack) : stack[i].op = "commit" => stack[i].events \in Seq(Stamped)
    /\ dispatcher = "deliver" => item.session = 0 \/ item.origin = item.session

\* An open never waits for another one: what it polls for can only commit frames.
OpensOK ==
    \A i \in 1..Len(stack) : stack[i].op = "open" =>
        i = Len(stack) \/ (i = Len(stack) - 1 /\ Top.op = "commit")

\* A video stream that is withheld is opened only by the reconfiguration, which is
\* pending as long as the pump is in it.
OperationOK ==
    /\ \A i \in 1..Len(stack) :
          /\ stack[i].op = "reconfigure" => operation.on
          /\ stack[i].op = "open" /\ Head(stack[i].todo) = "video" => operation.on \/ ~withheld
    /\ ReportMatchesTheOperation

\* A terminal event that names an id counts only while no stream is open, and an
\* openStream in flight for a source that has ended has no stream to replace.
EndedOK ==
    /\ \A k \in Kinds : candidate[k] # 0 => active[k] = 0
    /\ \A i \in 1..Len(stack) :
          stack[i].op = "open" /\ Head(stack[i].todo) \in terminal =>
              active[Head(stack[i].todo)] = 0
    /\ EndedSourceHasNoStream

Replacing(a) == a.op = "reconfigure" /\ a.at \in {"video", "audio"}
HasClosed == \A k \in Kinds : operation.streams[k] # 0 => k \in operation.closed

\* A generation is used once, so that a stream which the operation has seen closed
\* does not come back.
ClosedOK ==
    /\ \A k \in Kinds : /\ active[k] <= gens[k] /\ request.streams[k] <= gens[k]
                        /\ operation.streams[k] <= gens[k]
    /\ \A k \in operation.closed :
          operation.streams[k] # 0 => active[k] # operation.streams[k]
    /\ \A i \in 1..Len(stack) : Replacing(stack[i]) => HasClosed

IInv == TypeOK /\ LeaseOK /\ OpensOK /\ OperationOK /\ EndedOK /\ ClosedOK

-----------------------------------------------------------------------------
(* The operators of the model                                              *)

\* Sequences of a type
LEMMA EmptyIsSeq ==
    ASSUME NEW X
    PROVE  <<>> \in Seq(X)
OBVIOUS

\* A sequence of a type is a sequence of a wider one.
LEMMA SeqWidens ==
    ASSUME NEW X, NEW Y, X \subseteq Y, NEW s \in Seq(X)
    PROVE  s \in Seq(Y)
<1>1. Len(s) \in Nat /\ s = [i \in 1..Len(s) |-> s[i]] /\ \A i \in 1..Len(s) : s[i] \in X
  OBVIOUS
<1>2. \A i \in 1..Len(s) : s[i] \in Y
  BY <1>1
<1> QED
  BY <1>1, <1>2

\* The elements of a concatenation are those of its parts, in order.
LEMMA ConcatIsSeq ==
    ASSUME NEW X, NEW s \in Seq(X), NEW t \in Seq(X)
    PROVE  /\ s \o t \in Seq(X) /\ Len(s \o t) = Len(s) + Len(t)
           /\ \A i \in 1..Len(s) + Len(t) :
                 (s \o t)[i] = IF i <= Len(s) THEN s[i] ELSE t[i - Len(s)]
OBVIOUS

\* pop_back() takes the last element and leaves the others.
LEMMA FrontIsSeq ==
    ASSUME NEW X, NEW s \in Seq(X), s # <<>>
    PROVE  /\ Front(s) \in Seq(X) /\ Len(Front(s)) = Len(s) - 1
           /\ \A i \in 1..Len(s) - 1 : Front(s)[i] = s[i]
<1>1. Len(s) \in Nat \ {0} /\ \A i \in 1..Len(s) : s[i] \in X
  OBVIOUS
<1>2. Front(s) = [i \in 1..Len(s) - 1 |-> s[i]]
  BY <1>1 DEF Front
<1>3. Len(s) - 1 \in Nat /\ [i \in 1..Len(s) - 1 |-> s[i]] \in [1..Len(s) - 1 -> X]
  BY <1>1
<1>4. Front(s) \in Seq(X)
  BY <1>2, <1>3
<1> QED
  BY <1>2, <1>3, <1>4

\* Sequences of the same length with the same elements are the same.
LEMMA SeqsEqual ==
    ASSUME NEW X, NEW s \in Seq(X), NEW t \in Seq(X), Len(s) = Len(t),
           \A i \in 1..Len(s) : s[i] = t[i]
    PROVE  s = t
<1>1. s = [i \in 1..Len(s) |-> s[i]] /\ t = [i \in 1..Len(t) |-> t[i]]
  OBVIOUS
<1> QED
  BY <1>1

\* Three sequences one after the other, however they are grouped.
LEMMA ConcatAssoc ==
    ASSUME NEW X, NEW s \in Seq(X), NEW t \in Seq(X), NEW u \in Seq(X)
    PROVE  (s \o t) \o u = s \o (t \o u)
<1>1. (s \o t) \o u \in Seq(X) /\ s \o (t \o u) \in Seq(X)
  OBVIOUS
<1>2. Len((s \o t) \o u) = Len(s \o (t \o u))
  OBVIOUS
<1>3. \A i \in 1..Len((s \o t) \o u) : ((s \o t) \o u)[i] = (s \o (t \o u))[i]
  OBVIOUS
<1> QED
  BY <1>1, <1>2, <1>3, SeqsEqual

\* The kinds in order, what is queued when streams close, and what stays of an entry.
LEMMA InOrderShape ==
    ASSUME NEW ks \in SUBSET Kinds
    PROVE  InOrder(ks) \in Seq(Kinds) /\ (InOrder(ks) = <<>> <=> ks = {})
<1>1. CASE "video" \in ks /\ "audio" \in ks
  <2>1. InOrder(ks) = <<"video">> \o <<"audio">>
    BY <1>1, Zenon DEF InOrder
  <2> QED
    BY <1>1, <2>1 DEF Kinds
<1>2. CASE "video" \in ks /\ "audio" \notin ks
  <2>1. InOrder(ks) = <<"video">> \o <<>>
    BY <1>2, Zenon DEF InOrder
  <2> QED
    BY <1>2, <2>1 DEF Kinds
<1>3. CASE "video" \notin ks /\ "audio" \in ks
  <2>1. InOrder(ks) = <<>> \o <<"audio">>
    BY <1>3, Zenon DEF InOrder
  <2> QED
    BY <1>3, <2>1 DEF Kinds
<1>4. CASE "video" \notin ks /\ "audio" \notin ks
  <2>1. InOrder(ks) = <<>> \o <<>>
    BY <1>4, Zenon DEF InOrder
  <2> QED
    BY <1>4, <2>1 DEF Kinds
<1> QED
  BY <1>1, <1>2, <1>3, <1>4, Zenon

\* The front of the stack and its top
LEMMA TopShape ==
    ASSUME TypeOK
    PROVE  /\ Top \in Activations /\ Below \in Seq(Activations)
           /\ Len(stack) \in Nat \ {0} /\ Len(Below) = Len(stack) - 1
           /\ \A i \in 1..Len(Below) : Below[i] = stack[i]
<1>1. stack \in Seq(Activations) /\ stack # <<>>
  BY Zenon DEF TypeOK
<1>2. Len(stack) \in Nat \ {0} /\ \A i \in 1..Len(stack) : stack[i] \in Activations
  BY <1>1, EmptyIsSeq
<1>3. Below \in Seq(Activations) /\ Len(Below) = Len(stack) - 1
  BY <1>1, FrontIsSeq, Zenon DEF Below
<1>4. \A i \in 1..Len(stack) - 1 : Below[i] = stack[i]
  BY <1>1, FrontIsSeq, Zenon DEF Below
<1> QED
  BY <1>2, <1>3, <1>4 DEF Top

\* An activation that a step adds to the stack, or leaves there in another state
Fresh(a) ==
    /\ a \in Activations
    /\ a.op = "commit" => a.events \in Seq(Stamped')
    /\ a.op = "open" =>
          /\ Head(a.todo) \notin terminal'
          /\ Head(a.todo) = "video" => operation'.on \/ ~withheld'
    /\ a.op = "reconfigure" => operation'.on /\ (Replacing(a) => HasClosed')

NewOK(new) ==
    /\ new \in Seq(Activations)
    /\ \A i \in 1..Len(new) : Fresh(new[i]) /\ (new[i].op = "open" => i = Len(new))

\* The pump begins with an empty stack, or the top of the stack is replaced.
Replaced(new) ==
    stack' = new /\ NewOK(new) /\ new # <<>> /\ new[1].op \in Bottom

Rebuilt(new) ==
    /\ stack' = Below \o new /\ NewOK(new)
    /\ Top.op \in Bottom => new # <<>> /\ new[1].op \in Bottom
    /\ Top.op = "commit" => new = <<>> \/ (Len(new) = 1 /\ new[1].op = "commit")

\* What all proofs need to know of a step of the stack
StackTyped == stack' \in Seq(Activations) /\ stack' # <<>> /\ stack'[1].op \in Bottom

StackKept ==
    \A i \in 1..Len(stack') :
        (i \in 1..Len(stack) /\ stack'[i] = stack[i]) \/ Fresh(stack'[i])

StackStep == StackTyped /\ StackKept /\ OpensOK'

\* A step that begins a new stack
LEMMA ReplacedStep ==
    ASSUME NEW new, Replaced(new)
    PROVE  StackStep
<1>1. StackTyped
  BY Zenon DEF Replaced, NewOK, StackTyped
<1>2. StackKept
  BY Zenon DEF Replaced, NewOK, StackKept
<1>3. OpensOK'
  BY Zenon DEF Replaced, NewOK, OpensOK
<1> QED
  BY <1>1, <1>2, <1>3, Zenon DEF StackStep

\* A step that replaces the top of the stack.  An open below the top has a commit
\* above it, which only the end of the commit, or its next half, replaces.
LEMMA RebuiltStep ==
    ASSUME TypeOK, OpensOK, NEW new, Rebuilt(new)
    PROVE  StackStep
<1>1. /\ Below \in Seq(Activations) /\ Len(stack) \in Nat \ {0}
      /\ Len(Below) = Len(stack) - 1
      /\ \A i \in 1..Len(Below) : Below[i] = stack[i]
  BY TopShape, Zenon
<1>2. new \in Seq(Activations) /\ Len(new) \in Nat
  BY DEF Rebuilt, NewOK
<1>3. /\ Below \o new \in Seq(Activations)
      /\ Len(Below \o new) = Len(Below) + Len(new)
      /\ \A i \in 1..Len(Below) + Len(new) : (Below \o new)[i] =
                     IF i <= Len(Below) THEN Below[i] ELSE new[i - Len(Below)]
  BY <1>1, <1>2, ConcatIsSeq
<1>4. stack' = Below \o new
  BY Zenon DEF Rebuilt
<1>5. \A i \in 1..Len(stack') :
          \/ i \in 1..Len(Below) /\ stack'[i] = stack[i]
          \/ i - Len(Below) \in 1..Len(new) /\ stack'[i] = new[i - Len(Below)]
  BY <1>1, <1>2, <1>3, <1>4
<1>6. Len(stack') = Len(Below) + Len(new)
  BY <1>3, <1>4, Zenon
<1>7. \A i \in 1..Len(new) : Fresh(new[i]) /\ (new[i].op = "open" => i = Len(new))
  BY Zenon DEF Rebuilt, NewOK
<1>8. StackKept
  <2>1. \A i \in 1..Len(Below) : i \in 1..Len(stack)
    BY <1>1
  <2> QED
    BY <1>5, <1>7, <2>1, Zenon DEF StackKept
<1>9. StackTyped
  <2>1. CASE Len(stack) = 1
    <3>1. new # <<>> /\ new[1].op \in Bottom
      BY <2>1, Zenon DEF TypeOK, Top, Rebuilt
    <3>2. Len(new) # 0 /\ Len(Below) = 0
      BY <1>1, <1>2, <2>1, <3>1
    <3>3. stack' # <<>> /\ stack'[1] = new[1]
      BY <1>2, <1>3, <1>4, <1>6, <3>2
    <3> QED
      BY <1>3, <1>4, <3>1, <3>3, Zenon DEF StackTyped
  <2>2. CASE Len(stack) # 1
    <3>1. 1 \in 1..Len(Below) /\ Len(stack') # 0
      BY <1>1, <1>2, <1>6, <2>2
    <3>2. stack'[1] = stack[1] /\ stack' # <<>>
      BY <1>1, <1>2, <1>3, <1>4, <3>1
    <3> QED
      BY <1>3, <1>4, <3>2, Zenon DEF StackTyped, TypeOK
  <2> QED
    BY <2>1, <2>2, Zenon
<1>10. ASSUME NEW i \in 1..Len(stack'), stack'[i].op = "open"
       PROVE  i = Len(stack') \/ (i = Len(stack') - 1 /\ stack'[Len(stack')].op = "commit")
  <2>1. CASE i \in 1..Len(Below) /\ stack'[i] = stack[i]
    <3>1. i = Len(stack) - 1 /\ Top.op = "commit"
      <4>1. i \in 1..Len(stack) /\ i # Len(stack)
        BY <1>1, <2>1
      <4> QED
        BY <1>10, <2>1, <4>1, Zenon DEF OpensOK
    <3>2. CASE new = <<>>
      BY <1>1, <1>6, <2>1, <3>1, <3>2
    <3>3. CASE Len(new) = 1 /\ new[1].op = "commit"
      <4>1. Len(stack') = Len(stack) /\ stack'[Len(stack')] = new[1]
        BY <1>1, <1>3, <1>4, <1>6, <3>3
      <4> QED
        BY <3>1, <3>3, <4>1
    <3> QED
      BY <3>1, <3>2, <3>3, Zenon DEF Rebuilt
  <2>2. CASE i - Len(Below) \in 1..Len(new) /\ stack'[i] = new[i - Len(Below)]
    <3>1. i - Len(Below) = Len(new)
      BY <1>7, <1>10, <2>2, Zenon
    <3> QED
      BY <1>1, <1>2, <1>6, <3>1
  <2> QED
    BY <1>5, <2>1, <2>2, Zenon
<1>11. OpensOK'
  BY <1>10, Zenon DEF OpensOK, Top
<1> QED
  BY <1>8, <1>9, <1>11, Zenon DEF StackStep

\* A commit inside a call of the pump
LEMMA PushedStep ==
    ASSUME TypeOK, OpensOK, Fresh(Commit), stack' = Append(stack, Commit), Top.op # "commit"
    PROVE  StackStep
<1>1. stack \in Seq(Activations) /\ stack # <<>> /\ Commit \in Activations
  BY Zenon DEF TypeOK, Fresh
<1>2. /\ stack' \in Seq(Activations) /\ stack' # <<>>
      /\ Len(stack') = Len(stack) + 1
      /\ \A i \in 1..Len(stack) : stack'[i] = stack[i]
      /\ stack'[Len(stack) + 1] = Commit
  BY <1>1
<1>3. Len(stack) \in Nat \ {0}
  BY <1>1, EmptyIsSeq
<1>4. \A i \in 1..Len(stack') : i \in 1..Len(stack) \/ i = Len(stack) + 1
  BY <1>2, <1>3
<1>5. StackKept
  BY <1>2, <1>4, Zenon DEF StackKept
<1>6. StackTyped
  <2>1. stack'[1] = stack[1]
    BY <1>2, <1>3
  <2> QED
    BY <1>2, <2>1, Zenon DEF StackTyped, TypeOK
<1>7. OpensOK'
  <2>1. Commit.op = "commit"
    BY DEF Commit, Activation
  <2>2. ASSUME NEW i \in 1..Len(stack'), stack'[i].op = "open"
        PROVE  i = Len(stack') - 1 /\ stack'[Len(stack')].op = "commit"
    <3>1. i \in 1..Len(stack) /\ stack[i].op = "open"
      BY <1>2, <1>4, <2>1, <2>2
    <3>2. i = Len(stack)
      BY <3>1, Zenon DEF OpensOK
    <3> QED
      BY <1>2, <1>3, <2>1, <3>2
  <2> QED
    BY <2>2, Zenon DEF OpensOK, Top
<1> QED
  BY <1>5, <1>6, <1>7, Zenon DEF StackStep

\* Sequences of fresh activations
LEMMA NewNone == NewOK(<<>>)
<1>1. <<>> \in Seq(Activations) /\ Len(<<>>) = 0
  BY EmptyIsSeq
<1>2. \A i \in 1..Len(<<>>) : FALSE
  BY <1>1
<1> QED
  BY <1>1, <1>2, Zenon DEF NewOK

\* One fresh activation is all that the step puts on the stack.
LEMMA NewOne ==
    ASSUME NEW a, Fresh(a)
    PROVE  NewOK(<<a>>) /\ <<a>> # <<>> /\ Len(<<a>>) = 1 /\ <<a>>[1] = a
<1>1. a \in Activations
  BY Zenon DEF Fresh
<1>2. <<a>> \in Seq(Activations) /\ Len(<<a>>) = 1 /\ <<a>>[1] = a /\ <<a>> # <<>>
  BY <1>1
<1>3. \A i \in 1..Len(<<a>>) : i = 1
  BY <1>2
<1> QED
  BY <1>2, <1>3, Zenon DEF NewOK

\* A fresh activation under others; only the last one may be in openStream.
LEMMA NewMore ==
    ASSUME NEW a, Fresh(a), a.op # "open", NEW o, NewOK(o)
    PROVE  NewOK(<<a>> \o o) /\ <<a>> \o o # <<>> /\ (<<a>> \o o)[1] = a
<1>1. a \in Activations /\ o \in Seq(Activations)
  BY Zenon DEF Fresh, NewOK
<1>2. <<a>> \in Seq(Activations) /\ Len(<<a>>) = 1 /\ <<a>>[1] = a /\ Len(o) \in Nat
  BY <1>1
<1>3. /\ <<a>> \o o \in Seq(Activations)
      /\ Len(<<a>> \o o) = Len(<<a>>) + Len(o)
      /\ \A i \in 1..Len(<<a>>) + Len(o) : (<<a>> \o o)[i] =
                     IF i <= Len(<<a>>) THEN <<a>>[i] ELSE o[i - Len(<<a>>)]
  BY <1>1, <1>2, ConcatIsSeq
<1> DEFINE s == <<a>> \o o
<1>4. /\ s \in Seq(Activations) /\ Len(s) = 1 + Len(o)
      /\ s[1] = a /\ \A i \in 2..Len(s) : s[i] = o[i - 1]
  BY <1>2, <1>3
<1> HIDE DEF s
<1>5. s # <<>>
  BY <1>2, <1>4
<1>6. \A i \in 1..Len(s) : i = 1 \/ (i \in 2..Len(s) /\ i - 1 \in 1..Len(o))
  BY <1>2, <1>4
<1>7. \A i \in 1..Len(s) : Fresh(s[i])
  BY <1>4, <1>6, Zenon DEF NewOK
<1>8. ASSUME NEW i \in 1..Len(s), s[i].op = "open"
      PROVE  i = Len(s)
  <2>1. i \in 2..Len(s) /\ i - 1 \in 1..Len(o) /\ s[i] = o[i - 1]
    BY <1>4, <1>6, <1>8, Zenon
  <2>2. i - 1 = Len(o)
    BY <1>8, <2>1, Zenon DEF NewOK
  <2> QED
    BY <1>2, <1>4, <2>1, <2>2
<1> QED
  BY <1>4, <1>5, <1>7, <1>8, Zenon DEF NewOK, s

\* Two fresh activations, the second called by the first.
LEMMA NewTwo ==
    ASSUME NEW a, Fresh(a), a.op # "open", NEW b, Fresh(b)
    PROVE  NewOK(<<a, b>>) /\ <<a, b>> # <<>> /\ <<a, b>>[1] = a
<1>1. <<a, b>> = <<a>> \o <<b>>
  OBVIOUS
<1>2. NewOK(<<b>>)
  BY NewOne, Zenon
<1> QED
  BY <1>1, <1>2, NewMore, Zenon

\* Two fresh activations under others.
LEMMA NewTwoMore ==
    ASSUME NEW a, Fresh(a), a.op # "open", NEW b, Fresh(b), b.op # "open",
           NEW o, NewOK(o)
    PROVE  NewOK(<<a, b>> \o o) /\ <<a, b>> \o o # <<>> /\ (<<a, b>> \o o)[1] = a
<1>1. a \in Activations /\ b \in Activations /\ o \in Seq(Activations)
  BY Zenon DEF Fresh, NewOK
<1>2. <<a>> \in Seq(Activations) /\ <<b>> \in Seq(Activations) /\ <<a, b>> = <<a>> \o <<b>>
  BY <1>1
<1>3. <<a, b>> \o o = <<a>> \o (<<b>> \o o)
  BY <1>1, <1>2, ConcatAssoc
<1>4. NewOK(<<b>> \o o)
  BY NewMore, Zenon
<1> QED
  BY <1>3, <1>4, NewMore, Zenon

\* Activations without an obligation of their own
LEMMA PlainFresh ==
    ASSUME NEW a \in Activations, a.op \in {"loop", "call", "process", "source"}
    PROVE  Fresh(a) /\ a.op # "open" /\ a.op # "commit"
BY DEF Fresh

\* Every call of the pump's code with a place of it is an activation.
LEMMA ActivationType ==
    ASSUME NEW op \in {"loop", "call", "process", "commit"}, NEW at \in Places,
           NEW todo \in Seq(Kinds), op = "loop" /\ at = "open" => todo # <<>>
    PROVE  Activation(op, at, todo) \in Activations /\ Activation(op, at, todo).op = op
<1>1. NoEvent \in Events \cup {NoEvent} /\ <<>> \in Seq(Events \cup Entries)
      /\ <<>> \in Seq(Events) /\ <<>> \in Seq(Entries) /\ {} \in SUBSET Kinds
  BY EmptyIsSeq
<1> HIDE DEF NoEvent
<1>2. /\ Activation(op, at, todo).op = op
      /\ Activation(op, at, todo).at = at
      /\ Activation(op, at, todo).todo = todo
      /\ Activation(op, at, todo).events = <<>>
      /\ Activation(op, at, todo) \in
           [op : Ops, at : Places, todo : Seq(Kinds), events : Seq(Events \cup Entries),
            event : Events \cup {NoEvent}, closed : SUBSET Kinds, first : BOOLEAN,
            arg : Nat]
  BY <1>1 DEF Activation, Ops
<1> QED
  BY <1>1, <1>2 DEF Activations

\* The pump's loop may be put at any of its places.
LEMMA LoopFresh ==
    ASSUME NEW at \in Places, NEW todo \in Seq(Kinds), at = "open" => todo # <<>>
    PROVE  Fresh(Loop(at, todo)) /\ Loop(at, todo).op = "loop"
BY ActivationType, PlainFresh, Zenon DEF Loop

\* Entering a call into the leaf is always allowed.
LEMMA CallFresh == Fresh(Call) /\ Call.op = "call"
<1>1. <<>> \in Seq(Kinds) /\ "waiting" \in Places
  BY EmptyIsSeq DEF Places
<1> QED
  BY <1>1, ActivationType, PlainFresh, Zenon DEF Call

\* Entering process_core_entry is always allowed.
LEMMA ProcessFresh == Fresh(Process) /\ Process.op = "process"
<1>1. <<>> \in Seq(Kinds) /\ "" \in Places
  BY EmptyIsSeq DEF Places
<1>2. Process \in Activations /\ Process.op = "process"
  BY <1>1, ActivationType DEF Process
<1> QED
  BY <1>2, PlainFresh

\* Entering commit_core_events is allowed: it has taken no events yet.
LEMMA CommitFresh == Fresh(Commit) /\ Commit.op = "commit"
<1>1. <<>> \in Seq(Kinds) /\ "take" \in Places /\ <<>> \in Seq(Stamped')
  BY EmptyIsSeq DEF Places
<1>2. Commit \in Activations /\ Commit.op = "commit"
  BY <1>1, ActivationType, Zenon DEF Commit
<1>3. Commit.events = <<>>
  BY DEF Commit, Activation
<1> QED
  BY <1>1, <1>2, <1>3 DEF Fresh, Replacing

\* configure_media_stream_kind for a kind whose source has not ended
LEMMA OpenAtOK ==
    ASSUME NEW k \in Kinds, NEW r \in Nat, terminal' = terminal,
           k = "video" => operation'.on \/ ~withheld'
    PROVE  NewOK(OpenAt(k, r))
<1> DEFINE a == [Activation("open", "waiting", <<k>>) EXCEPT !.arg = r]
<1>1. CASE k \in terminal
  BY <1>1, NewNone, Zenon DEF OpenAt
<1>2. CASE k \notin terminal
  <2>1. <<k>> \in Seq(Kinds) /\ Head(<<k>>) = k /\ <<k>> # <<>>
    OBVIOUS
  <2>2. NoEvent \in Events \cup {NoEvent} /\ <<>> \in Seq(Events \cup Entries)
        /\ {} \in SUBSET Kinds /\ "waiting" \in Places
    BY EmptyIsSeq DEF Places
  <2>3. /\ a \in [op : Ops, at : Places, todo : Seq(Kinds), events : Seq(Events \cup Entries),
                  event : Events \cup {NoEvent}, closed : SUBSET Kinds, first : BOOLEAN,
                  arg : Nat]
        /\ a.op = "open" /\ a.todo = <<k>>
    <3> HIDE DEF NoEvent
    <3> QED
      BY <2>1, <2>2 DEF Activation, Ops
  <2> HIDE DEF a
  <2>4. a \in Activations
    BY <2>1, <2>3 DEF Activations
  <2>5. Fresh(a)
    BY <1>2, <2>1, <2>3, <2>4 DEF Fresh, Replacing
  <2>6. OpenAt(k, r) = <<a>>
    BY <1>2, Zenon DEF OpenAt, a
  <2> QED
    BY <2>5, <2>6, NewOne, Zenon
<1> QED
  BY <1>1, <1>2, Zenon

\* What configure_media_stream_kind begins: openStream for a kind that has not ended and is
\* not withheld, or nothing.
LEMMA OpenOK ==
    ASSUME TypeOK, NEW k \in Kinds, UNCHANGED <<terminal, operation, withheld>>
    PROVE  NewOK(Open(k))
<1>1. CASE operation.on \/ (k = "video" /\ withheld)
  BY <1>1, NewNone, Zenon DEF Open
<1>2. CASE ~(operation.on \/ (k = "video" /\ withheld))
  <2>1. rate \in Nat /\ (k = "video" => operation'.on \/ ~withheld')
    BY <1>2, Zenon DEF TypeOK
  <2>2. NewOK(OpenAt(k, rate))
    BY <2>1, OpenAtOK, Zenon
  <2> QED
    BY <1>2, <2>2, Zenon DEF Open
<1> QED
  BY <1>1, <1>2, Zenon

\* What progress() begins: one commit, or nothing.
LEMMA CommitStagedOK ==
    /\ NewOK(CommitStaged)
    /\ CommitStaged = <<>> \/ CommitStaged = <<Commit>>
BY NewNone, NewOne, CommitFresh, Zenon DEF CommitStaged

-----------------------------------------------------------------------------
(* What the steps do to the stack                                          *)

\* The steps in which the pump returns, goes on, or goes on and calls
LEMMA SameStack ==
    ASSUME TypeOK, OpensOK, stack' = stack
    PROVE  StackStep
<1>1. StackTyped
  BY Zenon DEF StackTyped, TypeOK
<1>2. StackKept
  BY Zenon DEF StackKept
<1>3. OpensOK'
  BY Zenon DEF OpensOK, Top
<1> QED
  BY <1>1, <1>2, <1>3, Zenon DEF StackStep

\* The top returns and its caller goes on with new calls.
LEMMA BelowMore ==
    ASSUME TypeOK, OpensOK, NEW new, NewOK(new), stack' = Below \o new,
           Top.op \notin Bottom, Top.op # "commit"
    PROVE  StackStep
BY RebuiltStep, Zenon DEF Rebuilt

\* The top returns.
LEMMA ReturnStep ==
    ASSUME TypeOK, OpensOK, Return, Top.op \notin Bottom
    PROVE  StackStep
<1>1. Below \o <<>> = Below
  BY TopShape
<1> QED
  BY <1>1, NewNone, RebuiltStep, Zenon DEF Rebuilt, Return

\* The top goes on at another place of its code.
LEMMA GotoStep ==
    ASSUME TypeOK, OpensOK, NEW a, Fresh(a), Goto(a),
           Top.op \in Bottom => a.op \in Bottom, Top.op = "commit" => a.op = "commit"
    PROVE  StackStep
<1>1. a \in Activations /\ Below \in Seq(Activations)
  BY TopShape, Zenon DEF Fresh
<1>2. Append(Below, a) = Below \o <<a>>
  BY <1>1
<1>3. NewOK(<<a>>) /\ <<a>> # <<>> /\ Len(<<a>>) = 1 /\ <<a>>[1] = a
  BY NewOne, Zenon
<1>4. Rebuilt(<<a>>)
  BY <1>2, <1>3, Zenon DEF Rebuilt, Goto
<1> QED
  BY <1>4, RebuiltStep, Zenon

\* The top goes on at another place and makes calls.
LEMMA GotoMore ==
    ASSUME TypeOK, OpensOK, NEW a, Fresh(a), a.op # "open", NEW o, NewOK(o),
           stack' = Append(Below, a) \o o, Top.op \notin Bottom, Top.op # "commit"
    PROVE  StackStep
<1>1. a \in Activations /\ Below \in Seq(Activations) /\ o \in Seq(Activations)
  BY TopShape, Zenon DEF Fresh, NewOK
<1>2. Append(Below, a) = Below \o <<a>> /\ <<a>> \in Seq(Activations)
  BY <1>1
<1>3. (Below \o <<a>>) \o o = Below \o (<<a>> \o o)
  BY <1>1, <1>2, ConcatAssoc
<1>4. NewOK(<<a>> \o o)
  BY NewMore, Zenon
<1>5. stack' = Below \o (<<a>> \o o)
  BY <1>2, <1>3, Zenon
<1> QED
  BY <1>4, <1>5, BelowMore, Zenon

\* The top of the stack in another state
LEMMA ProcessAgain ==
    ASSUME TypeOK, Top.op = "process", NEW s \in Seq(Events)
    PROVE  /\ Fresh([Top EXCEPT !.events = s])
           /\ [Top EXCEPT !.events = s].op = "process"
<1>1. Top \in Activations
  BY TopShape, Zenon
<1>2. s \in Seq(Events \cup Entries)
  BY SeqWidens
<1>3. [Top EXCEPT !.events = s] \in Activations /\ [Top EXCEPT !.events = s].op = "process"
  BY <1>1, <1>2 DEF Activations
<1> QED
  BY <1>3, PlainFresh, Zenon

\* A loop over the kinds of a source event keeps its event while it moves on.
LEMMA SourceAgain ==
    ASSUME TypeOK, Top.op = "source", NEW at \in Places, NEW first \in BOOLEAN,
           NEW todo \in Seq(Kinds)
    PROVE  /\ Fresh([Top EXCEPT !.at = at]) /\ [Top EXCEPT !.at = at].op = "source"
           /\ Fresh([Top EXCEPT !.todo = todo]) /\ [Top EXCEPT !.todo = todo].op = "source"
           /\ Fresh([Top EXCEPT !.at = at, !.first = first])
           /\ [Top EXCEPT !.at = at, !.first = first].op = "source"
<1>1. Top \in Activations
  BY TopShape, Zenon
<1>2. [Top EXCEPT !.at = at] \in Activations /\ [Top EXCEPT !.at = at].op = "source"
  BY <1>1 DEF Activations
<1>3. [Top EXCEPT !.todo = todo] \in Activations /\ [Top EXCEPT !.todo = todo].op = "source"
  BY <1>1 DEF Activations
<1>4. /\ [Top EXCEPT !.at = at, !.first = first] \in Activations
      /\ [Top EXCEPT !.at = at, !.first = first].op = "source"
  BY <1>1 DEF Activations
<1> QED
  BY <1>2, <1>3, <1>4, PlainFresh, Zenon

\* The loop over the kinds that a source event closed begins.
LEMMA SourceFresh ==
    ASSUME NEW at \in Places, NEW e \in Events, NEW closed \in SUBSET Kinds
    PROVE  LET a == [Activation("source", at, InOrder(closed)) EXCEPT
                        !.event = e, !.closed = closed]
           IN  Fresh(a) /\ a.op = "source"
<1> DEFINE a == [Activation("source", at, InOrder(closed)) EXCEPT
                    !.event = e, !.closed = closed]
<1>1. InOrder(closed) \in Seq(Kinds)
  BY InOrderShape, Zenon
<1>2. <<>> \in Seq(Events \cup Entries)
  BY EmptyIsSeq
<1>3. /\ a \in [op : Ops, at : Places, todo : Seq(Kinds), events : Seq(Events \cup Entries),
                event : Events \cup {NoEvent}, closed : SUBSET Kinds, first : BOOLEAN,
                arg : Nat]
      /\ a.op = "source" /\ a.event = e
  <2> HIDE DEF NoEvent
  <2> QED
    BY <1>1, <1>2 DEF Activation, Ops
<1> HIDE DEF a
<1>4. a \in Activations /\ a.op = "source"
  BY <1>3 DEF Activations
<1>5. Fresh(a)
  BY <1>4, PlainFresh, Zenon
<1> QED
  BY <1>4, <1>5, Zenon DEF a

\* What the top of the stack works on
LEMMA TopFacts ==
    ASSUME TypeOK
    PROVE  /\ Top.todo \in Seq(Kinds) /\ Top.closed \in SUBSET Kinds /\ Top.arg \in Nat
           /\ Top.op = "process" => Top.events \in Seq(Events)
           /\ Top.op = "commit" => Top.events \in Seq(Entries)
           /\ Top.op = "source" => Top.event \in Events /\ Top.event.kind \in Kinds
           /\ Top.op = "open" => Top.todo # <<>> /\ Head(Top.todo) \in Kinds
           /\ At("loop", "open") => Top.todo # <<>>
           /\ At("reconfigure", "waiting") => Top.todo # <<>> /\ Head(Top.todo) \in Kinds
<1>1. Top \in Activations
  BY TopShape, Zenon
<1>2. /\ Top.todo \in Seq(Kinds) /\ Top.closed \in SUBSET Kinds /\ Top.arg \in Nat
      /\ Top.op = "process" => Top.events \in Seq(Events)
      /\ Top.op = "commit" => Top.events \in Seq(Entries)
      /\ Top.op = "source" => Top.event \in Events
      /\ Top.op = "open" => Top.todo # <<>>
      /\ Top.op = "loop" /\ Top.at = "open" => Top.todo # <<>>
      /\ Top.op = "reconfigure" /\ Top.at = "waiting" => Top.todo # <<>>
  BY <1>1 DEF Activations
<1>3. Top.event \in Events => Top.event.kind \in Kinds
  BY DEF Events
<1>4. Top.todo # <<>> => Head(Top.todo) \in Kinds
  BY <1>2
<1> QED
  BY <1>2, <1>3, <1>4, Zenon DEF At

\* The steps of process_core_entry keep the stack well formed.
LEMMA ProcessSteps ==
    ASSUME TypeOK, OpensOK,
           ProcessTake \/ ProcessTerminal \/ ProcessIgnored \/ ProcessStreamable
    PROVE  StackStep
<1>1. Top.op = "process" /\ Top.op \notin Bottom /\ Top.op # "commit"
  BY DEF ProcessTake, ProcessTerminal, ProcessIgnored, ProcessStreamable, At, Bottom
<1>2. Top.events \in Seq(Events)
  BY <1>1, TopFacts, Zenon
<1>3. Top.events # <<>> => Tail(Top.events) \in Seq(Events) /\ Head(Top.events) \in Events
  BY <1>2
<1>4. Top.events # <<>> => /\ Fresh([Top EXCEPT !.events = Tail(@)])
                          /\ [Top EXCEPT !.events = Tail(@)].op = "process"
  BY <1>1, <1>3, ProcessAgain, Zenon
<1>5. CASE ProcessTake
  <2>1. deferred \o pending \in Seq(Events)
    BY ConcatIsSeq DEF TypeOK
  <2>2. CASE Return
    BY <1>1, <2>2, ReturnStep, Zenon
  <2>3. CASE Goto([Top EXCEPT !.events = deferred \o pending])
    <3>1. /\ Fresh([Top EXCEPT !.events = deferred \o pending])
          /\ [Top EXCEPT !.events = deferred \o pending].op = "process"
      BY <1>1, <2>1, ProcessAgain, Zenon
    <3> QED
      BY <1>1, <2>3, <3>1, GotoStep, Zenon
  <2> QED
    BY <1>5, <2>2, <2>3, Zenon DEF ProcessTake
<1>6. CASE ProcessTerminal \/ ProcessIgnored
  <2>1. Goto([Top EXCEPT !.events = Tail(@)]) /\ Top.events # <<>>
    BY <1>6, Zenon DEF ProcessTerminal, ProcessIgnored
  <2> QED
    BY <1>1, <1>4, <2>1, GotoStep, Zenon
<1>7. CASE ProcessStreamable
  <2>1. Top.events # <<>>
    BY <1>7, Zenon DEF ProcessStreamable
  <2>2. PICK e \in {Head(Top.events)} :
        \E closed \in {IF e.kind = "video" /\ cycle.on /\ ~cycle.sent
                       THEN {k \in Kinds : cycle.close[k] # 0} ELSE {}} :
           stack' = Below \o <<[Top EXCEPT !.events = Tail(@)],
                      [Activation("source", IF closed = {} THEN "decide" ELSE "closing",
                                  InOrder(closed)) EXCEPT !.event = e, !.closed = closed]>>
    BY <1>7, Zenon DEF ProcessStreamable
  <2>3. PICK closed \in {IF e.kind = "video" /\ cycle.on /\ ~cycle.sent
                         THEN {k \in Kinds : cycle.close[k] # 0} ELSE {}} :
           stack' = Below \o <<[Top EXCEPT !.events = Tail(@)],
                      [Activation("source", IF closed = {} THEN "decide" ELSE "closing",
                                  InOrder(closed)) EXCEPT !.event = e, !.closed = closed]>>
    BY <2>2, Zenon
  <2>4. closed \in SUBSET Kinds /\ e \in Events
        /\ (IF closed = {} THEN "decide" ELSE "closing") \in Places
    BY <1>3, <2>1 DEF Places
  <2> DEFINE a == [Top EXCEPT !.events = Tail(@)]
             b == [Activation("source", IF closed = {} THEN "decide" ELSE "closing",
                              InOrder(closed)) EXCEPT !.event = e, !.closed = closed]
  <2>5. Fresh(b)
    BY <2>4, SourceFresh, Zenon
  <2>6. Fresh(a) /\ a.op # "open"
    BY <1>4, <2>1
  <2>7. stack' = Below \o <<a, b>>
    BY <2>3, Zenon
  <2> HIDE DEF a, b
  <2>8. NewOK(<<a, b>>)
    BY <2>5, <2>6, NewTwo, Zenon
  <2> QED
    BY <1>1, <2>7, <2>8, BelowMore, Zenon
<1> QED
  BY <1>5, <1>6, <1>7, Zenon

\* So do the steps of the loop over the kinds of a source event,
LEMMA SourceSteps ==
    ASSUME TypeOK, OpensOK,
           SourceClosing \/ SourceDrained \/ SourceIsActive \/ SourceOpen
              \/ SourceOpened \/ SourcePaired
    PROVE  StackStep
<1>1. Top.op = "source" /\ Top.op \notin Bottom /\ Top.op # "commit"
  BY DEF SourceClosing, SourceDrained, SourceIsActive, SourceOpen, SourceOpened,
         SourcePaired, At, Bottom
<1>2. Top.todo \in Seq(Kinds) /\ Top.event.kind \in Kinds
  BY <1>1, TopFacts, Zenon
<1>3. Other(Top.event.kind) \in Kinds
  BY DEF Other, Kinds
<1>4. ASSUME NEW at \in {"drained", "decide", "opened", "paired"}
      PROVE  /\ Fresh([Top EXCEPT !.at = at]) /\ [Top EXCEPT !.at = at].op = "source"
             /\ \A first \in BOOLEAN :
                   /\ Fresh([Top EXCEPT !.at = at, !.first = first])
                   /\ [Top EXCEPT !.at = at, !.first = first].op = "source"
  <2>1. at \in Places
    BY DEF Places
  <2> QED
    BY <1>1, <1>2, <2>1, SourceAgain, Zenon
<1>5. ASSUME NEW k \in Kinds, UNCHANGED <<terminal, operation, withheld>>
      PROVE  NewOK(Open(k))
  BY <1>5, OpenOK, Zenon
<1>6. CASE SourceClosing
  <2>1. CASE Top.todo = <<>>
    <3>1. stack' = Below \o <<[Top EXCEPT !.at = "drained"], Process>>
      BY <1>6, <2>1, Zenon DEF SourceClosing
    <3>2. Fresh([Top EXCEPT !.at = "drained"]) /\ [Top EXCEPT !.at = "drained"].op # "open"
      BY <1>4
    <3>3. NewOK(<<[Top EXCEPT !.at = "drained"], Process>>)
      BY <3>2, ProcessFresh, NewTwo, Zenon
    <3> QED
      BY <1>1, <3>1, <3>3, BelowMore, Zenon
  <2>2. CASE Top.todo # <<>>
    <3>1. stack' = Below \o <<[Top EXCEPT !.todo = Tail(@)], Call>>
      BY <1>6, <2>2, Zenon DEF SourceClosing
    <3>2. Tail(Top.todo) \in Seq(Kinds) /\ "drained" \in Places
      BY <1>2, <2>2 DEF Places
    <3>3. /\ Fresh([Top EXCEPT !.todo = Tail(@)])
          /\ [Top EXCEPT !.todo = Tail(@)].op = "source"
      BY <1>1, <3>2, SourceAgain, Zenon
    <3>4. [Top EXCEPT !.todo = Tail(@)].op # "open"
      BY <3>3
    <3>5. NewOK(<<[Top EXCEPT !.todo = Tail(@)], Call>>)
      BY <3>3, <3>4, CallFresh, NewTwo, Zenon
    <3> QED
      BY <1>1, <3>1, <3>5, BelowMore, Zenon
  <2> QED
    BY <2>1, <2>2, Zenon
<1>7. CASE SourceDrained
  <2>1. Return \/ Goto([Top EXCEPT !.at = "decide"])
    BY <1>7, Zenon DEF SourceDrained
  <2> QED
    BY <1>1, <1>4, <2>1, ReturnStep, GotoStep
<1>8. CASE SourceIsActive \/ SourcePaired
  BY <1>1, <1>8, ReturnStep, Zenon DEF SourceIsActive, SourcePaired
<1>9. CASE SourceOpen
  <2>1. UNCHANGED <<terminal, operation, withheld>>
    BY <1>9, Zenon DEF SourceOpen, media, flags, params, settings
  <2>2. \/ stack' = Append(Below, [Top EXCEPT !.at = "opened"]) \o Open(Top.event.kind)
        \/ Return \/ Goto([Top EXCEPT !.at = "opened"])
    BY <1>9, Zenon DEF SourceOpen, Return, Goto
  <2>3. /\ Fresh([Top EXCEPT !.at = "opened"]) /\ [Top EXCEPT !.at = "opened"].op = "source"
        /\ [Top EXCEPT !.at = "opened"].op # "open"
    BY <1>4
  <2>4. NewOK(Open(Top.event.kind))
    BY <1>2, <1>5, <2>1, Zenon
  <2> QED
    BY <1>1, <2>2, <2>3, <2>4, GotoMore, ReturnStep, GotoStep, Zenon
<1>10. CASE SourceOpened
  <2>1. UNCHANGED <<terminal, operation, withheld>>
    BY <1>10, Zenon DEF SourceOpened, params, settings
  <2>2. NewOK(Open(Other(Top.event.kind)))
    BY <1>3, <1>5, <2>1, Zenon
  <2>3. \/ Return
        \/ \E first \in BOOLEAN :
              stack' = Append(Below, [Top EXCEPT !.at = "paired", !.first = first])
                           \o Open(Other(Top.event.kind))
    BY <1>10, Zenon DEF SourceOpened
  <2>4. ASSUME NEW first \in BOOLEAN,
               stack' = Append(Below, [Top EXCEPT !.at = "paired", !.first = first])
                           \o Open(Other(Top.event.kind))
        PROVE  StackStep
    <3>1. /\ Fresh([Top EXCEPT !.at = "paired", !.first = first])
          /\ [Top EXCEPT !.at = "paired", !.first = first].op # "open"
      BY <1>4
    <3> QED
      BY <1>1, <2>2, <2>4, <3>1, GotoMore, Zenon
  <2> QED
    BY <1>1, <2>3, <2>4, ReturnStep, Zenon
<1> QED
  BY <1>6, <1>7, <1>8, <1>9, <1>10, Zenon

\* the steps of calls into the leaf, of openStream and of the commit,
LEMMA CallSteps ==
    ASSUME TypeOK, OpensOK, LeaseOK,
           ProgressCommit \/ OpenFails \/ OpenIsOrphan \/ OpenSucceeds \/ CallReturns
              \/ CommitTake \/ CommitPush
    PROVE  StackStep
<1>1. CASE ProgressCommit
  <2>1. Top.op # "commit"
    BY <1>1 DEF ProgressCommit, Polling, At
  <2>2. stack' = Append(stack, Commit)
    BY <1>1, Zenon DEF ProgressCommit
  <2> QED
    BY <2>1, <2>2, CommitFresh, PushedStep, Zenon
<1>2. CASE OpenFails \/ OpenIsOrphan \/ OpenSucceeds
  <2>1. Top.op \notin Bottom /\ Top.op # "commit"
    BY <1>2 DEF OpenFails, OpenIsOrphan, OpenSucceeds, At, Bottom
  <2>2. stack' = Below \o CommitStaged
    BY <1>2, Zenon DEF OpenFails, OpenIsOrphan, OpenSucceeds, EndTransition
  <2> QED
    BY <2>1, <2>2, CommitStagedOK, BelowMore, Zenon
<1>3. CASE CallReturns \/ CommitPush
  <2>1. Top.op \notin Bottom
    BY <1>3 DEF CallReturns, CommitPush, At, Bottom
  <2> QED
    BY <1>3, <2>1, ReturnStep, Zenon DEF CallReturns, CommitPush
<1>4. CASE CommitTake
  <2>1. Top.op = "commit" /\ Top.op \notin Bottom
    BY <1>4 DEF CommitTake, At, Bottom
  <2>2. CASE Return
    BY <2>1, <2>2, ReturnStep, Zenon
  <2>3. CASE Goto([Top EXCEPT !.at = "push", !.events = ingress])
    <3> DEFINE a == [Top EXCEPT !.at = "push", !.events = ingress]
    <3>1. epoch' = epoch /\ bound' = bound
      BY <1>4, Zenon DEF CommitTake, lease
    <3>2. ingress \in Seq(Stamped') /\ ingress \in Seq(Entries)
      BY <3>1 DEF LeaseOK, TypeOK, Stamped
    <3>3. Top \in Activations /\ ingress \in Seq(Events \cup Entries) /\ "push" \in Places
      BY <3>2, TopShape, SeqWidens DEF Places
    <3>4. a \in Activations /\ a.op = "commit" /\ a.events = ingress
      BY <2>1, <3>2, <3>3 DEF Activations
    <3>5. Goto(a)
      BY <2>3, Zenon
    <3> HIDE DEF a
    <3>6. Fresh(a)
      BY <3>2, <3>4 DEF Fresh, Replacing
    <3> QED
      BY <2>1, <3>4, <3>5, <3>6, GotoStep, Zenon
  <2> QED
    BY <1>4, <2>2, <2>3, Zenon DEF CommitTake
<1> QED
  BY <1>1, <1>2, <1>3, <1>4, Zenon

\* The stack of a loop that has nothing in progress
LEMMA LoopStep ==
    ASSUME NEW at \in Places, NEW todo \in Seq(Kinds), at = "open" => todo # <<>>,
           NEW o, NewOK(o), stack' = <<Loop(at, todo)>> \o o
    PROVE  StackStep
<1>1. Fresh(Loop(at, todo)) /\ Loop(at, todo).op = "loop"
  BY LoopFresh, Zenon
<1>2. Loop(at, todo).op # "open" /\ Loop(at, todo).op \in Bottom
  BY <1>1 DEF Bottom
<1> DEFINE new == <<Loop(at, todo)>> \o o
<1>3. NewOK(new) /\ new # <<>> /\ new[1] = Loop(at, todo)
  BY <1>1, <1>2, NewMore, Zenon
<1> QED
  BY <1>2, <1>3, ReplacedStep, Zenon DEF Replaced

\* and the steps at which only the pump's loop is left.
LEMMA LoopOnly ==
    ASSUME NEW at \in Places, NEW todo \in Seq(Kinds), at = "open" => todo # <<>>,
           stack' = <<Loop(at, todo)>>
    PROVE  StackStep
<1>1. Fresh(Loop(at, todo)) /\ Loop(at, todo).op \in Bottom
  BY LoopFresh DEF Bottom
<1> DEFINE new == <<Loop(at, todo)>>
<1>2. NewOK(new) /\ new # <<>> /\ new[1] = Loop(at, todo)
  BY <1>1, NewOne, Zenon
<1> QED
  BY <1>1, <1>2, ReplacedStep, Zenon DEF Replaced

\* The kinds that recover_source tries are kinds.
LEMMA RecoverableType ==
    ASSUME TypeOK
    PROVE  Recoverable \in Seq(Kinds)
<1>1. recovering \ terminal \in SUBSET Kinds
  BY Zenon DEF TypeOK
<1> QED
  BY <1>1, InOrderShape, Zenon DEF Recoverable

\* A replacement is opened for an operation that is pending and has closed its streams.
LEMMA ReplaceStep ==
    ASSUME TypeOK, NEW o \in Operations, NEW k \in {"video", "audio"},
           stack' = Replace(o, k), terminal' = terminal, operation'.on, HasClosed'
    PROVE  StackStep
<1> DEFINE a == [Activation("reconfigure", k, <<>>) EXCEPT !.arg = gens[k]]
           r == IF o.rollback THEN o.previous ELSE o.requested
           opens == IF k = "audio" /\ ~OpensAudio THEN <<>> ELSE OpenAt(k, r)
<1>1. k \in Kinds /\ k \in Places /\ gens[k] \in Nat
  BY DEF Kinds, Places, TypeOK
<1>2. r \in Nat
  BY DEF Operations
<1>3. <<>> \in Seq(Kinds) /\ <<>> \in Seq(Events \cup Entries) /\ {} \in SUBSET Kinds
      /\ NoEvent \in Events \cup {NoEvent}
  BY EmptyIsSeq
<1>4. /\ a \in [op : Ops, at : Places, todo : Seq(Kinds), events : Seq(Events \cup Entries),
                event : Events \cup {NoEvent}, closed : SUBSET Kinds, first : BOOLEAN,
                arg : Nat]
      /\ a.op = "reconfigure" /\ a.at = k
  <2> HIDE DEF NoEvent
  <2> QED
    BY <1>1, <1>3 DEF Activation, Ops
<1>5. stack' = <<a>> \o opens
  BY Zenon DEF Replace
<1> HIDE DEF a, r
<1>6. NewOK(opens)
  BY <1>1, <1>2, NewNone, OpenAtOK, Zenon
<1> HIDE DEF opens
<1>7. a \in Activations /\ Fresh(a) /\ a.op # "open" /\ a.op \in Bottom
  <2>1. a \in Activations
    BY <1>4 DEF Activations
  <2> QED
    BY <1>4, <2>1 DEF Fresh, Bottom
<1>8. NewOK(<<a>> \o opens) /\ <<a>> \o opens # <<>> /\ (<<a>> \o opens)[1] = a
  BY <1>6, <1>7, NewMore, Zenon
<1> QED
  BY <1>5, <1>7, <1>8, ReplacedStep, Zenon DEF Replaced

\* One call of advance_video_reconfigure after the streams ks are asked about
LEMMA AdvanceStep ==
    ASSUME TypeOK, NEW o \in Operations, o.on, NEW ks \in Seq(Kinds),
           stack' = Advance(o, ks), terminal' = terminal, operation' = o
    PROVE  StackStep
<1> DEFINE open(q) == {k \in ToSet(q) : o.streams[k] # 0 /\ k \notin o.closed}
<1>1. ASSUME NEW q \in Seq(Kinds)
      PROVE  /\ ToClose(o, q) = InOrder(open(q)) /\ open(q) \in SUBSET Kinds
             /\ ToClose(o, q) \in Seq(Kinds) /\ (ToClose(o, q) = <<>> => open(q) = {})
  <2>1. ToClose(o, q) = InOrder(open(q))
    BY Zenon DEF ToClose
  <2>2. ToSet(q) \subseteq Kinds
    BY DEF ToSet
  <2>3. open(q) \in SUBSET Kinds
    BY <2>2
  <2> HIDE DEF open
  <2> QED
    BY <2>1, <2>3, InOrderShape, Zenon
<1>2. <<"video", "audio">> \in Seq(Kinds) /\ ToSet(<<"video", "audio">>) = Kinds
  BY DEF Kinds, ToSet
<1>3. CASE ToClose(o, ks) # <<>>
  <2> DEFINE a == Activation("reconfigure", "waiting", ToClose(o, ks))
  <2>1. <<>> \in Seq(Events \cup Entries) /\ {} \in SUBSET Kinds
        /\ NoEvent \in Events \cup {NoEvent} /\ "waiting" \in Places
        /\ ToClose(o, ks) \in Seq(Kinds)
    BY <1>1, EmptyIsSeq DEF Places
  <2>2. /\ a \in [op : Ops, at : Places, todo : Seq(Kinds),
                  events : Seq(Events \cup Entries), event : Events \cup {NoEvent},
                  closed : SUBSET Kinds, first : BOOLEAN, arg : Nat]
        /\ a.op = "reconfigure" /\ a.at = "waiting" /\ a.todo = ToClose(o, ks)
    <3> HIDE DEF NoEvent
    <3> QED
      BY <2>1 DEF Activation, Ops
  <2>3. stack' = <<a>>
    BY <1>3, Zenon DEF Advance
  <2> HIDE DEF a
  <2>4. Fresh(a) /\ a.op \in Bottom
    <3>1. a \in Activations
      BY <1>3, <2>2 DEF Activations
    <3> QED
      BY <2>2, <3>1 DEF Fresh, Bottom, Replacing
  <2>5. NewOK(<<a>>) /\ <<a>> # <<>> /\ <<a>>[1] = a
    BY <2>4, NewOne, Zenon
  <2> QED
    BY <2>3, <2>4, <2>5, ReplacedStep, Zenon DEF Replaced
<1>4. CASE ToClose(o, ks) = <<>> /\ ToClose(o, <<"video", "audio">>) # <<>>
  <2>1. stack' = <<Loop("retry", Recoverable)>>
    BY <1>4, Zenon DEF Advance
  <2>2. "retry" \in Places /\ "retry" # "open"
    BY DEF Places
  <2> QED
    BY <2>1, <2>2, RecoverableType, LoopOnly, Zenon
<1>5. CASE ToClose(o, ks) = <<>> /\ ToClose(o, <<"video", "audio">>) = <<>>
  <2>1. stack' = Replace(o, IF o.opened THEN "audio" ELSE "video")
    BY <1>5, Zenon DEF Advance
  <2>2. open(<<"video", "audio">>) = {}
    BY <1>1, <1>2, <1>5, Zenon
  <2>3. HasClosed'
    BY <1>2, <2>2 DEF HasClosed
  <2> QED
    BY <2>1, <2>3, ReplaceStep
<1> QED
  BY <1>3, <1>4, <1>5, Zenon

\* advance_video_reconfigure ends, or goes on with an operation that is pending.
LEMMA ReconfigureSteps ==
    ASSUME TypeOK, OperationOK, ClosedOK,
           ReconfigureClose \/ ReconfigureCloseFails \/ ReconfigureVideoOpened
              \/ ReconfigureVideoFailed \/ ReconfigureDone \/ ReconfigureAudioFailed
    PROVE  StackStep
<1>1. Top.op = "reconfigure"
  BY Zenon DEF ReconfigureClose, ReconfigureCloseFails, ReconfigureVideoOpened,
     ReconfigureVideoFailed, ReconfigureDone, ReconfigureAudioFailed, At
<1>2. Len(stack) \in 1..Len(stack)
  BY DEF TypeOK
<1>3. operation.on
  BY <1>1, <1>2, Zenon DEF OperationOK, Top
<1>4. CASE ReconfigureClose
  <2>1. Top.todo # <<>> /\ Top.todo \in Seq(Kinds)
    <3>1. Top.at = "waiting"
      BY <1>4, Zenon DEF ReconfigureClose, At
    <3>2. Top \in Activations
      BY TopShape, Zenon
    <3> QED
      BY <1>1, <3>1, <3>2, TopFacts, Zenon DEF Activations
  <2>2. Head(Top.todo) \in Kinds /\ Tail(Top.todo) \in Seq(Kinds)
    BY <2>1
  <2>3. PICK hasClosed \in BOOLEAN :
            \E o \in {[operation EXCEPT !.closed =
                        IF hasClosed THEN @ \cup {Head(Top.todo)} ELSE @]} :
               operation' = o /\ stack' = Advance(o, Tail(Top.todo))
    BY <1>4, Zenon DEF ReconfigureClose
  <2> DEFINE o == [operation EXCEPT !.closed =
                      IF hasClosed THEN @ \cup {Head(Top.todo)} ELSE @]
  <2>6. operation' = o /\ stack' = Advance(o, Tail(Top.todo))
    BY <2>3, Zenon
  <2>4. o \in Operations /\ o.on
    BY <1>3, <2>2 DEF TypeOK, Operations
  <2>5. terminal' = terminal
    BY <1>4, Zenon DEF ReconfigureClose, flags
  <2> HIDE DEF o
  <2> QED
    BY <2>2, <2>4, <2>5, <2>6, AdvanceStep, Zenon
<1>5. CASE ReconfigureCloseFails \/ ReconfigureVideoFailed \/ ReconfigureDone
            \/ ReconfigureAudioFailed
  <2>1. stack' = <<Loop("retry", Recoverable)>>
    BY <1>5, Zenon DEF ReconfigureCloseFails, ReconfigureVideoFailed, ReconfigureDone,
       ReconfigureAudioFailed, ReconfigureEnds
  <2>2. "retry" \in Places /\ "retry" # "open"
    BY DEF Places
  <2> QED
    BY <2>1, <2>2, RecoverableType, LoopOnly, Zenon
<1>6. CASE ReconfigureVideoOpened
  <2>1. /\ stack' = Replace(operation, "audio") /\ Top.at = "video"
        /\ operation' = [operation EXCEPT !.opened = TRUE] /\ terminal' = terminal
    BY <1>6, Zenon DEF ReconfigureVideoOpened, flags, At
  <2>2. HasClosed
    <3>1. Replacing(Top)
      BY <1>1, <2>1 DEF Replacing
    <3> QED
      BY <1>2, <3>1, Zenon DEF ClosedOK, Top
  <2>3. operation \in Operations
    BY Zenon DEF TypeOK
  <2>4. operation'.on /\ HasClosed'
    BY <1>3, <2>1, <2>2, <2>3 DEF HasClosed, Operations
  <2>5. "audio" \in {"video", "audio"}
    OBVIOUS
  <2> QED
    BY <2>1, <2>3, <2>4, <2>5, ReplaceStep, Zenon
<1> QED
  BY <1>4, <1>5, <1>6, Zenon

\* Facts about short sequences
LEMMA TailMore ==
    ASSUME NEW X, NEW s \in Seq(X), s # <<>>, Len(s) # 1
    PROVE  Tail(s) # <<>>
<1>1. Len(s) \in Nat /\ Len(s) # 0 /\ Tail(s) \in Seq(X) /\ Len(Tail(s)) = Len(s) - 1
  OBVIOUS
<1> QED
  BY <1>1

\* Two sequences of one element
LEMMA PairConcat ==
    ASSUME NEW X, NEW a \in X, NEW b \in X
    PROVE  <<a>> \o <<b>> = <<a, b>>
<1>1. <<a>> \in Seq(X) /\ <<b>> \in Seq(X) /\ <<a, b>> \in Seq(X)
  OBVIOUS
<1>2. <<a>> \o <<b>> \in Seq(X) /\ Len(<<a>> \o <<b>>) = 2
      /\ (<<a>> \o <<b>>)[1] = a /\ (<<a>> \o <<b>>)[2] = b
  BY <1>1
<1> DEFINE c == <<a>> \o <<b>>
<1>3. Len(<<a, b>>) = 2 /\ <<a, b>>[1] = a /\ <<a, b>>[2] = b
  OBVIOUS
<1> HIDE DEF c
<1>4. \A i \in 1..Len(c) : c[i] = <<a, b>>[i]
  <2>1. \A i \in 1..2 : i = 1 \/ i = 2
    OBVIOUS
  <2> QED
    BY <1>2, <1>3, <2>1, Zenon DEF c
<1> QED
  BY <1>1, <1>2, <1>3, <1>4, SeqsEqual, Zenon DEF c

\* The loop goes on with one of its parts, which may call others.
LEMMA LoopSteps ==
    ASSUME TypeOK, OpensOK,
           LoopConfigure \/ LoopOpen \/ LoopPolled \/ LoopOrphans \/ LoopRetry
              \/ LoopRetryNotDue \/ LoopControl
    PROVE  StackStep
<1> USE DEF Bottom
<1>1. Top.op = "loop" /\ Top.op \in Bottom /\ Top.op # "commit" /\ Top \in Activations
      /\ Top.todo \in Seq(Kinds)
  <2>1. Top.op = "loop"
    BY Zenon DEF LoopConfigure, LoopOpen, LoopPolled, LoopOrphans, LoopRetry,
       LoopRetryNotDue, LoopControl, At
  <2> QED
    BY <2>1, TopShape, TopFacts
<1>2. Top.todo # <<>> => Head(Top.todo) \in Kinds /\ Tail(Top.todo) \in Seq(Kinds)
  BY <1>1
<1>3. <<>> \in Seq(Kinds) /\ "poll" \in Places /\ "poll" # "open" /\ "orphans" \in Places
      /\ "orphans" # "open" /\ "retry" \in Places /\ "retry" # "open"
      /\ "configure" \in Places /\ "configure" # "open" /\ "open" \in Places
  BY EmptyIsSeq DEF Places
<1>4. CASE LoopConfigure
  <2>1. PICK due \in SUBSET ConfigureDue :
            Goto(IF due = {} THEN Loop("poll", <<>>) ELSE Loop("open", InOrder(due)))
    BY <1>4, Zenon DEF LoopConfigure
  <2>2. due \in SUBSET Kinds
    BY <2>1, Zenon DEF ConfigureDue
  <2>3. InOrder(due) \in Seq(Kinds) /\ (due # {} => InOrder(due) # <<>>)
    BY <2>2, InOrderShape, Zenon
  <2> DEFINE a == IF due = {} THEN Loop("poll", <<>>) ELSE Loop("open", InOrder(due))
  <2>4. Fresh(a) /\ a.op = "loop"
    BY <1>3, <2>3, LoopFresh, Zenon
  <2>5. Goto(a)
    BY <2>1, Zenon
  <2> HIDE DEF a
  <2> QED
    BY <1>1, <2>4, <2>5, GotoStep
<1>5. CASE LoopOpen
  <2>1. stack' = <<IF Len(Top.todo) = 1 THEN Loop("poll", <<>>)
                   ELSE Loop("open", Tail(Top.todo))>> \o Open(Head(Top.todo))
        /\ Top.at = "open" /\ UNCHANGED <<terminal, operation, withheld>>
    BY <1>5, Zenon DEF LoopOpen, At, media, flags, params, settings
  <2>2. Top.todo # <<>>
    BY <1>1, <2>1, Zenon DEF Activations
  <2>3. NewOK(Open(Head(Top.todo)))
    BY <1>2, <2>1, <2>2, OpenOK, Zenon
  <2>4. CASE Len(Top.todo) = 1
    BY <1>3, <2>1, <2>3, <2>4, LoopStep, Zenon
  <2>5. CASE Len(Top.todo) # 1
    <3>1. Tail(Top.todo) # <<>>
      BY <1>1, <2>2, <2>5, TailMore, Zenon
    <3> QED
      BY <1>2, <1>3, <2>1, <2>2, <2>3, <2>5, <3>1, LoopStep, Zenon
  <2> QED
    BY <2>4, <2>5, Zenon
<1>6. CASE LoopPolled
  <2> DEFINE o == IF deferred \o pending = <<>> THEN <<>> ELSE <<Process>>
  <2>1. stack' = <<Loop("orphans", <<>>)>> \o o
    BY <1>6, Zenon DEF LoopPolled
  <2>2. NewOK(o)
    BY NewNone, NewOne, ProcessFresh, Zenon
  <2> QED
    BY <1>3, <2>1, <2>2, LoopStep, Zenon
<1>7. CASE LoopOrphans
  <2>1. stack' = (IF orphans # <<>> THEN <<Top, Call>>
                  ELSE IF operation.on THEN Advance(operation, <<"video", "audio">>)
                  ELSE <<Loop("retry", Recoverable)>>)
        /\ terminal' = terminal /\ operation' = operation
    BY <1>7, Zenon DEF LoopOrphans, flags, params, settings
  <2>2. CASE orphans # <<>>
    <3>1. Fresh(Top) /\ Top.op # "open"
      BY <1>1, PlainFresh
    <3>2. NewOK(<<Top, Call>>) /\ <<Top, Call>> # <<>> /\ <<Top, Call>>[1] = Top
      BY <3>1, CallFresh, NewTwo, Zenon
    <3>3. stack' = <<Top, Call>>
      BY <2>1, <2>2, Zenon
    <3> QED
      BY <1>1, <3>2, <3>3, ReplacedStep, Zenon DEF Replaced
  <2>3. CASE orphans = <<>> /\ operation.on
    <3>1. <<"video", "audio">> \in Seq(Kinds) /\ operation \in Operations
      BY DEF Kinds, TypeOK
    <3>2. stack' = Advance(operation, <<"video", "audio">>)
      BY <2>1, <2>3, Zenon
    <3> QED
      BY <2>1, <2>3, <3>1, <3>2, AdvanceStep, Zenon
  <2>4. CASE orphans = <<>> /\ ~operation.on
    <3>1. stack' = <<Loop("retry", Recoverable)>>
      BY <2>1, <2>4, Zenon
    <3> QED
      BY <1>3, <3>1, RecoverableType, LoopOnly, Zenon
  <2> QED
    BY <2>2, <2>3, <2>4, Zenon
<1>8. CASE LoopRetry
  <2>1. stack' = <<Loop("retry", Tail(Top.todo)), Process>> \o Open(Head(Top.todo))
        /\ Top.todo # <<>> /\ UNCHANGED <<terminal, operation, withheld>>
    BY <1>8, Zenon DEF LoopRetry, media, flags, params, settings
  <2>2. NewOK(Open(Head(Top.todo)))
    BY <1>2, <2>1, OpenOK, Zenon
  <2> DEFINE a == Loop("retry", Tail(Top.todo))
             new == <<a, Process>> \o Open(Head(Top.todo))
  <2>3. Fresh(a) /\ a.op = "loop"
    BY <1>2, <1>3, <2>1, LoopFresh, Zenon
  <2>4. Fresh(Process) /\ Process.op = "process"
    BY ProcessFresh, Zenon
  <2>5. stack' = new
    BY <2>1, Zenon
  <2> HIDE DEF a
  <2>6. a.op # "open" /\ Process.op # "open" /\ a.op \in Bottom
    BY <2>3, <2>4
  <2>7. NewOK(new) /\ new # <<>> /\ new[1] = a
    BY <2>2, <2>3, <2>4, <2>6, NewTwoMore, ZenonT(60)
  <2> HIDE DEF new
  <2> QED
    BY <2>5, <2>6, <2>7, ReplacedStep, Zenon DEF Replaced
<1>9. CASE LoopRetryNotDue
  <2>1. Goto(Loop("retry", Tail(Top.todo))) /\ Top.todo # <<>>
    BY <1>9, Zenon DEF LoopRetryNotDue
  <2> DEFINE a == Loop("retry", Tail(Top.todo))
  <2>2. Fresh(a) /\ a.op = "loop" /\ Goto(a)
    BY <1>2, <1>3, <2>1, LoopFresh, Zenon
  <2> HIDE DEF a
  <2> QED
    BY <1>1, <2>2, GotoStep
<1>10. CASE LoopControl
  <2>1. PICK calls \in {<<>>, <<Call>>, <<Process, Call>>} :
            stack' = <<Loop("configure", <<>>)>>
                     \o (IF calls = <<>> THEN CommitStaged ELSE <<Commit>>) \o calls
    BY <1>10, Zenon DEF LoopControl
  <2> DEFINE l == Loop("configure", <<>>)
  <2>2. Fresh(l) /\ l.op = "loop" /\ Fresh(Commit) /\ Commit.op = "commit"
    BY <1>3, LoopFresh, CommitFresh, Zenon
  <2>3. Fresh(Call) /\ Fresh(Process) /\ Call.op = "call" /\ Process.op = "process"
    BY CallFresh, ProcessFresh, Zenon
  <2>4. stack' = <<l>> \o (IF calls = <<>> THEN CommitStaged ELSE <<Commit>>) \o calls
    BY <2>1, Zenon
  <2> HIDE DEF l
  <2>5. l \in Activations /\ Commit \in Activations /\ l.op # "open" /\ Commit.op # "open"
        /\ l.op \in Bottom /\ Process.op # "open"
    BY <2>2, <2>3 DEF Fresh
  <2>6. NewOK(<<Call>>) /\ NewOK(<<Process, Call>>)
    BY <2>3, <2>5, NewOne, NewTwo, Zenon
  <2>7. CASE calls = <<>>
    <3>1. CommitStaged \in Seq(Activations) /\ NewOK(CommitStaged)
      BY CommitStagedOK, Zenon DEF NewOK
    <3>2. <<l>> \o CommitStaged \o <<>> = <<l>> \o CommitStaged
      BY <2>5, <3>1
    <3>3. stack' = <<l>> \o CommitStaged
      BY <2>4, <2>7, <3>2, Zenon
    <3>4. NewOK(<<l>> \o CommitStaged) /\ <<l>> \o CommitStaged # <<>>
          /\ (<<l>> \o CommitStaged)[1] = l
      BY <2>2, <2>5, <3>1, NewMore, Zenon
    <3> QED
      BY <2>5, <3>3, <3>4, ReplacedStep, Zenon DEF Replaced
  <2>8. CASE calls # <<>>
    <3>1. NewOK(calls) /\ calls \in Seq(Activations)
      BY <2>1, <2>6, <2>8, Zenon DEF NewOK
    <3>3. stack' = <<l, Commit>> \o calls
      BY <2>4, <2>5, <2>8, PairConcat, Zenon
    <3>4. NewOK(<<l, Commit>> \o calls) /\ <<l, Commit>> \o calls # <<>>
          /\ (<<l, Commit>> \o calls)[1] = l
      BY <2>2, <2>5, <3>1, NewTwoMore
    <3> QED
      BY <2>5, <3>3, <3>4, ReplacedStep, Zenon DEF Replaced
  <2> QED
    BY <2>7, <2>8, Zenon
<1> QED
  BY <1>4, <1>5, <1>6, <1>7, <1>8, <1>9, <1>10, Zenon

\* Every step of the pump, of the dispatcher and of the Host
LEMMA StackNext ==
    ASSUME TypeOK, OpensOK, LeaseOK, OperationOK, ClosedOK, [Next]_vars
    PROVE  StackStep
<1>1. CASE UNCHANGED stack
  BY <1>1, SameStack, Zenon
<1>2. CASE ReplaceSession \/ ReplaceDrop \/ ReplaceReopen
  <2>1. \E at \in {"replaced", "reopen", "configure"} : stack' = <<Loop(at, <<>>)>>
    BY <1>2, Zenon DEF ReplaceSession, ReplaceDrop, ReplaceReopen
  <2>2. <<>> \in Seq(Kinds) /\ \A at \in {"replaced", "reopen", "configure"} :
            at \in Places /\ at # "open"
    BY EmptyIsSeq DEF Places
  <2> QED
    BY <2>1, <2>2, LoopOnly, Zenon
<1>3. CASE PumpStep
  <2>1. CASE ProgressEvent \/ StageFrame \/ StreamPayload
    BY <1>1, <2>1, Zenon DEF ProgressEvent, StageFrame, StreamPayload
  <2> QED
    BY <1>3, <2>1, ProcessSteps, SourceSteps, CallSteps, ReconfigureSteps, LoopSteps, Zenon
    DEF PumpStep
<1>4. CASE \/ \E k \in Kinds : Decode(k)
           \/ \E k \in Kinds, state \in SourceStates, exact \in BOOLEAN :
                  (exact => state = "terminal") /\ SourceEvent(k, state, exact)
           \/ DispatchStep
  BY <1>1, <1>4, Zenon DEF Decode, SourceEvent, DispatchStep, DispatchEvent,
     DispatchFrame, DispatchCheck, DispatchDeliver
<1>5. CASE HostStep
  BY <1>1, <1>5, Zenon DEF HostStep, AcquireMedia, BindMedia, ReleaseMedia, UnbindMedia,
     DropIngress, DropDispatch, RequestRate, RequestBusy, RequestUnchanged,
     RequestAccepted
<1>6. CASE UNCHANGED vars
  BY <1>1, <1>6, Zenon DEF vars
<1> QED
  BY <1>2, <1>3, <1>4, <1>5, <1>6, Zenon DEF Next

-----------------------------------------------------------------------------
(* What the steps leave alone                                              *)

\* Polled, like the steps below, is one of the groups of actions that make up Next.
Polled ==
    \/ \E k \in Kinds : Decode(k)
    \/ \E k \in Kinds, state \in SourceStates, exact \in BOOLEAN :
           (exact => state = "terminal") /\ SourceEvent(k, state, exact)
    \/ StreamPayload \/ StageFrame

ProcessStep == ProcessTake \/ ProcessTerminal \/ ProcessIgnored \/ ProcessStreamable

SourceStep ==
    \/ SourceClosing \/ SourceDrained \/ SourceIsActive \/ SourceOpen
    \/ SourceOpened \/ SourcePaired

OpenStep == OpenFails \/ OpenIsOrphan \/ OpenSucceeds

ReconfigureStep ==
    \/ ReconfigureClose \/ ReconfigureCloseFails \/ ReconfigureVideoOpened
    \/ ReconfigureVideoFailed \/ ReconfigureDone \/ ReconfigureAudioFailed

LoopStepOnly ==
    \/ LoopConfigure \/ LoopOpen \/ LoopPolled \/ LoopOrphans \/ LoopRetry
    \/ LoopRetryNotDue \/ LoopControl \/ ProgressCommit \/ CallReturns

\* Next is made of these groups.
LEMMA NextGroups ==
    ASSUME [Next]_vars
    PROVE  \/ Polled \/ ProgressEvent \/ ProcessStep \/ SourceStep \/ OpenStep
           \/ CommitTake \/ CommitPush \/ ReconfigureStep \/ LoopStepOnly
           \/ ReplaceSession \/ ReplaceDrop \/ ReplaceReopen
           \/ DispatchStep \/ HostStep \/ UNCHANGED vars
<1>1. CASE PumpStep
  BY <1>1, Zenon DEF PumpStep, Polled, ProcessStep, SourceStep, OpenStep, ReconfigureStep,
     LoopStepOnly
<1> QED
  BY <1>1, Zenon DEF Next, Polled

\* The pump knows nothing of the lease and the dispatcher.
LEMMA PumpFrame ==
    ASSUME Polled \/ ProgressEvent \/ ProcessStep \/ SourceStep \/ OpenStep
           \/ CommitTake \/ CommitPush \/ ReconfigureStep \/ LoopStepOnly
           \/ ReplaceSession \/ ReplaceDrop \/ ReplaceReopen
    PROVE  UNCHANGED <<bound, epoch, owner, item, dispatcher, request>>
<1> USE DEF lease, dispatch, media, params, settings
<1>1. CASE Polled
  BY <1>1, Zenon DEF Polled, Decode, SourceEvent, StreamPayload, StageFrame
<1>2. CASE ProgressEvent \/ ProcessStep
  BY <1>2, Zenon DEF ProgressEvent, ProcessStep, ProcessTake, ProcessTerminal,
     ProcessIgnored, ProcessStreamable
<1>3. CASE SourceStep
  BY <1>3, Zenon DEF SourceStep, SourceClosing, SourceDrained, SourceIsActive, SourceOpen,
     SourceOpened, SourcePaired
<1>4. CASE OpenStep
  BY <1>4, Zenon DEF OpenStep, OpenFails, OpenIsOrphan, OpenSucceeds
<1>5. CASE ReconfigureStep
  BY <1>5, Zenon DEF ReconfigureStep, ReconfigureClose, ReconfigureCloseFails,
     ReconfigureVideoOpened, ReconfigureVideoFailed, ReconfigureDone,
     ReconfigureAudioFailed
<1>6. CASE LoopStepOnly
  BY <1>6, Zenon DEF LoopStepOnly, LoopConfigure, LoopOpen, LoopPolled, LoopOrphans,
     LoopRetry, LoopRetryNotDue, LoopControl, ProgressCommit, CallReturns
<1>7. CASE CommitTake \/ CommitPush \/ ReplaceSession \/ ReplaceDrop \/ ReplaceReopen
  BY <1>7, Zenon DEF CommitTake, CommitPush, ReplaceSession, ReplaceDrop, ReplaceReopen
<1> QED
  BY <1>1, <1>2, <1>3, <1>4, <1>5, <1>6, <1>7, Zenon

\* The streams, the sources and the settings change in the pump and by a request.
LEMMA DispatchFrames ==
    ASSUME DispatchStep
    PROVE  UNCHANGED <<core, incoming, ingress, active, gens, terminal, recovering, rejected,
                       pending, deferred, order, candidate, request, operation, rate,
                       withheld, configured, report, stack, bound, epoch, owner>>
BY Zenon DEF DispatchStep, DispatchEvent, DispatchFrame, DispatchCheck, DispatchDeliver,
   frames, media, streams, flags, sources, params, settings, lease

\* A step of the Host's threads leaves what the pump owns alone.
LEMMA HostFrame ==
    ASSUME HostStep
    PROVE  UNCHANGED <<core, incoming, active, gens, terminal, recovering, rejected,
                       pending, deferred, order, candidate, configured, stack, item,
                       dispatcher>>
<1> USE DEF frames, media, streams, flags, sources, params, settings, dispatch
<1>1. CASE AcquireMedia \/ BindMedia \/ ReleaseMedia \/ UnbindMedia \/ DropIngress
            \/ DropDispatch
  BY <1>1, Zenon DEF AcquireMedia, BindMedia, ReleaseMedia, UnbindMedia, DropIngress,
     DropDispatch
<1>2. CASE \E r \in Rates : RequestRate(r)
  BY <1>2, Zenon DEF RequestRate
<1>3. CASE RequestBusy \/ RequestUnchanged \/ RequestAccepted
  BY <1>3, Zenon DEF RequestBusy, RequestUnchanged, RequestAccepted
<1> QED
  BY <1>1, <1>2, <1>3, Zenon DEF HostStep

\* The loop itself, the commits and the progress of a source event leave the
\* streams alone, and report at most that an operation is pending.
LEMMA QuietFrame ==
    ASSUME LoopStepOnly \/ CommitTake \/ CommitPush \/ SourceStep
              \/ ProcessTake \/ ProcessIgnored
    PROVE  /\ UNCHANGED <<core, incoming, active, gens, terminal, rejected, order, candidate,
                          operation, rate, withheld, configured>>
           /\ report' = report \/ (report' = "Pending" /\ operation.on)
<1> USE DEF frames, media, streams, flags, sources, params, settings
<1>1. CASE LoopStepOnly
  BY <1>1, Zenon DEF LoopStepOnly, LoopConfigure, LoopOpen, LoopPolled, LoopOrphans,
     LoopRetry, LoopRetryNotDue, LoopControl, ProgressCommit, CallReturns, ReportAdvance
<1>2. CASE SourceStep
  BY <1>2, Zenon DEF SourceStep, SourceClosing, SourceDrained, SourceIsActive, SourceOpen,
     SourceOpened, SourcePaired
<1>3. CASE CommitTake \/ CommitPush \/ ProcessTake \/ ProcessIgnored
  BY <1>3, Zenon DEF CommitTake, CommitPush, ProcessTake, ProcessIgnored
<1> QED
  BY <1>1, <1>2, <1>3, Zenon

\* Taking an event or a frame from the core leaves the streams and the settings alone.
LEMMA PolledFrame ==
    ASSUME Polled
    PROVE  UNCHANGED <<active, gens, terminal, recovering, rejected, deferred, candidate,
                       operation, rate, withheld, configured, report, fifo, stack>>
BY Zenon DEF Polled, Decode, SourceEvent, StreamPayload, StageFrame,
   frames, media, streams, flags, sources, params, settings

-----------------------------------------------------------------------------
(* Frames stay in their lease                                              *)

\* Binding and unbinding move the epoch on, and nobody else touches the binding.
LEMMA StampedGrows ==
    ASSUME TypeOK, [Next]_vars
    PROVE  /\ Stamped \subseteq Stamped'
           /\ bound' \in Nat /\ epoch' \in Nat \ {0} /\ owner' \in Nat
<1>1. bound \in Nat /\ epoch \in Nat \ {0} /\ owner \in Nat
  BY Zenon DEF TypeOK
<1>2. CASE UNCHANGED <<bound, epoch, owner>>
  BY <1>1, <1>2, Zenon DEF Stamped
<1>3. CASE HostStep
  <2>1. CASE BindMedia \/ UnbindMedia
    <3>1. epoch' = epoch + 1 /\ bound' \in Nat /\ owner' = owner
      BY <1>1, <2>1 DEF BindMedia, UnbindMedia
    <3>2. ASSUME NEW e \in Entries, e.token <= epoch
          PROVE  e.token <= epoch' /\ e.token # epoch'
      <4>1. e.token \in Nat
        BY DEF Entries
      <4> QED
        BY <1>1, <3>1, <3>2, <4>1
    <3> QED
      BY <1>1, <3>1, <3>2 DEF Stamped
  <2>2. CASE AcquireMedia \/ ReleaseMedia
    <3>1. UNCHANGED <<bound, epoch>> /\ owner' \in Nat
      BY <1>1, <2>2 DEF AcquireMedia, ReleaseMedia
    <3> QED
      BY <1>1, <3>1, Zenon DEF Stamped
  <2>3. CASE DropIngress \/ DropDispatch \/ RequestBusy \/ RequestUnchanged
              \/ RequestAccepted \/ (\E r \in Rates : RequestRate(r))
    BY <1>2, <2>3, Zenon DEF DropIngress, DropDispatch, RequestBusy, RequestUnchanged,
       RequestAccepted, RequestRate
  <2> QED
    BY <1>3, <2>1, <2>2, <2>3, Zenon DEF HostStep
<1>4. CASE DispatchStep
  BY <1>2, <1>4, DispatchFrames, Zenon
<1>5. CASE UNCHANGED vars
  BY <1>2, <1>5, Zenon DEF vars, lease
<1> QED
  BY <1>2, <1>3, <1>4, <1>5, NextGroups, PumpFrame, Zenon

\* Events carry no token, which no epoch is.
LEMMA EntryStamped ==
    ASSUME TypeOK, NEW type \in {"Opened", "Closed", "none"}, NEW k \in Kinds \cup {"none"},
           NEW n \in Nat
    PROVE  Entry(type, k, n) \in Stamped
<1>1. epoch \in Nat \ {0}
  BY Zenon DEF TypeOK
<1>2. Entry(type, k, n) \in Entries /\ Entry(type, k, n).token = 0
  BY DEF Entry, Entries
<1> QED
  BY <1>1, <1>2 DEF Stamped

\* An empty slot carries the stamp of the present.
LEMMA NoEntryStamped ==
    ASSUME TypeOK
    PROVE  NoEntry \in Stamped
<1>1. "none" \in {"Opened", "Closed", "none"} /\ "none" \in Kinds \cup {"none"} /\ 0 \in Nat
  OBVIOUS
<1> QED
  BY <1>1, EntryStamped, Zenon DEF NoEntry

\* The events that a closed stream queues carry the stamp of the present.
LEMMA ClosedEventsStamped ==
    ASSUME TypeOK, NEW S \in SUBSET Kinds
    PROVE  ClosedEvents(S) \in Seq(Stamped)
<1> DEFINE ks == InOrder(S)
           f(i) == Entry("Closed", ks[i], active[ks[i]])
<1>1. ks \in Seq(Kinds)
  BY InOrderShape, Zenon
<1>2. ClosedEvents(S) = [i \in 1..Len(ks) |-> f(i)]
  BY Zenon DEF ClosedEvents
<1> HIDE DEF ks
<1>3. \A i \in 1..Len(ks) : f(i) \in Stamped
  <2>1. \A i \in 1..Len(ks) : ks[i] \in Kinds
    BY <1>1
  <2>2. \A k \in Kinds : active[k] \in Nat /\ k \in Kinds \cup {"none"}
    BY DEF TypeOK
  <2>3. "Closed" \in {"Opened", "Closed", "none"}
    OBVIOUS
  <2> QED
    BY <2>1, <2>2, <2>3, EntryStamped, Zenon
<1> HIDE DEF f
<1>4. Len(ks) \in Nat
  BY <1>1
<1> QED
  BY <1>2, <1>3, <1>4

\* A terminal event closes a stream at most.
LEMMA TerminalFifo ==
    ASSUME TypeOK, LeaseOK, NEW e \in Events, TerminalEvent(e)
    PROVE  fifo' \in Seq(Stamped)
<1> DEFINE C == {e.kind} \cap {j \in Kinds : active[j] # 0}
<1>1. fifo' = fifo \/ fifo' = fifo \o ClosedEvents(C)
  BY Zenon DEF TerminalEvent
<1>2. fifo \in Seq(Stamped) /\ C \in SUBSET Kinds
  BY Zenon DEF LeaseOK
<1> HIDE DEF C
<1>3. ClosedEvents(C) \in Seq(Stamped)
  BY <1>2, ClosedEventsStamped, Zenon
<1> QED
  BY <1>1, <1>2, <1>3, ConcatIsSeq, Zenon

\* What erase() leaves of a queue is a queue of the same type; KeptIsSeq, at the end,
\* shows it.
KeptIsQueue == \A X : \A q \in Seq(X) : \A S : Kept(q, S) \in Seq(X)

\* The dispatcher's queue takes events, frames of a batch and nothing else.
LEMMA FifoStep ==
    ASSUME KeptIsQueue, TypeOK, LeaseOK, [Next]_vars
    PROVE  fifo' \in Seq(Stamped)
<1> USE DEF media
<1>1. fifo \in Seq(Stamped)
  BY Zenon DEF LeaseOK
<1>2. CASE UNCHANGED fifo
  BY <1>1, <1>2, Zenon
<1>3. ASSUME NEW C \in SUBSET Kinds, fifo' = fifo \o ClosedEvents(C)
      PROVE  fifo' \in Seq(Stamped)
  <2>1. ClosedEvents(C) \in Seq(Stamped)
    BY ClosedEventsStamped, Zenon
  <2> QED
    BY <1>1, <1>3, <2>1
<1>4. CASE Polled
  BY <1>2, <1>4, PolledFrame, Zenon
<1>5. CASE ProgressEvent
  <2>1. pending # <<>> /\ pending \in Seq(Events)
    BY <1>5, Zenon DEF ProgressEvent, TypeOK
  <2>2. Head(pending) \in Events
    BY <2>1
  <2> QED
    BY <1>2, <1>5, <2>2, TerminalFifo, Zenon DEF ProgressEvent
<1>6. CASE ProcessStep
  <2>1. CASE ProcessTake \/ ProcessIgnored
    BY <1>2, <2>1, Zenon DEF ProcessTake, ProcessIgnored
  <2>2. CASE ProcessTerminal
    <3>1. Top.events \in Seq(Events) /\ Top.events # <<>>
      BY <2>2, TopFacts, Zenon DEF ProcessTerminal, At
    <3>2. Head(Top.events) \in Events
      BY <3>1
    <3> QED
      BY <2>2, <3>2, TerminalFifo, Zenon DEF ProcessTerminal
  <2>3. CASE ProcessStreamable
    <3>1. PICK closed, erased : erased = {k \in closed : active[k] = cycle.close[k]}
             /\ (closed = {} \/ closed = {k \in Kinds : cycle.close[k] # 0})
             /\ fifo' = fifo \o ClosedEvents(erased)
      BY <2>3, Zenon DEF ProcessStreamable
    <3>2. erased \in SUBSET Kinds
      BY <3>1, Zenon
    <3> QED
      BY <1>3, <3>1, <3>2, Zenon
  <2> QED
    BY <1>6, <2>1, <2>2, <2>3, Zenon DEF ProcessStep
<1>7. CASE SourceStep \/ LoopStepOnly
  <2>1. CASE SourceStep
    BY <1>2, <2>1, Zenon DEF SourceStep, SourceClosing, SourceDrained, SourceIsActive,
       SourceOpen, SourceOpened, SourcePaired
  <2>2. CASE LoopStepOnly
    BY <1>2, <2>2, Zenon DEF LoopStepOnly, LoopConfigure, LoopOpen, LoopPolled,
       LoopOrphans, LoopRetry, LoopRetryNotDue, LoopControl, ProgressCommit, CallReturns
  <2> QED
    BY <1>7, <2>1, <2>2, Zenon
<1>8. CASE OpenStep
  <2>1. CASE OpenFails \/ OpenIsOrphan
    BY <1>2, <2>1, Zenon DEF OpenFails, OpenIsOrphan
  <2>2. CASE OpenSucceeds
    <3> DEFINE k == Head(Top.todo)
               C == {k} \cap {j \in Kinds : active[j] # 0}
               new == Entry("Opened", k, gens[k] + 1)
    <3>1. fifo' = fifo \o ClosedEvents(C) \o <<new>>
      BY <2>2, Zenon DEF OpenSucceeds
    <3>2. k \in Kinds
      BY <2>2, TopFacts, Zenon DEF OpenSucceeds, At
    <3>3. gens[k] + 1 \in Nat /\ "Opened" \in {"Opened", "Closed", "none"}
      BY <3>2, SMTT(60) DEF TypeOK
    <3>4. new \in Stamped
      BY <3>2, <3>3, EntryStamped, Zenon
    <3>5. ClosedEvents(C) \in Seq(Stamped)
      BY ClosedEventsStamped, Zenon
    <3> HIDE DEF k, C, new
    <3> QED
      BY <1>1, <3>1, <3>4, <3>5
  <2> QED
    BY <1>8, <2>1, <2>2, Zenon DEF OpenStep
<1>9. CASE CommitTake
  BY <1>2, <1>9, Zenon DEF CommitTake
<1>10. CASE CommitPush
  <2>1. Top.op = "commit" /\ Len(stack) \in 1..Len(stack)
    BY <1>10 DEF CommitPush, At, TypeOK
  <2>2. Top.events \in Seq(Stamped)
    BY <2>1, Zenon DEF LeaseOK, Top
  <2>3. \E S : fifo' = fifo \o Kept(Top.events, S)
    BY <1>10, Zenon DEF CommitPush
  <2>4. PICK S : fifo' = fifo \o Kept(Top.events, S)
    BY <2>3, Zenon
  <2>5. Kept(Top.events, S) \in Seq(Stamped)
    BY <2>2, Zenon DEF KeptIsQueue
  <2> QED
    BY <1>1, <2>4, <2>5
<1>11. CASE ReconfigureStep
  <2>1. CASE ReconfigureClose
    <3>1. PICK erased : /\ fifo' = fifo \o ClosedEvents(erased)
                        /\ \A j \in erased : j = Head(Top.todo)
      BY <2>1, Zenon DEF ReconfigureClose
    <3>2. Head(Top.todo) \in Kinds
      <4>1. Top.op = "reconfigure" /\ Top.at = "waiting" /\ Top \in Activations
        BY <2>1, TopShape, Zenon DEF ReconfigureClose, At
      <4>2. Top.todo # <<>> /\ Top.todo \in Seq(Kinds)
        BY <4>1, TopFacts, Zenon DEF Activations
      <4> QED
        BY <4>2
    <3>3. erased \in SUBSET Kinds
      BY <3>1, <3>2, Zenon
    <3> QED
      BY <1>3, <3>1, <3>3, Zenon
  <2> QED
    BY <1>2, <1>11, <2>1, Zenon DEF ReconfigureStep, ReconfigureCloseFails,
       ReconfigureVideoOpened, ReconfigureVideoFailed, ReconfigureDone,
       ReconfigureAudioFailed
<1>12. CASE ReplaceSession
  <2>1. {k \in Kinds : active[k] # 0} \in SUBSET Kinds
    BY Zenon
  <2> QED
    BY <1>3, <1>12, <2>1, Zenon DEF ReplaceSession
<1>13. CASE ReplaceReopen
  BY <1>2, <1>13, Zenon DEF ReplaceReopen
<1>14. CASE ReplaceDrop \/ DropDispatch
  <2>1. fifo' = DropFrames(fifo)
    BY <1>14, Zenon DEF ReplaceDrop, DropDispatch
  <2> QED
    BY <1>1, <2>1, Zenon DEF DropFrames, KeptIsQueue
<1>15. CASE DispatchStep
  <2>1. CASE DispatchEvent \/ DispatchFrame
    <3>1. fifo' = Tail(fifo) /\ fifo # <<>>
      BY <2>1, Zenon DEF DispatchEvent, DispatchFrame
    <3> QED
      BY <1>1, <3>1
  <2> QED
    BY <1>2, <1>15, <2>1, Zenon DEF DispatchStep, DispatchCheck, DispatchDeliver
<1>16. CASE HostStep
  BY <1>2, <1>14, <1>16, Zenon DEF HostStep, AcquireMedia, BindMedia, ReleaseMedia,
     UnbindMedia, DropIngress, RequestRate, RequestBusy, RequestUnchanged,
     RequestAccepted
<1>17. CASE UNCHANGED vars
  BY <1>2, <1>17, Zenon DEF vars
<1> QED
  BY <1>4, <1>5, <1>6, <1>7, <1>8, <1>9, <1>10, <1>11, <1>12, <1>13, <1>14, <1>15, <1>16,
     <1>17, NextGroups, Zenon

\* A frame is stamped when it is decoded, and keeps its stamp on its way to ingress.
LEMMA FramesStep ==
    ASSUME KeptIsQueue, TypeOK, LeaseOK, [Next]_vars
    PROVE  core' \in Seq(Decoded) /\ incoming' \in Stamped /\ ingress' \in Seq(Stamped)
<1> USE DEF frames
<1>1. core \in Seq(Decoded) /\ incoming \in Stamped /\ ingress \in Seq(Stamped)
      /\ <<>> \in Seq(Stamped) /\ <<>> \in Seq(Decoded)
  BY EmptyIsSeq, Zenon DEF LeaseOK
<1>2. CASE UNCHANGED frames
  BY <1>1, <1>2, Zenon
<1>3. CASE Polled
  <2>1. ASSUME NEW k \in Kinds, Decode(k)
        PROVE  core' \in Seq(Decoded) /\ UNCHANGED <<incoming, ingress>>
    <3> DEFINE f == [Entry("Frame", k, 0) EXCEPT
                        !.token = IF bound = 0 THEN 0 ELSE epoch, !.origin = bound]
    <3>1. core' = Append(core, f) /\ UNCHANGED <<incoming, ingress>>
      BY <2>1, Zenon DEF Decode
    <3>2. f \in Decoded
      <4>1. bound \in Nat /\ epoch \in Nat \ {0}
        BY Zenon DEF TypeOK
      <4>2. f \in Entries /\ f.origin = bound /\ (f.token = 0 \/ f.token = epoch)
            /\ f.kind \in Kinds
        BY <4>1 DEF Entry, Entries
      <4> HIDE DEF f
      <4> QED
        BY <4>1, <4>2 DEF Stamped, Decoded
    <3> HIDE DEF f
    <3> QED
      BY <1>1, <3>1, <3>2
  <2>2. CASE StreamPayload
    <3> DEFINE f == Head(core)
               g == [f EXCEPT !.session = bound, !.gen = gens[f.kind],
                              !.known = active[f.kind] # 0 \/ gens[f.kind] = 0]
    <3>1. core # <<>> /\ core' = Tail(core) /\ ingress' = ingress /\ incoming' = g
      BY <2>2, Zenon DEF StreamPayload
    <3>2. f \in Decoded /\ Tail(core) \in Seq(Decoded)
      BY <1>1, <3>1
    <3>3. g \in Stamped
      <4>1. f \in Entries /\ f \in Stamped /\ f.kind \in Kinds /\ bound \in Nat
        BY <3>2, Zenon DEF Decoded, Stamped, TypeOK
      <4>2. gens[f.kind] \in Nat
        BY <4>1 DEF TypeOK
      <4> QED
        BY <4>1, <4>2 DEF Stamped, Entries
    <3> QED
      BY <1>1, <3>1, <3>2, <3>3, Zenon
  <2>3. CASE StageFrame
    <3>1. ingress' = Append(ingress, incoming) /\ incoming' = NoEntry /\ core' = core
      BY <2>3, Zenon DEF StageFrame
    <3> QED
      BY <1>1, <3>1, NoEntryStamped
  <2> QED
    BY <1>1, <1>2, <1>3, <2>1, <2>2, <2>3, Zenon DEF Polled, SourceEvent
<1>4. CASE CommitTake
  BY <1>1, <1>4, Zenon DEF CommitTake
<1>5. CASE CommitPush
  <2>1. Top.op = "commit" /\ Len(stack) \in 1..Len(stack)
    BY <1>5 DEF CommitPush, At, TypeOK
  <2>2. Top.events \in Seq(Stamped)
    BY <2>1, Zenon DEF LeaseOK, Top
  <2>3. PICK S : ingress' = Kept(Top.events, S) \o ingress
    BY <1>5, Zenon DEF CommitPush
  <2>4. Kept(Top.events, S) \in Seq(Stamped)
    BY <2>2, Zenon DEF KeptIsQueue
  <2>5. ingress' \in Seq(Stamped)
    BY <1>1, <2>3, <2>4, ConcatIsSeq, Zenon
  <2> QED
    BY <1>1, <1>5, <2>5, Zenon DEF CommitPush
<1>6. CASE ReplaceSession \/ ReplaceDrop \/ ReplaceReopen
  BY <1>1, <1>6, Zenon DEF ReplaceSession, ReplaceDrop, ReplaceReopen
<1>7. CASE DropIngress
  BY <1>1, <1>7, Zenon DEF DropIngress
<1>8. CASE ProgressEvent \/ ProcessStep
  BY <1>2, <1>8, Zenon DEF ProgressEvent, ProcessStep, ProcessTake, ProcessTerminal,
     ProcessIgnored, ProcessStreamable
<1>9. CASE SourceStep
  BY <1>2, <1>9, Zenon DEF SourceStep, SourceClosing, SourceDrained, SourceIsActive,
     SourceOpen, SourceOpened, SourcePaired
<1>10. CASE OpenStep
  BY <1>2, <1>10, Zenon DEF OpenStep, OpenFails, OpenIsOrphan, OpenSucceeds
<1>11. CASE ReconfigureStep
  BY <1>2, <1>11, Zenon DEF ReconfigureStep, ReconfigureClose, ReconfigureCloseFails,
     ReconfigureVideoOpened, ReconfigureVideoFailed, ReconfigureDone,
     ReconfigureAudioFailed
<1>12. CASE LoopStepOnly
  BY <1>2, <1>12, Zenon DEF LoopStepOnly, LoopConfigure, LoopOpen, LoopPolled,
     LoopOrphans, LoopRetry, LoopRetryNotDue, LoopControl, ProgressCommit, CallReturns
<1>13. CASE DispatchStep
  BY <1>1, <1>13, DispatchFrames, Zenon
<1>14. CASE HostStep
  BY <1>2, <1>7, <1>14, Zenon DEF HostStep, AcquireMedia, BindMedia, ReleaseMedia,
     UnbindMedia, DropDispatch, RequestRate, RequestBusy, RequestUnchanged,
     RequestAccepted
<1>15. CASE UNCHANGED vars
  BY <1>2, <1>15, Zenon DEF vars
<1> QED
  BY <1>3, <1>4, <1>5, <1>6, <1>8, <1>9, <1>10, <1>11, <1>12, <1>13, <1>14, <1>15,
     NextGroups, Zenon

\* is_current_media_frame lets a frame through whose token is the epoch.
LEMMA ItemStep ==
    ASSUME TypeOK, LeaseOK, [Next]_vars
    PROVE  /\ item' \in Stamped
           /\ dispatcher' = "deliver" => item'.session = 0 \/ item'.origin = item'.session
<1>1. fifo \in Seq(Stamped) /\ item \in Stamped /\ NoEntry \in Stamped
      /\ (dispatcher = "deliver" => item.session = 0 \/ item.origin = item.session)
  BY NoEntryStamped, Zenon DEF LeaseOK
<1>2. CASE UNCHANGED <<item, dispatcher>>
  BY <1>1, <1>2, Zenon
<1>3. CASE DispatchFrame
  <2>1. fifo # <<>> /\ item' = Head(fifo) /\ dispatcher' = "check"
    BY <1>3, Zenon DEF DispatchFrame
  <2> QED
    BY <1>1, <2>1
<1>4. CASE DispatchCheck
  <2>1. CASE IsCurrent(item)
    <3>1. dispatcher' = "deliver" /\ item' = item
      BY <1>4, <2>1, Zenon DEF DispatchCheck
    <3>2. item.session = 0 \/ item.origin = item.session
      BY <1>1, <2>1 DEF IsCurrent, IsBoundFrame, Stamped
    <3> QED
      BY <1>1, <3>1, <3>2, Zenon
  <2>2. CASE ~IsCurrent(item)
    <3>1. dispatcher' = "idle" /\ item' = NoEntry
      BY <1>4, <2>2, Zenon DEF DispatchCheck
    <3> QED
      BY <1>1, <3>1
  <2> QED
    BY <2>1, <2>2, Zenon
<1>5. CASE DispatchDeliver
  <2>1. dispatcher' = "idle" /\ item' = NoEntry
    BY <1>5, Zenon DEF DispatchDeliver
  <2> QED
    BY <1>1, <2>1
<1>6. CASE DispatchStep
  BY <1>2, <1>3, <1>4, <1>5, <1>6, Zenon DEF DispatchStep, DispatchEvent
<1>7. CASE UNCHANGED vars
  BY <1>2, <1>7, Zenon DEF vars, dispatch
<1> QED
  BY <1>2, <1>6, <1>7, NextGroups, PumpFrame, HostFrame, Zenon

\* Every step keeps the stamps of whatever waits between the core and the Host.
LEMMA LeaseStep ==
    ASSUME KeptIsQueue, TypeOK, LeaseOK, [Next]_vars, StackKept
    PROVE  LeaseOK'
<1>1. Stamped \subseteq Stamped'
  BY StampedGrows, Zenon
<1>2. /\ \A q \in Seq(Stamped) : q \in Seq(Stamped')
      /\ \A q \in Seq(Decoded) : q \in Seq(Decoded')
  <2>1. Decoded \subseteq Decoded'
    BY <1>1, Zenon DEF Decoded
  <2> QED
    BY <1>1, <2>1, SeqWidens, Zenon
<1>3. \A i \in 1..Len(stack') :
          stack'[i].op = "commit" => stack'[i].events \in Seq(Stamped')
  BY <1>2, Zenon DEF StackKept, LeaseOK, Fresh
<1> QED
  BY <1>1, <1>2, <1>3, FifoStep, FramesStep, ItemStep, Zenon DEF LeaseOK

-----------------------------------------------------------------------------
(* Types                                                                   *)

StreamsTyped ==
    /\ active \in [Kinds -> Nat] /\ gens \in [Kinds -> Nat] /\ candidate \in [Kinds -> Nat]
    /\ terminal \subseteq Kinds /\ recovering \subseteq Kinds

SourcesTyped == pending \in Seq(Events) /\ deferred \in Seq(Events) /\ order \in Nat

SettingsTyped ==
    /\ request \in [rate : Nat, streams : [Kinds -> Nat]]
    /\ operation \in Operations
    /\ rate \in Nat /\ withheld \in BOOLEAN /\ configured \subseteq Kinds

\* The streams and the latches of a kind after a terminal event
LEMMA TerminalTyped ==
    ASSUME TypeOK, NEW e \in Events, TerminalEvent(e)
    PROVE  StreamsTyped'
<1>1. StreamsTyped /\ e.kind \in Kinds /\ e.order \in Nat
  BY DEF TypeOK, StreamsTyped, Events
<1>2. CASE UNCHANGED <<streams, flags, candidate>>
  BY <1>1, <1>2, Zenon DEF StreamsTyped, streams, flags
<1>3. CASE UNCHANGED <<streams, flags>> /\ candidate' = [candidate EXCEPT ![e.kind] = e.order]
  BY <1>1, <1>3 DEF StreamsTyped, streams, flags
<1>4. CASE /\ active' = [active EXCEPT ![e.kind] = 0] /\ UNCHANGED <<gens, candidate>>
           /\ terminal' = terminal \cup {e.kind} /\ recovering' = recovering \ {e.kind}
  BY <1>1, <1>4 DEF StreamsTyped
<1> QED
  BY <1>2, <1>3, <1>4, Zenon DEF TerminalEvent

\* Every step keeps the type of the streams and their generations,
LEMMA StreamsStep ==
    ASSUME TypeOK, [Next]_vars
    PROVE  StreamsTyped'
<1> USE DEF media, streams, flags, sources
<1>1. StreamsTyped
  BY Zenon DEF TypeOK, StreamsTyped
<1>2. CASE UNCHANGED <<active, gens, candidate, terminal, recovering>>
  BY <1>1, <1>2, Zenon DEF StreamsTyped
<1>3. CASE Polled \/ LoopStepOnly \/ CommitTake \/ CommitPush \/ ProcessTake
            \/ ProcessIgnored \/ DispatchStep \/ HostStep \/ UNCHANGED vars
  <2>1. CASE LoopStepOnly
    BY <1>2, <2>1, Zenon DEF LoopStepOnly, LoopConfigure, LoopOpen, LoopPolled,
       LoopOrphans, LoopRetry, LoopRetryNotDue, LoopControl, ProgressCommit, CallReturns
  <2>2. CASE CommitTake \/ CommitPush \/ ProcessTake \/ ProcessIgnored \/ UNCHANGED vars
    BY <1>2, <2>2, Zenon DEF CommitTake, CommitPush, ProcessTake, ProcessIgnored, vars
  <2> QED
    BY <1>2, <1>3, <2>1, <2>2, PolledFrame, DispatchFrames, HostFrame, Zenon
<1>4. CASE ProgressEvent
  <2>1. pending # <<>> /\ pending \in Seq(Events)
    BY <1>4, Zenon DEF ProgressEvent, TypeOK
  <2>2. Head(pending) \in Events
    BY <2>1
  <2> QED
    BY <1>2, <1>4, <2>2, TerminalTyped, Zenon DEF ProgressEvent
<1>5. CASE ProcessTerminal
  <2>1. Top.events \in Seq(Events) /\ Top.events # <<>>
    BY <1>5, TopFacts, Zenon DEF ProcessTerminal, At
  <2>2. Head(Top.events) \in Events
    BY <2>1
  <2> QED
    BY <1>5, <2>2, TerminalTyped, Zenon DEF ProcessTerminal
<1>6. CASE ProcessStreamable
  <2>1. PICK e, erased : /\ terminal' = terminal \ {e} /\ recovering' = recovering \ {e}
                         /\ active' = [k \in Kinds |-> IF k \in erased THEN 0 ELSE active[k]]
                         /\ UNCHANGED <<gens, candidate>>
    BY <1>6, Zenon DEF ProcessStreamable
  <2> QED
    BY <1>1, <2>1 DEF StreamsTyped
<1>7. CASE SourceStep
  <2>1. UNCHANGED <<active, gens, candidate, terminal>>
    BY <1>7, QuietFrame, Zenon
  <2>2. recovering' \subseteq Kinds
    <3>1. CASE UNCHANGED recovering
      BY <1>1, <3>1, Zenon DEF StreamsTyped
    <3>2. Top.event.kind \in Kinds
      <4>1. Top.op = "source"
        BY <1>7, Zenon DEF SourceStep, SourceClosing, SourceDrained, SourceIsActive,
           SourceOpen, SourceOpened, SourcePaired, At
      <4> QED
        BY <4>1, TopFacts, Zenon
    <3>3. Other(Top.event.kind) \in Kinds
      BY DEF Other, Kinds
    <3>4. CASE SourceIsActive \/ SourceOpened \/ SourcePaired
      BY <1>1, <3>2, <3>3, <3>4 DEF SourceIsActive, SourceOpened, SourcePaired, StreamsTyped
    <3> QED
      BY <1>7, <3>1, <3>4, Zenon DEF SourceStep, SourceClosing, SourceDrained, SourceOpen
  <2> QED
    BY <1>1, <2>1, <2>2, Zenon DEF StreamsTyped
<1>8. CASE OpenStep
  <2> DEFINE k == Head(Top.todo)
  <2>1. k \in Kinds
    BY <1>8, TopFacts, Zenon DEF OpenStep, OpenFails, OpenIsOrphan, OpenSucceeds, At
  <2>2. candidate' = [candidate EXCEPT ![k] = 0]
    BY <1>8, Zenon DEF OpenStep, OpenFails, OpenIsOrphan, OpenSucceeds, EndTransition
  <2>3. CASE OpenFails \/ OpenIsOrphan
    <3>1. /\ UNCHANGED <<active, gens>> /\ terminal' \in {terminal, terminal \cup {k}}
          /\ recovering' \in {recovering, recovering \cup {k}, recovering \ {k}}
      BY <2>3, Zenon DEF OpenFails, OpenIsOrphan, MarkRetryFailure
    <3> HIDE DEF k
    <3> QED
      BY <1>1, <2>1, <2>2, <3>1 DEF StreamsTyped
  <2>4. CASE OpenSucceeds
    <3>1. /\ gens' = [gens EXCEPT ![k] = @ + 1] /\ active' = [active EXCEPT ![k] = gens[k] + 1]
          /\ recovering' = recovering \ {k} /\ terminal' = terminal
      BY <2>4, Zenon DEF OpenSucceeds
    <3> HIDE DEF k
    <3> QED
      BY <1>1, <2>1, <2>2, <3>1 DEF StreamsTyped
  <2> QED
    BY <1>8, <2>3, <2>4, Zenon DEF OpenStep
<1>9. CASE ReconfigureStep
  <2>1. CASE ReconfigureClose
    <3>1. PICK erased : /\ active' = [k \in Kinds |-> IF k \in erased THEN 0 ELSE active[k]]
                        /\ UNCHANGED <<gens, candidate, terminal, recovering>>
      BY <2>1, Zenon DEF ReconfigureClose
    <3> QED
      BY <1>1, <3>1 DEF StreamsTyped
  <2> QED
    BY <1>2, <1>9, <2>1, Zenon DEF ReconfigureStep, ReconfigureCloseFails,
       ReconfigureVideoOpened, ReconfigureVideoFailed, ReconfigureDone,
       ReconfigureAudioFailed
<1>10. CASE ReplaceSession
  <2>1. /\ active' = [k \in Kinds |-> 0] /\ candidate' = [k \in Kinds |-> 0]
        /\ terminal' = {} /\ recovering' = {} /\ gens' = gens
    BY <1>10, Zenon DEF ReplaceSession, ClearStreams
  <2> QED
    BY <1>1, <2>1 DEF StreamsTyped
<1>11. CASE ReplaceDrop \/ ReplaceReopen
  BY <1>2, <1>11, Zenon DEF ReplaceDrop, ReplaceReopen
<1> QED
  BY <1>3, <1>4, <1>5, <1>6, <1>7, <1>8, <1>9, <1>10, <1>11, NextGroups, Zenon
  DEF ProcessStep

\* of what is known of the sources,
LEMMA SourcesStep ==
    ASSUME TypeOK, [Next]_vars
    PROVE  SourcesTyped'
<1> USE DEF media, sources
<1>1. SourcesTyped /\ <<>> \in Seq(Events) /\ 0 \in Nat
  BY EmptyIsSeq, Zenon DEF TypeOK, SourcesTyped
<1>2. CASE UNCHANGED <<pending, deferred, order>>
  BY <1>1, <1>2, Zenon DEF SourcesTyped
<1>3. CASE Polled
  <2>1. ASSUME NEW k \in Kinds, NEW state \in SourceStates, NEW exact \in BOOLEAN,
               SourceEvent(k, state, exact)
        PROVE  SourcesTyped'
    <3> DEFINE e == [kind |-> k, state |-> state, exact |-> exact,
                     order |-> order + 1, late |-> FALSE]
    <3>1. pending' = Append(pending, e) /\ deferred' = deferred /\ order' = order + 1
      BY <2>1, Zenon DEF SourceEvent
    <3>2. e \in Events /\ order + 1 \in Nat
      BY <1>1 DEF SourcesTyped, Events
    <3> HIDE DEF e
    <3> QED
      BY <1>1, <3>1, <3>2 DEF SourcesTyped
  <2> QED
    BY <1>2, <1>3, <2>1, Zenon DEF Polled, Decode, StreamPayload, StageFrame
<1>4. CASE ProgressEvent
  <2>1. /\ pending # <<>> /\ pending' = Tail(pending) /\ order' = order
        /\ \/ deferred' = deferred
           \/ deferred' = Append(deferred, [Head(pending) EXCEPT !.late = TRUE])
    BY <1>4, Zenon DEF ProgressEvent
  <2>2. Head(pending) \in Events /\ Tail(pending) \in Seq(Events)
    BY <1>1, <2>1 DEF SourcesTyped
  <2>3. [Head(pending) EXCEPT !.late = TRUE] \in Events
    BY <2>2 DEF Events
  <2>4. \A e \in Events : Append(deferred, e) \in Seq(Events)
    BY <1>1 DEF SourcesTyped
  <2> QED
    BY <1>1, <2>1, <2>2, <2>3, <2>4, Zenon DEF SourcesTyped
<1>5. CASE ProcessStep
  BY <1>1, <1>2, <1>5, Zenon DEF ProcessStep, ProcessTake, ProcessTerminal, ProcessIgnored,
     ProcessStreamable, SourcesTyped
<1>6. CASE SourceStep
  BY <1>2, <1>6, Zenon DEF SourceStep, SourceClosing, SourceDrained, SourceIsActive,
     SourceOpen, SourceOpened, SourcePaired
<1>7. CASE OpenStep
  BY <1>2, <1>7, Zenon DEF OpenStep, OpenFails, OpenIsOrphan, OpenSucceeds
<1>8. CASE ReconfigureStep
  BY <1>2, <1>8, Zenon DEF ReconfigureStep, ReconfigureClose, ReconfigureCloseFails,
     ReconfigureVideoOpened, ReconfigureVideoFailed, ReconfigureDone,
     ReconfigureAudioFailed
<1>9. CASE LoopStepOnly
  BY <1>2, <1>9, Zenon DEF LoopStepOnly, LoopConfigure, LoopOpen, LoopPolled,
     LoopOrphans, LoopRetry, LoopRetryNotDue, LoopControl, ProgressCommit, CallReturns
<1>10. CASE ReplaceSession
  BY <1>1, <1>10, Zenon DEF ReplaceSession, SourcesTyped
<1>11. CASE CommitTake \/ CommitPush \/ ReplaceDrop \/ ReplaceReopen \/ UNCHANGED vars
  BY <1>2, <1>11, Zenon DEF CommitTake, CommitPush, ReplaceDrop, ReplaceReopen, vars
<1>12. CASE DispatchStep \/ HostStep
  BY <1>2, <1>12, DispatchFrames, HostFrame, Zenon
<1> QED
  BY <1>3, <1>4, <1>5, <1>6, <1>7, <1>8, <1>9, <1>10, <1>11, <1>12, NextGroups, Zenon

\* The reset values of the reconfiguration are of its type.
LEMMA NoOperationTyped ==
    /\ NoOperation \in Operations /\ NoRequest \in [rate : Nat, streams : [Kinds -> Nat]]
    /\ NoOperation.streams = [k \in Kinds |-> 0] /\ NoOperation.closed = {}
    /\ NoRequest.streams = [k \in Kinds |-> 0] /\ ~NoOperation.on
BY DEF NoOperation, NoRequest, Operations

\* What advance_video_reconfigure makes of the operation
LEMMA RollbackTyped ==
    ASSUME TypeOK
    PROVE  /\ Rollback \in Operations /\ Rollback.on = operation.on
           /\ Rollback.streams = [video |-> active["video"], audio |-> 0]
           /\ Rollback.closed = {"audio"} \cup {k \in {"video"} : active[k] = 0}
<1>1. operation \in Operations /\ active["video"] \in Nat
  BY DEF TypeOK, Kinds
<1>2. [video |-> active["video"], audio |-> 0] \in [Kinds -> Nat]
  BY <1>1 DEF Kinds
<1>3. {"audio"} \cup {k \in {"video"} : active[k] = 0} \in SUBSET Kinds
  BY DEF Kinds
<1> QED
  BY <1>1, <1>2, <1>3 DEF Rollback, Operations

\* The operation after a step of advance_video_reconfigure
OperationSteps ==
    \/ /\ \E k \in Kinds, hasClosed \in BOOLEAN :
              /\ operation' = [operation EXCEPT !.closed =
                                  IF hasClosed THEN @ \cup {k} ELSE @]
              /\ active' = [j \in Kinds |->
                               IF j = k /\ hasClosed /\ active[j] = operation.streams[j]
                               THEN 0 ELSE active[j]]
       /\ UNCHANGED <<rate, withheld>>
       /\ report' = report \/ (report' = "Pending" /\ Top.op = "reconfigure")
    \/ /\ operation' = [operation EXCEPT !.opened = TRUE]
       /\ UNCHANGED <<active, rate, withheld, report>>
    \/ /\ operation' \in {[operation EXCEPT !.rollback = TRUE], Rollback}
       /\ rate' = operation.previous /\ stack' = <<Loop("retry", Recoverable)>>
       /\ UNCHANGED <<active, withheld, report>>
    \/ /\ operation' = NoOperation /\ rate' \in {rate, operation.previous}
       /\ withheld' \in BOOLEAN /\ report' \in {"Failed", "Applied", "RolledBack"}
       /\ report' # "Failed" => ~withheld'
       /\ stack' = <<Loop("retry", Recoverable)>> /\ UNCHANGED active

\* A step of advance_video_reconfigure changes the operation in one of the known ways and
\* opens nothing.
LEMMA ReconfigureShape ==
    ASSUME TypeOK, ReconfigureStep
    PROVE  /\ OperationSteps
           /\ UNCHANGED <<gens, terminal, recovering, rejected, candidate, configured>>
<1> USE DEF streams, flags, sources
<1>1. CASE ReconfigureClose
  <2>1. Head(Top.todo) \in Kinds
    <3>1. Top.op = "reconfigure" /\ Top.at = "waiting" /\ Top \in Activations
      BY <1>1, TopShape, Zenon DEF ReconfigureClose, At
    <3>2. Top.todo # <<>> /\ Top.todo \in Seq(Kinds)
      BY <3>1, TopFacts, Zenon DEF Activations
    <3> QED
      BY <3>2
  <2> DEFINE k == Head(Top.todo)
  <2>2. PICK hasClosed \in BOOLEAN :
            \E erased \in {{j \in {k} : hasClosed /\ active[j] = operation.streams[j]}},
               o \in {[operation EXCEPT !.closed = IF hasClosed THEN @ \cup {k} ELSE @]} :
               /\ operation' = o
               /\ active' = [j \in Kinds |-> IF j \in erased THEN 0 ELSE active[j]]
               /\ ReportAdvance(o, Tail(Top.todo))
    BY <1>1, Zenon DEF ReconfigureClose
  <2>3. operation' = [operation EXCEPT !.closed = IF hasClosed THEN @ \cup {k} ELSE @]
    BY <2>2, Zenon
  <2>4. active' = [j \in Kinds |-> IF j = k /\ hasClosed /\ active[j] = operation.streams[j]
                                   THEN 0 ELSE active[j]]
    <3> HIDE DEF k
    <3> QED
      BY <2>2
  <2>5. UNCHANGED <<rate, withheld>> /\ Top.op = "reconfigure"
        /\ UNCHANGED <<gens, terminal, recovering, rejected, candidate, configured>>
    BY <1>1, Zenon DEF ReconfigureClose, At
  <2>6. report' = report \/ report' = "Pending"
    BY <2>2, Zenon DEF ReportAdvance
  <2> QED
    BY <2>1, <2>3, <2>4, <2>5, <2>6, Zenon DEF OperationSteps
<1>2. CASE ReconfigureCloseFails
  <2>1. (Head(Top.todo) = "video") \in BOOLEAN /\ (~(Head(Top.todo) = "video")) \in BOOLEAN
    BY Zenon
  <2> QED
    BY <1>2, <2>1, Zenon DEF ReconfigureCloseFails, FinishFailed, ReconfigureEnds,
       OperationSteps
<1>3. CASE ReconfigureVideoOpened
  BY <1>3, Zenon DEF ReconfigureVideoOpened, OperationSteps
<1>4. (~FALSE) \in BOOLEAN
  BY Zenon
<1>5. CASE ReconfigureVideoFailed
  BY <1>4, <1>5, Zenon DEF ReconfigureVideoFailed, FinishFailed, ReconfigureEnds,
     OperationSteps
<1>6. CASE ReconfigureDone
  BY <1>6, Zenon DEF ReconfigureDone, ReconfigureEnds, OperationSteps
<1>7. CASE ReconfigureAudioFailed
  BY <1>4, <1>7, Zenon DEF ReconfigureAudioFailed, FinishFailed, ReconfigureEnds,
     OperationSteps
<1> QED
  BY <1>1, <1>2, <1>3, <1>5, <1>6, <1>7, Zenon DEF ReconfigureStep

\* and of the settings and the reconfiguration.
LEMMA SettingsStep ==
    ASSUME TypeOK, [Next]_vars
    PROVE  SettingsTyped'
<1> USE DEF media, params, settings
<1>1. SettingsTyped /\ NoOperation \in Operations
      /\ NoRequest \in [rate : Nat, streams : [Kinds -> Nat]]
  BY NoOperationTyped, Zenon DEF TypeOK, SettingsTyped
<1>2. CASE UNCHANGED <<request, operation, rate, withheld, configured>>
  BY <1>1, <1>2, Zenon DEF SettingsTyped
<1>3. CASE Polled \/ SourceStep \/ LoopStepOnly \/ CommitTake \/ CommitPush
            \/ ProcessTake \/ ProcessIgnored \/ DispatchStep
  BY <1>2, <1>3, PolledFrame, QuietFrame, PumpFrame, DispatchFrames, Zenon DEF ProcessStep
<1>4. CASE ProgressEvent \/ ProcessTerminal \/ ProcessStreamable \/ ReplaceSession
            \/ OpenFails \/ OpenIsOrphan \/ UNCHANGED vars
  BY <1>2, <1>4, Zenon DEF ProgressEvent, ProcessTerminal, ProcessStreamable,
     ReplaceSession, OpenFails, OpenIsOrphan, vars
<1>5. CASE OpenSucceeds
  <2>1. Head(Top.todo) \in Kinds
    BY <1>5, TopFacts, Zenon DEF OpenSucceeds, At
  <2>2. configured' = configured \cup {Head(Top.todo)}
        /\ UNCHANGED <<request, operation, rate, withheld>>
    BY <1>5, Zenon DEF OpenSucceeds
  <2> QED
    BY <1>1, <2>1, <2>2, Zenon DEF SettingsTyped
<1>6. CASE ReconfigureStep
  <2>1. OperationSteps /\ configured' = configured /\ request' = request
    BY <1>6, ReconfigureShape, PumpFrame, Zenon
  <2>2. operation \in Operations /\ operation.previous \in Nat
    BY <1>1 DEF SettingsTyped, Operations
  <2>3. [operation EXCEPT !.opened = TRUE] \in Operations
        /\ [operation EXCEPT !.rollback = TRUE] \in Operations
    BY <2>2 DEF Operations
  <2>4. \A k \in Kinds, hasClosed \in BOOLEAN :
            [operation EXCEPT !.closed = IF hasClosed THEN @ \cup {k} ELSE @] \in Operations
    BY <2>2 DEF Operations
  <2>5. operation' \in Operations
    BY <1>1, <2>1, <2>3, <2>4, RollbackTyped, Zenon DEF OperationSteps
  <2>6. rate' \in Nat /\ withheld' \in BOOLEAN
    BY <1>1, <2>1, <2>2, Zenon DEF OperationSteps, SettingsTyped
  <2> QED
    BY <1>1, <2>1, <2>5, <2>6, Zenon DEF SettingsTyped
<1>7. CASE ReplaceDrop \/ ReplaceReopen
  <2>1. 0 \in Nat /\ FALSE \in BOOLEAN /\ {} \subseteq Kinds
    OBVIOUS
  <2> QED
    BY <1>1, <1>7, <2>1, Zenon DEF ReplaceDrop, ReplaceReopen, ClearParams, SettingsTyped
<1>8. CASE HostStep
  <2>1. CASE AcquireMedia \/ BindMedia \/ ReleaseMedia \/ UnbindMedia \/ DropIngress
              \/ DropDispatch
    BY <1>2, <2>1, Zenon DEF AcquireMedia, BindMedia, ReleaseMedia, UnbindMedia,
       DropIngress, DropDispatch
  <2>2. ASSUME NEW r \in Rates, RequestRate(r)
        PROVE  SettingsTyped'
    <3>1. request' = [rate |-> r, streams |-> active]
          /\ UNCHANGED <<operation, rate, withheld, configured>>
      BY <2>2, Zenon DEF RequestRate
    <3>2. r \in Nat /\ active \in [Kinds -> Nat]
      BY DEF Rates, TypeOK
    <3>3. request' \in [rate : Nat, streams : [Kinds -> Nat]]
      BY <3>1, <3>2
    <3> QED
      BY <1>1, <3>1, <3>3, Zenon DEF SettingsTyped
  <2>3. CASE RequestBusy \/ RequestUnchanged
    BY <1>1, <2>3, Zenon DEF RequestBusy, RequestUnchanged, RequestEnds, SettingsTyped
  <2>4. CASE RequestAccepted
    <3>1. /\ operation' = [NoOperation EXCEPT !.on = TRUE, !.requested = request.rate,
                               !.previous = rate, !.streams = request.streams,
                               !.configured = configured]
          /\ request' = NoRequest /\ rate' = request.rate /\ withheld' = TRUE
          /\ configured' = configured
      BY <2>4, Zenon DEF RequestAccepted, RequestEnds
    <3>2. request.rate \in Nat /\ request.streams \in [Kinds -> Nat] /\ rate \in Nat
          /\ configured \in SUBSET Kinds /\ TRUE \in BOOLEAN
      BY <1>1 DEF SettingsTyped
    <3>3. operation' \in Operations
      <4> HIDE DEF NoOperation
      <4> QED
        BY <1>1, <3>1, <3>2 DEF Operations
    <3> QED
      BY <1>1, <3>1, <3>2, <3>3, Zenon DEF SettingsTyped
  <2> QED
    BY <1>8, <2>1, <2>2, <2>3, <2>4, Zenon DEF HostStep
<1> QED
  BY <1>3, <1>4, <1>5, <1>6, <1>7, <1>8, NextGroups, Zenon DEF ProcessStep, OpenStep

\* Every step keeps the types.
LEMMA TypeStep ==
    ASSUME KeptIsQueue, TypeOK, LeaseOK, [Next]_vars, StackStep
    PROVE  TypeOK'
<1>1. /\ Stamped \subseteq Entries /\ Decoded \subseteq Entries
  BY Zenon DEF Stamped, Decoded
<1>2. core' \in Seq(Entries) /\ ingress' \in Seq(Entries) /\ fifo' \in Seq(Entries)
      /\ incoming' \in Entries /\ item' \in Entries
  BY <1>1, FramesStep, FifoStep, ItemStep, SeqWidens, Zenon
<1>3. bound' \in Nat /\ epoch' \in Nat \ {0} /\ owner' \in Nat
  BY StampedGrows, Zenon
<1>4. StreamsTyped' /\ SourcesTyped' /\ SettingsTyped'
  BY StreamsStep, SourcesStep, SettingsStep, Zenon
<1>5. StackTyped
  BY Zenon DEF StackStep
<1> QED
  BY <1>2, <1>3, <1>4, <1>5, Zenon
  DEF TypeOK, StreamsTyped, SourcesTyped, SettingsTyped, StackTyped

-----------------------------------------------------------------------------
(* The reconfiguration and its report                                      *)

OnlyLoop == \A i \in 1..Len(stack') : stack'[i].op = "loop"

\* When only the pump's loop is left, no reconfiguration step is on the stack.
LEMMA LoopIsOnly ==
    ASSUME NEW at, NEW todo, stack' = <<Loop(at, todo)>>
    PROVE  OnlyLoop
<1>1. Loop(at, todo).op = "loop"
  BY DEF Loop, Activation
<1> DEFINE l == Loop(at, todo)
<1>2. stack' = <<l>> /\ l.op = "loop"
  BY <1>1, Zenon
<1> HIDE DEF l
<1> QED
  BY <1>2 DEF OnlyLoop

\* The operation ends, and the video stream is withheld without one, only when the
\* pump is back in its loop; what is reported follows.
LEMMA OperationMoves ==
    ASSUME TypeOK, OperationOK, [Next]_vars
    PROVE  /\ operation.on => operation'.on \/ OnlyLoop
           /\ operation.on \/ ~withheld => operation'.on \/ ~withheld' \/ OnlyLoop
           /\ ReportMatchesTheOperation'
<1> USE DEF media, params, settings
<1>1. ReportMatchesTheOperation
  BY Zenon DEF OperationOK
<1>2. CASE UNCHANGED <<operation, withheld, report>>
  BY <1>1, <1>2, Zenon DEF ReportMatchesTheOperation
<1>3. CASE UNCHANGED <<operation, withheld>> /\ report' \in {"Idle", "Unchanged", report}
  BY <1>1, <1>3 DEF ReportMatchesTheOperation
<1>4. CASE Polled \/ SourceStep \/ LoopStepOnly \/ CommitTake \/ CommitPush
            \/ ProcessTake \/ ProcessIgnored \/ DispatchStep
  <2>1. CASE Polled \/ DispatchStep
    BY <1>2, <2>1, PolledFrame, DispatchFrames, Zenon
  <2>2. CASE UNCHANGED <<operation, withheld>> /\ report' = "Pending" /\ operation.on
    BY <2>2 DEF ReportMatchesTheOperation
  <2> QED
    BY <1>2, <1>4, <2>1, <2>2, QuietFrame, Zenon
<1>5. CASE ProgressEvent \/ ProcessTerminal
  BY <1>3, <1>5, Zenon DEF ProgressEvent, ProcessTerminal, TerminalEvent
<1>6. CASE ProcessStreamable \/ ReplaceSession \/ OpenFails \/ OpenIsOrphan \/ UNCHANGED vars
  BY <1>2, <1>6, Zenon DEF ProcessStreamable, ReplaceSession, OpenFails, OpenIsOrphan, vars
<1>7. CASE OpenSucceeds
  <2>1. /\ UNCHANGED <<operation, withheld>>
        /\ report' = IF Head(Top.todo) = "video" /\ ~operation.on THEN "Applied" ELSE report
        /\ Top.op = "open"
    BY <1>7, Zenon DEF OpenSucceeds, At
  <2>2. Len(stack) \in 1..Len(stack)
    BY DEF TypeOK
  <2>3. Head(Top.todo) = "video" /\ ~operation.on => ~withheld
    BY <2>1, <2>2, Zenon DEF OperationOK, Top
  <2> QED
    BY <1>1, <2>1, <2>3 DEF ReportMatchesTheOperation
<1>8. CASE ReconfigureStep
  <2>1. OperationSteps
    BY <1>8, ReconfigureShape, Zenon
  <2>2. operation \in Operations
    BY Zenon DEF TypeOK
  <2>3. CASE operation'.on = operation.on /\ UNCHANGED <<withheld, report>>
    BY <1>1, <2>3, Zenon DEF ReportMatchesTheOperation
  <2>6. CASE /\ operation'.on = operation.on /\ withheld' = withheld
             /\ report' = "Pending" /\ Top.op = "reconfigure"
    <3>1. Len(stack) \in 1..Len(stack)
      BY DEF TypeOK
    <3>2. operation.on
      BY <2>6, <3>1, Zenon DEF OperationOK, Top
    <3> QED
      BY <2>6, <3>2 DEF ReportMatchesTheOperation
  <2>4. /\ [operation EXCEPT !.opened = TRUE].on = operation.on
        /\ [operation EXCEPT !.rollback = TRUE].on = operation.on
        /\ Rollback.on = operation.on
        /\ \A k \in Kinds, hasClosed \in BOOLEAN :
               [operation EXCEPT !.closed = IF hasClosed THEN @ \cup {k} ELSE @].on
                   = operation.on
    BY <2>2, RollbackTyped DEF Operations
  <2>5. CASE /\ operation' = NoOperation /\ report' \in {"Failed", "Applied", "RolledBack"}
             /\ report' # "Failed" => ~withheld'
             /\ stack' = <<Loop("retry", Recoverable)>>
    <3>1. OnlyLoop
      BY <2>5, LoopIsOnly, Zenon
    <3> QED
      BY <2>5, <3>1 DEF ReportMatchesTheOperation
  <2> QED
    BY <2>1, <2>3, <2>4, <2>5, <2>6, Zenon DEF OperationSteps
<1>9. CASE ReplaceDrop \/ ReplaceReopen
  <2>1. stack' = <<Loop("reopen", <<>>)>> \/ stack' = <<Loop("configure", <<>>)>>
    BY <1>9, Zenon DEF ReplaceDrop, ReplaceReopen
  <2>2. OnlyLoop
    BY <2>1, LoopIsOnly, Zenon
  <2>3. report' = "Idle"
    BY <1>9, Zenon DEF ReplaceDrop, ReplaceReopen, ClearParams
  <2> QED
    BY <2>2, <2>3 DEF ReportMatchesTheOperation
<1>10. CASE HostStep
  <2>1. CASE AcquireMedia \/ BindMedia \/ ReleaseMedia \/ UnbindMedia \/ DropIngress
              \/ DropDispatch \/ (\E r \in Rates : RequestRate(r)) \/ RequestBusy
    BY <1>2, <2>1, Zenon DEF AcquireMedia, BindMedia, ReleaseMedia, UnbindMedia,
       DropIngress, DropDispatch, RequestRate, RequestBusy
  <2>2. CASE RequestUnchanged
    BY <1>3, <2>2, Zenon DEF RequestUnchanged
  <2>3. CASE RequestAccepted
    <3>1. operation' = [NoOperation EXCEPT !.on = TRUE, !.requested = request.rate,
                            !.previous = rate, !.streams = request.streams,
                            !.configured = configured]
          /\ report' = "Pending"
      BY <2>3, Zenon DEF RequestAccepted
    <3>2. operation'.on
      BY <3>1, NoOperationTyped DEF Operations
    <3> QED
      BY <3>1, <3>2 DEF ReportMatchesTheOperation
  <2> QED
    BY <1>10, <2>1, <2>2, <2>3, Zenon DEF HostStep
<1> QED
  BY <1>4, <1>5, <1>6, <1>7, <1>8, <1>9, <1>10, NextGroups, Zenon DEF ProcessStep, OpenStep

\* Every step keeps the reconfiguration, its report and the steps on the stack in agreement.
LEMMA OperationStep ==
    ASSUME TypeOK, OperationOK, [Next]_vars, StackKept
    PROVE  OperationOK'
<1>1. /\ operation.on => operation'.on \/ OnlyLoop
      /\ operation.on \/ ~withheld => operation'.on \/ ~withheld' \/ OnlyLoop
      /\ ReportMatchesTheOperation'
  BY OperationMoves, Zenon
<1>2. ASSUME NEW i \in 1..Len(stack')
      PROVE  /\ stack'[i].op = "reconfigure" => operation'.on
             /\ stack'[i].op = "open" /\ Head(stack'[i].todo) = "video" =>
                   operation'.on \/ ~withheld'
  <2>1. CASE OnlyLoop
    BY <2>1 DEF OnlyLoop
  <2>2. CASE Fresh(stack'[i])
    BY <2>2, Zenon DEF Fresh
  <2>3. CASE i \in 1..Len(stack) /\ stack'[i] = stack[i] /\ ~OnlyLoop
    BY <1>1, <2>3, Zenon DEF OperationOK
  <2> QED
    BY <2>1, <2>2, <2>3, Zenon DEF StackKept
<1> QED
  BY <1>1, <1>2, Zenon DEF OperationOK

-----------------------------------------------------------------------------
(* A source that has ended has no stream                                   *)

\* A lifecycle transition that ends leaves no open on the stack.
LEMMA OpenEnds ==
    ASSUME TypeOK, OpensOK, OpenStep, NEW i \in 1..Len(stack')
    PROVE  stack'[i].op # "open"
<1>1. Top.op = "open" /\ stack' = Below \o CommitStaged
  BY Zenon DEF OpenStep, OpenFails, OpenIsOrphan, OpenSucceeds, EndTransition, At
<1>2. /\ Below \in Seq(Activations) /\ Len(Below) = Len(stack) - 1
      /\ \A j \in 1..Len(Below) : Below[j] = stack[j]
      /\ stack \in Seq(Activations) /\ Len(stack) \in Nat \ {0}
  BY TopShape DEF TypeOK
<1>3. CommitStaged \in Seq(Activations)
      /\ \A j \in 1..Len(CommitStaged) : CommitStaged[j].op # "open"
  <2>1. CommitStaged \in Seq(Activations)
    BY CommitStagedOK, Zenon DEF NewOK
  <2>2. CASE CommitStaged = <<>>
    BY <2>1, <2>2
  <2>3. CASE CommitStaged = <<Commit>>
    <3>1. Commit.op = "commit"
      BY CommitFresh, Zenon
    <3> QED
      BY <2>1, <2>3, <3>1
  <2> QED
    BY <2>1, <2>2, <2>3, CommitStagedOK, Zenon
<1>4. CASE i <= Len(Below)
  <2>1. stack'[i] = stack[i] /\ i \in 1..Len(stack) /\ i # Len(stack)
    BY <1>1, <1>2, <1>3, <1>4
  <2>2. Top.op # "commit"
    BY <1>1
  <2> QED
    BY <2>1, <2>2, Zenon DEF OpensOK
<1>5. CASE ~(i <= Len(Below))
  <2>1. stack'[i] = CommitStaged[i - Len(Below)] /\ i - Len(Below) \in 1..Len(CommitStaged)
    BY <1>1, <1>2, <1>3, <1>5
  <2> QED
    BY <1>3, <2>1, Zenon
<1> QED
  BY <1>4, <1>5, Zenon

\* Every step but the end of an openStream only closes streams, and closes those
\* whose source it takes for ended.
Closes(k) ==
    /\ active'[k] = active[k] \/ active'[k] = 0
    /\ candidate'[k] = candidate[k] \/ active'[k] = 0
    /\ k \in terminal' => k \in terminal \/ active'[k] = 0
    /\ k \in rejected => k \in rejected' \/ active'[k] = 0

\* A source that ends or fails closes its stream.
LEMMA TerminalCloses ==
    ASSUME TypeOK, NEW e \in Events, TerminalEvent(e), NEW k \in Kinds
    PROVE  Closes(k)
<1>1. e.kind \in Kinds /\ active \in [Kinds -> Nat] /\ candidate \in [Kinds -> Nat]
  BY DEF TypeOK, Events
<1>2. CASE UNCHANGED <<streams, flags, candidate>>
  BY <1>2, Zenon DEF Closes, streams, flags
<1>3. CASE /\ UNCHANGED <<streams, flags>> /\ active[e.kind] = 0
           /\ candidate' = [candidate EXCEPT ![e.kind] = e.order]
  BY <1>1, <1>3 DEF Closes, streams, flags
<1>4. CASE /\ active' = [active EXCEPT ![e.kind] = 0] /\ UNCHANGED <<candidate, rejected>>
           /\ terminal' = terminal \cup {e.kind}
  BY <1>1, <1>4 DEF Closes
<1> QED
  BY <1>2, <1>3, <1>4, Zenon DEF TerminalEvent

\* Outside openStream a stream can only close, and an end that is noted closes it.
LEMMA ClosesOnly ==
    ASSUME TypeOK, [Next]_vars, ~OpenStep, NEW k \in Kinds
    PROVE  Closes(k)
<1> USE DEF media, streams, flags, sources
<1>1. CASE UNCHANGED <<active, candidate, terminal, rejected>>
  BY <1>1, Zenon DEF Closes
<1>2. CASE Polled \/ SourceStep \/ LoopStepOnly \/ CommitTake \/ CommitPush
            \/ ProcessTake \/ ProcessIgnored \/ DispatchStep \/ HostStep
  BY <1>1, <1>2, PolledFrame, QuietFrame, DispatchFrames, HostFrame, Zenon
<1>3. CASE ProgressEvent
  <2>1. pending # <<>> /\ pending \in Seq(Events)
    BY <1>3, Zenon DEF ProgressEvent, TypeOK
  <2>2. Head(pending) \in Events
    BY <2>1
  <2> QED
    BY <1>1, <1>3, <2>2, TerminalCloses, Zenon DEF ProgressEvent
<1>4. CASE ProcessTerminal
  <2>1. Top.events \in Seq(Events) /\ Top.events # <<>>
    BY <1>4, TopFacts, Zenon DEF ProcessTerminal, At
  <2>2. Head(Top.events) \in Events
    BY <2>1
  <2> QED
    BY <1>4, <2>2, TerminalCloses, Zenon DEF ProcessTerminal
<1>5. CASE ProcessStreamable
  <2>1. UNCHANGED <<candidate, rejected>>
    BY <1>5, Zenon DEF ProcessStreamable
  <2>2. PICK e : terminal' = terminal \ {e}
    BY <1>5, Zenon DEF ProcessStreamable
  <2>3. PICK erased : active' = [j \in Kinds |-> IF j \in erased THEN 0 ELSE active[j]]
    BY <1>5, Zenon DEF ProcessStreamable
  <2> QED
    BY <2>1, <2>2, <2>3, Zenon DEF Closes
<1>6. CASE ReconfigureStep
  <2>1. OperationSteps /\ UNCHANGED <<terminal, rejected, candidate>>
    BY <1>6, ReconfigureShape, Zenon
  <2>2. active'[k] = active[k] \/ active'[k] = 0
    <3>1. CASE UNCHANGED active
      BY <3>1, Zenon
    <3>2. CASE \E j \in Kinds, hasClosed \in BOOLEAN :
                  active' = [i \in Kinds |->
                                IF i = j /\ hasClosed /\ active[i] = operation.streams[i]
                                THEN 0 ELSE active[i]]
      BY <3>2, Zenon
    <3> QED
      BY <2>1, <3>1, <3>2, Zenon DEF OperationSteps
  <2> QED
    BY <2>1, <2>2, Zenon DEF Closes
<1>7. CASE ReplaceSession
  <2>1. active' = [j \in Kinds |-> 0]
    BY <1>7, Zenon DEF ReplaceSession, ClearStreams
  <2> QED
    BY <2>1 DEF Closes
<1>8. CASE ReplaceDrop \/ ReplaceReopen \/ UNCHANGED vars
  BY <1>1, <1>8, Zenon DEF ReplaceDrop, ReplaceReopen, vars
<1> QED
  BY <1>2, <1>3, <1>4, <1>5, <1>6, <1>7, <1>8, NextGroups, Zenon DEF ProcessStep

\* Every step keeps an ended source without a stream: openStream, the only call that opens
\* one, looks at what was reported while it was in flight (configure_media_stream_kind).
LEMMA EndedStep ==
    ASSUME TypeOK, OpensOK, EndedOK, [Next]_vars, StackStep
    PROVE  EndedOK'
<1>1. /\ \A k \in Kinds : candidate[k] # 0 => active[k] = 0
      /\ \A k \in terminal \ rejected : active[k] = 0
      /\ terminal \subseteq Kinds /\ active \in [Kinds -> Nat]
      /\ candidate \in [Kinds -> Nat] /\ gens \in [Kinds -> Nat]
  BY Zenon DEF EndedOK, EndedSourceHasNoStream, TypeOK
<1>2. terminal' \subseteq Kinds
  BY StreamsStep, Zenon DEF StreamsTyped
<1>3. CASE OpenStep
  <2> DEFINE k == Head(Top.todo)
  <2>1. k \in Kinds /\ Top.op = "open" /\ Len(stack) \in 1..Len(stack)
    <3>1. Top.op = "open"
      BY <1>3, Zenon DEF OpenStep, OpenFails, OpenIsOrphan, OpenSucceeds, At
    <3>2. k \in Kinds
      BY <3>1, TopFacts, Zenon
    <3>3. Len(stack) \in Nat \ {0}
      BY TopShape, Zenon
    <3>4. Len(stack) \in 1..Len(stack)
      BY <3>3
    <3> QED
      BY <3>1, <3>2, <3>4, Zenon
  <2>2. k \in terminal => active[k] = 0
    BY <2>1, Zenon DEF EndedOK, Top
  <2>3. candidate' = [candidate EXCEPT ![k] = 0]
    BY <1>3, Zenon DEF OpenStep, OpenFails, OpenIsOrphan, OpenSucceeds, EndTransition
  <2>4. \A i \in 1..Len(stack') : stack'[i].op # "open"
    BY <1>3, OpenEnds, Zenon
  <2>5. CASE OpenFails
    <3>1. active' = active
          /\ \/ terminal' = terminal \cup {k} /\ rejected' = rejected \cup {k}
             \/ terminal' = terminal /\ rejected' = rejected \ {k}
      BY <2>5, Zenon DEF OpenFails, MarkRetryFailure, streams
    <3> HIDE DEF k
    <3>2. EndedSourceHasNoStream'
      BY <1>1, <2>2, <3>1 DEF EndedSourceHasNoStream
    <3>3. \A j \in Kinds : candidate'[j] # 0 => active'[j] = 0
      BY <1>1, <2>1, <2>3, <3>1
    <3> QED
      BY <2>4, <3>2, <3>3, Zenon DEF EndedOK
  <2>6. CASE OpenIsOrphan
    <3>1. active' = active /\ terminal' = terminal \cup {k} /\ rejected' = rejected
          /\ (k \in terminal \/ candidate[k] # 0)
      BY <2>6, Zenon DEF OpenIsOrphan, streams
    <3> HIDE DEF k
    <3>2. active[k] = 0
      BY <1>1, <2>1, <2>2, <3>1, Zenon
    <3>3. EndedSourceHasNoStream'
      BY <1>1, <3>1, <3>2 DEF EndedSourceHasNoStream
    <3>4. \A j \in Kinds : candidate'[j] # 0 => active'[j] = 0
      BY <1>1, <2>1, <2>3, <3>1
    <3> QED
      BY <2>4, <3>3, <3>4, Zenon DEF EndedOK
  <2>7. CASE OpenSucceeds
    <3>1. active' = [active EXCEPT ![k] = gens[k] + 1] /\ terminal' = terminal
          /\ rejected' = rejected \ {k} /\ k \notin terminal
      BY <2>7, Zenon DEF OpenSucceeds
    <3> HIDE DEF k
    <3>2. EndedSourceHasNoStream'
      BY <1>1, <2>1, <3>1 DEF EndedSourceHasNoStream
    <3>3. \A j \in Kinds : candidate'[j] # 0 => active'[j] = 0
      BY <1>1, <2>1, <2>3, <3>1
    <3> QED
      BY <2>4, <3>2, <3>3, Zenon DEF EndedOK
  <2> QED
    BY <1>3, <2>5, <2>6, <2>7, Zenon DEF OpenStep
<1>4. CASE ~OpenStep
  <2>1. \A k \in Kinds : Closes(k)
    BY <1>4, ClosesOnly, Zenon
  <2>2. \A k \in Kinds : candidate'[k] # 0 => active'[k] = 0
    BY <1>1, <2>1, Zenon DEF Closes
  <2>3. EndedSourceHasNoStream'
    BY <1>1, <1>2, <2>1, Zenon DEF Closes, EndedSourceHasNoStream
  <2>4. ASSUME NEW i \in 1..Len(stack'), stack'[i].op = "open",
               Head(stack'[i].todo) \in terminal'
        PROVE  active'[Head(stack'[i].todo)] = 0
    <3>1. ~Fresh(stack'[i])
      BY <2>4, Zenon DEF Fresh
    <3>2. i \in 1..Len(stack) /\ stack'[i] = stack[i]
      BY <3>1, Zenon DEF StackStep, StackKept
    <3>3. Closes(Head(stack'[i].todo))
      BY <1>2, <2>1, <2>4, Zenon
    <3> QED
      BY <2>4, <3>2, <3>3, Zenon DEF EndedOK, Closes
  <2> QED
    BY <2>2, <2>3, <2>4, Zenon DEF EndedOK
<1> QED
  BY <1>3, <1>4, Zenon

-----------------------------------------------------------------------------
(* A replacement follows the close                                         *)

GenerationsOK ==
    \A k \in Kinds : /\ active[k] <= gens[k] /\ request.streams[k] <= gens[k]
                     /\ operation.streams[k] <= gens[k]

StayClosed ==
    \A k \in operation.closed : operation.streams[k] # 0 => active[k] # operation.streams[k]

\* Nobody begins to replace a stream before the operation has closed it.
LEMMA ReplacingStep ==
    ASSUME ClosedOK, StackKept, (HasClosed => HasClosed') \/ OnlyLoop
              \/ \A i \in 1..Len(stack) : stack[i].op # "reconfigure",
           NEW i \in 1..Len(stack'), Replacing(stack'[i])
    PROVE  HasClosed'
<1>1. stack'[i].op = "reconfigure"
  BY Zenon DEF Replacing
<1>2. ~OnlyLoop
  BY <1>1 DEF OnlyLoop
<1>3. CASE Fresh(stack'[i])
  BY <1>1, <1>3, Zenon DEF Fresh
<1>4. CASE i \in 1..Len(stack) /\ stack'[i] = stack[i]
  BY <1>1, <1>2, <1>4, Zenon DEF ClosedOK
<1> QED
  BY <1>3, <1>4, Zenon DEF StackKept

\* A step that closes streams at most
LEMMA ClosedKept ==
    ASSUME TypeOK, ClosedOK, StackKept, UNCHANGED <<gens, operation, request>>,
           \A k \in Kinds : active'[k] = active[k] \/ active'[k] = 0
    PROVE  ClosedOK'
<1>1. GenerationsOK /\ StayClosed
  BY Zenon DEF ClosedOK, GenerationsOK, StayClosed
<1>2. gens \in [Kinds -> Nat] /\ operation.closed \subseteq Kinds
  BY DEF TypeOK, Operations
<1>3. \A k \in Kinds : gens[k] \in Nat /\ 0 <= gens[k]
  BY <1>2
<1>4. GenerationsOK'
  BY <1>1, <1>3, Zenon DEF GenerationsOK
<1>5. StayClosed'
  BY <1>1, <1>2, Zenon DEF StayClosed
<1>6. HasClosed => HasClosed'
  BY Zenon DEF HasClosed
<1> QED
  BY <1>4, <1>5, <1>6, ReplacingStep, Zenon DEF ClosedOK, GenerationsOK, StayClosed

\* openStream returns a generation that no operation has seen.
LEMMA ClosedOpen ==
    ASSUME TypeOK, ClosedOK, StackKept, OpenStep
    PROVE  ClosedOK'
<1>1. UNCHANGED <<operation, request>>
  BY PumpFrame, Zenon DEF OpenStep, OpenFails, OpenIsOrphan, OpenSucceeds, params, settings
<1>2. CASE OpenFails \/ OpenIsOrphan
  <2>1. UNCHANGED <<gens, active>>
    BY <1>2, Zenon DEF OpenFails, OpenIsOrphan, streams
  <2> QED
    BY <1>1, <2>1, ClosedKept, Zenon
<1>3. CASE OpenSucceeds
  <2> DEFINE n == Head(Top.todo)
  <2>1. gens' = [gens EXCEPT ![n] = @ + 1] /\ active' = [active EXCEPT ![n] = gens[n] + 1]
    BY <1>3, Zenon DEF OpenSucceeds
  <2>2. n \in Kinds
    BY <1>3, TopFacts, Zenon DEF OpenSucceeds, At
  <2> HIDE DEF n
  <2>3. /\ gens \in [Kinds -> Nat] /\ active \in [Kinds -> Nat]
        /\ request.streams \in [Kinds -> Nat] /\ operation.streams \in [Kinds -> Nat]
        /\ operation.closed \subseteq Kinds
    BY DEF TypeOK, Operations
  <2>4. GenerationsOK /\ StayClosed
    BY Zenon DEF ClosedOK, GenerationsOK, StayClosed
  <2>5. ASSUME NEW k \in Kinds
        PROVE  /\ active'[k] <= gens'[k] /\ request.streams[k] <= gens'[k]
               /\ operation.streams[k] <= gens'[k]
               /\ active'[k] = active[k] \/ active'[k] # operation.streams[k]
    <3>1. /\ gens[k] \in Nat /\ active[k] \in Nat /\ request.streams[k] \in Nat
          /\ operation.streams[k] \in Nat
      BY <2>3
    <3>2. /\ active[k] <= gens[k] /\ request.streams[k] <= gens[k]
          /\ operation.streams[k] <= gens[k]
      BY <2>4, Zenon DEF GenerationsOK
    <3>3. CASE k = n
      <4>1. gens'[k] = gens[k] + 1 /\ active'[k] = gens[k] + 1
        BY <2>1, <2>2, <2>3, <3>3
      <4> QED
        BY <3>1, <3>2, <4>1, SMTT(60)
    <3>4. CASE k # n
      <4>1. gens'[k] = gens[k] /\ active'[k] = active[k]
        BY <2>1, <2>2, <2>3, <3>4
      <4> QED
        BY <3>2, <4>1, Zenon
    <3> QED
      BY <3>3, <3>4, Zenon
  <2>6. GenerationsOK'
    BY <1>1, <2>5, Zenon DEF GenerationsOK
  <2>7. StayClosed'
    BY <1>1, <2>3, <2>4, <2>5, Zenon DEF StayClosed
  <2>8. HasClosed => HasClosed'
    BY <1>1, Zenon DEF HasClosed
  <2> QED
    BY <2>6, <2>7, <2>8, ReplacingStep, Zenon DEF ClosedOK, GenerationsOK, StayClosed
<1> QED
  BY <1>2, <1>3, Zenon DEF OpenStep

\* What advance_video_reconfigure has closed is not open; a rollback begins with the
\* streams that are.
LEMMA ClosedReconfigure ==
    ASSUME TypeOK, ClosedOK, StackKept, ReconfigureStep
    PROVE  ClosedOK'
<1>1. OperationSteps /\ gens' = gens /\ request' = request
  BY ReconfigureShape, PumpFrame, Zenon
<1>2. GenerationsOK /\ StayClosed
  BY Zenon DEF ClosedOK, GenerationsOK, StayClosed
<1>3. /\ operation \in Operations /\ gens \in [Kinds -> Nat] /\ active \in [Kinds -> Nat]
      /\ operation.streams \in [Kinds -> Nat] /\ operation.closed \subseteq Kinds
  BY DEF TypeOK, Operations
<1>4. \A k \in Kinds : gens[k] \in Nat /\ 0 <= gens[k]
  BY <1>3, SMTT(60)
<1>5. ASSUME NEW k \in Kinds, NEW hasClosed \in BOOLEAN,
             operation' = [operation EXCEPT !.closed = IF hasClosed THEN @ \cup {k} ELSE @],
             active' = [j \in Kinds |->
                           IF j = k /\ hasClosed /\ active[j] = operation.streams[j]
                           THEN 0 ELSE active[j]]
      PROVE  ClosedOK'
  <2>1. operation'.streams = operation.streams
        /\ operation'.closed = (IF hasClosed THEN operation.closed \cup {k}
                                ELSE operation.closed)
    BY <1>3, <1>5 DEF Operations
  <2>2. \A j \in Kinds : \/ active'[j] = active[j]
                         \/ active'[j] = 0
    BY <1>5, Zenon
  <2>3. hasClosed /\ operation.streams[k] # 0 => active'[k] # operation.streams[k]
    BY <1>5, Zenon
  <2>4. GenerationsOK'
    BY <1>1, <1>2, <1>4, <2>1, <2>2, Zenon DEF GenerationsOK
  <2>5. StayClosed'
    BY <1>2, <1>3, <2>1, <2>2, <2>3, Zenon DEF StayClosed
  <2>6. HasClosed => HasClosed'
    BY <2>1, Zenon DEF HasClosed
  <2> QED
    BY <2>4, <2>5, <2>6, ReplacingStep, Zenon DEF ClosedOK, GenerationsOK, StayClosed
<1>6. ASSUME operation'.streams = operation.streams, operation'.closed = operation.closed,
             UNCHANGED active
      PROVE  ClosedOK'
  <2>1. GenerationsOK' /\ StayClosed'
    BY <1>1, <1>2, <1>6, Zenon DEF GenerationsOK, StayClosed
  <2>2. HasClosed => HasClosed'
    BY <1>6, Zenon DEF HasClosed
  <2> QED
    BY <2>1, <2>2, ReplacingStep, Zenon DEF ClosedOK, GenerationsOK, StayClosed
<1>7. CASE operation' = [operation EXCEPT !.opened = TRUE] /\ UNCHANGED active
  <2>1. operation'.streams = operation.streams /\ operation'.closed = operation.closed
    BY <1>3, <1>7 DEF Operations
  <2> QED
    BY <1>6, <1>7, <2>1, Zenon
<1>8. CASE operation' = [operation EXCEPT !.rollback = TRUE] /\ UNCHANGED active
  <2>1. operation'.streams = operation.streams /\ operation'.closed = operation.closed
    BY <1>3, <1>8 DEF Operations
  <2> QED
    BY <1>6, <1>8, <2>1, Zenon
<1>9. CASE operation' = Rollback /\ UNCHANGED active /\ stack' = <<Loop("retry", Recoverable)>>
  <2>1. operation'.streams = [video |-> active["video"], audio |-> 0]
        /\ operation'.closed = {"audio"} \cup {k \in {"video"} : active[k] = 0}
    BY <1>9, RollbackTyped, Zenon
  <2>2. operation'.streams["video"] = active["video"] /\ operation'.streams["audio"] = 0
    BY <2>1
  <2>3. \A k \in Kinds : k = "video" \/ k = "audio"
    BY DEF Kinds
  <2>4. GenerationsOK'
    BY <1>1, <1>2, <1>4, <1>9, <2>2, <2>3, Zenon DEF GenerationsOK
  <2>5. StayClosed'
    BY <1>9, <2>1, <2>2, Zenon DEF StayClosed
  <2>6. OnlyLoop
    BY <1>9, LoopIsOnly, Zenon
  <2> QED
    BY <2>4, <2>5, <2>6, ReplacingStep, Zenon DEF ClosedOK, GenerationsOK, StayClosed
<1>10. CASE operation' = NoOperation /\ UNCHANGED active
  <2>1. operation'.streams = [k \in Kinds |-> 0] /\ operation'.closed = {}
    BY <1>10, NoOperationTyped, Zenon
  <2>2. \A k \in Kinds : operation'.streams[k] = 0
    BY <2>1, Zenon
  <2>3. GenerationsOK'
    BY <1>1, <1>2, <1>4, <1>10, <2>2, Zenon DEF GenerationsOK
  <2>4. StayClosed' /\ HasClosed'
    BY <2>1, <2>2, Zenon DEF StayClosed, HasClosed
  <2> QED
    BY <2>3, <2>4, ReplacingStep, Zenon DEF ClosedOK, GenerationsOK, StayClosed
<1> QED
  BY <1>1, <1>5, <1>7, <1>8, <1>9, <1>10, Zenon DEF OperationSteps

\* The Host's steps take a new request or drop the operation; the streams stay as they are.
LEMMA ClosedHost ==
    ASSUME TypeOK, ClosedOK, OperationOK, StackKept, HostStep
    PROVE  ClosedOK'
<1> USE DEF media, params, settings
<1>1. UNCHANGED <<active, gens, stack>>
  BY HostFrame, Zenon
<1>2. GenerationsOK /\ StayClosed
  BY Zenon DEF ClosedOK, GenerationsOK, StayClosed
<1>3. \A k \in Kinds : gens[k] \in Nat /\ 0 <= gens[k]
  BY DEF TypeOK
<1>4. CASE UNCHANGED <<operation, request>>
  BY <1>1, <1>4, ClosedKept, Zenon
<1>5. CASE UNCHANGED operation /\ \A k \in Kinds : request'.streams[k] <= gens[k]
  <2>1. GenerationsOK' /\ StayClosed'
    BY <1>1, <1>2, <1>5, Zenon DEF GenerationsOK, StayClosed
  <2>2. HasClosed => HasClosed'
    BY <1>5, Zenon DEF HasClosed
  <2> QED
    BY <2>1, <2>2, ReplacingStep, Zenon DEF ClosedOK, GenerationsOK, StayClosed
<1>6. \A k \in Kinds : NoRequest.streams[k] <= gens[k]
  <2>1. \A k \in Kinds : NoRequest.streams[k] = 0
    BY NoOperationTyped, Zenon
  <2> QED
    BY <1>3, <2>1, Zenon
<1>7. CASE AcquireMedia \/ BindMedia \/ ReleaseMedia \/ UnbindMedia \/ DropIngress
            \/ DropDispatch
  BY <1>4, <1>7, Zenon DEF AcquireMedia, BindMedia, ReleaseMedia, UnbindMedia,
     DropIngress, DropDispatch
<1>8. ASSUME NEW r \in Rates, RequestRate(r)
      PROVE  ClosedOK'
  <2>1. request' = [rate |-> r, streams |-> active] /\ operation' = operation
    BY <1>8, Zenon DEF RequestRate
  <2>2. request'.streams = active
    BY <2>1
  <2> QED
    BY <1>2, <1>5, <2>1, <2>2, Zenon DEF GenerationsOK
<1>9. CASE RequestBusy \/ RequestUnchanged
  BY <1>5, <1>6, <1>9, Zenon DEF RequestBusy, RequestUnchanged, RequestEnds
<1>10. CASE RequestAccepted
  <2>1. /\ operation' = [NoOperation EXCEPT !.on = TRUE, !.requested = request.rate,
                             !.previous = rate, !.streams = request.streams,
                             !.configured = configured]
        /\ request' = NoRequest /\ ~operation.on
    BY <1>10, Zenon DEF RequestAccepted, RequestEnds
  <2>2. operation'.streams = request.streams /\ operation'.closed = {}
    <3> HIDE DEF NoOperation
    <3> QED
      BY <2>1, NoOperationTyped DEF Operations
  <2>3. GenerationsOK'
    BY <1>1, <1>2, <1>6, <2>1, <2>2, Zenon DEF GenerationsOK
  <2>4. StayClosed'
    BY <2>2, Zenon DEF StayClosed
  <2>5. \A i \in 1..Len(stack) : stack[i].op # "reconfigure"
    BY <2>1, Zenon DEF OperationOK
  <2> QED
    BY <2>3, <2>4, <2>5, ReplacingStep, Zenon DEF ClosedOK, GenerationsOK, StayClosed
<1> QED
  BY <1>7, <1>8, <1>9, <1>10, Zenon DEF HostStep

\* Every step keeps the streams of the request closed once they were seen closed.
LEMMA ClosedStep ==
    ASSUME TypeOK, ClosedOK, OperationOK, StackKept, [Next]_vars
    PROVE  ClosedOK'
<1> USE DEF media, streams, params, settings
<1>1. CASE OpenStep \/ ReconfigureStep \/ HostStep
  BY <1>1, ClosedOpen, ClosedReconfigure, ClosedHost, Zenon
<1>2. CASE ReplaceDrop
  <2>1. operation' = NoOperation /\ UNCHANGED <<active, gens, request>>
    BY <1>2, Zenon DEF ReplaceDrop, ClearParams
  <2>2. operation'.streams = [k \in Kinds |-> 0] /\ operation'.closed = {}
    BY <2>1, NoOperationTyped, Zenon
  <2>3. \A k \in Kinds : operation'.streams[k] = 0
    BY <2>2, Zenon
  <2>4. \A k \in Kinds : 0 <= gens[k]
    BY DEF TypeOK
  <2>5. GenerationsOK'
    BY <2>1, <2>3, <2>4, Zenon DEF ClosedOK, GenerationsOK
  <2>6. StayClosed' /\ HasClosed'
    BY <2>2, <2>3, Zenon DEF StayClosed, HasClosed
  <2> QED
    BY <2>5, <2>6, ReplacingStep, Zenon DEF ClosedOK, GenerationsOK, StayClosed
<1>3. CASE UNCHANGED <<gens, operation, request>> /\ ~OpenStep
  <2>1. \A k \in Kinds : active'[k] = active[k] \/ active'[k] = 0
    BY <1>3, ClosesOnly, Zenon DEF Closes
  <2> QED
    BY <1>3, <2>1, ClosedKept, Zenon
<1>4. CASE Polled \/ SourceStep \/ LoopStepOnly \/ CommitTake \/ CommitPush
            \/ ProcessTake \/ ProcessIgnored \/ DispatchStep
  <2>1. UNCHANGED <<gens, operation, request>>
    BY <1>4, PolledFrame, QuietFrame, PumpFrame, DispatchFrames, Zenon DEF ProcessStep
  <2> QED
    BY <1>1, <1>3, <2>1, Zenon
<1>5. CASE ProgressEvent \/ ProcessTerminal \/ ProcessStreamable \/ ReplaceSession
            \/ ReplaceReopen \/ UNCHANGED vars
  <2>1. UNCHANGED <<gens, operation, request>>
    BY <1>5, Zenon DEF ProgressEvent, ProcessTerminal, TerminalEvent, ProcessStreamable,
       ReplaceSession, ReplaceReopen, vars
  <2> QED
    BY <1>1, <1>3, <2>1, Zenon
<1> QED
  BY <1>1, <1>2, <1>4, <1>5, NextGroups, Zenon DEF ProcessStep

-----------------------------------------------------------------------------
(* The theorems                                                            *)

\* Nothing is open, staged or queued when the first session begins.
LEMMA InitIInv ==
    ASSUME Init
    PROVE  IInv
<1> DEFINE l == Loop("configure", <<>>)
<1>1. stack = <<l>> /\ l.op = "loop" /\ l \in Activations
  <2>1. /\ "configure" \in Places /\ <<>> \in Seq(Kinds)
        /\ "loop" \in {"loop", "call", "process", "commit"}
        /\ "configure" # "open"
    BY EmptyIsSeq DEF Places
  <2> QED
    BY <2>1, ActivationType, Zenon DEF Init, Loop
<1> HIDE DEF l
<1>2. Len(stack) = 1 /\ stack[1] = l /\ stack \in Seq(Activations) /\ stack # <<>>
  BY <1>1
<1>3. \A i \in 1..Len(stack) : stack[i].op = "loop"
  BY <1>1, <1>2
<1>4. NoEntry \in Entries /\ NoEntry.token = 0
  BY DEF NoEntry, Entry, Entries
<1>5. bound = 1 /\ epoch = 1 /\ owner = 1
  BY Zenon DEF Init
<1>6. \A X : <<>> \in Seq(X)
  BY EmptyIsSeq, Zenon
<1>7. TypeOK
  <2>1. /\ core \in Seq(Entries) /\ ingress \in Seq(Entries) /\ fifo \in Seq(Entries)
        /\ incoming \in Entries /\ item \in Entries
        /\ pending \in Seq(Events) /\ deferred \in Seq(Events)
    BY <1>4, <1>6, Zenon DEF Init
  <2>2. /\ active \in [Kinds -> Nat] /\ gens \in [Kinds -> Nat] /\ candidate \in [Kinds -> Nat]
        /\ terminal \subseteq Kinds /\ recovering \subseteq Kinds /\ order \in Nat
        /\ rate \in Nat /\ withheld \in BOOLEAN /\ configured \subseteq Kinds
    BY DEF Init
  <2>3. bound \in Nat /\ epoch \in Nat \ {0} /\ owner \in Nat
    BY <1>5
  <2>4. operation \in Operations /\ request \in [rate : Nat, streams : [Kinds -> Nat]]
    BY NoOperationTyped, Zenon DEF Init
  <2>5. stack[1].op \in Bottom
    BY <1>1, <1>2 DEF Bottom
  <2> QED
    BY <1>2, <2>1, <2>2, <2>3, <2>4, <2>5, Zenon DEF TypeOK
<1>8. LeaseOK
  <2>1. NoEntry \in Stamped
    BY <1>7, NoEntryStamped, Zenon
  <2>2. dispatcher # "deliver"
    BY DEF Init
  <2>3. \A i \in 1..Len(stack) : stack[i].op # "commit"
    BY <1>3
  <2> QED
    BY <1>6, <2>1, <2>2, <2>3, Zenon DEF Init, LeaseOK
<1>9. OpensOK /\ OperationOK
  <2>1. \A i \in 1..Len(stack) : stack[i].op # "open" /\ stack[i].op # "reconfigure"
    BY <1>3
  <2>2. report # "Pending" /\ report \notin {"Applied", "RolledBack"}
    BY DEF Init
  <2> QED
    BY <2>1, <2>2, Zenon DEF OpensOK, OperationOK, ReportMatchesTheOperation
<1>10. EndedOK
  <2>1. \A i \in 1..Len(stack) : stack[i].op # "open"
    BY <1>3
  <2>2. \A k \in Kinds : active[k] = 0
    BY Zenon DEF Init
  <2> QED
    BY <1>7, <2>1, <2>2, Zenon DEF EndedOK, EndedSourceHasNoStream, TypeOK
<1>11. ClosedOK
  <2>1. \A i \in 1..Len(stack) : ~Replacing(stack[i])
    BY <1>3 DEF Replacing
  <2>2. operation = NoOperation /\ request = NoRequest
        /\ active = [k \in Kinds |-> 0] /\ gens = [k \in Kinds |-> 0]
    BY Zenon DEF Init
  <2>3. operation.streams = [k \in Kinds |-> 0] /\ operation.closed = {}
        /\ request.streams = [k \in Kinds |-> 0]
    BY <2>2, NoOperationTyped, Zenon
  <2>4. 0 <= 0
    OBVIOUS
  <2>5. GenerationsOK
    BY <2>2, <2>3, <2>4, Zenon DEF GenerationsOK
  <2> QED
    BY <2>1, <2>3, <2>5, Zenon DEF ClosedOK, GenerationsOK
<1> QED
  BY <1>7, <1>8, <1>9, <1>10, <1>11, Zenon DEF IInv

\* Every step of the pump, the recovery worker, the dispatcher and the Host keeps the
\* invariant.
LEMMA NextIInv ==
    ASSUME KeptIsQueue, IInv, [Next]_vars
    PROVE  IInv'
<1>1. TypeOK /\ LeaseOK /\ OpensOK /\ OperationOK /\ EndedOK /\ ClosedOK
  BY Zenon DEF IInv
<1>2. StackStep /\ StackKept /\ OpensOK'
  BY <1>1, StackNext, Zenon DEF StackStep
<1>3. TypeOK' /\ LeaseOK'
  BY <1>1, <1>2, TypeStep, LeaseStep, Zenon
<1>4. OperationOK' /\ EndedOK' /\ ClosedOK'
  BY <1>1, <1>2, OperationStep, EndedStep, ClosedStep, Zenon
<1> QED
  BY <1>2, <1>3, <1>4, Zenon DEF IInv

-----------------------------------------------------------------------------
(* erase() keeps the type of a queue, and with it the invariant            *)

INSTANCE FiniteSetTheorems
INSTANCE NaturalsInduction
INSTANCE WellFoundedInduction

\* A set of natural numbers has a least element.
LEMMA LeastExists ==
    ASSUME NEW S, S \subseteq Nat, S # {}
    PROVE  \E i \in S : \A j \in S : i <= j
<1>1. PICK i \in S : \A j \in S : ~(<<j, i>> \in OpToRel(<, Nat))
  BY WFMin, NatLessThanWellFounded, Zenon
<1>2. ASSUME NEW j \in S, j < i
      PROVE  FALSE
  <2>1. <<j, i>> \in OpToRel(<, Nat)
    BY <1>2 DEF OpToRel
  <2> QED
    BY <2>1, <1>1
<1> QED
  BY <1>2

\* What erase() leaves of a queue has elements of the queue only.
LEMMA KeptIsSeq ==
    ASSUME NEW X, NEW q \in Seq(X), NEW S
    PROVE  Kept(q, S) \in Seq(X)
<1> DEFINE K == {i \in DOMAIN q : q[i] \in S}
           upTo(i) == {j \in K : j <= i}
           N == Cardinality(K)
           f == [n \in 1..N |-> CHOOSE i \in K : Cardinality(upTo(i)) = n]
<1>1. DOMAIN q = 1..Len(q) /\ Len(q) \in Nat /\ K \subseteq 1..Len(q)
  OBVIOUS
<1>2. IsFiniteSet(K) /\ N \in Nat
  <2>1. IsFiniteSet(1..Len(q))
    BY <1>1, FS_Interval
  <2> QED
    BY <1>1, <2>1, FS_Subset, FS_CardinalityType
<1>3. ASSUME NEW i
      PROVE  /\ IsFiniteSet(upTo(i)) /\ Cardinality(upTo(i)) \in Nat
             /\ Cardinality(upTo(i)) <= N
  <2>1. upTo(i) \in SUBSET K
    OBVIOUS
  <2> HIDE DEF K, upTo
  <2> QED
    BY <2>1, <1>2, FS_Subset, FS_CardinalityType
<1>5. ASSUME NEW n \in 1..N
      PROVE  \E i \in K : Cardinality(upTo(i)) = n
  <2> DEFINE T == {i \in 0..Len(q) : Cardinality(upTo(i)) >= n}
  <2>1. upTo(Len(q)) = K /\ upTo(0) = {}
    BY <1>1
  <2>2. ASSUME NEW i \in 1..Len(q)
        PROVE  /\ i \notin K => upTo(i) = upTo(i - 1)
               /\ i \in K => upTo(i) = upTo(i - 1) \cup {i} /\ i \notin upTo(i - 1)
    BY <1>1
  <2> HIDE DEF K, upTo
  <2>3. Cardinality(upTo(Len(q))) = N /\ Cardinality(upTo(0)) = 0
    BY <2>1, FS_EmptySet, Zenon
  <2>4. ASSUME NEW i \in 1..Len(q)
        PROVE  /\ i \notin K => Cardinality(upTo(i)) = Cardinality(upTo(i - 1))
               /\ i \in K => Cardinality(upTo(i)) = Cardinality(upTo(i - 1)) + 1
    <3>1. /\ IsFiniteSet(upTo(i - 1) \cup {i})
          /\ Cardinality(upTo(i - 1) \cup {i}) =
                IF i \in upTo(i - 1) THEN Cardinality(upTo(i - 1))
                ELSE Cardinality(upTo(i - 1)) + 1
      BY <1>3, FS_AddElement, Zenon
    <3> QED
      BY <2>2, <3>1, Zenon
  <2> HIDE DEF N
  <2>5. Len(q) \in T /\ T \subseteq Nat
    BY <2>3, <1>1, <1>2
  <2>6. \A i \in 0..Len(q) : i \in T <=> Cardinality(upTo(i)) >= n
    OBVIOUS
  <2>7. T \subseteq 0..Len(q)
    OBVIOUS
  <2> HIDE DEF T
  <2>8. PICK i \in T : \A j \in T : i <= j
    BY <2>5, LeastExists, Zenon
  <2>9. i \in 1..Len(q) /\ i - 1 \in 0..Len(q) /\ i - 1 \notin T
    BY <2>3, <2>6, <2>7, <2>8, <1>1
  <2>10. Cardinality(upTo(i - 1)) < n /\ Cardinality(upTo(i)) >= n
    BY <2>6, <2>7, <2>8, <2>9, <1>3
  <2> QED
    BY <2>4, <2>9, <2>10, <1>3
<1>6. ASSUME NEW n \in 1..N
      PROVE  f[n] \in K /\ Cardinality(upTo(f[n])) = n
  BY <1>5, <1>6, Zenon
<1>7. Kept(q, S) = [n \in 1..N |-> q[f[n]]]
  BY DEF Kept
<1> HIDE DEF K, upTo, N, f
<1>8. f \in [1..N -> 1..Len(q)]
  BY <1>6, <1>1, Zenon DEF f
<1> QED
  BY <1>7, <1>8, <1>2

\* The inductive invariant: it relates the stack of the pump to the streams, the
\* pending reconfiguration and the stamps of the frames that wait.
THEOREM PipelineInvariant == Spec => []IInv
<1>1. Init => IInv
  BY InitIInv
<1>2. KeptIsQueue
  BY KeptIsSeq, Zenon DEF KeptIsQueue
<1>3. IInv /\ [Next]_vars => IInv'
  BY <1>2, NextIInv
<1> QED
  BY <1>1, <1>3, PTL DEF Spec

\* A frame that the Host hands to the subscriptions of a lease was decoded while that
\* lease was bound, wherever it waited while leases came and went
\* (is_current_media_frame, publish_media_frame_for_device).
THEOREM PipelineKeepsLeases == Spec => []FrameStaysInItsLease
<1>1. IInv => FrameStaysInItsLease
  BY Zenon DEF IInv, LeaseOK, FrameStaysInItsLease, Accepts
<1> QED
  BY <1>1, PipelineInvariant, PTL

\* A kind whose source has ended has no stream, also when the end was reported while
\* openStream was in flight (configure_media_stream_kind).
THEOREM EndedSourcesAreClosed == Spec => []EndedSourceHasNoStream
<1>1. IInv => EndedSourceHasNoStream
  BY Zenon DEF IInv, EndedOK
<1> QED
  BY <1>1, PipelineInvariant, PTL

\* A reconfiguration that is reported as pending is pending, and a video stream that is
\* reported as applied is not withheld (set_video_stream_params,
\* advance_video_reconfigure, clear_video_stream_params_session).
THEOREM ReportsMatch == Spec => []ReportMatchesTheOperation
<1>1. IInv => ReportMatchesTheOperation
  BY Zenon DEF IInv, OperationOK
<1> QED
  BY <1>1, PipelineInvariant, PTL

\* While advance_video_reconfigure opens a replacement, no stream that the request saw
\* is open.
THEOREM ReplacementsWait == Spec => []ReplacementFollowsTheClose
<1>1. ASSUME IInv
      PROVE  ReplacementFollowsTheClose
  <2>1. /\ \A i \in 1..Len(stack) : Replacing(stack[i]) => HasClosed
        /\ StayClosed
    BY <1>1, Zenon DEF IInv, ClosedOK, StayClosed
  <2>2. HasClosed => \A k \in Kinds : operation.streams[k] # 0 =>
                                          active[k] # operation.streams[k]
    BY <2>1, Zenon DEF HasClosed, StayClosed
  <2> QED
    BY <2>1, <2>2, Zenon DEF ReplacementFollowsTheClose, Replacing
<1> QED
  BY <1>1, PipelineInvariant, PTL

=============================================================================
