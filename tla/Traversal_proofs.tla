----------------------------- MODULE Traversal_proofs -----------------------------
(***************************************************************************)
(* The traversal for every dataset graph and every order of discovery: the *)
(* digraph of RequestTasks it leads to is what TaskGraph assumes, and it   *)
(* follows every reference.                                                *)
(*                                                                         *)
(* The properties speak of the end of the walk.  The invariant says what   *)
(* they rest on while it lasts: a reference both of whose ends were        *)
(* visited was followed, or the node it leads to will be visited once      *)
(* more; a node that is not terminal has a child, or will have one.        *)
(***************************************************************************)
EXTENDS Traversal, Cycles, SequenceTheorems

\* What waits in the ready queue.
Elements(q) == {q[i] : i \in 1..Len(q)}
Queued == Elements(ready)

\* What a visit of n does; the names are those of Visit.
Done(n)  == finished \cup {n}
Free(n)  == Unblocked(n, CountDown(n))
Now(n)   == NewlyUsed(n, Done(n))
Left(n)  == {e \in Edges \ (used \cup Now(n)) : \E c \in Nodes : Spans(e, n, c)}
Ends(n)  == {c \in Collections : \E e \in Left(n) : Spans(e, n, c)}
Fresh(n) == Ends(n) \ discovered
NextOf(n) == (Ends(n) \cap Done(n)) \cup {c \in Fresh(n) : CountDown(n)[c] = 0}

\* A visit of n, in terms of what waits rather than of the order it waits in.
VisitOf(n) ==
    /\ result = "running" /\ n \in Nodes /\ n \in Queued
    /\ ready' \in Seq(Nodes)
    /\ (Queued \ {n}) \cup Free(n) \cup NextOf(n) \subseteq Queued'
    /\ Queued' \subseteq Queued \cup Free(n) \cup NextOf(n)
    /\ pending' = (pending \ Free(n)) \cup {c \in Fresh(n) : CountDown(n)[c] # 0}
    /\ blocked' = CountDown(n)
    /\ discovered' = discovered \cup Fresh(n)
    /\ finished' = Done(n)
    /\ used' = used \cup Now(n)
    /\ children' = children \cup {<<m, n>> : m \in {k \in Done(n) : \E e \in Now(n) : Spans(e, k, n)}}
    /\ terminal' = IF Left(n) = {} THEN terminal \cup {n} ELSE terminal
    /\ input' = input /\ result' = result

Types ==
    /\ input \in Inputs
    /\ ready \in Seq(Nodes)
    /\ pending \subseteq Collections
    /\ discovered \subseteq Nodes
    /\ finished \subseteq Nodes
    /\ used \subseteq Edges
    /\ children \subseteq Nodes \X Collections
    /\ terminal \subseteq finished
    /\ result \in {"running", "traversed", "unordered", "unreachable"}

\* The counters count what is left.
Counts ==
    /\ blocked \in [Collections -> Nat]
    /\ \A c \in Collections : blocked[c] = Cardinality(After(c) \ finished)

\* What is visited, or about to be, comes after nothing that is not.
Ordered == \A c \in Collections \cap (finished \cup Queued) : After(c) \subseteq finished

\* What was discovered was visited or will be, and a reference from a visited
\* node led to it.
Discovered ==
    /\ discovered = finished \cup Queued \cup pending
    /\ pending \cap (finished \cup Queued) = {}
    /\ Root \in finished \cup Queued
    /\ \A c \in discovered \ (finished \cup {Root}) :
          \E m \in finished : \E e \in Edges : Spans(e, m, c)

\* Parents and children, and the references used for them, were visited.
Followed ==
    /\ \A p \in children : p[1] \in finished /\ p[2] \in finished
    /\ \A e \in used : e.from \in finished /\ e.to \in finished
    /\ \A p \in children : \E e \in used : Spans(e, p[1], p[2])
    /\ \A e \in used : <<e.from, e.to>> \in children \/ (e.either /\ <<e.to, e.from>> \in children)

\* A reference between visited nodes was used, or its target is visited again.
Awaited ==
    \A e \in Edges : e.from \in finished /\ e.to \in finished =>
        e \in used \/ (~e.either /\ e.to \in Queued)

\* A reference without a direction was given one.
OneWay ==
    \A m, n \in Collections :
        <<m, n>> \in children /\ <<n, m>> \in children =>
            <<m, n>> \in input.directed \/ <<n, m>> \in input.directed

\* Every visited collection has a parent, every visited node a child or none
\* to expect.
HasParent == \A n \in finished \cap Collections : n \in input.seeds \/ \E m \in Collections : <<m, n>> \in children
HasChild ==
    \A n \in finished : \/ n \in terminal
                        \/ \E c \in Collections : <<n, c>> \in children
                        \/ \E e \in Edges \ used : \E c \in Queued \cup pending : Spans(e, n, c)

AtEnd == result \in {"traversed", "unreachable"} => ready = <<>> /\ pending = {}

WalkInv ==
    /\ Types /\ Counts /\ Ordered /\ Discovered /\ Followed
    /\ Awaited /\ OneWay /\ HasParent /\ HasChild /\ AtEnd

----------------------------------------------------------------------------
(* References and sequences. *)

LEMMA InputShape ==
    ASSUME input \in Inputs
    PROVE  /\ input.directed \subseteq Pair /\ input.either \subseteq Pair
           /\ input.seeds \subseteq Collections /\ input.after \subseteq Pair
BY TraversalAssumption DEF Input

LEMMA RootApart == Root \notin Collections /\ Terminator \notin Collections /\ Root # Terminator
BY TraversalAssumption

\* What a reference connects.
LEMMA EdgeShape ==
    ASSUME input \in Inputs, NEW e \in Edges
    PROVE  /\ e.from \in Nodes /\ e.to \in Collections /\ e.from # e.to /\ e.either \in BOOLEAN
           /\ e.either => e.from \in Collections /\ <<e.from, e.to>> \in input.either
           /\ ~e.either /\ e.from # Root => <<e.from, e.to>> \in input.directed
           /\ e.from = Root => ~e.either /\ e.to \in input.seeds
<1>1. CASE \E p \in input.directed : e = [from |-> p[1], to |-> p[2], either |-> FALSE]
  <2>1. PICK p \in input.directed : e = [from |-> p[1], to |-> p[2], either |-> FALSE]
    BY <1>1
  <2>2. p \in Pair /\ p = <<p[1], p[2]>> /\ p[1] \in Collections /\ p[2] \in Collections /\ p[1] # p[2]
    BY InputShape DEF Pair
  <2> QED
    BY <2>1, <2>2, RootApart DEF Nodes
<1>2. CASE \E p \in input.either : e = [from |-> p[1], to |-> p[2], either |-> TRUE]
  <2>1. PICK p \in input.either : e = [from |-> p[1], to |-> p[2], either |-> TRUE]
    BY <1>2
  <2>2. p \in Pair /\ p = <<p[1], p[2]>> /\ p[1] \in Collections /\ p[2] \in Collections /\ p[1] # p[2]
    BY InputShape DEF Pair
  <2> QED
    BY <2>1, <2>2, RootApart DEF Nodes
<1>3. CASE \E s \in input.seeds : e = [from |-> Root, to |-> s, either |-> FALSE]
  BY <1>3, InputShape, RootApart DEF Nodes
<1> QED
  BY <1>1, <1>2, <1>3 DEF Edges

LEMMA SpanEnds ==
    ASSUME input \in Inputs, NEW e \in Edges, NEW m, NEW n, Spans(e, m, n)
    PROVE  /\ m \in Nodes /\ n \in Collections /\ m # n
           /\ {e.from, e.to} = {m, n}
           /\ m = Root => n \in input.seeds
           /\ ~e.either => m = e.from /\ n = e.to
           /\ e.either => m \in Collections /\ Spans(e, n, m)
<1>1. /\ e.from \in Nodes /\ e.to \in Collections /\ e.from # e.to /\ e.either \in BOOLEAN
      /\ e.either => e.from \in Collections
      /\ e.from = Root => ~e.either /\ e.to \in input.seeds
  BY EdgeShape
<1>2. CASE e.from = m /\ e.to = n
  BY <1>1, <1>2, RootApart DEF Spans
<1>3. CASE e.either /\ e.from = n /\ e.to = m
  BY <1>1, <1>3, RootApart DEF Spans, Nodes
<1> QED
  BY <1>2, <1>3 DEF Spans

\* What is in a queue after its head is taken and others are added.
LEMMA RowOf ==
    ASSUME NEW S, IsFiniteSet(S), NEW q \in Rows(S)
    PROVE  q \in Seq(S) /\ Elements(q) = S
<1>1. Cardinality(S) \in Nat
  BY FS_CardinalityType
<1>2. q \in [1..Cardinality(S) -> S] /\ \A x \in S : \E i \in DOMAIN q : q[i] = x
  BY DEF Rows
<1>3. q \in Seq(S) /\ Len(q) = Cardinality(S) /\ DOMAIN q = 1..Cardinality(S)
  BY <1>1, <1>2, SeqDef
<1> QED
  BY <1>2, <1>3 DEF Elements

LEMMA ElementsOfConcat ==
    ASSUME NEW S, NEW s \in Seq(S), NEW t \in Seq(S)
    PROVE  /\ s \o t \in Seq(S)
           /\ Elements(s \o t) = Elements(s) \cup Elements(t)
<1>1. s \o t \in Seq(S)
  BY ConcatProperties
<1>2. Range(s \o t) = Range(s) \cup Range(t)
  BY RangeConcatenation
<1>3. \A q \in Seq(S) : Range(q) = Elements(q)
  BY RangeEquality DEF Elements
<1> QED
  BY <1>1, <1>2, <1>3

LEMMA ElementsOfTail ==
    ASSUME NEW S, NEW s \in Seq(S), s # <<>>
    PROVE  /\ Head(s) \in S /\ Tail(s) \in Seq(S)
           /\ Elements(s) = {Head(s)} \cup Elements(Tail(s))
<1>1. /\ Head(s) \in S /\ Tail(s) \in Seq(S) /\ Len(Tail(s)) = Len(s) - 1
      /\ \A i \in 1..Len(Tail(s)) : Tail(s)[i] = s[i + 1]
  BY HeadTailProperties
<1>2. Len(s) \in Nat \ {0} /\ Head(s) = s[1]
  BY EmptySeq
<1>3. \A i \in 1..Len(s) : i = 1 \/ (i - 1 \in 1..Len(Tail(s)) /\ s[i] = Tail(s)[i - 1])
  BY <1>1, <1>2
<1>4. \A i \in 1..Len(Tail(s)) : i + 1 \in 1..Len(s)
  BY <1>1, <1>2
<1>5. \A i \in 1..Len(s) : s[i] \in {Head(s)} \cup Elements(Tail(s))
  BY <1>2, <1>3 DEF Elements
<1>6. \A j \in 1..Len(Tail(s)) : Tail(s)[j] \in Elements(s)
  BY <1>1, <1>4 DEF Elements
<1>7. Head(s) \in Elements(s)
  BY <1>2 DEF Elements
<1> QED
  BY <1>1, <1>5, <1>6, <1>7 DEF Elements

----------------------------------------------------------------------------
(* A visit. *)

LEMMA VisitIsVisitOf ==
    ASSUME Types, Visit
    PROVE  VisitOf(Head(ready))
<1> DEFINE n == Head(ready)
<1>1. /\ result = "running" /\ ready # <<>>
      /\ \E unblocked \in Rows(Free(n)), found \in Rows(NextOf(n)) :
            ready' = Tail(ready) \o unblocked \o found
      /\ pending' = (pending \ Free(n)) \cup {c \in Fresh(n) : CountDown(n)[c] # 0}
      /\ blocked' = CountDown(n)
      /\ discovered' = discovered \cup Fresh(n)
      /\ finished' = Done(n)
      /\ used' = used \cup Now(n)
      /\ children' = children \cup {<<m, n>> : m \in {k \in Done(n) : \E e \in Now(n) : Spans(e, k, n)}}
      /\ terminal' = IF Left(n) = {} THEN terminal \cup {n} ELSE terminal
      /\ input' = input /\ result' = result
  BY DEF Visit, Done, Free, Now, Left, Ends, Fresh, NextOf
<1>2. n \in Nodes /\ Tail(ready) \in Seq(Nodes)
      /\ Queued = {n} \cup Elements(Tail(ready))
  BY <1>1, ElementsOfTail DEF Types, Queued
<1>3. Free(n) \subseteq Nodes /\ IsFiniteSet(Free(n)) /\ NextOf(n) \subseteq Nodes /\ IsFiniteSet(NextOf(n))
  <2>1. Free(n) \in SUBSET Collections /\ NextOf(n) \in SUBSET Collections
    BY DEF Free, Unblocked, NextOf, Fresh, Ends, Types
  <2>2. IsFiniteSet(Collections)
    BY TraversalAssumption
  <2> QED
    BY <2>1, <2>2, FS_Subset DEF Nodes
<1> HIDE DEF n
<1>4. PICK u \in Rows(Free(n)), f \in Rows(NextOf(n)) : ready' = (Tail(ready) \o u) \o f
  BY <1>1
<1>5. u \in Seq(Nodes) /\ Elements(u) = Free(n)
  <2>1. u \in Seq(Free(n)) /\ Elements(u) = Free(n)
    BY <1>3, RowOf
  <2> QED
    BY <2>1, <1>3, SeqMonotonic
<1>6. f \in Seq(Nodes) /\ Elements(f) = NextOf(n)
  <2>1. f \in Seq(NextOf(n)) /\ Elements(f) = NextOf(n)
    BY <1>3, RowOf
  <2> QED
    BY <2>1, <1>3, SeqMonotonic
<1> DEFINE t == Tail(ready) \o u
<1>7. t \in Seq(Nodes) /\ Elements(t) = Elements(Tail(ready)) \cup Free(n)
  <2>1. Tail(ready) \o u \in Seq(Nodes) /\ Elements(Tail(ready) \o u) = Elements(Tail(ready)) \cup Elements(u)
    <3> DEFINE r == Tail(ready)
    <3>1. r \in Seq(Nodes)
      BY <1>2
    <3> HIDE DEF r
    <3>2. r \o u \in Seq(Nodes) /\ Elements(r \o u) = Elements(r) \cup Elements(u)
      BY <3>1, <1>5, ElementsOfConcat
    <3> QED
      BY <3>2 DEF r
  <2> QED
    BY <2>1, <1>5
<1>8. ready' = t \o f
  BY <1>4
<1> HIDE DEF t
<1>9. t \o f \in Seq(Nodes) /\ Elements(t \o f) = Elements(t) \cup NextOf(n)
  <2>1. t \in Seq(Nodes) /\ f \in Seq(Nodes)
    BY <1>6, <1>7
  <2>2. t \o f \in Seq(Nodes) /\ Elements(t \o f) = Elements(t) \cup Elements(f)
    BY ONLY <2>1, ElementsOfConcat
  <2> QED
    BY <2>2, <1>6
<1>10. Queued' = Elements(t \o f)
  BY <1>8 DEF Queued
<1> QED
  BY <1>1, <1>2, <1>7, <1>8, <1>9, <1>10 DEF VisitOf, n

\* The references of a visit are those of the input.
LEMMA SameInput ==
    ASSUME input' = input
    PROVE  Edges' = Edges /\ (\A n : After(n)' = After(n))
BY DEF Edges, After

\* Which references a visit of n follows, and where else n leads.
LEMMA NowAndLeft ==
    ASSUME Types, NEW n \in Nodes
    PROVE  /\ Now(n) \subseteq Edges /\ Left(n) \subseteq Edges
           /\ \A e \in Now(n) : e \notin used /\ n \in {e.from, e.to} /\ {e.from, e.to} \subseteq Done(n)
           /\ \A e \in Edges \ used : \A m \in Done(n) : Spans(e, m, n) => e \in Now(n)
           /\ \A e \in Left(n) : e \notin used /\ e \notin Now(n) /\ \E c \in Ends(n) : Spans(e, n, c)
           /\ \A e \in Edges : \A c : e \notin used /\ e \notin Now(n) /\ Spans(e, n, c) => e \in Left(n) /\ c \in Ends(n)
           /\ n \notin Ends(n) /\ Ends(n) \subseteq Collections
<1>1. \A e \in Edges : \A m, k : Spans(e, m, k) =>
          m \in Nodes /\ k \in Collections /\ m # k /\ {e.from, e.to} = {m, k}
  BY SpanEnds DEF Types
<1>2. Now(n) \subseteq Edges /\ Left(n) \subseteq Edges /\ Ends(n) \subseteq Collections
  BY DEF Now, NewlyUsed, Left, Ends
<1>3. \A e \in Now(n) : e \notin used /\ n \in {e.from, e.to} /\ {e.from, e.to} \subseteq Done(n)
  <2> SUFFICES ASSUME NEW e \in Now(n)
               PROVE  e \notin used /\ n \in {e.from, e.to} /\ {e.from, e.to} \subseteq Done(n)
    OBVIOUS
  <2>1. PICK m \in Done(n) : Spans(e, m, n)
    BY DEF Now, NewlyUsed
  <2>2. e \in Edges /\ e \notin used
    BY DEF Now, NewlyUsed
  <2>3. {e.from, e.to} = {m, n}
    BY <1>1, <2>1, <2>2
  <2> QED
    BY <2>1, <2>2, <2>3 DEF Done
<1>4. \A e \in Edges \ used : \A m \in Done(n) : Spans(e, m, n) => e \in Now(n)
  BY DEF Now, NewlyUsed
<1>5. \A e \in Left(n) : e \notin used /\ e \notin Now(n) /\ \E c \in Ends(n) : Spans(e, n, c)
  BY <1>1 DEF Left, Ends
<1>6. \A e \in Edges : \A c : e \notin used /\ e \notin Now(n) /\ Spans(e, n, c) => e \in Left(n) /\ c \in Ends(n)
  <2> SUFFICES ASSUME NEW e \in Edges, NEW c, e \notin used, e \notin Now(n), Spans(e, n, c)
               PROVE  e \in Left(n) /\ c \in Ends(n)
    OBVIOUS
  <2>1. c \in Collections /\ c \in Nodes
    BY <1>1 DEF Nodes
  <2> QED
    BY <2>1 DEF Left, Ends
<1>7. n \notin Ends(n)
  BY <1>1, <1>2 DEF Ends
<1> QED
  BY <1>2, <1>3, <1>4, <1>5, <1>6, <1>7

----------------------------------------------------------------------------
(* A visit preserves each part of the invariant. *)

LEMMA VisitTypes ==
    ASSUME WalkInv, NEW n, VisitOf(n)
    PROVE  Types'
<1>1. input \in Inputs /\ n \in Nodes /\ Edges' = Edges
  BY SameInput DEF WalkInv, Types, VisitOf
<1>2. Now(n) \subseteq Edges /\ Ends(n) \subseteq Collections
  BY <1>1, NowAndLeft DEF WalkInv
<1>3. Fresh(n) \subseteq Collections /\ Fresh(n) \subseteq Nodes /\ Done(n) \subseteq Nodes
  BY <1>1, <1>2 DEF Fresh, Done, Nodes, WalkInv, Types
<1>4. {<<m, n>> : m \in {k \in Done(n) : \E e \in Now(n) : Spans(e, k, n)}} \subseteq Nodes \X Collections
  <2>1. \A k \in Done(n), e \in Now(n) : Spans(e, k, n) => k \in Nodes /\ n \in Collections
    BY <1>1, <1>2, SpanEnds
  <2> QED
    BY <2>1
<1>5. terminal' \subseteq finished'
  BY DEF WalkInv, Types, VisitOf, Done
<1> QED
  BY <1>1, <1>2, <1>3, <1>4, <1>5 DEF WalkInv, Types, VisitOf, Free

LEMMA VisitCounts ==
    ASSUME WalkInv, NEW n, VisitOf(n)
    PROVE  /\ Counts'
           /\ \A c \in Collections : CountDown(n)[c] = 0 => After(c) \subseteq Done(n)
<1>1. blocked' = CountDown(n) /\ finished' = Done(n) /\ input' = input
  BY DEF VisitOf
<1>2. ASSUME NEW c \in Collections
      PROVE  /\ CountDown(n)[c] \in Nat
             /\ CountDown(n)[c] = Cardinality(After(c) \ Done(n))
             /\ CountDown(n)[c] = 0 => After(c) \subseteq Done(n)
  <2>1. /\ IsFiniteSet(After(c) \ finished) /\ IsFiniteSet(After(c) \ Done(n))
    <3>1. After(c) \ finished \in SUBSET Collections /\ After(c) \ Done(n) \in SUBSET Collections
      BY DEF After
    <3> QED
      BY <3>1, TraversalAssumption, FS_Subset
  <2>2. blocked[c] = Cardinality(After(c) \ finished) /\ blocked[c] \in Nat
    BY DEF WalkInv, Counts
  <2>3. CountDown(n)[c] = Cardinality(After(c) \ Done(n))
    <3>1. CASE n \notin finished /\ n \in After(c)
      <4>1. After(c) \ Done(n) = (After(c) \ finished) \ {n} /\ n \in After(c) \ finished
        BY <3>1 DEF Done
      <4>2. Cardinality((After(c) \ finished) \ {n}) = Cardinality(After(c) \ finished) - 1
        BY <2>1, <4>1, FS_RemoveElement
      <4>3. CountDown(n)[c] = blocked[c] - 1
        BY <3>1 DEF CountDown
      <4> QED
        BY <2>2, <4>1, <4>2, <4>3
    <3>2. CASE n \in finished \/ n \notin After(c)
      <4>1. After(c) \ Done(n) = After(c) \ finished
        BY <3>2 DEF Done
      <4>2. CountDown(n)[c] = blocked[c]
        BY <3>2 DEF CountDown
      <4> QED
        BY <2>2, <4>1, <4>2
    <3> QED
      BY <3>1, <3>2
  <2>4. Cardinality(After(c) \ Done(n)) \in Nat
    BY <2>1, FS_CardinalityType
  <2>5. Cardinality(After(c) \ Done(n)) = 0 => After(c) \ Done(n) = {}
    BY <2>1, FS_EmptySet
  <2> QED
    BY <2>3, <2>4, <2>5
<1>3. CountDown(n) = [c \in Collections |-> CountDown(n)[c]]
  BY DEF CountDown
<1>4. \A c \in Collections : After(c)' = After(c)
  BY <1>1 DEF After
<1>5. CountDown(n) \in [Collections -> Nat]
  BY <1>2, <1>3
<1>6. (\A c \in Collections : blocked[c] = Cardinality(After(c) \ finished))'
  BY <1>1, <1>2, <1>4
<1> QED
  BY <1>1, <1>2, <1>5, <1>6 DEF Counts

LEMMA VisitOrdered ==
    ASSUME WalkInv, NEW n, VisitOf(n)
    PROVE  Ordered'
<1> SUFFICES ASSUME NEW c \in Collections, c \in finished' \cup Queued'
             PROVE  After(c) \subseteq Done(n)
  BY DEF Ordered, VisitOf, After
<1>1. \A k \in Collections : CountDown(n)[k] = 0 => After(k) \subseteq Done(n)
  BY VisitCounts
<1>2. c \in finished \cup Queued \cup Free(n) \cup NextOf(n)
  BY DEF VisitOf, Done
<1>3. CASE c \in finished \cup Queued
  BY <1>3 DEF WalkInv, Ordered, Done
<1>4. CASE c \in Free(n)
  BY <1>1, <1>4 DEF Free, Unblocked
<1>5. CASE c \in NextOf(n) /\ c \notin finished \cup Queued
  <2>1. c \notin Done(n)
    BY <1>5 DEF Done, VisitOf
  <2> QED
    BY <1>1, <1>5, <2>1 DEF NextOf
<1> QED
  BY <1>2, <1>3, <1>4, <1>5

LEMMA VisitDiscovered ==
    ASSUME WalkInv, NEW n, VisitOf(n)
    PROVE  Discovered'
<1>1. Types /\ Discovered /\ n \in Nodes /\ n \in Queued /\ finished' = Done(n)
      /\ discovered' = discovered \cup Fresh(n) /\ Edges' = Edges
  BY SameInput DEF WalkInv, VisitOf
<1>2. Free(n) \subseteq pending /\ Free(n) \cap Fresh(n) = {} /\ Fresh(n) \cap discovered = {}
  BY <1>1 DEF Free, Unblocked, Fresh, Discovered
<1>3. \A c \in NextOf(n) : c \in Done(n) \/ (c \in Fresh(n) /\ CountDown(n)[c] = 0)
  BY DEF NextOf
<1>4. \A c \in Fresh(n) : CountDown(n)[c] = 0 => c \in NextOf(n)
  BY DEF NextOf
<1>5. Done(n) = finished \cup {n}
  BY DEF Done
<1>6. (discovered = finished \cup Queued \cup pending)'
  BY <1>1, <1>2, <1>3, <1>4, <1>5 DEF Discovered, VisitOf
<1>7. (pending \cap (finished \cup Queued) = {})'
  BY <1>1, <1>2, <1>3, <1>5 DEF Discovered, VisitOf
<1>8. (Root \in finished \cup Queued)'
  BY <1>1, <1>5 DEF Discovered, VisitOf
<1>9. ASSUME NEW c \in discovered' \ (finished' \cup {Root})
      PROVE  \E m \in finished' : \E e \in Edges : Spans(e, m, c)
  <2>1. CASE c \in discovered
    BY <1>1, <1>5, <1>9, <2>1 DEF Discovered
  <2>2. CASE c \in Fresh(n)
    BY <1>1, <1>5, <2>2 DEF Fresh, Ends, Left
  <2> QED
    BY <1>1, <2>1, <2>2
<1> QED
  BY <1>1, <1>6, <1>7, <1>8, <1>9 DEF Discovered

\* Every reference that is followed makes a child of n.
LEMMA NowMakesChild ==
    ASSUME WalkInv, NEW n, VisitOf(n), NEW e \in Edges \ used, NEW m \in Done(n), Spans(e, m, n)
    PROVE  e \in used' /\ <<m, n>> \in children'
<1>1. e \in Now(n)
  BY NowAndLeft DEF WalkInv, VisitOf
<1> QED
  BY <1>1 DEF VisitOf

LEMMA VisitFollowed ==
    ASSUME WalkInv, NEW n, VisitOf(n)
    PROVE  Followed'
<1>1. Types /\ Followed /\ n \in Nodes /\ finished' = Done(n) /\ used' = used \cup Now(n)
      /\ input \in Inputs
  BY DEF WalkInv, VisitOf, Types
<1>2. Now(n) \subseteq Edges /\ \A e \in Now(n) : e \notin used /\ {e.from, e.to} \subseteq Done(n)
  BY <1>1, NowAndLeft
<1>3. finished \subseteq Done(n) /\ n \in Done(n)
  BY DEF Done
<1>4. \A p \in children' : p \in children \/ \E m \in Done(n), e \in Now(n) : Spans(e, m, n) /\ p = <<m, n>>
  BY DEF VisitOf
<1>5. (\A p \in children : p[1] \in finished /\ p[2] \in finished)'
  BY <1>1, <1>3, <1>4 DEF Followed
<1>6. (\A e \in used : e.from \in finished /\ e.to \in finished)'
  BY <1>1, <1>2, <1>3 DEF Followed
<1>7. (\A p \in children : \E e \in used : Spans(e, p[1], p[2]))'
  BY <1>1, <1>4 DEF Followed
<1>8. ASSUME NEW e \in used'
      PROVE  <<e.from, e.to>> \in children' \/ (e.either /\ <<e.to, e.from>> \in children')
  <2>1. CASE e \in used
    BY <1>1, <2>1 DEF Followed, VisitOf
  <2>2. CASE e \in Now(n)
    <3>1. PICK m \in Done(n) : Spans(e, m, n)
      BY <2>2 DEF Now, NewlyUsed
    <3>2. <<m, n>> \in children'
      BY <2>2, <3>1 DEF VisitOf
    <3> QED
      BY <3>1, <3>2 DEF Spans
  <2> QED
    BY <1>1, <2>1, <2>2
<1> QED
  BY <1>5, <1>6, <1>7, <1>8 DEF Followed

LEMMA VisitAwaited ==
    ASSUME WalkInv, NEW n, VisitOf(n)
    PROVE  Awaited'
<1>1. Types /\ n \in Nodes /\ finished' = Done(n) /\ used' = used \cup Now(n) /\ Edges' = Edges
      /\ input \in Inputs
  BY SameInput DEF WalkInv, VisitOf, Types
<1> SUFFICES ASSUME NEW e \in Edges, e.from \in Done(n), e.to \in Done(n), e \notin used'
             PROVE  ~e.either /\ e.to \in Queued'
  BY <1>1 DEF Awaited
<1>2. e \notin used /\ e \notin Now(n)
  BY <1>1
<1>3. \A m \in Done(n) : ~Spans(e, m, n)
  BY <1>1, <1>2, NowAndLeft
<1>4. e.to # n /\ ~(e.either /\ e.from = n)
  BY <1>3 DEF Spans
<1>5. CASE e.from = n
  <2>1. Spans(e, n, e.to) /\ ~e.either
    BY <1>4, <1>5, <1>1, EdgeShape DEF Spans
  <2>2. e.to \in Ends(n)
    BY <1>1, <1>2, <2>1, NowAndLeft
  <2> QED
    BY <2>1, <2>2 DEF NextOf, VisitOf
<1>6. CASE e.from # n
  <2>1. e.from \in finished /\ e.to \in finished
    BY <1>4, <1>6 DEF Done
  <2> QED
    BY <2>1, <1>2, <1>4 DEF WalkInv, Awaited, VisitOf
<1> QED
  BY <1>5, <1>6

LEMMA VisitOneWay ==
    ASSUME WalkInv, NEW n, VisitOf(n)
    PROVE  OneWay'
<1>1. Types /\ n \in Nodes /\ input' = input /\ input \in Inputs
  BY DEF WalkInv, VisitOf, Types
<1>2. ASSUME NEW m \in Collections, <<m, n>> \in children', <<m, n>> \notin children, <<n, m>> \in children'
      PROVE  <<m, n>> \in input.directed
  <2>1. PICK e \in Now(n) : m \in Done(n) /\ Spans(e, m, n)
    BY <1>2 DEF VisitOf
  <2>2. e \in Edges /\ e \notin used
    BY <1>1, <2>1, NowAndLeft
  <2>3. m # n /\ {e.from, e.to} = {m, n} /\ (~e.either => m = e.from /\ n = e.to)
    BY <1>1, <2>1, <2>2, SpanEnds
  <2>4. <<n, m>> \in children
    BY <1>2, <2>3 DEF VisitOf
  <2>5. n \in finished /\ m \in finished
    <3>1. <<n, m>>[1] \in finished /\ <<n, m>>[2] \in finished
      BY <2>4 DEF WalkInv, Followed
    <3> QED
      BY <3>1
  <2>6. e.from \in finished /\ e.to \in finished
    BY <2>3, <2>5
  <2>7. ~e.either
    BY <2>2, <2>6 DEF WalkInv, Awaited
  <2> QED
    BY <1>1, <2>2, <2>3, <2>7, RootApart, EdgeShape
<1>3. \A m, k : <<m, k>> \in children' => <<m, k>> \in children \/ k = n
  BY DEF VisitOf
<1> SUFFICES ASSUME NEW m \in Collections, NEW k \in Collections, <<m, k>> \in children', <<k, m>> \in children'
             PROVE  <<m, k>> \in input.directed \/ <<k, m>> \in input.directed
  BY <1>1 DEF OneWay
<1>4. CASE <<m, k>> \in children /\ <<k, m>> \in children
  BY <1>4 DEF WalkInv, OneWay
<1>5. CASE <<m, k>> \notin children
  <2>1. k = n
    BY <1>3, <1>5
  <2> QED
    BY <1>2, <1>5, <2>1
<1>6. CASE <<k, m>> \notin children
  <2>1. m = n
    BY <1>3, <1>6
  <2> QED
    BY <1>2, <1>6, <2>1
<1> QED
  BY <1>4, <1>5, <1>6

LEMMA VisitHasParent ==
    ASSUME WalkInv, NEW n, VisitOf(n)
    PROVE  HasParent'
<1>1. input' = input /\ input \in Inputs /\ finished' = Done(n) /\ children \subseteq children'
  BY DEF WalkInv, VisitOf, Types
<1> SUFFICES ASSUME NEW c \in Done(n) \cap Collections
             PROVE  c \in input.seeds \/ \E m \in Collections : <<m, c>> \in children'
  BY <1>1 DEF HasParent
<1>2. CASE c \in finished
  BY <1>1, <1>2 DEF WalkInv, HasParent
<1>3. CASE c \notin finished
  <2>1. c = n /\ c \in discovered \ (finished \cup {Root})
    BY <1>3, RootApart DEF Done, VisitOf, WalkInv, Discovered
  <2>2. PICK m \in finished, e \in Edges : Spans(e, m, n)
    BY <2>1 DEF WalkInv, Discovered
  <2>3. {e.from, e.to} = {m, n} /\ m \in Nodes /\ (m = Root => n \in input.seeds)
    BY <1>1, <2>2, SpanEnds
  <2>4. e \notin used
    BY <1>3, <2>1, <2>3 DEF WalkInv, Followed
  <2>5. <<m, n>> \in children'
    BY <2>2, <2>4, NowMakesChild DEF Done
  <2> QED
    BY <2>1, <2>3, <2>5 DEF Nodes
<1> QED
  BY <1>2, <1>3

LEMMA VisitHasChild ==
    ASSUME WalkInv, NEW n, VisitOf(n)
    PROVE  HasChild'
<1>1. Types /\ n \in Nodes /\ input \in Inputs /\ finished' = Done(n) /\ Edges' = Edges
      /\ used' = used \cup Now(n)
  BY SameInput DEF WalkInv, VisitOf, Types
<1> SUFFICES ASSUME NEW k \in Done(n), k \notin terminal'
             PROVE  \/ \E c \in Collections : <<k, c>> \in children'
                    \/ \E e \in Edges \ used' : \E c \in Queued' \cup pending' : Spans(e, k, c)
  BY <1>1 DEF HasChild
<1>2. \A c \in (Queued \cup pending) \ {n} : c \in Queued' \cup pending'
  BY DEF VisitOf
<1>3. CASE k = n
  <2>1. PICK e \in Left(n) : TRUE
    BY <1>3 DEF VisitOf
  <2>2. PICK c \in Ends(n) : e \in Edges /\ e \notin used' /\ Spans(e, n, c)
    BY <1>1, NowAndLeft
  <2>3. c # n
    BY <1>1, <2>2, NowAndLeft
  <2>4. c \in Queued' \cup pending'
    <3>1. CASE c \in Done(n)
      BY <2>2, <3>1 DEF NextOf, VisitOf
    <3>2. CASE c \in discovered \ Done(n)
      BY <1>2, <2>3, <3>2 DEF WalkInv, Discovered, Done
    <3>3. CASE c \notin discovered
      BY <2>2, <3>3 DEF Fresh, NextOf, VisitOf
    <3> QED
      BY <3>1, <3>2, <3>3
  <2> QED
    BY <1>3, <2>2, <2>4
<1>4. CASE k # n
  <2>1. k \in finished /\ k \notin terminal
    BY <1>4 DEF Done, VisitOf
  <2>2. CASE \E c \in Collections : <<k, c>> \in children
    BY <2>2 DEF VisitOf
  <2>3. CASE \E e \in Edges \ used : \E c \in Queued \cup pending : Spans(e, k, c)
    <3>1. PICK e \in Edges \ used : \E c \in Queued \cup pending : Spans(e, k, c)
      BY <2>3
    <3>2. PICK c \in Queued \cup pending : Spans(e, k, c)
      BY <3>1
    <3>3. c \in Collections /\ {e.from, e.to} = {k, c}
      BY <1>1, <3>2, SpanEnds
    <3>4. CASE c = n
      BY <3>2, <3>3, <3>4, NowMakesChild
    <3>5. CASE c # n
      <4>1. e \notin Now(n)
        BY <1>1, <1>4, <3>3, <3>5, NowAndLeft
      <4> QED
        BY <1>1, <1>2, <3>2, <3>5, <4>1
    <3> QED
      BY <3>4, <3>5
  <2> QED
    BY <2>1, <2>2, <2>3 DEF WalkInv, HasChild
<1> QED
  BY <1>3, <1>4

----------------------------------------------------------------------------
(* The invariant. *)

LEMMA WalkInit == Init => WalkInv
<1> SUFFICES ASSUME Init PROVE WalkInv
  OBVIOUS
<1> USE DEF Init
<1>1. ready \in Seq(Nodes) /\ Queued = {Root} /\ Root \in Nodes
  BY DEF Queued, Elements, Nodes
<1>2. Types
  BY <1>1 DEF Types
<1>3. Counts
  <2>1. \A c \in Collections : Cardinality(After(c)) \in Nat
    <3>1. \A c \in Collections : After(c) \in SUBSET Collections
      BY DEF After
    <3>2. \A c \in Collections : IsFiniteSet(After(c))
      BY <3>1, TraversalAssumption, FS_Subset
    <3> QED
      BY <3>2, FS_CardinalityType
  <2> QED
    BY <2>1 DEF Counts
<1>4. Ordered /\ Discovered
  BY <1>1, RootApart DEF Ordered, Discovered
<1>5. Followed /\ Awaited /\ OneWay /\ HasParent /\ HasChild /\ AtEnd
  BY DEF Followed, Awaited, OneWay, HasParent, HasChild, AtEnd
<1> QED
  BY <1>2, <1>3, <1>4, <1>5 DEF WalkInv

\* The steps that end the walk, and those of nobody.
LEMMA EndSteps ==
    ASSUME WalkInv, NotOrdered \/ End \/ UNCHANGED vars
    PROVE  WalkInv'
<1>1. UNCHANGED <<input, ready, pending, blocked, discovered, finished, used, children, terminal>>
  BY DEF NotOrdered, End, vars
<1>2. Types'
  <2>1. result' \in {"running", "traversed", "unordered", "unreachable"}
    BY DEF NotOrdered, End, vars, WalkInv, Types
  <2> QED
    BY <1>1, <2>1, SameInput DEF WalkInv, Types
<1>3. Edges' = Edges /\ Queued' = Queued
  BY <1>1, SameInput DEF Queued
<1>4. Counts' /\ Ordered' /\ Discovered'
  BY <1>1, <1>3 DEF WalkInv, Counts, Ordered, Discovered, After
<1>5. Followed' /\ Awaited' /\ OneWay' /\ HasParent' /\ HasChild'
  BY <1>1, <1>3 DEF WalkInv, Followed, Awaited, OneWay, HasParent, HasChild
<1>6. AtEnd'
  BY <1>1 DEF WalkInv, AtEnd, NotOrdered, End, vars
<1> QED
  BY <1>2, <1>4, <1>5, <1>6 DEF WalkInv

LEMMA WalkStep == WalkInv /\ [Next]_vars => WalkInv'
<1>1. ASSUME WalkInv, Visit PROVE WalkInv'
  <2> DEFINE n == Head(ready)
  <2>1. VisitOf(n)
    BY <1>1, VisitIsVisitOf DEF WalkInv
  <2> HIDE DEF n
  <2>2. Types' /\ Counts' /\ Ordered' /\ Discovered' /\ Followed'
    BY <1>1, <2>1, VisitTypes, VisitCounts, VisitOrdered, VisitDiscovered, VisitFollowed
  <2>3. Awaited' /\ OneWay' /\ HasParent' /\ HasChild'
    BY <1>1, <2>1, VisitAwaited, VisitOneWay, VisitHasParent, VisitHasChild
  <2>4. AtEnd'
    BY <2>1 DEF VisitOf, AtEnd
  <2> QED
    BY <2>2, <2>3, <2>4 DEF WalkInv
<1> QED
  BY <1>1, EndSteps DEF Next

LEMMA Walks == Spec => []WalkInv
BY WalkInit, WalkStep, PTL DEF Spec

----------------------------------------------------------------------------
(* The theorems. *)

\* Every state of the walk is well typed; in particular no counter of blocking
\* collections is ever counted below zero, however often a node is visited.
THEOREM TypeCorrect == Spec => []TypeOK
<1>1. WalkInv => TypeOK
  BY DEF WalkInv, Types, Counts, Discovered, TypeOK
<1> QED
  BY <1>1, Walks, PTL

\* A collection that waits for others has one of them still before it: the
\* look at the end of the loop for one that was missed finds none.
\* PendingIsBlocked is not part of WalkInv: it follows step by step.
THEOREM PendingStaysBlocked == Spec => []PendingIsBlocked
<1>1. Init => PendingIsBlocked
  BY DEF Init, PendingIsBlocked
<1>2. ASSUME WalkInv, PendingIsBlocked, [Next]_vars PROVE PendingIsBlocked'
  <2>1. CASE Visit
    <3> DEFINE n == Head(ready)
    <3>1. VisitOf(n)
      BY <1>2, <2>1, VisitIsVisitOf DEF WalkInv
    <3> HIDE DEF n
    <3>2. blocked' \in [Collections -> Nat] /\ blocked' = CountDown(n)
      BY <1>2, <3>1, VisitCounts DEF Counts, VisitOf
    <3>3. ASSUME NEW b \in pending' PROVE blocked'[b] # 0 /\ b \in Collections
      <4>1. CASE b \in pending \ Free(n)
        <5>1. b \in Collections /\ blocked[b] > 0 /\ blocked[b] \in Nat
          BY <1>2, <4>1 DEF PendingIsBlocked, WalkInv, Types, Counts
        <5>2. CASE n \in After(b)
          BY <3>2, <4>1, <5>1, <5>2 DEF Free, Unblocked
        <5>3. CASE n \notin After(b)
          BY <3>2, <5>1, <5>3 DEF CountDown
        <5> QED
          BY <5>2, <5>3
      <4>2. CASE b \in {c \in Fresh(n) : CountDown(n)[c] # 0}
        BY <3>2, <4>2 DEF Fresh, Ends
      <4> QED
        BY <3>1, <4>1, <4>2 DEF VisitOf
    <3>4. \A b \in pending' : blocked'[b] > 0
      BY <3>2, <3>3
    <3> QED
      BY <3>4 DEF PendingIsBlocked
  <2>2. CASE NotOrdered \/ End \/ UNCHANGED vars
    BY <1>2, <2>2 DEF PendingIsBlocked, NotOrdered, End, vars
  <2> QED
    BY <1>2, <2>1, <2>2 DEF Next
<1> QED
  BY <1>1, <1>2, Walks, PTL DEF Spec

\* A collection is visited for the first time only after all those it comes
\* after.
THEOREM VisitedInOrderCorrect == Spec => VisitedInOrder
<1>1. ASSUME WalkInv, WalkInv', [Next]_vars
      PROVE  [\A n \in finished' \ finished :
                \A b \in Collections : <<n, b>> \in input.after => b \in finished]_vars
  <2>1. CASE Visit
    <3> DEFINE n == Head(ready)
    <3>1. VisitOf(n)
      BY <1>1, <2>1, VisitIsVisitOf DEF WalkInv
    <3>2. finished' \ finished \subseteq {n}
      BY <3>1 DEF VisitOf, Done
    <3> HIDE DEF n
    <3>3. ASSUME NEW b \in Collections, <<n, b>> \in input.after PROVE b \in finished
      <4>1. n \in Collections
        <5>1. <<n, b>> \in Pair
          BY <1>1, <3>3, InputShape DEF WalkInv, Types
        <5> QED
          BY <5>1 DEF Pair
      <4>2. n \in Queued /\ b \in After(n)
        BY <3>1, <3>3 DEF VisitOf, After
      <4> QED
        BY <1>1, <4>1, <4>2 DEF WalkInv, Ordered
    <3> QED
      BY <3>2, <3>3
  <2>2. CASE NotOrdered \/ End \/ UNCHANGED vars
    BY <2>2 DEF NotOrdered, End, vars
  <2> QED
    BY <1>1, <2>1, <2>2 DEF Next
<1> QED
  BY <1>1, Walks, PTL DEF Spec, VisitedInOrder

\* What the invariant says at the end of the walk.
LEMMA Walked ==
    ASSUME WalkInv, result = "traversed"
    PROVE  /\ Queued = {} /\ input \in Inputs /\ finished = Traversed \cup {Root}
           /\ Traversed \subseteq Collections
           /\ \A p \in children : p[1] \in finished /\ p[2] \in Traversed
           /\ \A e \in Edges : e.from \in finished /\ e.to \in finished => e \in used
           /\ \A n \in Traversed : n \in terminal \/ \E c \in Traversed : <<n, c>> \in children
<1>1. ready = <<>> /\ pending = {}
  BY DEF WalkInv, AtEnd
<1>2. Queued = {}
  BY <1>1 DEF Queued, Elements
<1>3. finished \subseteq Nodes /\ Root \in finished /\ children \subseteq Nodes \X Collections
  BY <1>2 DEF WalkInv, Types, Discovered
<1>4. \A p \in children : p[1] \in finished /\ p[2] \in Traversed
  BY <1>3, RootApart DEF WalkInv, Followed, Traversed
<1>5. \A n \in Traversed : n \in terminal \/ \E c \in Traversed : <<n, c>> \in children
  <2> SUFFICES ASSUME NEW n \in Traversed, n \notin terminal PROVE \E c \in Traversed : <<n, c>> \in children
    OBVIOUS
  <2>1. PICK c \in Collections : <<n, c>> \in children
    BY <1>1, <1>2 DEF WalkInv, HasChild, Traversed
  <2>2. <<n, c>>[2] \in Traversed
    BY <1>4, <2>1
  <2> QED
    BY <2>1, <2>2
<1> QED
  BY <1>2, <1>3, <1>4, <1>5 DEF WalkInv, Types, Awaited, Traversed, Nodes

\* The edges of the digraph between two collections are the parents and
\* children.
LEMMA InnerEdges ==
    ASSUME NEW m \in Collections, NEW n \in Collections
    PROVE  <<m, n>> \in AccessEdges <=> <<m, n>> \in children
BY RootApart DEF AccessEdges

\* Every collection that was traversed lies above the terminator, so that
\* collecting upwards from there misses none.
THEOREM AboveTerminator == Spec => []AllAboveTerminator
<1>1. WalkInv => AllAboveTerminator
  <2> SUFFICES ASSUME WalkInv, Built, NEW S \in SUBSET TaskNodes, Terminator \in S,
                      \A e \in AccessEdges : e[2] \in S => e[1] \in S,
                      ~(Traversed \subseteq S)
               PROVE  FALSE
    BY DEF AllAboveTerminator
  <2> DEFINE U == Traversed \ S
  <2>1. \A m, n : <<m, n>> \in AccessEdges /\ n \in S => m \in S
    <3> SUFFICES ASSUME NEW m, NEW n, <<m, n>> \in AccessEdges, n \in S PROVE m \in S
      OBVIOUS
    <3>1. <<m, n>>[2] \in S => <<m, n>>[1] \in S
      OBVIOUS
    <3> QED
      BY <3>1
  <2>2. ASSUME NEW m \in U PROVE \E n \in U : <<m, n>> \in AccessEdges
    <3>1. m \notin terminal
      BY <2>1, <2>2 DEF AccessEdges
    <3>2. PICK n \in Traversed : <<m, n>> \in children
      BY <2>2, <3>1, Walked DEF Built
    <3>3. m \in Collections /\ n \in Collections
      BY <2>2, <3>2, Walked DEF Built
    <3>4. <<m, n>> \in AccessEdges
      BY <3>2, <3>3, InnerEdges
    <3> QED
      BY <2>1, <2>2, <3>2, <3>4
  <2>3. Succeeded(U, AccessEdges)
    BY <2>2 DEF Succeeded
  <2>4. U \in SUBSET Collections
    BY Walked DEF Built
  <2>5. PICK T \in SUBSET U : Preceded(T, AccessEdges)
    BY <2>3, <2>4, TraversalAssumption, TurnedBack
  <2> QED
    BY <2>5 DEF Built, Acyclic, Preceded, TaskNodes
<1> QED
  BY <1>1, Walks, PTL

\* Every collection that was traversed lies below the root, so that it is
\* queued.
THEOREM BelowRoot == Spec => []AllBelowRoot
<1>1. WalkInv => AllBelowRoot
  <2> SUFFICES ASSUME WalkInv, Built, NEW S \in SUBSET TaskNodes, Root \in S,
                      \A e \in AccessEdges : e[1] \in S => e[2] \in S,
                      ~(Traversed \subseteq S)
               PROVE  FALSE
    BY DEF AllBelowRoot
  <2> DEFINE U == Traversed \ S
  <2>1. \A m, n : <<m, n>> \in AccessEdges /\ m \in S => n \in S
    <3> SUFFICES ASSUME NEW m, NEW n, <<m, n>> \in AccessEdges, m \in S PROVE n \in S
      OBVIOUS
    <3>1. <<m, n>>[1] \in S => <<m, n>>[2] \in S
      OBVIOUS
    <3> QED
      BY <3>1
  <2>2. PICK t \in U : \A u \in U : <<u, t>> \notin AccessEdges
    BY DEF Built, Acyclic, TaskNodes
  <2>3. t \in finished \cap Collections
    BY <2>2, Walked DEF Built, Traversed
  <2>4. CASE t \in input.seeds
    BY <2>1, <2>2, <2>4 DEF AccessEdges
  <2>5. CASE \E m \in Collections : <<m, t>> \in children
    <3>1. PICK m \in Collections : <<m, t>> \in children
      BY <2>5
    <3>2. <<m, t>>[1] \in finished
      BY <3>1, Walked DEF Built
    <3>3. m \in Traversed
      BY <3>1, <3>2, RootApart DEF Traversed
    <3>4. <<m, t>> \in AccessEdges
      BY <2>3, <3>1, InnerEdges
    <3> QED
      BY <2>1, <2>2, <3>3, <3>4
  <2> QED
    BY <2>3, <2>4, <2>5 DEF WalkInv, HasParent
<1> QED
  BY <1>1, Walks, PTL

\* Data flows along every reference between collections with tasks, and along
\* one without direction in one direction only.
THEOREM ReferencesFollowed == Spec => []EveryReferenceIsFollowed
<1>1. ASSUME WalkInv, Built, NEW p \in input.directed, p[1] \in Traversed, p[2] \in Traversed
      PROVE  p \in AccessEdges
  <2> DEFINE e == [from |-> p[1], to |-> p[2], either |-> FALSE]
  <2>1. e \in Edges
    BY DEF Edges
  <2>2. e \in used
    <3>1. e.from \in finished /\ e.to \in finished
      BY <1>1 DEF Traversed
    <3> QED
      BY <1>1, <2>1, <3>1, Walked DEF Built
  <2>3. <<e.from, e.to>> \in children
    BY <1>1, <2>2 DEF WalkInv, Followed
  <2>4. p = <<p[1], p[2]>> /\ p[1] \in Collections /\ p[2] \in Collections
    BY <1>1, InputShape DEF Pair, WalkInv, Types
  <2> QED
    BY <2>3, <2>4, InnerEdges
<1>2. ASSUME WalkInv, Built, NEW p \in input.either, p[1] \in Traversed, p[2] \in Traversed,
             p \notin input.directed, <<p[2], p[1]>> \notin input.directed
      PROVE  p \in AccessEdges <=> <<p[2], p[1]>> \notin AccessEdges
  <2> DEFINE e == [from |-> p[1], to |-> p[2], either |-> TRUE]
  <2>1. e \in Edges
    BY DEF Edges
  <2>2. e \in used
    <3>1. e.from \in finished /\ e.to \in finished
      BY <1>2 DEF Traversed
    <3> QED
      BY <1>2, <2>1, <3>1, Walked DEF Built
  <2>3. <<p[1], p[2]>> \in children \/ <<p[2], p[1]>> \in children
    BY <1>2, <2>2 DEF WalkInv, Followed
  <2>4. p = <<p[1], p[2]>> /\ p[1] \in Collections /\ p[2] \in Collections
    BY <1>2, InputShape DEF Pair, WalkInv, Types
  <2>5. ~(<<p[1], p[2]>> \in children /\ <<p[2], p[1]>> \in children)
    BY <1>2, <2>4 DEF WalkInv, OneWay
  <2> QED
    BY <2>3, <2>4, <2>5, InnerEdges
<1>3. WalkInv => EveryReferenceIsFollowed
  BY <1>1, <1>2 DEF EveryReferenceIsFollowed
<1> QED
  BY <1>3, Walks, PTL

\* References that all have a direction and form no cycle are not turned into
\* one, whatever the order of discovery.
THEOREM StaysAcyclic == Spec => []DirectedStaysAcyclic
<1>1. WalkInv => DirectedStaysAcyclic
  <2> SUFFICES ASSUME WalkInv, result = "traversed", input.either = {},
                      Acyclic(Collections, input.directed),
                      NEW S \in SUBSET TaskNodes, S # {}
               PROVE  \E t \in S : \A u \in S : <<u, t>> \notin AccessEdges
    BY DEF DirectedStaysAcyclic, Acyclic
  <2>1. S \subseteq Collections \cup {Root, Terminator}
    BY Walked DEF TaskNodes
  <2>2. \A m, n : <<m, n>> \in AccessEdges => n # Root /\ m # Terminator
    BY Walked, InputShape, RootApart DEF AccessEdges, WalkInv, Types, Nodes
  <2>3. ASSUME NEW m \in Collections, NEW n \in Collections, <<m, n>> \in AccessEdges
        PROVE  <<m, n>> \in input.directed
    <3>1. <<m, n>> \in children
      BY <2>3, InnerEdges
    <3>2. PICK e \in used : Spans(e, m, n)
      <4>1. \E e \in used : Spans(e, <<m, n>>[1], <<m, n>>[2])
        BY <3>1 DEF WalkInv, Followed
      <4> QED
        BY <4>1
    <3>3. e \in Edges /\ input \in Inputs
      BY DEF WalkInv, Types
    <3>4. ~e.either
      BY <3>3, EdgeShape
    <3>5. m = e.from /\ n = e.to
      BY <3>2, <3>3, <3>4, SpanEnds
    <3> QED
      BY <2>3, <3>3, <3>4, <3>5, EdgeShape, RootApart
  <2>4. CASE Root \in S
    BY <2>2, <2>4
  <2>5. CASE Root \notin S /\ S \cap Collections # {}
    <3>1. PICK t \in S \cap Collections : \A u \in S \cap Collections : <<u, t>> \notin input.directed
      BY <2>5 DEF Acyclic
    <3> QED
      BY <2>1, <2>2, <2>3, <2>5, <3>1
  <2>6. CASE S \subseteq {Terminator}
    BY <2>2, <2>6
  <2> QED
    BY <2>1, <2>4, <2>5, <2>6
<1> QED
  BY <1>1, Walks, PTL
====================================================================================
