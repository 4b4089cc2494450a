--------------------------- MODULE ErasureGraph_proofs ---------------------------
(***************************************************************************)
(* The erasure digraph for every set of collections and every erase_after  *)
(* relation: what is built has no cycle, leads from the root to every      *)
(* traversed collection and from every collection to the terminator, and   *)
(* what is refused is refused for a cause.                                 *)
(***************************************************************************)
EXTENDS ErasureGraph, Cycles, FiniteSetTheorems, TLAPS

\* The edges that the loop has made for the collections in D, and those into
\* the terminator; and the edge of a graph without either.
DependencyEdges(D) ==
    {e \in Nodes \X Nodes : e[2] \in D /\ e[1] \in ErasureDependencies(e[2])}
EndEdges ==
    {e \in Nodes \X Nodes :
        /\ e[1] \in Collections /\ e[2] = Terminator
        /\ \A m \in input.traversed : e[1] \notin input.eraseAfter[m]}
Digraph == DependencyEdges(input.traversed) \cup EndEdges
ShortEdge == IF input.traversed = {} THEN {<<Root, Terminator>>} ELSE {}

\* A circle of erase_after among the traversed collections.
Circle ==
    \E S \in SUBSET input.traversed :
        S # {} /\ \A n \in S : input.eraseAfter[n] \cap S # {}

LoopInv ==
    phase \in {"validate", "link"} =>
        /\ todo \subseteq input.traversed
        /\ edges = DependencyEdges(input.traversed \ todo)
        /\ endNodes = {n \in Collections : \A m \in input.traversed \ todo :
                                              n \notin input.eraseAfter[m]}

BuiltInv ==
    /\ phase = "close" => edges = Digraph
    /\ Built => edges = Digraph \cup ShortEdge /\ ~Circle

CauseInv ==
    /\ phase = "validate" => todo = input.traversed
    /\ phase \notin {"validate", "refused"} => ~Dangling
    /\ phase = "refused" => Dangling \/ Circle
    /\ phase = "started" => ~(Cardinality(rows) < AccessCount)

GInv == TypeOK /\ LoopInv /\ BuiltInv /\ CauseInv

----------------------------------------------------------------------------
(* The loop. *)

LEMMA NodesFinite == IsFiniteSet(Nodes)
<1>1. IsFiniteSet(Collections \cup {Root})
  BY FS_AddElement, ErasureAssumption
<1>2. IsFiniteSet((Collections \cup {Root}) \cup {Terminator})
  BY <1>1, FS_AddElement
<1>3. Nodes = (Collections \cup {Root}) \cup {Terminator}
  BY DEF Nodes
<1> QED
  BY <1>2, <1>3

\* Every input is what Input says.
LEMMA InputShape ==
    ASSUME input \in Inputs
    PROVE  /\ input.traversed \subseteq Collections
           /\ \A n \in Collections : input.eraseAfter[n] \subseteq Collections \cup {Deleted}
BY ErasureAssumption DEF Input

\* Nothing dangles: every erase_after names a collection.
LEMMA NothingDangles ==
    ASSUME input \in Inputs, ~Dangling
    PROVE  \A n \in input.traversed : input.eraseAfter[n] \subseteq Collections
BY InputShape DEF Dangling

\* The state, once built, in terms of the input alone.
LEMMA LinkStep ==
    ASSUME GInv, NEW n \in Collections, Link(n)
    PROVE  GInv'
<1>1. input' = input /\ phase = "link" /\ phase' = "link" /\ n \in todo /\ todo' = todo \ {n}
      /\ rows' = rows /\ crashes' = crashes
  BY DEF Link
<1>2. todo \subseteq input.traversed /\ n \in input.traversed /\ ~Dangling
      /\ input.traversed \subseteq Collections
  BY <1>1, InputShape DEF GInv, LoopInv, CauseInv, TypeOK
<1>3. input.traversed \ todo' = (input.traversed \ todo) \cup {n}
  BY <1>1, <1>2
<1>4. ErasureDependencies(n) \subseteq Nodes
  BY <1>2, NothingDangles DEF GInv, TypeOK, ErasureDependencies, Nodes
<1>5. edges' = DependencyEdges(input.traversed \ todo')
  <2>1. edges = DependencyEdges(input.traversed \ todo)
    BY <1>1 DEF GInv, LoopInv
  <2>2. edges' = edges \cup {<<d, n>> : d \in ErasureDependencies(n)}
    BY DEF Link
  <2>3. n \in Nodes
    BY DEF Nodes
  <2>4. {<<d, n>> : d \in ErasureDependencies(n)}
          = {e \in Nodes \X Nodes : e[2] = n /\ e[1] \in ErasureDependencies(e[2])}
    BY <1>4, <2>3
  <2> QED
    BY <1>3, <2>1, <2>2, <2>4 DEF DependencyEdges
<1>6. endNodes' = {c \in Collections : \A m \in input.traversed \ todo' :
                                             c \notin input.eraseAfter[m]}
  BY <1>1, <1>3 DEF GInv, LoopInv, Link, EndNodesLeft
<1>7. TypeOK'
  BY <1>1, <1>2, <1>5, <1>6 DEF GInv, TypeOK, DependencyEdges
<1>8. LoopInv'
  <2>1. (DependencyEdges(input.traversed \ todo))' = DependencyEdges(input.traversed \ todo')
    BY <1>1 DEF DependencyEdges, ErasureDependencies
  <2> QED
    BY <1>1, <1>2, <1>5, <1>6, <2>1 DEF LoopInv
<1>9. BuiltInv'
  BY <1>1 DEF BuiltInv, Built
<1>10. CauseInv'
  BY <1>1, <1>2 DEF CauseInv, Dangling
<1> QED
  BY <1>7, <1>8, <1>9, <1>10 DEF GInv

----------------------------------------------------------------------------
(* The digraph that is closed. *)

\* Edges between traversed collections are those of erase_after.
LEMMA InnerEdges ==
    ASSUME input \in Inputs, NEW m \in input.traversed, NEW n \in input.traversed
    PROVE  <<m, n>> \in Digraph \cup ShortEdge <=> m \in input.eraseAfter[n]
<1>1. m \in Collections /\ n \in Collections /\ m # Root /\ n # Terminator /\ n # Root
  BY InputShape, ErasureAssumption
<1>2. <<m, n>> \in Digraph <=> m \in input.eraseAfter[n]
  BY <1>1 DEF Digraph, DependencyEdges, EndEdges, ErasureDependencies, Nodes
<1>3. <<m, n>> \notin ShortEdge
  BY <1>1 DEF ShortEdge
<1> QED
  BY <1>2, <1>3

\* What the edges lead to.
LEMMA EdgeTargets ==
    ASSUME input \in Inputs, ~Dangling, NEW m, NEW n, <<m, n>> \in Digraph \cup ShortEdge
    PROVE  /\ m \in Collections \cup {Root}
           /\ n \in input.traversed \cup {Terminator}
<1>1. CASE <<m, n>> \in DependencyEdges(input.traversed)
  <2>1. n \in input.traversed /\ m \in input.eraseAfter[n] \cup {Root}
    BY <1>1 DEF DependencyEdges, ErasureDependencies
  <2> QED
    BY <2>1, NothingDangles
<1>2. CASE <<m, n>> \in EndEdges
  BY <1>2 DEF EndEdges
<1>3. CASE <<m, n>> \in ShortEdge
  BY <1>3 DEF ShortEdge
<1> QED
  BY <1>1, <1>2, <1>3 DEF Digraph

\* The root comes before every traversed collection.
LEMMA RootReaches ==
    ASSUME input \in Inputs, NEW E, E = Digraph \/ E = Digraph \cup ShortEdge, edges = E
    PROVE  input.traversed \subseteq Reaches({Root})
<1> SUFFICES ASSUME NEW n \in input.traversed PROVE n \in Reaches({Root})
  OBVIOUS
<1>1. n \in Nodes /\ Root \in Nodes
  BY InputShape DEF Nodes
<1>2. <<Root, n>> \in DependencyEdges(input.traversed)
  BY <1>1 DEF DependencyEdges, ErasureDependencies
<1>3. <<Root, n>> \in edges
  BY <1>2 DEF Digraph
<1>4. ASSUME NEW T \in SUBSET Nodes, {Root} \subseteq T, \A e \in edges : e[1] \in T => e[2] \in T
      PROVE  n \in T
  <2>1. <<Root, n>>[1] \in T => <<Root, n>>[2] \in T
    BY <1>3, <1>4
  <2> QED
    BY <2>1, <1>4
<1> QED
  BY <1>1, <1>4 DEF Reaches

\* Traversed collections that all lead to one of them contain a circle.
LEMMA SucceededIsCircle ==
    ASSUME input \in Inputs, NEW W \in SUBSET input.traversed,
           Succeeded(W, Digraph \cup ShortEdge)
    PROVE  Circle
<1>1. W \subseteq Nodes
  BY InputShape DEF Nodes
<1>2. PICK T \in SUBSET W : Preceded(T, Digraph \cup ShortEdge)
  BY <1>1, NodesFinite, TurnedBack
<1>3. \A n \in T : input.eraseAfter[n] \cap T # {}
  BY <1>2, InnerEdges DEF Preceded
<1> QED
  BY <1>2, <1>3 DEF Circle, Preceded

\* find_cycle finds a cycle exactly if there is a circle.
LEMMA FindsCircles ==
    ASSUME input \in Inputs, ~Dangling, edges = Digraph
    PROVE  CycleFound <=> Circle
<1>1. ASSUME CycleFound PROVE Circle
  <2>1. PICK S \in SUBSET Reaches({Root}) : S # {} /\ \A m \in S : \E n \in S : <<m, n>> \in edges
    BY <1>1 DEF CycleFound
  <2>2. Terminator \notin S
    BY <2>1, EdgeTargets, ErasureAssumption
  <2> DEFINE W == S \cap input.traversed
  <2>3. \A m \in S : \E n \in W : <<m, n>> \in Digraph \cup ShortEdge
    BY SMTT(30), <2>1, <2>2, EdgeTargets
  <2>4. Succeeded(W, Digraph \cup ShortEdge)
    BY <2>1, <2>3 DEF Succeeded
  <2> QED
    BY <2>4, SucceededIsCircle
<1>2. ASSUME Circle PROVE CycleFound
  <2>1. PICK S \in SUBSET input.traversed : S # {} /\ \A n \in S : input.eraseAfter[n] \cap S # {}
    BY <1>2 DEF Circle
  <2>2. \A n \in S : \E m \in S : <<m, n>> \in Digraph
    <3> SUFFICES ASSUME NEW n \in S PROVE \E m \in S : <<m, n>> \in Digraph
      OBVIOUS
    <3>1. PICK m \in S : m \in input.eraseAfter[n]
      BY <2>1
    <3>2. <<m, n>> \in Digraph \cup ShortEdge
      BY <3>1, InnerEdges
    <3>3. <<m, n>> \notin ShortEdge
      BY DEF ShortEdge
    <3> QED
      BY <3>2, <3>3
  <2>3. Preceded(S, edges) /\ S \subseteq Nodes
    BY <2>1, <2>2, InputShape DEF Preceded, Nodes
  <2>4. PICK T \in SUBSET S : Succeeded(T, edges)
    BY <2>3, NodesFinite, Turned
  <2>5. T \subseteq Reaches({Root})
    BY RootReaches
  <2> QED
    BY <2>4, <2>5 DEF CycleFound, Succeeded
<1> QED
  BY <1>1, <1>2

----------------------------------------------------------------------------
(* The invariant. *)

LEMMA GInit == Init => GInv
<1> SUFFICES ASSUME Init PROVE GInv
  OBVIOUS
<1> USE DEF Init
<1>1. TypeOK
  BY InputShape, ErasureAssumption DEF TypeOK
<1>2. LoopInv
  <2>1. DependencyEdges({}) = {}
    BY DEF DependencyEdges
  <2>2. input.traversed \ todo = {}
    OBVIOUS
  <2> QED
    BY <2>1, <2>2 DEF LoopInv
<1>3. BuiltInv /\ CauseInv
  BY DEF BuiltInv, CauseInv, Built
<1> QED
  BY <1>1, <1>2, <1>3 DEF GInv

LEMMA ValidateStep == GInv /\ Validate => GInv'
<1> SUFFICES ASSUME GInv, Validate PROVE GInv'
  OBVIOUS
<1> USE DEF GInv, Validate
<1>1. TypeOK'
  BY DEF TypeOK
<1>2. LoopInv'
  BY DEF LoopInv, DependencyEdges, ErasureDependencies
<1>3. BuiltInv' /\ CauseInv'
  BY DEF BuiltInv, CauseInv, Built, Dangling
<1> QED
  BY <1>1, <1>2, <1>3

LEMMA LinkedStep == GInv /\ Linked => GInv'
<1> SUFFICES ASSUME GInv, Linked PROVE GInv'
  OBVIOUS
<1> USE DEF GInv, Linked
<1>1. input.traversed \ todo = input.traversed /\ input \in Inputs
  BY DEF TypeOK
<1>2. edges = DependencyEdges(input.traversed)
  BY <1>1 DEF LoopInv
<1>3. {<<n, Terminator>> : n \in endNodes} = EndEdges
  BY <1>1 DEF LoopInv, EndEdges, Nodes
<1>4. edges' = Digraph /\ Digraph' = Digraph
  BY <1>2, <1>3 DEF Digraph, DependencyEdges, EndEdges, ErasureDependencies
<1>5. TypeOK'
  BY <1>4 DEF TypeOK, Digraph, DependencyEdges, EndEdges
<1>6. LoopInv' /\ BuiltInv'
  BY <1>4 DEF LoopInv, BuiltInv, Built
<1>7. CauseInv'
  BY DEF CauseInv, Dangling
<1> QED
  BY <1>5, <1>6, <1>7

LEMMA CloseStep == GInv /\ Close => GInv'
<1> SUFFICES ASSUME GInv, Close PROVE GInv'
  OBVIOUS
<1> USE DEF GInv, Close
<1>1. input \in Inputs /\ ~Dangling /\ edges = Digraph
  BY DEF TypeOK, CauseInv, BuiltInv
<1>2. edges' = Digraph \cup ShortEdge
  BY <1>1 DEF ShortEdge
<1>4. CycleFound <=> Circle
  BY <1>1, FindsCircles
<1>5. TypeOK'
  <2>1. edges' \subseteq Nodes \X Nodes
    BY <1>2 DEF Digraph, DependencyEdges, EndEdges, ShortEdge, Nodes
  <2> QED
    BY <2>1 DEF TypeOK
<1>6. BuiltInv'
  <2>1. Digraph' = Digraph /\ ShortEdge' = ShortEdge
    BY DEF Digraph, DependencyEdges, EndEdges, ErasureDependencies, ShortEdge
  <2>2. Circle' <=> Circle
    BY DEF Circle
  <2>3. phase' # "close" /\ (phase' = "persist" \/ phase' = "refused")
    OBVIOUS
  <2>4. Built' => ~CycleFound
    BY <2>3 DEF Built
  <2> QED
    BY <2>1, <2>2, <2>3, <2>4, <1>2, <1>4 DEF BuiltInv
<1>7. LoopInv' /\ CauseInv'
  <2>1. Dangling' <=> Dangling
    BY DEF Dangling
  <2>2. Circle' <=> Circle
    BY DEF Circle
  <2> QED
    BY <1>1, <1>4, <2>1, <2>2 DEF LoopInv, CauseInv
<1> QED
  BY <1>5, <1>6, <1>7

\* The steps that only create rows leave the graph alone.
LEMMA SameGraph ==
    ASSUME GInv, UNCHANGED <<input, todo, endNodes, edges>>, Built, Built'
    PROVE  LoopInv' /\ BuiltInv' /\ (Dangling' <=> Dangling) /\ (Circle' <=> Circle)
<1>1. Digraph' = Digraph /\ ShortEdge' = ShortEdge
  BY DEF Digraph, DependencyEdges, EndEdges, ErasureDependencies, ShortEdge
<1>2. (Dangling' <=> Dangling) /\ (Circle' <=> Circle)
  BY DEF Circle, Dangling
<1> QED
  BY <1>1, <1>2 DEF GInv, LoopInv, BuiltInv, Built

LEMMA RowSteps ==
    GInv /\ ((\E n \in Nodes : Persist(n)) \/ Persisted \/ Start) => GInv'
<1>1. ASSUME GInv, NEW n \in Nodes, Persist(n) PROVE GInv'
  <2>1. LoopInv' /\ BuiltInv' /\ (Dangling' <=> Dangling) /\ (Circle' <=> Circle)
    BY <1>1, SameGraph DEF Persist, Built
  <2> QED
    BY <1>1, <2>1 DEF GInv, TypeOK, CauseInv, Persist
<1>2. ASSUME GInv, Persisted PROVE GInv'
  <2>1. LoopInv' /\ BuiltInv' /\ (Dangling' <=> Dangling) /\ (Circle' <=> Circle)
    BY <1>2, SameGraph DEF Persisted, Built
  <2>2. crashes' \in 0..MaxCrashes
    BY <1>2, ErasureAssumption DEF GInv, TypeOK, Persisted
  <2> QED
    BY <1>2, <2>1, <2>2 DEF GInv, TypeOK, CauseInv, Persisted
<1>3. ASSUME GInv, Start PROVE GInv'
  <2>1. LoopInv' /\ BuiltInv' /\ (Dangling' <=> Dangling) /\ (Circle' <=> Circle)
    BY <1>3, SameGraph DEF Start, Built
  <2>2. AccessCount' = AccessCount /\ rows' = rows
    BY <1>3 DEF Start, AccessCount
  <2>3. CauseInv'
    BY <1>3, <2>1, <2>2 DEF GInv, CauseInv, Start
  <2> QED
    BY <1>3, <2>1, <2>3 DEF GInv, TypeOK, Start
<1> QED
  BY <1>1, <1>2, <1>3

LEMMA StutterStep == GInv /\ UNCHANGED vars => GInv'
<1> SUFFICES ASSUME GInv, UNCHANGED vars PROVE GInv'
  OBVIOUS
<1> USE DEF GInv, vars
<1>1. TypeOK'
  BY DEF TypeOK
<1>2. LoopInv'
  BY DEF LoopInv, DependencyEdges, ErasureDependencies
<1>3. BuiltInv'
  BY DEF BuiltInv, Built, Digraph, DependencyEdges, EndEdges, ErasureDependencies, ShortEdge, Circle
<1>4. CauseInv'
  BY DEF CauseInv, Dangling, Circle, AccessCount
<1> QED
  BY <1>1, <1>2, <1>3, <1>4

LEMMA GInductive == Spec => []GInv
<1>1. GInv /\ [Next]_vars => GInv'
  BY LinkStep, ValidateStep, LinkedStep, CloseStep, RowSteps, StutterStep DEF Next
<1> QED
  BY <1>1, GInit, PTL DEF Spec

----------------------------------------------------------------------------
(* The theorems. *)

\* Every state of the construction of the digraph and of its rows is well
\* typed, for every set of collections and every erase_after relation.
THEOREM TypeCorrect == Spec => []TypeOK
<1>1. GInv => TypeOK
  BY DEF GInv
<1> QED
  BY <1>1, GInductive, PTL

\* A digraph that build_erasure_networkx_digraph does not refuse has no cycle,
\* although find_cycle looks from the root only: it can be ordered, and its
\* rows can be persisted.
THEOREM NoCycle == Spec => []NoCycleIsMissed
<1>1. GInv => NoCycleIsMissed
  <2> SUFFICES ASSUME GInv, Built, NEW S \in SUBSET Nodes, Preceded(S, edges) PROVE FALSE
    BY DEF NoCycleIsMissed, Preceded
  <2>1. input \in Inputs /\ ~Dangling /\ edges = Digraph \cup ShortEdge /\ ~Circle
    BY DEF GInv, TypeOK, CauseInv, BuiltInv, Built
  <2>2. \A n \in S : n \in input.traversed \cup {Terminator}
    BY <2>1, EdgeTargets DEF Preceded
  <2>3. Root \notin S
    BY <2>2, <2>1, InputShape, ErasureAssumption
  <2> DEFINE W == S \cap input.traversed
  <2>4. \A n \in S : \E m \in W : <<m, n>> \in Digraph \cup ShortEdge
    BY <2>1, <2>2, EdgeTargets, ErasureAssumption DEF Preceded
  <2>5. Preceded(W, Digraph \cup ShortEdge)
    BY <2>4 DEF Preceded
  <2>6. \A n \in W : input.eraseAfter[n] \cap W # {}
    BY <2>1, <2>5, InnerEdges DEF Preceded
  <2> QED
    BY <2>1, <2>5, <2>6 DEF Circle, Preceded
<1> QED
  BY <1>1, GInductive, PTL

\* The terminator is below every collection, whichever end nodes the loop
\* removes: the erasure step ends only after all of them.
THEOREM TerminatorComesLast == Spec => []TerminatorIsLast
<1>1. GInv => TerminatorIsLast
  <2> SUFFICES ASSUME GInv, Built, NEW c \in Collections PROVE Terminator \in Reaches({c})
    BY DEF TerminatorIsLast
  <2>1. input \in Inputs /\ ~Dangling /\ edges = Digraph \cup ShortEdge /\ ~Circle
    BY DEF GInv, TypeOK, CauseInv, BuiltInv, Built
  <2>2. ASSUME NEW T \in SUBSET Nodes, {c} \subseteq T,
               \A e \in edges : e[1] \in T => e[2] \in T, Terminator \notin T
        PROVE  FALSE
    <3> DEFINE W == T \cap input.traversed
    <3>1. ASSUME NEW m \in T \cap Collections PROVE \E n \in W : <<m, n>> \in Digraph \cup ShortEdge
      <4>1. <<m, Terminator>> \notin edges
        <5>1. <<m, Terminator>> \in edges => <<m, Terminator>>[2] \in T
          BY <2>2
        <5> QED
          BY <5>1, <2>2
      <4>2. <<m, Terminator>> \notin EndEdges
        BY <4>1, <2>1 DEF Digraph
      <4>3. PICK n \in input.traversed : m \in input.eraseAfter[n]
        BY <4>2 DEF EndEdges, Nodes
      <4>4. m \in Nodes /\ n \in Nodes
        BY <2>1, InputShape DEF Nodes
      <4>5. <<m, n>> \in DependencyEdges(input.traversed)
        BY <4>3, <4>4 DEF DependencyEdges, ErasureDependencies
      <4>6. <<m, n>> \in edges
        BY <4>5, <2>1 DEF Digraph
      <4>7. n \in T
        <5>1. <<m, n>>[1] \in T => <<m, n>>[2] \in T
          BY <2>2, <4>6
        <5> QED
          BY <5>1
      <4> QED
        BY <4>3, <4>6, <4>7, <2>1
    <3>2. c \in T \cap Collections /\ W \subseteq T \cap Collections
      BY <2>1, <2>2, InputShape
    <3>3. Succeeded(W, Digraph \cup ShortEdge)
      BY <3>1, <3>2 DEF Succeeded
    <3> QED
      BY <3>3, <2>1, SucceededIsCircle
  <2> QED
    BY <2>2 DEF Reaches, Nodes
<1> QED
  BY <1>1, GInductive, PTL

\* Every traversed collection is below the root, so that it is queued.
THEOREM TraversedAreBelowRoot == Spec => []TraversedAreQueued
<1>1. GInv => TraversedAreQueued
  <2> SUFFICES ASSUME GInv, Built PROVE input.traversed \subseteq Reaches({Root})
    BY DEF TraversedAreQueued
  <2>1. input \in Inputs /\ edges = Digraph \cup ShortEdge
    BY DEF GInv, TypeOK, BuiltInv
  <2> QED
    BY <2>1, RootReaches
<1> QED
  BY <1>1, GInductive, PTL

\* Only an erase_after that dangles, or a circle of them, has a graph refused.
THEOREM RefusedWithCause == Spec => []RefusedForCause
<1>1. GInv => RefusedForCause
  <2> SUFFICES ASSUME GInv, phase = "refused", Dangling
               PROVE  \E n \in input.traversed : ~(input.eraseAfter[n] \subseteq Collections)
    BY DEF GInv, CauseInv, RefusedForCause, Circle
  <2>1. PICK n \in input.traversed : Deleted \in input.eraseAfter[n]
    BY DEF Dangling
  <2> QED
    BY <2>1, ErasureAssumption
<1> QED
  BY <1>1, GInductive, PTL

\* Where the traversal reached every collection, counting rows is enough: the
\* erasure step starts with all of them, after any number of crashes.
THEOREM FullGraphsStartComplete == Spec => []FullGraphStartsWithAllRows
<1>1. Cardinality(Nodes) = Cardinality(Collections) + 2
  <2>1. Cardinality(Collections \cup {Root}) = Cardinality(Collections) + 1
        /\ IsFiniteSet(Collections \cup {Root})
    BY FS_AddElement, ErasureAssumption
  <2>2. Cardinality((Collections \cup {Root}) \cup {Terminator}) = Cardinality(Collections) + 1 + 1
    BY <2>1, FS_AddElement, ErasureAssumption
  <2>3. Nodes = (Collections \cup {Root}) \cup {Terminator}
    BY DEF Nodes
  <2>4. Cardinality(Collections) \in Nat
    BY FS_CardinalityType, ErasureAssumption
  <2> QED
    BY <2>2, <2>3, <2>4
<1>2. GInv => FullGraphStartsWithAllRows
  <2> SUFFICES ASSUME GInv, input.traversed = Collections, phase = "started" PROVE rows = Nodes
    BY DEF FullGraphStartsWithAllRows, StartsWithAllRows
  <2>1. rows \subseteq Nodes /\ ~(Cardinality(rows) < Cardinality(Nodes))
    BY <1>1 DEF GInv, TypeOK, CauseInv, AccessCount
  <2>2. Cardinality(rows) <= Cardinality(Nodes) /\ (Cardinality(Nodes) = Cardinality(rows) => Nodes = rows)
        /\ IsFiniteSet(rows)
    BY <2>1, NodesFinite, FS_Subset
  <2>3. Cardinality(rows) \in Nat /\ Cardinality(Nodes) \in Nat
    BY <2>2, NodesFinite, FS_CardinalityType
  <2> QED
    BY <2>1, <2>2, <2>3
<1> QED
  BY <1>2, GInductive, PTL
==================================================================================
