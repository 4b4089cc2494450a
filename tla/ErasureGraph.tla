----------------------------- MODULE ErasureGraph -----------------------------
(***************************************************************************)
(* The erasure graph of a privacy request and its rows.  The graph is made *)
(* next to the access graph, of the same collections, but with edges only  *)
(* for erase_after (build_erasure_networkx_digraph).  Its rows are         *)
(* committed one by one; should that stop half-way, the erasure step of    *)
(* the request is to notice by counting and make the missing rows          *)
(* (run_erasure_request).                                                  *)
(***************************************************************************)
EXTENDS Naturals, FiniteSets

CONSTANTS
    Collections,   \* graph.nodes: all collections of the dataset graph
    Deleted,       \* a collection that is referred to but no longer exists
    Root,          \* ROOT_COLLECTION_ADDRESS
    Terminator,    \* TERMINATOR_ADDRESS
    Inputs,        \* the graphs to build: records as in Input below
    MaxCrashes     \* bound: how often row creation stops half-way

Input == [traversed  : SUBSET Collections,
          eraseAfter : [Collections -> SUBSET (Collections \cup {Deleted})]]

ASSUME ErasureAssumption ==
    /\ Root # Terminator
    /\ IsFiniteSet(Collections)
    /\ Collections \cap {Root, Terminator, Deleted} = {}
    /\ Deleted \notin {Root, Terminator}
    /\ Inputs \subseteq Input
    /\ MaxCrashes \in Nat

VARIABLES
    input,      \* the collections the traversal reached, and erase_after
    todo,       \* collections the loop has still to link
    endNodes,   \* end_nodes, from which the loop removes
    edges,      \* the digraph
    rows,       \* erasure RequestTasks in the database
    phase,
    crashes

vars == <<input, todo, endNodes, edges, rows, phase, crashes>>

Nodes == Collections \cup {Root, Terminator}

TypeOK ==
    /\ input \in Inputs
    /\ todo \subseteq Collections
    /\ endNodes \subseteq Collections
    /\ edges \subseteq Nodes \X Nodes
    /\ rows \subseteq Nodes
    /\ phase \in {"validate", "link", "close", "persist", "count", "started", "refused"}
    /\ crashes \in 0..MaxCrashes

\* erasure_end_nodes is every collection of the graph, traversed or not.
Init ==
    /\ input \in Inputs
    /\ todo = input.traversed
    /\ endNodes = Collections
    /\ edges = {}
    /\ rows = {}
    /\ phase = "validate"
    /\ crashes = 0

DanglingUnchecked == FALSE

DanglingIfNotTraversed ==
    \E n \in input.traversed : ~(input.eraseAfter[n] \subseteq input.traversed)

Dangling == \E n \in input.traversed : Deleted \in input.eraseAfter[n]

\* Dangling erase_after references are refused.
Validate ==
    /\ phase = "validate"
    /\ phase' = IF Dangling THEN "refused" ELSE "link"
    /\ UNCHANGED <<input, todo, endNodes, edges, rows, crashes>>

ErasureDependenciesOrRoot(n) ==
    IF input.eraseAfter[n] = {} THEN {Root} ELSE input.eraseAfter[n]

\* _evaluate_erasure_dependencies: the root comes on top of the collections
\* to erase first.
ErasureDependencies(n) == input.eraseAfter[n] \cup {Root}

EndNodesWithout(n) == endNodes \ {n}

EndNodesLeft(n) == endNodes \ input.eraseAfter[n]

Link(n) ==
    /\ phase = "link"
    /\ n \in todo
    /\ todo' = todo \ {n}
    /\ endNodes' = EndNodesLeft(n)
    /\ edges' = edges \cup {<<d, n>> : d \in ErasureDependencies(n)}
    /\ UNCHANGED <<input, rows, phase, crashes>>

Linked ==
    /\ phase = "link" /\ todo = {}
    /\ edges' = edges \cup {<<n, Terminator>> : n \in endNodes}
    /\ phase' = "close"
    /\ UNCHANGED <<input, todo, endNodes, rows, crashes>>

Reaches(S) == {n \in Nodes : \A T \in SUBSET Nodes :
                  S \subseteq T /\ (\A e \in edges : e[1] \in T => e[2] \in T) => n \in T}

\* networkx.find_cycle looks for a cycle among what the root reaches.
CycleFound ==
    \E S \in SUBSET Reaches({Root}) :
        S # {} /\ \A m \in S : \E n \in S : <<m, n>> \in edges

\* Cycles are refused; _add_edge_if_no_nodes.
Close ==
    /\ phase = "close"
    /\ phase' = IF CycleFound THEN "refused" ELSE "persist"
    /\ edges' = IF input.traversed = {} THEN edges \cup {<<Root, Terminator>>} ELSE edges
    /\ UNCHANGED <<input, todo, endNodes, rows, crashes>>

\* persist_initial_erasure_request_tasks, in a topological order.
Persist(n) ==
    /\ phase = "persist"
    /\ n \notin rows
    /\ {m \in Nodes : <<m, n>> \in edges} \subseteq rows
    /\ rows' = rows \cup {n}
    /\ UNCHANGED <<input, todo, endNodes, edges, phase, crashes>>

\* All rows are there, or the worker dies; either way the request comes to its
\* erasure step, at once or when it is resumed.
Persisted ==
    /\ phase = "persist"
    /\ \/ rows = Nodes /\ UNCHANGED crashes
       \/ rows # Nodes /\ crashes < MaxCrashes /\ crashes' = crashes + 1
    /\ phase' = "count"
    /\ UNCHANGED <<input, todo, endNodes, edges, rows>>

AccessCollections == Cardinality(input.traversed)

\* access_tasks.count()
AccessCount == Cardinality(input.traversed) + 2

\* The erasure step makes the missing rows if there are fewer than access
\* rows, and starts.
Start ==
    /\ phase = "count"
    /\ phase' = IF Cardinality(rows) < AccessCount THEN "persist" ELSE "started"
    /\ UNCHANGED <<input, todo, endNodes, edges, rows, crashes>>

Next ==
    \/ Validate
    \/ \E n \in Collections : Link(n)
    \/ Linked
    \/ Close
    \/ \E n \in Nodes : Persist(n)
    \/ Persisted
    \/ Start

Spec == Init /\ [][Next]_vars

----------------------------------------------------------------------------
(* Properties *)

Built == phase \in {"persist", "count", "started"}

\* find_cycle starts at the root and stops at the first cycle it finds.  That
\* is enough: a graph that is not refused has no cycle anywhere, so that a
\* topological order of its rows exists.
NoCycleIsMissed ==
    Built => \A S \in SUBSET Nodes : S # {} => \E n \in S : \A m \in S : <<m, n>> \notin edges

\* However the loop removes end nodes, the terminator stays below every
\* collection, those that were not traversed included: the request goes on
\* only after all of them.
TerminatorIsLast == Built => \A n \in Collections : Terminator \in Reaches({n})

\* Every collection that was traversed lies below the root, so that it is
\* queued when the root is complete.
TraversedAreQueued == Built => input.traversed \subseteq Reaches({Root})

\* Only a graph that has to be is refused: one with an erase_after that is
\* dangling, or a circle of them.
RefusedForCause ==
    phase = "refused" =>
        \/ \E n \in input.traversed : ~(input.eraseAfter[n] \subseteq Collections)
        \/ \E S \in SUBSET input.traversed :
              S # {} /\ \A n \in S : input.eraseAfter[n] \cap S # {}

\* However often the creation of rows stops half-way, the erasure step starts
\* only when every task has its row.
StartsWithAllRows == phase = "started" => rows = Nodes

\* That much is true if the traversal reached every collection: then there are
\* as many access rows as erasure rows, and the count notices what is missing.
FullGraphStartsWithAllRows == input.traversed = Collections => StartsWithAllRows
==============================================================================
