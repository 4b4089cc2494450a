------------------------------ MODULE TaskGraph ------------------------------
(***************************************************************************)
(* The graph of RequestTasks of one action type (access, erasure or        *)
(* consent) of one privacy request: one task per collection, an artificial *)
(* root that holds the identity data, and an artificial terminator.  Each  *)
(* task row stores its predecessors (upstream_tasks), its successors       *)
(* (downstream_tasks) and everything it reaches (all_descendant_tasks).    *)
(***************************************************************************)
CONSTANTS
    Collections,  \* addresses of the collections that have a task
    Root,         \* ROOT_COLLECTION_ADDRESS
    Terminator,   \* TERMINATOR_ADDRESS
    Upstream      \* Upstream[t]: the predecessors of t in the digraph

Tasks == Collections \cup {Root, Terminator}

(***************************************************************************)
(* A set of tasks that holds, with a task, everything upstream of it, and  *)
(* one that holds, with a task, everything downstream of it.               *)
(***************************************************************************)
UpstreamClosed(S) == \A t \in S : Upstream[t] \subseteq S

Downstream == [t \in Tasks |-> {d \in Tasks : t \in Upstream[d]}]

DownstreamClosed(S) == \A t \in S : Downstream[t] \subseteq S

\* all_descendant_tasks: the least set that holds t's successors and is
\* closed downstream.
Descendants ==
    [t \in Tasks |->
        {d \in Tasks :
            \A S \in SUBSET Tasks :
                Downstream[t] \subseteq S /\ DownstreamClosed(S) => d \in S}]

(***************************************************************************)
(* What the digraph builders guarantee (modules Traversal and ErasureGraph *)
(* check them for it): artificial nodes are distinct from the collections, *)
(* the root has no predecessor, the terminator no successor, the graph has *)
(* no cycle, and every collection lies above the terminator.  The last two *)
(* are stated with sets rather than paths.                                 *)
(***************************************************************************)
ASSUME GraphAssumption ==
    /\ Root # Terminator
    /\ Root \notin Collections
    /\ Terminator \notin Collections
    /\ Upstream \in [Tasks -> SUBSET Tasks]
    /\ Upstream[Root] = {}
    /\ \A t \in Tasks : Terminator \notin Upstream[t]

ASSUME AcyclicAssumption ==
    \A S \in SUBSET Tasks : S # {} => \E t \in S : Upstream[t] \cap S = {}

ASSUME TerminatorAssumption ==
    \A S \in SUBSET Tasks :
        UpstreamClosed(S) /\ Upstream[Terminator] \subseteq S
            => Collections \subseteq S
=============================================================================
