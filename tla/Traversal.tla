------------------------------ MODULE Traversal ------------------------------
(***************************************************************************)
(* How the access graph of a privacy request comes about.  The collections *)
(* of the datasets refer to one another; some can be looked up by the      *)
(* identity data alone.  Traversal.traverse walks the references from an   *)
(* artificial root and turns each into a parent/child relation, and        *)
(* build_access_networkx_digraph makes the digraph of RequestTasks of      *)
(* them.  The walk takes what it discovers out of Python sets, so the      *)
(* order of discovery is not determined by the input.                      *)
(***************************************************************************)
EXTENDS Naturals, Sequences, FiniteSets

CONSTANTS
    Collections,   \* collections of the dataset graph
    Root,          \* ROOT_COLLECTION_ADDRESS
    Terminator,    \* TERMINATOR_ADDRESS
    Inputs         \* the dataset graphs to walk: records as in Input below

(***************************************************************************)
(* A reference is an edge f1 -> f2 between two collections, or, if the     *)
(* dataset gives it no direction, one that may be followed either way.     *)
(***************************************************************************)
Pair  == {p \in Collections \X Collections : p[1] # p[2]}
Input == [directed : SUBSET Pair,        \* references with a direction
          either   : SUBSET Pair,        \* references without (BidirectionalEdge)
          seeds    : SUBSET Collections, \* collections the identity data reaches
          after    : SUBSET Pair]        \* <<a, b>>: a is visited after b

ASSUME TraversalAssumption ==
    /\ Root # Terminator
    /\ IsFiniteSet(Collections)
    /\ Collections \cap {Root, Terminator} = {}
    /\ Inputs \subseteq Input

VARIABLES
    input,       \* the dataset graph, with the identity data
    ready,       \* ready_queue
    pending,     \* discovered, but blocked by an "after" dependency
    blocked,     \* blocked_by: for each collection, how many of those are left
    discovered,
    finished,    \* finished_nodes
    used,        \* deleted_edges_tracker
    children,    \* <<parent, child>> for every add_child
    terminal,    \* nodes with is_terminal_node
    result       \* "running", "traversed", "unordered", "unreachable"

vars == <<input, ready, pending, blocked, discovered, finished, used, children, terminal, result>>

Nodes == Collections \cup {Root}

Edge == [from : Nodes, to : Nodes, either : BOOLEAN]

\* graph.edges and the edges from the root to the seed fields.
Edges ==
    {[from |-> p[1], to |-> p[2], either |-> FALSE] : p \in input.directed}
    \cup {[from |-> p[1], to |-> p[2], either |-> TRUE] : p \in input.either}
    \cup {[from |-> Root, to |-> s, either |-> FALSE] : s \in input.seeds}

SpansEitherWay(e, m, n) == {e.from, e.to} = {m, n}

\* Edge.spans and BidirectionalEdge.spans
Spans(e, m, n) ==
    \/ e.from = m /\ e.to = n
    \/ e.either /\ e.from = n /\ e.to = m

After(n) == {b \in Collections : <<n, b>> \in input.after}

\* Only a node's first visit counts.
CountDownEachVisit(n) ==
    [c \in Collections |-> IF n \in After(c) THEN blocked[c] - 1 ELSE blocked[c]]

CountDownToZero(n) ==
    [c \in Collections |-> IF n \notin finished /\ n \in After(c) THEN 0 ELSE blocked[c]]

CountDown(n) ==
    [c \in Collections |->
        IF n \notin finished /\ n \in After(c) THEN blocked[c] - 1 ELSE blocked[c]]

TypeOK ==
    /\ input \in Inputs
    /\ ready \in Seq(Nodes)
    /\ pending \subseteq Collections
    /\ blocked \in [Collections -> Nat]
    /\ discovered \subseteq Nodes
    /\ finished \subseteq Nodes
    /\ used \subseteq Edges
    /\ children \subseteq Nodes \X Collections
    /\ terminal \subseteq Nodes
    /\ result \in {"running", "traversed", "unordered", "unreachable"}

Init ==
    /\ input \in Inputs
    /\ ready = <<Root>>
    /\ pending = {}
    /\ blocked = [c \in Collections |-> Cardinality(After(c))]
    /\ discovered = {Root}
    /\ finished = {}
    /\ used = {}
    /\ children = {}
    /\ terminal = {}
    /\ result = "running"

\* The ways to put the members of a set in a row.
Rows(S) == {q \in [1..Cardinality(S) -> S] : \A x \in S : \E i \in DOMAIN q : q[i] = x}

UnblockedBefore(n, count) == {b \in pending : n \in After(b) /\ blocked[b] = 0}

\* Pending collections that the visit of n leaves with nothing to wait for.
Unblocked(n, count) == {b \in pending : n \in After(b) /\ count[b] = 0}

\* References into n from nodes that are finished; they are not followed again.
NewlyUsedIfEither(n, done) ==
    {e \in Edges \ used : e.either /\ \E m \in done : Spans(e, m, n)}

NewlyUsed(n, done) == {e \in Edges \ used : \E m \in done : Spans(e, m, n)}

(***************************************************************************)
(* One turn of the loop visits the head of the ready queue: references     *)
(* from nodes already finished become parent/child relations, and the      *)
(* other ends of the remaining ones are discovered.  A finished node that  *)
(* is found again, over a reference that leads back to it, is visited      *)
(* again.                                                                  *)
(***************************************************************************)
Visit ==
    LET n     == Head(ready)
        done  == finished \cup {n}
        count == CountDown(n)
        free  == Unblocked(n, count)
        now   == NewlyUsed(n, done)
        left  == {e \in Edges \ (used \cup now) : \E c \in Nodes : Spans(e, n, c)}
        ends  == {c \in Collections : \E e \in left : Spans(e, n, c)}
        fresh == ends \ discovered
        again == ends \cap done
        next  == again \cup {c \in fresh : count[c] = 0}
    IN
    /\ result = "running" /\ ready # <<>>
    /\ \E unblocked \in Rows(free), found \in Rows(next) :
          ready' = Tail(ready) \o unblocked \o found
    /\ pending' = (pending \ free) \cup {c \in fresh : count[c] # 0}
    /\ blocked' = count
    /\ discovered' = discovered \cup fresh
    /\ finished' = done
    /\ used' = used \cup now
    /\ children' = children \cup {<<m, n>> : m \in {k \in done : \E e \in now : Spans(e, k, n)}}
    /\ terminal' = IF left = {} THEN terminal \cup {n} ELSE terminal
    /\ UNCHANGED <<input, result>>

\* Nodes left that wait for one another, or for a node that is not reached.  The
\* code looks once more for a pending node that is not blocked any more; there
\* is none (PendingIsBlocked).
NotOrdered ==
    /\ result = "running" /\ ready = <<>> /\ pending # {}
    /\ result' = "unordered"
    /\ UNCHANGED <<input, ready, pending, blocked, discovered, finished, used, children, terminal>>

\* No filter applies to a collection that was not reached, or one does.
End ==
    /\ result = "running" /\ ready = <<>> /\ pending = {}
    /\ result' \in IF Collections \subseteq finished THEN {"traversed"}
                   ELSE {"traversed", "unreachable"}
    /\ UNCHANGED <<input, ready, pending, blocked, discovered, finished, used, children, terminal>>

Next == Visit \/ NotOrdered \/ End

Spec == Init /\ [][Next]_vars

\* The loop runs in one thread, to its end.
FairSpec == Spec /\ WF_vars(Next)

----------------------------------------------------------------------------
(* build_access_networkx_digraph *)

\* Traversal.__init__ has walked the graph once before, to verify it; the second
\* walk goes over the same sets in the same order and adds nothing new.
Traversed == finished \ {Root}

\* Slips the runs notice: a seed collection without its other parents, an end
\* node without the root, and "after" taken for an edge.
AccessEdgesSeedsAlone ==
    {p \in children : p[1] # Root /\ p[2] \notin input.seeds}
    \cup {<<Root, s>> : s \in input.seeds}
    \cup {<<n, Terminator>> : n \in terminal}

AccessEdgesEndsAlone ==
    (children \cap (Collections \X Collections))
    \cup {<<Root, s>> : s \in input.seeds \ terminal}
    \cup {<<n, Terminator>> : n \in terminal}

AccessEdgesAfter ==
    (children \cap (Collections \X Collections))
    \cup {<<Root, s>> : s \in input.seeds}
    \cup {<<n, Terminator>> : n \in terminal}
    \cup {<<p[2], p[1]>> : p \in input.after}

AccessEdges ==
    (children \cap (Collections \X Collections))
    \cup {<<Root, s>> : s \in input.seeds}
    \cup {<<n, Terminator>> : n \in terminal}
    \cup IF Traversed = {} THEN {<<Root, Terminator>>} ELSE {}

TaskNodes == Traversed \cup {Root, Terminator}

\* networkx.topological_sort raises if there is a cycle, before any row is made.
Acyclic(nodes, edges) ==
    \A S \in SUBSET nodes : S # {} => \E t \in S : \A u \in S : <<u, t>> \notin edges

Built == result = "traversed" /\ Acyclic(TaskNodes, AccessEdges)

----------------------------------------------------------------------------
(* Properties *)

\* What a node that waits for others was counted down to is never missed: as
\* long as it is pending, something it comes after is still to be visited.
PendingIsBlocked == \A b \in pending : blocked[b] > 0

\* The digraph of RequestTasks is what TaskGraph assumes of it: every
\* collection lies above the terminator, so that whoever collects from the
\* terminator upwards misses none ...
AllAboveTerminator ==
    Built => \A S \in SUBSET TaskNodes :
                /\ Terminator \in S
                /\ \A e \in AccessEdges : e[2] \in S => e[1] \in S
                => Traversed \subseteq S

\* ... and every collection lies below the root, so that it is queued at all.
AllBelowRoot ==
    Built => \A S \in SUBSET TaskNodes :
                /\ Root \in S
                /\ \A e \in AccessEdges : e[1] \in S => e[2] \in S
                => Traversed \subseteq S

\* Data flows along every reference between two collections that have tasks:
\* a directed one goes its way, and one without a direction goes one way only,
\* whichever of the two was visited first and however often.
EveryReferenceIsFollowed ==
    Built =>
        /\ \A p \in input.directed : {p[1], p[2]} \subseteq Traversed => p \in AccessEdges
        /\ \A p \in input.either :
             /\ {p[1], p[2]} \subseteq Traversed
             /\ {p, <<p[2], p[1]>>} \cap input.directed = {}
             => p \in AccessEdges <=> <<p[2], p[1]>> \notin AccessEdges

\* References that all have a direction and form no cycle are never turned
\* into one, whatever the order of discovery.
DirectedStaysAcyclic ==
    result = "traversed" /\ input.either = {} /\ Acyclic(Collections, input.directed)
        => Acyclic(TaskNodes, AccessEdges)

\* A collection is visited for the first time only after those it comes after.
VisitedInOrder ==
    [][\A n \in finished' \ finished :
         \A b \in Collections : <<n, b>> \in input.after => b \in finished]_vars

\* The walk ends, also if it goes over some nodes again.
TraversalEnds == <>(result # "running")
==============================================================================
