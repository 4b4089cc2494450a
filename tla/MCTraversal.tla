----------------------------- MODULE MCTraversal -----------------------------
(* All dataset graphs of three collections, up to their names, whose        *)
(* undirected references and "after" dependencies are few.                  *)
EXTENDS Traversal, TLC

CONSTANTS a, b, c

Unordered == {<<a, b>>, <<a, c>>, <<b, c>>}

SmallInputs ==
    {i \in [directed : SUBSET Pair, either : SUBSET Unordered,
            seeds : {{}, {a}, {a, b}, {a, b, c}},
            after : {P \in SUBSET Pair : Cardinality(P) <= 2}] :
        Cardinality(i.directed) + Cardinality(i.either) <= 3}
==============================================================================
