---------------------------- MODULE MCErasureGraph ----------------------------
(* All erase_after relations among three collections with at most two        *)
(* references each, one of them possibly dangling.                           *)
EXTENDS ErasureGraph, TLC

CONSTANTS a, b, c, gone

SmallRelations ==
    {r \in [Collections -> SUBSET (Collections \cup {gone})] :
        /\ gone \notin r[b] \cup r[c]
        /\ \A n \in Collections : Cardinality(r[n]) <= 2}

\* Any collections are traversed.
AnyTraversed == [traversed : SUBSET Collections, eraseAfter : SmallRelations]
==============================================================================
