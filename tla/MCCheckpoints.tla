---------------------------- MODULE MCCheckpoints ----------------------------
(* Small policies and settings for model checking Checkpoints. *)
EXTENDS Checkpoints, TLC

CONSTANTS w1, w2

Plain(types) == [rules |-> types, halts |-> FALSE, manual |-> FALSE,
                 review |-> FALSE, email |-> FALSE, finalize |-> FALSE]

\* Every wait there is, and every order of graphs.
EveryWait ==
    {[Plain({"access", "consent"}) EXCEPT !.halts = TRUE],
     [Plain({"access", "erasure"}) EXCEPT !.manual = TRUE, !.review = TRUE],
     [Plain({"erasure"}) EXCEPT !.email = TRUE],
     [Plain({"erasure"}) EXCEPT !.finalize = TRUE]}

\* Both ways to an erasure: with a package to store and review, and without.
ErasurePolicies ==
    {[Plain({"access", "erasure"}) EXCEPT !.review = TRUE], Plain({"erasure"})}

\* Policies that wait for nothing but their graphs.
Straight == {Plain({"access"}), Plain({"access", "erasure"})}

\* Workers are interchangeable.
WorkerSymmetry == Permutations(Workers)
==============================================================================
