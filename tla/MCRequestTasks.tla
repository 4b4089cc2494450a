---------------------------- MODULE MCRequestTasks ----------------------------
(* Small graphs and settings for model checking RequestTasks. *)
EXTENDS RequestTasks, TLC

CONSTANTS root, term, a, b, c, w1, w2

\* Two collections that join above a third one.
DiamondUpstream ==
    root :> {} @@ a :> {root} @@ b :> {root} @@ c :> {a, b} @@ term :> {c}

\* One collection behind another.
ChainUpstream == root :> {} @@ a :> {root} @@ b :> {a} @@ term :> {b}

\* Workers are interchangeable (safety runs only).
WorkerSymmetry == Permutations(Workers)
==============================================================================
