------------------------------- MODULE GraphStep -------------------------------
(***************************************************************************)
(* What the execution of a graph of RequestTasks promises to the privacy   *)
(* request: collections are completed one at a time, each after everything *)
(* directly upstream of it, and the request goes on to its next step only  *)
(* when all of them are completed.  How often a task runs, who runs it,    *)
(* and what is lost or repeated on the way does not show.                  *)
(***************************************************************************)
EXTENDS TaskGraph

VARIABLES
    done,      \* tasks that were completed or skipped
    goesOn     \* the next step has been queued

Init == done \in {{}, {Root}} /\ goesOn = FALSE

Finish(t) ==
    /\ t \notin done
    /\ Upstream[t] \subseteq done
    /\ done' = done \cup {t}
    /\ UNCHANGED goesOn

GoOn ==
    /\ ~goesOn
    /\ Collections \subseteq done
    /\ goesOn' = TRUE
    /\ UNCHANGED done

Next == GoOn \/ \E t \in Tasks : Finish(t)

Spec == Init /\ [][Next]_<<done, goesOn>>
================================================================================
