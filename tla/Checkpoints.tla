------------------------------ MODULE Checkpoints ------------------------------
(***************************************************************************)
(* The life of one privacy request: run_privacy_request walks through the  *)
(* checkpoints of EXECUTION_CHECKPOINTS and leaves whenever it has to wait *)
(* (for a graph of RequestTasks, a webhook, a manual input, a review, the  *)
(* e-mail batch, a finalization); a later message takes the request up     *)
(* again from a checkpoint.  A graph is one state here (GraphStep and      *)
(* RequestTasks look into it): what matters is from where the request      *)
(* resumes, who queues it again, and what the checkpoint cached in Redis   *)
(* then says.                                                              *)
(***************************************************************************)
EXTENDS Naturals

CONSTANTS
    Workers,         \* Celery worker processes
    Configs,         \* policies and settings a request may have
    UploadFailures,  \* TRUE: the storage may refuse the access package
    SoftLimits,      \* TRUE: task_soft_time_limit_seconds is set
    MaxFaults,       \* bound: failing steps and graphs, dead workers, broker down
    MaxRestarts,     \* bound: restarts after an error, requeues by the watchdog
    MaxExpiries,     \* bound: expiries of the cached checkpoint
    MaxRepeats,      \* bound: terminators that proceed again
    MaxScans         \* bound: scheduled jobs that have the request in hand at once

Graphs == {"access", "erasure", "consent"}   \* the action types with a graph

Config == [rules    : SUBSET Graphs \ {{}},  \* action types of its rules
           halts    : BOOLEAN,        \* a pre-webhook may answer "halt"
           manual   : BOOLEAN,        \* a manual webhook asks for input
           review   : BOOLEAN,        \* access packages are reviewed
           email    : BOOLEAN,        \* an e-mail connector has something to send
           finalize : BOOLEAN]        \* erasures are finalized by hand

ASSUME ConstantsAssumption ==
    /\ Configs \subseteq Config
    /\ {UploadFailures, SoftLimits} \subseteq BOOLEAN
    /\ {MaxFaults, MaxRestarts, MaxExpiries, MaxRepeats, MaxScans} \subseteq Nat

\* EXECUTION_CHECKPOINTS: a checkpoint is its position in the list.
PreWebhooks     == 1
Access          == 2
UploadAccess    == 3
Erasure         == 4
FinalizeErasure == 5
Consent         == 6
FinalizeConsent == 7
EmailPostSend   == 8
PostWebhooks    == 9
Finalization    == 10

Steps     == 1..10
FromStart == 0     \* from_step is None, and no checkpoint is cached
Idle      == 0     \* of a worker: it has no message
Notifying == 11    \* of a worker: the request is complete, the e-mail is not sent

\* The checkpoint that enters a graph; its terminator names the next one.
StepOf == [access |-> Access, erasure |-> Erasure, consent |-> Consent]

VARIABLES
    config,      \* the policy and the settings of this request
    prStatus,    \* PrivacyRequest.status
    finalized,   \* finalized_at is set
    canceled,    \* canceled_at is set
    inputs,      \* the inputs the manual webhooks ask for are cached
    reviewed,    \* the access package is approved
    halted,      \* a pre-webhook has halted the request: it holds a resume token
    checkpoint,  \* FAILED_LOCATION in Redis
    queue,       \* messages of run_privacy_request
    run,         \* where each worker is in run_privacy_request
    graph,       \* the RequestTasks of an action type, as a whole
    closing,     \* the graphs whose terminator a worker has taken
    done,        \* history: the checkpoints whose work is finished
    batch,       \* the batch e-mail job
    poller,      \* what the poller knows of the request, since its query
    watchdog,    \* the status the watchdog's query gave of the request
    faults, restarts, expiries, repeats

people == <<finalized, canceled, inputs, reviewed, halted>>
jobs   == <<closing, poller, watchdog>>
bounds == <<faults, restarts, expiries, repeats>>
vars   == <<config, prStatus, people, checkpoint, queue, run, graph, done,
            batch, jobs, bounds>>

Message == [from : 0..10, resumed : BOOLEAN]   \* from_step; from_webhook_id
Run     == [at : 0..11, from : 0..10, resumed : BOOLEAN]
NoRun   == [at |-> Idle, from |-> FromStart, resumed |-> FALSE]
Status  == {"pending", "approved", "in_processing", "requires_input", "paused",
            "awaiting_access_review", "awaiting_email_send",
            "requires_manual_finalization", "complete", "error", "canceled"}
Terminal == {"complete", "error", "canceled"}

\* What the poller, the watchdog and the requeue endpoint ask for.
InProgress == {"in_processing", "approved", "requires_input"}

TypeOK ==
    /\ config \in Configs
    /\ prStatus \in Status
    /\ {finalized, canceled, inputs, reviewed, halted} \subseteq BOOLEAN
    /\ checkpoint \in 0..10
    /\ queue \subseteq Message
    /\ run \in [Workers -> Run]
    /\ graph \in [Graphs -> {"absent", "running", "failed", "done"}]
    /\ done \subseteq Steps
    /\ closing \subseteq Graphs
    /\ batch \in {"idle", "sent", "listed", "pausing"}
    /\ poller \in {"idle", "listed", "exited"}
    /\ watchdog \in {"idle"} \cup InProgress
    /\ {faults, restarts, expiries, repeats} \subseteq Nat

Init ==
    /\ config \in Configs
    /\ prStatus \in {"pending", "approved"}
    /\ finalized = FALSE /\ canceled = FALSE /\ inputs = FALSE
    /\ reviewed = FALSE /\ halted = FALSE
    /\ checkpoint = FromStart
    /\ queue = {[from |-> FromStart, resumed |-> FALSE]}
    /\ run = [w \in Workers |-> NoRun]
    /\ graph = [a \in Graphs |-> "absent"]
    /\ closing = {}
    /\ done = {}
    /\ batch = "idle" /\ poller = "idle" /\ watchdog = "idle"
    /\ faults = 0 /\ restarts = 0 /\ expiries = 0 /\ repeats = 0

----------------------------------------------------------------------------
(* What the policy asks for.                                               *)

HasRules(types) == config.rules \cap types # {}

\* The condition a checkpoint stands under, apart from can_run_checkpoint.
\* Nothing runs at finalize_consent.
Applies(s) ==
    \/ s \in {PreWebhooks, FinalizeErasure, PostWebhooks, Finalization}
    \/ s \in {Access, UploadAccess} /\ HasRules({"access", "erasure"})
    \/ s = Erasure /\ HasRules({"erasure"})
    \/ s = Consent /\ HasRules({"consent"})
    \/ s = EmailPostSend /\ HasRules({"erasure", "consent"}) /\ config.email

\* A slip the runs must notice: the checkpoint resumed from is passed over.
CanRunBehind(s, from) == s > from

\* can_run_checkpoint: from nowhere in particular, everything runs.
CanRun(s, from) == s >= from

\* Worker w stands before checkpoint s, and s is to run.
Reaches(w, s) == run[w].at = s /\ Applies(s) /\ CanRun(s, run[w].from)

NeedsInputs == config.manual /\ HasRules({"access", "erasure"}) /\ ~inputs

\* A request that waits for its finalization does not enter the graphs.
Unfinalized(w) ==
    /\ run[w].at = Access
    /\ prStatus = "requires_manual_finalization"
    /\ ~finalized

Advance(w) == run' = [run EXCEPT ![w].at = @ + 1]
Leave(w)   == run' = [run EXCEPT ![w] = NoRun]

Fault   == faults < MaxFaults /\ faults' = faults + 1
Faulted == Fault /\ UNCHANGED <<restarts, expiries, repeats>>

\* cache_failed_checkpoint_details, or an exception before it was reached.
MayCache(w) ==
    \/ UNCHANGED checkpoint
    \/ \E s \in Steps : Reaches(w, s) /\ checkpoint' = s

\* queue_privacy_request: if the broker refuses the message, the request is
\* marked as errored (_handle_scheduling_failure).
Submit(m, newStatus) ==
    \/ /\ queue' = queue \cup {m}
       /\ prStatus' = newStatus
       /\ UNCHANGED faults
    \/ /\ Fault
       /\ prStatus' = "error"
       /\ UNCHANGED queue

From(s) == [from |-> s, resumed |-> FALSE]

----------------------------------------------------------------------------
(* A worker in run_privacy_request.  A checkpoint is cached and worked     *)
(* through in one step; an exception or a death may come between.          *)

\* The request was canceled: the message is dropped.
TakeCanceled(m) ==
    /\ prStatus = "canceled"
    /\ queue' = queue \ {m}
    /\ UNCHANGED <<config, prStatus, people, checkpoint, run, graph, done,
                   batch, jobs, bounds>>

\* A slip the runs must notice: the inputs are looked at before the status.
TakeUncheckedWithoutInputs(m) ==
    /\ NeedsInputs
    /\ prStatus' = "requires_input"
    /\ queue' = queue \ {m}
    /\ UNCHANGED <<config, people, checkpoint, run, graph, done, batch, jobs,
                   bounds>>

\* start_processing, then the inputs of manual webhooks are missing.
TakeWithoutInputs(m) ==
    /\ prStatus # "canceled"
    /\ NeedsInputs
    /\ prStatus' = "requires_input"
    /\ queue' = queue \ {m}
    /\ UNCHANGED <<config, people, checkpoint, run, graph, done, batch, jobs,
                   bounds>>

\* start_processing leaves any status alone but "pending" and "approved".
Take(w, m) ==
    /\ prStatus # "canceled"
    /\ ~NeedsInputs
    /\ prStatus' = IF prStatus \in {"pending", "approved"} THEN "in_processing"
                                                           ELSE prStatus
    /\ queue' = queue \ {m}
    /\ run' = [run EXCEPT ![w] = [at |-> PreWebhooks, from |-> m.from,
                                  resumed |-> m.resumed]]
    /\ UNCHANGED <<config, people, checkpoint, graph, done, batch, jobs,
                   bounds>>

\* A slip the runs must notice: the function does not return at its end.
SkipOn(w) ==
    /\ run[w].at # Idle
    /\ ~Unfinalized(w)
    /\ ~Reaches(w, run[w].at)
    /\ Advance(w)
    /\ UNCHANGED <<config, prStatus, people, checkpoint, queue, graph, done,
                   batch, jobs, bounds>>

\* The checkpoint is not for this request, or lies before the one it resumes at.
Skip(w) ==
    /\ run[w].at \in Steps
    /\ ~Unfinalized(w)
    /\ ~Reaches(w, run[w].at)
    /\ Advance(w)
    /\ UNCHANGED <<config, prStatus, people, checkpoint, queue, graph, done,
                   batch, jobs, bounds>>

LeaveUnfinalized(w) ==
    /\ Unfinalized(w)
    /\ Leave(w)
    /\ UNCHANGED <<config, prStatus, people, checkpoint, queue, graph, done,
                   batch, jobs, bounds>>

\* Work that ends with the step: webhooks that answer, an upload, and the
\* checkpoint finalize_erasure, which is only cached.
Work(w) ==
    \E s \in {PreWebhooks, UploadAccess, FinalizeErasure, PostWebhooks} :
        /\ Reaches(w, s)
        /\ s = UploadAccess /\ HasRules({"access"}) /\ config.review => reviewed
        /\ checkpoint' = s
        /\ done' = done \cup {s}
        /\ Advance(w)
        /\ UNCHANGED <<config, prStatus, people, queue, graph, batch, jobs,
                       bounds>>

\* PrivacyRequestPaused: a pre-webhook answers "halt".  The webhooks up to the
\* one that resumed the request are not asked again.
Halt(w) ==
    /\ Reaches(w, PreWebhooks)
    /\ config.halts /\ ~run[w].resumed
    /\ checkpoint' = PreWebhooks
    /\ prStatus' = "paused"
    /\ halted' = TRUE
    /\ Leave(w)
    /\ UNCHANGED <<config, finalized, canceled, inputs, reviewed, queue, graph,
                   done, batch, jobs, bounds>>

\* A slip the runs must notice: the checkpoint cached is the one after the graph.
EnterGraphBehind(w, a) ==
    /\ Reaches(w, StepOf[a])
    /\ ~Unfinalized(w)
    /\ checkpoint' = StepOf[a] + 1
    /\ graph' = [graph EXCEPT ![a] = IF @ = "done" THEN "done" ELSE "running"]
    /\ Leave(w)
    /\ UNCHANGED <<config, prStatus, people, queue, done, batch, jobs, bounds>>

\* The runner of a graph: its tasks are created, or those of a failed graph
\* are queued again; nothing is queued for one that is done.  The request is
\* left to the terminator (PrivacyRequestExit).
EnterGraph(w, a) ==
    /\ Reaches(w, StepOf[a])
    /\ ~Unfinalized(w)
    /\ checkpoint' = StepOf[a]
    /\ graph' = [graph EXCEPT ![a] = IF @ = "done" THEN "done" ELSE "running"]
    /\ Leave(w)
    /\ UNCHANGED <<config, prStatus, people, queue, done, batch, jobs, bounds>>

\* should_wait_for_access_review
AwaitReview(w) ==
    /\ Reaches(w, UploadAccess)
    /\ HasRules({"access"}) /\ config.review /\ ~reviewed
    /\ checkpoint' = UploadAccess
    /\ prStatus' = "awaiting_access_review"
    /\ Leave(w)
    /\ UNCHANGED <<config, people, queue, graph, done, batch, jobs, bounds>>

\* StorageUploadError: the request is marked as errored and goes on.
UploadFails(w) ==
    /\ UploadFailures
    /\ Reaches(w, UploadAccess)
    /\ HasRules({"access"}) /\ (config.review => reviewed)
    /\ Faulted
    /\ checkpoint' = UploadAccess
    /\ prStatus' = "error"
    /\ Advance(w)
    /\ UNCHANGED <<config, people, queue, graph, done, batch, jobs>>

\* needs_batch_email_send: the batch queues the request from post_webhooks.
AwaitEmail(w) ==
    /\ Reaches(w, EmailPostSend)
    /\ checkpoint' = EmailPostSend
    /\ prStatus' = "awaiting_email_send"
    /\ Leave(w)
    /\ UNCHANGED <<config, people, queue, graph, done, batch, jobs, bounds>>

MustFinalize == config.finalize /\ HasRules({"erasure"})

\* An errored request ends here, with "finalization" as its checkpoint.
EndInError(w) ==
    /\ Reaches(w, Finalization)
    /\ prStatus = "error"
    /\ checkpoint' = Finalization
    /\ Leave(w)
    /\ UNCHANGED <<config, prStatus, people, queue, graph, done, batch, jobs,
                   bounds>>

Hold(w) ==
    /\ Reaches(w, Finalization)
    /\ prStatus # "error"
    /\ MustFinalize /\ ~finalized
    /\ checkpoint' = Finalization
    /\ prStatus' = "requires_manual_finalization"
    /\ Leave(w)
    /\ UNCHANGED <<config, people, queue, graph, done, batch, jobs, bounds>>

Complete(w) ==
    /\ Reaches(w, Finalization)
    /\ prStatus # "error"
    /\ MustFinalize => finalized
    /\ checkpoint' = Finalization
    /\ prStatus' = "complete"
    /\ done' = done \cup {Finalization}
    /\ Advance(w)
    /\ UNCHANGED <<config, people, queue, graph, batch, jobs, bounds>>

\* The completion e-mail: if it cannot be sent, the request is errored.
Notify(w) ==
    /\ run[w].at = Notifying
    /\ \/ UNCHANGED <<prStatus, faults>>
       \/ Fault /\ prStatus' = "error"
    /\ Leave(w)
    /\ UNCHANGED <<config, people, checkpoint, queue, graph, done, batch, jobs,
                   restarts, expiries, repeats>>

\* An exception in a step (in the plan of the graphs too, before access), or a
\* webhook that answers with an error.
StepFails(w) ==
    /\ run[w].at \in Steps
    /\ ~Unfinalized(w)
    /\ Faulted
    /\ MayCache(w)
    /\ prStatus' = "error"
    /\ Leave(w)
    /\ UNCHANGED <<config, people, queue, graph, done, batch, jobs>>

\* SoftTimeLimitExceeded: the request is errored, but the run goes on with the
\* steps after the graphs.
SoftLimit(w) ==
    /\ SoftLimits
    /\ run[w].at \in Access..FinalizeConsent
    /\ ~Unfinalized(w)
    /\ Faulted
    /\ MayCache(w)
    /\ prStatus' = "error"
    /\ run' = [run EXCEPT ![w].at = EmailPostSend]
    /\ UNCHANGED <<config, people, queue, graph, done, batch, jobs>>

\* The worker is killed; its message is lost (an exception outside the try
\* blocks has the same effect).
Die(w) ==
    /\ run[w].at # Idle
    /\ Faulted
    /\ MayCache(w)
    /\ Leave(w)
    /\ UNCHANGED <<config, prStatus, people, queue, graph, done, batch, jobs>>

WorkerNext(w) ==
    \/ /\ run[w].at = Idle
       /\ \E m \in queue : TakeCanceled(m) \/ TakeWithoutInputs(m) \/ Take(w, m)
    \/ Skip(w) \/ LeaveUnfinalized(w) \/ Work(w) \/ Halt(w)
    \/ \E a \in Graphs : EnterGraph(w, a)
    \/ AwaitReview(w) \/ UploadFails(w) \/ AwaitEmail(w)
    \/ EndInError(w) \/ Hold(w) \/ Complete(w) \/ Notify(w)
    \/ StepFails(w) \/ SoftLimit(w) \/ Die(w)

----------------------------------------------------------------------------
(* The graphs of RequestTasks, the poller and the watchdog.                *)

\* A worker takes the message of a terminator; tasks of a canceled request do
\* not run.  A second message makes a finished terminator proceed again.
GraphEnds(a) ==
    /\ prStatus # "canceled"
    /\ a \notin closing
    /\ \/ graph[a] = "running" /\ UNCHANGED repeats
       \/ graph[a] = "done" /\ repeats < MaxRepeats /\ repeats' = repeats + 1
    /\ closing' = closing \cup {a}
    /\ UNCHANGED <<config, prStatus, people, checkpoint, queue, run, graph,
                   done, batch, poller, watchdog, faults, restarts, expiries>>

\* The terminator is complete and queues the request from the next checkpoint.
GraphDone(a) ==
    /\ a \in closing
    /\ closing' = closing \ {a}
    /\ graph' = [graph EXCEPT ![a] = "done"]
    /\ done' = done \cup {StepOf[a]}
    /\ Submit(From(StepOf[a] + 1), prStatus)
    /\ UNCHANGED <<config, people, checkpoint, run, batch, poller, watchdog,
                   restarts, expiries, repeats>>

\* The worker of a terminator is killed.
GraphDies(a) ==
    /\ a \in closing
    /\ Faulted
    /\ closing' = closing \ {a}
    /\ UNCHANGED <<config, prStatus, people, checkpoint, queue, run, graph,
                   done, batch, poller, watchdog>>

\* All tasks have exited, some of them in error.
GraphFails(a) ==
    /\ graph[a] = "running" /\ a \notin closing
    /\ Faulted
    /\ graph' = [graph EXCEPT ![a] = "failed"]
    /\ UNCHANGED <<config, prStatus, people, checkpoint, queue, run, done,
                   batch, jobs>>

\* Another of the two scheduled jobs may take the request in hand.
MayScan == MaxScans > IF poller = "idle" /\ watchdog = "idle" THEN 0 ELSE 1

\* poll_for_exited_privacy_request_tasks: the query gives the request.
PollLists ==
    /\ poller = "idle"
    /\ MayScan
    /\ prStatus \in InProgress
    /\ poller' = "listed"
    /\ UNCHANGED <<config, prStatus, people, checkpoint, queue, run, graph,
                   done, batch, closing, watchdog, bounds>>

\* Its turn in the list comes: the tasks of the request are looked at, not its
\* status.
PollLooks ==
    /\ poller = "listed"
    /\ poller' = IF \E a \in Graphs : graph[a] = "failed" THEN "exited"
                                                        ELSE "idle"
    /\ UNCHANGED <<config, prStatus, people, checkpoint, queue, run, graph,
                   done, batch, closing, watchdog, bounds>>

\* error_processing writes over whatever status the request has by then.
PollErrors ==
    /\ poller = "exited"
    /\ poller' = "idle"
    /\ prStatus' = "error"
    /\ UNCHANGED <<config, people, checkpoint, queue, run, graph, done, batch,
                   closing, watchdog, bounds>>

\* A slip the runs must notice: erasure rows are taken for an erasure under way.
InferredFromRows ==
    IF graph["consent"] # "absent" THEN Consent
    ELSE IF graph["access"] # "absent" /\ HasRules({"erasure"}) THEN Erasure
    ELSE IF graph["access"] # "absent" THEN Access
    ELSE FromStart

\* Where to resume if the cached checkpoint has expired.  The rows of the
\* erasure graph are created with those of the access graph.
Inferred ==
    IF graph["consent"] # "absent" THEN Consent
    ELSE IF graph["access"] = "done" /\ HasRules({"erasure"}) THEN Erasure
    ELSE IF graph["access"] # "absent" THEN Access
    ELSE FromStart

ResumePoint == IF checkpoint # FromStart THEN checkpoint ELSE Inferred

\* _requeue_privacy_request through its endpoint, which has just read the row.
Requeue ==
    /\ prStatus \in InProgress
    /\ restarts < MaxRestarts /\ restarts' = restarts + 1
    /\ Submit(From(ResumePoint), "in_processing")
    /\ UNCHANGED <<config, people, checkpoint, run, graph, done, batch, jobs,
                   expiries, repeats>>

\* requeue_interrupted_tasks: the query gives the request.
WatchdogLists ==
    /\ watchdog = "idle"
    /\ MayScan
    /\ prStatus \in InProgress
    /\ watchdog' = prStatus
    /\ UNCHANGED <<config, prStatus, people, checkpoint, queue, run, graph,
                   done, batch, closing, poller, bounds>>

\* Nothing of it was interrupted, as far as the watchdog sees.
WatchdogPasses ==
    /\ watchdog # "idle"
    /\ watchdog' = "idle"
    /\ UNCHANGED <<config, prStatus, people, checkpoint, queue, run, graph,
                   done, batch, closing, poller, bounds>>

\* _requeue_privacy_request by the watchdog tests the status of the query, and
\* writes "in_processing" where that is a change to the row it holds.
WatchdogRequeues ==
    /\ watchdog # "idle"
    /\ watchdog' = "idle"
    /\ restarts < MaxRestarts /\ restarts' = restarts + 1
    /\ Submit(From(ResumePoint),
              IF watchdog = "in_processing" THEN prStatus ELSE "in_processing")
    /\ UNCHANGED <<config, people, checkpoint, run, graph, done, batch, closing,
                   poller, expiries, repeats>>

\* What cancel_celery_tasks may reach of the queue: the message whose id is
\* cached, if it is still there.
Revocable == {{}} \cup {{m} : m \in queue}

\* The retries are used up, no message id is cached, the cache fails, or the
\* requeue is refused: the latest message is revoked, the request errored,
\* whatever its status is by then.
GiveUp ==
    /\ watchdog # "idle"
    /\ watchdog' = "idle"
    /\ prStatus' = "error"
    /\ \E dropped \in Revocable : queue' = queue \ dropped
    /\ UNCHANGED <<config, people, checkpoint, run, graph, done, batch, closing,
                   poller, bounds>>

\* The time to live of the checkpoint in Redis is over.
Expire ==
    /\ checkpoint # FromStart
    /\ expiries < MaxExpiries /\ expiries' = expiries + 1
    /\ checkpoint' = FromStart
    /\ UNCHANGED <<config, prStatus, people, queue, run, graph, done, batch,
                   jobs, faults, restarts, repeats>>

----------------------------------------------------------------------------
(* People, and the systems that answer for them.                           *)

\* A slip the runs must notice: the failed checkpoint is taken for a finished one.
RestartBehind ==
    /\ prStatus = "error"
    /\ checkpoint < Finalization
    /\ restarts < MaxRestarts /\ restarts' = restarts + 1
    /\ Submit(From(checkpoint + 1), "in_processing")
    /\ UNCHANGED <<config, people, checkpoint, run, graph, done, batch, jobs,
                   expiries, repeats>>

\* restart_privacy_request_from_failure, bulk_restart_privacy_request_from_failure
Restart ==
    /\ prStatus = "error"
    /\ restarts < MaxRestarts /\ restarts' = restarts + 1
    /\ Submit(From(checkpoint), "in_processing")
    /\ UNCHANGED <<config, people, checkpoint, run, graph, done, batch, jobs,
                   expiries, repeats>>

\* resume_privacy_request, with the token of the pre-webhook.
ResumeFromWebhook ==
    /\ prStatus = "paused" /\ halted
    /\ Submit([from |-> FromStart, resumed |-> TRUE], "in_processing")
    /\ UNCHANGED <<config, people, checkpoint, run, graph, done, batch, jobs,
                   restarts, expiries, repeats>>

\* mark_paused_privacy_request_as_expired, scheduled when the webhook halted.
ExpirePaused ==
    /\ prStatus = "paused" /\ halted
    /\ prStatus' = "error"
    /\ UNCHANGED <<config, people, checkpoint, queue, run, graph, done, batch,
                   jobs, bounds>>

\* _handle_manual_webhook_input
GiveInputs ==
    /\ prStatus = "requires_input"
    /\ inputs' = TRUE
    /\ UNCHANGED <<config, prStatus, finalized, canceled, reviewed, halted,
                   checkpoint, queue, run, graph, done, batch, jobs, bounds>>

\* resume_privacy_request_from_requires_input
ResumeFromInputs ==
    /\ prStatus = "requires_input" /\ inputs
    /\ Submit(From(FromStart), "in_processing")
    /\ UNCHANGED <<config, people, checkpoint, run, graph, done, batch, jobs,
                   restarts, expiries, repeats>>

\* The reviewer's approval, outside this repository: its callback answers TRUE
\* from then on, and the request resumes where it waited.
ApproveReview ==
    /\ prStatus = "awaiting_access_review"
    /\ reviewed' = TRUE
    /\ Submit(From(UploadAccess), "in_processing")
    /\ UNCHANGED <<config, finalized, canceled, inputs, halted, checkpoint, run,
                   graph, done, batch, jobs, restarts, expiries, repeats>>

\* finalize_privacy_request, finalize_privacy_requests
Finalize ==
    /\ prStatus = "requires_manual_finalization"
    /\ finalized' = TRUE
    /\ Submit(From(Finalization), prStatus)
    /\ UNCHANGED <<config, canceled, inputs, reviewed, halted, checkpoint, run,
                   graph, done, batch, jobs, restarts, expiries, repeats>>

\* cancel_privacy_requests and cancel_processing.  The revoked message is the
\* one whose id is cached; others may stay in the queue.
Cancel ==
    /\ prStatus \notin Terminal
    /\ ~canceled
    /\ canceled' = TRUE
    /\ prStatus' = "canceled"
    /\ \E dropped \in Revocable : queue' = queue \ dropped
    /\ UNCHANGED <<config, finalized, inputs, reviewed, halted, checkpoint, run,
                   graph, done, batch, jobs, bounds>>

----------------------------------------------------------------------------
(* send_email_batch.  It runs if any request waits, this one or another.   *)

\* The e-mails are sent for the requests that wait at this moment.
BatchSend ==
    /\ batch = "idle"
    /\ batch' = "sent"
    /\ done' = IF prStatus = "awaiting_email_send" THEN done \cup {EmailPostSend}
                                                   ELSE done
    /\ UNCHANGED <<config, prStatus, people, checkpoint, queue, run, graph,
                   jobs, bounds>>

\* requeue_privacy_requests_after_email_send: the query is evaluated again.
BatchList ==
    /\ batch = "sent"
    /\ prStatus = "awaiting_email_send"
    /\ batch' = "listed"
    /\ UNCHANGED <<config, prStatus, people, checkpoint, queue, run, graph,
                   done, jobs, bounds>>

\* Every request the query gave is paused, whatever has become of it.
BatchPause ==
    /\ batch = "listed"
    /\ prStatus' = "paused"
    /\ batch' = "pausing"
    /\ UNCHANGED <<config, people, checkpoint, queue, run, graph, done, jobs,
                   bounds>>

BatchQueue ==
    /\ batch = "pausing"
    /\ Submit(From(PostWebhooks), prStatus)
    /\ batch' = "idle"
    /\ UNCHANGED <<config, people, checkpoint, run, graph, done, jobs, restarts,
                   expiries, repeats>>

\* An e-mail failed, or this request does not wait.
BatchEnds ==
    /\ batch = "sent"
    /\ batch' = "idle"
    /\ UNCHANGED <<config, prStatus, people, checkpoint, queue, run, graph,
                   done, jobs, bounds>>

\* The worker of the batch is killed.
BatchDies ==
    /\ batch \in {"listed", "pausing"}
    /\ Faulted
    /\ batch' = "idle"
    /\ UNCHANGED <<config, prStatus, people, checkpoint, queue, run, graph,
                   done, jobs>>

----------------------------------------------------------------------------

GraphNext ==
    \/ \E a \in Graphs :
           GraphEnds(a) \/ GraphDone(a) \/ GraphDies(a) \/ GraphFails(a)
    \/ PollLists \/ PollLooks \/ PollErrors \/ Requeue
    \/ WatchdogLists \/ WatchdogPasses \/ WatchdogRequeues \/ GiveUp \/ Expire

PeopleNext ==
    \/ Restart \/ ResumeFromWebhook \/ ExpirePaused
    \/ GiveInputs \/ ResumeFromInputs \/ ApproveReview \/ Finalize \/ Cancel

BatchNext ==
    \/ BatchSend \/ BatchList \/ BatchPause \/ BatchQueue
    \/ BatchEnds \/ BatchDies

Next == (\E w \in Workers : WorkerNext(w)) \/ GraphNext \/ PeopleNext \/ BatchNext

Spec == Init /\ [][Next]_vars

----------------------------------------------------------------------------
(* Properties.                                                             *)

\* The checkpoints whose work the policy asks for.  The e-mail is left out:
\* the batch may queue a request it has sent no e-mail for.
Needed == {s \in {PreWebhooks, Access, UploadAccess, Erasure, Consent,
                  PostWebhooks} : Applies(s)}

\* The checkpoints at which the request may go on: all work before is finished.
Resumable == {p \in 0..11 : \A s \in Needed : s < p => s \in done}

\* Wherever the request may be taken up again (the checkpoint cached "so it can
\* be resumed from this point in case of failure", a message that is queued),
\* no work that its policy asks for lies before that point unfinished.  It
\* relates the checkpoint in Redis and the messages of the broker to what the
\* graphs, the webhooks and the storage have really done.
ResumeMissesNothing ==
    /\ checkpoint \in Resumable
    /\ \A m \in queue : m.from \in Resumable

\* Nothing is erased before the access graph, which tells the erasure graph what
\* to erase, is complete: whatever is lost, repeated, restarted or expired.
ErasesAfterAccess == graph["erasure"] # "absent" => Access \in done

\* Nothing is erased before the access package of a policy with both kinds of
\* rules is with the storage: erased data cannot be collected again.
ErasesAfterUpload ==
    graph["erasure"] # "absent" /\ HasRules({"access"}) => UploadAccess \in done

\* A complete request has done all its policy asks for, and somebody has
\* finalized it if erasures are finalized by hand.
CompletesAfterAll ==
    prStatus = "complete" => Needed \subseteq done /\ (MustFinalize => finalized)

\* Nobody holds the request: neither a worker, in a checkpoint or a terminator,
\* nor the e-mail batch, nor a scheduled job whose query has given it.
Unheld ==
    /\ \A w \in Workers : run[w].at = Idle
    /\ closing = {}
    /\ batch \notin {"listed", "pausing"}
    /\ poller = "idle" /\ watchdog = "idle"

\* A canceled request that nobody holds is over: nothing takes hold of it again,
\* neither the scheduled jobs nor a late message or terminator, and it stays
\* canceled.  Whoever held it when it was canceled may still overwrite that.
CanceledStays ==
    [][prStatus = "canceled" /\ Unheld => prStatus' = "canceled" /\ Unheld']_vars
==============================================================================
