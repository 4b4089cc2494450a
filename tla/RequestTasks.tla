----------------------------- MODULE RequestTasks -----------------------------
(***************************************************************************)
(* Execution of one graph of RequestTasks (DSR 3.0).  Celery workers take  *)
(* messages from the fides.dsr queue; a message names a RequestTask        *)
(* (run_access_node, run_erasure_node, run_consent_node) or the privacy    *)
(* request itself (run_privacy_request).  Every status change of a task is *)
(* a commit of its own and every step between two commits or two reads is  *)
(* an action of its own, so that workers interleave where the code lets    *)
(* them.  Celery acknowledges a message when a worker takes it, so a       *)
(* worker that dies loses it; a watchdog (requeue_interrupted_tasks) and a *)
(* poller (poll_for_exited_privacy_request_tasks) run beside the workers.  *)
(***************************************************************************)
EXTENDS Naturals, TaskGraph

CONSTANTS
    Workers,        \* Celery worker processes
    Failing,        \* collections whose connector may raise
    ReadOnly,       \* collections whose connection has no write access
                    \* (erasure and consent only: access never asks)
    Callbacks,      \* collections whose result comes by a callback
    Polled,         \* collections whose result is polled for
    Precreated,     \* TRUE if the task rows exist when the step starts (erasure)
    ErasureAhead,   \* TRUE if this is the access graph of a request that also
                    \* has erasure rules
    RetryCount,     \* CONFIG.execution.task_retry_count
    MaxRequeues,    \* CONFIG.execution.privacy_request_requeue_retry_count
    MaxPolls,       \* bound: messages the poller keeps queued for a task
    MaxFaults,      \* bound: worker deaths and failed apply_async calls
    MaxRestarts     \* bound: restarts of the privacy request by a user

ASSUME ConstantsAssumption ==
    /\ Failing \subseteq Collections
    /\ ReadOnly \subseteq Collections
    /\ Callbacks \subseteq Collections
    /\ Polled \subseteq Collections
    /\ Callbacks \cap Polled = {}
    /\ Precreated \in BOOLEAN
    /\ ErasureAhead \in BOOLEAN
    /\ Precreated => ~ErasureAhead
    /\ {RetryCount, MaxRequeues, MaxPolls, MaxFaults, MaxRestarts} \subseteq Nat

VARIABLES
    status,      \* RequestTask.status in Postgres; "absent": no row yet
    queued,      \* queued[t]: messages for t in the Redis queue
    cached,      \* where the message is whose id is cached for t (latest id)
    job,         \* what each worker is doing
    ext,         \* what an asynchronous collection's external system has been told
    prStatus,    \* PrivacyRequest.status
    prQueued,    \* messages in the queue that run this step of the request
    prCached,    \* where the message is whose id is cached for the request
    nextQueued,  \* messages in the queue that run the next step of the request
    checkpoint,  \* cached failed checkpoint: this step ("here") or a later one
    proceeded,   \* how often the terminator has queued the next step
    continued,   \* history: the next step has run
    requeues,    \* the request's requeue retry count
    scans,       \* what the scheduled jobs have read and still act upon
    faults,      \* worker deaths and failed apply_async calls so far
    restarts,    \* restarts by a user so far
    everDone     \* history: tasks that were committed complete or skipped

taskVars    == <<status, everDone, ext>>
brokerVars  == <<queued, cached>>
requestVars == <<prStatus, prQueued, prCached, nextQueued, checkpoint,
                 proceeded, continued>>
boundVars   == <<requeues, faults, restarts>>
vars == <<taskVars, brokerVars, job, requestVars, scans, boundVars>>

----------------------------------------------------------------------------

Completed == {"complete", "skipped"}            \* COMPLETED_EXECUTION_LOG_STATUSES
Exited    == Completed \cup {"error"}           \* EXITED_EXECUTION_LOG_STATUSES
Resumable == {"pending", "polling"}             \* ExecutionLogStatus.resumable_statuses
Started   == {"in_processing", "retrying", "paused", "polling"}
Status    == Exited \cup Resumable \cup Started \cup {"absent"}

\* "none": never queued; "queued": in Redis; "running": a worker holds it;
\* "gone": the worker that held it finished or died, or it was revoked.
Place == {"none", "queued", "running", "gone"}

TaskPCs ==
    {"check", "start", "body", "await", "mark", "abort",
     "downstream", "queueing", "proceed", "terminate", "end"}
RequestPCs == {"run", "create", "reset", "enqueue", "exit"}
BodyPCs    == {"start", "body", "await", "mark", "abort"}

Job == [pc      : TaskPCs \cup RequestPCs \cup {"idle"},
        task    : Tasks,         \* the task the message names
        attempt : 0..RetryCount, \* attempts of the body so far
        latest  : BOOLEAN,       \* the message is the one whose id is cached
        todo    : SUBSET Tasks,  \* rows a loop has still to look at
        ready   : SUBSET Tasks,  \* tasks the main runner has still to queue
        view    : [Tasks -> Status \cup {"expired"}]]  \* rows its session holds

\* Of the watchdog: a pass is under way, and which of the cached ids it saw in
\* the queue.  Of the poller: it found all tasks exited and one in error.
Scans == [watching : BOOLEAN, seen : SUBSET Tasks, seenRequest : BOOLEAN,
          errored : BOOLEAN]

Idle == [pc |-> "idle", task |-> Root, attempt |-> 0, latest |-> FALSE,
         todo |-> {}, ready |-> {},
         view |-> [t \in Tasks |-> "expired"]]

TypeOK ==
    /\ status \in [Tasks -> Status]
    /\ queued \in [Tasks -> Nat]
    /\ cached \in [Tasks -> Place]
    /\ job \in [Workers -> Job]
    /\ ext \in [Collections -> {"unsent", "due", "answered", "lost"}]
    /\ prStatus \in {"in_processing", "complete", "error", "canceled"}
    /\ prQueued \in Nat
    /\ prCached \in Place \cup {"next"}
    /\ nextQueued \in Nat
    /\ checkpoint \in {"here", "next"}
    /\ proceeded \in Nat
    /\ continued \in BOOLEAN
    /\ requeues \in 0..MaxRequeues
    /\ scans \in Scans
    /\ faults \in 0..MaxFaults
    /\ restarts \in 0..MaxRestarts
    /\ everDone \subseteq Tasks

----------------------------------------------------------------------------
(* Reads *)

Persisted == {t \in Tasks : status[t] # "absent"}

\* Slips the runs must notice: one upstream task is enough, or its having
\* started.
AnyUpstreamComplete(t) == Upstream[t] = {} \/ \E u \in Upstream[t] : status[u] \in Completed

UpstreamStarted(t) == \A u \in Upstream[t] : status[u] \notin {"absent", "pending"}

\* The count comparison in upstream_tasks_complete makes a missing row count
\* as incomplete.
UpstreamComplete(t) == \A u \in Upstream[t] : status[u] \in Completed

\* The cached celery id answers to query_task only while a worker holds it.
RequestTaskRunning(t) == cached[t] = "running"

CanQueueRequestTask(t) == UpstreamComplete(t) /\ ~RequestTaskRunning(t)

PendingDownstream(t) == {d \in Downstream[t] : status[d] = "pending"}

\* Of the watchdog: a task with an asynchronous strategy has not ended.  It says
\* nothing of whether an answer can still come.
HasAsyncTasks == \E c \in Collections : ext[c] # "unsent" /\ status[c] \notin Exited

----------------------------------------------------------------------------
(* Messages.  Queueing a message replaces the cached id, so an older       *)
(* message of the same task is no longer the latest one, and the new id is *)
(* in no snapshot of the queue taken before.                               *)

Superseded(j, pcs, t) ==
    [w \in Workers |->
        IF j[w].pc \in pcs /\ (j[w].task = t \/ pcs = RequestPCs)
          THEN [j[w] EXCEPT !.latest = FALSE]
          ELSE j[w]]

QueueRequestTask(t, j) ==
    /\ queued' = [queued EXCEPT ![t] = @ + 1]
    /\ cached' = [cached EXCEPT ![t] = "queued"]
    /\ job' = Superseded(j, TaskPCs, t)
    /\ scans' = [scans EXCEPT !.seen = @ \ {t}]

QueueThisStep(j) ==
    /\ prQueued' = prQueued + 1
    /\ prCached' = "queued"
    /\ job' = Superseded(j, RequestPCs, Root)

WithCachedId == {t \in Tasks : cached[t] # "none"}

\* The tasks whose cached id is the id of a message in the queue.
InQueue == {t \in Tasks : cached[t] = "queued"}

\* cancel_celery_tasks: revoke the cached ids; terminate=False leaves alone
\* what a worker already runs.
Revoke ==
    /\ queued' = [t \in Tasks |-> IF t \in InQueue THEN queued[t] - 1 ELSE queued[t]]
    /\ cached' = [t \in Tasks |-> IF t \in InQueue THEN "gone" ELSE cached[t]]
    /\ prQueued' = IF prCached = "queued" THEN prQueued - 1 ELSE prQueued
    /\ nextQueued' = IF prCached = "next" THEN nextQueued - 1 ELSE nextQueued
    /\ prCached' = IF prCached \in {"queued", "next"} THEN "gone" ELSE prCached

----------------------------------------------------------------------------

Init ==
    /\ status = [t \in Tasks |->
                    IF ~Precreated THEN "absent"
                    ELSE IF t = Root THEN "complete" ELSE "pending"]
    /\ everDone = IF Precreated THEN {Root} ELSE {}
    /\ ext = [c \in Collections |-> "unsent"]
    /\ queued = [t \in Tasks |-> 0]
    /\ cached = [t \in Tasks |-> "none"]
    /\ job = [w \in Workers |-> Idle]
    /\ prStatus = "in_processing"
    /\ prQueued = 1
    /\ prCached = "queued"
    /\ nextQueued = 0
    /\ checkpoint = "here"
    /\ proceeded = 0
    /\ continued = FALSE
    /\ requeues = 0
    /\ scans = [watching |-> FALSE, seen |-> {}, seenRequest |-> FALSE, errored |-> FALSE]
    /\ faults = 0
    /\ restarts = 0

Goto(w, pc) == job' = [job EXCEPT ![w].pc = pc]

----------------------------------------------------------------------------
(* A worker runs a task: run_access_node, run_erasure_node, run_consent_node *)

\* The worker takes any message of the queue; the message is the one whose id
\* is cached, or an older one of the same task.
ReceiveTask(w, t) ==
    /\ job[w].pc = "idle"
    /\ queued[t] > 0
    /\ queued' = [queued EXCEPT ![t] = @ - 1]
    /\ \E latest \in BOOLEAN :
        /\ latest => cached[t] = "queued"
        /\ cached[t] = "queued" /\ queued[t] = 1 => latest
        /\ cached' = IF latest THEN [cached EXCEPT ![t] = "running"] ELSE cached
        /\ job' = [job EXCEPT ![w] =
                    [Idle EXCEPT !.pc = "check", !.task = t, !.latest = latest]]
    /\ UNCHANGED <<taskVars, requestVars, scans, boundVars>>

\* can_run_task_body
CanRunTaskBody(t) == t \in Collections /\ status[t] \in Resumable

\* run_prerequisite_task_checks raises: the request is canceled, or the task
\* is pending and an upstream task is not complete.
PrerequisitesFail(t) ==
    \/ prStatus = "canceled"
    \/ status[t] = "pending" /\ ~UpstreamComplete(t)

CheckPrerequisites(w) ==
    /\ job[w].pc = "check"
    /\ LET t == job[w].task IN
        Goto(w, IF PrerequisitesFail(t) THEN "end"
                ELSE IF CanRunTaskBody(t) THEN "start" ELSE "downstream")
    /\ UNCHANGED <<taskVars, brokerVars, requestVars, scans, boundVars>>

MarkAloneFailed(t) == status' = [status EXCEPT ![t] = "error"]

MarkNextFailed(t) ==
    status' = [s \in Tasks |->
                IF s = t \/ (s \in Downstream[t] /\ status[s] = "pending")
                  THEN "error" ELSE status[s]]

\* mark_current_and_downstream_nodes_as_failed, one commit.
MarkFailed(t) ==
    status' = [s \in Tasks |->
                IF s = t \/ (s \in Descendants[t] /\ status[s] = "pending")
                  THEN "error" ELSE status[s]]

\* create_graph_task cannot hydrate the task: it raises ResumeTaskException
\* and the worker never gets to queue_downstream_tasks.
HydrationFails(w) ==
    /\ job[w].pc = "start" /\ job[w].attempt = 0
    /\ job[w].task \in Failing
    /\ MarkFailed(job[w].task)
    /\ Goto(w, "end")
    /\ UNCHANGED <<everDone, ext, brokerVars, requestVars, scans, boundVars>>

\* log_start, or log_retry from the second attempt on.
LogStart(w) ==
    /\ job[w].pc = "start"
    /\ status' = [status EXCEPT ![job[w].task] =
                    IF job[w].attempt = 0 THEN "in_processing" ELSE "retrying"]
    /\ Goto(w, "body")
    /\ UNCHANGED <<everDone, ext, brokerVars, requestVars, scans, boundVars>>

\* The commit that makes a task count as complete downstream.
CommitDone(t, s) ==
    /\ status' = [status EXCEPT ![t] = s]
    /\ everDone' = everDone \cup {t}

\* skip_if_disabled, skip_if_action_disabled: log_skipped before log_start.
SkipDisabled(w) ==
    /\ job[w].pc = "start"
    /\ CommitDone(job[w].task, "skipped")
    /\ Goto(w, "downstream")
    /\ UNCHANGED <<ext, brokerVars, requestVars, scans, boundVars>>

\* The connector returns and log_end commits complete, or it reports that the
\* collection is to be skipped.
FinishBody(w) ==
    /\ job[w].pc = "body"
    /\ job[w].task \notin ReadOnly
    /\ job[w].task \in Callbacks => ext[job[w].task] = "answered"
    /\ \E s \in Completed : CommitDone(job[w].task, s)
    /\ Goto(w, "downstream")
    /\ UNCHANGED <<ext, brokerVars, requestVars, scans, boundVars>>

\* erasure_request and consent_request without write access: the task alone
\* is set to error and the function returns, so log_end is never reached.
NoWriteAccess(w) ==
    /\ job[w].pc = "body"
    /\ job[w].task \in ReadOnly
    /\ status' = [status EXCEPT ![job[w].task] = "error"]
    /\ Goto(w, "downstream")
    /\ UNCHANGED <<everDone, ext, brokerVars, requestVars, scans, boundVars>>

RetryBody(w) ==
    /\ job[w].pc = "body"
    /\ job[w].task \in Failing
    /\ job[w].attempt < RetryCount
    /\ job' = [job EXCEPT ![w].pc = "start", ![w].attempt = @ + 1]
    /\ UNCHANGED <<taskVars, brokerVars, requestVars, scans, boundVars>>

\* log_end with an exception, first commit: the task's own status.  The
\* attempts are used up ("mark"), or the memory watchdog aborts ("abort").
FailBody(w) ==
    /\ job[w].pc = "body"
    /\ job[w].task \in Failing
    /\ status' = [status EXCEPT ![job[w].task] = "error"]
    /\ \/ job[w].attempt = RetryCount /\ Goto(w, "mark")
       \/ Goto(w, "abort")
    /\ UNCHANGED <<everDone, ext, brokerVars, requestVars, scans, boundVars>>

\* log_end with an exception, second commit, in a session of its own.  After
\* "mark" the failed checkpoint is cached and the decorated function returns
\* its default, so queue_downstream_tasks still runs; "abort" raises.
MarkDownstreamFailed(w) ==
    /\ job[w].pc \in {"mark", "abort"}
    /\ MarkFailed(job[w].task)
    /\ IF job[w].pc = "mark"
         THEN Goto(w, "downstream") /\ checkpoint' = "here"
         ELSE Goto(w, "end") /\ UNCHANGED checkpoint
    /\ UNCHANGED <<everDone, ext, brokerVars, prStatus, prQueued, prCached,
                   nextQueued, proceeded, continued, scans, boundVars>>

\* The async strategies tell the external system first ...
SendAsync(w) ==
    LET t == job[w].task IN
    /\ job[w].pc = "body"
    /\ t \in Callbacks \cup Polled
    /\ ext[t] # "answered"
    /\ ext' = [ext EXCEPT ![t] = "due"]
    /\ Goto(w, "await")
    /\ UNCHANGED <<status, everDone, brokerVars, requestVars, scans, boundVars>>

\* ... and raise AwaitingAsyncTask or AwaitingAsyncProcessing after.
ParkTask(w) ==
    LET t == job[w].task IN
    /\ job[w].pc = "await"
    /\ status' = [status EXCEPT ![t] = IF t \in Callbacks THEN "paused" ELSE "polling"]
    /\ Goto(w, "downstream")
    /\ UNCHANGED <<everDone, ext, brokerVars, requestVars, scans, boundVars>>

\* queue_downstream_tasks_with_retries: a new session reads the request and
\* the task again, and the pending downstream tasks.  The terminator's branch
\* is taken if it was not complete at that read.
BeginDownstream(w) ==
    LET t == job[w].task IN
    /\ job[w].pc = "downstream"
    /\ \/ prStatus = "canceled" /\ Goto(w, "end")
       \/ /\ prStatus # "canceled" /\ t # Terminator
          /\ job' = [job EXCEPT ![w].pc = "queueing", ![w].todo = PendingDownstream(t)]
       \/ /\ prStatus # "canceled" /\ t = Terminator
          /\ IF status[t] = "complete" THEN Goto(w, "end") ELSE Goto(w, "proceed")
    /\ UNCHANGED <<taskVars, brokerVars, requestVars, scans, boundVars>>

QueueDownstream(w, d) ==
    /\ job[w].pc = "queueing"
    /\ d \in job[w].todo
    /\ LET looked == [job EXCEPT ![w].todo = @ \ {d}] IN
        \/ CanQueueRequestTask(d) /\ QueueRequestTask(d, looked)
        \/ ~CanQueueRequestTask(d) /\ job' = looked /\ UNCHANGED <<brokerVars, scans>>
    /\ UNCHANGED <<taskVars, requestVars, boundVars>>

EndDownstream(w) ==
    /\ job[w].pc = "queueing"
    /\ job[w].todo = {}
    /\ Goto(w, "end")
    /\ UNCHANGED <<taskVars, brokerVars, requestVars, scans, boundVars>>

\* The terminator queues the request from the next step.  If apply_async
\* fails the request is set to error, and the terminator goes on all the same.
Proceed(w) ==
    /\ job[w].pc = "proceed"
    /\ proceeded' = proceeded + 1
    /\ nextQueued' = nextQueued + 1
    /\ prCached' = "next"
    /\ scans' = [scans EXCEPT !.seenRequest = FALSE]
    /\ job' = Superseded([job EXCEPT ![w].pc = "terminate"], RequestPCs, Root)
    /\ UNCHANGED <<taskVars, brokerVars, prStatus, prQueued, checkpoint, continued, boundVars>>

ProceedFails(w) ==
    /\ job[w].pc = "proceed"
    /\ faults < MaxFaults
    /\ faults' = faults + 1
    /\ prStatus' = "error"
    /\ Goto(w, "terminate")
    /\ UNCHANGED <<taskVars, brokerVars, prQueued, prCached, nextQueued, checkpoint,
                   proceeded, continued, scans, requeues, restarts>>

CompleteTerminator(w) ==
    /\ job[w].pc = "terminate"
    /\ CommitDone(job[w].task, "complete")
    /\ Goto(w, "end")
    /\ UNCHANGED <<ext, brokerVars, requestVars, scans, boundVars>>

\* The function has returned or raised; until the worker says so the message
\* still counts as in flight.
Forget(w) ==
    /\ job' = [job EXCEPT ![w] = Idle]
    /\ cached' = IF job[w].pc \in TaskPCs /\ job[w].latest
                   THEN [cached EXCEPT ![job[w].task] = "gone"] ELSE cached
    /\ prCached' = IF job[w].pc \in RequestPCs /\ job[w].latest THEN "gone" ELSE prCached
    /\ UNCHANGED <<taskVars, queued, prStatus, prQueued, nextQueued, checkpoint,
                   proceeded, continued, scans>>

EndJob(w) ==
    /\ job[w].pc \in {"end", "exit"}
    /\ Forget(w)
    /\ UNCHANGED boundVars

WorkerDies(w) ==
    /\ job[w].pc # "idle"
    /\ faults < MaxFaults
    /\ faults' = faults + 1
    /\ Forget(w)
    /\ UNCHANGED <<requeues, restarts>>

----------------------------------------------------------------------------
(* A worker runs the request from this step: run_privacy_request, then      *)
(* run_access_request, run_erasure_request or run_consent_request           *)

ReceiveRequest(w) ==
    /\ job[w].pc = "idle"
    /\ prQueued > 0
    /\ prQueued' = prQueued - 1
    /\ \E latest \in BOOLEAN :
        /\ latest => prCached = "queued"
        /\ prCached = "queued" /\ prQueued = 1 => latest
        /\ prCached' = IF latest THEN "running" ELSE prCached
        /\ job' = [job EXCEPT ![w] = [Idle EXCEPT !.pc = "run", !.latest = latest]]
    /\ UNCHANGED <<taskVars, brokerVars, prStatus, nextQueued, checkpoint, proceeded,
                   continued, scans, boundVars>>

\* A canceled request is left alone.  Otherwise the step's checkpoint is
\* cached; rows are created if there is none, and looked through if there are.
RunRequest(w) ==
    LET incomplete == {t \in Persisted : status[t] \notin Completed} IN
    /\ job[w].pc = "run"
    /\ IF prStatus = "canceled"
         THEN Goto(w, "exit") /\ UNCHANGED checkpoint
         ELSE /\ checkpoint' = "here"
              /\ IF Persisted = {}
                   THEN Goto(w, "create")
                   ELSE job' = [job EXCEPT
                        ![w].pc = "reset", ![w].todo = incomplete,
                        ![w].view = [t \in Tasks |->
                                        IF t \in incomplete THEN status[t] ELSE "expired"]]
    /\ UNCHANGED <<taskVars, brokerVars, prStatus, prQueued, prCached, nextQueued,
                   proceeded, continued, scans, boundVars>>

\* persist_new_access_request_tasks, persist_new_consent_request_tasks: rows
\* are committed one by one in a topological order, the root as complete.
CreateTask(w, t) ==
    /\ job[w].pc = "create"
    /\ t \notin Persisted /\ Upstream[t] \subseteq Persisted
    /\ IF t = Root THEN CommitDone(t, "complete")
       ELSE status' = [status EXCEPT ![t] = "pending"] /\ UNCHANGED everDone
    /\ UNCHANGED <<ext, brokerVars, job, requestVars, scans, boundVars>>

TasksCreated(w) ==
    /\ job[w].pc = "create"
    /\ Persisted = Tasks
    /\ job' = [job EXCEPT ![w].pc = "enqueue", ![w].ready = {Root}]
    /\ UNCHANGED <<taskVars, brokerVars, requestVars, scans, boundVars>>

\* get_existing_ready_tasks looks at the rows that were not completed when it
\* loaded them.  The session shows those rows as it loaded them until its
\* first commit expires them all.
Shown(w, t) == IF job[w].view[t] = "expired" THEN status[t] ELSE job[w].view[t]

ResetTask(w, t) ==
    LET ready  == (\A u \in Upstream[t] : Shown(w, u) \in Completed) /\ ~RequestTaskRunning(t)
        looked == [job EXCEPT ![w].todo = @ \ {t},
                              ![w].ready = IF ready THEN @ \cup {t} ELSE @] IN
    /\ job[w].pc = "reset"
    /\ t \in job[w].todo
    /\ \/ /\ ready \/ Shown(w, t) = "error"
          /\ status' = [status EXCEPT ![t] = "pending"]
          /\ job' = [looked EXCEPT ![w].view = Idle.view]
       \/ /\ ~ready /\ Shown(w, t) # "error"
          /\ job' = looked
          /\ UNCHANGED status
    /\ UNCHANGED <<everDone, ext, brokerVars, requestVars, scans, boundVars>>

TasksReset(w) ==
    /\ job[w].pc = "reset"
    /\ job[w].todo = {}
    /\ Goto(w, "enqueue")
    /\ UNCHANGED <<taskVars, brokerVars, requestVars, scans, boundVars>>

EnqueueReady(w, t) ==
    /\ job[w].pc = "enqueue"
    /\ t \in job[w].ready
    /\ QueueRequestTask(t, [job EXCEPT ![w].ready = @ \ {t}])
    /\ UNCHANGED <<taskVars, requestVars, boundVars>>

\* PrivacyRequestExit: the tasks carry on without the request's own message.
ExitAwaitingTasks(w) ==
    /\ job[w].pc = "enqueue"
    /\ job[w].ready = {}
    /\ Goto(w, "exit")
    /\ UNCHANGED <<taskVars, brokerVars, requestVars, scans, boundVars>>

\* Any exception on the way is caught and sets the request to error.
RunRaises(w) ==
    /\ job[w].pc \in {"create", "reset", "enqueue"}
    /\ faults < MaxFaults
    /\ faults' = faults + 1
    /\ prStatus' = "error"
    /\ Goto(w, "exit")
    /\ UNCHANGED <<taskVars, brokerVars, prQueued, prCached, nextQueued, checkpoint,
                   proceeded, continued, scans, requeues, restarts>>

----------------------------------------------------------------------------
(* The rest of the request, as far as this step sees it.  The next step     *)
(* caches its own checkpoint and leaves the request in processing, complete *)
(* or in error; a canceled request stays canceled.                          *)

TakeContinuation ==
    /\ nextQueued > 0
    /\ nextQueued' = nextQueued - 1
    /\ \/ prCached = "next" /\ prCached' = "gone"
       \/ (prCached = "next" => nextQueued > 1) /\ UNCHANGED prCached

NextStepRuns ==
    /\ TakeContinuation
    /\ \/ prStatus = "canceled" /\ UNCHANGED <<prStatus, checkpoint, continued>>
       \/ /\ prStatus # "canceled"
          /\ checkpoint' = "next"
          /\ continued' = TRUE
          /\ prStatus' \in {prStatus, "complete", "error"}
    /\ UNCHANGED <<taskVars, brokerVars, job, prQueued, proceeded, scans, boundVars>>

\* The worker that took the message dies before the next checkpoint.
NextStepLost ==
    /\ TakeContinuation
    /\ faults < MaxFaults
    /\ faults' = faults + 1
    /\ UNCHANGED <<taskVars, brokerVars, job, prStatus, prQueued, checkpoint, proceeded,
                   continued, scans, requeues, restarts>>

----------------------------------------------------------------------------
(* External systems, schedules and users *)

AcceptsWhenAsked(t) == prStatus = "in_processing" /\ status[t] \notin Exited

AcceptsCallback(t) == prStatus = "in_processing" /\ status[t] = "paused"

\* request_task_async_callback: refused unless the task is paused.
Callback(t) ==
    /\ ext[t] = "due"
    /\ t \in Callbacks
    /\ IF AcceptsCallback(t)
         THEN /\ ext' = [ext EXCEPT ![t] = "answered"]
              /\ status' = [status EXCEPT ![t] = "pending"]
              /\ QueueRequestTask(t, job)
         ELSE /\ ext' = [ext EXCEPT ![t] = "lost"]
              /\ UNCHANGED <<status, brokerVars, job, scans>>
    /\ UNCHANGED <<everDone, requestVars, boundVars>>

\* requeue_polling_tasks asks nothing but the task's status.
RequeuePolling(t) ==
    /\ t \in Polled
    /\ status[t] = "polling"
    /\ queued[t] < MaxPolls
    /\ QueueRequestTask(t, job)
    /\ UNCHANGED <<taskVars, requestVars, boundVars>>

HasErroredTask == \E t \in Persisted : status[t] = "error"

\* poll_for_exited_privacy_request_tasks
HasErroredTasks ==
    /\ \A t \in Persisted : status[t] \in Exited
    /\ \E t \in Persisted : status[t] = "error"

PollExited ==
    /\ prStatus = "in_processing" /\ ~scans.errored
    /\ HasErroredTasks
    /\ scans' = [scans EXCEPT !.errored = TRUE]
    /\ UNCHANGED <<taskVars, brokerVars, job, requestVars, boundVars>>

\* error_processing, whatever became of the request in the meantime.
ErrorExited ==
    /\ scans.errored
    /\ scans' = [scans EXCEPT !.errored = FALSE]
    /\ prStatus' = "error"
    /\ UNCHANGED <<taskVars, brokerVars, job, prQueued, prCached, nextQueued, checkpoint,
                   proceeded, continued, boundVars>>

\* requeue_interrupted_tasks reads the ids in the queue first ...
WatchdogScan ==
    /\ prStatus = "in_processing"
    /\ ~scans.watching
    /\ scans' = [scans EXCEPT !.watching = TRUE, !.seen = InQueue,
                               !.seenRequest = prCached \in {"queued", "next"}]
    /\ UNCHANGED <<taskVars, brokerVars, job, requestVars, boundVars>>

\* ... and asks later, of every id it did not see, whether a worker holds it.
MainTaskActive == scans.seenRequest \/ prCached = "running"

InProgress == {t \in Tasks : status[t] \in {"in_processing", "pending", "paused"}}

\* Tasks with no cached id that do not wait for an upstream task.
NeverDispatched ==
    {t \in InProgress : cached[t] = "none" /\ ~(status[t] = "pending" /\ ~UpstreamComplete(t))}

\* Tasks with an id that is neither in the snapshot nor in flight.
Interrupted ==
    {t \in InProgress :
        /\ cached[t] \notin {"none", "running"}
        /\ t \notin scans.seen
        /\ status[t] # "paused"}

\* The erasure rows are created with the access rows, their root as complete:
\* the first of them look as if they had never been dispatched.
ErasureRowsWait == ErasureAhead /\ Persisted = Tasks

\* The first task the loop finds decides, and the loop has no order.
MayRequeue ==
    \/ Persisted = {}
    \/ Interrupted # {}
    \/ (NeverDispatched # {} \/ ErasureRowsWait) /\ ~HasAsyncTasks

MayLeave ==
    \/ Persisted # {} /\ NeverDispatched = {} /\ Interrupted = {} /\ ~ErasureRowsWait
    \/ HasAsyncTasks /\ (NeverDispatched # {} \/ ErasureRowsWait)

EndScan(s) == [s EXCEPT !.watching = FALSE, !.seen = {}, !.seenRequest = FALSE]

\* The watchdog does not read the status of the request again.  With a later
\* checkpoint the requeue concerns a later step.
WatchdogChecks == scans.watching /\ checkpoint = "here"

WatchdogLeaves ==
    /\ scans.watching
    /\ WatchdogChecks => MainTaskActive \/ MayLeave
    /\ scans' = EndScan(scans)
    /\ UNCHANGED <<taskVars, brokerVars, job, requestVars, boundVars>>

\* _handle_privacy_request_requeue, _requeue_privacy_request
WatchdogRequeues ==
    /\ WatchdogChecks /\ ~MainTaskActive /\ MayRequeue
    /\ requeues < MaxRequeues
    /\ requeues' = requeues + 1
    /\ QueueThisStep(job)
    /\ scans' = EndScan(scans)
    /\ UNCHANGED <<taskVars, brokerVars, prStatus, nextQueued, checkpoint, proceeded,
                   continued, faults, restarts>>

\* _cancel_interrupted_tasks_and_error_privacy_request, when the retry count
\* is used up or the request cannot be queued again.
CancelInterrupted ==
    /\ WatchdogChecks /\ ~MainTaskActive /\ MayRequeue
    /\ prStatus' = "error"
    /\ Revoke
    /\ scans' = EndScan(scans)
    /\ UNCHANGED <<taskVars, job, checkpoint, proceeded, continued, restarts>>

WatchdogGivesUp ==
    /\ CancelInterrupted
    /\ requeues = MaxRequeues
    /\ requeues' = 0
    /\ UNCHANGED faults

WatchdogRequeueFails ==
    /\ CancelInterrupted
    /\ requeues < MaxRequeues /\ faults < MaxFaults
    /\ requeues' = requeues + 1
    /\ faults' = faults + 1

\* cancel_processing
Cancel ==
    /\ prStatus = "in_processing"
    /\ prStatus' = "canceled"
    /\ Revoke
    /\ UNCHANGED <<taskVars, job, checkpoint, proceeded, continued, scans, boundVars>>

\* restart_privacy_request_from_failure
Restart ==
    /\ prStatus = "error" /\ checkpoint = "here"
    /\ restarts < MaxRestarts
    /\ restarts' = restarts + 1
    /\ prStatus' = "in_processing"
    /\ QueueThisStep(job)
    /\ scans' = [scans EXCEPT !.seenRequest = FALSE]
    /\ UNCHANGED <<taskVars, brokerVars, nextQueued, checkpoint, proceeded, continued,
                   requeues, faults>>

----------------------------------------------------------------------------

TaskSteps(w) ==
    \/ \E t \in Tasks : ReceiveTask(w, t)
    \/ CheckPrerequisites(w)
    \/ HydrationFails(w)
    \/ LogStart(w)
    \/ SkipDisabled(w)
    \/ FinishBody(w)
    \/ NoWriteAccess(w)
    \/ RetryBody(w)
    \/ FailBody(w)
    \/ MarkDownstreamFailed(w)
    \/ SendAsync(w)
    \/ ParkTask(w)
    \/ BeginDownstream(w)
    \/ \E d \in Tasks : QueueDownstream(w, d)
    \/ EndDownstream(w)
    \/ Proceed(w)
    \/ CompleteTerminator(w)

RequestSteps(w) ==
    \/ ReceiveRequest(w)
    \/ RunRequest(w)
    \/ \E t \in Tasks : CreateTask(w, t)
    \/ TasksCreated(w)
    \/ \E t \in Tasks : ResetTask(w, t)
    \/ TasksReset(w)
    \/ \E t \in Tasks : EnqueueReady(w, t)
    \/ ExitAwaitingTasks(w)

Worker(w) == TaskSteps(w) \/ RequestSteps(w) \/ EndJob(w)

Faults == NextStepLost \/ \E w \in Workers : WorkerDies(w) \/ ProceedFails(w) \/ RunRaises(w)

Watchdog == WatchdogScan \/ WatchdogLeaves \/ WatchdogRequeues \/ WatchdogGivesUp

External == \E t \in Collections : Callback(t) \/ RequeuePolling(t)

Next ==
    \/ \E w \in Workers : Worker(w)
    \/ Faults
    \/ External
    \/ NextStepRuns
    \/ PollExited
    \/ ErrorExited
    \/ Watchdog
    \/ WatchdogRequeueFails
    \/ Cancel
    \/ Restart

Spec == Init /\ [][Next]_vars

(***************************************************************************)
(* Workers keep taking and running messages, and the schedulers keep       *)
(* calling the poller and the watchdog.  Nobody is obliged to fail, to     *)
(* cancel, to restart or to call back.                                     *)
(***************************************************************************)
FairSpec ==
    /\ Spec
    /\ \A w \in Workers : WF_vars(Worker(w))
    /\ WF_vars(NextStepRuns)
    /\ WF_vars(PollExited)
    /\ WF_vars(ErrorExited)
    /\ WF_vars(Watchdog)
    /\ \A t \in Collections : WF_vars(RequeuePolling(t))

----------------------------------------------------------------------------
(* Properties *)

\* A collection's body runs only once everything upstream of it was complete
\* or skipped, whatever was queued twice, reset or requeued.
RunsAfterUpstreams ==
    \A w \in Workers : job[w].pc \in BodyPCs => Upstream[job[w].task] \subseteq everDone

\* The next step of the request is queued only once every collection was
\* complete or skipped, including those not directly above the terminator.
ProceedsAfterAll == proceeded > 0 => Collections \subseteq everDone

\* A parked task whose answer can still come: it will be polled for, or its
\* callback is due ...
AnswerDue == \E t \in Collections :
    status[t] = "polling" \/ (status[t] = "paused" /\ ext[t] = "due")

\* ... and one whose answer came before it was parked: the endpoint refused it,
\* and unless the caller tries again there is nothing left to wait for.
AnswerRefused == \E t \in Collections : status[t] = "paused" /\ ext[t] = "lost"

\* A request in processing is not abandoned: while it waits for this step,
\* somebody still has work in hand for it, or the poller or the watchdog will
\* find it, or an external system is to answer.
Stalled ==
    /\ prStatus = "in_processing" /\ ~continued
    /\ \A w \in Workers : job[w].pc = "idle"
    /\ \A t \in Tasks : queued[t] = 0
    /\ prQueued = 0 /\ nextQueued = 0
    /\ ~AnswerDue
    /\ ~scans.watching /\ ~scans.errored
    /\ ~HasErroredTasks
    /\ ~MayRequeue

NeverStalled == ~Stalled

\* A collection fails only with a collection at or above it that can fail ...
MayFail == Failing \cup ReadOnly
CanBeFailed(t) == t \in MayFail \/ \E f \in MayFail : t \in Descendants[f]

\* ... and the poller waits for the others: when it gives the request up,
\* every collection on an independent path has been completed.
IndependentPathsFinish ==
    [][scans.errored /\ ~scans'.errored
       => \A t \in Tasks : CanBeFailed(t) \/ t \in everDone]_vars

\* A failed collection takes everything below it along: once both commits of
\* the failure are through, nothing downstream is left pending.
FailureReachesDescendants ==
    \A t \in Collections :
        /\ status[t] = "error"
        /\ \A w \in Workers : job[w].pc \notin {"mark", "abort", "reset"}
        => \A d \in Descendants[t] : status[d] # "pending"

\* A callback that was accepted takes effect: the task runs to its end.
AnsweredTasksFinish ==
    \A t \in Callbacks :
        ext[t] = "answered" ~> status[t] \in Exited \/ prStatus # "in_processing"

\* The step ends: the request leaves processing, or its next step runs, or an
\* external system has yet to answer, or its answer was refused as too early.
StepEnds ==
    prStatus = "in_processing" ~>
        prStatus # "in_processing" \/ continued \/ AnswerDue \/ AnswerRefused

\* The execution, seen through the history of completed tasks, does what
\* GraphStep promises.
Promise == INSTANCE GraphStep WITH done <- everDone, goesOn <- proceeded > 0

KeepsPromise == Promise!Spec
==============================================================================
