-------------------------- MODULE RequestTasks_proofs --------------------------
(***************************************************************************)
(* What is proved of RequestTasks, in this order:                          *)
(*   - its types (TInv);                                                   *)
(*   - that everything upstream of a task comes first, and that the        *)
(*     execution implements GraphStep (OInv);                              *)
(*   - that a failure takes everything below it along (StepInv, FailInv,   *)
(*     the step runs once);                                                *)
(*   - that failures come from above, and that the poller waits for the    *)
(*     independent paths (ErrorInv; FreshInv, PollInv, no worker dies);    *)
(*   - that the request is not abandoned (PlaceInv, BusyInv, ProceedInv,   *)
(*     SeenInv, the step runs once and no collection calls back).          *)
(* The only range that is not immediate is that of the message counters:   *)
(* cancel_celery_tasks takes the message whose id is cached out of the     *)
(* queue, so that message must be in it.  Counted says so.                 *)
(***************************************************************************)
EXTENDS RequestTasks, TLAPS

\* A cached id that is in the queue is the id of a message in the queue.
Counted ==
    /\ \A t \in Tasks : cached[t] = "queued" => queued[t] > 0
    /\ prCached = "queued" => prQueued > 0
    /\ prCached = "next" => nextQueued > 0

\* The inductive invariant.
TInv == TypeOK /\ Counted

\* An idle worker is typed.
LEMMA IdleType == Idle \in Job
BY ConstantsAssumption, GraphAssumption DEF Idle, Job, Tasks

\* Superseding a message keeps what the workers do typed.
LEMMA SupersededType ==
    ASSUME NEW j \in [Workers -> Job], NEW pcs, NEW t
    PROVE  Superseded(j, pcs, t) \in [Workers -> Job]
BY ZenonT(60) DEF Superseded, Job

\* So does moving a worker to another control point.
LEMMA GotoType ==
    ASSUME TypeOK, NEW w \in Workers, NEW pc \in TaskPCs \cup RequestPCs, Goto(w, pc)
    PROVE  job' \in [Workers -> Job]
<1>1. job \in [Workers -> Job]
  BY DEF TypeOK
<1> QED BY <1>1 DEF Goto, Job

\* queue_request_task keeps the broker, the workers and the watchdog typed.
LEMMA QueueType ==
    ASSUME TInv, NEW t \in Tasks, NEW j \in [Workers -> Job], QueueRequestTask(t, j)
    PROVE  /\ queued' \in [Tasks -> Nat] /\ cached' \in [Tasks -> Place]
           /\ job' \in [Workers -> Job]
           /\ scans' \in Scans
           /\ \A u \in Tasks : cached'[u] = "queued" => queued'[u] > 0
BY SupersededType DEF Scans, QueueRequestTask, TInv, TypeOK, Counted, Place

\* mark_current_and_downstream_nodes_as_failed writes statuses.
LEMMA MarkFailedType ==
    ASSUME TypeOK, NEW t, MarkFailed(t)
    PROVE  status' \in [Tasks -> Status]
BY DEF TypeOK, MarkFailed, Status, Exited

\* So does the commit of a completed or skipped task.
LEMMA CommitDoneType ==
    ASSUME TypeOK, NEW t \in Tasks, NEW s \in Completed, CommitDone(t, s)
    PROVE  status' \in [Tasks -> Status] /\ everDone' \subseteq Tasks
BY DEF TypeOK, CommitDone, Status, Exited

\* Every step of a worker that runs a task keeps TInv.
LEMMA TaskStepsType ==
    ASSUME TInv, NEW w \in Workers, TaskSteps(w)
    PROVE  TInv'
<1> USE DEF TInv
<1> USE DEF taskVars, brokerVars, requestVars, boundVars
<1>0. job[w].task \in Tasks BY DEF TypeOK, Job
<1>j. job \in [Workers -> Job] BY DEF TypeOK
<1>1. ASSUME NEW t \in Tasks, ReceiveTask(w, t) PROVE TInv'
  <2>1. job' \in [Workers -> Job]
    <3>1. PICK latest \in BOOLEAN :
            job' = [job EXCEPT ![w] =
                     [Idle EXCEPT !.pc = "check", !.task = t, !.latest = latest]]
      BY <1>1 DEF ReceiveTask
    <3>2. [Idle EXCEPT !.pc = "check", !.task = t, !.latest = latest] \in Job
      BY IdleType DEF Job, TaskPCs
    <3> QED BY <3>1, <3>2 DEF TypeOK
  <2>2. queued' \in [Tasks -> Nat] /\ cached' \in [Tasks -> Place]
    BY <1>1 DEF ReceiveTask, TypeOK, Place
  <2>3. Counted'
    BY <1>1 DEF ReceiveTask, TypeOK, Counted
  <2> QED BY <1>1, <2>1, <2>2, <2>3 DEF ReceiveTask, TypeOK
<1>2. CASE CheckPrerequisites(w)
  BY <1>2, GotoType DEF CheckPrerequisites, TypeOK, Counted, TaskPCs
<1>3. CASE HydrationFails(w)
  BY <1>3, GotoType, MarkFailedType DEF HydrationFails, TypeOK, Counted, TaskPCs
<1>4. CASE LogStart(w)
  BY <1>4, GotoType DEF LogStart, TypeOK, Counted, TaskPCs, Status, Started
<1>5. CASE SkipDisabled(w)
  BY <1>0, <1>5, GotoType, CommitDoneType DEF SkipDisabled, TypeOK, Counted, TaskPCs, Completed
<1>6. CASE FinishBody(w)
  BY <1>0, <1>6, GotoType, CommitDoneType DEF FinishBody, TypeOK, Counted, TaskPCs
<1>7. CASE NoWriteAccess(w)
  BY <1>7, GotoType DEF NoWriteAccess, TypeOK, Counted, TaskPCs, Status, Exited
<1>8. CASE RetryBody(w)
  <2>1. job' \in [Workers -> Job]
    BY <1>8, ConstantsAssumption DEF RetryBody, TypeOK, Job, TaskPCs
  <2> QED BY <1>8, <2>1 DEF RetryBody, TypeOK, Counted
<1>9. CASE FailBody(w)
  BY <1>9, GotoType DEF FailBody, TypeOK, Counted, TaskPCs, Status, Exited
<1>10. CASE MarkDownstreamFailed(w)
  <2>1. job' \in [Workers -> Job] /\ status' \in [Tasks -> Status]
    BY <1>10, GotoType, MarkFailedType DEF MarkDownstreamFailed, TaskPCs
  <2> QED BY <1>10, <2>1 DEF MarkDownstreamFailed, TypeOK, Counted
<1>11. CASE SendAsync(w)
  <2>1. job[w].task \in Collections
    BY <1>11, ConstantsAssumption DEF SendAsync
  <2>2. ext' \in [Collections -> {"unsent", "due", "answered", "lost"}]
    BY <1>11, <2>1 DEF SendAsync, TypeOK
  <2>3. job' \in [Workers -> Job]
    BY <1>11, GotoType DEF SendAsync, TaskPCs
  <2> QED BY <1>11, <2>2, <2>3 DEF SendAsync, TypeOK, Counted
<1>12. CASE ParkTask(w)
  BY <1>12, GotoType DEF ParkTask, TypeOK, Counted, TaskPCs, Status, Started
<1>13. CASE BeginDownstream(w)
  <2>1. job' \in [Workers -> Job]
    <3>1. PendingDownstream(job[w].task) \subseteq Tasks
      BY <1>0 DEF PendingDownstream, Downstream
    <3>4. PendingDownstream(job[w].task) \in SUBSET Tasks
      BY <3>1
    <3>2. ASSUME job' = [job EXCEPT ![w].pc = "queueing",
                                    ![w].todo = PendingDownstream(job[w].task)]
          PROVE  job' \in [Workers -> Job]
      <4> DEFINE S == PendingDownstream(job[w].task)
      <4>1. [job[w] EXCEPT !.pc = "queueing", !.todo = S] \in Job
        BY ZenonT(60), <1>j, <3>4 DEF Job, TaskPCs
      <4>2. job' = [job EXCEPT ![w] = [job[w] EXCEPT !.pc = "queueing", !.todo = S]]
        BY <1>j, <3>2
      <4> QED BY <1>j, <4>1, <4>2
    <3>3. ASSUME NEW pc \in {"end", "proceed"}, Goto(w, pc)
          PROVE  job' \in [Workers -> Job]
      BY <3>3, GotoType DEF TaskPCs
    <3> QED BY <1>13, <3>2, <3>3 DEF BeginDownstream
  <2> QED BY <1>13, <2>1 DEF BeginDownstream, TypeOK, Counted
<1>14. ASSUME NEW d \in Tasks, QueueDownstream(w, d) PROVE TInv'
  <2> DEFINE looked == [job EXCEPT ![w].todo = @ \ {d}]
  <2>1. looked \in [Workers -> Job]
    BY <1>j DEF Job
  <2> HIDE DEF looked
  <2>2. CASE QueueRequestTask(d, looked)
    BY <1>14, <2>1, <2>2, QueueType DEF QueueDownstream, TypeOK, Counted
  <2>3. CASE job' = looked /\ UNCHANGED <<brokerVars, scans>>
    BY <1>14, <2>1, <2>3 DEF QueueDownstream, TypeOK, Counted
  <2> QED BY <1>14, <2>2, <2>3 DEF QueueDownstream, looked
<1>15. CASE EndDownstream(w)
  BY <1>15, GotoType DEF EndDownstream, TypeOK, Counted, TaskPCs
<1>16. CASE Proceed(w)
  <2>1. [job EXCEPT ![w].pc = "terminate"] \in [Workers -> Job]
    BY <1>j DEF Job, TaskPCs
  <2>2. job' \in [Workers -> Job]
    BY <1>16, <2>1, SupersededType DEF Proceed
  <2>3. proceeded' \in Nat /\ nextQueued' \in Nat /\ nextQueued' > 0
    BY <1>16 DEF Proceed, TypeOK
  <2> QED BY <1>16, <2>2, <2>3 DEF Scans, Proceed, TypeOK, Counted
<1>17. CASE CompleteTerminator(w)
  BY <1>0, <1>17, GotoType, CommitDoneType DEF CompleteTerminator, TypeOK, Counted, TaskPCs, Completed
<1> QED BY <1>1, <1>2, <1>3, <1>4, <1>5, <1>6, <1>7, <1>8, <1>9, <1>10, <1>11, <1>12,
           <1>13, <1>14, <1>15, <1>16, <1>17 DEF TaskSteps

\* Every step of a worker that runs the request keeps TInv.
LEMMA RequestStepsType ==
    ASSUME TInv, NEW w \in Workers, RequestSteps(w)
    PROVE  TInv'
<1> USE DEF TInv
<1> USE DEF taskVars, brokerVars, requestVars, boundVars
<1>j. job \in [Workers -> Job] BY DEF TypeOK
<1>1. CASE ReceiveRequest(w)
  <2>1. job' \in [Workers -> Job]
    <3>1. PICK latest \in BOOLEAN :
            job' = [job EXCEPT ![w] = [Idle EXCEPT !.pc = "run", !.latest = latest]]
      BY <1>1 DEF ReceiveRequest
    <3>2. [Idle EXCEPT !.pc = "run", !.latest = latest] \in Job
      BY IdleType DEF Job, RequestPCs
    <3> QED BY <3>1, <3>2 DEF TypeOK
  <2>2. prQueued' \in Nat /\ prCached' \in Place \cup {"next"}
    BY <1>1 DEF ReceiveRequest, TypeOK, Place
  <2>3. Counted'
    BY <1>1 DEF ReceiveRequest, TypeOK, Counted
  <2> QED BY <1>1, <2>1, <2>2, <2>3 DEF ReceiveRequest, TypeOK
<1>2. CASE RunRequest(w)
  <2>1. job' \in [Workers -> Job]
    <3>1. CASE Goto(w, "exit") \/ Goto(w, "create")
      BY <3>1, GotoType DEF RequestPCs
    <3>2. CASE job' = [job EXCEPT
                        ![w].pc = "reset", ![w].todo = {t \in Persisted : status[t] \notin Completed},
                        ![w].view = [t \in Tasks |->
                                        IF t \in {t1 \in Persisted : status[t1] \notin Completed} THEN status[t] ELSE "expired"]]
      <4> DEFINE incomplete == {t \in Persisted : status[t] \notin Completed}
                 view == [t \in Tasks |-> IF t \in incomplete THEN status[t] ELSE "expired"]
      <4>1. incomplete \in SUBSET Tasks
        BY DEF Persisted
      <4>2. view \in [Tasks -> Status \cup {"expired"}]
        BY DEF TypeOK
      <4>3. job' = [job EXCEPT ![w].pc = "reset", ![w].todo = incomplete, ![w].view = view]
        BY <3>2
      <4> HIDE DEF incomplete, view
      <4>4. [job[w] EXCEPT !.pc = "reset", !.todo = incomplete, !.view = view] \in Job
        BY ZenonT(60), <1>j, <4>1, <4>2 DEF Job, RequestPCs
      <4>5. job' = [job EXCEPT ![w] = [job[w] EXCEPT !.pc = "reset", !.todo = incomplete,
                                                     !.view = view]]
        BY <1>j, <4>3
      <4> QED BY <1>j, <4>4, <4>5
    <3> QED BY <1>2, <3>1, <3>2 DEF RunRequest
  <2> QED BY <1>2, <2>1 DEF RunRequest, TypeOK, Counted
<1>3. ASSUME NEW t \in Tasks, CreateTask(w, t) PROVE TInv'
  <2>1. status' \in [Tasks -> Status] /\ everDone' \subseteq Tasks
    BY <1>3, CommitDoneType DEF CreateTask, TypeOK, Completed, Status, Resumable
  <2> QED BY <1>3, <2>1 DEF CreateTask, TypeOK, Counted
<1>4. CASE TasksCreated(w)
  <2>1. job' \in [Workers -> Job]
    <3>1. [job[w] EXCEPT !.pc = "enqueue", !.ready = {Root}] \in Job
      <4>1. {Root} \in SUBSET Tasks
        BY DEF Tasks
      <4> QED BY <1>j, <4>1 DEF Job, RequestPCs
    <3>2. job' = [job EXCEPT ![w] = [job[w] EXCEPT !.pc = "enqueue", !.ready = {Root}]]
      BY <1>j, <1>4 DEF TasksCreated
    <3> QED BY <1>j, <3>1, <3>2
  <2> QED BY <1>4, <2>1 DEF TasksCreated, TypeOK, Counted
<1>5. ASSUME NEW t \in Tasks, ResetTask(w, t) PROVE TInv'
  <2>1. status' \in [Tasks -> Status]
    BY <1>5 DEF ResetTask, TypeOK, Status, Resumable
  <2>2. job' \in [Workers -> Job]
    <3> DEFINE looked(r) == [job EXCEPT ![w].todo = @ \ {t}, ![w].ready = r]
               expired(j) == [j EXCEPT ![w].view = Idle.view]
    <3>1. PICK r \in {job[w].ready, job[w].ready \cup {t}} :
            job' = looked(r) \/ job' = expired(looked(r))
      BY <1>5, <1>j DEF ResetTask, Job
    <3>2. r \in SUBSET Tasks
      BY <1>j DEF Job
    <3>3. looked(r) \in [Workers -> Job]
      <4>1. [job[w] EXCEPT !.todo = @ \ {t}, !.ready = r] \in Job
        BY <1>j, <3>2 DEF Job
      <4>2. looked(r) = [job EXCEPT ![w] = [job[w] EXCEPT !.todo = @ \ {t}, !.ready = r]]
        BY <1>j
      <4> QED BY <1>j, <4>1, <4>2
    <3>4. Idle.view \in [Tasks -> Status \cup {"expired"}]
      BY IdleType DEF Job
    <3>5. ASSUME NEW j \in [Workers -> Job] PROVE expired(j) \in [Workers -> Job]
      BY ZenonT(60), <3>4 DEF Job
    <3> HIDE DEF looked, expired
    <3> QED BY <3>1, <3>3, <3>5
  <2> QED BY <1>5, <2>1, <2>2 DEF ResetTask, TypeOK, Counted
<1>6. CASE TasksReset(w)
  BY <1>6, GotoType DEF TasksReset, TypeOK, Counted, RequestPCs
<1>7. ASSUME NEW t \in Tasks, EnqueueReady(w, t) PROVE TInv'
  <2> DEFINE j == [job EXCEPT ![w].ready = @ \ {t}]
  <2>1. j \in [Workers -> Job]
    BY <1>j DEF Job
  <2>2. QueueRequestTask(t, j)
    BY <1>7 DEF EnqueueReady
  <2> HIDE DEF j
  <2> QED BY <1>7, <2>1, <2>2, QueueType DEF EnqueueReady, TypeOK, Counted
<1>8. CASE ExitAwaitingTasks(w)
  BY <1>8, GotoType DEF ExitAwaitingTasks, TypeOK, Counted, RequestPCs
<1> QED BY <1>1, <1>2, <1>3, <1>4, <1>5, <1>6, <1>7, <1>8 DEF RequestSteps

\* A worker that becomes idle leaves no cached id in the queue that was not there.
LEMMA ForgetType ==
    ASSUME TypeOK, NEW w \in Workers, Forget(w)
    PROVE  /\ job' \in [Workers -> Job]
           /\ cached' \in [Tasks -> Place]
           /\ prCached' \in Place \cup {"next"}
           /\ \A t \in Tasks : cached'[t] = "queued" => cached[t] = "queued"
           /\ prCached' \in {"queued", "next"} => prCached' = prCached
BY IdleType DEF Forget, TypeOK, Place

\* cancel_celery_tasks counts no queue below zero.
LEMMA RevokeType ==
    ASSUME TInv, Revoke
    PROVE  /\ queued' \in [Tasks -> Nat] /\ cached' \in [Tasks -> Place]
           /\ prQueued' \in Nat /\ nextQueued' \in Nat
           /\ prCached' \in Place \cup {"next"}
           /\ Counted'
BY DEF TInv, TypeOK, Counted, Revoke, InQueue, Place

\* Queueing the request's own message keeps its counter and the workers typed.
LEMMA QueueThisStepType ==
    ASSUME TInv, QueueThisStep(job)
    PROVE  /\ prQueued' \in Nat /\ prQueued' > 0
           /\ prCached' = "queued"
           /\ job' \in [Workers -> Job]
BY SupersededType DEF TInv, TypeOK, QueueThisStep

\* Every other step, and a stutter, keeps TInv.
LEMMA OtherStepsType ==
    ASSUME TInv, [Next]_vars,
           \A w \in Workers : ~TaskSteps(w) /\ ~RequestSteps(w)
    PROVE  TInv'
<1> USE DEF TInv
<1> USE DEF taskVars, brokerVars, requestVars, boundVars
<1>1. ASSUME NEW w \in Workers, EndJob(w) PROVE TInv'
  BY <1>1, ForgetType DEF EndJob, Forget, TypeOK, Counted
<1>2. ASSUME NEW w \in Workers, WorkerDies(w) PROVE TInv'
  <2>1. Forget(w)
    BY <1>2 DEF WorkerDies
  <2>2. faults' \in 0..MaxFaults
    BY <1>2, ConstantsAssumption DEF WorkerDies, TypeOK
  <2> QED BY <1>2, <2>1, <2>2, ForgetType DEF WorkerDies, Forget, TypeOK, Counted
<1>3. ASSUME NEW w \in Workers, ProceedFails(w) PROVE TInv'
  <2>1. faults' \in 0..MaxFaults
    BY <1>3, ConstantsAssumption DEF ProceedFails, TypeOK
  <2> QED BY <1>3, <2>1, GotoType DEF ProceedFails, TypeOK, Counted, TaskPCs
<1>4. ASSUME NEW w \in Workers, RunRaises(w) PROVE TInv'
  <2>1. faults' \in 0..MaxFaults
    BY <1>4, ConstantsAssumption DEF RunRaises, TypeOK
  <2> QED BY <1>4, <2>1, GotoType DEF RunRaises, TypeOK, Counted, RequestPCs
<1>5. CASE NextStepRuns
  <2>1. prStatus' \in {"in_processing", "complete", "error", "canceled"}
    BY <1>5 DEF NextStepRuns, TypeOK
  <2>2. nextQueued' \in Nat /\ prCached' \in Place \cup {"next"}
    BY <1>5 DEF NextStepRuns, TakeContinuation, TypeOK, Place
  <2>3. checkpoint' \in {"here", "next"} /\ continued' \in BOOLEAN
    BY <1>5 DEF NextStepRuns, TypeOK
  <2>4. Counted'
    BY <1>5 DEF NextStepRuns, TakeContinuation, TypeOK, Counted
  <2> QED BY <1>5, <2>1, <2>2, <2>3, <2>4 DEF NextStepRuns, TakeContinuation, TypeOK
<1>6. CASE NextStepLost
  <2>1. faults' \in 0..MaxFaults
    BY <1>6, ConstantsAssumption DEF NextStepLost, TypeOK
  <2> QED BY <1>6, <2>1 DEF NextStepLost, TakeContinuation, TypeOK, Counted, Place
<1>7. ASSUME NEW t \in Collections, Callback(t) PROVE TInv'
  <2>0. t \in Tasks
    BY DEF Tasks
  <2>1. CASE QueueRequestTask(t, job) /\ status' = [status EXCEPT ![t] = "pending"]
    <3>1. status' \in [Tasks -> Status]
      BY <2>1 DEF TypeOK, Status, Resumable
    <3> QED BY <1>7, <2>0, <2>1, <3>1, QueueType DEF Callback, TypeOK, Counted
  <2>2. CASE UNCHANGED <<status, brokerVars, job, scans>>
    BY <1>7, <2>2 DEF Callback, TypeOK, Counted
  <2> QED BY <1>7, <2>1, <2>2 DEF Callback
<1>8. ASSUME NEW t \in Collections, RequeuePolling(t) PROVE TInv'
  BY <1>8, QueueType DEF RequeuePolling, TypeOK, Counted, Tasks
<1>9. CASE PollExited
  BY <1>9 DEF Scans, PollExited, TypeOK, Counted
<1>10. CASE WatchdogScan
  <2>1. scans \in Scans /\ InQueue \in SUBSET Tasks
    BY DEF InQueue, TypeOK
  <2>2. (prCached \in {"queued", "next"}) \in BOOLEAN
    OBVIOUS
  <2>3. scans' \in Scans
    BY <1>10, <2>1, <2>2 DEF WatchdogScan, Scans
  <2> QED BY <1>10, <2>3 DEF WatchdogScan, TypeOK, Counted
<1>11. CASE WatchdogLeaves
  BY <1>11 DEF Scans, WatchdogLeaves, EndScan, TypeOK, Counted
<1>12. CASE WatchdogRequeues
  <2>1. requeues' \in 0..MaxRequeues
    BY <1>12, ConstantsAssumption DEF WatchdogRequeues, TypeOK
  <2>2. QueueThisStep(job)
    BY <1>12 DEF WatchdogRequeues
  <2>3. prQueued' \in Nat /\ prQueued' > 0 /\ prCached' = "queued" /\ job' \in [Workers -> Job]
    BY <2>2, QueueThisStepType
  <2>4. scans' \in Scans
    BY <1>12 DEF Scans, WatchdogRequeues, EndScan, TypeOK
  <2> QED BY <1>12, <2>1, <2>3, <2>4 DEF WatchdogRequeues, TypeOK, Counted, Place
<1>13. CASE WatchdogGivesUp
  <2>1. scans' \in Scans
    BY <1>13 DEF Scans, WatchdogGivesUp, CancelInterrupted, EndScan, TypeOK
  <2>2. requeues' \in 0..MaxRequeues
    BY <1>13, ConstantsAssumption DEF WatchdogGivesUp
  <2> QED BY <1>13, <2>1, <2>2, RevokeType DEF WatchdogGivesUp, CancelInterrupted, TypeOK
<1>14. CASE WatchdogRequeueFails
  <2>1. requeues' \in 0..MaxRequeues /\ faults' \in 0..MaxFaults
    BY <1>14, ConstantsAssumption DEF WatchdogRequeueFails, TypeOK
  <2> QED BY <1>14, <2>1, RevokeType DEF Scans, WatchdogRequeueFails, CancelInterrupted, EndScan, TypeOK
<1>15. CASE Cancel
  BY <1>15, RevokeType DEF Cancel, TypeOK
<1>16. CASE Restart
  <2>1. restarts' \in 0..MaxRestarts
    BY <1>16, ConstantsAssumption DEF Restart, TypeOK
  <2>2. QueueThisStep(job)
    BY <1>16 DEF Restart
  <2>3. prQueued' \in Nat /\ prQueued' > 0 /\ prCached' = "queued" /\ job' \in [Workers -> Job]
    BY <2>2, QueueThisStepType
  <2>4. scans' \in Scans
    BY <1>16 DEF Scans, Restart, TypeOK
  <2> QED BY <1>16, <2>1, <2>3, <2>4 DEF Restart, TypeOK, Counted, Place
<1>17. CASE ErrorExited
  BY <1>17 DEF ErrorExited, Scans, TypeOK, Counted
<1>18. CASE UNCHANGED vars
  BY <1>18 DEF vars, TypeOK, Counted
<1> QED BY <1>1, <1>2, <1>3, <1>4, <1>5, <1>6, <1>7, <1>8, <1>9, <1>10, <1>11, <1>12,
           <1>13, <1>14, <1>15, <1>16, <1>17, <1>18 DEF Next, Worker, Faults, External, Watchdog

\* The initial states satisfy TInv.
LEMMA InitType ==
    ASSUME Init
    PROVE  TInv
<1>1. job \in [Workers -> Job]
  BY IdleType DEF Init
<1>2. status \in [Tasks -> Status] /\ everDone \subseteq Tasks
  BY DEF Init, Status, Exited, Completed, Resumable, Tasks
<1>3. queued \in [Tasks -> Nat] /\ cached \in [Tasks -> Place]
  BY DEF Init, Place
<1>4. ext \in [Collections -> {"unsent", "due", "answered", "lost"}]
  BY DEF Init
<1>5. requeues \in 0..MaxRequeues /\ faults \in 0..MaxFaults /\ restarts \in 0..MaxRestarts
  BY ConstantsAssumption DEF Init
<1>6. Counted
  BY <1>3 DEF Init, Counted
<1> QED BY <1>1, <1>2, <1>3, <1>4, <1>5, <1>6 DEF Scans, Init, TInv, TypeOK, Place

\* Every variable of the execution of a graph of RequestTasks keeps its range:
\* in particular no revocation counts a queue below zero, the retry and requeue
\* counts stay within what the configuration allows (task_retry_count,
\* privacy_request_requeue_retry_count), and no status is written that the code
\* does not have.
THEOREM TypeCorrect == Spec => []TypeOK
<1>1. Init => TInv
  BY InitType
<1>2. TInv /\ [Next]_vars => TInv'
  BY TaskStepsType, RequestStepsType, OtherStepsType
<1>3. TInv => TypeOK
  BY DEF TInv
<1> QED BY <1>1, <1>2, <1>3, PTL DEF Spec

----------------------------------------------------------------------------
(***************************************************************************)
(* For every graph, every number of workers and every bound: a collection  *)
(* runs only after everything upstream of it, the request goes on only after *)
(* every collection, and the execution implements GraphStep.               *)
(*                                                                         *)
(* The properties themselves are not inductive.  A body runs because a     *)
(* message was queued, and the message was queued because somebody found the *)
(* upstream tasks complete some time before: a parent that looked downstream, *)
(* a runner that looked through the rows, a callback, the poller.  The     *)
(* invariant OInv therefore says of each of these places - the queue, what a *)
(* runner has still to queue, the rows its session shows, a task that waits *)
(* for an answer - that the tasks it would set going have their upstream   *)
(* tasks behind them.                                                      *)
(***************************************************************************)

\* What a worker is doing agrees with the history: it holds a task, or is about
\* to queue one, only after everything upstream of it, and the rows its session
\* still shows were not completed when it loaded them.
JobOK(x, done) ==
    /\ x.pc \in TaskPCs => Upstream[x.task] \subseteq done
    /\ x.pc \in {"proceed", "terminate"} => x.task = Terminator
    /\ \A t \in x.ready : Upstream[t] \subseteq done
    /\ \A t \in Tasks : x.view[t] \notin Completed

\* The inductive invariant.
OInv ==
    /\ UpstreamClosed(everDone)
    /\ \A t \in Tasks : status[t] \in Completed => t \in everDone
    /\ \A t \in Tasks : queued[t] > 0 => Upstream[t] \subseteq everDone
    /\ \A t \in Tasks : status[t] \in {"paused", "polling"} => Upstream[t] \subseteq everDone
    /\ \A w \in Workers : JobOK(job[w], everDone)
    /\ ProceedsAfterAll

\* The part of type correctness the proofs below use.
Facts ==
    /\ job \in [Workers -> Job]
    /\ status \in [Tasks -> Status]
    /\ queued \in [Tasks -> Nat]
    /\ everDone \in SUBSET Tasks
    /\ proceeded \in Nat

\* Type correctness gives Facts.
LEMMA FactsHold == TInv => Facts
BY DEF TInv, TypeOK, Facts

\* That a message stops being the latest one changes nothing JobOK speaks of.
LEMMA SupersededOrder ==
    ASSUME NEW j \in [Workers -> Job], NEW pcs, NEW t, \A w \in Workers : JobOK(j[w], everDone)
    PROVE  \A w \in Workers : JobOK(Superseded(j, pcs, t)[w], everDone)
<1> SUFFICES ASSUME NEW w \in Workers
    PROVE  JobOK(Superseded(j, pcs, t)[w], everDone)
  OBVIOUS
<1>1. j[w] \in Job /\ JobOK(j[w], everDone)
  OBVIOUS
<1>2. JobOK([j[w] EXCEPT !.latest = FALSE], everDone)
  BY <1>1 DEF JobOK, Job
<1> QED BY <1>1, <1>2 DEF Superseded

\* A worker that goes on within the same task, or leaves it, keeps JobOK.
LEMMA GotoOrder ==
    ASSUME Facts, OInv, NEW w \in Workers, NEW pc, Goto(w, pc),
           pc \in TaskPCs => job[w].pc \in TaskPCs,
           pc \in {"proceed", "terminate"} => job[w].task = Terminator
    PROVE  \A v \in Workers : JobOK(job'[v], everDone)
<1>1. job[w] \in Job
  BY DEF Facts
<1> QED BY <1>1 DEF Facts, OInv, JobOK, Goto, Job

\* Queueing a task whose upstream tasks were completed keeps the queue and the
\* workers in order (queue_request_task).
LEMMA QueueOrder ==
    ASSUME Facts, OInv, NEW t \in Tasks, Upstream[t] \subseteq everDone,
           NEW j \in [Workers -> Job], \A w \in Workers : JobOK(j[w], everDone),
           QueueRequestTask(t, j), UNCHANGED everDone
    PROVE  /\ \A u \in Tasks : queued'[u] > 0 => Upstream[u] \subseteq everDone'
           /\ \A w \in Workers : JobOK(job'[w], everDone')
<1>1. \A w \in Workers : JobOK(job'[w], everDone)
  BY SupersededOrder DEF QueueRequestTask
<1> QED BY <1>1 DEF Facts, OInv, QueueRequestTask

\* A worker that runs a task keeps OInv: it completes the task it holds, and
\* queues only tasks it finds all upstream tasks of complete.
LEMMA TaskStepsOrder ==
    ASSUME Facts, OInv, NEW w \in Workers, TaskSteps(w)
    PROVE  OInv'
<1> USE DEF OInv, JobOK, taskVars, brokerVars, requestVars, boundVars,
            Goto, TaskPCs, RequestPCs, Completed, ProceedsAfterAll, Facts
<1>0. job[w] \in Job
  OBVIOUS
<1>1. ASSUME NEW t \in Tasks, ReceiveTask(w, t) PROVE OInv'
  <2>1. PICK latest \in BOOLEAN :
          job' = [job EXCEPT ![w] =
                   [Idle EXCEPT !.pc = "check", !.task = t, !.latest = latest]]
    BY <1>1 DEF ReceiveTask
  <2>2. Upstream[t] \subseteq everDone
    BY <1>1 DEF ReceiveTask
  <2>3. \A v \in Workers : JobOK(job'[v], everDone')
    BY <1>1, <2>1, <2>2 DEF ReceiveTask, Idle
  <2>4. \A u \in Tasks : queued'[u] > 0 => queued[u] > 0
    BY <1>1 DEF ReceiveTask
  <2> QED BY <1>1, <2>3, <2>4 DEF ReceiveTask
<1>2. CASE CheckPrerequisites(w)
  <2>1. PICK pc \in {"end", "start", "downstream"} : Goto(w, pc)
    BY <1>2 DEF CheckPrerequisites
  <2> QED BY <1>0, <1>2, <2>1 DEF CheckPrerequisites, Job
<1>3. CASE HydrationFails(w)
  BY <1>0, <1>3 DEF HydrationFails, MarkFailed, Job
<1>4. CASE LogStart(w)
  BY <1>0, <1>4 DEF LogStart, Job
<1>5. CASE SkipDisabled(w)
  BY <1>0, <1>5, GraphAssumption DEF SkipDisabled, CommitDone, UpstreamClosed, Job
<1>6. CASE FinishBody(w)
  BY <1>0, <1>6, GraphAssumption DEF FinishBody, CommitDone, UpstreamClosed, Job
<1>7. CASE NoWriteAccess(w)
  BY <1>0, <1>7 DEF NoWriteAccess, Job
<1>8. CASE RetryBody(w)
  BY <1>0, <1>8 DEF RetryBody, Job
<1>9. CASE FailBody(w)
  <2>1. PICK pc \in {"mark", "abort"} : Goto(w, pc)
    BY <1>9 DEF FailBody
  <2>2. \A v \in Workers : JobOK(job'[v], everDone)
    BY <1>9, <2>1, GotoOrder DEF FailBody
  <2> QED BY <1>9, <2>2 DEF FailBody
<1>10. CASE MarkDownstreamFailed(w)
  <2>1. PICK pc \in {"downstream", "end"} : Goto(w, pc)
    BY <1>10 DEF MarkDownstreamFailed
  <2>2. \A v \in Workers : JobOK(job'[v], everDone)
    BY <1>10, <2>1, GotoOrder DEF MarkDownstreamFailed
  <2> QED BY <1>10, <2>2 DEF MarkDownstreamFailed, MarkFailed
<1>11. CASE SendAsync(w)
  BY <1>0, <1>11 DEF SendAsync, Job
<1>12. CASE ParkTask(w)
  BY <1>0, <1>12 DEF ParkTask, Job
<1>13. CASE BeginDownstream(w)
  <2>1. ASSUME NEW pc \in {"end", "proceed"}, Goto(w, pc), pc = "proceed" => job[w].task = Terminator
        PROVE  \A v \in Workers : JobOK(job'[v], everDone)
    BY <1>13, <2>1, GotoOrder DEF BeginDownstream
  <2>2. ASSUME NEW S, job' = [job EXCEPT ![w].pc = "queueing", ![w].todo = S]
        PROVE  \A v \in Workers : JobOK(job'[v], everDone)
    BY <1>0, <1>13, <2>2 DEF BeginDownstream, Job
  <2>3. \A v \in Workers : JobOK(job'[v], everDone)
    BY <1>13, <2>1, <2>2 DEF BeginDownstream
  <2> QED BY <1>13, <2>3 DEF BeginDownstream
<1>14. ASSUME NEW d \in Tasks, QueueDownstream(w, d) PROVE OInv'
  <2> DEFINE looked == [job EXCEPT ![w].todo = @ \ {d}]
  <2>1. looked \in [Workers -> Job] /\ \A v \in Workers : JobOK(looked[v], everDone)
    BY <1>0 DEF Job
  <2>2. ASSUME CanQueueRequestTask(d), QueueRequestTask(d, looked) PROVE OInv'
    <3>1. Upstream[d] \subseteq everDone
      BY <2>2, GraphAssumption DEF CanQueueRequestTask, UpstreamComplete
    <3> HIDE DEF looked
    <3> QED BY <1>14, <2>1, <2>2, <3>1, QueueOrder DEF QueueDownstream
  <2>3. ASSUME job' = looked, UNCHANGED <<brokerVars, scans>> PROVE OInv'
    <3>1. \A v \in Workers : JobOK(job'[v], everDone)
      BY <2>1, <2>3
    <3> HIDE DEF looked
    <3> QED BY <1>14, <2>3, <3>1 DEF QueueDownstream
  <2> QED BY <1>14, <2>2, <2>3 DEF QueueDownstream
<1>15. CASE EndDownstream(w)
  BY <1>0, <1>15 DEF EndDownstream, Job
<1>16. CASE Proceed(w)
  <2> DEFINE j == [job EXCEPT ![w].pc = "terminate"]
  <2>1. j \in [Workers -> Job] /\ \A v \in Workers : JobOK(j[v], everDone)
    BY <1>0, <1>16 DEF Proceed, Job
  <2>2. \A v \in Workers : JobOK(job'[v], everDone)
    <3>1. job' = Superseded(j, RequestPCs, Root)
      BY <1>16 DEF Proceed
    <3> HIDE DEF j
    <3> QED BY <2>1, <3>1, SupersededOrder
  <2>3. Collections \subseteq everDone
    BY <1>0, <1>16, TerminatorAssumption DEF Proceed
  <2> QED BY <1>16, <2>2, <2>3 DEF Proceed
<1>17. CASE CompleteTerminator(w)
  BY <1>0, <1>17, GraphAssumption DEF CompleteTerminator, CommitDone, UpstreamClosed, Job
<1> QED BY <1>1, <1>2, <1>3, <1>4, <1>5, <1>6, <1>7, <1>8, <1>9, <1>10, <1>11, <1>12,
           <1>13, <1>14, <1>15, <1>16, <1>17 DEF TaskSteps

\* A worker that runs the request keeps OInv: the root is complete when it is
\* created, and get_existing_ready_tasks never shows a task complete that is not.
LEMMA RequestStepsOrder ==
    ASSUME Facts, OInv, NEW w \in Workers, RequestSteps(w)
    PROVE  OInv'
<1> USE DEF OInv, JobOK, taskVars, brokerVars, requestVars, boundVars,
            Goto, TaskPCs, RequestPCs, Completed, ProceedsAfterAll, Facts
<1>0. job[w] \in Job
  OBVIOUS
<1>1. CASE ReceiveRequest(w)
  <2>1. PICK latest \in BOOLEAN :
          job' = [job EXCEPT ![w] = [Idle EXCEPT !.pc = "run", !.latest = latest]]
    BY <1>1 DEF ReceiveRequest
  <2> QED BY <1>1, <2>1 DEF ReceiveRequest, Idle
<1>2. CASE RunRequest(w)
  <2>1. ASSUME NEW pc \in {"exit", "create"}, Goto(w, pc)
        PROVE  \A v \in Workers : JobOK(job'[v], everDone)
    BY <2>1, GotoOrder
  <2>2. ASSUME NEW incomplete, incomplete = {t \in Persisted : status[t] \notin Completed},
               job' = [job EXCEPT
                        ![w].pc = "reset", ![w].todo = incomplete,
                        ![w].view = [t \in Tasks |->
                                        IF t \in incomplete THEN status[t] ELSE "expired"]]
        PROVE  \A v \in Workers : JobOK(job'[v], everDone)
    BY ZenonT(60), <1>0, <2>2 DEF Job
  <2>3. \A v \in Workers : JobOK(job'[v], everDone)
    BY ZenonT(60), <1>2, <2>1, <2>2 DEF RunRequest
  <2> QED BY <1>2, <2>3 DEF RunRequest
<1>3. ASSUME NEW t \in Tasks, CreateTask(w, t) PROVE OInv'
  <2>1. \A v \in Workers : JobOK(job'[v], everDone')
    BY <1>3, GraphAssumption DEF CreateTask, CommitDone
  <2>2. CASE t = Root
    BY <1>3, <2>1, <2>2, GraphAssumption DEF CreateTask, CommitDone, UpstreamClosed
  <2>3. CASE ~(t = Root)
    BY <1>3, <2>1, <2>3 DEF CreateTask
  <2> QED BY <2>2, <2>3
<1>4. CASE TasksCreated(w)
  BY <1>0, <1>4, GraphAssumption DEF TasksCreated, Job
<1>5. ASSUME NEW t \in Tasks, ResetTask(w, t) PROVE OInv'
  <2> DEFINE ready == (\A u \in Upstream[t] : Shown(w, u) \in Completed) /\ ~RequestTaskRunning(t)
             looked == [job EXCEPT ![w].todo = @ \ {t},
                                   ![w].ready = IF ready THEN @ \cup {t} ELSE @]
  <2>1. ready => Upstream[t] \subseteq everDone
    <3>1. \A u \in Tasks : Shown(w, u) \in Completed => status[u] \in Completed
      BY DEF Shown
    <3> QED BY <3>1, GraphAssumption
  <2>2. \A v \in Workers : JobOK(looked[v], everDone)
    BY <1>0, <2>1 DEF Job
  <2>3. looked \in [Workers -> Job]
    BY ZenonT(60), <1>0 DEF Job
  <2>4. job' = looked \/ job' = [looked EXCEPT ![w].view = Idle.view]
    BY <1>5 DEF ResetTask
  <2> HIDE DEF looked
  <2>5. \A v \in Workers : JobOK(job'[v], everDone)
    <3>1. CASE job' = looked
      BY <2>2, <3>1
    <3>2. CASE job' = [looked EXCEPT ![w].view = Idle.view]
      <4>1. Idle.view = [u \in Tasks |-> "expired"]
        BY DEF Idle
      <4>2. looked[w] \in Job
        BY <2>3
      <4> QED BY <2>2, <2>3, <3>2, <4>1, <4>2 DEF Job
    <3> QED BY <2>4, <3>1, <3>2
  <2>6. \A u \in Tasks : status'[u] \in {status[u], "pending"}
    BY <1>5 DEF ResetTask
  <2> QED BY <1>5, <2>5, <2>6 DEF ResetTask
<1>6. CASE TasksReset(w)
  BY <1>0, <1>6 DEF TasksReset, Job
<1>7. ASSUME NEW t \in Tasks, EnqueueReady(w, t) PROVE OInv'
  <2> DEFINE looked == [job EXCEPT ![w].ready = @ \ {t}]
  <2>1. looked \in [Workers -> Job] /\ \A v \in Workers : JobOK(looked[v], everDone)
    BY <1>0 DEF Job
  <2>2. Upstream[t] \subseteq everDone /\ QueueRequestTask(t, looked)
    BY <1>0, <1>7 DEF EnqueueReady
  <2> HIDE DEF looked
  <2> QED BY <1>7, <2>1, <2>2, QueueOrder DEF EnqueueReady
<1>8. CASE ExitAwaitingTasks(w)
  BY <1>0, <1>8 DEF ExitAwaitingTasks, Job
<1> QED BY <1>1, <1>2, <1>3, <1>4, <1>5, <1>6, <1>7, <1>8 DEF RequestSteps

\* A step that completes nothing and queues no task keeps OInv.
LEMMA UnchangedOrder ==
    ASSUME Facts, OInv, UNCHANGED <<status, everDone, proceeded>>,
           \A t \in Tasks : queued'[t] > 0 => queued[t] > 0,
           \A w \in Workers : JobOK(job'[w], everDone)
    PROVE  OInv'
BY DEF Facts, OInv, ProceedsAfterAll, Completed

\* A worker that ends its job, or dies, keeps OInv.
LEMMA ForgetOrder ==
    ASSUME Facts, OInv, NEW w \in Workers, Forget(w)
    PROVE  OInv'
<1>1. \A v \in Workers : JobOK(job'[v], everDone)
  BY DEF Facts, OInv, Forget, JobOK, Idle, TaskPCs, Completed
<1> QED BY <1>1, UnchangedOrder DEF Forget, Facts, taskVars

\* So do the callback, the poller, the watchdog, the user and the faults.
LEMMA OtherStepsOrder ==
    ASSUME TInv, Facts, OInv, [Next]_vars,
           \A w \in Workers : ~TaskSteps(w) /\ ~RequestSteps(w)
    PROVE  OInv'
<1> USE DEF taskVars, brokerVars, requestVars, boundVars
<1>0. /\ \A t \in Tasks : queued[t] \in Nat
      /\ \A w \in Workers : JobOK(job[w], everDone)
  BY DEF Facts, OInv
<1>1. ASSUME NEW w \in Workers, EndJob(w) PROVE OInv'
  BY <1>1, ForgetOrder DEF EndJob
<1>2. ASSUME NEW w \in Workers, WorkerDies(w) PROVE OInv'
  BY <1>2, ForgetOrder DEF WorkerDies
<1>3. ASSUME NEW w \in Workers, ProceedFails(w) PROVE OInv'
  <2>1. job[w] \in Job
    BY DEF Facts
  <2>2. \A v \in Workers : JobOK(job'[v], everDone)
    BY <1>3, <2>1 DEF ProceedFails, Goto, OInv, Facts, JobOK, Job, TaskPCs
  <2> QED BY <1>3, <2>2, UnchangedOrder DEF ProceedFails
<1>4. ASSUME NEW w \in Workers, RunRaises(w) PROVE OInv'
  <2>1. job[w] \in Job
    BY DEF Facts
  <2>2. \A v \in Workers : JobOK(job'[v], everDone)
    BY <1>4, <2>1 DEF RunRaises, Goto, OInv, Facts, JobOK, Job, TaskPCs
  <2> QED BY <1>4, <2>2, UnchangedOrder DEF RunRaises
<1>5. CASE NextStepRuns
  BY <1>0, <1>5, UnchangedOrder DEF NextStepRuns
<1>6. CASE NextStepLost
  BY <1>0, <1>6, UnchangedOrder DEF NextStepLost
<1>7. ASSUME NEW t \in Collections, Callback(t) PROVE OInv'
  <2>1. CASE status[t] = "paused" /\ QueueRequestTask(t, job) /\ status' = [status EXCEPT ![t] = "pending"]
    <3>1. t \in Tasks /\ Upstream[t] \subseteq everDone
      BY <2>1 DEF OInv, Tasks
    <3>2. job \in [Workers -> Job] /\ UNCHANGED <<everDone, proceeded>>
      BY <1>7 DEF Callback, Facts
    <3>3. \A u \in Tasks : status'[u] \in {status[u], "pending"}
      BY <2>1 DEF Facts
    <3> QED BY <1>0, <2>1, <3>1, <3>2, <3>3, QueueOrder
            DEF OInv, ProceedsAfterAll, Completed
  <2>2. CASE UNCHANGED <<status, brokerVars, job, scans>>
    BY <1>0, <1>7, <2>2, UnchangedOrder DEF Callback
  <2> QED BY <1>7, <2>1, <2>2 DEF Callback, AcceptsCallback
<1>8. ASSUME NEW t \in Collections, RequeuePolling(t) PROVE OInv'
  <2>1. t \in Tasks /\ Upstream[t] \subseteq everDone
    BY <1>8 DEF RequeuePolling, OInv, Tasks
  <2>2. job \in [Workers -> Job]
    BY DEF Facts
  <2> QED BY <1>0, <1>8, <2>1, <2>2, QueueOrder DEF RequeuePolling, OInv, ProceedsAfterAll
<1>9. CASE PollExited \/ ErrorExited
  BY <1>0, <1>9, UnchangedOrder DEF PollExited, ErrorExited
<1>10. CASE WatchdogScan
  BY <1>0, <1>10, UnchangedOrder DEF WatchdogScan
<1>11. CASE WatchdogLeaves
  BY <1>0, <1>11, UnchangedOrder DEF WatchdogLeaves
<1>12. CASE QueueThisStep(job) /\ UNCHANGED <<taskVars, queued, proceeded>>
  <2>1. job \in [Workers -> Job] /\ job' = Superseded(job, RequestPCs, Root)
    BY <1>12 DEF Facts, QueueThisStep
  <2> QED BY <1>0, <1>12, <2>1, SupersededOrder, UnchangedOrder
<1>13. CASE Revoke /\ UNCHANGED <<taskVars, job, proceeded>>
  BY <1>0, <1>13, UnchangedOrder DEF Revoke, InQueue
<1>14. CASE UNCHANGED vars
  BY <1>0, <1>14, UnchangedOrder DEF vars
<1> QED
  BY <1>1, <1>2, <1>3, <1>4, <1>5, <1>6, <1>7, <1>8, <1>9, <1>10, <1>11, <1>12, <1>13, <1>14
  DEF Next, Worker, Faults, External, Watchdog, WatchdogRequeues, WatchdogGivesUp,
      WatchdogRequeueFails, CancelInterrupted, Cancel, Restart

\* OInv holds in every reachable state.
LEMMA OrderInvariant == Spec => [](TInv /\ OInv)
<1>1. Init => OInv
  <2> SUFFICES ASSUME Init PROVE OInv
    OBVIOUS
  <2>1. \A w \in Workers : JobOK(job[w], everDone)
    BY DEF Init, JobOK, Idle, TaskPCs, Completed
  <2>2. UpstreamClosed(everDone) /\ \A t \in Tasks : status[t] \in Completed => t \in everDone
    BY GraphAssumption DEF Init, UpstreamClosed, Completed
  <2>3. \A t \in Tasks : queued[t] = 0 /\ status[t] \notin {"paused", "polling"}
    BY DEF Init
  <2>4. proceeded = 0
    BY DEF Init
  <2> QED BY <2>1, <2>2, <2>3, <2>4 DEF OInv, ProceedsAfterAll
<1>2. Init => TInv
  BY InitType
<1>3. TInv /\ [Next]_vars => TInv'
  BY TaskStepsType, RequestStepsType, OtherStepsType
<1>4. TInv /\ OInv /\ [Next]_vars => OInv'
  BY FactsHold, TaskStepsOrder, RequestStepsOrder, OtherStepsOrder
<1> QED BY <1>1, <1>2, <1>3, <1>4, PTL DEF Spec

\* In every execution a worker is in the body of a collection only after every
\* collection directly upstream of it was complete or skipped, however often
\* tasks are queued twice, reset, requeued, restarted or lost
\* (run_prerequisite_task_checks, can_queue_request_task).
THEOREM RunsAfterUpstreamsCorrect == Spec => []RunsAfterUpstreams
<1>1. OInv => RunsAfterUpstreams
  BY DEF OInv, JobOK, RunsAfterUpstreams, BodyPCs, TaskPCs
<1> QED BY <1>1, OrderInvariant, PTL

\* The terminator queues the next step of the request only when every collection
\* was complete or skipped (queue_downstream_tasks).
THEOREM ProceedsAfterAllCorrect == Spec => []ProceedsAfterAll
<1>1. OInv => ProceedsAfterAll
  BY DEF OInv
<1> QED BY <1>1, OrderInvariant, PTL

\* A step of a task finishes one task, lets the request go on, or does not show
\* in GraphStep.
LEMMA TaskStepsPromise ==
    ASSUME Facts, OInv, NEW w \in Workers, TaskSteps(w)
    PROVE  [Promise!Next]_<<everDone, proceeded > 0>>
<1> USE DEF taskVars, requestVars, Facts
<1>1. ASSUME NEW t \in Tasks, NEW s, CommitDone(t, s), UNCHANGED proceeded,
             Upstream[t] \subseteq everDone
      PROVE  [Promise!Next]_<<everDone, proceeded > 0>>
  <2>1. CASE t \in everDone
    BY <1>1, <2>1 DEF CommitDone
  <2>2. CASE t \notin everDone
    <3>1. Promise!Finish(t)
      BY <1>1, <2>2 DEF CommitDone, Promise!Finish
    <3> QED BY <3>1 DEF Promise!Next, Promise!Tasks, Tasks
  <2> QED BY <2>1, <2>2
<1>2. job[w] \in Job /\ JobOK(job[w], everDone)
  BY DEF OInv
<1>3. job[w].task \in Tasks
  BY <1>2 DEF Job
<1>4. job[w].pc \in TaskPCs => Upstream[job[w].task] \subseteq everDone
  BY <1>2 DEF JobOK
<1>5. CASE SkipDisabled(w) \/ FinishBody(w) \/ CompleteTerminator(w)
  <2>1. \E s : CommitDone(job[w].task, s)
    BY <1>5 DEF SkipDisabled, FinishBody, CompleteTerminator
  <2>2. UNCHANGED proceeded /\ job[w].pc \in TaskPCs
    BY <1>5 DEF SkipDisabled, FinishBody, CompleteTerminator, TaskPCs
  <2> QED BY <1>1, <1>3, <1>4, <2>1, <2>2
<1>6. CASE Proceed(w)
  <2>1. job[w].task = Terminator /\ job[w].pc \in TaskPCs
    BY <1>2, <1>6 DEF Proceed, JobOK, TaskPCs
  <2>2. Collections \subseteq everDone
    BY <1>4, <2>1, TerminatorAssumption DEF OInv
  <2>3. proceeded' > 0 /\ UNCHANGED everDone
    BY <1>6 DEF Proceed
  <2>4. CASE proceeded > 0
    BY <2>3, <2>4
  <2>5. CASE ~(proceeded > 0)
    BY <2>2, <2>3, <2>5 DEF Promise!Next, Promise!GoOn
  <2> QED BY <2>4, <2>5
<1>7. CASE UNCHANGED <<everDone, proceeded>>
  BY <1>7
<1>8. \/ UNCHANGED <<everDone, proceeded>>
      \/ SkipDisabled(w) \/ FinishBody(w) \/ CompleteTerminator(w) \/ Proceed(w)
  BY DEF TaskSteps, ReceiveTask, CheckPrerequisites, HydrationFails, LogStart, NoWriteAccess,
         RetryBody, FailBody, MarkDownstreamFailed, SendAsync, ParkTask, BeginDownstream,
         QueueDownstream, EndDownstream
<1> QED BY <1>5, <1>6, <1>7, <1>8

\* A step of the request's own message finishes the root or does not show.
LEMMA RequestStepsPromise ==
    ASSUME Facts, OInv, NEW w \in Workers, RequestSteps(w)
    PROVE  [Promise!Next]_<<everDone, proceeded > 0>>
<1> USE DEF taskVars, requestVars
<1>1. ASSUME NEW t \in Tasks, CreateTask(w, t), everDone' # everDone
      PROVE  Promise!Finish(t)
  BY <1>1, GraphAssumption DEF CreateTask, CommitDone, Promise!Finish
<1>2. ASSUME NEW t \in Tasks, CreateTask(w, t)
      PROVE  [Promise!Next]_<<everDone, proceeded > 0>>
  <2>1. UNCHANGED proceeded
    BY <1>2 DEF CreateTask
  <2> QED BY <1>1, <1>2, <2>1 DEF Promise!Next, Promise!Tasks, Tasks
<1>3. ASSUME ~\E t \in Tasks : CreateTask(w, t) PROVE UNCHANGED <<everDone, proceeded>>
  BY <1>3 DEF RequestSteps, ReceiveRequest, RunRequest, TasksCreated, ResetTask, TasksReset,
              EnqueueReady, ExitAwaitingTasks
<1> QED BY <1>2, <1>3

\* No other step shows in GraphStep.
LEMMA OtherStepsPromise ==
    ASSUME [Next]_vars, \A w \in Workers : ~TaskSteps(w) /\ ~RequestSteps(w)
    PROVE  UNCHANGED <<everDone, proceeded>>
<1> USE DEF taskVars, requestVars
<1>1. ASSUME NEW w \in Workers, EndJob(w) \/ WorkerDies(w)
      PROVE  UNCHANGED <<everDone, proceeded>>
  BY <1>1 DEF EndJob, WorkerDies, Forget
<1>2. ASSUME NEW w \in Workers, ProceedFails(w) \/ RunRaises(w)
      PROVE  UNCHANGED <<everDone, proceeded>>
  BY <1>2 DEF ProceedFails, RunRaises
<1>3. ASSUME NEW t \in Collections, Callback(t) \/ RequeuePolling(t)
      PROVE  UNCHANGED <<everDone, proceeded>>
  BY <1>3 DEF Callback, RequeuePolling
<1>4. CASE NextStepRuns \/ NextStepLost \/ PollExited \/ ErrorExited \/ Cancel \/ Restart
  BY <1>4 DEF NextStepRuns, NextStepLost, PollExited, ErrorExited, Cancel, Restart
<1>5. CASE WatchdogScan \/ WatchdogLeaves \/ WatchdogRequeues \/ CancelInterrupted
  BY <1>5 DEF WatchdogScan, WatchdogLeaves, WatchdogRequeues, CancelInterrupted
<1>6. CASE UNCHANGED vars
  BY <1>6 DEF vars
<1> QED
  BY <1>1, <1>2, <1>3, <1>4, <1>5, <1>6
  DEF Next, Worker, Faults, External, Watchdog, WatchdogGivesUp, WatchdogRequeueFails

\* RequestTasks implements GraphStep under the mapping that reads the history of
\* completed tasks and whether the next step was ever queued.
THEOREM PromiseKept == Spec => KeepsPromise
<1>1. Init => Promise!Init
  BY DEF Init, Promise!Init
<1>2. TInv /\ OInv /\ [Next]_vars => [Promise!Next]_<<everDone, proceeded > 0>>
  BY FactsHold, TaskStepsPromise, RequestStepsPromise, OtherStepsPromise
<1> QED BY <1>1, <1>2, OrderInvariant, PTL DEF Spec, KeepsPromise, Promise!Spec

----------------------------------------------------------------------------
(***************************************************************************)
(* Who moves in a step.  The proofs that follow ask of most steps only     *)
(* where they leave the workers, and of the steps that are nobody's run of *)
(* a task or of the request, how little else they can change.             *)
(***************************************************************************)

\* Where a worker is, and in which task.
Stays(v) == job'[v].pc = job[v].pc /\ job'[v].task = job[v].task

\* A worker that goes on changes its place, and no other worker moves.
LEMMA GotoMoves ==
    ASSUME job \in [Workers -> Job], NEW w \in Workers, NEW pc, Goto(w, pc)
    PROVE  /\ job'[w].pc = pc /\ job'[w].task = job[w].task /\ job'[w].latest = job[w].latest
           /\ \A v \in Workers \ {w} : job'[v] = job[v]
BY DEF Goto, Job

\* That a message stops being the latest one moves no worker.
LEMMA QueueMoves ==
    ASSUME job \in [Workers -> Job], NEW j \in [Workers -> Job], NEW pcs, NEW t,
           job' = Superseded(j, pcs, t)
    PROVE  \A v \in Workers : job'[v].pc = j[v].pc /\ job'[v].task = j[v].task
BY DEF Superseded, Job

\* A runner or a parent that looks at a row stays where it is.
LEMMA LookMoves ==
    ASSUME job \in [Workers -> Job], NEW w \in Workers, NEW t \in Tasks,
           QueueDownstream(w, t) \/ ResetTask(w, t) \/ EnqueueReady(w, t)
    PROVE  \A v \in Workers : Stays(v)
<1> USE DEF Stays
<1>1. CASE QueueDownstream(w, t)
  <2> DEFINE j == [job EXCEPT ![w].todo = @ \ {t}]
  <2>1. j \in [Workers -> Job] /\ \A v \in Workers : j[v].pc = job[v].pc /\ j[v].task = job[v].task
    BY DEF Job
  <2>2. job' = j \/ job' = Superseded(j, TaskPCs, t)
    BY <1>1 DEF QueueDownstream, QueueRequestTask
  <2> HIDE DEF j
  <2> QED BY <2>1, <2>2, QueueMoves
<1>2. CASE EnqueueReady(w, t)
  <2> DEFINE j == [job EXCEPT ![w].ready = @ \ {t}]
  <2>1. j \in [Workers -> Job] /\ \A v \in Workers : j[v].pc = job[v].pc /\ j[v].task = job[v].task
    BY DEF Job
  <2>2. job' = Superseded(j, TaskPCs, t)
    BY <1>2 DEF EnqueueReady, QueueRequestTask
  <2> HIDE DEF j
  <2> QED BY <2>1, <2>2, QueueMoves
<1>3. CASE ResetTask(w, t)
  <2>1. PICK r : \/ job' = [job EXCEPT ![w].todo = @ \ {t}, ![w].ready = r]
                 \/ job' = [job EXCEPT ![w].todo = @ \ {t}, ![w].ready = r, ![w].view = Idle.view]
    <3> DEFINE ready  == (\A u \in Upstream[t] : Shown(w, u) \in Completed) /\ ~RequestTaskRunning(t)
               looked == [job EXCEPT ![w].todo = @ \ {t},
                                     ![w].ready = IF ready THEN @ \cup {t} ELSE @]
    <3>1. job' = looked \/ job' = [looked EXCEPT ![w].view = Idle.view]
      BY <1>3 DEF ResetTask
    <3> QED BY <3>1
  <2>2. CASE job' = [job EXCEPT ![w].todo = @ \ {t}, ![w].ready = r]
    BY <2>2 DEF Job
  <2>3. CASE job' = [job EXCEPT ![w].todo = @ \ {t}, ![w].ready = r, ![w].view = Idle.view]
    BY <2>3 DEF Job
  <2> QED BY <2>1, <2>2, <2>3
<1> QED BY <1>1, <1>2, <1>3

\* What is neither a step of a task nor of the request's message: at most an
\* answer comes in, and at most one job ends, or with a fault breaks off.
Answers(t) ==
    /\ t \in Callbacks /\ ext[t] = "due"
    /\ \/ /\ status[t] = "paused"
          /\ ext' = [ext EXCEPT ![t] = "answered"]
          /\ status' = [status EXCEPT ![t] = "pending"]
       \/ ext' = [ext EXCEPT ![t] = "lost"] /\ status' = status

Leaves(v) ==
    \/ job'[v].pc = "idle" /\ (job[v].pc \in {"end", "exit"} \/ MaxFaults > 0)
    \/ job'[v].pc \in {"terminate", "exit"} /\ MaxFaults > 0

\* So much can a callback, a scheduled job, a fault, a cancel or a restart do to
\* the tasks and the workers.
LEMMA OtherStepsShape ==
    ASSUME TInv, [Next]_vars, \A w \in Workers : ~TaskSteps(w) /\ ~RequestSteps(w)
    PROVE  /\ UNCHANGED <<status, ext>> \/ \E t \in Callbacks : Answers(t)
           /\ \A v \in Workers : Stays(v) \/ Leaves(v)
           /\ UNCHANGED <<everDone, proceeded>>
<1> USE DEF taskVars, requestVars
<1>0. job \in [Workers -> Job] /\ faults \in 0..MaxFaults /\ MaxFaults \in Nat
  BY ConstantsAssumption DEF TInv, TypeOK
<1> DEFINE Goal == /\ UNCHANGED <<status, ext>> \/ \E t \in Callbacks : Answers(t)
                   /\ \A v \in Workers : Stays(v) \/ Leaves(v)
                   /\ UNCHANGED <<everDone, proceeded>>
<1>1. ASSUME NEW w \in Workers, EndJob(w) PROVE Goal
  BY <1>0, <1>1 DEF EndJob, Forget, Idle, Stays, Leaves
<1>2. ASSUME NEW w \in Workers, WorkerDies(w) PROVE Goal
  BY <1>0, <1>2 DEF WorkerDies, Forget, Idle, Stays, Leaves
<1>3. ASSUME NEW w \in Workers, ProceedFails(w) \/ RunRaises(w) PROVE Goal
  <2>1. PICK pc \in {"terminate", "exit"} : Goto(w, pc) /\ MaxFaults > 0
    BY <1>0, <1>3 DEF ProceedFails, RunRaises
  <2>2. \A v \in Workers : Stays(v) \/ Leaves(v)
    BY <1>0, <2>1, GotoMoves DEF Stays, Leaves
  <2>3. UNCHANGED <<status, ext, everDone, proceeded>>
    BY <1>3 DEF ProceedFails, RunRaises
  <2> QED BY <2>2, <2>3
<1>4. ASSUME NEW t \in Collections, Callback(t) PROVE Goal
  <2>1. \A v \in Workers : Stays(v)
    BY <1>0, <1>4, QueueMoves DEF Callback, QueueRequestTask, Stays
  <2>2. Answers(t)
    BY <1>4 DEF Callback, AcceptsCallback, Answers
  <2>3. UNCHANGED <<everDone, proceeded>>
    BY <1>4 DEF Callback
  <2> QED BY <2>1, <2>2, <2>3 DEF Answers
<1>5. ASSUME NEW t \in Collections, RequeuePolling(t) PROVE Goal
  BY <1>0, <1>5, QueueMoves DEF RequeuePolling, QueueRequestTask, Stays
<1>6. ASSUME QueueThisStep(job), UNCHANGED <<taskVars, proceeded>> PROVE Goal
  BY <1>0, <1>6, QueueMoves DEF QueueThisStep, Stays
<1>7. ASSUME UNCHANGED <<taskVars, job, proceeded>> PROVE Goal
  BY <1>7 DEF Stays
<1> HIDE DEF Goal
<1>8. Goal
  BY <1>1, <1>2, <1>3, <1>4, <1>5, <1>6, <1>7
  DEF Next, Worker, Faults, External, Watchdog, NextStepRuns, NextStepLost, PollExited, ErrorExited,
      WatchdogScan, WatchdogLeaves, WatchdogRequeues, WatchdogGivesUp, WatchdogRequeueFails,
      CancelInterrupted, Cancel, Restart, vars
<1> QED BY <1>8 DEF Goal

----------------------------------------------------------------------------
(***************************************************************************)
(* The step that runs once: no worker dies, nothing is requeued, nobody    *)
(* restarts the request.  Then rows are created, or looked through, by one *)
(* worker and before any task is queued: StepInv.                          *)
(***************************************************************************)

StepRunsOnce == MaxFaults = 0 /\ MaxRequeues = 0 /\ MaxRestarts = 0

Running(w) == job[w].pc \in {"run", "create", "reset"}

\* The request has still to be received, or its rows to be created or reset.
Starting == prQueued > 0 \/ (\E w \in Workers : Running(w)) \/ Persisted # Tasks

NothingStarted ==
    /\ \A t \in Tasks : queued[t] = 0 /\ status[t] \in {"absent", "pending", "complete"}
    /\ \A c \in Collections : ext[c] = "unsent"
    /\ \A w \in Workers : Running(w) \/ job[w].pc \in {"exit", "idle"}

StepInv ==
    /\ prQueued \in {0, 1}
    /\ \A w \in Workers : Running(w) => (prQueued = 0 /\ \A v \in Workers : Running(v) => v = w)
    /\ (\E w \in Workers : job[w].pc = "create") \/ Persisted = {} \/ Persisted = Tasks
    /\ \A w \in Workers : job[w].pc = "reset" => Persisted = Tasks
    /\ Starting => NothingStarted

\* What a worker that runs a task can change: where it is, and the status of
\* its own task, or of pending tasks that fail with it.
LEMMA TaskStepsShape ==
    ASSUME TInv, NEW w \in Workers, TaskSteps(w)
    PROVE  /\ job'[w].pc \in TaskPCs /\ \A v \in Workers \ {w} : Stays(v)
           /\ UNCHANGED <<prQueued, prStatus, continued, boundVars>>
           /\ job[w].pc \in TaskPCs \/ (job[w].pc = "idle" /\ \E t \in Tasks : queued[t] > 0)
           /\ \A t \in Tasks :
                \/ status'[t] = status[t]
                \/ t = job[w].task /\ status'[t] \notin {"absent", "pending"}
                \/ status[t] = "pending" /\ status'[t] = "error"
<1> USE DEF taskVars, requestVars
<1>1. /\ job \in [Workers -> Job] /\ status \in [Tasks -> Status] /\ job[w] \in Job
      /\ job[w].task \in Tasks
  BY DEF TInv, TypeOK, Job
<1> DEFINE Own == \A t \in Tasks :
                    \/ status'[t] = status[t]
                    \/ t = job[w].task /\ status'[t] \notin {"absent", "pending"}
                    \/ status[t] = "pending" /\ status'[t] = "error"
           Rest == UNCHANGED <<prQueued, prStatus, continued, boundVars>>
           Moves == /\ job'[w].pc \in TaskPCs /\ \A v \in Workers \ {w} : Stays(v)
                    /\ job[w].pc \in TaskPCs \/ (job[w].pc = "idle" /\ \E t \in Tasks : queued[t] > 0)
<1>2. ASSUME \E t \in Tasks : ReceiveTask(w, t) PROVE Moves
  BY <1>1, <1>2 DEF ReceiveTask, Idle, Stays, TaskPCs
<1>3. ASSUME \/ CheckPrerequisites(w) \/ HydrationFails(w) \/ LogStart(w)
             \/ SkipDisabled(w) \/ FinishBody(w) \/ NoWriteAccess(w) \/ FailBody(w)
             \/ MarkDownstreamFailed(w) \/ SendAsync(w) \/ ParkTask(w) \/ EndDownstream(w)
             \/ CompleteTerminator(w)
      PROVE  Moves
  <2>1. PICK pc \in TaskPCs : Goto(w, pc) /\ job[w].pc \in TaskPCs
    BY <1>3 DEF CheckPrerequisites, HydrationFails, LogStart, SkipDisabled, FinishBody,
       NoWriteAccess, FailBody, MarkDownstreamFailed, SendAsync, ParkTask, EndDownstream,
       CompleteTerminator, TaskPCs
  <2> QED BY <1>1, <2>1, GotoMoves DEF Stays
<1>4. ASSUME RetryBody(w) \/ BeginDownstream(w) PROVE Moves
  BY <1>1, <1>4 DEF RetryBody, BeginDownstream, Goto, Job, Stays, TaskPCs
<1>5. ASSUME NEW d \in Tasks, QueueDownstream(w, d) PROVE Moves
  BY <1>1, <1>5, LookMoves DEF QueueDownstream, Stays, TaskPCs
<1>6. ASSUME Proceed(w) PROVE Moves
  BY <1>1, <1>6 DEF Proceed, Superseded, Job, Stays, TaskPCs
<1>7. Moves
  BY <1>2, <1>3, <1>4, <1>5, <1>6 DEF TaskSteps
<1>8. Rest
  BY DEF TaskSteps, ReceiveTask, CheckPrerequisites, HydrationFails, LogStart, SkipDisabled,
     FinishBody, NoWriteAccess, RetryBody, FailBody, MarkDownstreamFailed, SendAsync, ParkTask,
     BeginDownstream, QueueDownstream, EndDownstream, Proceed, CompleteTerminator
<1>9. Own
  <2>1. CASE UNCHANGED status
    BY <2>1
  <2>2. CASE MarkFailed(job[w].task)
    BY <1>1, <2>2 DEF MarkFailed
  <2>3. CASE \E s \in Status \ {"absent", "pending"} : status' = [status EXCEPT ![job[w].task] = s]
    BY <1>1, <2>3
  <2> HIDE DEF Own
  <2> QED BY <2>1, <2>2, <2>3
          DEF TaskSteps, ReceiveTask, CheckPrerequisites, HydrationFails, LogStart, SkipDisabled,
     FinishBody, NoWriteAccess, RetryBody, FailBody, MarkDownstreamFailed, SendAsync, ParkTask,
     BeginDownstream, QueueDownstream, EndDownstream, Proceed, CompleteTerminator,
     CommitDone, Status, Exited, Completed, Started
<1> QED BY <1>7, <1>8, <1>9

\* Rows are created or reset by a worker that has received the request.
LEMMA RequestStepsShape ==
    ASSUME TInv, NEW w \in Workers, RequestSteps(w)
    PROVE  /\ \A v \in Workers \ {w} : Stays(v)
           /\ UNCHANGED <<ext, prStatus, nextQueued, proceeded, continued, boundVars>>
           /\ \A t \in Tasks : \/ status'[t] = status[t]
                               \/ Running(w) /\ status'[t] \in {"pending", "complete"}
<1> USE DEF taskVars, requestVars
<1>1. /\ job \in [Workers -> Job] /\ status \in [Tasks -> Status]
  BY DEF TInv, TypeOK
<1>2. \A v \in Workers \ {w} : Stays(v)
  <2>1. CASE ReceiveRequest(w) \/ RunRequest(w) \/ TasksCreated(w)
    BY <1>1, <2>1 DEF ReceiveRequest, RunRequest, TasksCreated, Goto, Stays
  <2>2. CASE TasksReset(w) \/ ExitAwaitingTasks(w)
    BY <1>1, <2>2 DEF TasksReset, ExitAwaitingTasks, Goto, Stays
  <2>3. CASE \E t \in Tasks : CreateTask(w, t)
    BY <2>3 DEF CreateTask, Stays
  <2>4. CASE \E t \in Tasks : ResetTask(w, t) \/ EnqueueReady(w, t)
    BY <1>1, <2>4, LookMoves
  <2> QED BY <2>1, <2>2, <2>3, <2>4 DEF RequestSteps
<1>3. UNCHANGED <<ext, prStatus, nextQueued, proceeded, continued, boundVars>>
  BY DEF RequestSteps, ReceiveRequest, RunRequest, CreateTask, TasksCreated, TasksReset,
     ExitAwaitingTasks, ResetTask, EnqueueReady, CommitDone
<1>4. \A t \in Tasks : \/ status'[t] = status[t]
                       \/ Running(w) /\ status'[t] \in {"pending", "complete"}
  BY <1>1 DEF RequestSteps, ReceiveRequest, RunRequest, CreateTask, TasksCreated, TasksReset,
     ExitAwaitingTasks, ResetTask, EnqueueReady, CommitDone, Running
<1> QED BY <1>2, <1>3, <1>4

\* Where the steps of such a worker lead.
RequestMoves(w) ==
    \/ /\ job[w].pc = "idle" /\ prQueued > 0 /\ prQueued' = prQueued - 1
       /\ job'[w].pc = "run" /\ UNCHANGED <<status, queued>>
    \/ /\ prQueued' = prQueued
       /\ \/ /\ job[w].pc = "run" /\ UNCHANGED <<status, queued>>
             /\ \/ job'[w].pc = "exit"
                \/ job'[w].pc = "create" /\ Persisted = {}
                \/ job'[w].pc = "reset" /\ Persisted # {}
          \/ /\ job[w].pc = "create" /\ UNCHANGED queued
             /\ \/ job'[w].pc = "create"
                \/ job'[w].pc = "enqueue" /\ Persisted = Tasks /\ UNCHANGED status
          \/ /\ job[w].pc = "reset" /\ UNCHANGED queued
             /\ job'[w].pc = "reset" \/ (job'[w].pc = "enqueue" /\ UNCHANGED status)
          \/ /\ job[w].pc = "enqueue" /\ job'[w].pc \in {"enqueue", "exit"}
             /\ UNCHANGED status

\* run_privacy_request receives the request, creates or resets rows, queues, exits.
LEMMA RequestStepsMove ==
    ASSUME TInv, NEW w \in Workers, RequestSteps(w)
    PROVE  RequestMoves(w)
<1> USE DEF taskVars, requestVars, brokerVars
<1>1. job \in [Workers -> Job]
  BY DEF TInv, TypeOK
<1>2. ASSUME ReceiveRequest(w) PROVE RequestMoves(w)
  BY <1>1, <1>2 DEF ReceiveRequest, Idle, RequestMoves
<1>3. ASSUME RunRequest(w) PROVE RequestMoves(w)
  <2>1. /\ job[w].pc = "run" /\ UNCHANGED <<status, queued, prQueued>>
        /\ \/ job'[w].pc = "exit"
           \/ job'[w].pc = "create" /\ Persisted = {}
           \/ job'[w].pc = "reset" /\ Persisted # {}
    <3>1. job[w].pc = "run" /\ UNCHANGED <<status, queued, prQueued>>
      BY <1>3 DEF RunRequest
    <3>2. PICK todo, view :
            \/ job' = [job EXCEPT ![w].pc = "exit"]
            \/ job' = [job EXCEPT ![w].pc = "create"] /\ Persisted = {}
            \/ /\ job' = [job EXCEPT ![w].pc = "reset", ![w].todo = todo, ![w].view = view]
               /\ Persisted # {}
      BY <1>3 DEF RunRequest, Goto
    <3> QED BY <1>1, <3>1, <3>2 DEF Job
  <2> QED BY <2>1 DEF RequestMoves
<1>4. ASSUME NEW t \in Tasks, CreateTask(w, t) PROVE RequestMoves(w)
  BY <1>4 DEF CreateTask, RequestMoves
<1>5. ASSUME TasksCreated(w) \/ TasksReset(w) \/ ExitAwaitingTasks(w) PROVE RequestMoves(w)
  BY <1>1, <1>5 DEF TasksCreated, TasksReset, ExitAwaitingTasks, RequestMoves, Goto, Job
<1>6. ASSUME NEW t \in Tasks, ResetTask(w, t) PROVE RequestMoves(w)
  BY <1>1, <1>6, LookMoves DEF ResetTask, RequestMoves, Stays
<1>7. ASSUME NEW t \in Tasks, EnqueueReady(w, t) PROVE RequestMoves(w)
  BY <1>1, <1>7, LookMoves DEF EnqueueReady, RequestMoves, Stays
<1> QED
  BY <1>2, <1>3, <1>4, <1>5, <1>6, <1>7 DEF RequestSteps

\* Everything else leaves the request's own messages at most as many as they
\* were, and queues a task only for an answer or for the next poll.
LEMMA OthersOnce ==
    ASSUME StepRunsOnce, TInv, [Next]_vars, \A w \in Workers : ~TaskSteps(w) /\ ~RequestSteps(w)
    PROVE  /\ prQueued' = prQueued \/ prQueued' = prQueued - 1
           /\ \A t \in Tasks : \/ queued'[t] = queued[t] \/ queued'[t] = queued[t] - 1
                              \/ status[t] \in {"paused", "polling"}
           /\ \A v \in Workers :
                Stays(v) \/ (job[v].pc \in {"end", "exit"} /\ job'[v].pc = "idle")
           /\ UNCHANGED <<status, ext>> \/ \E t \in Callbacks : Answers(t)
           /\ UNCHANGED <<everDone, proceeded>>
<1> USE DEF taskVars, requestVars, brokerVars
<1>1. MaxFaults = 0 /\ faults = 0 /\ requeues = 0 /\ restarts = 0 /\ MaxRequeues = 0 /\ MaxRestarts = 0
  BY DEF StepRunsOnce, TInv, TypeOK
<1>2. queued \in [Tasks -> Nat] /\ status \in [Tasks -> Status]
  BY DEF TInv, TypeOK
<1>3. ASSUME NEW w \in Workers PROVE ~WorkerDies(w) /\ ~ProceedFails(w) /\ ~RunRaises(w)
  BY <1>1 DEF WorkerDies, ProceedFails, RunRaises
<1>4. ~WatchdogRequeues /\ ~WatchdogRequeueFails /\ ~Restart /\ ~NextStepLost
  BY <1>1 DEF WatchdogRequeues, WatchdogRequeueFails, Restart, NextStepLost
<1> DEFINE Q == /\ prQueued' = prQueued \/ prQueued' = prQueued - 1
                /\ \A t \in Tasks : \/ queued'[t] = queued[t] \/ queued'[t] = queued[t] - 1
                                   \/ status[t] \in {"paused", "polling"}
<1>5. ASSUME NEW w \in Workers, EndJob(w) PROVE Q
  BY <1>5 DEF EndJob, Forget
<1>6. ASSUME NEW t \in Collections, Callback(t) PROVE Q
  BY <1>2, <1>6 DEF Callback, AcceptsCallback, QueueRequestTask
<1>7. ASSUME NEW t \in Collections, RequeuePolling(t) PROVE Q
  BY <1>2, <1>7 DEF RequeuePolling, QueueRequestTask
<1>8. ASSUME Revoke PROVE Q
  BY <1>2, <1>8 DEF Revoke
<1>9. ASSUME UNCHANGED <<prQueued, queued>> PROVE Q
  BY <1>9
<1> HIDE DEF Q
<1>10. Q
  BY <1>3, <1>4, <1>5, <1>6, <1>7, <1>8, <1>9
  DEF Next, Worker, Faults, External, Watchdog, NextStepRuns, TakeContinuation, PollExited, ErrorExited,
      WatchdogScan, WatchdogLeaves, WatchdogGivesUp, CancelInterrupted, Cancel, vars
<1> QED BY <1>1, <1>10, OtherStepsShape DEF Q, Leaves

\* While the step starts, and once it has, StepInv is kept.
LEMMA StepInvStep ==
    ASSUME StepRunsOnce, TInv, TInv', StepInv, [Next]_vars
    PROVE  StepInv'
<1>1. /\ job \in [Workers -> Job] /\ status \in [Tasks -> Status] /\ prQueued' \in Nat
      /\ queued \in [Tasks -> Nat] /\ queued' \in [Tasks -> Nat] /\ Callbacks \subseteq Collections
  BY ConstantsAssumption DEF TInv, TypeOK
<1>2. ASSUME NEW w \in Workers, TaskSteps(w) PROVE StepInv'
  <2>1. ~Starting
    <3>1. ~NothingStarted
      BY <1>2, TaskStepsShape DEF NothingStarted, Running, TaskPCs
    <3> QED BY <3>1 DEF StepInv
  <2>2. prQueued' = prQueued /\ \A v \in Workers : ~Running(v)'
    BY <1>2, <2>1, TaskStepsShape DEF Starting, Running, Stays, TaskPCs
  <2>3. Persisted' = Tasks
    BY <1>1, <1>2, <2>1, TaskStepsShape DEF Persisted, Starting
  <2> QED BY <2>1, <2>2, <2>3 DEF StepInv, Starting, Running
<1>3. ASSUME NEW w \in Workers, RequestSteps(w) PROVE StepInv'
  <2>1. RequestMoves(w) /\ \A v \in Workers \ {w} : Stays(v)
    <3>1. RequestMoves(w)
      BY <1>3, RequestStepsMove
    <3>2. \A v \in Workers \ {w} : Stays(v)
      BY <1>3, RequestStepsShape
    <3> QED BY <3>1, <3>2
  <2>2. UNCHANGED <<ext, prStatus, nextQueued, proceeded, continued, boundVars>>
    BY <1>3, RequestStepsShape
  <2>3. \A t \in Tasks :
          \/ status'[t] = status[t]
          \/ Running(w) /\ status'[t] \in {"pending", "complete"}
    BY <1>3, RequestStepsShape
  <2>4. CASE job[w].pc = "idle"
    <3>0. prQueued > 0 /\ prQueued' = prQueued - 1 /\ UNCHANGED <<status, queued>>
      BY <2>1, <2>4 DEF RequestMoves
    <3>1. NothingStarted /\ prQueued = 1 /\ prQueued' = 0 /\ UNCHANGED <<status, queued>>
      BY <3>0 DEF StepInv, Starting
    <3>2. job'[w].pc = "run" /\ Persisted' = Persisted /\ \A v \in Workers : ~Running(v)
      BY <2>1, <2>4, <3>1 DEF StepInv, RequestMoves, Persisted
    <3>3. NothingStarted' /\ Running(w)' /\ \A v \in Workers \ {w} : ~Running(v)'
      BY <2>1, <2>2, <3>1, <3>2 DEF NothingStarted, Running, Stays
    <3>4. \A v \in Workers : job'[v].pc \notin {"create", "reset"} /\ job[v].pc \notin {"create", "reset"}
      BY <3>2, <3>3 DEF Running
    <3> QED BY <3>1, <3>2, <3>3, <3>4 DEF StepInv, Starting
  <2>5. CASE Running(w)
    <3>1. NothingStarted /\ prQueued = 0 /\ prQueued' = 0 /\ \A v \in Workers \ {w} : ~Running(v)
      BY <2>1, <2>5 DEF StepInv, Starting, RequestMoves, Running
    <3>2. \A v \in Workers \ {w} : ~Running(v)' /\ job'[v].pc \in {"exit", "idle"}
      BY <2>1, <3>1 DEF Running, Stays, NothingStarted
    <3>3. UNCHANGED queued
      BY <2>1, <2>5 DEF RequestMoves, Running
    <3>4. Persisted \subseteq Persisted'
      BY <2>3 DEF Persisted
    <3>5. CASE job[w].pc = "run"
      <4>1. /\ \/ job'[w].pc = "exit"
               \/ job'[w].pc = "create" /\ Persisted = {}
               \/ job'[w].pc = "reset" /\ Persisted # {}
            /\ UNCHANGED status /\ Persisted' = Persisted
        BY <2>1, <3>5 DEF RequestMoves, Persisted
      <4>2. Persisted = {} \/ Persisted = Tasks
        BY <2>5, <3>1, <3>5 DEF StepInv, Running
      <4>3. NothingStarted'
        BY <2>2, <3>1, <3>2, <3>3, <4>1 DEF NothingStarted, Running
      <4> QED BY <3>1, <3>2, <4>1, <4>2, <4>3 DEF StepInv, Starting, Running
    <3>6. CASE job[w].pc # "run" /\ job'[w].pc = job[w].pc
      <4>1. NothingStarted'
        BY <2>2, <2>3, <2>5, <3>1, <3>2, <3>3, <3>6 DEF NothingStarted, Running
      <4>2. job[w].pc = "reset" => Persisted' = Tasks
        BY <3>4 DEF StepInv, Persisted
      <4> QED BY <2>5, <3>1, <3>2, <3>6, <4>1, <4>2 DEF StepInv, Starting, Running
    <3>7. CASE job'[w].pc = "enqueue"
      <4>1. Persisted' = Tasks
        BY <2>1, <2>5, <3>7 DEF StepInv, RequestMoves, Running, Persisted
      <4> QED BY <3>1, <3>2, <3>7, <4>1 DEF StepInv, Starting, Running
    <3> QED BY <2>1, <2>5, <3>5, <3>6, <3>7 DEF RequestMoves, Running
  <2>6. CASE job[w].pc = "enqueue"
    <3>1. ~Starting
      BY <2>6 DEF StepInv, NothingStarted, Running
    <3>2. prQueued' = 0 /\ Persisted' = Tasks /\ \A v \in Workers : ~Running(v)'
      BY <1>1, <2>1, <2>6, <3>1 DEF StepInv, Starting, RequestMoves, Running, Stays, Persisted
    <3> QED BY <3>2 DEF StepInv, Starting, Running
  <2> QED BY <2>1, <2>4, <2>5, <2>6 DEF RequestMoves, Running
<1>4. ASSUME \A w \in Workers : ~TaskSteps(w) /\ ~RequestSteps(w) PROVE StepInv'
  <2>1. \A t \in Tasks : status'[t] = status[t] \/ (status[t] = "paused" /\ status'[t] = "pending")
    BY <1>1, <1>4, OthersOnce DEF Answers
  <2>2. Persisted' = Persisted
    BY <2>1 DEF Persisted
  <2>3. \A v \in Workers : Running(v) \/ Running(v)' => Running(v) /\ job'[v].pc = job[v].pc
    BY <1>4, OthersOnce DEF Running, Stays
  <2>4. prQueued' = prQueued \/ prQueued' = prQueued - 1
    BY <1>4, OthersOnce
  <2>5. CASE Starting
    <3>1. NothingStarted
      BY <2>5 DEF StepInv
    <3>2. UNCHANGED <<status, ext>>
      BY <1>1, <1>4, <3>1, OthersOnce DEF Answers, NothingStarted
    <3>3. \A t \in Tasks : queued'[t] = 0
      BY <1>1, <1>4, <3>1, OthersOnce DEF NothingStarted
    <3>4. \A v \in Workers : Running(v)' \/ job'[v].pc \in {"exit", "idle"}
      BY <1>4, <3>1, OthersOnce DEF NothingStarted, Running, Stays
    <3>5. NothingStarted'
      BY <3>1, <3>2, <3>3, <3>4 DEF NothingStarted
    <3> QED BY <1>1, <2>2, <2>3, <2>4, <3>5 DEF StepInv, Starting, Running
  <2>6. CASE ~Starting
    <3>1. prQueued' = 0 /\ (\A v \in Workers : ~Running(v)') /\ Persisted' = Tasks
      BY <1>1, <2>2, <2>3, <2>4, <2>6 DEF Starting, StepInv
    <3> QED BY <3>1 DEF StepInv, Starting, Running
  <2> QED BY <2>5, <2>6
<1> QED BY <1>2, <1>3, <1>4

\* StepInv holds in every execution in which the step runs once.
LEMMA StepInvHolds ==
    ASSUME StepRunsOnce
    PROVE  Spec => []StepInv
<1>1. Init => StepInv
  <2> SUFFICES ASSUME Init PROVE StepInv
    OBVIOUS
  <2>1. /\ \A w \in Workers : job[w].pc = "idle"
        /\ \A t \in Tasks : queued[t] = 0 /\ status[t] \in {"absent", "pending", "complete"}
        /\ \A c \in Collections : ext[c] = "unsent"
        /\ prQueued = 1
    BY DEF Init, Idle
  <2>2. Persisted = {} \/ Persisted = Tasks
    BY DEF Init, Persisted
  <2> QED BY <2>1, <2>2 DEF StepInv, NothingStarted, Running
<1>2. TInv /\ TInv' /\ StepInv /\ [Next]_vars => StepInv'
  BY StepInvStep
<1> QED BY <1>1, <1>2, OrderInvariant, PTL DEF Spec

----------------------------------------------------------------------------
(***************************************************************************)
(* A failure takes everything below it along: FailInv.                     *)
(***************************************************************************)

\* The descendants of a descendant are descendants.
LEMMA DescendantsTransitive ==
    ASSUME NEW t \in Tasks, NEW s \in Descendants[t], NEW d \in Descendants[s]
    PROVE  d \in Descendants[t] /\ s \in Tasks /\ d \in Tasks
<1>1. s \in Tasks
  BY DEF Descendants
<1>2. d \in Tasks
  BY <1>1 DEF Descendants
<1>3. ASSUME NEW S \in SUBSET Tasks, Downstream[t] \subseteq S, DownstreamClosed(S)
      PROVE  d \in S
  <2>1. s \in S
    BY <1>3 DEF Descendants
  <2>2. Downstream[s] \subseteq S
    BY <1>3, <2>1 DEF DownstreamClosed
  <2> QED BY <1>1, <1>3, <2>2 DEF Descendants
<1> QED BY <1>1, <1>2, <1>3 DEF Descendants

\* A task that has still to be given its first message.
Waits(d) == status[d] = "pending" /\ (d \in Callbacks => ext[d] = "unsent")

Marking(w, t) == job[w].pc \in {"mark", "abort"} /\ job[w].task = t

FailInv ==
    \A t \in Tasks : status[t] = "error" =>
        \/ \E w \in Workers : Marking(w, t)
        \/ \A d \in Descendants[t] : ~Waits(d)

\* How a worker that runs a task makes tasks fail.
FailsWith(w) ==
    LET t == job[w].task IN
    \/ /\ MarkFailed(t) /\ (job[w].pc \in {"mark", "abort"} \/ t \in Failing)
       /\ job'[w].pc \notin {"mark", "abort"}
    \/ /\ status' = [status EXCEPT ![t] = "error"] /\ job[w].pc = "body" /\ t \in Failing
       /\ job'[w].pc \in {"mark", "abort"} /\ job'[w].task = t
    \/ /\ status' = [status EXCEPT ![t] = "error"] /\ job[w].pc = "body" /\ t \in ReadOnly
       /\ job'[w].pc \notin {"mark", "abort"}
    \/ /\ \A s \in Tasks : status'[s] = "error" => status[s] = "error"
       /\ job[w].pc \notin {"mark", "abort"} /\ job'[w].pc \notin {"mark", "abort"}

\* A task fails alone, with its descendants, or not at all.
LEMMA TaskStepsFail ==
    ASSUME TInv, NEW w \in Workers, TaskSteps(w)
    PROVE  FailsWith(w)
<1> USE DEF taskVars
<1>1. job \in [Workers -> Job] /\ status \in [Tasks -> Status] /\ job[w].task \in Tasks
  BY DEF TInv, TypeOK, Job
<1>2. ASSUME HydrationFails(w) \/ MarkDownstreamFailed(w) PROVE FailsWith(w)
  BY <1>1, <1>2, GotoMoves DEF HydrationFails, MarkDownstreamFailed, FailsWith
<1>3. ASSUME FailBody(w) PROVE FailsWith(w)
  <2>1. PICK pc \in {"mark", "abort"} : Goto(w, pc)
    BY <1>3 DEF FailBody
  <2>2. job'[w].pc \in {"mark", "abort"} /\ job'[w].task = job[w].task
    BY <1>1, <2>1, GotoMoves
  <2> QED BY <1>3, <2>2 DEF FailBody, FailsWith
<1>4. ASSUME NoWriteAccess(w) PROVE FailsWith(w)
  BY <1>1, <1>4, GotoMoves DEF NoWriteAccess, FailsWith
<1> DEFINE Else == /\ \A s \in Tasks : status'[s] = "error" => status[s] = "error"
                   /\ job[w].pc \notin {"mark", "abort"} /\ job'[w].pc \notin {"mark", "abort"}
<1>5. ASSUME LogStart(w) \/ SkipDisabled(w) \/ FinishBody(w) \/ ParkTask(w) \/ CompleteTerminator(w)
      PROVE  Else
  <2>1. \A s \in Tasks : status'[s] = "error" => status[s] = "error"
    BY <1>1, <1>5 DEF LogStart, SkipDisabled, FinishBody, ParkTask, CompleteTerminator, CommitDone, Completed
  <2>2. job[w].pc \notin {"mark", "abort"} /\ job'[w].pc \notin {"mark", "abort"}
    BY <1>1, <1>5, GotoMoves DEF LogStart, SkipDisabled, FinishBody, ParkTask, CompleteTerminator
  <2> QED BY <2>1, <2>2
<1>6. ASSUME CheckPrerequisites(w) \/ SendAsync(w) \/ EndDownstream(w) PROVE Else
  BY <1>1, <1>6, GotoMoves DEF CheckPrerequisites, SendAsync, EndDownstream
<1>7. ASSUME \E t \in Tasks : ReceiveTask(w, t) PROVE Else
  BY <1>1, <1>7 DEF ReceiveTask, Idle
<1>8. ASSUME RetryBody(w) \/ BeginDownstream(w) PROVE Else
  BY <1>1, <1>8 DEF RetryBody, BeginDownstream, Goto, Job
<1>9. ASSUME \E t \in Tasks : QueueDownstream(w, t) PROVE Else
  BY <1>1, <1>9, LookMoves DEF QueueDownstream, Stays
<1>10. ASSUME Proceed(w) PROVE Else
  BY <1>1, <1>10 DEF Proceed, Superseded, Job
<1>11. Else => FailsWith(w)
  BY DEF FailsWith
<1> HIDE DEF Else
<1> QED BY <1>2, <1>3, <1>4, <1>5, <1>6, <1>7, <1>8, <1>9, <1>10, <1>11 DEF TaskSteps

\* Once the step has started, no task comes to wait again.
LEMMA WaitsShrink ==
    ASSUME StepRunsOnce, TInv, StepInv, ~NothingStarted, [Next]_vars, NEW d \in Tasks, Waits(d)'
    PROVE  Waits(d)
<1>1. /\ status \in [Tasks -> Status] /\ Callbacks \subseteq Collections
      /\ ext \in [Collections -> {"unsent", "due", "answered", "lost"}]
      /\ \A w \in Workers : ~Running(w)
  BY ConstantsAssumption DEF TInv, TypeOK, StepInv, Starting
<1>2. ASSUME NEW w \in Workers, TaskSteps(w) PROVE Waits(d)
  <2>1. status[d] = "pending"
    BY <1>2, TaskStepsShape DEF Waits
  <2>2. ext' = ext \/ ext' = [ext EXCEPT ![job[w].task] = "due"]
    BY <1>2 DEF TaskSteps, ReceiveTask, CheckPrerequisites, HydrationFails, LogStart, SkipDisabled,
       FinishBody, NoWriteAccess, RetryBody, FailBody, MarkDownstreamFailed, SendAsync, ParkTask,
       BeginDownstream, QueueDownstream, EndDownstream, Proceed, CompleteTerminator, taskVars
  <2>3. d \in Callbacks => ext[d] = "unsent"
    BY <1>1, <2>2 DEF Waits
  <2> QED BY <2>1, <2>3 DEF Waits
<1>3. ASSUME NEW w \in Workers, RequestSteps(w) PROVE Waits(d)
  BY <1>1, <1>3, RequestStepsShape DEF Waits
<1>4. ASSUME UNCHANGED <<status, ext>> PROVE Waits(d)
  BY <1>4 DEF Waits
<1>5. ASSUME NEW t \in Callbacks, Answers(t) PROVE Waits(d)
  <2>1. t # d
    BY <1>1, <1>5 DEF Answers, Waits
  <2>2. status'[d] = status[d] /\ (d \in Collections => ext'[d] = ext[d])
    BY <1>1, <1>5, <2>1 DEF Answers
  <2> QED BY <1>1, <2>2 DEF Waits
<1> QED BY <1>2, <1>3, <1>4, <1>5, OthersOnce

\* Every step keeps FailInv: whatever fails, fails what waits below it, and nothing
\* comes to wait below it later.
LEMMA FailInvStep ==
    ASSUME StepRunsOnce, ReadOnly = {}, TInv, StepInv, FailInv, [Next]_vars
    PROVE  FailInv'
<1>1. /\ job \in [Workers -> Job] /\ status \in [Tasks -> Status]
      /\ Callbacks \subseteq Collections /\ Callbacks \subseteq Tasks
  BY ConstantsAssumption DEF TInv, TypeOK, Tasks
<1>2. CASE NothingStarted
  <2>1. \A t \in Tasks : status[t] # "error"
    BY <1>2 DEF NothingStarted
  <2>2. \A w \in Workers : ~TaskSteps(w)
    BY <1>2, TaskStepsShape DEF NothingStarted, Running, TaskPCs
  <2>3. \A t \in Tasks : status'[t] # "error"
    BY <1>1, <2>1, <2>2, RequestStepsShape, OthersOnce DEF Answers
  <2> QED BY <2>3 DEF FailInv
<1>3. CASE ~NothingStarted
  <2> SUFFICES ASSUME NEW t \in Tasks, status'[t] = "error", ~\E w \in Workers : Marking(w, t)',
                      NEW d \in Descendants[t], Waits(d)'
               PROVE  FALSE
    BY DEF FailInv
  <2>1. d \in Tasks
    BY DEF Descendants
  <2>2. Waits(d)
    BY <1>3, <2>1, WaitsShrink
  <2>3. ASSUME status[t] = "error" PROVE \E w \in Workers : Marking(w, t) /\ ~Stays(w)
    <3>1. PICK w \in Workers : Marking(w, t)
      BY <2>2, <2>3 DEF FailInv
    <3>2. ~Stays(w)
      BY <3>1 DEF Stays, Marking
    <3> QED BY <3>1, <3>2
  <2>4. ASSUME NEW w \in Workers, TaskSteps(w) PROVE FALSE
    <3>1. job[w].task \in Tasks /\ \A v \in Workers \ {w} : Stays(v)
      BY <1>1, <2>4, TaskStepsShape DEF Job
    <3>2. status[t] = "error" => Marking(w, t)
      BY <2>3, <3>1
    <3>3. CASE MarkFailed(job[w].task)
      <4>1. t = job[w].task \/ t \in Descendants[job[w].task]
        BY <1>1, <3>2, <3>3 DEF MarkFailed, Marking
      <4>2. d \in Descendants[job[w].task]
        BY <3>1, <4>1, DescendantsTransitive
      <4>3. status'[d] # "pending"
        BY <1>1, <2>1, <3>3, <4>2 DEF MarkFailed
      <4> QED BY <4>3 DEF Waits
    <3>4. CASE /\ job[w].pc = "body" /\ job'[w].pc \in {"mark", "abort"} /\ job'[w].task = job[w].task
               /\ status' = [status EXCEPT ![job[w].task] = "error"]
      <4>1. t # job[w].task
        BY <3>4 DEF Marking
      <4>2. status[t] = "error"
        BY <1>1, <3>4, <4>1
      <4> QED BY <3>2, <3>4, <4>2 DEF Marking
    <3>5. CASE /\ job[w].pc \notin {"mark", "abort"}
               /\ \A s \in Tasks : status'[s] = "error" => status[s] = "error"
      BY <3>2, <3>5 DEF Marking
    <3> QED BY <2>4, <3>3, <3>4, <3>5, TaskStepsFail DEF FailsWith
  <2>5. ASSUME NEW w \in Workers, RequestSteps(w) PROVE FALSE
    <3>1. status[t] = "error" /\ \A v \in Workers \ {w} : Stays(v)
      BY <2>5, RequestStepsShape
    <3>2. Marking(w, t)
      BY <2>3, <3>1
    <3> QED BY <2>5, <3>2, RequestStepsMove DEF RequestMoves, Marking
  <2>6. CASE \A w \in Workers : ~TaskSteps(w) /\ ~RequestSteps(w)
    <3>1. status[t] = "error"
      BY <1>1, <2>6, OthersOnce DEF Answers
    <3>2. PICK w \in Workers : Marking(w, t) /\ ~Stays(w)
      BY <2>3, <3>1
    <3> QED BY <2>6, <3>2, OthersOnce DEF Marking
  <2> QED BY <2>4, <2>5, <2>6
<1> QED BY <1>2, <1>3

\* A failed collection takes everything below it along, if the step runs once,
\* no connection lacks write access and no answer is waited for.
THEOREM FailureReachesDescendantsHolds ==
    ASSUME StepRunsOnce, ReadOnly = {}, Callbacks = {}
    PROVE  Spec => []FailureReachesDescendants
<1>1. Init => FailInv
  BY DEF Init, FailInv
<1>2. TInv /\ StepInv /\ FailInv /\ [Next]_vars => FailInv'
  BY FailInvStep
<1>3. FailInv => FailureReachesDescendants
  <2> SUFFICES ASSUME FailInv, NEW t \in Collections, status[t] = "error",
                      \A w \in Workers : job[w].pc \notin {"mark", "abort", "reset"},
                      NEW d \in Descendants[t]
               PROVE  status[d] # "pending"
    BY DEF FailureReachesDescendants
  <2>1. t \in Tasks /\ ~\E w \in Workers : Marking(w, t)
    BY DEF Marking, Tasks
  <2> QED BY <2>1 DEF FailInv, Waits
<1> QED BY <1>1, <1>2, <1>3, OrderInvariant, StepInvHolds, PTL DEF Spec

----------------------------------------------------------------------------
(***************************************************************************)
(* While no worker dies, the rows are created by one run of the request,   *)
(* however often it is canceled, given up, requeued or restarted: FreshInv.*)
(***************************************************************************)

\* The run of the request that the rows are created by, or a worker that has
\* given it up; at most one holds the message whose id is cached.
Creating(w) == job[w].pc \in {"run", "create"}
Holds(w) == job[w].pc \in RequestPCs /\ job[w].latest

Fresh ==
    /\ \A t \in Tasks : queued[t] = 0 /\ status[t] \in {"absent", "pending", "complete"}
    /\ \A w \in Workers : Creating(w) \/ job[w].pc \in {"exit", "idle"}
    /\ \A w \in Workers : Creating(w) => job[w].latest
    /\ \A w \in Workers : Holds(w) => prCached = "running"
    /\ \A v, w \in Workers : Holds(v) /\ Holds(w) => v = w
    /\ Persisted # {} => \E w \in Workers : job[w].pc = "create"
    /\ prCached \in {"queued", "running", "gone"}
    /\ prQueued = IF prCached = "queued" THEN 1 ELSE 0
    /\ nextQueued = 0 /\ ~scans.errored
    /\ prCached = "queued" /\ scans.watching => scans.seenRequest
    /\ prStatus = "error" => prCached = "gone" /\ ~scans.watching

FreshInv == Persisted # Tasks => Fresh

\* A row, once created, stays.
LEMMA PersistedGrows ==
    ASSUME TInv, [Next]_vars
    PROVE  Persisted \subseteq Persisted'
<1>1. status \in [Tasks -> Status] /\ Callbacks \subseteq Tasks
  BY ConstantsAssumption DEF TInv, TypeOK, Tasks
<1>2. ASSUME NEW w \in Workers, TaskSteps(w) PROVE Persisted \subseteq Persisted'
  BY <1>2, TaskStepsShape DEF Persisted
<1>3. ASSUME NEW w \in Workers, RequestSteps(w) PROVE Persisted \subseteq Persisted'
  BY <1>3, RequestStepsShape DEF Persisted
<1>4. CASE \A w \in Workers : ~TaskSteps(w) /\ ~RequestSteps(w)
  <2>1. \A t \in Tasks : status'[t] = status[t] \/ status'[t] = "pending"
    BY <1>1, <1>4, OtherStepsShape DEF Answers
  <2> QED BY <2>1 DEF Persisted
<1> QED BY <1>2, <1>3, <1>4

\* The worker that creates the rows keeps the others out.
LEMMA CreatorAlone ==
    ASSUME TInv, Fresh, prCached # "running"
    PROVE  /\ \A w \in Workers : ~Creating(w) /\ ~Holds(w)
           /\ Persisted = {}
<1>1. \A w \in Workers : ~Holds(w)
  BY DEF Fresh
<1>2. \A w \in Workers : ~Creating(w)
  BY <1>1 DEF Fresh, Creating, Holds, RequestPCs
<1> QED BY <1>1, <1>2 DEF Fresh, Creating

\* The run that creates the rows keeps Fresh until the last of them.
LEMMA FreshRequestSteps ==
    ASSUME TInv, Fresh, NEW w \in Workers, RequestSteps(w), Persisted' # Tasks, TInv'
    PROVE  Fresh'
<1> USE DEF taskVars, brokerVars, requestVars, boundVars
<1>1. job \in [Workers -> Job] /\ status \in [Tasks -> Status]
  BY DEF TInv, TypeOK
<1>2. ASSUME ReceiveRequest(w) PROVE Fresh'
  <2>1. prCached = "queued" /\ prQueued = 1 /\ Persisted = {}
    BY <1>2, CreatorAlone DEF ReceiveRequest, Fresh
  <2>2. \A v \in Workers : ~Creating(v) /\ ~Holds(v)
    BY <2>1, CreatorAlone
  <2>3. /\ prCached' = "running" /\ prQueued' = 0
        /\ job' = [job EXCEPT ![w] = [Idle EXCEPT !.pc = "run", !.latest = TRUE]]
    BY <1>2, <2>1 DEF ReceiveRequest
  <2>4. job'[w].pc = "run" /\ job'[w].latest /\ \A v \in Workers \ {w} : job'[v] = job[v]
    BY <1>1, <2>3 DEF Idle
  <2>5. UNCHANGED <<status, queued, nextQueued, scans, prStatus>>
    BY <1>2 DEF ReceiveRequest
  <2>6. Persisted' = {}
    BY <2>1, <2>5 DEF Persisted
  <2>7. /\ \A v \in Workers : Creating(v)' \/ job'[v].pc \in {"exit", "idle"}
        /\ \A v \in Workers : Creating(v)' => job'[v].latest
        /\ \A v \in Workers : Holds(v)' => v = w
    BY <2>2, <2>4 DEF Fresh, Creating, Holds
  <2> QED BY <2>1, <2>3, <2>5, <2>6, <2>7 DEF Fresh
<1>3. ASSUME RunRequest(w) PROVE Fresh'
  <2>1. job[w].pc = "run" /\ Holds(w)
    BY <1>3 DEF RunRequest, Fresh, Creating, Holds, RequestPCs
  <2>2. \A v \in Workers : job[v].pc # "create"
    BY <2>1 DEF Fresh, Creating, Holds, RequestPCs
  <2>3. Persisted = {}
    BY <2>2 DEF Fresh
  <2>4. job' = [job EXCEPT ![w].pc = "exit"] \/ job' = [job EXCEPT ![w].pc = "create"]
    BY <1>3, <2>3 DEF RunRequest, Goto
  <2>5. /\ job'[w].pc \in {"exit", "create"} /\ job'[w].latest
        /\ \A v \in Workers \ {w} : job'[v] = job[v]
    BY SMTT(30), <1>1, <2>1, <2>4 DEF Job, Holds
  <2>6. UNCHANGED <<status, queued, nextQueued, scans, prStatus, prCached, prQueued>>
    BY <1>3 DEF RunRequest
  <2>7. Persisted' = {}
    BY <2>3, <2>6 DEF Persisted
  <2>8. /\ \A v \in Workers : Creating(v)' \/ job'[v].pc \in {"exit", "idle"}
        /\ \A v \in Workers : Creating(v)' => job'[v].latest
        /\ \A v \in Workers : Holds(v)' => Holds(v)
    BY <2>1, <2>5 DEF Fresh, Creating, Holds
  <2> QED BY <2>6, <2>7, <2>8 DEF Fresh
<1>4. ASSUME NEW t \in Tasks, CreateTask(w, t) PROVE Fresh'
  <2>1. /\ UNCHANGED <<job, queued, nextQueued, scans, prStatus, prCached, prQueued>>
        /\ job[w].pc = "create"
    BY <1>4 DEF CreateTask
  <2>2. \A s \in Tasks : status'[s] \in {"absent", "pending", "complete"}
    BY <1>1, <1>4 DEF CreateTask, CommitDone, Fresh
  <2> QED BY <2>1, <2>2 DEF Fresh, Creating, Holds
<1>5. ~TasksCreated(w)
  <2>1. Persisted' # Persisted \/ Persisted # Tasks
    OBVIOUS
  <2>2. TasksCreated(w) => UNCHANGED status
    BY DEF TasksCreated
  <2> QED BY <2>1, <2>2 DEF TasksCreated, Persisted
<1>6. job[w].pc \notin {"reset", "enqueue"}
  BY DEF Fresh, Creating
<1> QED BY <1>2, <1>3, <1>4, <1>5, <1>6
        DEF RequestSteps, TasksReset, ResetTask, EnqueueReady, ExitAwaitingTasks

\* Nor do the schedulers, the user or an ended job disturb it.
LEMMA FreshOtherSteps ==
    ASSUME MaxFaults = 0, TInv, Fresh, Persisted # Tasks, [Next]_vars,
           \A w \in Workers : ~TaskSteps(w) /\ ~RequestSteps(w)
    PROVE  Fresh'
<1> USE DEF taskVars, brokerVars, requestVars, boundVars
<1>0. /\ job \in [Workers -> Job] /\ status \in [Tasks -> Status] /\ faults = 0 /\ scans \in Scans
      /\ queued \in [Tasks -> Nat] /\ nextQueued \in Nat
  BY DEF TInv, TypeOK
<1>1. ASSUME NEW w \in Workers PROVE ~WorkerDies(w) /\ ~ProceedFails(w) /\ ~RunRaises(w)
  BY <1>0 DEF WorkerDies, ProceedFails, RunRaises
<1>2. /\ ~NextStepLost /\ ~WatchdogRequeueFails /\ ~NextStepRuns /\ ~ErrorExited /\ ~PollExited
      /\ \A t \in Collections : ~RequeuePolling(t)
  BY <1>0 DEF NextStepLost, WatchdogRequeueFails, NextStepRuns, TakeContinuation, ErrorExited, PollExited,
     HasErroredTasks, Persisted, Fresh, RequeuePolling, Tasks
<1>3. ASSUME NEW w \in Workers, EndJob(w) PROVE Fresh'
  <2>1. job[w].pc = "exit" /\ job' = [job EXCEPT ![w] = Idle]
    BY <1>3 DEF EndJob, Forget, Fresh, Creating
  <2>2. /\ job'[w].pc = "idle" /\ \A v \in Workers \ {w} : job'[v] = job[v]
    BY <1>0, <2>1 DEF Idle
  <2>3. UNCHANGED <<status, queued, nextQueued, prQueued, scans, prStatus>>
    BY <1>3, <2>1 DEF EndJob, Forget
  <2>4. prCached' = IF Holds(w) THEN "gone" ELSE prCached
    BY <1>3, <2>1 DEF EndJob, Forget, Holds
  <2>5. Holds(w) => \A v \in Workers \ {w} : ~Creating(v) /\ ~Holds(v)
    BY DEF Fresh, Creating, Holds, RequestPCs
  <2>6. /\ \A v \in Workers : Creating(v)' \/ job'[v].pc \in {"exit", "idle"}
        /\ \A v \in Workers : Creating(v)' => job'[v].latest /\ Creating(v)
        /\ \A v \in Workers : Holds(v)' => Holds(v) /\ v # w
        /\ \A v \in Workers : job[v].pc = "create" => job'[v].pc = "create"
    BY <2>1, <2>2 DEF Fresh, Creating, Holds, RequestPCs
  <2>7. Persisted' = Persisted
    BY <2>3 DEF Persisted
  <2>8. CASE Holds(w)
    <3>1. prCached' = "gone" /\ prCached = "running" /\ prQueued' = 0
      BY <2>3, <2>4, <2>8 DEF Fresh
    <3> QED BY <2>3, <2>5, <2>6, <2>7, <2>8, <3>1 DEF Fresh
  <2>9. CASE ~Holds(w)
    BY <2>3, <2>4, <2>6, <2>7, <2>9 DEF Fresh
  <2> QED BY <2>8, <2>9
<1>4. ASSUME NEW t \in Collections, Callback(t) PROVE Fresh'
  <2>1. ~AcceptsCallback(t)
    BY DEF AcceptsCallback, Fresh, Tasks
  <2>2. UNCHANGED <<status, queued, job, scans, prStatus, prQueued, prCached, nextQueued>>
    BY <1>4, <2>1 DEF Callback
  <2>3. Persisted' = Persisted
    BY <2>2 DEF Persisted
  <2> QED BY <2>2, <2>3 DEF Fresh, Creating, Holds
<1>5. ASSUME WatchdogScan \/ WatchdogLeaves PROVE Fresh'
  <2>1. UNCHANGED <<status, queued, job, prStatus, prQueued, prCached, nextQueued>>
    BY <1>5 DEF WatchdogScan, WatchdogLeaves
  <2>2. /\ scans'.errored = scans.errored
        /\ \/ ~scans'.watching
           \/ scans'.seenRequest = (prCached \in {"queued", "next"}) /\ prStatus = "in_processing"
    BY <1>0, <1>5 DEF WatchdogScan, WatchdogLeaves, EndScan, Scans
  <2>3. Persisted' = Persisted
    BY <2>1 DEF Persisted
  <2> QED BY <2>1, <2>2, <2>3 DEF Fresh, Creating, Holds
<1>6. ASSUME QueueThisStep(job), UNCHANGED <<status, queued, nextQueued>>,
             prCached = "gone", ~scans'.watching, scans'.errored = scans.errored,
             prStatus' # "error"
      PROVE  Fresh'
  <2>1. /\ \A w \in Workers : ~Creating(w) /\ ~Holds(w)
        /\ Persisted = {} /\ prQueued = 0
    BY <1>6, CreatorAlone DEF Fresh
  <2>2. prCached' = "queued" /\ prQueued' = 1
    BY <1>6, <2>1 DEF QueueThisStep
  <2>3. \A w \in Workers : job'[w] = job[w] \/ (job'[w].pc = job[w].pc /\ ~job'[w].latest)
    BY <1>0, <1>6 DEF QueueThisStep, Superseded, Job
  <2>4. /\ \A w \in Workers : ~Creating(w)' /\ ~Holds(w)'
        /\ \A w \in Workers : job'[w].pc \in {"exit", "idle"}
    BY <2>1, <2>3 DEF Creating, Holds, Fresh
  <2>5. Persisted' = {}
    BY <1>6, <2>1 DEF Persisted
  <2> QED BY <1>6, <2>2, <2>4, <2>5 DEF Fresh
<1>7. ASSUME Revoke, UNCHANGED <<status, job>>, prCached # "running" \/ prStatus' # "error",
             scans' = scans \/ scans' = EndScan(scans), prStatus' = "error" => scans' = EndScan(scans)
      PROVE  Fresh'
  <2>1. InQueue = {}
    BY DEF Fresh, TInv, Counted, InQueue
  <2>2. queued' = queued /\ nextQueued' = nextQueued
    BY <1>0, <1>7, <2>1 DEF Revoke, Fresh
  <2>3. /\ prCached' = IF prCached = "queued" THEN "gone" ELSE prCached
        /\ prQueued' = 0
    BY <1>7 DEF Revoke, Fresh
  <2>4. /\ scans'.errored = scans.errored
        /\ prStatus' = "error" => ~scans'.watching
    BY <1>0, <1>7 DEF EndScan, Scans
  <2>5. Persisted' = Persisted
    BY <1>7 DEF Persisted
  <2> QED BY <1>7, <2>2, <2>3, <2>4, <2>5 DEF Fresh, Creating, Holds
<1>8. ASSUME ~MainTaskActive, WatchdogChecks PROVE prCached = "gone" /\ prStatus # "error"
  BY <1>8 DEF MainTaskActive, WatchdogChecks, Fresh
<1>9. ASSUME WatchdogRequeues PROVE Fresh'
  BY <1>0, <1>6, <1>8, <1>9 DEF WatchdogRequeues, EndScan, Scans
<1>10. ASSUME WatchdogGivesUp PROVE Fresh'
  BY <1>0, <1>7, <1>8, <1>10 DEF WatchdogGivesUp, CancelInterrupted
<1>11. ASSUME Cancel PROVE Fresh'
  BY <1>7, <1>11 DEF Cancel
<1>12. ASSUME Restart PROVE Fresh'
  BY <1>0, <1>6, <1>12 DEF Restart, Fresh, Scans
<1>13. ASSUME UNCHANGED vars PROVE Fresh'
  BY <1>13 DEF vars, Fresh, Creating, Holds, Persisted
<1> QED BY <1>1, <1>2, <1>3, <1>4, <1>5, <1>9, <1>10, <1>11, <1>12, <1>13
        DEF Next, Worker, Faults, External, Watchdog

\* The rows are created by one run, if no worker dies.
LEMMA FreshInvHolds ==
    ASSUME MaxFaults = 0
    PROVE  Spec => []FreshInv
<1>1. Init => FreshInv
  <2> SUFFICES ASSUME Init, Persisted # Tasks PROVE Fresh
    BY DEF FreshInv
  <2>1. \A w \in Workers : job[w].pc = "idle"
    BY DEF Init, Idle
  <2>2. Persisted = {}
    BY DEF Init, Persisted
  <2>3. ~scans.errored /\ ~scans.watching
    BY DEF Init
  <2> QED BY <2>1, <2>2, <2>3 DEF Init, Fresh, Creating, Holds, RequestPCs
<1>2. TInv /\ TInv' /\ FreshInv /\ [Next]_vars => FreshInv'
  <2> SUFFICES ASSUME TInv, TInv', FreshInv, [Next]_vars, Persisted' # Tasks PROVE Fresh'
    BY DEF FreshInv
  <2>1. Persisted # Tasks /\ Fresh
    BY PersistedGrows DEF FreshInv, Persisted
  <2>2. \A w \in Workers : ~TaskSteps(w)
    BY <2>1, TaskStepsShape DEF Fresh, Creating, TaskPCs
  <2>3. ASSUME NEW w \in Workers, RequestSteps(w) PROVE Fresh'
    BY <2>1, <2>3, FreshRequestSteps
  <2>4. CASE \A w \in Workers : ~TaskSteps(w) /\ ~RequestSteps(w)
    BY <2>1, <2>4, FreshOtherSteps
  <2> QED BY <2>2, <2>3, <2>4
<1> QED BY <1>1, <1>2, OrderInvariant, PTL DEF Spec

----------------------------------------------------------------------------

\* A task in error can fail, or lies below one that can.
ErrorInv ==
    /\ \A t \in Tasks : status[t] = "error" => CanBeFailed(t)
    /\ \A w \in Workers : job[w].pc \in {"mark", "abort"} => job[w].task \in Failing

\* Every step keeps ErrorInv, faults and restarts included.
LEMMA ErrorInvStep ==
    ASSUME TInv, ErrorInv, [Next]_vars
    PROVE  ErrorInv'
<1>1. job \in [Workers -> Job] /\ status \in [Tasks -> Status] /\ Callbacks \subseteq Tasks
  BY ConstantsAssumption DEF TInv, TypeOK, Tasks
<1>2. ASSUME NEW w \in Workers, TaskSteps(w) PROVE ErrorInv'
  <2>1. FailsWith(w) /\ job[w].task \in Tasks
    BY <1>1, <1>2, TaskStepsFail DEF Job
  <2>2. \A v \in Workers \ {w} : Stays(v)
    BY <1>2, TaskStepsShape
  <2>3. job'[w].pc \in {"mark", "abort"} => job'[w].task \in Failing
    BY <2>1 DEF FailsWith
  <2>4. ASSUME NEW t \in Tasks, status'[t] = "error", status[t] # "error" PROVE CanBeFailed(t)
    <3>1. job[w].task \in MayFail /\ (t = job[w].task \/ t \in Descendants[job[w].task])
      BY <1>1, <2>1, <2>4 DEF FailsWith, MarkFailed, ErrorInv, MayFail
    <3> QED BY <3>1 DEF CanBeFailed
  <2> QED BY <2>2, <2>3, <2>4 DEF ErrorInv, Stays
<1>3. ASSUME NEW w \in Workers, RequestSteps(w) PROVE ErrorInv'
  <2>1. \A v \in Workers \ {w} : Stays(v)
    BY <1>3, RequestStepsShape
  <2>2. \A t \in Tasks : status'[t] = "error" => status[t] = "error"
    BY <1>3, RequestStepsShape
  <2>3. job'[w].pc \notin {"mark", "abort"}
    BY <1>3, RequestStepsMove DEF RequestMoves
  <2> QED BY <2>1, <2>2, <2>3 DEF ErrorInv, Stays
<1>4. CASE \A w \in Workers : ~TaskSteps(w) /\ ~RequestSteps(w)
  <2>1. \A t \in Tasks : status'[t] = "error" => status[t] = "error"
    BY <1>1, <1>4, OtherStepsShape DEF Answers
  <2>2. \A v \in Workers : Stays(v) \/ job'[v].pc \notin {"mark", "abort"}
    BY <1>4, OtherStepsShape DEF Leaves
  <2> QED BY <2>1, <2>2 DEF ErrorInv, Stays
<1> QED BY <1>2, <1>3, <1>4

\* A task is in error only if it can fail, or a task above it can: failures spread
\* downstream and nowhere else, in every execution
\* (mark_current_and_downstream_nodes_as_failed).
THEOREM ErrorHasCause == Spec => [](\A t \in Tasks : status[t] = "error" => CanBeFailed(t))
<1>1. Init => ErrorInv
  BY DEF Init, ErrorInv, Idle
<1>2. TInv /\ ErrorInv /\ [Next]_vars => ErrorInv'
  BY ErrorInvStep
<1>3. ErrorInv => \A t \in Tasks : status[t] = "error" => CanBeFailed(t)
  BY DEF ErrorInv
<1> QED BY <1>1, <1>2, <1>3, OrderInvariant, PTL DEF Spec

\* What was completed once stays in the history.
LEMMA HistoryGrows ==
    ASSUME TInv, [Next]_vars
    PROVE  everDone \subseteq everDone'
<1> USE DEF taskVars
<1>1. ASSUME NEW w \in Workers, TaskSteps(w) PROVE everDone \subseteq everDone'
  BY <1>1 DEF TaskSteps, ReceiveTask, CheckPrerequisites, HydrationFails, LogStart, SkipDisabled,
     FinishBody, NoWriteAccess, RetryBody, FailBody, MarkDownstreamFailed, SendAsync, ParkTask,
     BeginDownstream, QueueDownstream, EndDownstream, Proceed, CompleteTerminator, CommitDone
<1>2. ASSUME NEW w \in Workers, RequestSteps(w) PROVE everDone \subseteq everDone'
  BY <1>2 DEF RequestSteps, ReceiveRequest, RunRequest, CreateTask, TasksCreated, TasksReset,
     ExitAwaitingTasks, ResetTask, EnqueueReady, CommitDone
<1> QED BY <1>1, <1>2, OtherStepsShape

\* Only the poller's first half finds tasks in error.
LEMMA ErroredFound ==
    ASSUME TInv, [Next]_vars, scans'.errored
    PROVE  scans.errored \/ PollExited
<1>1. scans \in Scans
  BY DEF TInv, TypeOK
<1>2. \A t, j : QueueRequestTask(t, j) => scans'.errored = scans.errored
  BY <1>1 DEF QueueRequestTask, Scans
<1>3. EndScan(scans).errored = scans.errored
  BY <1>1 DEF EndScan, Scans
<1>4. ASSUME NEW w \in Workers, Worker(w) PROVE scans.errored
  <2>1. CASE \E d \in Tasks : QueueDownstream(w, d) \/ EnqueueReady(w, d)
    BY <1>2, <2>1 DEF QueueDownstream, EnqueueReady
  <2>2. CASE Proceed(w)
    BY <1>1, <2>2 DEF Proceed, Scans
  <2> QED BY <1>4, <2>1, <2>2 DEF Worker, TaskSteps, ReceiveTask, CheckPrerequisites, HydrationFails,
     LogStart, SkipDisabled, FinishBody, NoWriteAccess, RetryBody, FailBody, MarkDownstreamFailed,
     SendAsync, ParkTask, BeginDownstream, EndDownstream, CompleteTerminator,
     RequestSteps, ReceiveRequest, RunRequest, CreateTask, TasksCreated, TasksReset,
     ExitAwaitingTasks, ResetTask, EndJob, Forget
<1>5. ASSUME Faults \/ NextStepRuns PROVE scans.errored
  BY <1>5 DEF Faults, NextStepLost, NextStepRuns, WorkerDies, ProceedFails, RunRaises, Forget
<1>6. ASSUME External PROVE scans.errored
  BY <1>2, <1>6 DEF External, Callback, RequeuePolling
<1>7. ASSUME ErrorExited \/ Cancel \/ Restart \/ WatchdogScan PROVE scans.errored
  BY <1>1, <1>7 DEF ErrorExited, Cancel, Restart, WatchdogScan, Scans
<1>8. ASSUME WatchdogLeaves \/ WatchdogRequeues \/ WatchdogGivesUp \/ WatchdogRequeueFails
      PROVE  scans.errored
  BY <1>3, <1>8 DEF WatchdogLeaves, WatchdogRequeues, WatchdogGivesUp, WatchdogRequeueFails, CancelInterrupted
<1>9. ASSUME UNCHANGED vars PROVE scans.errored
  BY <1>9 DEF vars
<1> QED BY <1>4, <1>5, <1>6, <1>7, <1>8, <1>9 DEF Next, Watchdog

PollInv == scans.errored => \A t \in Tasks : CanBeFailed(t) \/ t \in everDone

\* What the poller found stays true until it acts upon it.
LEMMA PollInvStep ==
    ASSUME TInv, OInv, FreshInv, ErrorInv, PollInv, [Next]_vars
    PROVE  PollInv'
<1> SUFFICES ASSUME scans'.errored PROVE \A t \in Tasks : CanBeFailed(t) \/ t \in everDone'
  BY DEF PollInv
<1>1. CASE scans.errored
  BY <1>1, HistoryGrows DEF PollInv
<1>2. CASE PollExited
  <2>1. Persisted = Tasks
    BY <1>2 DEF PollExited, HasErroredTasks, Persisted, FreshInv, Fresh
  <2>2. \A t \in Tasks : status[t] \in Exited
    BY <1>2, <2>1 DEF PollExited, HasErroredTasks
  <2>3. \A t \in Tasks : CanBeFailed(t) \/ t \in everDone
    BY <2>2 DEF Exited, Completed, OInv, ErrorInv
  <2> QED BY <2>3, HistoryGrows
<1> QED BY <1>1, <1>2, ErroredFound

\* When the poller gives the request up, every collection on an independent path
\* has been completed, if no worker dies.
THEOREM IndependentPathsFinishHolds ==
    ASSUME MaxFaults = 0
    PROVE  Spec => IndependentPathsFinish
<1>1. Init => ErrorInv /\ PollInv
  BY DEF Init, ErrorInv, PollInv, Idle
<1>2. TInv /\ ErrorInv /\ [Next]_vars => ErrorInv'
  BY ErrorInvStep
<1>3. TInv /\ OInv /\ FreshInv /\ ErrorInv /\ PollInv /\ [Next]_vars => PollInv'
  BY PollInvStep
<1>4. PollInv => (scans.errored /\ ~scans'.errored => \A t \in Tasks : CanBeFailed(t) \/ t \in everDone)
  BY DEF PollInv
<1> QED BY <1>1, <1>2, <1>3, <1>4, OrderInvariant, FreshInvHolds, PTL DEF Spec, IndependentPathsFinish

----------------------------------------------------------------------------
(***************************************************************************)
(* A request that runs its step once is never abandoned.                   *)
(***************************************************************************)

\* A worker that runs the message whose id is cached for t.
Carries(w, t) == job[w].pc \in TaskPCs /\ job[w].task = t /\ job[w].latest

\* A message counts as in flight only while a worker carries it.
PlaceInv == \A t \in Tasks : cached[t] = "running" => \E w \in Workers : Carries(w, t)

\* Queueing a task leaves alone what is carried for other tasks.
LEMMA QueuePlace ==
    ASSUME TInv, PlaceInv, NEW t \in Tasks, NEW j \in [Workers -> Job], QueueRequestTask(t, j),
           \A v \in Workers : /\ j[v].pc = job[v].pc /\ j[v].task = job[v].task
                              /\ j[v].latest = job[v].latest
    PROVE  PlaceInv'
<1>1. cached \in [Tasks -> Place] /\ job' = Superseded(j, TaskPCs, t) /\ TaskPCs # RequestPCs
  BY DEF TInv, TypeOK, QueueRequestTask, TaskPCs, RequestPCs
<1>2. \A s \in Tasks : cached'[s] = "running" => cached[s] = "running" /\ s # t
  BY <1>1 DEF QueueRequestTask
<1>3. ASSUME NEW s \in Tasks, s # t, NEW v \in Workers, Carries(v, s) PROVE Carries(v, s)'
  <2>1. j[v].task # t /\ j[v] \in Job
    BY <1>3 DEF Carries
  <2>2. job'[v] = j[v]
    BY <1>1, <2>1 DEF Superseded
  <2> QED BY <1>3, <2>2 DEF Carries
<1> QED BY <1>2, <1>3 DEF PlaceInv

\* A worker carries its message from the moment it takes it to the end of its job.
LEMMA TaskStepsPlace ==
    ASSUME TInv, PlaceInv, NEW w \in Workers, TaskSteps(w)
    PROVE  PlaceInv'
<1> USE DEF brokerVars
<1>1. job \in [Workers -> Job] /\ cached \in [Tasks -> Place]
  BY DEF TInv, TypeOK
<1>2. ASSUME \E t \in Tasks : ReceiveTask(w, t) PROVE PlaceInv'
  <2>1. PICK t \in Tasks, latest \in BOOLEAN :
          /\ cached' = IF latest THEN [cached EXCEPT ![t] = "running"] ELSE cached
          /\ job' = [job EXCEPT ![w] = [Idle EXCEPT !.pc = "check", !.task = t, !.latest = latest]]
          /\ job[w].pc = "idle"
    BY <1>2 DEF ReceiveTask
  <2>2. \A v \in Workers \ {w} : job'[v] = job[v]
    BY <1>1, <2>1
  <2>3. latest => Carries(w, t)'
    BY <1>1, <2>1 DEF Carries, Idle, TaskPCs
  <2>4. \A s \in Tasks : ~Carries(w, s)
    BY <2>1 DEF Carries, TaskPCs
  <2>5. \A s \in Tasks : cached'[s] = "running" => cached[s] = "running" \/ (latest /\ s = t)
    BY <1>1, <2>1
  <2> QED BY <2>2, <2>3, <2>4, <2>5 DEF PlaceInv, Carries
<1>3. ASSUME \/ CheckPrerequisites(w) \/ HydrationFails(w) \/ LogStart(w)
             \/ SkipDisabled(w) \/ FinishBody(w) \/ NoWriteAccess(w) \/ FailBody(w)
             \/ MarkDownstreamFailed(w) \/ SendAsync(w) \/ ParkTask(w) \/ EndDownstream(w)
             \/ CompleteTerminator(w) \/ RetryBody(w) \/ BeginDownstream(w)
      PROVE  PlaceInv'
  <2>1. cached' = cached
    BY <1>3 DEF CheckPrerequisites, HydrationFails, LogStart, SkipDisabled, FinishBody,
       NoWriteAccess, FailBody, MarkDownstreamFailed, SendAsync, ParkTask, EndDownstream,
       CompleteTerminator, RetryBody, BeginDownstream
  <2>2. \/ \E pc \in TaskPCs : Goto(w, pc)
        \/ \E n, s : \/ job' = [job EXCEPT ![w].pc = "start", ![w].attempt = n]
                     \/ job' = [job EXCEPT ![w].pc = "queueing", ![w].todo = s]
    BY <1>3 DEF CheckPrerequisites, HydrationFails, LogStart, SkipDisabled, FinishBody,
       NoWriteAccess, FailBody, MarkDownstreamFailed, SendAsync, ParkTask, EndDownstream,
       CompleteTerminator, RetryBody, BeginDownstream, TaskPCs
  <2>3. \A v \in Workers : /\ job'[v].task = job[v].task /\ job'[v].latest = job[v].latest
                           /\ job[v].pc \in TaskPCs => job'[v].pc \in TaskPCs
    <3>1. CASE \E pc \in TaskPCs : Goto(w, pc)
      BY <1>1, <3>1, GotoMoves
    <3>2. ASSUME NEW n, NEW s, \/ job' = [job EXCEPT ![w].pc = "start", ![w].attempt = n]
                               \/ job' = [job EXCEPT ![w].pc = "queueing", ![w].todo = s]
          PROVE  \A v \in Workers : /\ job'[v].task = job[v].task /\ job'[v].latest = job[v].latest
                                    /\ job[v].pc \in TaskPCs => job'[v].pc \in TaskPCs
      BY <1>1, <3>2 DEF Job, TaskPCs
    <3> QED BY <2>2, <3>1, <3>2
  <2> QED BY <2>1, <2>3 DEF PlaceInv, Carries
<1>4. ASSUME NEW d \in Tasks, QueueDownstream(w, d) PROVE PlaceInv'
  <2> DEFINE j == [job EXCEPT ![w].todo = @ \ {d}]
  <2>1. /\ j \in [Workers -> Job]
        /\ \A v \in Workers : /\ j[v].pc = job[v].pc /\ j[v].task = job[v].task
                              /\ j[v].latest = job[v].latest
    BY <1>1 DEF Job
  <2>2. QueueRequestTask(d, j) \/ (job' = j /\ cached' = cached)
    BY <1>4 DEF QueueDownstream
  <2> HIDE DEF j
  <2>3. CASE job' = j /\ cached' = cached
    BY <2>1, <2>3 DEF PlaceInv, Carries
  <2> QED BY <2>1, <2>2, <2>3, QueuePlace
<1>5. ASSUME Proceed(w) PROVE PlaceInv'
  <2>1. cached' = cached /\ job[w].pc = "proceed"
    BY <1>5 DEF Proceed
  <2> DEFINE j == [job EXCEPT ![w].pc = "terminate"]
  <2>2. \A v \in Workers : /\ j[v].task = job[v].task /\ j[v].latest = job[v].latest
                           /\ job[v].pc \in TaskPCs => j[v].pc \in TaskPCs \ RequestPCs
    BY <1>1 DEF Job, TaskPCs, RequestPCs
  <2>3. job' = Superseded(j, RequestPCs, Root)
    BY <1>5 DEF Proceed
  <2> HIDE DEF j
  <2>4. \A v \in Workers : job[v].pc \in TaskPCs => job'[v] = j[v]
    BY <2>2, <2>3 DEF Superseded
  <2> QED BY <2>1, <2>2, <2>4 DEF PlaceInv, Carries
<1> QED BY <1>2, <1>3, <1>4, <1>5 DEF TaskSteps

\* The main runner only queues tasks.
LEMMA RequestStepsPlace ==
    ASSUME TInv, PlaceInv, NEW w \in Workers, RequestSteps(w)
    PROVE  PlaceInv'
<1> USE DEF brokerVars
<1>1. job \in [Workers -> Job] /\ cached \in [Tasks -> Place]
  BY DEF TInv, TypeOK
<1>2. ASSUME NEW t \in Tasks, EnqueueReady(w, t) PROVE PlaceInv'
  <2> DEFINE j == [job EXCEPT ![w].ready = @ \ {t}]
  <2>1. /\ j \in [Workers -> Job]
        /\ \A v \in Workers : /\ j[v].pc = job[v].pc /\ j[v].task = job[v].task
                              /\ j[v].latest = job[v].latest
    BY <1>1 DEF Job
  <2>2. QueueRequestTask(t, j)
    BY <1>2 DEF EnqueueReady
  <2> HIDE DEF j
  <2> QED BY <2>1, <2>2, QueuePlace
<1>3. ASSUME \/ ReceiveRequest(w) \/ RunRequest(w) \/ TasksCreated(w) \/ TasksReset(w) \/ ExitAwaitingTasks(w)
             \/ \E t \in Tasks : CreateTask(w, t) \/ ResetTask(w, t)
      PROVE  PlaceInv'
  <2>1. cached' = cached /\ job[w].pc \notin TaskPCs
    BY <1>3 DEF ReceiveRequest, RunRequest, TasksCreated, TasksReset, ExitAwaitingTasks, CreateTask,
       ResetTask, TaskPCs
  <2>2. \A v \in Workers \ {w} : job'[v] = job[v]
    BY <1>1, <1>3 DEF ReceiveRequest, RunRequest, TasksCreated, TasksReset, ExitAwaitingTasks, CreateTask,
       ResetTask, Goto
  <2> QED BY <2>1, <2>2 DEF PlaceInv, Carries
<1> QED BY <1>2, <1>3 DEF RequestSteps

\* Schedulers, faults and users put messages elsewhere than in flight.
LEMMA OtherStepsPlace ==
    ASSUME TInv, PlaceInv, [Next]_vars, \A w \in Workers : ~TaskSteps(w) /\ ~RequestSteps(w)
    PROVE  PlaceInv'
<1> USE DEF brokerVars
<1>1. job \in [Workers -> Job] /\ cached \in [Tasks -> Place]
  BY DEF TInv, TypeOK
<1>2. ASSUME NEW w \in Workers, Forget(w) PROVE PlaceInv'
  <2>1. \A v \in Workers \ {w} : job'[v] = job[v]
    BY <1>1, <1>2 DEF Forget
  <2>2. \A t \in Tasks : cached'[t] = "running" => cached[t] = "running" /\ ~Carries(w, t)
    BY <1>1, <1>2 DEF Forget, Carries
  <2> QED BY <2>1, <2>2 DEF PlaceInv, Carries
<1>3. ASSUME NEW w \in Workers, ProceedFails(w) \/ RunRaises(w) PROVE PlaceInv'
  <2>1. /\ cached' = cached
        /\ \/ job[w].pc = "proceed" /\ Goto(w, "terminate")
           \/ job[w].pc \in {"create", "reset", "enqueue"} /\ Goto(w, "exit")
    BY <1>3 DEF ProceedFails, RunRaises
  <2> QED BY <1>1, <2>1, GotoMoves DEF PlaceInv, Carries, TaskPCs
<1>4. ASSUME NEW t \in Collections, Callback(t) \/ RequeuePolling(t) PROVE PlaceInv'
  <2>1. QueueRequestTask(t, job) \/ UNCHANGED <<cached, job>>
    BY <1>4 DEF Callback, RequeuePolling
  <2>2. CASE UNCHANGED <<cached, job>>
    BY <2>2 DEF PlaceInv, Carries
  <2> QED BY <1>1, <2>1, <2>2, QueuePlace DEF Tasks
<1>5. ASSUME QueueThisStep(job), cached' = cached PROVE PlaceInv'
  <2>1. \A v \in Workers : job[v].pc \in TaskPCs => job'[v] = job[v]
    BY <1>1, <1>5 DEF QueueThisStep, Superseded, TaskPCs, RequestPCs
  <2> QED BY <1>5, <2>1 DEF PlaceInv, Carries
<1>6. ASSUME Revoke, job' = job PROVE PlaceInv'
  BY <1>1, <1>6 DEF Revoke, PlaceInv, Carries
<1>7. ASSUME UNCHANGED <<cached, job>> PROVE PlaceInv'
  BY <1>7 DEF PlaceInv, Carries
<1> QED BY <1>2, <1>3, <1>4, <1>5, <1>6, <1>7
  DEF Next, Worker, EndJob, WorkerDies, Faults, External, Watchdog, NextStepRuns, NextStepLost, PollExited,
      ErrorExited, WatchdogScan, WatchdogLeaves, WatchdogRequeues, WatchdogGivesUp, WatchdogRequeueFails,
      CancelInterrupted, Cancel, Restart, vars

Bodies == {"start", "body", "await"}

\* How a worker that runs a task passes through its body.
BodyMoves(w) ==
    LET t == job[w].task
        pc == job[w].pc IN
    \/ /\ pc \notin Bodies /\ UNCHANGED <<status, ext>>
       /\ job'[w].pc \in Bodies => /\ job'[w].pc = "start"
                                   /\ job'[w].task \in Collections
    \/ /\ pc = "start" /\ job'[w].pc = "body" /\ job'[w].task = t /\ ext' = ext
       /\ \E s \in {"in_processing", "retrying"} : status' = [status EXCEPT ![t] = s]
    \/ /\ pc = "body" /\ job'[w].pc = "start" /\ job'[w].task = t /\ UNCHANGED <<status, ext>>
    \/ /\ pc = "body" /\ job'[w].pc = "await" /\ job'[w].task = t /\ t \in Collections
       /\ status' = status /\ ext' = [ext EXCEPT ![t] = "due"]
    \/ /\ pc \in Bodies /\ job'[w].pc \notin Bodies /\ ext' = ext
       /\ \E s \in Exited : status' = [status EXCEPT ![t] = s]
    \/ /\ job'[w].pc \notin Bodies /\ ext' = ext /\ MarkFailed(t)
    \/ /\ pc = "await" /\ job'[w].pc \notin Bodies /\ ext' = ext
       /\ status' = [status EXCEPT ![t] = IF t \in Callbacks THEN "paused" ELSE "polling"]
    \/ /\ pc = "terminate" /\ job'[w].pc \notin Bodies /\ ext' = ext
       /\ status' = [status EXCEPT ![t] = "complete"]

\* A worker enters the body of a collection, passes through it and leaves it with
\* the status it commits.
LEMMA TaskStepsBody ==
    ASSUME TInv, NEW w \in Workers, TaskSteps(w)
    PROVE  BodyMoves(w)
<1> USE DEF taskVars
<1>1. job \in [Workers -> Job] /\ job[w].task \in Tasks
  BY DEF TInv, TypeOK, Job
<1>2. ASSUME \E t \in Tasks : ReceiveTask(w, t) PROVE BodyMoves(w)
  BY <1>1, <1>2 DEF ReceiveTask, Idle, BodyMoves, Bodies
<1>3. ASSUME CheckPrerequisites(w) PROVE BodyMoves(w)
  <2>1. PICK pc \in {"end", "start", "downstream"} :
          Goto(w, pc) /\ (pc = "start" => job[w].task \in Collections)
    BY <1>3 DEF CheckPrerequisites, CanRunTaskBody
  <2>2. job[w].pc = "check" /\ UNCHANGED <<status, ext>>
    BY <1>3 DEF CheckPrerequisites
  <2>3. job'[w].pc = pc /\ job'[w].task = job[w].task
    BY <1>1, <2>1, GotoMoves
  <2> QED BY <2>1, <2>2, <2>3 DEF BodyMoves, Bodies
<1>4. ASSUME HydrationFails(w) \/ MarkDownstreamFailed(w) PROVE BodyMoves(w)
  <2>1. /\ \E pc \in {"end", "downstream"} : Goto(w, pc)
        /\ ext' = ext /\ MarkFailed(job[w].task)
    BY <1>4 DEF HydrationFails, MarkDownstreamFailed
  <2> QED BY <1>1, <2>1, GotoMoves DEF BodyMoves, Bodies
<1>5. ASSUME LogStart(w) PROVE BodyMoves(w)
  <2>1. job[w].pc = "start" /\ job'[w].pc = "body" /\ job'[w].task = job[w].task
    BY <1>1, <1>5, GotoMoves DEF LogStart
  <2> QED BY <1>5, <2>1 DEF LogStart, BodyMoves, Bodies
<1>6. ASSUME SkipDisabled(w) \/ FinishBody(w) \/ NoWriteAccess(w) \/ FailBody(w) PROVE BodyMoves(w)
  <2>1. /\ job[w].pc \in Bodies /\ ext' = ext
        /\ \E s \in Exited : status' = [status EXCEPT ![job[w].task] = s]
        /\ \E pc \in {"downstream", "mark", "abort"} : Goto(w, pc)
    BY <1>6 DEF SkipDisabled, FinishBody, NoWriteAccess, FailBody, CommitDone, Bodies, Exited, Completed
  <2>2. job'[w].pc \notin Bodies
    BY <1>1, <2>1, GotoMoves DEF Bodies
  <2> QED BY <2>1, <2>2 DEF BodyMoves
<1>7. ASSUME RetryBody(w) PROVE BodyMoves(w)
  BY <1>1, <1>7 DEF RetryBody, BodyMoves, Bodies, Job
<1>8. ASSUME SendAsync(w) PROVE BodyMoves(w)
  <2>1. job[w].pc = "body" /\ job'[w].pc = "await" /\ job'[w].task = job[w].task
    BY <1>1, <1>8, GotoMoves DEF SendAsync
  <2> QED BY <1>8, <2>1, ConstantsAssumption DEF SendAsync, BodyMoves
<1>9. ASSUME ParkTask(w) PROVE BodyMoves(w)
  <2>1. job[w].pc = "await" /\ job'[w].pc = "downstream"
    BY <1>1, <1>9, GotoMoves DEF ParkTask
  <2> QED BY <1>9, <2>1 DEF ParkTask, BodyMoves, Bodies
<1>10. ASSUME \/ BeginDownstream(w) \/ EndDownstream(w) \/ Proceed(w)
              \/ \E d \in Tasks : QueueDownstream(w, d)
       PROVE  BodyMoves(w)
  <2>1. job[w].pc \notin Bodies /\ UNCHANGED <<status, ext>>
    BY <1>10 DEF BeginDownstream, EndDownstream, Proceed, QueueDownstream, Bodies
  <2>2. job'[w].pc \notin Bodies
    <3>1. CASE BeginDownstream(w) \/ EndDownstream(w)
      BY <1>1, <3>1 DEF BeginDownstream, EndDownstream, Goto, Job, Bodies
    <3>2. CASE Proceed(w)
      BY <1>1, <3>2 DEF Proceed, Superseded, Job, Bodies
    <3>3. CASE \E d \in Tasks : QueueDownstream(w, d)
      BY <1>1, <2>1, <3>3, LookMoves DEF Stays
    <3> QED BY <1>10, <3>1, <3>2, <3>3
  <2> QED BY <2>1, <2>2 DEF BodyMoves
<1>11. ASSUME CompleteTerminator(w) PROVE BodyMoves(w)
  <2>1. job[w].pc = "terminate" /\ job'[w].pc = "end"
    BY <1>1, <1>11, GotoMoves DEF CompleteTerminator
  <2> QED BY <1>11, <2>1 DEF CompleteTerminator, CommitDone, BodyMoves, Bodies
<1> QED BY <1>2, <1>3, <1>4, <1>5, <1>6, <1>7, <1>8, <1>9, <1>10, <1>11 DEF TaskSteps

\* A task in work has a worker in its body, only what calls back is paused, and
\* what was told to be polled for is never pending again.
BusyInv ==
    /\ \A t \in Tasks : status[t] \in {"in_processing", "retrying"} =>
            \E w \in Workers : job[w].pc \in Bodies /\ job[w].task = t
    /\ \A w \in Workers : job[w].pc \in Bodies => job[w].task \in Collections
    /\ \A w \in Workers : job[w].pc \in {"body", "await"} /\ job[w].task \notin Callbacks =>
            status[job[w].task] # "pending"
    /\ \A t \in Tasks :
         /\ status[t] = "paused" => t \in Callbacks
         /\ status[t] = "polling" => t \in Collections
    /\ \A c \in Collections \ Callbacks : ext[c] # "unsent" => status[c] # "pending"

\* A worker that leaves a body takes the task out of work.
LEMMA BusyTaskSteps ==
    ASSUME TInv, BusyInv, NEW w \in Workers, TaskSteps(w)
    PROVE  BusyInv'
<1>1. /\ job \in [Workers -> Job] /\ status \in [Tasks -> Status] /\ job[w].task \in Tasks
      /\ ext \in [Collections -> {"unsent", "due", "answered", "lost"}]
      /\ Collections \subseteq Tasks
  BY DEF TInv, TypeOK, Job, Tasks
<1>2. BodyMoves(w)
  BY TaskStepsBody
<1>3. \A v \in Workers \ {w} : Stays(v)
  BY TaskStepsShape
<1>4. \A t \in Tasks : status'[t] = "pending" => status[t] = "pending"
  BY <1>1, TaskStepsShape
<1>5. ASSUME NEW v \in Workers, job'[v].pc \in Bodies PROVE job'[v].task \in Collections
  <2>1. CASE v = w
    <3>1. \/ job'[w].task = job[w].task /\ job[w].pc \in Bodies
          \/ job'[w].task \in Collections
      BY <1>2, <1>5, <2>1 DEF BodyMoves, Bodies
    <3> QED BY <2>1, <3>1 DEF BusyInv
  <2>2. CASE v # w
    BY <1>3, <1>5, <2>2 DEF BusyInv, Stays
  <2> QED BY <2>1, <2>2
<1>6. ASSUME NEW v \in Workers, job'[v].pc \in {"body", "await"}, job'[v].task \notin Callbacks
      PROVE  status'[job'[v].task] # "pending"
  <2>1. CASE v = w
    <3>1. CASE job[w].pc = "start"
      BY <1>1, <1>2, <1>6, <2>1, <3>1 DEF BodyMoves, Bodies
    <3>2. CASE job[w].pc # "start"
      <4>1. job[w].pc = "body" /\ job'[w].task = job[w].task
        BY <1>2, <1>6, <2>1, <3>2 DEF BodyMoves, Bodies
      <4> QED BY <1>1, <1>4, <1>6, <2>1, <4>1 DEF BusyInv
    <3> QED BY <3>1, <3>2
  <2>2. CASE v # w
    <3>1. Stays(v) /\ job[v].task \in Tasks
      BY <1>1, <1>3, <2>2 DEF Job
    <3> QED BY <1>4, <1>6, <3>1 DEF BusyInv, Stays
  <2> QED BY <2>1, <2>2
<1>7. ASSUME NEW t \in Tasks, status'[t] \in {"in_processing", "retrying"}
      PROVE  \E v \in Workers : job'[v].pc \in Bodies /\ job'[v].task = t
  <2>1. CASE job'[w].pc \in Bodies /\ job'[w].task = t
    BY <2>1
  <2>2. CASE ~(job'[w].pc \in Bodies /\ job'[w].task = t)
    <3>1. status[t] = status'[t] /\ ~(job[w].pc \in Bodies /\ job[w].task = t)
      BY <1>1, <1>2, <1>7, <2>2 DEF BodyMoves, MarkFailed, Bodies, Exited, Completed
    <3>2. PICK v \in Workers : job[v].pc \in Bodies /\ job[v].task = t
      BY <1>7, <3>1 DEF BusyInv
    <3> QED BY <1>3, <3>1, <3>2 DEF Stays
  <2> QED BY <2>1, <2>2
<1>8. ASSUME NEW t \in Tasks
      PROVE  /\ status'[t] = "paused" => t \in Callbacks
             /\ status'[t] = "polling" => t \in Collections
  <2>1. \/ status'[t] \notin {"paused", "polling"}
        \/ status'[t] = status[t]
        \/ /\ t = job[w].task /\ job[w].pc = "await"
           /\ status'[t] = IF t \in Callbacks THEN "paused" ELSE "polling"
    BY <1>1, <1>2 DEF BodyMoves, MarkFailed, Exited, Completed
  <2> QED BY <2>1 DEF BusyInv, Bodies
<1>9. ASSUME NEW c \in Collections \ Callbacks, ext'[c] # "unsent" PROVE status'[c] # "pending"
  <2>1. ext[c] # "unsent" \/ (c = job[w].task /\ job[w].pc = "body")
    BY <1>1, <1>2, <1>9 DEF BodyMoves
  <2>2. status[c] # "pending"
    BY <1>9, <2>1 DEF BusyInv
  <2> QED BY <1>1, <1>4, <2>2
<1> QED BY <1>5, <1>6, <1>7, <1>8, <1>9 DEF BusyInv

\* Every step keeps BusyInv, if no worker dies in a body.
LEMMA BusyInvStep ==
    ASSUME StepRunsOnce, TInv, StepInv, BusyInv, [Next]_vars
    PROVE  BusyInv'
<1>1. /\ job \in [Workers -> Job] /\ status \in [Tasks -> Status]
      /\ ext \in [Collections -> {"unsent", "due", "answered", "lost"}]
      /\ Callbacks \subseteq Collections /\ Collections \subseteq Tasks
  BY ConstantsAssumption DEF TInv, TypeOK, Tasks
<1>2. ASSUME NEW w \in Workers, RequestSteps(w) PROVE BusyInv'
  <2>1. \A v \in Workers \ {w} : Stays(v)
    BY <1>2, RequestStepsShape
  <2>2. ext' = ext
    BY <1>2, RequestStepsShape
  <2>3. job[w].pc \notin Bodies /\ job'[w].pc \notin Bodies
    BY <1>2, RequestStepsMove DEF RequestMoves, Bodies
  <2>4. \A v \in Workers : job[v].pc \in Bodies \/ job'[v].pc \in Bodies => Stays(v)
    BY <2>1, <2>3
  <2>5. CASE Running(w)
    <3>1. NothingStarted
      BY <2>5 DEF StepInv, Starting
    <3>2. \A t \in Tasks : status'[t] \in {"absent", "pending", "complete"}
      BY <1>1, <1>2, <3>1, RequestStepsShape DEF NothingStarted
    <3>3. \A v \in Workers : job'[v].pc \notin Bodies
      BY <2>4, <3>1 DEF NothingStarted, Running, Stays, Bodies
    <3> QED BY <2>2, <3>1, <3>2, <3>3 DEF BusyInv, NothingStarted, Bodies
  <2>6. CASE ~Running(w)
    <3>1. \A t \in Tasks : status'[t] = status[t]
      BY <1>2, <2>6, RequestStepsShape
    <3>2. \A v \in Workers : job'[v].pc \in Bodies => job[v].task \in Tasks
      BY <1>1 DEF Job
    <3> QED BY <1>1, <2>2, <2>4, <3>1, <3>2 DEF BusyInv, Stays, Bodies
  <2> QED BY <2>5, <2>6
<1>3. CASE \A w \in Workers : ~TaskSteps(w) /\ ~RequestSteps(w)
  <2>1. \A t \in Tasks :
          \/ status'[t] = status[t]
          \/ status[t] = "paused" /\ status'[t] = "pending" /\ t \in Callbacks
    BY <1>1, <1>3, OthersOnce DEF Answers
  <2>2. \A c \in Collections \ Callbacks : ext'[c] = ext[c]
    BY <1>1, <1>3, OthersOnce DEF Answers
  <2>3. \A v \in Workers : job[v].pc \in Bodies \/ job'[v].pc \in Bodies => Stays(v)
    BY <1>3, OthersOnce DEF Bodies
  <2>4. \A v \in Workers : job[v].task \in Tasks
    BY <1>1 DEF Job
  <2>5. ASSUME NEW v \in Workers, job'[v].pc \in {"body", "await"}, job'[v].task \notin Callbacks
        PROVE  status'[job'[v].task] # "pending"
    <3>1. Stays(v)
      BY <2>3, <2>5 DEF Bodies
    <3> QED BY <2>1, <2>4, <2>5, <3>1 DEF BusyInv, Stays
  <2>6. \A c \in Collections \ Callbacks : ext'[c] # "unsent" => status'[c] # "pending"
    BY <1>1, <2>1, <2>2 DEF BusyInv
  <2> QED BY <1>1, <2>1, <2>3, <2>5, <2>6 DEF BusyInv, Stays, Bodies
<1> QED BY <1>2, <1>3, BusyTaskSteps

\* The terminator is completed only after the next step was queued, and the
\* message that does it is in the queue until the next step has run.
ProceedInv ==
    /\ status[Terminator] \in Completed => proceeded > 0
    /\ \A w \in Workers : job[w].pc = "terminate" => proceeded > 0
    /\ proceeded > 0 /\ prStatus = "in_processing" /\ ~continued => nextQueued > 0

\* The terminator queues the next step before it is completed.
LEMMA ProceedTaskSteps ==
    ASSUME TInv, BusyInv, ProceedInv, NEW w \in Workers, TaskSteps(w)
    PROVE  ProceedInv'
<1>1. /\ job \in [Workers -> Job] /\ status \in [Tasks -> Status] /\ job[w].task \in Tasks
      /\ Terminator \in Tasks /\ Terminator \notin Collections /\ proceeded \in Nat /\ nextQueued \in Nat
  BY GraphAssumption DEF TInv, TypeOK, Job, Tasks
<1>2. \/ proceeded' = proceeded + 1 /\ nextQueued' = nextQueued + 1 /\ job[w].pc = "proceed"
      \/ UNCHANGED <<proceeded, nextQueued>> /\ job'[w].pc # "terminate"
  <2>1. CASE Proceed(w)
    BY <2>1 DEF Proceed
  <2>2. CASE \/ CheckPrerequisites(w) \/ HydrationFails(w) \/ LogStart(w)
             \/ SkipDisabled(w) \/ FinishBody(w) \/ NoWriteAccess(w) \/ FailBody(w)
             \/ MarkDownstreamFailed(w) \/ SendAsync(w) \/ ParkTask(w) \/ EndDownstream(w)
             \/ CompleteTerminator(w)
    <3>1. PICK pc \in TaskPCs \ {"terminate"} : Goto(w, pc)
      BY <2>2 DEF CheckPrerequisites, HydrationFails, LogStart, SkipDisabled, FinishBody,
         NoWriteAccess, FailBody, MarkDownstreamFailed, SendAsync, ParkTask, EndDownstream,
         CompleteTerminator, TaskPCs
    <3>2. UNCHANGED <<proceeded, nextQueued>>
      BY <2>2 DEF CheckPrerequisites, HydrationFails, LogStart, SkipDisabled, FinishBody,
         NoWriteAccess, FailBody, MarkDownstreamFailed, SendAsync, ParkTask, EndDownstream,
         CompleteTerminator, requestVars
    <3> QED BY <1>1, <3>1, <3>2, GotoMoves
  <2>3. CASE RetryBody(w) \/ BeginDownstream(w)
    BY <1>1, <2>3 DEF RetryBody, BeginDownstream, Goto, Job, requestVars
  <2>4. CASE \E d \in Tasks : QueueDownstream(w, d)
    BY <1>1, <2>4, LookMoves DEF QueueDownstream, Stays, requestVars
  <2>5. CASE \E t \in Tasks : ReceiveTask(w, t)
    BY <1>1, <2>5 DEF ReceiveTask, Idle, requestVars
  <2> QED BY <2>1, <2>2, <2>3, <2>4, <2>5 DEF TaskSteps
<1>3. UNCHANGED <<prStatus, continued>> /\ \A v \in Workers \ {w} : Stays(v)
  BY TaskStepsShape
<1>4. status'[Terminator] \in Completed => status[Terminator] \in Completed \/ proceeded > 0
  <2>1. BodyMoves(w)
    BY TaskStepsBody
  <2>2. job[w].pc \in Bodies => job[w].task # Terminator
    BY <1>1 DEF BusyInv
  <2>3. job[w].pc = "terminate" => proceeded > 0
    BY DEF ProceedInv
  <2>4. MarkFailed(job[w].task) => status'[Terminator] = status[Terminator] \/ status'[Terminator] = "error"
    BY <1>1 DEF MarkFailed
  <2>5. CASE job[w].task = Terminator /\ job[w].pc # "terminate"
    BY <1>1, <2>1, <2>2, <2>4, <2>5 DEF BodyMoves, Bodies, Completed
  <2>6. CASE job[w].task # Terminator
    BY <1>1, <2>1, <2>4, <2>6 DEF BodyMoves, Completed
  <2> QED BY <2>3, <2>5, <2>6
<1>5. /\ proceeded > 0 => proceeded' > 0
      /\ nextQueued' > 0 \/ UNCHANGED <<proceeded, nextQueued>>
  BY <1>1, <1>2
<1>6. \A v \in Workers : job'[v].pc = "terminate" => proceeded' > 0
  BY <1>1, <1>2, <1>3, <1>5 DEF ProceedInv, Stays
<1>7. status'[Terminator] \in Completed => proceeded' > 0
  BY <1>4, <1>5 DEF ProceedInv
<1>8. proceeded' > 0 /\ prStatus' = "in_processing" /\ ~continued' => nextQueued' > 0
  BY <1>3, <1>5 DEF ProceedInv
<1> QED BY <1>6, <1>7, <1>8 DEF ProceedInv

\* Nobody takes the continuation from the queue without running it, if no worker
\* dies.
LEMMA ProceedInvStep ==
    ASSUME StepRunsOnce, TInv, BusyInv, ProceedInv, [Next]_vars
    PROVE  ProceedInv'
<1>1. /\ job \in [Workers -> Job] /\ status \in [Tasks -> Status] /\ Callbacks \subseteq Tasks
      /\ Terminator \in Tasks /\ Terminator # Root /\ nextQueued \in Nat
      /\ MaxFaults = 0 /\ MaxRestarts = 0 /\ faults = 0 /\ restarts = 0
  BY ConstantsAssumption, GraphAssumption DEF TInv, TypeOK, Tasks, StepRunsOnce
<1>2. ASSUME NEW w \in Workers, RequestSteps(w) PROVE ProceedInv'
  <2>1. (\A v \in Workers \ {w} : Stays(v)) /\ UNCHANGED <<prStatus, nextQueued, proceeded, continued>>
    BY <1>2, RequestStepsShape
  <2>2. job'[w].pc # "terminate"
    BY <1>2, RequestStepsMove DEF RequestMoves
  <2>3. status'[Terminator] \in Completed => status[Terminator] \in Completed
    BY <1>1, <1>2 DEF RequestSteps, ReceiveRequest, RunRequest, CreateTask, TasksCreated, TasksReset,
       ExitAwaitingTasks, ResetTask, EnqueueReady, CommitDone, taskVars, Completed
  <2> QED BY <2>1, <2>2, <2>3 DEF ProceedInv, Stays
<1>3. CASE \A w \in Workers : ~TaskSteps(w) /\ ~RequestSteps(w)
  <2>1. proceeded' = proceeded /\ \A v \in Workers : job'[v].pc = "terminate" => Stays(v)
    BY <1>3, OthersOnce
  <2>2. status'[Terminator] = status[Terminator] \/ status'[Terminator] = "pending"
    BY <1>1, <1>3, OthersOnce DEF Answers
  <2> DEFINE OnItsWay == prStatus' = "in_processing" /\ ~continued' =>
                           prStatus = "in_processing" /\ ~continued /\ nextQueued' = nextQueued
  <2>3. ASSUME NextStepRuns PROVE OnItsWay
    BY <2>3 DEF NextStepRuns
  <2>4. ~NextStepLost /\ ~Restart
    BY <1>1 DEF NextStepLost, Restart
  <2>5. ASSUME \/ ErrorExited \/ WatchdogGivesUp \/ WatchdogRequeueFails \/ Cancel
               \/ \E w \in Workers : ProceedFails(w) \/ RunRaises(w)
        PROVE  OnItsWay
    BY <2>5 DEF ErrorExited, WatchdogGivesUp, WatchdogRequeueFails, CancelInterrupted, Cancel,
       ProceedFails, RunRaises
  <2>6. ASSUME \/ PollExited \/ WatchdogScan \/ WatchdogLeaves \/ WatchdogRequeues \/ UNCHANGED vars
               \/ External
               \/ \E w \in Workers : EndJob(w) \/ WorkerDies(w)
        PROVE  OnItsWay
    BY <2>6 DEF PollExited, WatchdogScan, WatchdogLeaves, WatchdogRequeues, External, Callback,
       RequeuePolling, EndJob, WorkerDies, Forget, requestVars, vars
  <2>7. OnItsWay
    BY <1>3, <2>3, <2>4, <2>5, <2>6 DEF Next, Worker, Faults, Watchdog
  <2> QED BY <2>1, <2>2, <2>7 DEF ProceedInv, Stays, Completed
<1> QED BY <1>2, <1>3, ProceedTaskSteps

----------------------------------------------------------------------------

\* The watchdog keeps no snapshot of the queue between its passes.
SeenInv == ~scans.watching => scans.seen = {}

\* Every step keeps SeenInv: a pass that ends drops what it saw.
LEMMA SeenInvStep ==
    ASSUME TInv, SeenInv, [Next]_vars
    PROVE  SeenInv'
<1>1. scans \in Scans
  BY DEF TInv, TypeOK
<1>2. \A t, j : QueueRequestTask(t, j) => SeenInv'
  BY <1>1 DEF QueueRequestTask, Scans, SeenInv
<1>3. scans' = EndScan(scans) => SeenInv'
  BY <1>1 DEF EndScan, Scans, SeenInv
<1>4. scans' = scans => SeenInv'
  BY DEF SeenInv
<1>5. ASSUME NEW w \in Workers, Worker(w) PROVE SeenInv'
  <2>1. CASE \E d \in Tasks : QueueDownstream(w, d) \/ EnqueueReady(w, d)
    BY <1>2, <1>4, <2>1 DEF QueueDownstream, EnqueueReady
  <2>2. CASE Proceed(w)
    BY <1>1, <2>2 DEF Proceed, Scans, SeenInv
  <2> QED BY <1>4, <1>5, <2>1, <2>2 DEF Worker, TaskSteps, ReceiveTask, CheckPrerequisites, HydrationFails,
     LogStart, SkipDisabled, FinishBody, NoWriteAccess, RetryBody, FailBody, MarkDownstreamFailed,
     SendAsync, ParkTask, BeginDownstream, EndDownstream, CompleteTerminator,
     RequestSteps, ReceiveRequest, RunRequest, CreateTask, TasksCreated, TasksReset,
     ExitAwaitingTasks, ResetTask, EndJob, Forget
<1>6. ASSUME Faults \/ NextStepRuns \/ Cancel PROVE SeenInv'
  BY <1>4, <1>6 DEF Faults, NextStepLost, NextStepRuns, WorkerDies, ProceedFails, RunRaises, Forget, Cancel
<1>7. ASSUME External PROVE SeenInv'
  BY <1>2, <1>4, <1>7 DEF External, Callback, RequeuePolling
<1>8. ASSUME ErrorExited \/ PollExited \/ Restart \/ WatchdogScan PROVE SeenInv'
  BY <1>1, <1>8 DEF ErrorExited, PollExited, Restart, WatchdogScan, Scans, SeenInv
<1>9. ASSUME WatchdogLeaves \/ WatchdogRequeues \/ WatchdogGivesUp \/ WatchdogRequeueFails
      PROVE  SeenInv'
  BY <1>3, <1>9 DEF WatchdogLeaves, WatchdogRequeues, WatchdogGivesUp, WatchdogRequeueFails, CancelInterrupted
<1>10. ASSUME UNCHANGED vars PROVE SeenInv'
  BY <1>4, <1>10 DEF vars
<1> QED BY <1>5, <1>6, <1>7, <1>8, <1>9, <1>10 DEF Next, Watchdog

----------------------------------------------------------------------------

\* A successor is a descendant.
LEMMA DownstreamDescends ==
    ASSUME NEW t \in Tasks, NEW u \in Upstream[t]
    PROVE  u \in Tasks /\ t \in Descendants[u]
<1>1. u \in Tasks
  BY GraphAssumption
<1>2. t \in Downstream[u]
  BY <1>1 DEF Downstream
<1> QED BY <1>1, <1>2 DEF Descendants

\* What keeps a request that has work left from being abandoned: the first of
\* the unfinished tasks is in the hands of somebody, or the watchdog sees it.
LEMMA UnfinishedIsSeen ==
    ASSUME TInv, StepInv, FailInv, PlaceInv, BusyInv, SeenInv, Stalled,
           Callbacks = {},
           NEW t \in Tasks, status[t] \notin Exited, \A u \in Upstream[t] : status[u] \in Exited
    PROVE  FALSE
<1>1. /\ \A w \in Workers : job[w].pc = "idle"
      /\ prQueued = 0 /\ ~AnswerDue /\ ~MayRequeue /\ scans.seen = {}
      /\ \A s \in Tasks : queued[s] = 0
  BY DEF Stalled, SeenInv
<1>2. Persisted = Tasks
  BY <1>1 DEF StepInv, MayRequeue
<1>3. status[t] \in {"pending", "polling", "in_processing", "retrying", "paused"}
  BY <1>2 DEF TInv, TypeOK, Status, Resumable, Started, Persisted
<1>4. \A s \in Tasks : status[s] \notin {"in_processing", "retrying", "paused", "polling"}
  BY <1>1 DEF BusyInv, Bodies, AnswerDue
<1>5. ~HasAsyncTasks
  <2> SUFFICES ASSUME NEW c \in Collections, ext[c] # "unsent", status[c] \notin Exited PROVE FALSE
    BY DEF HasAsyncTasks
  <2>1. c \in Tasks /\ status[c] # "absent"
    BY <1>2 DEF Tasks, Persisted
  <2>2. status[c] = "pending"
    BY <1>4, <2>1 DEF TInv, TypeOK, Status, Resumable, Started
  <2> QED BY <2>2 DEF BusyInv
<1>6. status[t] = "pending" /\ Waits(t)
  BY <1>3, <1>4 DEF Waits
<1>7. UpstreamComplete(t)
  <2> SUFFICES ASSUME NEW u \in Upstream[t], status[u] = "error" PROVE FALSE
    BY DEF UpstreamComplete, Exited
  <2>1. u \in Tasks /\ t \in Descendants[u]
    BY DownstreamDescends
  <2>2. \A w \in Workers : ~Marking(w, u)
    BY <1>1 DEF Marking
  <2> QED BY <1>6, <2>1, <2>2 DEF FailInv
<1>8. t \in InProgress /\ NeverDispatched = {} /\ Interrupted = {}
  BY <1>1, <1>5, <1>6 DEF InProgress, MayRequeue
<1>9. cached[t] # "none"
  BY <1>7, <1>8 DEF NeverDispatched
<1>10. cached[t] # "running"
  BY <1>1 DEF PlaceInv, Carries, TaskPCs
<1>11. cached[t] # "queued"
  BY <1>1 DEF TInv, Counted
<1> QED BY <1>1, <1>6, <1>8, <1>9, <1>10 DEF Interrupted

\* A request in processing is not abandoned, if its step runs once, no connection
\* lacks write access and no collection waits for a callback.
THEOREM NeverStalledHolds ==
    ASSUME StepRunsOnce, ReadOnly = {}, Callbacks = {}
    PROVE  Spec => []NeverStalled
<1> DEFINE Inv == FailInv /\ PlaceInv /\ BusyInv /\ ProceedInv /\ SeenInv
<1>1. Init => Inv
  <2> SUFFICES ASSUME Init PROVE Inv
    OBVIOUS
  <2>1. /\ \A w \in Workers : job[w].pc = "idle"
        /\ \A t \in Tasks : cached[t] = "none" /\ status[t] \in {"absent", "pending", "complete"}
        /\ \A c \in Collections : ext[c] = "unsent"
    BY DEF Init, Idle
  <2>2. FailInv /\ PlaceInv /\ BusyInv
    BY <2>1 DEF FailInv, PlaceInv, BusyInv, Bodies
  <2>3. status[Terminator] \notin Completed /\ proceeded = 0 /\ scans.seen = {}
    BY GraphAssumption DEF Init, Tasks, Completed
  <2> QED BY <2>1, <2>2, <2>3 DEF ProceedInv, SeenInv
<1>2. TInv /\ StepInv /\ Inv /\ [Next]_vars => Inv'
  <2> SUFFICES ASSUME TInv, StepInv, Inv, [Next]_vars PROVE Inv'
    OBVIOUS
  <2>1. PlaceInv'
    BY TaskStepsPlace, RequestStepsPlace, OtherStepsPlace
  <2> QED BY <2>1, FailInvStep, BusyInvStep, ProceedInvStep, SeenInvStep
<1>3. TInv /\ StepInv /\ Inv => NeverStalled
  <2> SUFFICES ASSUME TInv, StepInv, Inv, Stalled PROVE FALSE
    BY DEF NeverStalled
  <2>1. Persisted = Tasks
    BY DEF Stalled, StepInv, MayRequeue
  <2>2. CASE \A t \in Tasks : status[t] \in Exited
    <3>1. \A t \in Tasks : status[t] \in Completed
      BY <2>1, <2>2 DEF Stalled, HasErroredTasks, Exited
    <3>2. proceeded > 0 /\ nextQueued = 0
      BY <3>1, GraphAssumption DEF ProceedInv, Stalled, Tasks
    <3> QED BY <3>2 DEF ProceedInv, Stalled
  <2>3. CASE \E t \in Tasks : status[t] \notin Exited
    <3> DEFINE Left == {t \in Tasks : status[t] \notin Exited}
    <3>1. PICK t \in Left : Upstream[t] \cap Left = {}
      BY <2>3, AcyclicAssumption
    <3>2. \A u \in Upstream[t] : status[u] \in Exited
      BY <3>1, GraphAssumption
    <3> QED BY <3>1, <3>2, UnfinishedIsSeen
  <2> QED BY <2>2, <2>3
<1> HIDE DEF Inv
<1> QED BY <1>1, <1>2, <1>3, OrderInvariant, StepInvHolds, PTL DEF Spec
================================================================================
