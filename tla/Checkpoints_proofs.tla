-------------------------- MODULE Checkpoints_proofs --------------------------
(***************************************************************************)
(* Checkpoints, for every policy, every number of workers and every bound: *)
(* its types, then the order of its steps.  ErasesAfterAccessCorrect and   *)
(* CanceledStaysCorrect hold of every execution.  The other theorems on    *)
(* order hold of a request that loses no work (Lossless); the run          *)
(* f_skips_upload shows what happens to one that does.                     *)
(***************************************************************************)
EXTENDS Checkpoints, TLAPS

----------------------------------------------------------------------------
(* Types.                                                                  *)

\* Submit adds its message, or marks the request as errored.
LEMMA SubmitTypes ==
    ASSUME TypeOK, NEW m \in Message, NEW st \in Status, Submit(m, st)
    PROVE  queue' \subseteq Message /\ prStatus' \in Status /\ faults' \in Nat
  BY DEF TypeOK, Submit, Fault, Status

\* A message from a checkpoint is a message.
LEMMA FromMessage == \A s \in 0..10 : From(s) \in Message
  BY DEF From, Message

LEMMA StepOfRange == \A a \in Graphs : StepOf[a] \in {Access, Erasure, Consent}
  BY DEF Graphs, StepOf, Access, Erasure, Consent

USE DEF PreWebhooks, Access, UploadAccess, Erasure, FinalizeErasure, Consent,
        FinalizeConsent, EmailPostSend, PostWebhooks, Finalization, Idle,
        FromStart, Notifying

\* What an idle worker looks like, and what leaving and advancing give.
LEMMA RunTypes ==
    ASSUME TypeOK, NEW w \in Workers
    PROVE  /\ Leave(w) => run' \in [Workers -> Run]
           /\ Advance(w) /\ run[w].at \in Steps => run' \in [Workers -> Run]
           /\ MayCache(w) => checkpoint' \in 0..10
<1>1. NoRun \in Run
  BY DEF NoRun, Run
<1>2. Leave(w) => run' \in [Workers -> Run]
  BY <1>1 DEF TypeOK, Leave
<1>3. ASSUME Advance(w), run[w].at \in Steps
      PROVE  run' \in [Workers -> Run]
  <2>1. run[w] \in Run
    BY DEF TypeOK
  <2>2. [run[w] EXCEPT !.at = @ + 1] \in Run
    BY <1>3, <2>1 DEF Run, Steps
  <2>3. run' = [run EXCEPT ![w] = [run[w] EXCEPT !.at = @ + 1]]
    BY <1>3 DEF Advance, TypeOK
  <2> QED
    BY <2>2, <2>3 DEF TypeOK
<1>4. MayCache(w) => checkpoint' \in 0..10
  BY DEF TypeOK, MayCache, Steps
<1> QED
  BY <1>2, <1>3, <1>4

\* Of a worker's step, the parts of TypeOK it can disturb.
LEMMA WorkerTypes ==
    ASSUME TypeOK, NEW w \in Workers, WorkerNext(w)
    PROVE  TypeOK'
<1>1. ASSUME NEW m \in queue, TakeCanceled(m) \/ TakeWithoutInputs(m)
      PROVE  TypeOK'
  BY <1>1 DEF TypeOK, TakeCanceled, TakeWithoutInputs, Status, people, jobs, bounds
<1>2. ASSUME NEW m \in queue, Take(w, m)
      PROVE  TypeOK'
  <2>1. [at |-> PreWebhooks, from |-> m.from, resumed |-> m.resumed] \in Run
    BY DEF TypeOK, Run, Message
  <2>2. run' \in [Workers -> Run]
    BY <1>2, <2>1 DEF TypeOK, Take
  <2> QED
    BY <1>2, <2>2 DEF TypeOK, Take, Status, people, jobs, bounds
<1>3. CASE Skip(w)
  BY <1>3, RunTypes DEF TypeOK, Skip, people, jobs, bounds
<1>4. CASE LeaveUnfinalized(w)
  BY <1>4, RunTypes DEF TypeOK, LeaveUnfinalized, people, jobs, bounds
<1>5. CASE Work(w)
  BY <1>5, RunTypes DEF TypeOK, Work, Reaches, Steps, people, jobs, bounds
<1>6. CASE Halt(w)
  BY <1>6, RunTypes DEF TypeOK, Halt, Status, jobs, bounds
<1>7. ASSUME NEW a \in Graphs, EnterGraph(w, a)
      PROVE  TypeOK'
  BY <1>7, RunTypes, StepOfRange DEF TypeOK, EnterGraph, people, jobs, bounds
<1>8. CASE AwaitReview(w)
  BY <1>8, RunTypes DEF TypeOK, AwaitReview, Status, people, jobs, bounds
<1>9. CASE UploadFails(w)
  BY <1>9, RunTypes
  DEF TypeOK, UploadFails, Reaches, Steps, Faulted, Fault, Status, people, jobs
<1>10. CASE AwaitEmail(w)
  BY <1>10, RunTypes DEF TypeOK, AwaitEmail, Status, people, jobs, bounds
<1>11. CASE EndInError(w)
  BY <1>11, RunTypes DEF TypeOK, EndInError, people, jobs, bounds
<1>12. CASE Hold(w)
  BY <1>12, RunTypes DEF TypeOK, Hold, Status, people, jobs, bounds
<1>13. CASE Complete(w)
  BY <1>13, RunTypes DEF TypeOK, Complete, Reaches, Steps, Status, people, jobs, bounds
<1>14. CASE Notify(w)
  BY <1>14, RunTypes DEF TypeOK, Notify, Fault, Status, people, jobs
<1>15. CASE StepFails(w)
  BY <1>15, RunTypes DEF TypeOK, StepFails, Faulted, Fault, Status, people, jobs
<1>16. CASE SoftLimit(w)
  BY <1>16, RunTypes DEF TypeOK, SoftLimit, Faulted, Fault, Status, people, jobs, Run
<1>17. CASE Die(w)
  BY <1>17, RunTypes DEF TypeOK, Die, Faulted, Fault, people, jobs
<1> QED
  BY <1>1, <1>2, <1>3, <1>4, <1>5, <1>6, <1>7, <1>8, <1>9, <1>10, <1>11, <1>12,
     <1>13, <1>14, <1>15, <1>16, <1>17 DEF WorkerNext

\* Where a request is taken to be if its checkpoint has expired.
LEMMA InferredRange ==
    /\ Inferred \in {FromStart, Access, Erasure, Consent}
    /\ Inferred = Erasure => graph["access"] = "done"
  BY DEF Inferred

\* The same for the graphs, the poller and the watchdog.
LEMMA GraphTypes ==
    ASSUME TypeOK, GraphNext
    PROVE  TypeOK'
<1>1. ASSUME NEW a \in Graphs, GraphDone(a)
      PROVE  TypeOK'
  <2>1. From(StepOf[a] + 1) \in Message
    BY FromMessage, StepOfRange
  <2>2. queue' \subseteq Message /\ prStatus' \in Status /\ faults' \in Nat
    BY <1>1, <2>1, SubmitTypes DEF TypeOK, GraphDone
  <2>3. StepOf[a] \in Steps
    BY StepOfRange DEF Steps
  <2> QED
    BY <1>1, <2>2, <2>3 DEF TypeOK, GraphDone, people
<1>2. ASSUME NEW a \in Graphs, GraphEnds(a) \/ GraphDies(a) \/ GraphFails(a)
      PROVE  TypeOK'
  BY <1>2
  DEF TypeOK, GraphEnds, GraphDies, GraphFails, Faulted, Fault, people, jobs
<1>3. CASE PollLists \/ PollLooks \/ PollErrors
  BY <1>3 DEF TypeOK, PollLists, PollLooks, PollErrors, Status, people, bounds
<1>4. CASE Requeue \/ WatchdogRequeues
  <2>1. From(ResumePoint) \in Message
    BY FromMessage, InferredRange DEF TypeOK, ResumePoint
  <2>2. \A st \in Status : Submit(From(ResumePoint), st) =>
            queue' \subseteq Message /\ prStatus' \in Status /\ faults' \in Nat
    BY <2>1, SubmitTypes
  <2>3. prStatus \in Status /\ "in_processing" \in Status
    BY DEF TypeOK, Status
  <2>4. CASE Requeue
    BY <2>2, <2>3, <2>4 DEF TypeOK, Requeue, people, jobs
  <2>5. CASE WatchdogRequeues
    BY <2>2, <2>3, <2>5 DEF TypeOK, WatchdogRequeues, people
  <2> QED
    BY <1>4, <2>4, <2>5
<1>7. CASE WatchdogLists \/ WatchdogPasses
  BY <1>7 DEF TypeOK, WatchdogLists, WatchdogPasses, people, bounds
<1>5. CASE GiveUp
  BY <1>5 DEF TypeOK, GiveUp, Revocable, Status, people, bounds
<1>6. CASE Expire
  BY <1>6 DEF TypeOK, Expire, people, jobs
<1> QED
  BY <1>1, <1>2, <1>3, <1>4, <1>5, <1>6, <1>7 DEF GraphNext

\* The same for people.
LEMMA PeopleTypes ==
    ASSUME TypeOK, PeopleNext
    PROVE  TypeOK'
<1>1. ASSUME NEW m \in Message, NEW st \in Status, Submit(m, st)
      PROVE  queue' \subseteq Message /\ prStatus' \in Status /\ faults' \in Nat
  BY <1>1, SubmitTypes
<1>2. [from |-> FromStart, resumed |-> TRUE] \in Message
  BY DEF Message
<1>3. From(checkpoint) \in Message /\ From(FromStart) \in Message
      /\ From(UploadAccess) \in Message /\ From(Finalization) \in Message
  BY FromMessage DEF TypeOK
<1>4. "in_processing" \in Status /\ prStatus \in Status
  BY DEF TypeOK, Status
<1>5. CASE Restart
  BY <1>1, <1>3, <1>4, <1>5 DEF TypeOK, Restart, people, jobs
<1>6. CASE ResumeFromWebhook
  BY <1>1, <1>2, <1>4, <1>6 DEF TypeOK, ResumeFromWebhook, people, jobs
<1>7. CASE ExpirePaused
  BY <1>7 DEF TypeOK, ExpirePaused, Status, people, jobs, bounds
<1>8. CASE GiveInputs
  BY <1>8 DEF TypeOK, GiveInputs, jobs, bounds
<1>9. CASE ResumeFromInputs
  BY <1>1, <1>3, <1>4, <1>9 DEF TypeOK, ResumeFromInputs, people, jobs
<1>10. CASE ApproveReview
  BY <1>1, <1>3, <1>4, <1>10 DEF TypeOK, ApproveReview, jobs
<1>11. CASE Finalize
  BY <1>1, <1>3, <1>4, <1>11 DEF TypeOK, Finalize, jobs
<1>12. CASE Cancel
  BY <1>12 DEF TypeOK, Cancel, Revocable, Status, jobs, bounds
<1> QED
  BY <1>5, <1>6, <1>7, <1>8, <1>9, <1>10, <1>11, <1>12 DEF PeopleNext

\* The same for the batch.
LEMMA BatchTypes ==
    ASSUME TypeOK, BatchNext
    PROVE  TypeOK'
<1>1. CASE BatchSend
  BY <1>1 DEF TypeOK, BatchSend, Steps, people, jobs, bounds
<1>2. CASE BatchList \/ BatchPause
  BY <1>2 DEF TypeOK, BatchList, BatchPause, Status, people, jobs, bounds
<1>3. CASE BatchQueue
  <2>1. queue' \subseteq Message /\ prStatus' \in Status /\ faults' \in Nat
    BY <1>3, FromMessage, SubmitTypes DEF BatchQueue, TypeOK
  <2> QED
    BY <1>3, <2>1 DEF TypeOK, BatchQueue, people, jobs
<1>4. CASE BatchEnds \/ BatchDies
  BY <1>4 DEF TypeOK, BatchEnds, BatchDies, Faulted, Fault, people, jobs, bounds
<1> QED
  BY <1>1, <1>2, <1>3, <1>4 DEF BatchNext

LEMMA TypeStep == TypeOK /\ [Next]_vars => TypeOK'
<1>1. ASSUME TypeOK, UNCHANGED vars PROVE TypeOK'
  BY <1>1 DEF TypeOK, vars, people, jobs, bounds
<1> QED
  BY <1>1, WorkerTypes, GraphTypes, PeopleTypes, BatchTypes DEF Next

LEMMA TypeInit == Init => TypeOK
<1> SUFFICES ASSUME Init PROVE TypeOK
  OBVIOUS
<1>1. {finalized, canceled, inputs, reviewed, halted} \subseteq BOOLEAN
  BY DEF Init
<1>2. queue \subseteq Message
  BY DEF Init, Message
<1>3. run \in [Workers -> Run]
  BY DEF Init, NoRun, Run
<1>4. graph \in [Graphs -> {"absent", "running", "failed", "done"}]
  BY DEF Init
<1> QED
  BY <1>1, <1>2, <1>3, <1>4 DEF Init, TypeOK, Status

\* Every variable stays in its range, whatever fails, expires or is repeated.
THEOREM TypeCorrect == Spec => []TypeOK
  BY TypeInit, TypeStep, PTL DEF Spec

----------------------------------------------------------------------------
(* Order.                                                                  *)

USE DEF PreWebhooks, Access, UploadAccess, Erasure, FinalizeErasure, Consent,
        FinalizeConsent, EmailPostSend, PostWebhooks, Finalization, Idle,
        FromStart, Notifying

\* The storage takes every package, there is no soft time limit, and the cached
\* checkpoint outlives the request.
Lossless == ~UploadFailures /\ ~SoftLimits /\ MaxExpiries = 0

----------------------------------------------------------------------------
(* What every step leaves in place.                                        *)

\* The policy never changes, and what is finished stays finished.
LEMMA Monotone ==
    ASSUME [Next]_vars
    PROVE  config' = config /\ done \subseteq done'
<1>1. CASE UNCHANGED vars
  BY <1>1 DEF vars
<1>2. ASSUME NEW w \in Workers, WorkerNext(w)
      PROVE  config' = config /\ done \subseteq done'
  BY <1>2
  DEF WorkerNext, TakeCanceled, TakeWithoutInputs, Take, Skip, LeaveUnfinalized,
      Work, Halt, EnterGraph, AwaitReview, UploadFails, AwaitEmail, EndInError,
      Hold, Complete, Notify, StepFails, SoftLimit, Die
<1>3. CASE GraphNext
  BY <1>3
  DEF GraphNext, GraphEnds, GraphDone, GraphDies, GraphFails, PollLists,
      PollLooks, PollErrors, Requeue, WatchdogLists, WatchdogPasses,
      WatchdogRequeues, GiveUp, Expire
<1>4. CASE PeopleNext
  BY <1>4
  DEF PeopleNext, Restart, ResumeFromWebhook, ExpirePaused, GiveInputs,
      ResumeFromInputs, ApproveReview, Finalize, Cancel
<1>5. CASE BatchNext
  BY <1>5 DEF BatchNext, BatchSend, BatchList, BatchPause, BatchQueue, BatchEnds, BatchDies
<1> QED
  BY <1>1, <1>2, <1>3, <1>4, <1>5 DEF Next

\* A message that Submit adds is the only new one; the status is the one asked
\* for, or "error".
LEMMA SubmitAdds ==
    ASSUME NEW m, NEW st, Submit(m, st)
    PROVE  queue' \subseteq queue \cup {m} /\ prStatus' \in {st, "error"}
  BY DEF Submit

\* Leaving and advancing concern one worker.
LEMMA LeaveOne ==
    ASSUME TypeOK, NEW w \in Workers, Leave(w), NEW v \in Workers
    PROVE  run'[v] = IF v = w THEN NoRun ELSE run[v]
  BY DEF TypeOK, Leave

LEMMA AdvanceOne ==
    ASSUME TypeOK, NEW w \in Workers, Advance(w), NEW v \in Workers
    PROVE  /\ run'[v].at = IF v = w THEN run[w].at + 1 ELSE run[v].at
           /\ run'[v].from = run[v].from
  BY DEF TypeOK, Advance, Run

----------------------------------------------------------------------------
(* Nothing is erased before the access graph is complete.                  *)

\* The access graph is asked for, and is not complete.
Blocked == Applies(Access) /\ Access \notin done

\* Until then nobody takes the request up at upload_access or erasure: not from
\* the cached checkpoint, a message, a worker, or the review.
AInv ==
    /\ Blocked =>
        /\ checkpoint \notin {UploadAccess, Erasure}
        /\ \A m \in queue : m.from \notin {UploadAccess, Erasure}
        /\ \A w \in Workers :
            /\ run[w].from \notin {UploadAccess, Erasure}
            /\ run[w].at \in {UploadAccess, Erasure} => run[w].from > run[w].at
        /\ prStatus # "awaiting_access_review"
    /\ \A a \in Graphs : graph[a] = "done" => StepOf[a] \in done
    /\ \A a \in closing : graph[a] # "absent"
    /\ ErasesAfterAccess

LEMMA ReachedUnblocked ==
    ASSUME TypeOK, AInv, NEW w \in Workers, NEW s \in {UploadAccess, Erasure},
           Reaches(w, s)
    PROVE  ~Blocked
<1>1. run[w].at = s /\ s >= run[w].from
  BY DEF Reaches, CanRun
<1>2. run[w].at \in Nat /\ run[w].from \in Nat
  BY DEF TypeOK, Run
<1> QED
  BY <1>1, <1>2 DEF AInv

\* The parts of AInv a worker's step can disturb: what is cached, where the
\* worker stands, and the status.
LEMMA AWorker ==
    ASSUME TypeOK, AInv, NEW w \in Workers, WorkerNext(w)
    PROVE  AInv'
<1> DEFINE Late == {UploadAccess, Erasure}
<1>1. config' = config /\ done \subseteq done' /\ (Blocked' => Blocked)
  BY Monotone DEF Next, Blocked, Applies, HasRules
<1>2. ASSUME NEW v \in Workers PROVE run[v].at \in Nat /\ run[v].from \in Nat
  BY DEF TypeOK, Run
<1>3. ASSUME Leave(w), Blocked'
      PROVE  \A v \in Workers : /\ run'[v].from \notin Late
                                /\ run'[v].at \in Late => run'[v].from > run'[v].at
  BY <1>1, <1>3, LeaveOne DEF AInv, NoRun
<1>4. ASSUME Advance(w), Blocked',
             run[w].at \in Late \cup {Access} => run[w].from > run[w].at
      PROVE  \A v \in Workers : /\ run'[v].from \notin Late
                                /\ run'[v].at \in Late => run'[v].from > run'[v].at
  <2> SUFFICES ASSUME NEW v \in Workers
               PROVE  /\ run'[v].from \notin Late
                      /\ run'[v].at \in Late => run'[v].from > run'[v].at
    OBVIOUS
  <2>1. CASE v # w
    BY <2>1, <1>1, <1>4, AdvanceOne DEF AInv
  <2>2. CASE v = w
    BY <2>2, <1>1, <1>2, <1>4, AdvanceOne DEF AInv
  <2> QED
    BY <2>1, <2>2
<1>5. ASSUME MayCache(w), Blocked' PROVE checkpoint' \notin Late
  BY <1>1, <1>5, ReachedUnblocked DEF AInv, MayCache
<1>6. ASSUME NEW m \in queue, TakeCanceled(m) \/ TakeWithoutInputs(m)
      PROVE  AInv'
  BY <1>1, <1>6 DEF AInv, TakeCanceled, TakeWithoutInputs, ErasesAfterAccess, jobs
<1>7. ASSUME NEW m \in queue, Take(w, m)
      PROVE  AInv'
  <2>1. ASSUME NEW v \in Workers
        PROVE  run'[v] = IF v = w THEN [at |-> PreWebhooks, from |-> m.from,
                                        resumed |-> m.resumed]
                                  ELSE run[v]
    BY <1>7 DEF Take, TypeOK
  <2>2. Blocked' => \A v \in Workers :
            /\ run'[v].from \notin Late
            /\ run'[v].at \in Late => run'[v].from > run'[v].at
    BY <1>1, <1>7, <2>1 DEF AInv
  <2> QED
    BY <1>1, <1>7, <2>2 DEF AInv, Take, ErasesAfterAccess, jobs
<1>8. CASE Skip(w)
  <2>1. Blocked' /\ run[w].at \in Late \cup {Access} => run[w].from > run[w].at
    BY <1>1, <1>2, <1>8
    DEF AInv, Skip, Reaches, CanRun, Blocked, Applies, HasRules
  <2> QED
    BY <1>1, <1>4, <1>8, <2>1 DEF AInv, Skip, ErasesAfterAccess, jobs
<1>9. CASE Work(w)
  <2>1. PICK s \in {PreWebhooks, UploadAccess, FinalizeErasure, PostWebhooks} :
            Reaches(w, s) /\ checkpoint' = s /\ done' = done \cup {s} /\ Advance(w)
    BY <1>9 DEF Work
  <2>2. Blocked' => s # UploadAccess
    BY <1>1, <2>1, ReachedUnblocked
  <2>3. Blocked' => \A v \in Workers :
            /\ run'[v].from \notin Late
            /\ run'[v].at \in Late => run'[v].from > run'[v].at
    BY <1>4, <2>1, <2>2 DEF Reaches
  <2> QED
    BY <1>1, <1>9, <2>1, <2>2, <2>3 DEF AInv, Work, ErasesAfterAccess, jobs
<1>10. ASSUME NEW a \in Graphs, EnterGraph(w, a)
       PROVE  AInv'
  <2>1. StepOf[a] \in {Access, Erasure, Consent}
    BY StepOfRange
  <2>2. a = "erasure" => Applies(Access) /\ ~Blocked
    BY <1>10, ReachedUnblocked
    DEF EnterGraph, Reaches, StepOf, Graphs, Applies, HasRules
  <2>3. Blocked' => checkpoint' \notin Late
    BY <1>1, <1>10, <2>1, ReachedUnblocked DEF EnterGraph
  <2>4. ASSUME NEW b \in Graphs, graph'[b] = "done" PROVE StepOf[b] \in done'
    BY <1>10, <2>4 DEF EnterGraph, AInv, TypeOK
  <2>5. ErasesAfterAccess'
    BY <1>10, <2>2 DEF EnterGraph, AInv, ErasesAfterAccess, TypeOK, Blocked, Graphs
  <2>6. ASSUME NEW b \in closing' PROVE graph'[b] # "absent"
    BY <1>10 DEF EnterGraph, AInv, TypeOK, jobs
  <2> QED
    BY <1>1, <1>3, <1>10, <2>3, <2>4, <2>5, <2>6 DEF AInv, EnterGraph
<1>11. CASE AwaitReview(w)
  <2>1. ~Blocked
    BY <1>11, ReachedUnblocked DEF AwaitReview
  <2> QED
    BY <1>1, <1>11, <2>1 DEF AInv, AwaitReview, ErasesAfterAccess, jobs
<1>12. CASE UploadFails(w)
  <2>1. ~Blocked
    BY <1>12, ReachedUnblocked DEF UploadFails
  <2> QED
    BY <1>1, <1>12, <2>1 DEF AInv, UploadFails, ErasesAfterAccess, jobs
<1>13. CASE LeaveUnfinalized(w) \/ Halt(w) \/ AwaitEmail(w) \/ EndInError(w)
           \/ Hold(w) \/ Notify(w)
  BY <1>1, <1>3, <1>13
  DEF AInv, LeaveUnfinalized, Halt, AwaitEmail, EndInError, Hold, Notify,
      ErasesAfterAccess, jobs
<1>14. CASE Complete(w)
  <2>1. run[w].at = Finalization
    BY <1>14 DEF Complete, Reaches
  <2> QED
    BY <1>1, <1>4, <1>14, <2>1 DEF AInv, Complete, ErasesAfterAccess, jobs
<1>15. CASE StepFails(w) \/ Die(w)
  BY <1>1, <1>3, <1>5, <1>15 DEF AInv, StepFails, Die, ErasesAfterAccess, jobs
<1>16. CASE SoftLimit(w)
  <2>1. ASSUME NEW v \in Workers
        PROVE  /\ run'[v].from = run[v].from
               /\ run'[v].at = IF v = w THEN EmailPostSend ELSE run[v].at
    BY <1>16 DEF SoftLimit, TypeOK, Run
  <2> QED
    BY <1>1, <1>5, <1>16, <2>1 DEF AInv, SoftLimit, ErasesAfterAccess, jobs
<1> QED
  BY <1>6, <1>7, <1>8, <1>9, <1>10, <1>11, <1>12, <1>13, <1>14, <1>15, <1>16
  DEF WorkerNext

\* Graphs, people and the batch move no worker; only messages and the status can
\* disturb AInv.
LEMMA AOthers ==
    ASSUME TypeOK, AInv, GraphNext \/ PeopleNext \/ BatchNext
    PROVE  AInv'
<1> DEFINE Late == {UploadAccess, Erasure}
           QueueFree == \A m \in queue : m.from \notin Late
<1>1. config' = config /\ done \subseteq done' /\ (Blocked' => Blocked)
  BY Monotone DEF Next, Blocked, Applies, HasRules
<1>2. ASSUME NEW s \in 0..10, NEW st, Submit(From(s), st), Blocked' => s \notin Late
      PROVE  Blocked' => QueueFree'
  BY <1>1, <1>2, SubmitAdds DEF AInv, From
<1>3. ASSUME NEW a \in Graphs, GraphDone(a)
      PROVE  AInv'
  <2>1. StepOf[a] \in {Access, Erasure, Consent} /\ StepOf[a] \in done'
    BY <1>3, StepOfRange DEF GraphDone
  <2>2. Submit(From(StepOf[a] + 1), prStatus)
    BY <1>3 DEF GraphDone
  <2>3. Blocked' => StepOf[a] + 1 \notin Late
    BY <2>1 DEF Blocked
  <2>4. Blocked' => QueueFree' /\ prStatus' # "awaiting_access_review"
    BY <1>1, <1>2, <2>1, <2>2, <2>3, SubmitAdds DEF AInv
  <2> QED
    BY <1>1, <1>3, <2>1, <2>4 DEF AInv, GraphDone, ErasesAfterAccess, TypeOK, Graphs
<1>4. ASSUME NEW a \in Graphs, GraphEnds(a) \/ GraphDies(a) \/ GraphFails(a)
      PROVE  AInv'
  <2>1. CASE GraphEnds(a) \/ GraphDies(a)
    BY <1>1, <2>1 DEF AInv, GraphEnds, GraphDies, ErasesAfterAccess
  <2>2. CASE GraphFails(a)
    BY <1>1, <2>2 DEF AInv, GraphFails, ErasesAfterAccess, TypeOK, Graphs, jobs
  <2> QED
    BY <1>4, <2>1, <2>2
<1>5. CASE Requeue \/ WatchdogRequeues
  <2>1. ResumePoint \in 0..10
    BY InferredRange DEF TypeOK, ResumePoint
  <2>2. Blocked' => ResumePoint \notin Late
    BY <1>1, InferredRange DEF AInv, Blocked, Graphs, StepOf, ResumePoint
  <2>3. Blocked' => QueueFree' /\ prStatus' # "awaiting_access_review"
    BY <1>1, <1>2, <1>5, <2>1, <2>2, SubmitAdds DEF AInv, Requeue, WatchdogRequeues
  <2> QED
    BY <1>1, <1>5, <2>3 DEF AInv, Requeue, WatchdogRequeues, ErasesAfterAccess, jobs
<1>6. CASE PollLists \/ PollLooks \/ PollErrors \/ WatchdogLists
          \/ WatchdogPasses \/ GiveUp \/ Expire
  BY <1>1, <1>6
  DEF AInv, PollLists, PollLooks, PollErrors, WatchdogLists, WatchdogPasses,
      GiveUp, Expire, Revocable, ErasesAfterAccess, jobs
<1>7. CASE Restart
  <2>1. Blocked' => QueueFree'
    BY <1>1, <1>2, <1>7 DEF Restart, TypeOK, AInv
  <2> QED
    BY <1>1, <1>7, <2>1, SubmitAdds DEF AInv, Restart, ErasesAfterAccess, jobs
<1>8. CASE ResumeFromWebhook
  BY <1>1, <1>8, SubmitAdds DEF AInv, ResumeFromWebhook, ErasesAfterAccess, jobs
<1>9. CASE ResumeFromInputs \/ Finalize
  <2>1. Blocked' => QueueFree'
    BY <1>2, <1>9 DEF ResumeFromInputs, Finalize
  <2> QED
    BY <1>1, <1>9, <2>1, SubmitAdds
    DEF AInv, ResumeFromInputs, Finalize, ErasesAfterAccess, jobs
<1>10. CASE ApproveReview
  <2>1. ~Blocked
    BY <1>10 DEF ApproveReview, AInv
  <2> QED
    BY <1>1, <1>10, <2>1 DEF AInv, ApproveReview, ErasesAfterAccess, jobs
<1>11. CASE ExpirePaused \/ GiveInputs \/ Cancel
  BY <1>1, <1>11
  DEF AInv, ExpirePaused, GiveInputs, Cancel, Revocable, ErasesAfterAccess, jobs
<1>12. CASE BatchQueue
  <2>1. Blocked' => QueueFree'
    BY <1>2, <1>12 DEF BatchQueue
  <2> QED
    BY <1>1, <1>12, <2>1, SubmitAdds DEF AInv, BatchQueue, ErasesAfterAccess, jobs
<1>13. CASE BatchSend \/ BatchList \/ BatchPause \/ BatchEnds \/ BatchDies
  BY <1>1, <1>13
  DEF AInv, BatchSend, BatchList, BatchPause, BatchEnds, BatchDies, ErasesAfterAccess, jobs
<1> QED
  BY <1>3, <1>4, <1>5, <1>6, <1>7, <1>8, <1>9, <1>10, <1>11, <1>12, <1>13
  DEF GraphNext, PeopleNext, BatchNext

LEMMA AStep == TypeOK /\ AInv /\ [Next]_vars => AInv'
<1>1. ASSUME AInv, UNCHANGED vars PROVE AInv'
  BY <1>1
  DEF AInv, vars, jobs, Blocked, Applies, HasRules, ErasesAfterAccess
<1> QED
  BY <1>1, AWorker, AOthers DEF Next

LEMMA AInit == Init => AInv
  BY DEF Init, AInv, NoRun, Graphs, ErasesAfterAccess

\* Nothing is erased before the access graph, which tells the erasure graph what
\* to erase, is complete: whatever is lost, repeated, restarted, or expired.
THEOREM ErasesAfterAccessCorrect == Spec => []ErasesAfterAccess
<1>1. AInv => ErasesAfterAccess
  BY DEF AInv
<1>2. Spec => []AInv
  BY TypeCorrect, AInit, AStep, PTL DEF Spec
<1> QED
  BY <1>1, <1>2, PTL

----------------------------------------------------------------------------
(* A request that loses no work resumes behind nothing unfinished.         *)

\* Resumable: what it contains, how it grows, and how a finished checkpoint
\* extends it.
LEMMA ResumableStart == {FromStart, PreWebhooks} \subseteq Resumable
  BY DEF Resumable, Needed

LEMMA ResumableDown ==
    ASSUME NEW p \in Resumable, NEW q \in 0..11, q <= p
    PROVE  q \in Resumable
  BY DEF Resumable, Needed

LEMMA NeededSame ==
    ASSUME [Next]_vars
    PROVE  Needed' = Needed /\ Resumable \subseteq Resumable'
<1>1. Needed' = Needed
  BY Monotone DEF Needed, Applies, HasRules
<1> QED
  BY <1>1, Monotone DEF Resumable

LEMMA ResumableNext ==
    ASSUME [Next]_vars, NEW p \in Resumable, p \in 0..10, p \in Needed => p \in done'
    PROVE  p + 1 \in Resumable'
<1> SUFFICES ASSUME NEW s \in Needed, s < p + 1
             PROVE  s \in done'
  BY NeededSame DEF Resumable
<1>1. s \in 1..10
  BY DEF Needed
<1>2. CASE s = p
  BY <1>2
<1>3. CASE s < p
  BY <1>3, Monotone DEF Resumable
<1> QED
  BY <1>1, <1>2, <1>3

\* The checkpoints that end no work the policy asks for.
LEMMA NotNeeded ==
    {FromStart, FinalizeErasure, FinalizeConsent, EmailPostSend, Finalization}
        \cap Needed = {}
  BY DEF Needed

\* Where the workers stand, and where they resumed.
RunsAt == \A w \in Workers : run[w].at \in Resumable /\ run[w].from \in Resumable

\* A graph was entered at a resumable checkpoint, which is cached, and has done
\* its work when it is done.
GraphsAt ==
    \A a \in Graphs :
        /\ graph[a] # "absent" => StepOf[a] \in Resumable /\ checkpoint # FromStart
        /\ graph[a] = "done" => StepOf[a] \in done
        /\ a \in closing => graph[a] # "absent"

\* Somebody has finalized the request, if somebody has to.
Settled == MustFinalize => finalized

\* A request that waits is taken up behind the checkpoint it waits at.
WaitsAt ==
    /\ prStatus = "awaiting_access_review" => UploadAccess \in Resumable
    /\ prStatus = "awaiting_email_send" => EmailPostSend \in Resumable
    /\ batch = "listed" => EmailPostSend \in Resumable
    /\ batch = "pausing" => PostWebhooks \in Resumable
    /\ prStatus = "requires_manual_finalization" => Finalization \in Resumable
    /\ prStatus = "complete" => Notifying \in Resumable /\ Settled

OInv == RunsAt /\ ResumeMissesNothing /\ GraphsAt /\ WaitsAt

\* What OInv is for.
LEMMA OInvGives ==
    ASSUME TypeOK, OInv
    PROVE  ResumeMissesNothing /\ ErasesAfterUpload /\ CompletesAfterAll
<1>1. ErasesAfterUpload
  <2> SUFFICES ASSUME graph["erasure"] # "absent", HasRules({"access"})
               PROVE  UploadAccess \in done
    BY DEF ErasesAfterUpload
  <2>1. Erasure \in Resumable
    BY DEF OInv, GraphsAt, Graphs, StepOf
  <2>2. UploadAccess \in Needed
    BY DEF Needed, Applies, HasRules
  <2> QED
    BY <2>1, <2>2 DEF Resumable
<1>2. CompletesAfterAll
  <2> SUFFICES ASSUME prStatus = "complete", NEW s \in Needed
               PROVE  s \in done /\ (MustFinalize => finalized)
    BY DEF CompletesAfterAll, OInv, WaitsAt, Settled
  <2>1. Notifying \in Resumable /\ s < Notifying
    BY DEF OInv, WaitsAt, Needed
  <2> QED
    BY <2>1 DEF Resumable, OInv, WaitsAt, Settled
<1> QED
  BY <1>1, <1>2 DEF OInv

\* A settled request stays so; a step that leaves the status alone, or sets one
\* that waits for nothing, leaves WaitsAt alone.
LEMMA SettledStays ==
    ASSUME [Next]_vars, Settled, finalized => finalized'
    PROVE  Settled'
  BY Monotone, Zenon DEF Settled, MustFinalize, HasRules

LEMMA WaitsStay ==
    ASSUME [Next]_vars, WaitsAt,
           prStatus' \in {prStatus, "in_processing", "requires_input", "paused",
                         "error", "canceled"},
           batch' \in {batch, "idle", "sent"},
           finalized => finalized'
    PROVE  WaitsAt'
  BY NeededSame, SettledStays DEF WaitsAt

\* A worker's step.  A worker that leaves starts anew; one that advances has
\* finished its checkpoint, or need not.
LEMMA OWorker ==
    ASSUME ConstantsAssumption, Lossless, TypeOK, OInv,
           NEW w \in Workers, WorkerNext(w)
    PROVE  OInv'
<1>1. config' = config /\ done \subseteq done'
  BY Monotone DEF Next
<1>2. Needed' = Needed /\ Resumable \subseteq Resumable'
  BY NeededSame DEF Next
<1>3. ASSUME NEW v \in Workers
      PROVE  /\ run[v].at \in 0..11 /\ run[v].from \in 0..10
             /\ run[v].at \in Resumable /\ run[v].from \in Resumable
  BY DEF TypeOK, Run, OInv, RunsAt
<1>4. Leave(w) => RunsAt'
  BY <1>2, <1>3, LeaveOne, ResumableStart DEF RunsAt, NoRun
<1>5. Advance(w) /\ run[w].at + 1 \in Resumable' => RunsAt'
  BY <1>2, <1>3, AdvanceOne DEF RunsAt
<1>6. ASSUME NEW s \in Steps, Reaches(w, s)
      PROVE  s \in Resumable /\ run[w].at = s
  BY <1>3, <1>6 DEF Reaches
<1>7. MayCache(w) => checkpoint' \in Resumable'
                     /\ (checkpoint # FromStart => checkpoint' # FromStart)
  BY <1>2, <1>6 DEF MayCache, OInv, ResumeMissesNothing, Steps
<1>8. ASSUME NEW p \in Resumable, p \in 0..10, p \in Needed => p \in done'
      PROVE  p + 1 \in Resumable'
  BY <1>8, ResumableNext DEF Next
<1> DEFINE Rest == ResumeMissesNothing' /\ GraphsAt' /\ WaitsAt'
           Quiet == {prStatus, "in_processing", "requires_input", "paused", "error",
                     "canceled"}
<1>9. finalized' = finalized /\ batch' = batch /\ closing' = closing
  BY DEF WorkerNext, TakeCanceled, TakeWithoutInputs, Take, Skip, LeaveUnfinalized,
         Work, Halt, EnterGraph, AwaitReview, UploadFails, AwaitEmail, EndInError,
         Hold, Complete, Notify, StepFails, SoftLimit, Die, people, jobs
<1>10. prStatus' \in Quiet => WaitsAt'
  BY <1>9, WaitsStay DEF Next, OInv
<1>11. Settled => Settled'
  BY <1>9, SettledStays DEF Next
<1>12. ASSUME NEW m \in queue, TakeCanceled(m) \/ TakeWithoutInputs(m)
      PROVE  OInv'
  BY <1>1, <1>2, <1>9, <1>12, <1>10
  DEF OInv, RunsAt, ResumeMissesNothing, GraphsAt, TakeCanceled, TakeWithoutInputs
<1>13. ASSUME NEW m \in queue, Take(w, m)
       PROVE  OInv'
  <2>1. ASSUME NEW v \in Workers
        PROVE  run'[v] = IF v = w THEN [at |-> PreWebhooks, from |-> m.from,
                                        resumed |-> m.resumed]
                                  ELSE run[v]
    BY <1>13 DEF Take, TypeOK
  <2>2. RunsAt'
    BY <1>2, <1>3, <2>1, ResumableStart DEF RunsAt, OInv, ResumeMissesNothing
  <2>3. Rest
    BY <1>1, <1>2, <1>9, <1>13, <1>10 DEF OInv, ResumeMissesNothing, GraphsAt, Take
  <2> QED
    BY <2>2, <2>3 DEF OInv
<1>14. CASE Skip(w)
  <2> DEFINE s == run[w].at
  <2>1. s \in 1..10 /\ (~Applies(s) \/ ~CanRun(s, run[w].from))
    BY <1>14, Zenon DEF Skip, Reaches, Steps
  <2>2. ASSUME ~Applies(s) PROVE s + 1 \in Resumable'
    <3>1. s \notin Needed
      BY <2>2, Zenon DEF Needed
    <3> QED
      BY <1>3, <1>8, <2>1, <3>1
  <2>3. ASSUME ~CanRun(s, run[w].from) PROVE s + 1 \in Resumable'
    <3>1. s + 1 \in 0..11 /\ s + 1 <= run[w].from
      BY <1>3, <2>1, <2>3 DEF CanRun
    <3> QED
      BY <1>2, <1>3, <3>1, ResumableDown
  <2>4. RunsAt'
    BY <1>5, <1>14, <2>1, <2>2, <2>3 DEF Skip
  <2>5. Rest
    BY <1>1, <1>2, <1>9, <1>14, <1>10 DEF OInv, ResumeMissesNothing, GraphsAt, Skip
  <2> QED
    BY <2>4, <2>5 DEF OInv
<1>15. CASE Work(w)
  <2>1. PICK s \in {PreWebhooks, UploadAccess, FinalizeErasure, PostWebhooks} :
            Reaches(w, s) /\ checkpoint' = s /\ done' = done \cup {s} /\ Advance(w)
    BY <1>15 DEF Work
  <2>2. s \in Resumable /\ run[w].at = s
    BY <1>6, <2>1 DEF Steps
  <2>3. RunsAt'
    BY <1>5, <1>8, <2>1, <2>2
  <2>4. prStatus' = prStatus /\ queue' = queue /\ graph' = graph
    BY <1>15 DEF Work
  <2>5. ResumeMissesNothing'
    BY <1>2, <2>1, <2>2, <2>4 DEF OInv, ResumeMissesNothing
  <2>6. checkpoint' # FromStart
    BY <2>1
  <2>7. GraphsAt'
    BY <1>1, <1>2, <1>9, <2>4, <2>6 DEF OInv, GraphsAt
  <2> QED
    BY <1>10, <2>3, <2>4, <2>5, <2>7 DEF OInv
<1>16. ASSUME NEW a \in Graphs, EnterGraph(w, a)
       PROVE  OInv'
  <2>1. StepOf[a] \in {Access, Erasure, Consent} /\ StepOf[a] \in Resumable
    BY <1>6, <1>16, StepOfRange DEF EnterGraph, Steps
  <2>2. GraphsAt'
    <3> SUFFICES ASSUME NEW b \in Graphs
                 PROVE  /\ graph'[b] # "absent" =>
                             StepOf[b] \in Resumable' /\ checkpoint' # FromStart
                        /\ graph'[b] = "done" => StepOf[b] \in done'
                        /\ b \in closing' => graph'[b] # "absent"
      BY DEF GraphsAt
    <3>1. checkpoint' # FromStart
      BY <1>16, <2>1 DEF EnterGraph
    <3>2. CASE b = a
      BY <1>1, <1>2, <1>9, <1>16, <2>1, <3>1, <3>2 DEF EnterGraph, TypeOK, OInv, GraphsAt
    <3>3. CASE b # a
      BY <1>1, <1>2, <1>9, <1>16, <3>1, <3>3 DEF EnterGraph, TypeOK, OInv, GraphsAt
    <3> QED
      BY <3>2, <3>3
  <2>3. ResumeMissesNothing' /\ WaitsAt'
    BY <1>1, <1>2, <1>9, <1>16, <1>10, <2>1 DEF OInv, ResumeMissesNothing, EnterGraph
  <2> QED
    BY <1>4, <1>16, <2>2, <2>3 DEF OInv, EnterGraph
<1>17. CASE AwaitReview(w)
  <2>1. UploadAccess \in Resumable
    BY <1>6, <1>17 DEF AwaitReview, Steps
  <2> QED
    BY <1>1, <1>2, <1>9, <1>4, <1>17, <2>1
    DEF OInv, ResumeMissesNothing, GraphsAt, WaitsAt, AwaitReview
<1>18. CASE AwaitEmail(w)
  <2>1. EmailPostSend \in Resumable
    BY <1>6, <1>18 DEF AwaitEmail, Steps
  <2> QED
    BY <1>1, <1>2, <1>9, <1>4, <1>18, <2>1
    DEF OInv, ResumeMissesNothing, GraphsAt, WaitsAt, AwaitEmail
<1>19. CASE Halt(w)
  <2>1. PreWebhooks \in Resumable
    BY ResumableStart
  <2> QED
    BY <1>1, <1>2, <1>9, <1>4, <1>19, <2>1
    DEF OInv, ResumeMissesNothing, GraphsAt, WaitsAt, Halt
<1>20. CASE EndInError(w) \/ Hold(w)
  <2>1. Finalization \in Resumable
    BY <1>6, <1>20 DEF EndInError, Hold, Steps
  <2> QED
    BY <1>1, <1>2, <1>9, <1>4, <1>20, <2>1
    DEF OInv, ResumeMissesNothing, GraphsAt, WaitsAt, EndInError, Hold
<1>21. CASE Complete(w)
  <2>1. Finalization \in Resumable /\ run[w].at = Finalization
    BY <1>6, <1>21 DEF Complete, Steps
  <2>2. Notifying \in Resumable'
    BY <1>8, <2>1, NotNeeded
  <2>3. RunsAt'
    BY <1>5, <1>21, <2>1, <2>2 DEF Complete
  <2>4. Settled
    BY <1>21, Zenon DEF Complete, Settled
  <2>5. WaitsAt'
    BY <1>2, <1>21, <1>9, <1>11, <2>2, <2>4 DEF OInv, WaitsAt, Complete
  <2> QED
    BY <1>1, <1>2, <1>9, <1>21, <2>1, <2>3, <2>5
    DEF OInv, ResumeMissesNothing, GraphsAt, Complete
<1>22. CASE StepFails(w) \/ Die(w)
  BY <1>1, <1>2, <1>9, <1>4, <1>7, <1>22, <1>10
  DEF OInv, ResumeMissesNothing, GraphsAt, StepFails, Die
<1>23. CASE LeaveUnfinalized(w) \/ Notify(w)
  BY <1>1, <1>2, <1>9, <1>4, <1>23, <1>10
  DEF OInv, ResumeMissesNothing, GraphsAt, LeaveUnfinalized, Notify
<1> QED
  BY <1>12, <1>13, <1>14, <1>15, <1>16, <1>17, <1>18, <1>19, <1>20, <1>21, <1>22,
     <1>23 DEF WorkerNext, UploadFails, SoftLimit, Lossless

\* Graphs, people and the batch: each queues a message from a checkpoint up to
\* which everything is finished.
LEMMA OOthers ==
    ASSUME ConstantsAssumption, Lossless, TypeOK, OInv,
           GraphNext \/ PeopleNext \/ BatchNext
    PROVE  OInv'
<1>1. config' = config /\ done \subseteq done' /\ Resumable \subseteq Resumable'
  BY Monotone, NeededSame DEF Next
<1>2. run' = run
  BY DEF GraphNext, GraphEnds, GraphDone, GraphDies, GraphFails, PollLists,
         PollLooks, PollErrors, Requeue, WatchdogLists, WatchdogPasses,
         WatchdogRequeues, GiveUp, Expire, PeopleNext, Restart, ResumeFromWebhook, ExpirePaused,
         GiveInputs, ResumeFromInputs, ApproveReview, Finalize, Cancel,
         BatchNext, BatchSend, BatchList, BatchPause, BatchQueue, BatchEnds, BatchDies
<1>3. RunsAt'
  BY <1>1, <1>2 DEF OInv, RunsAt
<1>4. ASSUME NEW m, NEW st, Submit(m, st), m.from \in Resumable',
             checkpoint' = checkpoint
      PROVE  ResumeMissesNothing'
  BY <1>1, <1>4, SubmitAdds DEF OInv, ResumeMissesNothing
<1>5. ASSUME NEW s, NEW st, Submit(From(s), st), s \in Resumable',
             checkpoint' = checkpoint
      PROVE  ResumeMissesNothing'
  BY <1>4, <1>5 DEF From
<1>6. ASSUME prStatus' \in {prStatus, "in_processing", "requires_input", "paused",
                            "error", "canceled"},
             batch' \in {batch, "idle", "sent"}, finalized => finalized'
      PROVE  WaitsAt'
  BY <1>6, WaitsStay DEF Next, OInv
<1>7. ASSUME graph' = graph, checkpoint' = checkpoint, closing' = closing
      PROVE  GraphsAt'
  BY <1>1, <1>7 DEF OInv, GraphsAt
<1>8. ASSUME NEW a \in Graphs, GraphDone(a)
      PROVE  OInv'
  <2>1. StepOf[a] \in Resumable /\ checkpoint # FromStart
    BY <1>8 DEF GraphDone, OInv, GraphsAt
  <2>2. StepOf[a] + 1 \in Resumable'
    <3>1. StepOf[a] \in 0..10 /\ StepOf[a] \in done'
      BY <1>8, StepOfRange DEF GraphDone
    <3> QED
      BY <2>1, <3>1, ResumableNext DEF Next
  <2>3. ResumeMissesNothing'
    BY <1>5, <1>8, <2>2 DEF GraphDone
  <2>4. GraphsAt'
    BY <1>1, <1>8, <2>1 DEF GraphDone, OInv, GraphsAt, TypeOK
  <2>5. WaitsAt'
    BY <1>6, <1>8, SubmitAdds DEF GraphDone, people
  <2> QED
    BY <1>3, <2>3, <2>4, <2>5 DEF OInv
<1>9. ASSUME NEW a \in Graphs, GraphEnds(a)
      PROVE  OInv'
  <2>1. GraphsAt'
    BY <1>1, <1>9 DEF GraphEnds, OInv, GraphsAt
  <2>2. WaitsAt'
    BY <1>6, <1>9 DEF GraphEnds, people
  <2> QED
    BY <1>1, <1>3, <1>9, <2>1, <2>2 DEF OInv, GraphEnds, ResumeMissesNothing
<1>10. ASSUME NEW a \in Graphs, GraphFails(a) \/ GraphDies(a)
       PROVE  OInv'
  <2>1. GraphsAt'
    BY <1>1, <1>10 DEF GraphFails, GraphDies, OInv, GraphsAt, TypeOK, jobs
  <2>2. WaitsAt'
    BY <1>6, <1>10 DEF GraphFails, GraphDies, people
  <2> QED
    BY <1>1, <1>3, <1>10, <2>1, <2>2
    DEF OInv, GraphFails, GraphDies, ResumeMissesNothing
<1>11. CASE Requeue \/ WatchdogRequeues
  <2>1. checkpoint = FromStart => Inferred = FromStart
    BY DEF OInv, GraphsAt, Inferred, Graphs
  <2>2. ResumePoint \in Resumable'
    BY <1>1, <2>1 DEF OInv, ResumeMissesNothing, ResumePoint
  <2>3. ResumeMissesNothing'
    BY <1>5, <1>11, <2>2 DEF Requeue, WatchdogRequeues
  <2>4. WaitsAt'
    BY <1>6, <1>11, SubmitAdds DEF Requeue, WatchdogRequeues, people
  <2> QED
    BY <1>3, <1>7, <1>11, <2>3, <2>4 DEF OInv, Requeue, WatchdogRequeues, jobs
<1>12. CASE PollLists \/ PollLooks \/ PollErrors \/ WatchdogLists
           \/ WatchdogPasses \/ GiveUp
  <2>1. ResumeMissesNothing'
    BY <1>1, <1>12
    DEF OInv, ResumeMissesNothing, PollLists, PollLooks, PollErrors,
        WatchdogLists, WatchdogPasses, GiveUp, Revocable
  <2>2. WaitsAt'
    BY <1>6, <1>12
    DEF PollLists, PollLooks, PollErrors, WatchdogLists, WatchdogPasses, GiveUp,
        people
  <2> QED
    BY <1>3, <1>7, <1>12, <2>1, <2>2
    DEF OInv, PollLists, PollLooks, PollErrors, WatchdogLists, WatchdogPasses,
        GiveUp
<1>20. CASE ExpirePaused \/ GiveInputs \/ Cancel
  <2>1. ResumeMissesNothing'
    BY <1>1, <1>20
    DEF OInv, ResumeMissesNothing, ExpirePaused, GiveInputs, Cancel, Revocable
  <2>2. WaitsAt'
    BY <1>6, <1>20 DEF ExpirePaused, GiveInputs, Cancel, people
  <2> QED
    BY <1>3, <1>7, <1>20, <2>1, <2>2
    DEF OInv, ExpirePaused, GiveInputs, Cancel, jobs
<1>13. ~Expire
  BY DEF Expire, Lossless, TypeOK
<1>14. CASE Restart \/ ResumeFromWebhook \/ ResumeFromInputs \/ BatchQueue
  <2>1. ResumeMissesNothing'
    <3>1. CASE Restart
      BY <1>1, <1>5, <3>1 DEF Restart, OInv, ResumeMissesNothing
    <3>2. CASE ResumeFromWebhook
      BY <1>1, <1>4, <3>2, ResumableStart DEF ResumeFromWebhook
    <3>3. CASE ResumeFromInputs
      BY <1>1, <1>5, <3>3, ResumableStart DEF ResumeFromInputs
    <3>4. CASE BatchQueue
      BY <1>1, <1>5, <3>4 DEF BatchQueue, OInv, WaitsAt
    <3> QED
      BY <1>14, <3>1, <3>2, <3>3, <3>4
  <2>2. WaitsAt'
    BY <1>6, <1>14, SubmitAdds
    DEF Restart, ResumeFromWebhook, ResumeFromInputs, BatchQueue, people
  <2> QED
    BY <1>3, <1>7, <1>14, <2>1, <2>2
    DEF OInv, Restart, ResumeFromWebhook, ResumeFromInputs, BatchQueue, jobs
<1>15. CASE ApproveReview
  <2>1. ResumeMissesNothing'
    BY <1>1, <1>5, <1>15 DEF ApproveReview, OInv, WaitsAt
  <2>2. WaitsAt'
    BY <1>6, <1>15, SubmitAdds DEF ApproveReview
  <2> QED
    BY <1>3, <1>7, <1>15, <2>1, <2>2 DEF OInv, ApproveReview, jobs
<1>16. CASE Finalize
  <2>1. ResumeMissesNothing'
    BY <1>1, <1>5, <1>16 DEF Finalize, OInv, WaitsAt
  <2>2. WaitsAt'
    BY <1>6, <1>16, SubmitAdds DEF Finalize
  <2> QED
    BY <1>3, <1>7, <1>16, <2>1, <2>2 DEF OInv, Finalize, jobs
<1>17. CASE BatchSend \/ BatchEnds \/ BatchDies
  <2>1. WaitsAt'
    BY <1>6, <1>17 DEF BatchSend, BatchEnds, BatchDies, people
  <2> QED
    BY <1>1, <1>3, <1>7, <1>17, <2>1
    DEF OInv, ResumeMissesNothing, BatchSend, BatchEnds, BatchDies, jobs
<1>18. CASE BatchPause
  <2>1. EmailPostSend \in Resumable
    BY <1>18 DEF BatchPause, OInv, WaitsAt
  <2>2. PostWebhooks \in Resumable'
    BY <2>1, ResumableNext, NotNeeded DEF Next
  <2>3. WaitsAt'
    BY <1>18, <2>2 DEF BatchPause, WaitsAt
  <2> QED
    BY <1>1, <1>3, <1>7, <1>18, <2>3 DEF OInv, ResumeMissesNothing, BatchPause, jobs
<1>19. CASE BatchList
  <2>1. WaitsAt'
    BY <1>1, <1>19 DEF BatchList, OInv, WaitsAt, Settled, MustFinalize, HasRules,
                       people
  <2> QED
    BY <1>1, <1>3, <1>7, <1>19, <2>1 DEF OInv, ResumeMissesNothing, BatchList, jobs
<1> QED
  BY <1>8, <1>9, <1>10, <1>11, <1>12, <1>13, <1>14, <1>15, <1>16, <1>17, <1>18,
     <1>19, <1>20
  DEF GraphNext, PeopleNext, BatchNext

LEMMA OStep ==
    ASSUME ConstantsAssumption, Lossless
    PROVE  TypeOK /\ OInv /\ [Next]_vars => OInv'
<1>1. ASSUME OInv, UNCHANGED vars PROVE OInv'
  <2>1. Resumable' = Resumable /\ Settled' = Settled
    BY <1>1
    DEF vars, people, Resumable, Needed, Applies, HasRules, Settled, MustFinalize
  <2> QED
    BY <1>1, <2>1
    DEF OInv, RunsAt, ResumeMissesNothing, GraphsAt, WaitsAt, vars, people, jobs
<1> QED
  BY <1>1, OWorker, OOthers DEF Next

LEMMA OInit == Init => OInv
<1> SUFFICES ASSUME Init PROVE OInv
  OBVIOUS
<1>1. RunsAt
  BY ResumableStart DEF Init, RunsAt, NoRun
<1> QED
  BY <1>1, ResumableStart
  DEF Init, OInv, ResumeMissesNothing, GraphsAt, WaitsAt, From

LEMMA OInvariant ==
    ASSUME Lossless
    PROVE  Spec => [](TypeOK /\ OInv)
<1>1. TypeOK /\ OInv /\ [Next]_vars => OInv'
  BY OStep, ConstantsAssumption
<1> QED
  BY <1>1, TypeCorrect, OInit, PTL DEF Spec

\* Wherever a request that loses no work may be taken up again, nothing its policy
\* asks for lies before that point unfinished.
THEOREM ResumeMissesNothingCorrect ==
    ASSUME Lossless
    PROVE  Spec => []ResumeMissesNothing
<1>1. TypeOK /\ OInv => ResumeMissesNothing
  BY OInvGives
<1> QED
  BY <1>1, OInvariant, PTL

\* The access package of such a request is stored before anything is erased.
THEOREM ErasesAfterUploadCorrect ==
    ASSUME Lossless
    PROVE  Spec => []ErasesAfterUpload
<1>1. TypeOK /\ OInv => ErasesAfterUpload
  BY OInvGives
<1> QED
  BY <1>1, OInvariant, PTL

\* Such a request is complete only after all its work, and after somebody has
\* finalized it if erasures are finalized by hand.
THEOREM CompletesAfterAllCorrect ==
    ASSUME Lossless
    PROVE  Spec => []CompletesAfterAll
<1>1. TypeOK /\ OInv => CompletesAfterAll
  BY OInvGives
<1> QED
  BY <1>1, OInvariant, PTL

----------------------------------------------------------------------------
(* A canceled request.                                                     *)

\* A canceled request that nobody holds is over.  Every way to take hold of it
\* asks for another status first, and a message that is taken late is dropped.
THEOREM CanceledStaysCorrect == Spec => CanceledStays
<1> DEFINE Over == prStatus' = "canceled" /\ Unheld'
<1>1. ASSUME prStatus = "canceled", Unheld, [Next]_vars
      PROVE  Over
  <2>1. ASSUME NEW w \in Workers, WorkerNext(w)
        PROVE  Over
    <3>1. run[w].at = Idle
      BY <1>1 DEF Unheld
    <3>2. ASSUME NEW a \in Graphs PROVE StepOf[a] # Idle
      BY StepOfRange
    <3>3. \E m \in queue : TakeCanceled(m)
      BY <1>1, <2>1, <3>1, <3>2
      DEF WorkerNext, TakeWithoutInputs, Take, Skip, LeaveUnfinalized,
          Unfinalized, Work, Halt, EnterGraph, AwaitReview, UploadFails,
          AwaitEmail, EndInError, Hold, Complete, Notify, StepFails, SoftLimit,
          Die, Reaches, Steps
    <3> QED
      BY <1>1, <3>3 DEF TakeCanceled, Unheld, jobs
  <2>2. CASE GraphNext
    BY <1>1, <2>2
    DEF GraphNext, GraphEnds, GraphDone, GraphDies, GraphFails, PollLists,
        PollLooks, PollErrors, Requeue, WatchdogLists, WatchdogPasses,
        WatchdogRequeues, GiveUp, Expire, InProgress, Unheld, jobs
  <2>3. CASE PeopleNext
    BY <1>1, <2>3
    DEF PeopleNext, Restart, ResumeFromWebhook, ExpirePaused, GiveInputs,
        ResumeFromInputs, ApproveReview, Finalize, Cancel, Terminal
  <2>4. CASE BatchNext
    BY <1>1, <2>4
    DEF BatchNext, BatchSend, BatchList, BatchPause, BatchQueue, BatchEnds,
        BatchDies, Unheld, jobs
  <2>5. CASE UNCHANGED vars
    BY <1>1, <2>5 DEF vars, jobs, Unheld
  <2> QED
    BY <1>1, <2>1, <2>2, <2>3, <2>4, <2>5 DEF Next
<1>2. [Next]_vars =>
        [prStatus = "canceled" /\ Unheld => prStatus' = "canceled" /\ Unheld']_vars
  BY <1>1
<1> QED
  BY <1>2, PTL DEF Spec, CanceledStays
==============================================================================
