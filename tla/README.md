# Verification of the DSR execution and the consent script

The repository is Fides: a FastAPI service (with Celery workers, Postgres and
Redis) that carries out *data subject requests* (it collects, masks or restricts
a person's data in every system a company has connected), and the script
`fides-js` that asks the visitors of a site for their consent and keeps it. Two
pieces of logic there are hard to get right:

* the execution of one privacy request: as a graph of tasks, by workers that share
  nothing but a database and a queue, and as a chain of checkpoints along which a
  request is left and taken up again;
* the consent of one visitor: several copies of it (the browser's cookie, the page's
  own, what the page shows, what the API recorded), written before and after awaits
  by the initialization, the overlay, scripts of the site, and other tabs.

That is what these modules model, check with TLC, and prove things about with TLAPS.

Files are named without their directories where they are unique: `graph_task.py` is
`src/fides/api/task/graph_task.py` of the checkout, `initialize.ts` is
`clients/fides-js/src/lib/initialize.ts`.

Contents: [inventory](#inventory) · [modules](#modules) ·
[runs and bounds](#runs-and-bounds) · [fairness](#fairness) ·
[proofs](#proofs) · [behaviours found](#behaviours-found) ·
[abstractions](#abstractions-and-what-is-not-modelled) · [plan](#plan)

## Inventory

| Component | State | Operations | Interacts with |
|---|---|---|---|
| **RequestTask execution** `execute_request_tasks.py`, `graph_task.py`, `request_task.py`, `worker_task.py`, `execution_log.py` | one row per collection and action type: status, upstream, downstream and all descendant addresses | `run_access_node`, `run_erasure_node`, `run_consent_node`; the `retry` decorator; `log_*` commits; `mark_current_and_downstream_nodes_as_failed`; `queue_downstream_tasks` | workers through the rows, the queue, the cached celery ids |
| **Building and resuming graphs** `create_request_tasks.py`, `graph_runners.py` | the digraph, then its rows | `build_*_networkx_digraph`, `persist_*_request_tasks`, `run_*_request`, `get_existing_ready_tasks`, the repair of missing erasure rows | traversal; other runners of the same request |
| **Access traversal** `traversal.py`, `graph.py` | ready queue, pending nodes, blocked-by counts, consumed edges | `Traversal.traverse` | gives the digraph its edges |
| **Poller and watchdog** `request_service.py` | what a scheduled job has read and still acts upon; the requeue count in Redis | `poll_for_exited_privacy_request_tasks`, `requeue_interrupted_tasks`, `requeue_polling_tasks` | reads rows, cached ids, queue contents and in-flight tasks; queues or gives up the request |
| **Checkpoints** `request_runner_service.py`, `execution_log.py`, `email_batch_service.py`, `access_review_hooks.py` | status of the privacy request, cached failed checkpoint, manual inputs, review, finalization | `run_privacy_request`, `run_webhooks_and_report_status`, `should_wait_for_access_review`, `upload_access_results`, `send_email_batch` | enters a graph step, leaves it by `PrivacyRequestExit`, is called again by the terminator, a resume endpoint, the batch, the watchdog or a restart |
| **Privacy request service, model, endpoints** `privacy_request_service.py`, `privacy_request.py`, `privacy_request_endpoints.py` | status of the request | cancel, restart from failure, requeue, callback of a task, `error_processing` | users and external systems |
| **Asynchronous DSR** `async_dsr_strategy_callback.py`, `async_dsr_strategy_polling.py` | what the external system was told | park a task as `awaiting_processing` or `polling`, resume it | callback endpoint, polling job |
| **Celery and cached ids** `cache.py`, `tasks/__init__.py` | messages in Redis, the latest celery id per task and per request, messages in flight | queue, take (acknowledged early), revoke, inspect | everything above |
| Redis lock, rate limiter, manual tasks, conditional dependencies, duplicate detection, DSR data cache | – | not modelled; reasons in `PROJECT.json` and [below](#abstractions-and-what-is-not-modelled) | |
| **Consent script: initialization and saving** `initialize.ts`, `automated-consent.ts`, `cookie.ts`, `consent-utils.ts`, `preferences.ts`, `set-identity.ts`, `fides.ts` | `window.Fides` of each page (cookie, saved consent, consent, experience), the cookie `fides_consent` all pages share | `Fides.init`, `reinitialize`, `updateConsent`, `setIdentity` | geolocation and experience requests, preferences API, other tabs through the cookie |
| **Consent script: overlay** `initOverlay.ts`, `Overlay.tsx`, `NoticeOverlay.tsx`, `NoticeToggles.tsx`, `useFidesConsentCookie.ts` | banner and modal, the toggles, the cookie read at the mount | open, toggle, accept or reject all, save, dismiss; the timer of the banner | rendered by `initialize`; calls `updateConsent`; hears `FidesUpdating` |
| Consent script: TCF and GPP, integrations | encoded strings; data layers | not modelled | |
| Policy engine (Go), admin UI, privacy center, sample app | – | not modelled: they take no part in either | |

**Hard behaviours.** No worker holds a lock while it runs a task. Every status
change is a commit of its own, decisions rest on rows read earlier, several
messages of one task may be in the queue, a message is lost with the worker that
took it, and two scheduled jobs repair what looks broken from snapshots of
Redis that are old by the time they act. Users cancel and restart in the
middle. In the browser one page is one thread, but every `await` that leaves the task
(the region, the experience, the compression of the cookie, the API) lets scripts, the
visitor and other tabs run in between, and the code goes on with what it read
before. `PROJECT.json` lists each hazard at its line, with the properties that
would catch it.

**What makes each component correct.**

* execution: a task runs only after everything upstream of it; the request goes
  on only after every collection, and once; a failure takes everything below it
  along and nothing else; nobody is forgotten; every step ends;
* building: the digraph is acyclic, everything is below the root and above the
  terminator, every reference is followed once, in one direction; every row exists
  before the step starts;
* poller and watchdog: a live request is not given up before its independent
  paths are finished; an interrupted one is found; a requeue
  that was not needed upsets no order;
* asynchronous tasks: an answer that was accepted takes effect;
* checkpoints: wherever a request is taken up, nothing its policy asks for is left
  out; nothing is erased before what it erases is collected and stored; a request is
  complete only after all its work; a canceled one that nobody holds stays canceled;
* consent: a refusal survives, wherever it was saved; the signal of the browser counts
  until someone decides; who has decided nothing is asked; the script itself refuses no
  notice-only notice; the copies agree once nothing is in progress;
* overlay: a choice stands until someone chooses or speaks again, whatever is toggled,
  closed or dismissed afterwards; who has closed the overlay is not asked again.

## Modules

```
TaskGraph ── constants and assumptions of one graph
  ├─ GraphStep ── abstract specification of one graph step
  └─ RequestTasks ── workers, queue, rows, poller, watchdog, users
       │                  (Promise == INSTANCE GraphStep: refinement)
       ├─ MCRequestTasks ── small graphs for TLC
       └─ RequestTasks_proofs ── types, order, refinement, failures, the
                                 poller, nobody forgotten
Checkpoints                         one request through all its checkpoints
  ├─ MCCheckpoints ── small policies for TLC
  └─ Checkpoints_proofs ── types, order of the steps
Cycles                              lemmas on cycles of finite digraphs
Traversal                           the access digraph
  ├─ MCTraversal
  └─ Traversal_proofs (and Cycles)
ErasureGraph                        the erasure digraph and its rows
  ├─ MCErasureGraph
  └─ ErasureGraph_proofs (and Cycles)
ConsentValues ── what fides-js computes from notices, sources and saved consent
  └─ ConsentClient ── pages, the shared cookie, the API
       ├─ MCConsentClient
       ├─ ConsentOverlay ── banner and modal on those pages (refines ConsentClient)
       │    └─ MCConsentOverlay
       └─ ConsentClient_proofs ── types, the copies agree
            └─ ConsentNotices_proofs ── notice-only notices, refusals, the undecided visitor
                 └─ ConsentOverlay_proofs ── refinement, what was chosen and closed
```

`RequestTasks` and `Checkpoints` look at one request at two scales: what is a
whole graph of tasks in the first is one state (`absent`, `running`, `failed`,
`done`) in the second. The link is `GraphStep`: a graph goes on when all its
collections are done, and may do so more than once, for its terminator may be taken
twice (`GraphEnds`).

`Traversal` and `ErasureGraph` show, for the digraphs the code builds, what
`TaskGraph` assumes of a graph (see [Proofs](#proofs)). The consent digraph is a
star (root → each collection → terminator), which the assumptions cover.

The consent script meets the request execution only at the API and is modelled apart.

### RequestTasks

One graph of tasks (one action type of one privacy request).

| Variable | In the code |
|---|---|
| `status` | `RequestTask.status`; `"paused"` is `awaiting_processing`, `"absent"` no row |
| `queued`, `prQueued`, `nextQueued` | messages in the Redis queue: for a task, for this step of the request, for the step after it |
| `cached`, `prCached` | where the message is whose id `cache_task_tracking_key` stored last: waiting, in flight, or gone |
| `job` | per worker: control point, task, attempt, and for a runner the rows its session still shows and what it has yet to queue |
| `ext` | what the external system of an asynchronous collection was told and answered |
| `prStatus`, `checkpoint` | `PrivacyRequest.status`, the cached failed checkpoint |
| `scans` | what the watchdog and the poller have read and not yet acted upon |
| `requeues` | the request's retry count in Redis |
| `proceeded`, `continued`, `everDone` | history only: the terminator queued the next step, that step ran, tasks ever completed or skipped |

Actions follow the commits and reads of the code. In the order of one task:

| Actions | Code |
|---|---|
| `ReceiveTask`, `CheckPrerequisites` | worker takes a message; `run_prerequisite_task_checks`, `can_run_task_body` |
| `HydrationFails`, `LogStart`, `SkipDisabled`, `RetryBody`, `FailBody`, `FinishBody`, `NoWriteAccess` | `create_graph_task` and the `retry` decorator around `access_request`, `erasure_request`, `consent_request` |
| `MarkDownstreamFailed` | the second commit of a failure |
| `SendAsync`, `ParkTask` | async strategies, `AwaitingAsyncTask` and `AwaitingAsyncProcessing` |
| `BeginDownstream`, `QueueDownstream`, `EndDownstream` | `queue_downstream_tasks_with_retries`, one look per downstream task |
| `Proceed`, `ProceedFails`, `CompleteTerminator` | the terminator's branch: queue the next step, then commit `complete` |
| `EndJob`, `WorkerDies` | the worker reports the message done, or dies with it |
| `ReceiveRequest`, `RunRequest`, `CreateTask`, `TasksCreated`, `ResetTask`, `TasksReset`, `EnqueueReady`, `ExitAwaitingTasks`, `RunRaises` | `run_privacy_request` up to `PrivacyRequestExit`; `run_access_request` and its siblings; `persist_new_*`; `get_existing_ready_tasks`, one row at a time |
| `NextStepRuns`, `NextStepLost` | the next step, as far as this one sees it |
| `Callback`, `RequeuePolling` | `request_task_async_callback`, `requeue_polling_tasks` |
| `PollExited`, `ErrorExited` | the poller: read, then `error_processing` |
| `WatchdogScan`, `WatchdogLeaves`, `WatchdogRequeues`, `WatchdogGivesUp`, `WatchdogRequeueFails` | `requeue_interrupted_tasks`: read the queue, then decide |
| `Cancel`, `Restart` | `cancel_processing`; `restart_privacy_request_from_failure` |

`ResetTask` deserves a word: `get_existing_ready_tasks` loads all incomplete rows
with one query. SQLAlchemy's identity map shows those rows as loaded until the
session's first commit expires them. `view` is that map; `Shown` is what the
code sees.

### GraphStep

What the execution promises to the privacy request and to whoever reads the
model first: tasks are finished one at a time, each after everything directly
upstream, and the request goes on when all collections are done. `KeepsPromise`
is the refinement `done <- everDone, goesOn <- proceeded > 0`: queues, workers,
resets, requeues and losses are invisible.

### Checkpoints

One privacy request with its policy and settings (`config`, chosen at `Init` and
never changed), and the workers that run `run_privacy_request` for it.

| Variable | In the code |
|---|---|
| `prStatus`, `finalized`, `canceled` | `PrivacyRequest.status`, `finalized_at`, `canceled_at` |
| `checkpoint` | the step of `FAILED_LOCATION` in Redis; 0 if there is none |
| `queue` | messages of `run_privacy_request`: `from_step` and whether `from_webhook_id` is given |
| `run` | where each worker stands in `run_privacy_request`, and what it was called with |
| `graph` | the request's RequestTasks of each action type, as a whole |
| `closing` | the graphs whose terminator a worker has taken, but not yet finished with |
| `poller`, `watchdog` | what the query of each scheduled job gave of this request and the job has yet to act upon: that it is in progress, that its tasks have exited; the status it was read with |
| `inputs`, `reviewed`, `halted` | cached manual-webhook inputs, the approved review, a resume token given to a pre-webhook |
| `batch` | the batch e-mail job, as far as this request sees it |
| `done` | history only: the checkpoints whose work is finished |

A checkpoint is its position in `EXECUTION_CHECKPOINTS`. A worker at position `s` either
does the step (`Reaches`: the rules of the policy and `can_run_checkpoint` say
so) or passes over it (`Skip`).

| Actions | Code |
|---|---|
| `TakeCanceled`, `TakeWithoutInputs`, `Take` | the head of `run_privacy_request`; `start_processing`; `get_manual_webhook_*_inputs` |
| `Work`, `Halt` | `run_webhooks_and_report_status` and the checkpoints that end where they begin |
| `LeaveUnfinalized`, `EnterGraph` | the runners and `PrivacyRequestExit` |
| `AwaitReview`, `UploadFails` | `should_wait_for_access_review`, `upload_access_results` |
| `AwaitEmail`, `EndInError`, `Hold`, `Complete`, `Notify` | post-processing |
| `StepFails`, `SoftLimit`, `Die` | the exception handlers; a dead worker |
| `GraphEnds`, `GraphDone`, `GraphDies`, `GraphFails` | a worker takes the terminator; `queue_downstream_tasks` there; it dies with it; a failed graph |
| `PollLists`, `PollLooks`, `PollErrors` | `poll_for_exited_privacy_request_tasks`: the query, the look at the tasks, `error_processing` (which does not look at the status again) |
| `WatchdogLists`, `WatchdogPasses`, `WatchdogRequeues`, `GiveUp` | `requeue_interrupted_tasks`: the query, then leave alone, `_requeue_privacy_request` or the last resort, all on the status the query gave |
| `Requeue`, `Expire` | the endpoint of a requeue; the cache |
| `Restart`, `ResumeFromWebhook`, `ExpirePaused`, `GiveInputs`, `ResumeFromInputs`, `ApproveReview`, `Finalize`, `Cancel` | the endpoints and jobs of that name |
| `BatchSend`, `BatchList`, `BatchPause`, `BatchQueue`, `BatchEnds`, `BatchDies` | `send_email_batch`, `requeue_privacy_requests_after_email_send` |

### Traversal

`Traversal.traverse` on a small dataset graph: directed and undirected
references, seeds, and `after` dependencies. The walk takes what it discovers out
of Python sets, so `Visit` chooses the order. `AccessEdges` is the digraph
`build_access_networkx_digraph` makes of the result; `Acyclic` is what
`topological_sort` requires.

### ErasureGraph

`build_erasure_networkx_digraph` (validation of `erase_after`, linking in any order
of the traversed collections, end nodes, cycle search from the root), then
`persist_initial_erasure_request_tasks` that may stop half-way, and the count by
which `run_erasure_request` repairs it.

### ConsentValues and ConsentClient

The tabs of one browser on one site, with notice-based experiences. `ConsentValues` has
the functions without state: default and automated consent and its method, cookie and
experience in both directions, validation, and whether the banner comes back.
`ConsentClient` has the steps.

| Variable | In the code |
|---|---|
| `jar` | the cookie `fides_consent`, shared by all pages |
| `server` | what the preferences API recorded last, per notice |
| `pc`, `visit` | how far `Fides.init` of a page is; what it was loaded with: experience, browser signal, `fides_string`, another provider's cookie |
| `cookie`, `saved`, `shown` | `Fides.cookie`, `Fides.saved_consent`, `Fides.consent` |
| `prefs` | `current_preference` of the notices of `Fides.experience` |
| `banner` | `shouldShowExperience` when the page became ready |
| `auto`, `calls` | saves in progress: the automated consent of `init`, and calls of `updateConsent` and `setIdentity`, each with the cookie it captured |
| `denied`, `spoken`, `writer`, `clean`, `doubt`, `reverted` | history only: which notice-only notices `init` has read as refused from another provider's cookie, who has spoken, which page wrote last, whether saves crossed, whether a request was lost or overlapped, whether a saved refusal gave way to a default |

A cookie is its consent, its method (`fides_meta`) and the keys that were not applicable
when it was saved; a notice is left out of a map as `"unset"`.

| Actions | Code |
|---|---|
| `LoadPage`, `Reinitialize` | `Fides.init` up to its first request, on a new page or on one that is ready |
| `Locate`, `FetchExperience` | the answers of the region and the experience: automated consent begins to be saved, or `initialize` ends; no region, no experience, or a rejected request |
| `FinishInitialize` | the automated consent is saved; experience, cookie and `Fides.consent` are brought in line |
| `UserSaves`, `UserDismisses`, `ScriptCalls` | `updateConsent` up to its first `await`: called by a button of the overlay with any choice, by its dismissal with the page's consent as it is, by a script with some of the notices |
| `UpdateConsentPreferences` | what follows: page, cookie, and its encoding |
| `SetIdentity` | `setIdentity` |
| `CookieEncoded` | the compressed string is written |
| `PatchAnswered`, `AutomatedAnswered` | the API answers, or the request is lost |
| `ClosePage` | the tab is closed or left |

An action is what runs between two awaits that leave the task. An `await` of something
already there is a microtask: it runs before the page's next task (`Quiet`), but
after the rest of the current one, so that two calls of `updateConsent` in one task are two
calls at stage `"called"`.

### ConsentOverlay

`ConsentClient` with the overlay in the visitor's place: its `UserSaves` lets a
visitor save any choice at any time; here a choice is made with what the banner or the modal
offers while it is open, and a dismissal saves only what `handleDismiss` finds unrecorded. The
other actions of `ConsentClient` are conjoined with what the overlay notices of them. That every
step is one of `ConsentClient`'s (`UserSaves` or `UserDismisses` among them) or leaves its
variables alone is a theorem (`OverlayImplements`).

| Variable | In the code |
|---|---|
| `ui[p].banner` | `disableBanner` and `bannerIsOpen`: waiting for the document, rendered, never, due (the timer runs), open, closed |
| `ui[p].modal`, `.draft` | whether the dialog is shown; `draftEnabledNoticeKeys` |
| `ui[p].listening` | the listener of `FidesUpdating`, which removes itself |
| `ui[p].unsaid` | whether a notice lacked saved consent when `init` handed `window.Fides` over |
| `ui[p].parsed`, `.decoded` | the keys of `parsedCookie`, and whether the promise it comes from is settled |
| `closed`, `chosen` | history only: the overlay was closed; the last choice, if nobody spoke since |

| Actions | Code |
|---|---|
| `InitOverlay`, `RenderOverlay`, `RunEffects`, `CookieDecoded`, `BannerOpens` | `initOverlay`, the first render, the effects after the first paint, `getFidesConsentCookie`, the timer of 100 ms |
| `OpenModal`, `Toggle` | `handleOpenModal`, `handleToggle` |
| `Choose` | `handleAcceptAll`, `handleRejectAll`, save and acknowledge, each followed by `onClose` |
| `Dismiss` | the X, Escape or the backdrop: `handleDismiss` |
| `ScriptSpeaks`, `Updating`, `NoOverlay` | the steps of `ConsentClient` that reach the overlay |

## Runs and bounds

Passing runs. Distinct states with the configuration as given.

| Run | Module | Question | Setting | States |
|---|---|---|---|---|
| `order` | MCRequestTasks | is the order kept, nobody forgotten, and does a failure reach what it must and nothing else, when parents race on a join? `RunsAfterUpstreams`, `ProceedsAfterAll`, `NeverStalled`, `FailureReachesDescendants`, `KeepsPromise`, `IndependentPathsFinish`, `TypeOK` | diamond root → {a, b} → c → terminator, 2 workers, rows created by the step, `a` may fail, one retry, no requeue left (the watchdog may give up) | 327,279 |
| `crashes` | MCRequestTasks | is the order kept when things are lost and repeated? `KeepsPromise` | chain root → a → b → terminator, one worker death or failed `apply_async` anywhere, one requeue, one restart, `a` fails, `b` is read-only, erasure rows waiting | 1,009,856 |
| `async` | MCRequestTasks | do answers take effect, and does every step end? `AnsweredTasksFinish`, `StepEnds` | chain, `a` polled (and may fail), `b` by callback, one requeue | 182,842 |
| `traversal` | MCTraversal | does the walk give a digraph the execution can rely on? | all graphs of three collections with at most three references and two `after` pairs | 69,852 |
| `erasure_graph` | MCErasureGraph | the same of the erasure digraph and its rows | three collections, each with at most two `erase_after`, any of them traversed, one interruption | 98,029 |
| `checkpoints` | MCCheckpoints | is nothing missed, wherever the request is taken up? `ResumeMissesNothing`, `ErasesAfterUpload`, `CompletesAfterAll`, `CanceledStays`, `TypeOK` | four policies that between them wait for everything, 2 workers, one fault, one restart or requeue, one scheduled job at a time | 722,036 |
| `checkpoint_faults` | MCCheckpoints | what still holds if uploads fail, time is limited, the cache expires and a terminator proceeds again? `ErasesAfterAccess` | two policies that erase, with a package to store and review and without, 1 worker, both scheduled jobs at once, one fault, one restart, one expiry, one repeated terminator | 2,572,862 |
| `consent` | MCConsentClient | do the copies agree, and is who decided nothing asked? `UndecidedIsAsked`, `SettledPageAgrees`, `ServerAgrees`, `TypeOK` | two tabs, compressed cookie, two loads, one update, one identity | 952,890 |
| `consent_sources` | MCConsentClient | what does a later visit make of what an earlier one saved, with every source? `NoticeOnlyStands`, `GpcHonoured`, `RefusalSurvives` | one tab with two calls at once, plain cookie, two loads, two updates, no identity, every source, another provider's cookie that refuses an ordinary notice, the notice-only one, or both | 826,092 |
| `overlay` | MCConsentOverlay | does what the visitor did last in the banner or the modal stand, whatever they remember? `LastChoiceStands`, `ClosedIsRecorded`, `OverlayTypeOK` | one tab with one call at a time, compressed cookie, two loads of two offers, two updates (by the overlay or a script), no identity | 1,277,398 |

Every bound is a constant: `MaxRequeues` and `RetryCount` are settings of the code;
`MaxPolls`, `MaxFaults`, `MaxRestarts`, `MaxCrashes`, `MaxExpiries`, `MaxRepeats`, `MaxScans`,
`MaxLoads`, `MaxUpdates`, `MaxIdentities` are bounds of the model.

Why these suffice to be worth running:

* the shortest graph in which a task can be run too early has two levels (chain);
  the shortest in which two parents can disagree about a join, and in which
  "everything below" and "nothing beside" are both something, is the diamond;
* two workers are the least number that races; in `order` they take up to two
  messages of one task at once. `crashes` and `async` use one worker,
  and there the interleaving is among the worker, the watchdog, the poller, the
  callback and the user. Older messages of a task still overlap newer ones,
  since a message of the queue may be taken in any order;
* one lost message, one requeue and one restart already produce each of the
  recoveries the code has: the runner finds all, some, or no rows complete, and the
  watchdog sees a missing, a lost and a live message. Chains of
  recoveries are not excluded by the proofs, which have no bound;
* `EveryWait` has every kind of wait (halting webhook, manual input and review,
  e-mail, finalization), and between its policies all three graphs and both ways to pass from
  one to the next. One fault and one restart are enough for two runs of the same
  request to walk the checkpoints at once, in any order of their caching. Expiry needs
  its own run because it loses work (see below), and the repeated terminator goes with
  it for the size of the run; that it misses nothing either is proved (`Lossless`
  bounds neither faults nor restarts nor repeats nor scans). One scheduled job at a
  time is enough for its query to be old when it acts, with two runs and the people around;
  both at once are in the smaller run, and the proofs do not bound them (`MaxScans`);
* two loads are the least in which a page reads what an earlier visit, or another tab
  that is still open, has saved; the two offers differ in one notice that becomes
  applicable, or ceases to be. Three notices are one opt-out with the flag of the browser's
  signal that is always served, one that comes and goes, and one notice-only; an opt-in
  notice has its refusal for a default, and fewer ways to go wrong. The compressed cookie has the interleavings,
  the plain one the burst of two calls; each run takes the one its questions are about;
* `overlay` needs a save that the overlay's memory is older than, and something after it: two
  updates. With two loads the second overlay starts from a cookie the first one wrote, for
  an offer with one notice more or less. The cookie is compressed, so that an overlay can be
  used before it has read it. Two calls at once are the question of `consent_sources`,
  `setIdentity` of `consent`; what the properties of the other runs make of `setIdentity` is
  proved only, for their theorems bound neither;
* `order` and `checkpoints` use the symmetry of the workers, `consent` that of the
  pages, `consent_sources` that of the calls. No liveness property is checked under
  symmetry (`IndependentPathsFinish`, `CanceledStays` and `RefusalSurvives` are
  properties of single steps).

`StepEnds` names the two ways in which a step may go on without end: somebody outside has yet
to answer (`AnswerDue`: a polled task, or a parked one whose callback was not attempted), and
an answer that came before its task was parked was refused (`AnswerRefused`). The endpoint
answers the second with an error, and whether the caller tries again is not known here: such a
task may wait for good, and the property does not call that waiting for an answer. TLC refutes
`StepEnds` without either.

Runs that must fail (`f_skips_upload`, `f_optout_reverted`) check one
sentence of a docstring and of a test, and TLC shows a behaviour of the code
against it; see [Behaviours found](#behaviours-found).

`CHECK_DEADLOCK FALSE` throughout: an execution that is over has no next step,
a request that is in error or canceled may stay so forever, and so may a page.

## Fairness

`RequestTasks!FairSpec` asks for weak fairness of

* each `Worker(w)` as a whole: a Celery worker that has something to do goes on; it
  does not say which message it takes first, and none of the failures is
  obligatory (`WorkerDies`, `ProceedFails`, `RunRaises` are not part of `Worker`,
  and an alternative such as `FailBody` never has to be chosen);
* `NextStepRuns`: a worker takes the message of the next step;
* `PollExited`, `ErrorExited`, `Watchdog`, `RequeuePolling(t)`: APScheduler calls the
  three jobs again and again (intervals in the configuration).

Nobody is obliged to call back, cancel or restart, and who was refused does not call again. `async` therefore promises only
that an answer *that was accepted* leads to the end of its task. Because a body may
be retried only `RetryCount` times and a request be requeued only `MaxRequeues`
times between resets, no fairness stronger than weak is needed.

`Traversal!FairSpec` has `WF_vars(Next)`: one thread runs the loop to its end.

`ConsentClient` has no fairness and no liveness property: a request of a page may stay
unanswered for as long as the page is open, and the tab may be closed at any time.

## Proofs

For every graph, any number of workers and all values of the bounds:

| Theorem | Module | States |
|---|---|---|
| `TypeCorrect` | RequestTasks_proofs | `Spec => []TypeOK` |
| `RunsAfterUpstreamsCorrect` | RequestTasks_proofs | `Spec => []RunsAfterUpstreams` |
| `ProceedsAfterAllCorrect` | RequestTasks_proofs | `Spec => []ProceedsAfterAll` |
| `PromiseKept` | RequestTasks_proofs | `Spec => KeepsPromise` (refinement of GraphStep) |
| `ErrorHasCause` | RequestTasks_proofs | `Spec => [](a task in error is, or is below, one that can fail)` (proved, no run) |
| `IndependentPathsFinishHolds` | RequestTasks_proofs | `MaxFaults = 0` implies `Spec => IndependentPathsFinish` (an action property) |
| `FailureReachesDescendantsHolds` | RequestTasks_proofs | `StepRunsOnce`, no read-only collection and no callback imply `Spec => []FailureReachesDescendants` |
| `NeverStalledHolds` | RequestTasks_proofs | `StepRunsOnce`, no read-only collection and no callback imply `Spec => []NeverStalled` |

For every set of policies, any number of workers and all values of the bounds:

| Theorem | Module | States |
|---|---|---|
| `TypeCorrect` | Checkpoints_proofs | `Spec => []TypeOK` |
| `ErasesAfterAccessCorrect` | Checkpoints_proofs | `Spec => []ErasesAfterAccess` |
| `CanceledStaysCorrect` | Checkpoints_proofs | `Spec => CanceledStays` (an action property; of a request that no run, terminator, batch or scheduled job holds) |
| `ResumeMissesNothingCorrect` | Checkpoints_proofs | `Lossless` implies `Spec => []ResumeMissesNothing` |
| `ErasesAfterUploadCorrect` | Checkpoints_proofs | `Lossless` implies `Spec => []ErasesAfterUpload` |
| `CompletesAfterAllCorrect` | Checkpoints_proofs | `Lossless` implies `Spec => []CompletesAfterAll` |

For every finite set of collections, every input and every order of the loops:

| Theorem | Module | States |
|---|---|---|
| `TypeCorrect` | Traversal_proofs | `Spec => []TypeOK` |
| `PendingStaysBlocked` | Traversal_proofs | `Spec => []PendingIsBlocked` |
| `VisitedInOrderCorrect` | Traversal_proofs | `Spec => VisitedInOrder` (an action property) |
| `AboveTerminator`, `BelowRoot` | Traversal_proofs | `Spec => []AllAboveTerminator`, `Spec => []AllBelowRoot` |
| `ReferencesFollowed` | Traversal_proofs | `Spec => []EveryReferenceIsFollowed` |
| `StaysAcyclic` | Traversal_proofs | `Spec => []DirectedStaysAcyclic` |
| `TypeCorrect` | ErasureGraph_proofs | `Spec => []TypeOK` |
| `NoCycle` | ErasureGraph_proofs | `Spec => []NoCycleIsMissed` |
| `TerminatorComesLast`, `TraversedAreBelowRoot` | ErasureGraph_proofs | `Spec => []TerminatorIsLast`, `Spec => []TraversedAreQueued` (every traversed collection is below the root; proved, no run) |
| `RefusedWithCause` | ErasureGraph_proofs | `Spec => []RefusedForCause` |
| `FullGraphsStartComplete` | ErasureGraph_proofs | `Spec => []FullGraphStartsWithAllRows` |

For any notices, mechanisms, experiences, sources, tabs and calls:

| Theorem | Module | States |
|---|---|---|
| `TypeCorrect` | ConsentClient_proofs | `Spec => []TypeOK` |
| `CopiesAgree` | ConsentClient_proofs | `Spec => []SettledPageAgrees` |
| `ServerFollows` | ConsentClient_proofs | `Spec => []ServerAgrees` |
| `NoticeOnlyHolds` | ConsentNotices_proofs | `Spec => []NoticeOnlyStands`, whatever another provider's cookie says |
| `UndecidedIsAskedHolds` | ConsentNotices_proofs | `NoticeOnlyUnnamed`: `Spec => []UndecidedIsAsked` |
| `GpcHonouredHolds` | ConsentNotices_proofs | `Spec => []GpcHonoured` |
| `RefusalSurvivesHolds` | ConsentNotices_proofs | `Spec => RefusalSurvives` (an action property) |
| `OverlayImplements` | ConsentOverlay_proofs | `OverlaySpec => Spec`: all of the above holds with the overlay |
| `OverlayTypes` | ConsentOverlay_proofs | `OverlaySpec => []OverlayTypeOK` |
| `ClosedIsRecordedHolds` | ConsentOverlay_proofs | `OneTab` implies `OverlaySpec => []ClosedIsRecorded` |
| `LastChoiceStandsHolds` | ConsentOverlay_proofs | `OneTab` implies `OverlaySpec => []LastChoiceStands` |

Every invariant and every action property that a passing run checks is stated by one of
these theorems; only the liveness properties are not.

**Assumptions.** `GraphAssumption`, `AcyclicAssumption` and `TerminatorAssumption` in
`TaskGraph`; `ConstantsAssumption` in `RequestTasks` and in `ConsentClient`;
`NoticesAssumption`, `TraversalAssumption`, `ErasureAssumption`. TLC evaluates them in every
run. That the digraphs the code builds satisfy those of `TaskGraph` is proved for every
input: `TerminatorAssumption` is `AboveTerminator` and `TerminatorComesLast`; acyclicity is
`NoCycle` for erasure and, for access, the condition under which
`topological_sort` returns (`Built`), so that no graph with a cycle is ever executed; no edge
leads into the root or out of the terminator by construction of the edge sets.
`ProceedsAfterAll` and the refinement need `TerminatorAssumption`, `NeverStalled` needs
`AcyclicAssumption`; the other proofs of `RequestTasks` need only `GraphAssumption`.

**Conditions of theorems.** Some theorems speak of some executions only, and say so in
their ASSUME. These are the conditions under which TLC finds the properties true; without
them it finds counterexamples, which are behaviours of the code (see
[Behaviours found](#behaviours-found)):

| Condition | Means | Without it |
|---|---|---|
| `StepRunsOnce` | no worker dies or `apply_async` fails (`MaxFaults`), the watchdog only gives up (`MaxRequeues`), nobody restarts (`MaxRestarts`). Any number of workers, any graph, failures, retries, cancellations, polling, and messages queued twice remain | a worker dies between the two commits of a failure; a runner that was started again resets tasks before a failing worker marks its descendants, and others after (diamond, two workers) |
| `ReadOnly = {}` | every connection has write access | the task alone is set to error and what lies below stays pending |
| `Callbacks = {}` | no collection is called back | a callback that is refused because it came before its task was parked, or a second run that parks an answered task again, leaves the task waiting with nobody to wake it (`NeverStalled`); a join that two parents queued is run twice: one run completes and the task below parks, the other run fails; the callback then sets the parked task back to pending |
| `MaxFaults = 0` (alone) | no worker dies, no `apply_async` fails | a creation of rows that died half-way leaves fewer rows, and "all rows exited" says nothing of the others |
| `OneTab` | the visitor has one tab of the site open | another tab writes the cookie after the choice was made |
| `Lossless`, `NoticeOnlyUnnamed` | see below | |

**Type correctness** (`TInv == TypeOK /\ Counted`). The range that is not immediate is
that of the message counters: `cancel_celery_tasks` takes the message with the
cached id out of the queue, and only `Counted` (a cached id that is in
the queue belongs to a message in the queue) shows that no counter goes below zero.

**Order** (`OInv`). `RunsAfterUpstreams` is not inductive: a body runs because of a
message, and whoever queued it looked at the upstream tasks some time before. So
`OInv` says of every place where an intention can be kept – a message in the queue, a
worker's job, the runner's list of ready tasks, a task that waits for an answer – that
the task's upstream lies in `everDone`. It further says that the rows a
runner's session still shows were not completed (else a stale row could make a
task look ready), that `everDone` is closed upstream, and that whatever *is*
complete is in `everDone`. The last but one, with `TerminatorAssumption`, gives
`ProceedsAfterAll`: when the terminator is held by a worker its upstream tasks are
in `everDone`, hence all collections are. Note that `everDone` only grows while `status` does not: a
completed task may be set to pending again (`ResetTask`), and the theorems hold all
the same.

**Refinement.** Under `TInv /\ OInv` each step is a `Finish` of GraphStep (a commit of
`complete` or `skipped` for the first time), a `GoOn` (the first `Proceed`), or
changes neither mapped variable.

**Failures** (`ErrorInv`, `StepInv`, `FailInv`). That failures go nowhere but
downstream (`ErrorHasCause`) needs only that a worker which marks holds a task that can fail. That
they reach everything downstream is harder, for the task itself is set to error in a commit
before the one that marks its descendants, and other workers, and the runner, act in
between. `FailInv`: below a task in error there is nothing that still waits for its first message, or
somebody is about to mark. It is kept because nothing becomes pending once the step
has started: `StepInv` says that the request is received by one worker, who creates or resets
rows before any task is queued (`NothingStarted`), so that no row is reset behind a marker.

**The poller** (`FreshInv`, `ErrorInv`, `PollInv`). The poller reads that all rows
have exited, and gives the request up in a later step. `PollInv` says that what it found then stays
true: a collection beside the failed paths is in `everDone`, which only grows, although its
row may be reset by a requeue in the meantime. The step that reads needs `FreshInv`: no
task fails, and the poller finds nothing, until all rows exist, however often the request is
requeued, canceled or restarted before that.

**Nobody is forgotten** (`PlaceInv`, `BusyInv`, `ProceedInv`, `SeenInv`, with `StepInv` and
`FailInv`). A request in processing is not stalled if a message, a worker, an external
system, the poller or the watchdog has yet to act on it. Suppose none has. Take an
unfinished task nothing unfinished is upstream of, which exists because the graph is acyclic. It is not
in work (`BusyInv`: its worker would be there), not parked (`BusyInv`: only collections that call back are, and there are none) nor polled (its poll is due), and not below an error (`FailInv`),
so everything upstream of it is complete; then it was interrupted in the watchdog's sense:
its cached message is neither in the queue (`Counted`) nor in flight (`PlaceInv`: an id counts as running
only while a worker carries it), and the watchdog kept nothing of an earlier pass (`SeenInv`). If no
task is unfinished, either one failed and the poller finds the request, or the terminator
is complete, and then its message for the next step is still there (`ProceedInv`).

**Checkpoints, without conditions** (`AInv`). The erasure checkpoint can be entered only
if the request is taken up at or before it. As long as the access graph is asked for and
not complete, nobody takes the request up at `upload_access` or `erasure`: not from
the cached checkpoint, a message, a worker's `from`, or the access review; and a
worker that stands at one of the two resumed behind it, so that it passes over it.
The inferred checkpoint is the one place where the argument needs the
rows: it is `erasure` only if the terminator of the access graph is complete.

**Canceled requests** (`CanceledStaysCorrect`). The status is overwritten by whoever acts on
what it read before: a run that is under way, a worker with the terminator, the batch, the
poller and the watchdog between their queries and their writes. Each of them is a variable, and `Unheld`
says that none has the request. The theorem is that from then on nobody takes hold of it
again: a message is dropped at the head of `run_privacy_request`, the queries leave it out,
a terminator that is queued is refused, and no endpoint accepts it. Each step shows this by itself, without an invariant.

**Checkpoints of a request that loses no work** (`OInv`, under `Lossless`: no upload is
refused, no soft time limit, no expiry). `Resumable` is the set of positions before which
all needed work is finished; it only grows, it is closed downward, and a finished
position extends it. `OInv` says that every place from which the request may be taken up
lies in it: the workers, the cached checkpoint, the messages, the graphs (whose
terminators will name the next checkpoint), and each status that waits (whose resume
endpoint names its own). `ResumeMissesNothing` alone is not inductive: a terminator that
completes queues a message from a checkpoint nobody has cached. Each of the three
conditions is needed: `f_skips_upload` shows the first, and the second and third
are described under [Behaviours found](#behaviours-found).

**Traversal** (`WalkInv`). The properties speak of the end of the walk; the invariant says
what they rest on while it lasts. `Counts`: `blocked[c]` is the number of collections `c`
comes after and that are not finished, which is why a node visited twice must not be
counted twice. `Awaited`: a reference both of whose ends were visited was used, or the node
it leads to is queued once more. `HasChild`: a node that is not terminal has a child or an
unused reference to a node that will be visited. From these, at the end of the walk, every
node above nothing would be terminal. `VisitOf` is the visit in terms of what waits rather
than of its order, so that the queue is reasoned about once.

**Erasure graph** (`GInv`). `LoopInv` gives edges and end nodes as sets, from what the loop
has handled so far. That a built graph has no circle is not immediate: `find_cycle` starts
at the root and follows edges, while a circle of `erase_after` is a set in which
everybody waits for somebody. The link is in `Cycles`.

**Cycles of finite digraphs** (`Cycles`). A finite set each of whose members has a
predecessor in it contains one each of whose members has a successor in it, and the other
way round. The usual argument is an induction over the size of the set; here it takes a
smallest such set, which exists because strict inclusion of finite sets is well-founded.
The transitive closure never appears: a node is above another if every set that has the one and is closed
under the edges has the other.

**Notice-only notices** (`NoticeInv`). `NoticeOnlyStands` is not inductive: an update copies
`Fides.cookie` into the call, the call into the browser, the answer into the API, and another
page reads the browser's. So every copy, those that calls captured before a page was
initialized again included, must stand. That a ready page shows the notice as given
needs its cookie to be complete, and with it whatever a call is about to put in
the cookie's place (`CallsAreWhole`). One source brings a refusal in: `Fides.init` spreads
another provider's cookie over the page's without a look at the mechanism (`fides.ts:119`). Nothing is assumed of
that cookie; `denied` collects what `init` has read from one, and the invariant is stated
for the others (`Stands(c, Notices \ denied)`): the load enlarges `denied` by exactly
what it reads, so that every copy stands as far as it did.

**A visitor who has decided nothing** (`AskInv`). `UndecidedIsAsked` and `GpcHonoured` speak of
ready pages, but what such a page does is decided by what earlier visits left in the cookie.
The invariant says what that can be as long as nobody but the signal of the browser has spoken
(`Silent`): no call to save is in progress; the cookie was written, if at all, by automated
consent with the method `gpc`, and grants no flagged notice, unless a saved refusal has given way
to a default (`JarIsUnsaid`). It then follows these facts through a page that reads (`Reading`)
or saves (`Saving`) until it is ready (`Asks`); other tabs need no
separate argument, for all write the same. The first theorem has a condition, `NoticeOnlyUnnamed`: another
provider's cookie must leave notice-only notices unnamed. Where it does not, and the
experience offers nothing else, the page takes that cookie for a decision and shows no banner.
The second theorem needs no condition.

**The copies agree** (`AgreeInv`, `AloneInv`). `SettledPageAgrees` compares the browser's
cookie, `Fides.cookie` and `Fides.consent` when all saves are through. They are
equal because each of them was made from the same call, or from the same automated consent, whose copy has since been dropped.
So the invariant follows that copy: what is being encoded is the page's
cookie (`EncodesItsCookie`), what an `init` read is what its page's cookie has until the automated consent replaces
both (`ReadsTheJar`, `SavesItsCookie`), and a page that wrote last and encodes nothing has
what it wrote (`WroteItsCookie`). `clean` is what the code does not
ensure: that no save crossed another, or an `init`. `ServerAgrees` adds
`AloneInv`: a request to the API that was alone from its beginning has had the jar to
itself.

**Refusals** (`RefusalInv`). Between the read of the cookie and `FidesReady`
the automated consent is computed, saved and merged with the experience, with awaits
between them. By `AgreeInv` what `init` read is still what is kept; `RefusalKept` says that
what automated consent made of it has every refusal nothing took back, and
`FinishShowsRefusal` follows it through the end of `init`.

**The overlay** (`OverlayInv`). `OverlayImplements` maps each step of the overlay to a step of
the client, so that `AgreeInv` may be used. A choice is on its way through a call, the
page's cookie and its compression before the jar has it (`ChoiceKept`), and a dismissal
saves nothing if the keys that were read at the mount cover the offer: `ParsedStays`
says that they are there still. That a notice once recorded is never dropped by a later
save is where `NoticeInv` comes in (a ready page's cookie is complete).

**Only model-checked**: what needs fairness (`StepEnds`, `AnsweredTasksFinish`,
`TraversalEnds`). Liveness under fairness needs ENABLED, which the prover does not
support. The two `f_` runs check sentences that do not hold.

## Behaviours found

Two runs show the code doing other than what a docstring and a test say. They are entries of
`PROJECT.json`, each with the sentence it contradicts.

* `f_skips_upload`: if the storage refuses the access package the request is marked as
  errored, but its run goes on, to the erasure too, and caches later checkpoints. A
  restart resumes there and completes the request without its package.
* `f_optout_reverted`: `automated-consent.ts:93` keeps a saved value only if it is true. The
  signal of the browser refuses a notice; a later visit to an experience with one more
  notice refuses that one, and the first gets its default back, an opt-in,
  which is saved and sent to the API.

Seen in the model while its properties were being chosen, and the reason why some
runs have the settings they have:

* without any crash the watchdog, working from an old snapshot of the queue, may requeue
  a live request; the second runner resets some tasks before a failing worker marks
  its descendants and some after. With two requeues (or a requeue and two workers) tasks are left
  pending below errored ones and found by nobody: `NeverStalled` holds only for the settings of its runs;
* the batch evaluates its query of waiting requests again when it has sent its e-mails; a
  request that began to wait in between is queued from `post_webhooks` and completes,
  and no e-mail was sent for it (`email_batch_service.py`);
* two messages of the terminator both read it as incomplete (`execute_request_tasks.py:250`),
  and the next step is queued twice, although the comment at `:254` means to prevent
  it (two workers, two collections above the terminator). `ResumeMissesNothing` is checked
  and proved with such repetitions;
* without write access only the task itself is set to error (`graph_task.py:849`); what
  lies below it stays pending and the poller never sees the request as exited:
  `FailureReachesDescendants` holds only without read-only collections;
* the erasure rows, created along with the access rows, look like tasks whose parent
  died (comment at `request_service.py:807`), and the watchdog requeues a healthy request;
* when the traversal did not reach every collection, the count that should notice
  missing erasure rows (`create_request_tasks.py:694`) does not.
  `FullGraphStartsWithAllRows` is the part that does hold;
* after the soft time limit (`request_runner_service.py:813`) the request is in error but its
  run goes on with the steps after the graphs and caches `email_post_send` or later: a
  restart leaves out the graphs. With an e-mail to send, the status becomes
  `awaiting_email_send` and the request completes without a restart;
* if the cached checkpoint expires after the access graph is done, a requeue infers
  `erasure` from the rows (`privacy_request_service.py:1433`) and passes over the upload;
* a batch job that dies between pausing a request and queueing it
  (`email_batch_service.py:160`, `:163`) leaves it paused for good: nothing reads the paused step it
  cached, and a paused request can be neither requeued nor restarted;
* a request canceled while somebody holds it may get another status again:
  a run, a terminator, the batch, but also the poller, which sets a request it had listed to error
  (`request_service.py:190`, `:207`), and the watchdog, which requeues or gives up one it had read
  as in processing (`:600`, `:858`). `CanceledStays` speaks of requests nobody holds;
* a restart after the access graph is done but before its next message was taken enters a
  done graph, for which nothing is queued; the message of the terminator, or another
  requeue, has to take the request on;
* a worker that dies between the two commits of a failure (`graph_task.py:544`, `:549`)
  leaves pending tasks below an errored one: `NeverStalled` holds only without
  faults;
* if the message of the next step is lost after the terminator is complete, the
  watchdog's loop has no task to look at and the request stays in processing;
* with two parents and two workers an asynchronous task may be run twice at once. If the
  callback is accepted after the first run parked the task, the second run parks it again
  (`graph_task.py:130` does not look at the row): the answer is in the row and the task waits for it, and
  neither the poller nor the watchdog finds it. The docstring of the endpoint takes the
  answer "as verification the async or erasure request for this request task is complete"
  (`privacy_request_endpoints.py:1885`). `AnsweredTasksFinish` is therefore promised for
  one worker only, and nothing is said of two;
* `error_processing` does not look at the status: the poller, the watchdog and a
  failed `apply_async` turn a canceled request into one in error;
* a callback that comes before the commit of `awaiting_processing` is refused
  (`"lost"`); the watchdog then takes the task for one with an asynchronous strategy that has not
  ended (`HasAsyncTasks`) and leaves the request alone: unless the caller tries again, it
  stays in processing. This is the exception `AnswerRefused` of `StepEnds`;
* circular references pass the traversal; `topological_sort`
  (`create_request_tasks.py:272`) then raises;
* if row creation of the access graph stops half-way, a restart takes the rows there
  are for all of them and waits (the comment at `create_request_tasks.py:576` says
  so);
* `requeue_polling_tasks` does not ask for the request's status, so tasks of a canceled
  request are still queued; they end at the prerequisite check;
* an `after` dependency orders the traversal but is not an edge of the digraph;
* the watchdog does not count tasks in `retrying` among those in progress.

Of the consent script:

* another provider's cookie that refuses only a notice-only notice makes a page that has its
  experience ready with that refusal: `fides.ts:119` copies it, and automated consent, which would
  force the notice to true, returns nothing because no source applies to another notice. A later
  save by a script writes the refusal to the browser and to the API. The
  comment at `automated-consent.ts:100` says that such notices "must always be true and cannot be
  opted out of, even via any automated consent source", and the test at
  `automated-consent.test.ts:255` tries it where another notice is served too.
  `NoticeOnlyStands` says that a refusal comes in no other way;
* the automated consent is saved with the cookie's old list of keys that were not
  applicable; a fetched experience then takes the notices in that list as unsaid
  (`cookie.ts:542`), and the page becomes ready with their defaults, although the comment at
  `initialize.ts:286` wants automated consent reflected in `FidesInitialized`:
  `RefusalSurvives` leaves those keys out;
* two calls of `updateConsent` in one task: both build the whole consent from
  `Fides.cookie` (`preferences.ts:422`) before either has replaced it (`:151`), and the
  second saves the first one's notice as it was;
* `updateConsent` between `FidesConsentLoaded` and `FidesReady` is saved, but the end of `init`
  replaces the page's cookie by one made from the preferences it read before
  (`initialize.ts:384`): `SettledPageAgrees` excludes saves that cross `init`;
* two compressed writes may reach the browser in the other order (`cookie.ts:476`);
* `setIdentity` saves the page's whole cookie (`set-identity.ts:79`): defaults nobody
  chose, which later pages take for a decision, or the consent of before another tab's change. An
  update from a tab opened earlier overwrites the other tab's choice the same way;
* a geolocation request that is rejected is caught by nobody (`geolocation.ts:30`), and
  `FidesReady` never fires (`pc = "failed"`);
* a preference whose request fails is not sent again; the API may also receive two in
  the other order. `ServerAgrees` excludes both.

Of the overlay:

* `handleDismiss` asks a cookie that was read at the mount (`NoticeOverlay.tsx:380`). After a
  first choice on the same page it still finds nothing recorded: closing the modal later
  saves the same consent once more, with the method `dismiss` in place of the visitor's. What
  was chosen stands (`LastChoiceStands`), but an experience that resurfaces on `dismiss` asks again;
* the timer does not ask whether the modal is open, so that the banner may open behind it;
* the toggles follow only the first `FidesUpdating` after the mount: the modal may show what a
  later script has replaced, and saving then saves what is shown;
* toggles that were never saved are still there when the modal is opened again; a
  dismissal does not save them (`Undecided`).

In reading what is not modelled: `FidesUpdated` fires while the UI is still open (against the
comment at `fides-ext-gpp.ts:276`); the banner closed by its X with everything saved fires no
event, and the GPP signal stays as it is; a constant of empty ids is mutated in
`TcfOverlay.tsx:600`.

## Abstractions and what is not modelled

* **Data**: the rows a connector reads or masks, identities, policies and access
  results; a connector may succeed, be skipped, fail, or answer later.
* **Atomic in the model**: `apply_async` and the caching of its id; the statuses of
  `cancel_processing` and the revocation that follows; the check and the commit of the
  callback endpoint; Celery's inspection of all workers; in `Checkpoints` also the check and the write of
  `ExpirePaused`, of the endpoints and of `Take`. Each is a pair of calls
  within one function; splitting them would add windows of the same kind as those
  the model has, at the price of its state space. The query of a scheduled job and what
  the job does with its result are separate steps, in both modules.
* **Celery**: a message may be taken by any idle worker in any order; acknowledged when
  taken; revoked only while it waits (`terminate=False`).
* **Checkpoints**: a checkpoint is cached and its step done in one action, and an
  exception or a death may come between (`MayCache`); identical messages of a request
  count as one; the batch may run at any time, since it also runs for other requests;
  `_should_process_consent` and missing masking secrets appear as a policy without consent
  rules and as a failing step; the status a resume endpoint sets and the message it queues are one
  action. Statuses `pending_external`, `duplicate` and the soft deletion of a request
  are left out, and so is the resubmission of one whose identity data has expired.
* **Consent script**: banner-and-modal experiences with notices, without TCF; the flag mode that
  omits notices that do not apply; validation mode "throw"; `Reinitialize` only when the previous
  `init` and its automated save are over, and no overlay of an earlier `init` is used during
  it; reading the compressed cookie back is part of writing it; the cookie's other fields
  (identity, timestamps, TCF strings) are left out, and so are consent overrides by option, custom API functions
  and legacy consent defaults.
* **Overlay**: it can be dismissed, is not embedded, does not open the modal by itself
  (`fidesModalDisplay`), and has no disabled notices; accept, reject, save and acknowledge
  count as one method, `choice`; the document becomes interactive at some time after `init`,
  and the overlay of an earlier `init` is gone when the next one begins; whether Escape or a
  button closes it, the view of vendors, and the events it fires are left out.
* **Commits**: each database commit is atomic and visible to the next read.
* **Not modelled**: the expiry of cached task ids; requests that are watched in statuses other than
  `in_processing`; failing reads of Redis in the watchdog; orphaned connections; the
  retry of `queue_downstream_tasks_with_retries` itself; the legacy traversal behind a configuration
  switch; the optional-identity filters; several creators of rows at one time;
  sub-requests of polling tasks; manual tasks (to this model they are parked and
  resumed collections).

## Plan

Written: the execution of one graph, the checkpoints of one request, the two
non-trivial digraph builders with their proofs, and initialization, saving and the
overlay in the consent script. What would come next, in order of importance:

1. **RowCreation**: two runners create and repair rows side by side: check-then-create
   without a constraint (`create_request_tasks.py:366`), and the recreation lock
   (`lock.py`) with its expiry. Property: every task has exactly one row when
   the step starts.
2. **Liveness of Checkpoints**: with the fairness of workers, jobs and one restart,
   a request that waits for nobody ends.
3. **Life of a privacy request** before the first message: verification, pre-approval,
   approval, denial, duplicates, soft delete, bulk operations.
4. **Expiry of cached task ids** as an action of `RequestTasks`; the rate limiter
   (`rate_limit.py`) as a module of its own.
5. **Proofs**: the safety part of `StepEnds` for requests that are requeued or called back:
   which of the watchdog's rounds leave `NeverStalled` true, in place of
   `StepRunsOnce`; what two workers do promise of an answered task; `ClosedIsRecorded` for several tabs, with an `OneTab` weakened to
   "no other tab wrote since" (a history variable); `Checkpoints` as a refinement of
   an abstract sequence of steps.
