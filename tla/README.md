# CC-Manager in TLA+

CC-Manager schedules coding agents (Claude Code, Codex) over a pool of reusable
slots. A FastAPI backend, one asyncio process over one SQL database, accepts Tasks,
starts a provider process per Task turn, watches its output, and offers cancel,
retry, questions to the user, PR review and delivery on top. This directory models
its scheduling core, its question machinery, the manual merge of a monitored pull
request and the autonomous delivery loop, checks them with TLC, and proves the
properties that matter most with TLAPS.

Paths below are relative to `src/backend/` unless they begin with `src/`.

## 1. What is here

| file | content |
| --- | --- |
| `TaskTurn.tla` | the machine of a local Task turn: claim, launch, process, release, stop, retry, crash |
| `TurnEffects.tla` | the at-most-once contract `TaskTurn` implements |
| `TaskTurnProps.tla` | its properties, inductive invariants, fairness, refinement mapping |
| `TaskTurn_proofs.tla` | typing theorem |
| `TaskTurnEffects_proofs.tla` | inductive invariant, at-most-once, refinement, finality |
| `TaskTurnSlots_proofs.tla` | slots, processes and stops: the other safety properties, proved |
| `MCTaskTurn.tla`, `TaskTurn_{safety,cap,liveness}.cfg` | its instances for TLC |
| `AskUser.tla` | questions of a turn to the user: hook, registry, submissions, listings |
| `QuestionContract.tla` | what the two parties of a question are promised; `AskUser` implements it |
| `AskUserProps.tla` | its properties, inductive invariant, refinement mapping, and two statements the code does not keep |
| `AskUser_proofs.tla` | typing, inductive invariant, action properties, refinement, proved |
| `MCAskUser.tla`, `AskUser_{safety,leak,stale}.cfg` | its instances for TLC |
| `DirectMerge.tla` | the "Merge PR" outbox: leased publishers, lifecycle hook, operators, GitHub |
| `MergeContract.tla` | the one-effect contract `DirectMerge` implements |
| `DirectMergeProps.tla` | its properties, inductive invariants, refinement mapping |
| `DirectMerge_proofs.tla` | typing, inductive invariants, safety, refinement, proved |
| `MCDirectMerge.tla`, `DirectMerge_{safety,liveness,stuck}.cfg` | its instances for TLC |
| `Delivery.tla` | the delivery loop of one run: plan, code, review, publish, monitor |
| `DeliveryContract.tla` | the sequential delivery that `Delivery` implements |
| `DeliveryProps.tla` | its properties, inductive invariants, refinement mapping |
| `Delivery_proofs.tla` | typing, snapshot and publication theorems |
| `DeliveryRun_proofs.tla` | the developer's turn, ended runs, worktree and success, proved |
| `DeliveryContract_proofs.tla` | the refinement of `DeliveryContract` and what follows from it |
| `MCDelivery.tla`, `Delivery_{safety,liveness,retry}.cfg` | its instances for TLC |

Each definition of a mutated form (marked `Mutant:` in a comment) stands just before
the definition it distorts. It is a plausible bug of that piece of code; putting it in
place of the original makes TLC refute the property named in `PROJECT.json`. They
show that the properties can fail; no `Next` uses one.

## 2. Inventory of the system

The state lives in four places, and most of the difficulty lies between them: rows of
the database (they survive a crash), memory of the backend process (it does not),
provider processes (sessions of their own that outlive the backend), and remote parties
(Workers, GitHub, browsers).

### Task turn lifecycle
`services/dispatcher.py`, `services/instance_manager.py`, `services/task_queue.py`,
`services/instance_capacity.py`, `services/task_termination.py`, `api/tasks.py`.

* State. The Task row: status, retry_count, turn_generation, instance_id, turn source
  log and its recorded transport, the supersede marker. The Instance row: status,
  current_task_id, pid with process identity. Memory: `_running_tasks`, per-Instance
  lifecycle locks, `processes` and the output consumers, `_stopping`.
* Operations. Refill idle slots, reserve, dequeue (one compare-and-swap), bind a turn
  source, admit, spawn, track, consume output, judge the exit, reset a stale slot,
  reconcile reverse owners, cancel, supersede, manual retry, shutdown, start-up clean-up.
* Hard. Every step awaits, so cancel, retry, shutdown and a new claim interleave
  with a lifecycle at every point; the effect of a provider turn cannot be undone, so
  it must not be repeated; a crash loses all locks and coroutines while processes run on.
* Correct when. One authorization has at most one turn with an effect; a live process
  is never forgotten; a confirmed stop really stopped; stale lifecycles are silent;
  the cap holds; nothing stays claimed or running for ever.

### Questions to the user
`api/ask_user.py`, `services/ask_user.py`.

* State. The registry of `PendingAsk` (bound turn identity, future, reservation), the
  blocked hook coroutines, audit rows.
* Operations. Wait, submit, list one Task, list all, deletion of the Task.
* Hard. The Task, the registry and the future change in separate atomic steps; a
  submission awaits the database between reservation, audit and wake-up.
* Correct when. An answer is audited first, wakes only the turn that asked, comes
  from one submission, and reservations neither leak nor overlap.

### Manual merge of a monitored pull request
`services/pr_direct_merge.py`, `services/pr_review_service.py` (`_publish_direct_merge`),
`api/pr_monitor.py`, `services/pr_monitor_loop.py`.

* State. The run row (status, pause reason, durable terminal intent), one outbox row
  (status, ten-minute lease, attempts, error prefix), the repository's switch, the
  Findings; at GitHub the pull request and the base branch.
* Operations. Click, claim, read, check, fast-forward, confirm, comment, settle, record a
  failure; pause, disable, enable, resume, synchronize, reopen; the signed `closed` delivery
  with its two reads, and the periodic recovery of its intent.
* Hard. Minutes of GitHub calls lie between two transactions, also of other Managers; a
  failed call may have been processed; deliveries are repeated, late or lost; the base
  branch cannot be moved back.
* Correct when. One writer at a time; a pause or disable that succeeds really stopped; what is
  recorded as merged is merged; an own merge is not lost; an armed action ends one day.

### Delivery loop
`services/delivery_controller.py`, `delivery_reducer.py`, `delivery_service.py`,
`delivery_workspace.py`, `delivery_publisher.py`, `api/delivery_runs.py`.

* State. The run row with its lease, the current cycle, the last code turn, the
  publication outbox; the developer Task; capability invocations; the worktree, the branch,
  the pull request; the PR Monitor run.
* Operations. Claim, drive one phase, release; within the publication query, push, intent,
  creation, receipt, binding; pause, cancel, resume and retry of users.
* Hard. A drive decides on a snapshot and works outside transactions; the lease can run
  out under it; Git and GitHub effects cannot be rolled back; several cycles reuse rows.
* Correct when. Only reviewed heads are published; a pull request is never created twice; a
  lease holder acts on the run as it is;
  the Task works for one turn; rows agree after every ending; every run comes to a stop.

### Parts that are not modelled yet
For each: its state, what is hard, and what would make it correct.

* **Chat and message queue** (`api/chat.py`, dispatcher): queued user messages open
  further turns of a Task; drains wait for a turn. A message must be delivered exactly once
  and in order, also across a crash between its delivery and its mark.
* **PTY background output** (`instance_manager.py`): a detached tail keeps a Task
  executing after its process ended (`pty_background_generation`); stop and consumer
  hand terminal ownership over to each other.
* **Termination with auxiliary sessions** (`services/task_termination.py`): Monitor and
  sub-agent sessions end with their Task; several owners, several receipts.
* **Turn arbitration** (`services/terminal_arbitration.py`): source binding is in
  `TaskTurn`; the hand-off of a turn between Workers (generation G to G+1) is not.
* **Capabilities** (`services/capability_*.py`): a Task parks in `waiting_capability`
  and is woken by a durable event; no lost and no double wake-up.
* **Plans** (`services/plan_service.py`, `plan_agent_runner.py`, `plan_runtime_receipt.py`,
  `worker_plan_dispatch.py`): drafts, runs and decisions with receipts; a run
  is decided once, a stale decision is refused.
* **Automatic merge queue** (`services/pr_merge_queue.py`): effect_kind "queue"; leases and
  GitHub's own queue; one merge at a time per repository.
* **PR review** (`services/pr_review_*.py`): panels, adjudication, fixes; rounds of an old
  head must not act on a new one. Its verdicts are inputs of `Delivery`.
* **Workers** (`services/worker_*.py`): request and receipt protocol between a Manager
  and remote Workers, with leases, duplicates and late acknowledgements; the Manager must
  not release a Task that a Worker may still run.
* **Migration and sharing** (`services/task_migrator.py`, `task_sharing.py`,
  `task_id_namespace.py`): one node owns a Task at any time.
* **Test harness** (`services/test_harness*.py`): owner fences and Browser children; a
  child never outlives the generation of its owner.
* **Monitor sessions and sub-agents**: turn claims on auxiliary sessions.
* **Loop, goal and Ralph modes** (`services/ralph_loop.py`, `goal_evaluator.py`):
  iterations of one Task on one slot, stopped between two iterations.
* **Account pools and tier proxy** (`services/*_pool.py`, `codex_tier_proxy.py`): slots,
  cool-downs and rotation of accounts.
* **Codex app-server client** (`services/codex_app_server.py`): JSON-RPC over a child
  process; replies matched to requests, one turn per thread.
* **Update service** (`services/update_service.py`, `deployment_start_guard.py`): drain,
  switch, health check and roll-back; touches git and systemd.
* **Discussions, skills, secrets, SSH, backups; REST presentation, frontend, extension,
  desktop; migrations and scripts**: storage and presentation with little control state.

`PROJECT.json` lists the sources of each and, under `hazards`, the lines where the
modelled code could go wrong in a way a test would hardly reach.

## 3. TaskTurn

### State

| variable | in the code |
| --- | --- |
| `status`, `retry`, `gen`, `inst` | the Task columns status, retry_count, turn_generation, instance_id |
| `source`, `sent` | the generation named by the log row at turn_source_log_id, and whether its actual_transport is set |
| `superseded` | the pr_review_superseded marker in the Task's metadata |
| `istat`, `cur`, `pid` | the Instance columns status, current_task_id, pid with process_identity |
| `lc` | the coroutine in `_running_tasks` (or the slot reservation) with the claim it carries: Task, generation, retry, process |
| `managed` | the process whose handle, consumer or lock InstanceManager still holds |
| `stop` | the cancel or supersede operation in flight: its snapshot, the owners still to visit, the slot it is stopping |
| `mode`, `crashes` | the backend is up, draining, or down |
| `proc` | the operating system's processes with the turn they were started for, their outcome, and whether they were recorded |
| `auth` | history: how often the user asked for the Task to run |

### Actions

An action is one database transaction, or the stretch of a coroutine between two
awaits at which another coroutine could matter. A lifecycle goes
`reserved → claimed → launch → spawn → track → wait → exit → reconcile`:

* `EnsureIdle`, `Reserve`, `ReleaseReservation`, `Dequeue`, `PrepareFails`: refill and
  claim (dispatcher, instance_capacity, `TaskQueue.dequeue`).
* `BindTurn`, `BindSuperseded`: the executing transition that binds a fresh turn source.
* `LaunchAbandoned`, `LaunchDeferred`, `LaunchFails`, `Admit`: account and slot checks,
  then the last durable write before the provider (`_persist_actual_turn_transport`).
* `Spawn`, `Track`, `TrackAborted`, `TrackAbortUnconfirmed`: the process, its row, and
  the two ways tracking can fail.
* `ProcExit`, `ConsumerRelease`: the process ends, the consumer releases its slot.
* `JudgeCompleted`, `JudgeError`, `JudgeRejected`, `JudgeRejectedFails`, `WaitFails`,
  `LifecycleDies`, `LifecycleCancelled`: how a lifecycle settles its Task.
* `ExitReset`, `Reconcile`: its finally block.
* `CancelOwnerless`, `CancelBegin`, `SupersedeBegin`, `StopKill`, `StopUnconfirmed`,
  `StopUnmanaged`, `StopSettle`, `CancelFinish`, `SupersedeFinish`: stops, from the
  snapshot of owner rows to the answer.
* `Retry`, `BeginShutdown`, `Crash`, `Restart`: the user's retry; drain, crash and the
  whole of `_cleanup_stale_state` with the start-up quarantine of slots.

### Abstractions

* Timestamps are dropped. The compare-and-swaps of the code also compare `started_at` or
  `completed_at`, so those of the model succeed at least as often: safe for the safety
  properties.
* Whether the user a Task runs as is still active is not tracked: `Finalize` may fail a
  turn that it could replay.
* The lifecycle lock is the condition `LaunchHoldsLock` together with `Stopping`. The
  process-wide part of a stop does not hold a lock across its writers
  (`services/test_harness.py`, 2775 to 2820), so cancel, retry and lifecycle writers
  interleave in the model. The barrier before a cancel cannot be observed and is left out;
  the second barrier of supersede, before its final write, is kept (`NoLaunchInFlight`).
* One stop operation per Task is in flight at a time; an ownerless cancel may interleave
  with it.
* `EnsureIdle` takes over the identity of a cleared error row for the new row it inserts.
* A slot in `error` with a pid and a managed process is one whose consumer was never
  installed (`TrackAbortUnconfirmed`).
* The terminal gate of the test harness is open after the turn is bound, also where the
  finally block fails a Task and frees its slot (`ExitReset`, `dispatcher.py` 12922 to 12928).
* `Restart` follows a `Crash`. The dispatcher's pause and start runs the same clean-up with the
  backend alive (`dispatcher.py`, 3007 to 3024); its drain and the processes that survive it
  are not modelled.
* `CancelConfirmed` asks for the absence of owner rows only; the code also asks for the
  result "stopped" (`api/tasks.py`, 8541), so the model answers success at least as often.
* `SupersedeFinish` writes when the launch barrier is settled; with a launch still in flight
  it ends in the conflict the code raises then (`services/task_termination.py`, 380 to 384).
* Routing to
  Workers, account routing delays, project preparation, skills and the modes plan, loop,
  goal and pr_loop are outside.

### Runs

| run | instance | shows |
| --- | --- | --- |
| `safety` | 1 PR-review Task, 2 slots, 2 processes, 2 generations, 1 manual retry, 1 crash, all faults | `AtMostOneEffect`, `LiveProcessOnRecord`, `NoOverlap`, `StopIsReal`, `TerminalOnlyRetried`, `StaleLifecycleSilent`, `CompletedTurnEnded`, `SupersededStaysDown`, and the refinement of `TurnEffects` |
| `cap` | 2 Tasks, 2 slots, cap 1, min_idle 1, 1 crash, all faults | `LiveWithinCap` |
| `liveness` | 1 Task, 2 slots, 1 process, 2 generations, 1 crash | `ActiveSettles`, `RunningSlotReleased` |

Why the bounds are enough. Every fence of the code compares one claim with its
successor: a stale lifecycle with the next generation, a stop with a launch that raced
it, an old process with a new one. Two generations on two slots with two processes and
one retry are the least instance in which each of these pairs exists, and a crash may fall
between any two of their steps. The cap needs two Tasks that compete for two slots with one
place. The theorems of section 7 lift the bounds for the properties they prove.
`MaxGen`, `MaxAuth` and `MaxCrash` bound the counters, in the guards of `Dequeue`,
`Retry` and `Crash`. `CHECK_DEADLOCK FALSE`: with these counters exhausted and every Task
settled the system is at rest.

### Fairness

`FairSpec` assumes, and the code justifies: a lifecycle coroutine goes on running (weak
fairness of its steps); a launch ends one way or another, and the turn timeout ends
every process (weak fairness of `ProcEnds`); a stop operation goes on (weak fairness
of `StopStep`); asyncio locks are FIFO and stop requests come now and then, not without
a pause, so that a consumer or a finally block that waits for the lock gets it (strong
fairness of `ConsumerRelease`, `ExitReset`, `Reconcile`); the supervisor restarts a dead
backend. Nothing is assumed of the user, of faults, or of the claim of a pending
Task. The run has `Faults = FALSE`: a database that refuses the terminal write as well
leaves a Task executing until the next restart, which the code does not claim to prevent.

### Observed limits

They are how the code works, and the properties name them as exemptions.

* A crash between `Spawn` and `Track` leaves a process no row names. `NoOverlap` exempts an
  older process that was never recorded.
* A superseded first turn that was never launched is not released by the clean-up of a
  restart (`dispatcher.py`, 4158): it stays executing until the supersede request is
  repeated. `ActiveSettles` exempts superseded Tasks, and the instance of `liveness` has no
  PR-review Task, so that run cannot see it.

## 4. AskUser

### State and actions

One Task. The columns that the code compares (incarnation, retry, generation, session,
status) are one number `turn`, which `TurnMoves` advances; `active` tells whether the status
is in_progress or executing. `registered`, `bound`, `future`, `given` and `claim` are the
registry; `hook` and `sub` the program counters of the two endpoints; `seen` and
`listing` are the Task rows that a submission and a listing read before they
await their access check.

* The hook: `WaitOpens` (fence of the Task row, new question, card row), `WaitCommits` or
  `WaitAborts`, `Announced` or `CutOffEarly` (the broadcasts), then `Wakes` or `GivesUp`
  (timeout or disconnect).
* A submission: `SubmitReads`, `SubmitClaims` (checks, reservation), `SubmitAudits`
  (first fence and audit commit), `SubmitFulfils` (second fence and wake-up),
  `SubmitFails` (any exception, which releases the reservation). A submission that woke its
  hook ends "ok", or "erred" when the rollback of its `finally` raises after that: its caller
  sees an error, the hook has the answer all the same. First fence and commit are
  one action: the Task row is locked in between and the registry is not read.
* `ListReads` and `ListDrops`, the listing of one Task; `ListAllDrops`, the listing of all.
* `DeleteTask` with the registry's `discard_for_task`. `TurnMoves` stands for the
  lifecycle that `TaskTurn` models in detail.

`QuestionContract` knows neither futures nor reservations nor snapshots. Its questions have a
fate (open, answered, revoked, dropped) and a turn that lives or not; its answers are pending,
given (its sender told so, or of an error) or refused, and at most one logged answer to a question can still be given. The mapping:
a question is live while its row names the running turn (`bound` against `turn` and
`active`), its fate is the registry's future, what its hook was told is the hook's end, and a
submission's verdict is its end; that an answer is audited before it is given, in its own
turn, is the contract's step `Answer` and no property beside it. A question may be revoked at any moment, since the
listings of finding 2 do so. From the contract alone follows `Faithful`: an accepted answer is the
one its question got and was logged before, and a hook that heard of an answer or a
revocation was told the truth.

Bounds: two questions and two submissions, since reservations, listings and answers
concern one question and one rival; two changes of the turn, so that a question, a
submission and a listing can each be a turn behind. One listing is in flight at a
time; a second would add only another snapshot. `CHECK_DEADLOCK FALSE`: when all calls have
ended, the system is at rest.

### Runs

| run | shows |
| --- | --- |
| `ask_safety` | `OneCommitter`, `ClaimHeld`, `OkNeverRevoked`, `RevokedIsStale`, and the refinement of `QuestionContract` |
| `ask_leak` | `QuestionHasHook` is violated (finding 1) |
| `ask_stale` | `ListingDropsOnlyStale` is violated (finding 2) |

### Findings

1. **A question can outlive its hook.** `api/ask_user.py` registers the question, commits,
   broadcasts the card twice (lines 212 to 226; a slow browser can hold each up to five
   seconds), and only then enters the `try` whose handlers clear the question. A hook whose
   request is cancelled during the broadcasts leaves the question registered: it is
   listed, and an answer to it is audited and reported as a success that nobody reads. The
   comment at line 264 promises that a disconnected hook is cleaned up.
2. **A listing can revoke a question of the running turn.** `ask_user_pending` reads the
   Task (line 281), awaits the access check (284), and passes what it read to
   `discard_stale_for_task` (287). If a new turn begins and asks in between, its question
   differs from the old row and is dropped, and its hook is told that the turn
   ended. The docstring speaks of prompts that "no longer belong to the current active turn".

A third observation, modelled in `GivesUp` and not listed as a finding because the code
promises nothing about it: since Python 3.12 the timeout of `wait_for` wins over a future
that was set in the same turn of the event loop, so that an answer reported as
delivered can be lost.

## 5. DirectMerge

### State and actions

One pull request, its run, its one outbox action. `pr`, `landed`, `events` are GitHub's side:
state, head and base of the pull request, whether CCM's update reached the base, the
signed deliveries that may come (again); `receipt` is the comment that tells of the merge. `run`, `act`, `enabled`, `blocking` are rows. `pc`,
`saw`, `why` are the locals of a coroutine in `reconcile_direct_merge_action`, `sent` its
ref update on the way, `hook` the lifecycle hook. A head is "exact" (the reviewed one) or
"moved": nothing in the code tells two other heads apart.

* A publisher: `Claim` (or `SettleIntent`), `FirstRead`, `Check`, `Guard` (the reads of
  `_publish_direct_merge`), `Final` (its last check), `Send`, `Answer`, `Confirm`, `Comment`
  (a comment that exists already is enough), `Post`, `Done`; on an error `Reread`, `Record`.
* The hook: `HookBegin`, `HookReads` (GitHub, before and after), `HookPersists` (the durable
  intent), `HookEnds`; `HookFails`.
* Operators: `Arm`, `Pause`, `Disable`, `Enable`, `Resume`, `FindingChanges`, `Synchronize`,
  `Reopen`. GitHub: `ClosePr`, `MergeElsewhere`, `AuthorActs`, `Land`;
  `Refuse`, an update that GitHub refuses or never sees.
* Faults: `CallFails` (a failed POST may have left its comment), `Crash`, `LeaseExpires`.

The claim counts its attempts without a bound (`pr_direct_merge.py`, 408); only the record of
a failure compares the count with the budget. `Counted` follows the count up to `MaxCount`,
which lies above `MaxAttempts`: beyond the budget no guard tells two counts apart.

`_pr_repo_write_lock` is local to one Manager and the reconciler does not take it, so it is
left out. A run that gets a new review subject ("reviewing") is the end of the instance.
Of GitHub the model assumes: an update fast-forwards or does nothing; a pull request whose
head is in the base cannot be reopened; a merge is for ever.

`Overdue` says whether a ref update may outlive the lease of its sender, or a call its
timeout. The code cannot exclude it (a timed-out PATCH may be processed later); its own
timeouts make it rare. `dm_safety` and the theorems about the write at GitHub assume
`~Overdue`; `dm_liveness` and the theorems about the rows do not.

`MergeContract` is the abstract specification: one click arms one effect, which lands only
while it is armed, and ends settled or withdrawn; but once it has merged the pull request
(`own`) it can only be settled as merged. `Stage` maps the rows of run and action to it: an active
action is armed, a merge told by either row is merged, a run that ended otherwise is
over, a superseded action of a run that goes on is settled.

### Runs

| run | instance | shows |
| --- | --- | --- |
| `dm_safety` | 2 publishers (click and periodic reconciler), 2 attempts, counted to 3, 1 fault | `ArmedRun`, `OneWriter`, `StopIsFinal`, `MergedIsTrue`, `OwnMergeKept`, `BudgetKept`, `LeaseRespected`, the refinement |
| `dm_liveness` | 1 publisher, 1 attempt, counted to 2, 1 fault, overdue calls | `ClaimSettles`, `MergedIntentEnds` |
| `dm_stuck` | 1 publisher, no fault | `OutboxRecovers` is violated (finding 3) |

Two publishers suffice because the code only tells "mine" from "not mine". Two attempts are
a retry and a spent budget; one fault lets a call fail, a Manager die or a lease be overrun
once, at any step. An update may be refused or lost at no cost of a fault, since the reads that
follow tell it from one that landed. `dm_liveness` has a budget of one attempt: with the
fault the count still passes it, and the spent and the overspent budget are the cases that
could hang. `CHECK_DEADLOCK FALSE`: a settled run is at rest.

`BudgetKept` does not say that the number of attempts is bounded; it is not. It says that nothing
but a fault (a failed call, a crash, an overrun lease) or a stranger's merge, which hides whether
the effect is absent, brings it above the budget.

Fairness: the periodic task calls the reconciler again and again, started coroutines go on,
GitHub answers, orphaned leases run out (weak); the periodic recovery of an intent gets its
turn between redelivered webhooks (strong). Operators, authors and deliveries owe nothing.

### Finding and observed limits

3. **A claimed action and a closed intent wait for each other.** Claim refuses an action
   whose run carries a terminal intent other than an exact merge (`pr_direct_merge.py`, 371);
   the hook refuses to consume an action that may have had an effect
   (`api/pr_monitor.py`, 1139 to 1203); so do pause, disable and reopen. The pull request is
   closed, the intent durable, the action stays "enqueuing". The click handler promises
   that "the durable outbox remains recoverable by the periodic reconciler" (5600).

* The proof of absence (`pr_direct_merge.py`, 304) is a later read. A push or close between the
  last read and the ref update lets the update land while the pull request reads as
  changed or closed; the row then says `direct_merge_remote_absence_proven`.
* With `Overdue`, `StopIsFinal` fails: a timed-out update is followed at once by a read
  (`pr_review_service.py`, 3246), and when that read withdraws the action, pause and
  disable succeed although GitHub may still process the update.
* A run that ended as closed, whose pull request was reopened and merged before the
  reopen was processed, stays closed. `MergedIntentEnds` exempts it.

## 6. Delivery

### State and actions

`run`, `cycle`, `turn`, `act` are the rows of one run (the current cycle, the last turn, the last
outbox action), `lease` its lease, `task` the developer Task as the run sees it
(`TaskTurn` is its detail), `inv` the capability invocations, `mon` the bound PR Monitor
run; `git` is the worktree, `remote` the branch and the pull request. `ctl` holds for each
controller what it read at its claim and its next step; `approved` and `pushed` are
history. A head is the number of commits on a linear branch: the worktree only grows.

A step of a drive is one transaction or one effect:

* lease: `Claim`, `Release`, `LeaseLost`; ends of a drive: `PauseRun`, `FailRun`;
* planning and review: `EnsureWorkspace`, `RequestReview`, `CreateInvocation`,
  `BindInvocation`, `Observe`, `Consume`, `PlanReady`, `ReviewApproved`, `ReviewRejected`;
* coding: `DispatchTurn`, `ObserveBusyTurn`, `ObserveEndedTurn`, `CommitChanges`, `FinishTurn`;
* publication: `StagePublish`, `FencePush` (history of the branch and last fence), `Push`,
  `OpenPullRequest` (query and durable intent), `CreatePullRequest`, `Recover` (after a failed
  creation), `RecordReceipt`, `BindPullRequest`, `MarkUnknown`, `MarkFailed`;
* monitoring: `Watch`, `CompleteRun`, `MonitorBlocked`, `ReviewError`;
* users: `PauseByUser`, `CancelByUser`, `ResumeByUser`, `RetryByUser`;
* faults: `DriveFails`, `Refused`, `Crash`, `HeartbeatLate`, `GhostExpires`, `ActionExpires`;
* surroundings: capabilities end or fail, the developer Task starts, writes, ends, is released
  or requeued, the monitor decides, the pull request closes, somebody else moves the branch.

The outbox action keeps a `receipt`, its result column, which outlives its lease: "intent"
before the call that creates the pull request, "published" with the request, "conflict" when the
request of this very head is closed, "ambiguous" when the history of the branch is at another
head, "unresolved" when it can not be told whether a creation took place. `StagePublish` reads the
receipt before the status: a published action goes on with the binding; a conflict, and
anything unresolved of a run that has no pull request, fails action and run; an ambiguous
history of a run that has one is read once more, and after that the run is paused. `Refusal` and
`Unresolved` are these cases. After an intent no controller creates again: it finds the request,
or records that nothing can be proved. A subject that changed under the publication (the branch
moved, or a binding that finds another remote head) leaves the action unknown and pauses the run.

A dead controller's lease belongs to "ghost": `owner_id` is drawn anew by every process.
`DeliveryContract` is the loop as one sequential author would see it: work moves the head one
commit at a time, an approved head is published and then watched, a setback costs a cycle of the
budget, an end is an end, but for the retry of a run that failed before it was watched. `Stage`
and `Back` map the phase, the outcome and the failed phase of the run row to it; `head`,
cycles, approvals and pushes are the model's own. Approvals and pushes may come late, from
stages that are over, but never for a head the run has not had or no review approved.

The policy has the frontend review off. Left out are the branches that `OneDeveloperTurn`
shows to be out of reach (a Task busy outside coding), admission and workspace set-up, and
inside the publisher the receipts of older versions and lists of GitHub that lag behind their own
branch. One pull request of the branch is followed, with the head it shows; a closed one keeps
its head.

### Runs

| run | instance | shows |
| --- | --- | --- |
| `dl_safety` | 2 controllers, 2 cycles, 2 faults, 1 command | `PublishedIsReviewed`, `SnapshotIsCurrent`, `OneDeveloperTurn`, `TerminalOwnsNothing`, `NeverRecreated`, `WorktreeAtHead`, `SuccessIsReal`, the refinement of `DeliveryContract` |
| `dl_liveness` | 1 controller, 3 cycles, 1 fault, 1 command | `RunStops` |
| `dl_retry` | 1 controller, 2 cycles, 1 fault, 1 command | `RetryKeepsSubject` is violated (finding 4) |

Two controllers give a holder and one that lost its lease; two cycles a row of an earlier
cycle next to one of the current; two faults a crash or lost lease on top of a failed
call; one command a stop, a resume or a retry at any moment. `MaxFaults` and `MaxCommands`
are in the guards of `Fault` and `Command`. A stranger moves the branch once, while it is published
and not behind a closed request (`BranchMoves`); elsewhere the run does not look at the branch,
or the monitor does. `MaxCycles` and `MaxNoProgress` are columns of the
run. `CHECK_DEADLOCK FALSE`: an ended or paused run is at rest.

Fairness: controllers poll, capabilities, the developer Task and the monitor come to an end,
leases of the dead run out; users owe nothing. `RunStops` asks nothing of a run that has
stopped, so it does not see the lease that a crash may leave on one (below).

### Finding and observed limits

4. **The retry of a failed publication is never published.** The publish action is looked up
   by head only (`delivery_controller.py`, 3828). The failed one names the failed cycle, the
   retry has a new one, so the run is paused as a changed subject, on every resume again. The
   design (`docs/autonomous-delivery-loop-design.md`, 39) says "发布前 failed：操作员可在原 Run 内创建
   operator_retry Cycle，从 Plan 继续": for a run that failed before publication the operator can
   create an operator_retry cycle in the same run and continue from Plan. The retry of the code
   restarts the failed stage instead (`api/delivery_runs.py`, 112), here the publication, and that
   cannot go on.

These disagreements with comments or the design were met too; no run is spent on them.

* A lease left by a crash between the commit that pauses or ends a run and `_release_run` is
  never cleared, since `_claim_run` takes active runs only (1041); resume and retry refuse
  while it is set. The comment at `api/delivery_runs.py`, 208 to 213, says that the controller
  recovers it.
* `report_completed` asks only that this turn added no commit (2016), so that a report in a
  later cycle ends the run in success with rejected commits on the branch. `SuccessIsReal` speaks
  of successes with an approval only.
* `_retry_available` offers a retry for a run that failed while monitored, and the endpoint
  always refuses it, since the cycle was completed at publication (`api/delivery_runs.py`, 1125).
* `_retry_available` does not look at `pr_number` (91); the design (933) allows a retry only before
  publication.
* `create_controller_invocation` checks neither lease nor run state (`capability_service.py`,
  329): a controller without the lease may start a capability for a cancelled run.
* A running turn that the dispatcher requeues pauses the run, and every resume pauses it again.

## 7. What is proved

All theorems hold for every value of the constants under the named assumptions: in
`TaskTurn` and `AskUser` `NullAssumption` (the NULL values are no identities; Reviews are
Tasks) and `BoundAssumption` (bounds are natural numbers); `DirectMergeAssumption` and
`DeliveryAssumption` (likewise; budgets are positive). Where the table says so, a theorem also
assumes `~Overdue` (section 5).

| theorem | states |
| --- | --- |
| `TypeCorrect`, `AskTypeCorrect` | `Spec => []TypeOK` for each machine |
| `EffectInvariant` | `Spec => []EffectInv` |
| `AtMostOnce` | `Spec => []AtMostOneEffect`: one authorization, at most one turn with an effect |
| `Refinement` | `Spec => EffectsContract`: `TaskTurn` implements `TurnEffects` |
| `TerminalIsFinal` | `Spec => TerminalOnlyRetried` |
| `SlotInvariant` | `Spec => []SlotInv` |
| `LiveStaysOnRecord`, `StopSucceedsTruly`, `TurnsNeverOverlap` | `Spec => []LiveProcessOnRecord`, `Spec => []StopIsReal`, `Spec => []NoOverlap` |
| `CompletionIsEarned`, `SupersededIsFinal`, `StaleIsSilent` | `Spec => CompletedTurnEnded`, `Spec => SupersededStaysDown`, `Spec => StaleLifecycleSilent` |
| `CapRespected` | `Spec => []LiveWithinCap`, when `Instances` is finite |
| `AskInvariant` | `Spec => []AskInv` |
| `OneCommitterHolds`, `OkNeverRevokedHolds` | the two invariants of submissions |
| `ClaimHeldHolds` | reservations do not leak |
| `OnlyStaleRevoked` | the action property of the registry |
| `ContractImplemented` (AskUser) | `Spec => ImplementsContract`: `AskUser` implements `QuestionContract` |
| `PartiesToldTheTruth` | `Spec => []Contract!Faithful` |
| `MergeTypeCorrect`, `DeliveryTypeCorrect` | `Spec => []TypeOK`; the latter includes the cycle budget and what the columns of a run row say of each other |
| `ArmedRunHolds` | `Spec => []ArmedRun` |
| `BudgetKeptHolds` | `Spec => []BudgetKept`: above the budget only after a fault or with a stranger's merge |
| `MergedIsTrueHolds`, `LeaseRespectedHolds` | `Spec => []MergedIsTrue`, `Spec => LeaseRespected` |
| `OneWriterHolds`, `StopIsFinalHolds`, `OwnMergeKeptHolds` | the safety of the write at GitHub, with `~Overdue` |
| `ContractImplemented` (DirectMerge) | `Spec => ImplementsContract`: `DirectMerge` implements `MergeContract`, with `~Overdue` |
| `OwnMergeToldAsMerged` | `Spec => []Contract!Kept`: a merge by CCM is armed or told as merged, with `~Overdue` |
| `SnapshotHolds` | `Spec => []SnapshotIsCurrent` |
| `PublishedReviewed` | `Spec => []PublishedIsReviewed` |
| `OneTurn`, `TerminalReleased` | `Spec => []OneDeveloperTurn`, `Spec => []TerminalOwnsNothing` |
| `WorktreeFollows`, `SuccessReal` | `Spec => []WorktreeAtHead`, `Spec => []SuccessIsReal` |
| `HeadsStayBehind` | `Spec => []HeadsBehind`: nobody is ahead of the run, but for one commit |
| `ContractImplemented` (DeliveryContract) | `Spec => ImplementsContract`: `Delivery` implements `DeliveryContract` |
| `EndedStaysEnded`, `ReviewedHeadStands` | a successful or cancelled run never changes; a reviewed head does not move until the run works again |

**TaskTurn.** `AtMostOneEffect` is not inductive: a state in which a Task is pending
although a turn of its authorization fired satisfies it, and the next launch breaks it.
`EffectInv` closes the gap along the chain of custody of a turn. A Task that can still be
launched has had no effect (`LaunchableUnfired`); a launch past admission is its Task's
current turn with its transport recorded, so that nothing can hand the Task back
(`LaunchCurrent`); at that point nothing has fired (`SpawnUnfired`), and afterwards its
process is the only one that counts (`SoleProcess`). `LcOpened`, `LcUnique` and `LcPlaced`
say that a generation has one lifecycle, on the Task's slot, which makes "the launch" of
that argument unique; `DownIsEmpty`, `ClaimUnbound` and `ProcSane` are the bookkeeping.
The step lemma does not run through thirty actions: most are shown to be of one of two kinds,
`Closing` (no Task becomes launchable, no process is born) or `Requeueing` (the owner
of a turn without effect hands its Task back), and the invariant, the refinement and
the finality of terminal Tasks are proved once for each kind and for the few actions that
claim, bind, admit, spawn, authorize or clean up.

The other properties follow from a second invariant, `SlotInv`, inductive on top of the first.
Its core is `LiveProcessOnRecord` itself: a row is released only where its process is known
to be dead. Three writers know that indirectly. The lifecycle's finally block looks at the
runtime evidence, so a running slot must have the evidence of its live process
(`RunningManaged`); a stop that settles trusts that what it signalled is dead and that no
launch took the slot since (`StopFindsDead`, `LockExcludesStop`); a launch publishes into a
slot that is still empty (`StartingSlotEmpty`). `StopIsReal` follows because a confirmed stop
finds no owner row. `NoOverlap` is `AtMostOneEffect` once `TurnsOrdered` says that a recorded
live process has the newest authorization: manual retry renews it only after it found no
owner alive and no launch under the lock. `SupersededStaysDown` needs that no
Task is completed while its launch is in flight (`LaunchNotCompleted`), and
`StaleLifecycleSilent` that a Task's slot holds no older lifecycle (`ClaimOfSlot`), since the
executing CAS does not compare the generation. `LiveWithinCap` needs no more than that every
recorded live process has a slot of its own which the reservation counts (`UsedWithinCap`).

**AskUser.** `OneCommitter` needs that a submission in flight holds the reservation of its
question (`Reserved`) and that a successful one left its answer in the future (`DoneByOk`,
`OkNeverRevoked`). `ClaimHeld` needs that unused identities are clean (`FreshClean`).
`RevokedIsStale` needs `SeenBehind`: what a submission read of the Task is at least as new
as the question it is for, so that a mismatch proves the question stale. Listings
have no such ordering, which is finding 2. Lemma `DiscardKeepsInv` treats all the places
that discard questions at once. The refinement needs all of this at its one hard step: when a
submission logs its answer, no other logged answer to the question may still be given, which is
`OneCommitter` and `OkNeverRevoked` with `AuditKept` (the audit trail holds the submissions that
got that far and no others).

**DirectMerge.** None of the safety properties is inductive. There are two inductive invariants.
`MergeInv` speaks of the rows and holds whether or not calls outlive their leases: `LeaseOwned`
(a lease is of an action under publication), `MergeSeen` (whoever speaks of a merge has seen it,
and merges are for ever), which gives `MergedIsTrue`, and `FreshHook` (a hook whose frozen
generation is still the run's does not end a run under review). `DirectInv` speaks of the
write at GitHub too and needs `~Overdue`: `WriterHolds` (whoever may still write holds the live
lease of an enqueuing action in an enabled repository) and `OwnSeen` (the holder has no
older read to act on). `OneWriter` and `StopIsFinal` follow from `WriterHolds`, since a lease
has one holder and nothing but that holder or time ends it; `OwnMergeKept` from `OwnSeen`.
`BudgetKept` rests on `BudgetInv`, inductive next to `MergeInv`: while there is no excuse, a claim
ends in its own record, and that record has read whether the effect is absent, so that a spent
budget withdraws the action and the next claim finds none; overdue calls do not matter.
The refinement shows, per action, that `Stage`, `landed` and `own` take a step of the contract or
stutter; `landed` changes only in `Land`, where `WriterHolds` gives the armed stage, and an own
merge meets only the settlement as merged, by `OwnMergeKept` and `MergeSeen`.

**Delivery.** `SnapshotIsCurrent` holds since everything that moves phase, cycle or head is done
by the lease holder, who then stops driving, or asks that nobody holds a lease.
`PublishedIsReviewed` follows along `ApprovalChain`, the way of an approval from the finished
review (`inv`) over the row of the run, through a failure and a retry too, to the
publishing controller, which may have lost its lease long ago.

The other four invariants of the loop are parts of `FlowInv`, each of which is inductive only
next to the others. `StepsInPlace`: the step a controller is at belongs to the phase it read,
so with `SnapshotIsCurrent` the holder of the lease decides in the phase the run is in.
`TurnOwned` strengthens `OneDeveloperTurn` with what a pause remembers, since a resume brings
the run back to the turn; it is why every decision outside coding finds the Task free.
`RowsFollow` closes cycle and outbox with the run; its clause that a run which failed while
monitored has a completed cycle is what keeps a retry from entering monitoring with a head
nobody pushed. `TreeOwned` counts turns: a commit by a controller whose lease is gone carries
the number of its turn, so it can move the tree only while a later turn is still coding, and
that turn's own commit then refuses the tree. `RemoteFollows` says that whatever GitHub and the
receipts tell was pushed by the run, which a controller that meets an existing request, or
a receipt of its predecessor, relies on. `SuccessChain` leads from the approved head over
the push, the announcement and the judgement of the PR Monitor to the success.

The refinement of `DeliveryContract` goes by the kinds of steps: those that leave the run row's
stage alone (`QuietImplements`), advances, setbacks, ends and retries. An advance needs the
approval chain and the push of the current head; a retry that it does not lead back to
watching, which is a clause of `RowsFollow`. `HeadsBehind` is for the steps that read no lease: a
review is asked for, and a commit made, by a controller that may have been fenced off long
ago, and still the head reviewed is one the run has had and the head recorded is the same or the
next one. It is inductive because the contract's own steps never take the head of a run back,
so that what a controller has read can only fall behind.
`EndedStaysEnded` and `ReviewedHeadStands` are then read off the contract.

**Only model-checked.** The liveness properties `ActiveSettles`, `RunningSlotReleased`,
`ClaimSettles`, `MergedIntentEnds` and `RunStops`: fairness and ENABLED are out of the
prover's reach, as is induction over data (nothing here needs it); and `NeverRecreated`. Every other
property of a passing run is a theorem. The inductive invariants were model-checked on the instances of the
safety runs before they were proved (`MergeInv` with `Overdue` too); they are not listed
there, since a theorem says more than the run.

## 8. Not modelled

The first four would be the next modules; each is a state machine of its own.

* **Message queue and PTY output.** Queued messages open further generations of a Task, a
  detached tail keeps one executing. They extend `TaskTurn` at its `Dequeue` and
  `ConsumerRelease`; the contract would be delivery exactly once and in order.
* **Capability waits and resume.** `Delivery` takes an invocation as a row with a status. The
  outbox that wakes a parked Task (claim, launch boundary, lease, cancel) is missing.
* **Worker relay.** Requests, receipts and acknowledgements between nodes, with loss and
  duplication, and the hand-off of a turn between them.
* **Automatic merge queue, review panels.** Refinements of steps that `Delivery` and `DirectMerge`
  take as one.
* **Termination with auxiliary sessions, monitors, harness fence, migration.** Each guards a
  step that `TaskTurn` takes with its guard open.
* **Account pools, app-server client, loop and goal modes.** Their outcome (a launch that is
  deferred, a process, one more turn) is in `TaskTurn`.
* **Update service, storage, REST presentation, frontend, migrations.** Input and output with
  little control state that another part depends on.

## 9. Running

    tlc -workers 2 -config TaskTurn_safety.cfg MCTaskTurn            # about two minutes
    tlc -workers 2 -config AskUser_safety.cfg MCAskUser              # under a minute
    tlc -workers 2 -config DirectMerge_safety.cfg MCDirectMerge      # about two minutes
    tlc -workers 2 -config DirectMerge_liveness.cfg MCDirectMerge    # about two minutes
    tlc -workers 2 -config Delivery_safety.cfg MCDelivery            # about a minute
    tlapm TaskTurnEffects_proofs.tla
    tlapm TaskTurnSlots_proofs.tla                                   # two minutes from nothing
    tlapm AskUser_proofs.tla
    tlapm DirectMerge_proofs.tla
    tlapm Delivery_proofs.tla
    tlapm DeliveryRun_proofs.tla                                     # four minutes from nothing
    tlapm DeliveryContract_proofs.tla
