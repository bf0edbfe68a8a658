------------------------------ MODULE Delivery ------------------------------
(***************************************************************************)
(* The autonomous delivery loop of one DeliveryRun:                        *)
(* services/delivery_controller.py drives it, the reducer of               *)
(* services/delivery_reducer.py gives the transitions, and                 *)
(* api/delivery_runs.py adds the commands of its users.  Plan, code, review *)
(* the code, publish the branch as a pull request, watch the PR Monitor;   *)
(* findings start the next cycle.                                          *)
(*                                                                         *)
(* Controllers are processes over one database.  A controller claims the   *)
(* run for a lease, reads it, performs effects outside every transaction   *)
(* (capabilities, Git, GitHub) and commits each decision in a transaction  *)
(* that asserts the lease again.  A step below is one transaction or one   *)
(* effect; between two of them the lease may run out, the process may die, *)
(* and everybody else may move.                                            *)
(*                                                                         *)
(* The policy has the frontend review off, so an approval goes straight to *)
(* publishing (delivery_controller.py 2283-2300).  wait_reason is a        *)
(* function of the phase and left out.                                     *)
(***************************************************************************)
EXTENDS Naturals, FiniteSets

CONSTANTS
    Controller,      \* processes that run a DeliveryController
    MaxCycles,       \* run.max_cycles, the cycle budget
    MaxNoProgress,   \* run.max_no_progress
    MaxFaults,       \* bound: crashes, lost leases, failed calls, requeues
    MaxCommands      \* bound: commands of users

ASSUME DeliveryAssumption ==
    /\ MaxCycles \in Nat \ {0} /\ MaxNoProgress \in Nat \ {0}
    /\ MaxFaults \in Nat /\ MaxCommands \in Nat
    /\ Controller # {} /\ Controller \cap {"none", "ghost"} = {}

VARIABLES
    run,      \* the DeliveryRun row
    lease,    \* lease_owner and whether lease_expires_at lies ahead
    cycle,    \* the current DeliveryCycle
    inv,      \* capability invocations, by capability and cycle number
    turn,     \* the last DeliveryTurn
    task,     \* the developer Task
    act,      \* the last DeliveryAction (the publication outbox)
    git,      \* the managed worktree
    remote,   \* on GitHub: the branch, whether somebody else moved it, and the
              \* pull request with the head it shows (frozen when it is closed)
    mon,      \* the bound PRMonitorRun
    ctl,      \* what each controller has read, and its next step
    faults, commands,
    approved, \* history: heads that an independent review approved
    pushed    \* history: heads that were pushed

rows == <<run, cycle, turn, task, act>>
outside == <<git, remote, mon, pushed>>
budgets == <<faults, commands>>
vars == <<rows, lease, inv, outside, ctl, budgets, approved>>

Capability == {"plan", "review"}
Phase == {"planning", "coding", "pre_review", "publishing", "monitoring"}
Activity == {"ready", "running", "waiting"}
Cycle == 1..MaxCycles
Handle == Capability \X Cycle
Head == 0..MaxCycles

\* _TASK_TERMINAL_STATUSES and _TASK_REUSABLE_STATUSES, the ones reached here.
Terminated == {"completed", "failed", "cancelled"}
Reusable == Terminated \cup {"delivery_waiting"}
Busy == {"pending", "executing"}
ActiveTurn == {"queued", "running"}                 \* DELIVERY_TURN_ACTIVE_STATUSES
ActiveAction == {"leased", "unknown"}               \* DELIVERY_ACTION_ACTIVE_STATUSES
ActiveCycle == {"planning", "coding", "pre_review", "publishing"}
Stopped == {"paused", "terminal"}

Idle == [pc |-> "idle", cycle |-> 0, phase |-> "done", activity |-> "terminal",
         head |-> 0, turn |-> 0, result |-> 0, fresh |-> FALSE]

NewRun == [phase |-> "planning", activity |-> "ready", from |-> "none",
           outcome |-> "none", failedIn |-> "none", overBudget |-> FALSE,
           cycles |-> 1, noProgress |-> 0, head |-> 0, bound |-> FALSE, turns |-> 0]

NewCycle(status) ==
    [status |-> status, plan |-> FALSE, result |-> FALSE, verdict |-> "none"]

Init ==
    /\ run = NewRun
    /\ lease = [owner |-> "none", live |-> FALSE]
    /\ cycle = NewCycle("planning")
    /\ inv = [h \in Handle |-> [status |-> "none", head |-> 0, verdict |-> "none"]]
    /\ turn = [status |-> "none", cycle |-> 0, before |-> 0, previous |-> 0, started |-> 0]
    /\ task = [status |-> "delivery_waiting", generation |-> 0, settled |-> TRUE,
               report |-> FALSE]
    /\ act = [status |-> "none", cycle |-> 0, head |-> 0, owner |-> "none",
              live |-> FALSE, receipt |-> "none"]
    /\ git = [head |-> 0, by |-> 0, dirty |-> FALSE]
    /\ remote = [head |-> 0, moved |-> FALSE, pr |-> "none", at |-> 0]
    /\ mon = [status |-> "none", head |-> 0]
    /\ ctl = [c \in Controller |-> Idle]
    /\ faults = 0 /\ commands = 0
    /\ approved = {} /\ pushed = {}

-----------------------------------------------------------------------------
(* The reducer and the service functions, on values. *)

Kind(phase) == IF phase = "planning" THEN "plan" ELSE "review"

\* One reducer event between active states (_active_state).
Moved(r, phase, activity) ==
    [r EXCEPT !.phase = phase, !.activity = activity, !.from = "none",
              !.outcome = "none", !.overBudget = FALSE]

\* _terminal_state, for a cancellation or a success.
Ended(r, outcome) ==
    [r EXCEPT !.phase = "done", !.activity = "terminal", !.from = "none",
              !.outcome = outcome]

\* The fail event; the DeliveryTransition keeps the phase it happened in.
Failed(r, overBudget) ==
    [Ended(r, "failed") EXCEPT !.failedIn = r.phase, !.overBudget = overBudget]

Paused == [run EXCEPT !.activity = "paused", !.from = run.activity]

\* Mutant of Closed: the cycle of an ended run stays active.
ClosedNot(status) == cycle

\* complete_cycle, where the code applies it to an active cycle only.
Closed(status) ==
    IF cycle.status \in ActiveCycle THEN [cycle EXCEPT !.status = status] ELSE cycle

\* start_next_cycle numbers the new cycle and makes it the current one.
NextCycle(r) == [r EXCEPT !.cycles = @ + 1]

\* _developer_task_settled_locked and the reusable statuses.
TaskFree == task.status \in Reusable /\ task.settled

ActiveHandle == {h \in Handle : inv[h].status \in {"queued", "ready"}}

-----------------------------------------------------------------------------
(* The lease of a controller. *)

\* Mutant of Holds: any live lease will do.
HoldsAny(c) == lease.live

\* _assert_lease: this owner, this generation, not expired.
Holds(c) == lease.owner = c /\ lease.live

\* What every transaction of a drive rechecks under the row lock.
Current(c) ==
    /\ Holds(c)
    /\ run.phase = ctl[c].phase /\ run.activity = ctl[c].activity
    /\ run.cycles = ctl[c].cycle

At(c, pc) == ctl[c].pc = pc
In(c, phase, activity) ==
    At(c, "drive") /\ ctl[c].phase = phase /\ ctl[c].activity = activity
Goto(c, pc) == ctl' = [ctl EXCEPT ![c].pc = pc]

\* Mutant of Claim: an expired lease is not taken over.
ClaimFree(c) ==
    /\ At(c, "idle")
    /\ run.activity \notin Stopped
    /\ lease.owner = "none"
    /\ lease' = [owner |-> c, live |-> TRUE]
    /\ ctl' = [ctl EXCEPT ![c] =
                  [pc |-> "drive", cycle |-> run.cycles, phase |-> run.phase,
                   activity |-> run.activity, head |-> run.head, turn |-> run.turns,
                   result |-> 0, fresh |-> FALSE]]
    /\ UNCHANGED <<rows, inv, outside, budgets, approved>>

\* _claim_run and _context: paused and terminal runs are never claimed.
Claim(c) ==
    /\ At(c, "idle")
    /\ run.activity \notin Stopped
    /\ lease.owner \in {"none", c} \/ ~lease.live
    /\ lease' = [owner |-> c, live |-> TRUE]
    /\ ctl' = [ctl EXCEPT ![c] =
                  [pc |-> "drive", cycle |-> run.cycles, phase |-> run.phase,
                   activity |-> run.activity, head |-> run.head, turn |-> run.turns,
                   result |-> 0, fresh |-> FALSE]]
    /\ UNCHANGED <<rows, inv, outside, budgets, approved>>

\* _release_run clears only an own lease that has not expired.
Release(c) ==
    /\ At(c, "release")
    /\ lease' = IF Holds(c) THEN [owner |-> "none", live |-> FALSE] ELSE lease
    /\ ctl' = [ctl EXCEPT ![c] = Idle]
    /\ UNCHANGED <<rows, inv, outside, budgets, approved>>

\* A transaction without the lease raises, or the heartbeat cancels the drive.
LeaseLost(c) ==
    /\ ~At(c, "idle") /\ ~At(c, "release") /\ ~Holds(c)
    /\ Goto(c, "release")
    /\ UNCHANGED <<rows, lease, inv, outside, budgets, approved>>

\* _pause_run, after a DeliverySubjectChanged or a capability conflict.
PauseRun(c) ==
    /\ At(c, "pause") /\ Holds(c)
    /\ run' = IF run.activity \in Stopped THEN run ELSE Paused
    /\ Goto(c, "release")
    /\ UNCHANGED <<cycle, turn, task, act, lease, inv, outside, budgets, approved>>

\* _fail_run: only a settled, reusable developer Task lets the run fail (it is
\* one outside coding: OneDeveloperTurn in DeliveryProps; the same holds for
\* the other decisions below that ask for TaskFree).
FailRun(c) ==
    /\ At(c, "fail") /\ Holds(c) /\ TaskFree
    /\ run' = Failed(run, FALSE)
    /\ cycle' = Closed("failed")
    /\ task' = [task EXCEPT !.status = "failed"]
    /\ Goto(c, "release")
    /\ UNCHANGED <<turn, act, lease, inv, outside, budgets, approved>>

-----------------------------------------------------------------------------
(* Planning and code review: a required capability, bound to the cycle. *)

\* _ensure_workspace compares the worktree with the run in its transaction.
EnsureWorkspace(c) ==
    /\ In(c, "planning", "ready") /\ Holds(c)
    /\ Goto(c, IF git.head = run.head THEN "request" ELSE "pause")
    /\ UNCHANGED <<rows, lease, inv, outside, budgets, approved>>

RequestReview(c) ==
    /\ In(c, "pre_review", "ready")
    /\ Goto(c, "request")
    /\ UNCHANGED <<rows, lease, inv, outside, budgets, approved>>

\* create_controller_invocation: idempotent by cycle number, one active
\* invocation per Task, and no look at the lease of its caller.
CreateInvocation(c) ==
    LET h == <<Kind(ctl[c].phase), ctl[c].cycle>> IN
    /\ At(c, "request")
    /\ IF inv[h].status = "none" /\ ActiveHandle = {}
       THEN inv' = [inv EXCEPT ![h] = [status |-> "queued", head |-> ctl[c].head,
                                       verdict |-> "none"]]
       ELSE UNCHANGED inv
    /\ Goto(c, IF inv[h].status = "none" /\ ActiveHandle # {} THEN "pause" ELSE "bind")
    /\ UNCHANGED <<rows, lease, outside, budgets, approved>>

BindInvocation(c) ==
    /\ At(c, "bind") /\ Current(c)
    /\ run' = Moved(run, run.phase, "waiting")
    /\ Goto(c, "release")
    /\ UNCHANGED <<cycle, turn, task, act, lease, inv, outside, budgets, approved>>

Observe(c) ==
    LET i == inv[<<Kind(ctl[c].phase), ctl[c].cycle>>]
        sameSubject == ctl[c].phase = "pre_review" => i.head = ctl[c].head
    IN
    /\ In(c, "planning", "waiting") \/ In(c, "pre_review", "waiting")
    /\ Goto(c, CASE i.status = "none" -> "pause"
                 [] i.status = "queued" -> "release"
                 [] i.status = "failed" -> "fail"
                 [] i.status = "ready" -> IF sameSubject THEN "consume" ELSE "pause"
                 [] i.status = "completed" -> IF sameSubject THEN "accept" ELSE "pause")
    /\ UNCHANGED <<rows, lease, inv, outside, budgets, approved>>

\* consume_ready_invocation gives the Task's capability slot free.
Consume(c) ==
    LET h == <<Kind(ctl[c].phase), ctl[c].cycle>> IN
    /\ At(c, "consume")
    /\ inv' = [inv EXCEPT ![h].status = "completed"]
    /\ Goto(c, "accept")
    /\ UNCHANGED <<rows, lease, outside, budgets, approved>>

PlanReady(c) ==
    /\ At(c, "accept") /\ ctl[c].phase = "planning" /\ Current(c)
    /\ run' = Moved(run, "coding", "ready")
    /\ cycle' = [cycle EXCEPT !.plan = TRUE, !.status = "coding"]
    /\ Goto(c, "release")
    /\ UNCHANGED <<turn, task, act, lease, inv, outside, budgets, approved>>

\* Mutant of Verdict: a finished review counts as an approval.
VerdictDone(c) == "approved"

Verdict(c) == inv[<<"review", ctl[c].cycle>>].verdict

\* The approval and the skipped frontend review are one transaction.
ReviewApproved(c) ==
    /\ At(c, "accept") /\ ctl[c].phase = "pre_review" /\ Current(c)
    /\ run.head = ctl[c].head
    /\ Verdict(c) = "approved"
    /\ run' = Moved(run, "publishing", "ready")
    /\ cycle' = [cycle EXCEPT !.verdict = "approved", !.status = "publishing"]
    /\ Goto(c, "release")
    /\ UNCHANGED <<turn, task, act, lease, inv, outside, budgets, approved>>

\* Mutant of ReviewRejected: the cycle budget is not checked.
ReviewRejectedOn(c) ==
    /\ At(c, "accept") /\ ctl[c].phase = "pre_review" /\ Current(c)
    /\ Verdict(c) = "changes_requested"
    /\ run' = NextCycle(Moved(run, "planning", "ready"))
    /\ cycle' = NewCycle("planning")
    /\ Goto(c, "release")
    /\ UNCHANGED <<turn, task, act, lease, inv, outside, budgets, approved>>

\* Findings and a spent budget need the Task; findings alone start a cycle.
ReviewRejected(c) ==
    /\ At(c, "accept") /\ ctl[c].phase = "pre_review" /\ Current(c)
    /\ run.head = ctl[c].head
    /\ Verdict(c) = "changes_requested"
    /\ IF run.cycles >= MaxCycles
       THEN /\ TaskFree
            /\ run' = Failed(run, TRUE)
            /\ cycle' = [cycle EXCEPT !.verdict = "changes_requested", !.status = "failed"]
            /\ task' = [task EXCEPT !.status = "failed"]
       ELSE /\ run' = NextCycle(Moved(run, "planning", "ready"))
            /\ cycle' = NewCycle("planning")
            /\ UNCHANGED task
    /\ Goto(c, "release")
    /\ UNCHANGED <<turn, act, lease, inv, outside, budgets, approved>>

-----------------------------------------------------------------------------
(* Coding: one admitted turn of the developer Task. *)

\* _dispatch_code_turn.  Its other branches (the turn is active already, the
\* Task is not settled) are out of reach: OneDeveloperTurn in DeliveryProps.
DispatchTurn(c) ==
    /\ In(c, "coding", "ready") /\ Current(c)
    /\ cycle.plan /\ turn.status \notin ActiveTurn /\ TaskFree
    /\ run' = [Moved(run, "coding", "running") EXCEPT !.turns = @ + 1]
    /\ turn' = [status |-> "queued", cycle |-> run.cycles, before |-> run.head,
                previous |-> task.generation, started |-> 0]
    /\ task' = [task EXCEPT !.status = "pending", !.report = FALSE]
    /\ cycle' = [cycle EXCEPT !.status = "coding"]
    /\ Goto(c, "release")
    /\ UNCHANGED <<act, lease, inv, outside, budgets, approved>>

\* Timestamps of the Task tell which turn an execution belongs to.
ForeignExecution ==
    IF turn.started # 0 THEN turn.started # task.generation
                        ELSE turn.previous = task.generation

\* _observe_code_turn while the Task is pending or executing.
ObserveBusyTurn(c) ==
    /\ In(c, "coding", "running") /\ Holds(c)
    /\ task.status \in Busy
    /\ \/ /\ task.status = "pending" /\ turn.status = "queued"
          /\ Goto(c, "release") /\ UNCHANGED turn
       \/ /\ task.status = "pending" /\ turn.status = "running"
          /\ Goto(c, "pause") /\ UNCHANGED turn
       \/ /\ task.status = "executing"
          /\ turn.started # 0 /\ turn.started # task.generation
          /\ Goto(c, "pause") /\ UNCHANGED turn
       \/ /\ task.status = "executing" /\ turn.started \in {0, task.generation}
          /\ turn' = [turn EXCEPT !.status = "running", !.started = task.generation]
          /\ Goto(c, "release")
    /\ UNCHANGED <<run, cycle, task, act, lease, inv, outside, budgets, approved>>

\* The terminal Task of a turn; a failed one fails the run.
ObserveEndedTurn(c) ==
    /\ In(c, "coding", "running") /\ Holds(c)
    /\ task.status \in Terminated
    /\ \/ /\ ~task.settled
          /\ Goto(c, "release") /\ UNCHANGED <<run, cycle, turn>>
       \/ /\ task.settled /\ ForeignExecution
          /\ Goto(c, "pause") /\ UNCHANGED <<run, cycle, turn>>
       \/ /\ task.settled /\ ~ForeignExecution /\ task.status = "completed"
          /\ Goto(c, "commit") /\ UNCHANGED <<run, cycle, turn>>
       \/ /\ task.settled /\ ~ForeignExecution /\ task.status # "completed"
          /\ turn' = [turn EXCEPT !.status = "failed"]
          /\ run' = Failed(run, FALSE)
          /\ cycle' = [cycle EXCEPT !.status = "failed"]
          /\ Goto(c, "release")
    /\ UNCHANGED <<task, act, lease, inv, outside, budgets, approved>>

\* commit_changes: commit the tree on top of the expected head, or recognise
\* the one commit that it made itself for this turn.  No lease is read.
CommitChanges(c) ==
    LET ours == git.head = ctl[c].head + 1 /\ git.by = ctl[c].turn IN
    /\ At(c, "commit")
    /\ \/ /\ git.head = ctl[c].head
          /\ git' = IF git.dirty THEN [head |-> git.head + 1, by |-> ctl[c].turn,
                                       dirty |-> FALSE]
                                 ELSE git
          /\ ctl' = [ctl EXCEPT ![c].pc = "finish", ![c].result = git'.head]
       \/ /\ git.head # ctl[c].head /\ ours
          /\ ctl' = [ctl EXCEPT ![c].pc = "finish", ![c].result = git.head]
          /\ UNCHANGED git
       \/ /\ git.head # ctl[c].head /\ ~ours
          /\ Goto(c, "pause") /\ UNCHANGED git
    /\ UNCHANGED <<rows, lease, inv, remote, mon, pushed, budgets, approved>>

\* Mutant of Counted: the new head is not recorded.
CountedOnly(c, idle) == [run EXCEPT !.noProgress = idle]

\* What every completed turn writes on the run.
Counted(c, idle) == [run EXCEPT !.noProgress = idle, !.head = ctl[c].result]

\* _finalize_completed_turn: progress, a finished report, or nothing done.
\* LogEntry.task_turn_generation counts the claims of the Task, the turn's
\* generation counts the turns of the run.
FinishTurn(c) ==
    LET progressed == ctl[c].result # turn.before
        heard == ~progressed /\ task.report /\ task.generation = run.turns
        idle == IF progressed \/ heard THEN 0 ELSE run.noProgress + 1
        counted == Counted(c, idle)
        done == [cycle EXCEPT !.result = TRUE]
        exhausted == idle >= MaxNoProgress \/ run.cycles >= MaxCycles
    IN
    /\ At(c, "finish") /\ Current(c)
    /\ turn.status \in ActiveTurn /\ task.status = "completed" /\ task.settled
    /\ run.head = turn.before
    /\ turn' = [turn EXCEPT !.status = "completed"]
    /\ \/ /\ progressed
          /\ run' = Moved(counted, "pre_review", "ready")
          /\ cycle' = [done EXCEPT !.status = "pre_review"]
          /\ task' = [task EXCEPT !.status = "delivery_waiting"]
       \/ /\ heard
          /\ run' = Ended(counted, "success")
          /\ cycle' = [done EXCEPT !.status = "completed"]
          /\ UNCHANGED task
       \/ /\ ~progressed /\ ~heard /\ exhausted
          /\ run' = Failed(counted, idle < MaxNoProgress)
          /\ cycle' = [done EXCEPT !.status = "failed"]
          /\ task' = [task EXCEPT !.status = "failed"]
       \/ /\ ~progressed /\ ~heard /\ ~exhausted
          /\ run' = NextCycle(Moved(counted, "coding", "ready"))
          /\ cycle' = [NewCycle("coding") EXCEPT !.plan = TRUE]
          /\ task' = [task EXCEPT !.status = "delivery_waiting"]
    /\ Goto(c, "release")
    /\ UNCHANGED <<act, lease, inv, outside, budgets, approved>>

-----------------------------------------------------------------------------
(* Publishing: the outbox action, the push, the pull request, the binding. *)

\* The receipt of an action, its result column, outlives its lease.
LeaseAction(c, receipt) ==
    [status |-> "leased", cycle |-> run.cycles, head |-> run.head, owner |-> c,
     live |-> TRUE, receipt |-> receipt]

\* _assert_action_lease and the publisher's _assert_effect_fence.
Fenced(c) ==
    /\ Current(c)
    /\ act.status = "leased" /\ act.owner = c /\ act.live
    /\ act.cycle = run.cycles /\ act.head = run.head

\* An ambiguous history is read once more for a run that is bound to its pull
\* request; anything else that is unresolved waits for an operator.
Unresolved ==
    \/ act.receipt = "unresolved"
    \/ act.receipt = "ambiguous" /\ ~(run.bound /\ act.status \in ActiveAction)
Refusal == act.receipt = "conflict" \/ (Unresolved /\ ~run.bound)

\* _drive_publishing inspects the worktree, then stages or claims the action:
\* by head alone, and its receipt is read before its status.
StagePublish(c) ==
    LET exists == act.status # "none" /\ act.head = run.head
        exact == exists /\ act.cycle = run.cycles
        subjectChanged ==
            git.head # run.head \/ (exists /\ ~exact)
            \/ (exact /\ Unresolved /\ run.bound)
        leasable == act.status = "unknown" \/ (act.status = "leased" /\ ~act.live)
        receipt == IF exact THEN act.receipt ELSE "none"
    IN
    /\ At(c, "drive") /\ ctl[c].phase = "publishing" /\ Current(c)
    /\ \/ /\ ~subjectChanged
          /\ ~exists \/ (~Refusal /\ leasable)
          /\ act' = LeaseAction(c, receipt)
          /\ run' = Moved(run, "publishing", "running")
          /\ ctl' = [ctl EXCEPT ![c].pc = IF receipt = "published" THEN "attach" ELSE "publish",
                                ![c].activity = "running"]
       \/ /\ subjectChanged
          /\ Goto(c, "pause") /\ UNCHANGED <<run, act>>
       \/ /\ ~subjectChanged /\ exact /\ ~Refusal /\ act.status = "leased" /\ act.live
          /\ Goto(c, "release") /\ UNCHANGED <<run, act>>
       \/ /\ ~subjectChanged /\ exact /\ (Refusal \/ act.status = "failed")
          /\ act' = [act EXCEPT !.status = "failed", !.owner = "none", !.live = FALSE]
          /\ Goto(c, "fail") /\ UNCHANGED run
    /\ UNCHANGED <<cycle, turn, task, lease, inv, outside, budgets, approved>>

\* What GitHub shows: the branch at the head of the drive, the pull request at
\* that head, and one that is at another head than it may be.
BranchAt(c) == remote.head = ctl[c].head /\ ~remote.moved
ShowsHead(c) == remote.at = ctl[c].head /\ ~remote.moved
Stale(c) ==
    /\ remote.pr # "none" /\ ~ShowsHead(c)
    /\ remote.pr = "open" => ~run.bound

\* _record_terminal_pull_request_conflict: a closed pull request is bound; a
\* history that is no proof leaves the run as it is.
RecordConflict(c) ==
    /\ act' = [act EXCEPT !.receipt = "conflict"]
    /\ run' = [run EXCEPT !.bound = TRUE]
    /\ Goto(c, "unknown")

RecordUnclear(c, receipt) ==
    /\ act' = [act EXCEPT !.receipt = receipt]
    /\ Goto(c, "unknown") /\ UNCHANGED run

RecordAmbiguous(c) ==
    RecordUnclear(c, IF act.receipt = "ambiguous" THEN "unresolved" ELSE "ambiguous")

GoOn(c, pc) == Goto(c, pc) /\ UNCHANGED <<run, act>>

\* The history of the branch, read before the last fence of the push.  After a
\* durable create intent only reconciliation may follow.
FencePush(c) ==
    /\ At(c, "publish") /\ Fenced(c)
    /\ \/ remote.pr = "closed" /\ ShowsHead(c) /\ RecordConflict(c)
       \/ Stale(c) /\ RecordAmbiguous(c)
       \/ remote.pr = "open" /\ ShowsHead(c) /\ GoOn(c, "announce")
       \/ remote.pr = "open" /\ ~ShowsHead(c) /\ run.bound /\ GoOn(c, "push")
       \/ remote.pr = "none" /\ act.receipt = "intent" /\ RecordUnclear(c, "unresolved")
       \/ remote.pr = "none" /\ act.receipt # "intent" /\ GoOn(c, "push")
    /\ UNCHANGED <<cycle, turn, task, lease, inv, outside, budgets, approved>>

\* The branch of an open pull request takes it along.
Advanced(h) == [remote EXCEPT !.head = h, !.at = IF remote.pr = "open" THEN h ELSE @]

\* Mutant of Push: what the worktree holds.
PushWorktree(c) ==
    /\ At(c, "push")
    /\ remote' = Advanced(git.head)
    /\ pushed' = pushed \cup {git.head}
    /\ Goto(c, "open")
    /\ UNCHANGED <<rows, lease, inv, git, mon, budgets, approved>>

\* push_exact never forces: a head that is no descendant is refused.
Push(c) ==
    /\ At(c, "push")
    /\ \/ /\ remote.head <= ctl[c].head /\ ~remote.moved
          /\ remote' = Advanced(ctl[c].head)
          /\ pushed' = pushed \cup {ctl[c].head}
          /\ Goto(c, "open")
       \/ /\ remote.head > ctl[c].head \/ remote.moved
          /\ Goto(c, "reject") /\ UNCHANGED <<remote, pushed>>
    /\ UNCHANGED <<rows, lease, inv, git, mon, budgets, approved>>

\* Mutant of OpenPullRequest: no intent is recorded before the creation.
OpenUnintended(c) ==
    /\ At(c, "open") /\ Fenced(c)
    /\ \/ ~BranchAt(c) /\ GoOn(c, "changed")
       \/ BranchAt(c) /\ remote.pr = "open" /\ GoOn(c, "announce")
       \/ BranchAt(c) /\ remote.pr = "none" /\ GoOn(c, "create")
    /\ UNCHANGED <<cycle, turn, task, lease, inv, outside, budgets, approved>>

\* Query again before the creation, whose intent is committed first.
OpenPullRequest(c) ==
    /\ At(c, "open") /\ Fenced(c)
    /\ \/ ~BranchAt(c) /\ GoOn(c, "changed")
       \/ BranchAt(c) /\ remote.pr = "closed" /\ ShowsHead(c) /\ RecordConflict(c)
       \/ BranchAt(c) /\ Stale(c) /\ RecordAmbiguous(c)
       \/ BranchAt(c) /\ remote.pr = "open" /\ ShowsHead(c) /\ GoOn(c, "announce")
       \/ /\ BranchAt(c) /\ remote.pr = "none"
          /\ act' = [act EXCEPT !.receipt = "intent"]
          /\ Goto(c, "create") /\ UNCHANGED run
    /\ UNCHANGED <<cycle, turn, task, lease, inv, outside, budgets, approved>>

\* create_pull_request.  A response with another head is no proof; a call that
\* fails may have been processed.
CreatePullRequest(c) ==
    LET opened == [remote EXCEPT !.pr = "open", !.at = remote.head] IN
    /\ At(c, "create")
    /\ \/ /\ remote' = opened
          /\ Goto(c, IF BranchAt(c) THEN "announce" ELSE "unknown")
          /\ UNCHANGED budgets
       \/ /\ faults < MaxFaults /\ faults' = faults + 1 /\ UNCHANGED commands
          /\ remote' \in {remote, opened}
          /\ Goto(c, "recover")
    /\ UNCHANGED <<rows, lease, inv, git, mon, pushed, approved>>

\* Reconcile after the failed call: one that fails as well, or finds nothing
\* certain, forbids a replacement.
Recover(c) ==
    /\ At(c, "recover") /\ Fenced(c)
    /\ \/ BranchAt(c) /\ remote.pr = "open" /\ ShowsHead(c) /\ GoOn(c, "announce")
       \/ BranchAt(c) /\ remote.pr = "closed" /\ ShowsHead(c) /\ RecordConflict(c)
       \/ RecordUnclear(c, "unresolved")
    /\ UNCHANGED <<cycle, turn, task, lease, inv, outside, budgets, approved>>

\* The last look at the branch, after a creation at the pull request as well;
\* then the receipt binds it to the run.
RecordReceipt(c) ==
    /\ At(c, "announce") /\ Fenced(c)
    /\ \/ ~BranchAt(c) /\ GoOn(c, "changed")
       \/ /\ BranchAt(c) /\ act.receipt = "intent"
          /\ remote.pr = "closed" /\ ShowsHead(c) /\ RecordConflict(c)
       \/ /\ BranchAt(c)
          /\ act' = [act EXCEPT !.receipt = "published"]
          /\ run' = [run EXCEPT !.bound = TRUE]
          /\ Goto(c, "attach")
    /\ UNCHANGED <<cycle, turn, task, lease, inv, outside, budgets, approved>>

\* ensure_monitor reads branch and pull request; _finalize_publish_action.
BindPullRequest(c) ==
    /\ At(c, "attach") /\ Fenced(c)
    /\ \/ /\ BranchAt(c) /\ remote.pr = "open"
          /\ act' = [act EXCEPT !.status = "succeeded", !.owner = "none", !.live = FALSE]
          /\ run' = [Moved(run, "monitoring", "waiting") EXCEPT !.bound = TRUE]
          /\ cycle' = [cycle EXCEPT !.status = "completed"]
          /\ mon' = [status |-> "watching", head |-> ctl[c].head]
          /\ Goto(c, "release")
       \/ /\ BranchAt(c) /\ remote.pr # "open"
          /\ Goto(c, "reject") /\ UNCHANGED <<act, run, cycle, mon>>
       \/ /\ ~BranchAt(c)
          /\ Goto(c, "changed") /\ UNCHANGED <<act, run, cycle, mon>>
    /\ UNCHANGED <<turn, task, lease, inv, git, remote, pushed, budgets, approved>>

\* _mark_action_unknown keeps the active slot for the next owner; a changed
\* subject pauses the run as well.
MarkUnknown(c) ==
    /\ At(c, "unknown") \/ At(c, "changed")
    /\ Fenced(c)
    /\ act' = [act EXCEPT !.status = "unknown", !.owner = "none", !.live = FALSE]
    /\ Goto(c, IF At(c, "changed") THEN "pause" ELSE "release")
    /\ UNCHANGED <<run, cycle, turn, task, lease, inv, outside, budgets, approved>>

\* _mark_action_failed after a preflight that proves there was no effect.
MarkFailed(c) ==
    /\ At(c, "reject") /\ Fenced(c)
    /\ act' = [act EXCEPT !.status = "failed", !.owner = "none", !.live = FALSE]
    /\ Goto(c, "fail")
    /\ UNCHANGED <<run, cycle, turn, task, lease, inv, outside, budgets, approved>>

-----------------------------------------------------------------------------
(* Monitoring: one decision on the state of the PR Monitor. *)

Watch(c) ==
    /\ In(c, "monitoring", "waiting") /\ Holds(c)
    /\ mon.status \notin {"blocked", "error"}
    /\ ctl' = [ctl EXCEPT ![c].fresh = TRUE,
                          ![c].pc = IF mon.head # ctl[c].head THEN "pause"
                                    ELSE CASE mon.status = "watching" -> "release"
                                           [] mon.status = "ready" -> "verify"
                                           [] mon.status = "paused" -> "pause"
                                           [] OTHER -> "fail"]
    /\ UNCHANGED <<rows, lease, inv, outside, budgets, approved>>

\* verify_ready_to_merge or verify_merged passed, the monitor is unchanged.
CompleteRun(c) ==
    /\ At(c, "verify") /\ Current(c)
    /\ \/ /\ ctl[c].fresh /\ TaskFree
          /\ run' = Ended(run, "success")
          /\ task' = [task EXCEPT !.status = "completed"]
          /\ Goto(c, "release")
       \/ /\ ~ctl[c].fresh
          /\ Goto(c, "pause") /\ UNCHANGED <<run, task>>
    /\ UNCHANGED <<cycle, turn, act, lease, inv, outside, budgets, approved>>

\* A repair is wanted: the next cycle, or the end of the budget.
MonitorBlocked(c) ==
    /\ In(c, "monitoring", "waiting") /\ Current(c)
    /\ mon.status = "blocked" /\ mon.head = run.head
    /\ IF run.cycles >= MaxCycles
       THEN /\ TaskFree
            /\ run' = Failed(run, TRUE)
            /\ task' = [task EXCEPT !.status = "failed"]
            /\ UNCHANGED cycle
       ELSE /\ run' = NextCycle(Moved(run, "planning", "ready"))
            /\ cycle' = NewCycle("planning")
            /\ UNCHANGED task
    /\ Goto(c, "release")
    /\ UNCHANGED <<turn, act, lease, inv, outside, budgets, approved>>

\* _fail_current_review_error.
ReviewError(c) ==
    /\ In(c, "monitoring", "waiting") /\ Current(c)
    /\ mon.status = "error" /\ mon.head = run.head
    /\ TaskFree
    /\ run' = Failed(run, FALSE)
    /\ cycle' = Closed("failed")
    /\ task' = [task EXCEPT !.status = "failed"]
    /\ Goto(c, "release")
    /\ UNCHANGED <<turn, act, lease, inv, outside, budgets, approved>>

-----------------------------------------------------------------------------
(* Faults of a drive: nothing is durable but what was committed. *)

Fault == faults < MaxFaults /\ faults' = faults + 1 /\ UNCHANGED commands

\* An unexpected exception is logged and the lease released; one during the
\* publication marks the action unknown first.
DriveFails(c) ==
    /\ Fault
    /\ \/ /\ ctl[c].pc \in {"drive", "request", "bind", "consume", "accept", "commit",
                            "finish", "verify", "pause", "fail"}
          /\ Goto(c, "release")
       \/ /\ ctl[c].pc \in {"publish", "push", "open", "announce", "attach"}
          /\ Goto(c, "unknown")
    /\ UNCHANGED <<rows, lease, inv, outside, approved>>

\* A refusal that proves nothing happened: the capability is not available,
\* or a preflight of the publication fails.
Refused(c) ==
    /\ Fault
    /\ \/ At(c, "request") /\ Goto(c, "fail")
       \/ ctl[c].pc \in {"publish", "push", "attach"} /\ Goto(c, "reject")
    /\ UNCHANGED <<rows, lease, inv, outside, approved>>

\* owner_id is drawn anew by every process: nobody owns the lease of a dead one.
Crash(c) ==
    /\ Fault
    /\ ~At(c, "idle")
    /\ ctl' = [ctl EXCEPT ![c] = Idle]
    /\ lease' = IF lease.owner = c THEN [lease EXCEPT !.owner = "ghost"] ELSE lease
    /\ UNCHANGED <<rows, inv, outside, approved>>

\* lease_expires_at passes: of a dead owner always, of a live one when its
\* heartbeat could not renew in time.
GhostExpires ==
    /\ lease.owner = "ghost" /\ lease.live
    /\ lease' = [lease EXCEPT !.live = FALSE]
    /\ UNCHANGED <<rows, inv, outside, ctl, budgets, approved>>

HeartbeatLate ==
    /\ Fault
    /\ lease.owner \in Controller /\ lease.live
    /\ lease' = [lease EXCEPT !.live = FALSE]
    /\ UNCHANGED <<rows, inv, outside, ctl, approved>>

\* The action lease is longer and renewed with the run lease.
ActionExpires ==
    /\ act.status = "leased" /\ act.live
    /\ ~(Holds(act.owner)
         /\ ctl[act.owner].pc \in {"publish", "push", "open", "create", "recover", "announce",
                                   "attach", "unknown", "changed", "reject"})
    /\ act' = [act EXCEPT !.live = FALSE]
    /\ UNCHANGED <<run, cycle, turn, task, lease, inv, outside, ctl, budgets, approved>>

-----------------------------------------------------------------------------
(* Commands of users, each under the row lock of the run. *)

Command == commands < MaxCommands /\ commands' = commands + 1 /\ UNCHANGED faults

\* Mutant of MayStop: a running turn does not count.
MayStopRunning ==
    /\ lease.owner = "none"
    /\ run.activity \notin Stopped
    /\ run.phase \notin {"publishing", "monitoring"} /\ ~run.bound
    /\ ActiveHandle = {}
    /\ act.status \notin ActiveAction

\* _require_command_safe_state for pause and cancel.
MayStop ==
    /\ lease.owner = "none"
    /\ run.activity = "ready"
    /\ run.phase \notin {"publishing", "monitoring"} /\ ~run.bound
    /\ ActiveHandle = {}
    /\ act.status \notin ActiveAction

PauseByUser ==
    /\ Command /\ MayStop
    /\ run' = Paused
    /\ UNCHANGED <<cycle, turn, task, act, lease, inv, outside, ctl, approved>>

CancelByUser ==
    /\ Command /\ MayStop
    /\ run' = Ended(run, "cancelled")
    /\ cycle' = Closed("cancelled")
    /\ task' = IF task.status = "delivery_waiting"
               THEN [task EXCEPT !.status = "cancelled"] ELSE task
    /\ UNCHANGED <<turn, act, lease, inv, outside, ctl, approved>>

ResumeByUser ==
    /\ Command
    /\ lease.owner = "none" /\ run.activity = "paused"
    /\ run' = [run EXCEPT !.activity = run.from, !.from = "none"]
    /\ UNCHANGED <<cycle, turn, task, act, lease, inv, outside, ctl, approved>>

\* _retry_available: what the response offers as an allowed action.
RetryOffered ==
    /\ run.activity = "terminal" /\ run.outcome = "failed"
    /\ lease.owner = "none"
    /\ run.cycles < MaxCycles /\ ~run.overBudget
    /\ ActiveHandle = {}
    /\ act.status \notin ActiveAction

\* _copy_retry_evidence refuses a stage whose input is missing.
Evidence ==
    /\ run.failedIn # "planning" => cycle.plan
    /\ run.failedIn \in {"pre_review", "publishing", "monitoring"} => cycle.result
    /\ run.failedIn \in {"publishing", "monitoring"} => cycle.verdict = "approved"
    /\ run.failedIn = "monitoring" => run.bound

\* Mutant of RetryAdmitted: a cycle that was completed can be retried too.
RetryAdmittedAgain ==
    /\ RetryOffered
    /\ turn.status \notin ActiveTurn
    /\ TaskFree
    /\ Evidence

\* retry_failed_run: the conditions checked after the offer.
RetryAdmitted ==
    /\ RetryOffered
    /\ cycle.status = "failed"
    /\ turn.status \notin ActiveTurn
    /\ TaskFree
    /\ Evidence

RetryByUser ==
    /\ Command
    /\ RetryAdmitted
    /\ run' = NextCycle(Moved(run, run.failedIn,
                              IF run.failedIn = "monitoring" THEN "waiting" ELSE "ready"))
    /\ cycle' = [cycle EXCEPT !.status = IF run.failedIn = "monitoring"
                                         THEN "publishing" ELSE run.failedIn]
    /\ task' = [task EXCEPT !.status = "delivery_waiting"]
    /\ UNCHANGED <<turn, act, lease, inv, outside, ctl, approved>>

-----------------------------------------------------------------------------
(* The parts of the program around the run. *)

CapabilityEnds(h) ==
    /\ inv[h].status = "queued"
    /\ \E v \in IF h[1] = "plan" THEN {"none"} ELSE {"approved", "changes_requested"} :
         /\ inv' = [inv EXCEPT ![h].status = "ready", ![h].verdict = v]
         /\ approved' = IF v = "approved" THEN approved \cup {inv[h].head} ELSE approved
    /\ UNCHANGED <<rows, lease, outside, ctl, budgets>>

CapabilityFails(h) ==
    /\ Fault
    /\ inv[h].status = "queued"
    /\ inv' = [inv EXCEPT ![h].status = "failed"]
    /\ UNCHANGED <<rows, lease, outside, ctl, approved>>

\* The queue dispatches the Task for an active turn of a coding/running run.
DeveloperStarts ==
    /\ task.status = "pending"
    /\ turn.status \in ActiveTurn
    /\ run.phase = "coding" /\ run.activity = "running"
    /\ task' = [task EXCEPT !.status = "executing", !.generation = @ + 1, !.report = FALSE]
    /\ UNCHANGED <<run, cycle, turn, act, lease, inv, outside, ctl, budgets, approved>>

DeveloperWrites ==
    /\ task.status = "executing" /\ ~git.dirty
    /\ git' = [git EXCEPT !.dirty = TRUE]
    /\ UNCHANGED <<rows, lease, inv, remote, mon, pushed, ctl, budgets, approved>>

DeveloperEnds ==
    /\ task.status = "executing"
    /\ \E s \in {"completed", "failed"}, r \in BOOLEAN :
         task' = [task EXCEPT !.status = s, !.settled = FALSE,
                              !.report = r /\ s = "completed"]
    /\ UNCHANGED <<run, cycle, turn, act, lease, inv, outside, ctl, budgets, approved>>

OwnerReleased ==
    /\ ~task.settled
    /\ task' = [task EXCEPT !.settled = TRUE]
    /\ UNCHANGED <<run, cycle, turn, act, lease, inv, outside, ctl, budgets, approved>>

\* The dispatcher takes an unlaunched turn back (TaskTurn.tla).
Requeue ==
    /\ Fault
    /\ task.status = "executing"
    /\ task' = [task EXCEPT !.status = "pending"]
    /\ UNCHANGED <<run, cycle, turn, act, lease, inv, outside, ctl, approved>>

\* Every write of the monitor bumps its state_version.
MonitorBecomes(status) ==
    /\ mon' = [mon EXCEPT !.status = status]
    /\ ctl' = [c \in Controller |-> [ctl[c] EXCEPT !.fresh = FALSE]]
    /\ UNCHANGED <<rows, lease, inv, git, pushed, approved>>

MonitorDecides ==
    /\ mon.status = "watching"
    /\ \E s \in {"ready", "blocked", "paused", "error"} : MonitorBecomes(s)
    /\ UNCHANGED <<remote, budgets>>

MonitorReturns ==
    /\ Fault
    /\ mon.status \in {"ready", "blocked", "paused"}
    /\ MonitorBecomes("watching") /\ UNCHANGED remote

PullRequestCloses ==
    /\ Fault
    /\ remote.pr = "open"
    /\ remote' = [remote EXCEPT !.pr = "closed"]
    /\ MonitorBecomes(IF mon.status = "none" THEN "none" ELSE "closed")

\* Somebody else pushes to the branch while it is published (bound: at no other
\* time, and not behind a closed pull request).
BranchMoves ==
    /\ Fault
    /\ run.phase = "publishing" /\ remote.pr # "closed" /\ ~remote.moved
    /\ remote' = [remote EXCEPT !.moved = TRUE]
    /\ UNCHANGED <<rows, lease, inv, git, mon, pushed, ctl, approved>>

-----------------------------------------------------------------------------
DriveStep(c) ==
    \/ Claim(c) \/ Release(c) \/ LeaseLost(c) \/ PauseRun(c) \/ FailRun(c)
    \/ EnsureWorkspace(c) \/ RequestReview(c) \/ CreateInvocation(c) \/ BindInvocation(c)
    \/ Observe(c) \/ Consume(c) \/ PlanReady(c) \/ ReviewApproved(c) \/ ReviewRejected(c)
    \/ DispatchTurn(c) \/ ObserveBusyTurn(c) \/ ObserveEndedTurn(c)
    \/ CommitChanges(c) \/ FinishTurn(c)
    \/ StagePublish(c) \/ FencePush(c) \/ Push(c) \/ OpenPullRequest(c)
    \/ CreatePullRequest(c) \/ Recover(c) \/ RecordReceipt(c)
    \/ BindPullRequest(c) \/ MarkUnknown(c) \/ MarkFailed(c)
    \/ Watch(c) \/ CompleteRun(c) \/ MonitorBlocked(c) \/ ReviewError(c)

UserCommand == PauseByUser \/ CancelByUser \/ ResumeByUser \/ RetryByUser

Surroundings ==
    \/ \E h \in Handle : CapabilityEnds(h) \/ CapabilityFails(h)
    \/ DeveloperStarts \/ DeveloperWrites \/ DeveloperEnds \/ OwnerReleased \/ Requeue
    \/ MonitorDecides \/ MonitorReturns \/ PullRequestCloses \/ BranchMoves
    \/ GhostExpires \/ HeartbeatLate \/ ActionExpires

Next ==
    \/ \E c \in Controller : DriveStep(c) \/ DriveFails(c) \/ Refused(c) \/ Crash(c)
    \/ UserCommand
    \/ Surroundings

Spec == Init /\ [][Next]_vars

\* Controllers poll; leases of the dead run out by the clock; the Task, the
\* capability and the monitor each come to an end.  Users owe nothing.
Fairness ==
    /\ \A c \in Controller : WF_vars(DriveStep(c))
    /\ \A h \in Handle : WF_vars(CapabilityEnds(h))
    /\ WF_vars(DeveloperStarts) /\ WF_vars(DeveloperEnds) /\ WF_vars(OwnerReleased)
    /\ WF_vars(MonitorDecides) /\ WF_vars(GhostExpires) /\ WF_vars(ActionExpires)

FairSpec == Spec /\ Fairness
=============================================================================
