---------------------------- MODULE DeliveryProps ----------------------------
(***************************************************************************)
(* The properties of Delivery.                                              *)
(***************************************************************************)
EXTENDS Delivery

Pc == {"idle", "drive", "request", "bind", "consume", "accept", "commit", "finish",
       "publish", "push", "open", "create", "recover", "announce", "attach", "verify",
       "pause", "fail", "unknown", "changed", "reject", "release"}

\* The steps at which a controller works on what it has read.
Driving == Pc \ {"idle", "release"}

\* The rows of the types, and what the columns of one row say of each other
\* (validate_delivery_state, delivery_reducer.py:71).
RunRow ==
    [phase : Phase \cup {"done"}, activity : Activity \cup Stopped,
     from : Activity \cup {"none"}, outcome : {"none", "success", "failed", "cancelled"},
     failedIn : Phase \cup {"none"}, overBudget : BOOLEAN, cycles : Cycle,
     noProgress : Nat, head : Nat, bound : BOOLEAN, turns : Nat]
RunType ==
    {r \in RunRow :
        /\ r.phase = "done" <=> r.activity = "terminal"
        /\ r.activity = "paused" <=> r.from # "none"
        /\ r.outcome # "none" => r.activity = "terminal"
        /\ r.outcome = "failed" => r.failedIn # "none"}
LeaseType == [owner : Controller \cup {"none", "ghost"}, live : BOOLEAN]
CycleType ==
    [status : ActiveCycle \cup {"completed", "failed", "cancelled"}, plan : BOOLEAN,
     result : BOOLEAN, verdict : {"none", "approved", "changes_requested"}]
InvocationType ==
    [status : {"none", "queued", "ready", "completed", "failed"}, head : Nat,
     verdict : {"none", "approved", "changes_requested"}]
TurnType ==
    [status : {"none", "queued", "running", "completed", "failed"}, cycle : Nat,
     before : Nat, previous : Nat, started : Nat]
TaskType ==
    [status : Reusable \cup Busy, generation : Nat, settled : BOOLEAN, report : BOOLEAN]
Receipt == {"none", "intent", "published", "conflict", "ambiguous", "unresolved"}
ActionType ==
    [status : {"none", "leased", "unknown", "succeeded", "failed"}, cycle : Nat,
     head : Nat, owner : Controller \cup {"none"}, live : BOOLEAN,
     receipt : Receipt]
GitType == [head : Nat, by : Nat, dirty : BOOLEAN]
RemoteType == [head : Nat, moved : BOOLEAN, pr : {"none", "open", "closed"}, at : Nat]
MonitorType ==
    [status : {"none", "watching", "ready", "blocked", "paused", "error", "closed"},
     head : Nat]
DriveRow ==
    [pc : Pc, cycle : Nat, phase : Phase \cup {"done"}, activity : Activity \cup {"terminal"},
     head : Nat, turn : Nat, result : Nat, fresh : BOOLEAN]
DriveType ==
    {d \in DriveRow :
        d.pc \in Driving => d.phase \in Phase /\ d.activity \in Activity /\ d.cycle \in Cycle}

\* Types of every variable; the cycle budget is part of them.
TypeOK ==
    /\ run \in RunType
    /\ lease \in LeaseType
    /\ cycle \in CycleType
    /\ inv \in [Handle -> InvocationType]
    /\ turn \in TurnType
    /\ task \in TaskType
    /\ act \in ActionType
    /\ git \in GitType
    /\ remote \in RemoteType
    /\ mon \in MonitorType
    /\ ctl \in [Controller -> DriveType]
    /\ faults \in Nat /\ commands \in Nat
    /\ approved \in SUBSET Nat /\ pushed \in SUBSET Nat

\* A head leaves the machine only after an independent review approved exactly
\* that head, whatever was committed, retried or resumed in between
\* (docs/autonomous-delivery-loop-design.md, the pre-PR review gate).
PublishedIsReviewed == pushed \subseteq approved

\* Why that is so: the approval of a head travels from the finished review over
\* the row of the run, and of its failure, to the controller that publishes.
Publishers == {"publish", "push", "open", "create", "recover", "announce", "attach"}
ReviewRead(c) ==
    LET i == inv[<<"review", ctl[c].cycle>>] IN
    ctl[c].pc \in {"consume", "accept"} /\ ctl[c].phase = "pre_review" =>
        i.status # "none" /\ i.head = ctl[c].head
ApprovalChain ==
    /\ \A h \in Handle : inv[h].verdict = "approved" => inv[h].head \in approved
    /\ run.phase = "publishing" => run.head \in approved
    /\ run.outcome = "failed" /\ run.failedIn = "publishing" => run.head \in approved
    /\ \A c \in Controller : ctl[c].pc \in Publishers => ctl[c].head \in approved
    /\ \A c \in Controller : ReviewRead(c)
    /\ PublishedIsReviewed

\* The controller that holds the lease acts on the run as it is: nobody else
\* moved the phase, the cycle or the head since it read them.
SnapshotIsCurrent ==
    \A c \in Controller :
        Holds(c) /\ ctl[c].pc \in Driving =>
            /\ run.phase = ctl[c].phase /\ run.activity = ctl[c].activity
            /\ run.cycles = ctl[c].cycle /\ run.head = ctl[c].head

\* The inductive invariant of Delivery_proofs.
DeliveryInv == TypeOK /\ SnapshotIsCurrent /\ ApprovalChain

\* While the developer Task may run, or its owner is not released, it works for
\* exactly one turn: the active one of the current cycle of a run that codes.
\* The controller decides everywhere else as if the Task were free.
OneDeveloperTurn ==
    ~TaskFree \/ turn.status \in ActiveTurn =>
        /\ turn.status \in ActiveTurn /\ turn.cycle = run.cycles
        /\ run.phase = "coding" /\ run.activity \in {"running", "paused"}

\* A terminal run leaves nothing active behind that a retry would trip over.
TerminalOwnsNothing ==
    run.activity = "terminal" =>
        /\ cycle.status \notin ActiveCycle
        /\ turn.status \notin ActiveTurn
        /\ act.status \notin ActiveAction

\* A run has its pull request created at most once: a controller that is about
\* to call GitHub meets none, whatever the calls before it lost
\* (_record_create_intent, "the no-recreate barrier").
NeverRecreated ==
    \A c \in Controller : ctl[c].pc = "create" => remote.pr = "none"

\* Nobody but a code turn moves the worktree: outside coding it is at run.head.
WorktreeAtHead ==
    run.phase \in Phase \ {"coding"} => git.head = run.head

\* A run that succeeds through its pull request: the request carries the head
\* the last review approved, and the PR Monitor judged exactly that head.
SuccessIsReal ==
    run.outcome = "success" /\ cycle.verdict = "approved" =>
        run.head \in approved \cap pushed /\ mon.head = run.head

\* Why these four hold.  The step a controller is at belongs to the phase that
\* it drives, also when it has lost its lease.
InPlace(d) ==
    /\ d.pc \in {"request", "bind", "consume", "accept"} => d.phase \in {"planning", "pre_review"}
    /\ d.pc \in {"commit", "finish"} => d.phase = "coding" /\ d.activity = "running"
    /\ d.pc \in Publishers \cup {"unknown", "changed", "reject"} => d.phase = "publishing"
    /\ d.pc = "verify" => d.phase = "monitoring"
    /\ d.pc = "fail" => d.phase # "coding"
StepsInPlace == \A c \in Controller : InPlace(ctl[c])

\* A turn survives a pause, and the resume brings the run back to it.
TurnOwned ==
    ~TaskFree \/ turn.status \in ActiveTurn =>
        /\ turn.status \in ActiveTurn /\ turn.cycle = run.cycles
        /\ run.phase = "coding"
        /\ run.activity = "running" \/ (run.activity = "paused" /\ run.from = "running")

\* The rows of the cycle and of the outbox follow the run.  A run that failed
\* while monitored has a completed cycle, so that it is never retried.
RowsFollow ==
    /\ run.activity = "terminal" => cycle.status \notin ActiveCycle
    /\ run.phase = "monitoring" => cycle.status = "completed"
    /\ run.outcome = "failed" /\ run.failedIn = "monitoring" => cycle.status = "completed"
    /\ act.status \in ActiveAction => run.phase = "publishing"
    /\ \A c \in Controller :
          Holds(c) /\ ctl[c].pc = "fail" => act.status \notin ActiveAction

\* The tree is dirty only while the run codes.  A controller that lost its lease
\* before its commit can still make it, but only in a later turn, whose own
\* commit then finds it and pauses the run.
TreeOwned ==
    /\ git.by <= run.turns
    /\ git.by = run.turns => ~git.dirty /\ TaskFree
    /\ \A c \in Controller :
          /\ ctl[c].turn <= run.turns
          /\ ctl[c].pc = "commit" /\ ctl[c].turn = run.turns => TaskFree
          /\ Holds(c) /\ ctl[c].pc \in Driving => ctl[c].turn = run.turns
          /\ Holds(c) /\ ctl[c].pc = "finish" =>
                TaskFree /\ git.head = ctl[c].result /\ ~git.dirty
    /\ \/ run.phase \in Phase \ {"coding"}
       \/ run.outcome = "failed" /\ run.failedIn # "coding"
       => git.head = run.head /\ ~git.dirty

\* What GitHub and the receipts tell of a head was pushed by the run.
Announcers == {"open", "create", "recover", "announce", "attach"}
RemoteFollows ==
    /\ pushed # {} => remote.head \in pushed
    /\ remote.pr # "none" => remote.at \in pushed
    /\ act.receipt = "published" => act.head \in pushed

\* The way from an approved head to a success: published, bound, judged.
SuccessChain ==
    /\ cycle.verdict = "approved" /\ run.activity # "terminal" =>
          run.phase \in {"publishing", "monitoring"}
    /\ cycle.verdict = "approved" /\ run.outcome = "failed" =>
          run.failedIn \in {"publishing", "monitoring"}
    /\ run.phase = "monitoring" => run.head \in approved \cap pushed
    /\ \A c \in Controller :
          /\ ctl[c].pc \in Announcers => ctl[c].head \in pushed
          /\ Holds(c) /\ ctl[c].pc = "verify" => mon.head = ctl[c].head
    /\ SuccessIsReal

\* The inductive invariant of DeliveryRun_proofs.
FlowInv ==
    /\ DeliveryInv /\ StepsInPlace /\ TurnOwned /\ RowsFollow /\ TreeOwned
    /\ RemoteFollows /\ SuccessChain

\* A retry resumes in the run: the stage it restarts goes on with a worktree at
\* the run's head, it does not find "another subject" ("发布前 failed：操作员可在
\* 原 Run 内创建 operator_retry Cycle，从 Plan 继续": before publication, a failed
\* run can get an operator_retry cycle in the same run and continue from Plan;
\* docs/autonomous-delivery-loop-design.md:39.  The code restarts the failed
\* stage instead, api/delivery_runs.py:112).
RetryKeepsSubject ==
    run.phase = "publishing" /\ run.failedIn = "publishing" /\ git.head = run.head =>
        run.activity # "paused"

\* Every active run comes to a stop: it ends or asks for help.
RunStops == run.activity \in Activity ~> run.activity \in Stopped

-----------------------------------------------------------------------------
(* The contract: where the run is, whatever its controllers do.             *)

StageOf(phase) ==
    IF phase \in {"planning", "coding", "pre_review"} THEN "work"
    ELSE IF phase = "publishing" THEN "publish" ELSE "watch"
Stage == IF run.phase = "done" THEN run.outcome ELSE StageOf(run.phase)
Back  == IF run.outcome = "failed" THEN StageOf(run.failedIn) ELSE "none"

Contract == INSTANCE DeliveryContract WITH
    stage <- Stage, back <- Back, head <- run.head, cycles <- run.cycles

\* Why reviews and commits keep to the run: nobody has read or asked for the
\* review of a head that the run has not had, and a commit is one step ahead.
HeadsBehind ==
    /\ \A h \in Handle : inv[h].head <= run.head
    /\ \A c \in Controller :
          /\ ctl[c].head <= run.head
          /\ ctl[c].pc = "finish" => ctl[c].result \in {ctl[c].head, ctl[c].head + 1}

\* The controllers with their leases, the capabilities, the outbox and the
\* commands implement the contract: no interleaving, crash or stale controller
\* moves a reviewed head, skips the review, or revives an ended run.
ImplementsContract == Contract!DSpec
=============================================================================
