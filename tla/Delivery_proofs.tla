--------------------------- MODULE Delivery_proofs ---------------------------
(***************************************************************************)
(* Proofs about Delivery, for any number of controllers, cycles, faults and *)
(* commands: the types with the consistency of each row, that the holder of *)
(* the lease works on a current snapshot, and that only reviewed heads are  *)
(* published.                                                               *)
(***************************************************************************)
EXTENDS DeliveryProps, TLAPS

-----------------------------------------------------------------------------
(* What the helpers of the model return. *)

LEMMA GotoType ==
    ASSUME ctl \in [Controller -> DriveType], NEW c \in Controller, NEW w \in Pc,
           Goto(c, w), ctl[c].pc \in Driving \/ w = "release"
    PROVE  ctl' \in [Controller -> DriveType]
BY DEF Goto, DriveType, DriveRow, Driving

LEMMA MovedType ==
    ASSUME NEW r \in RunType, NEW p \in Phase, NEW a \in Activity
    PROVE  /\ Moved(r, p, a) \in RunType
           /\ Moved(r, p, a).cycles = r.cycles
<1>1. r \in RunRow
  BY DEF RunType
<1>2. Moved(r, p, a) \in RunRow
  BY <1>1 DEF Moved, RunRow
<1>3. /\ Moved(r, p, a).phase = p /\ Moved(r, p, a).activity = a
      /\ Moved(r, p, a).from = "none" /\ Moved(r, p, a).outcome = "none"
      /\ Moved(r, p, a).cycles = r.cycles
  BY <1>1 DEF Moved, RunRow
<1>4. p # "done" /\ a \notin Stopped
  BY DEF Phase, Activity, Stopped
<1> QED
  BY <1>2, <1>3, <1>4 DEF RunType, Stopped

LEMMA EndedType ==
    ASSUME NEW r \in RunType, NEW o \in {"success", "cancelled"}
    PROVE  Ended(r, o) \in RunType
BY DEF Ended, RunType, RunRow, Stopped, Activity

LEMMA FailedType ==
    ASSUME NEW r \in RunType, r.phase \in Phase, NEW b \in BOOLEAN
    PROVE  Failed(r, b) \in RunType
BY DEF Failed, Ended, RunType, RunRow, Stopped, Activity, Phase

LEMMA NextCycleType ==
    ASSUME NEW r \in RunType, r.cycles < MaxCycles
    PROVE  NextCycle(r) \in RunType
BY DeliveryAssumption DEF NextCycle, RunType, RunRow, Cycle

LEMMA BoundType ==
    ASSUME NEW r \in RunType
    PROVE  [r EXCEPT !.bound = TRUE] \in RunType
BY DEF RunType, RunRow

LEMMA StaleType ==
    ASSUME ctl \in [Controller -> DriveType],
           ctl' = [c \in Controller |-> [ctl[c] EXCEPT !.fresh = FALSE]]
    PROVE  ctl' \in [Controller -> DriveType]
<1>1. ASSUME NEW c \in Controller PROVE [ctl[c] EXCEPT !.fresh = FALSE] \in DriveType
  <2>1. ctl[c] \in DriveType
    OBVIOUS
  <2> QED
    BY <2>1 DEF DriveType, DriveRow
<1> QED
  BY <1>1

LEMMA PausedType ==
    ASSUME run \in RunType, run.activity \notin Stopped
    PROVE  Paused \in RunType
BY DEF Paused, RunType, RunRow, Stopped, Activity

LEMMA NewCycleType ==
    ASSUME NEW s \in ActiveCycle
    PROVE  NewCycle(s) \in CycleType
BY DEF NewCycle, CycleType

LEMMA ClosedType ==
    ASSUME cycle \in CycleType, NEW s \in {"failed", "cancelled"}
    PROVE  Closed(s) \in CycleType
BY DEF Closed, CycleType

\* The holder of the lease drives a run that is in a phase.
LEMMA HolderDrives ==
    ASSUME TypeOK, SnapshotIsCurrent, NEW c \in Controller, Holds(c), ctl[c].pc \in Driving
    PROVE  /\ run.phase = ctl[c].phase /\ run.activity = ctl[c].activity
           /\ run.cycles = ctl[c].cycle /\ run.head = ctl[c].head
           /\ run.phase \in Phase /\ run.activity \in Activity /\ run.activity \notin Stopped
BY DEF TypeOK, SnapshotIsCurrent, DriveType, Activity, Stopped

-----------------------------------------------------------------------------
(* Typing. *)
LEMMA ClaimType ==
    ASSUME TypeOK, NEW c \in Controller, Claim(c)
    PROVE  TypeOK'
<1> USE DEF TypeOK, rows, outside, budgets
<1> DEFINE d == [pc |-> "drive", cycle |-> run.cycles, phase |-> run.phase,
                 activity |-> run.activity, head |-> run.head, turn |-> run.turns,
                 result |-> 0, fresh |-> FALSE]
<1>1. run \in RunRow /\ run.activity \in Activity /\ run.phase \in Phase
  BY DEF Claim, RunType, RunRow, Activity, Stopped
<1>2. d \in DriveType
  BY <1>1, DeliveryAssumption DEF DriveType, DriveRow, RunRow, Pc, Cycle
<1>3. lease' \in LeaseType
  BY DEF Claim, LeaseType
<1> QED
  BY <1>2, <1>3 DEF Claim

\* The invocation a controller observes is one of the table.
LEMMA ObservedStatus ==
    ASSUME TypeOK, NEW c \in Controller, Observe(c)
    PROVE  inv[<<Kind(ctl[c].phase), ctl[c].cycle>>].status
               \in {"none", "queued", "ready", "completed", "failed"}
<1>1. <<Kind(ctl[c].phase), ctl[c].cycle>> \in Handle
  BY DEF Observe, In, At, TypeOK, DriveType, Driving, Pc, Handle, Kind, Capability
<1> QED
  BY <1>1 DEF TypeOK, InvocationType

LEMMA CreateInvocationType ==
    ASSUME TypeOK, NEW c \in Controller, CreateInvocation(c)
    PROVE  TypeOK'
<1> USE DEF TypeOK, rows, outside, budgets
<1> DEFINE h == <<Kind(ctl[c].phase), ctl[c].cycle>>
<1>1. ctl[c].pc \in Driving
  BY DEF CreateInvocation, At, Pc, Driving
<1>2. h \in Handle /\ ctl[c].head \in Nat
  BY <1>1 DEF Handle, Kind, Capability, DriveType, DriveRow
<1>3. inv' \in [Handle -> InvocationType]
  BY <1>2 DEF CreateInvocation, InvocationType
<1>4. ctl' \in [Controller -> DriveType]
  BY <1>1, GotoType DEF CreateInvocation, Pc
<1> QED
  BY <1>3, <1>4 DEF CreateInvocation

LEMMA ReviewRejectedType ==
    ASSUME TypeOK, SnapshotIsCurrent, NEW c \in Controller, ReviewRejected(c)
    PROVE  TypeOK'
<1> USE DEF TypeOK, outside, budgets
<1>1. ctl' \in [Controller -> DriveType]
  BY GotoType DEF ReviewRejected, At, Pc, Driving
<1>2. CASE run.cycles >= MaxCycles
  <2>1. Failed(run, TRUE) \in RunType
    BY FailedType DEF ReviewRejected, Current, Phase
  <2> QED
    BY <1>1, <1>2, <2>1 DEF ReviewRejected, CycleType, TaskType, Reusable, Terminated
<1>3. CASE ~(run.cycles >= MaxCycles)
  <2>1. Moved(run, "planning", "ready") \in RunType
    BY MovedType DEF Phase, Activity
  <2>2. Moved(run, "planning", "ready").cycles < MaxCycles
    BY <1>3, MovedType, DeliveryAssumption DEF RunType, RunRow, Cycle, Phase, Activity
  <2>3. NextCycle(Moved(run, "planning", "ready")) \in RunType
    BY <2>1, <2>2, NextCycleType
  <2> QED
    BY <1>1, <1>3, <2>3, NewCycleType DEF ReviewRejected, ActiveCycle
<1> QED
  BY <1>2, <1>3

LEMMA DispatchTurnType ==
    ASSUME TypeOK, SnapshotIsCurrent, NEW c \in Controller, DispatchTurn(c)
    PROVE  TypeOK'
<1> USE DEF TypeOK, outside, budgets
<1>1. ctl' \in [Controller -> DriveType]
  BY GotoType DEF DispatchTurn, In, At, Pc, Driving
<1>2. Moved(run, "coding", "running") \in RunType
  BY MovedType DEF Phase, Activity
<1>3. run' \in RunType
  BY <1>2 DEF DispatchTurn, RunType, RunRow
<1>4. run.cycles \in Nat /\ run.head \in Nat /\ task.generation \in Nat
  BY DeliveryAssumption DEF RunType, RunRow, Cycle, TaskType
<1> QED
  BY <1>1, <1>3, <1>4 DEF DispatchTurn, TurnType, TaskType, Busy, CycleType, ActiveCycle

LEMMA CommitChangesType ==
    ASSUME TypeOK, SnapshotIsCurrent, NEW c \in Controller, CommitChanges(c)
    PROVE  TypeOK'
<1> USE DEF TypeOK, rows, budgets
<1>1. git' \in GitType
  <2>1. git.head \in Nat /\ git.head + 1 \in Nat /\ ctl[c].turn \in Nat
    BY DEF GitType, DriveType, DriveRow
  <2>2. CASE git' = [head |-> git.head + 1, by |-> ctl[c].turn, dirty |-> FALSE]
    BY <2>1, <2>2 DEF GitType
  <2> QED
    BY <2>2 DEF CommitChanges
<1>2. ctl' \in [Controller -> DriveType]
  <2>1. CASE Goto(c, "pause")
    BY <2>1, GotoType DEF CommitChanges, At, Pc, Driving
  <2>2. CASE ctl' = [ctl EXCEPT ![c].pc = "finish", ![c].result = git'.head]
    BY <2>2, <1>1 DEF CommitChanges, At, Pc, Driving, DriveType, DriveRow, GitType
  <2> QED
    BY <2>1, <2>2 DEF CommitChanges
<1> QED
  BY <1>1, <1>2 DEF CommitChanges

LEMMA FinishTurnType ==
    ASSUME TypeOK, SnapshotIsCurrent, NEW c \in Controller, FinishTurn(c)
    PROVE  TypeOK'
<1> USE DEF TypeOK, outside, budgets
<1> DEFINE progressed == ctl[c].result # turn.before
           heard == ~progressed /\ task.report /\ task.generation = run.turns
           idle == IF progressed \/ heard THEN 0 ELSE run.noProgress + 1
           counted == Counted(c, idle)
           done == [cycle EXCEPT !.result = TRUE]
           exhausted == idle >= MaxNoProgress \/ run.cycles >= MaxCycles
<1>1. ctl' \in [Controller -> DriveType]
  BY GotoType DEF FinishTurn, At, Pc, Driving
<1>2. turn' \in TurnType
  BY DEF FinishTurn, TurnType
<1>3. idle \in Nat /\ ctl[c].result \in Nat
  BY DEF RunType, RunRow, DriveType, DriveRow
<1>4. /\ counted \in RunType /\ counted.cycles = run.cycles
      /\ counted.phase = run.phase
  BY <1>3 DEF Counted, RunType, RunRow
<1>5. run.phase \in Phase
  BY HolderDrives DEF FinishTurn, Current, At, Pc, Driving
<1>6. done \in CycleType
  BY DEF CycleType
<1> HIDE DEF progressed, heard, idle, counted, done, exhausted
<1>7. CASE /\ progressed
           /\ run' = Moved(counted, "pre_review", "ready")
           /\ cycle' = [done EXCEPT !.status = "pre_review"]
           /\ task' = [task EXCEPT !.status = "delivery_waiting"]
  <2>1. run' \in RunType
    BY <1>4, <1>7, MovedType DEF Phase, Activity
  <2> QED
    BY <1>1, <1>2, <1>6, <1>7, <2>1
    DEF FinishTurn, CycleType, ActiveCycle, TaskType, Reusable
<1>8. CASE /\ heard
           /\ run' = Ended(counted, "success")
           /\ cycle' = [done EXCEPT !.status = "completed"]
           /\ UNCHANGED task
  <2>1. run' \in RunType
    BY <1>4, <1>8, EndedType
  <2> QED
    BY <1>1, <1>2, <1>6, <1>8, <2>1 DEF FinishTurn, CycleType
<1>9. CASE /\ ~progressed /\ ~heard /\ exhausted
           /\ run' = Failed(counted, idle < MaxNoProgress)
           /\ cycle' = [done EXCEPT !.status = "failed"]
           /\ task' = [task EXCEPT !.status = "failed"]
  <2>1. run' \in RunType
    BY <1>4, <1>5, <1>9, FailedType, (idle < MaxNoProgress) \in BOOLEAN
  <2> QED
    BY <1>1, <1>2, <1>6, <1>9, <2>1 DEF FinishTurn, CycleType, TaskType, Reusable, Terminated
<1>10. CASE /\ ~progressed /\ ~heard /\ ~exhausted
            /\ run' = NextCycle(Moved(counted, "coding", "ready"))
            /\ cycle' = [NewCycle("coding") EXCEPT !.plan = TRUE]
            /\ task' = [task EXCEPT !.status = "delivery_waiting"]
  <2>1. /\ Moved(counted, "coding", "ready") \in RunType
        /\ Moved(counted, "coding", "ready").cycles = run.cycles
    BY <1>4, MovedType DEF Phase, Activity
  <2>2. run.cycles < MaxCycles
    BY <1>10, DeliveryAssumption DEF exhausted, RunType, RunRow, Cycle
  <2>3. run' \in RunType
    BY <1>10, <2>1, <2>2, NextCycleType
  <2>4. cycle' \in CycleType
    BY <1>10, NewCycleType DEF CycleType, ActiveCycle
  <2> QED
    BY <1>1, <1>2, <1>10, <2>3, <2>4 DEF FinishTurn, TaskType, Reusable
<1> QED
  BY <1>7, <1>8, <1>9, <1>10 DEF FinishTurn, progressed, heard, idle, counted, done, exhausted

\* What the claim of the action comes to.
StageLeases(c, w, r) ==
    /\ act' = LeaseAction(c, r)
    /\ run' = Moved(run, "publishing", "running")
    /\ ctl' = [ctl EXCEPT ![c].pc = w, ![c].activity = "running"]
    /\ w = "attach" => r = "published"
    /\ r = "published" => act.receipt = "published" /\ act.head = run.head
StageRests(c) == UNCHANGED <<run, act>> /\ (Goto(c, "pause") \/ Goto(c, "release"))
StageFails(c) ==
    /\ act' = [act EXCEPT !.status = "failed", !.owner = "none", !.live = FALSE]
    /\ Goto(c, "fail") /\ UNCHANGED run

LEMMA StageShape ==
    ASSUME TypeOK, NEW c \in Controller, StagePublish(c)
    PROVE  \/ \E w \in {"publish", "attach"}, r \in Receipt : StageLeases(c, w, r)
           \/ StageRests(c)
           \/ StageFails(c)
<1> DEFINE exact == act.status # "none" /\ act.head = run.head /\ act.cycle = run.cycles
           receipt == IF exact THEN act.receipt ELSE "none"
           w == IF receipt = "published" THEN "attach" ELSE "publish"
<1>1. receipt \in Receipt /\ (receipt = "published" => act.receipt = "published" /\ act.head = run.head)
  BY DEF TypeOK, ActionType, Receipt
<1>2. CASE /\ act' = LeaseAction(c, receipt)
           /\ run' = Moved(run, "publishing", "running")
           /\ ctl' = [ctl EXCEPT ![c].pc = w, ![c].activity = "running"]
  <2>1. w \in {"publish", "attach"} /\ (w = "attach" => receipt = "published")
    OBVIOUS
  <2> HIDE DEF receipt, w
  <2> QED
    BY <1>1, <1>2, <2>1 DEF StageLeases
<1>3. CASE StageRests(c) \/ StageFails(c)
  BY <1>3
<1> QED
  BY <1>2, <1>3 DEF StagePublish, StageRests, StageFails

LEMMA StagePublishType ==
    ASSUME TypeOK, SnapshotIsCurrent, NEW c \in Controller, StagePublish(c)
    PROVE  TypeOK'
<1> USE DEF TypeOK, outside, budgets
<1>1. ctl[c].pc \in Driving
  BY DEF StagePublish, At, Pc, Driving
<1>2. ASSUME NEW w \in {"publish", "attach"}, NEW r \in Receipt, StageLeases(c, w, r)
      PROVE  TypeOK'
  <2>1. run' \in RunType
    BY <1>2, MovedType DEF StageLeases, Phase, Activity
  <2>2. act' \in ActionType
    BY <1>2, DeliveryAssumption DEF StageLeases, LeaseAction, ActionType, RunType, RunRow, Cycle
  <2>3. ctl' \in [Controller -> DriveType]
    <3>1. [ctl[c] EXCEPT !.pc = w, !.activity = "running"] \in DriveType
      <4>1. ctl[c] \in DriveType
        OBVIOUS
      <4> QED
        BY <1>1, <4>1 DEF DriveType, DriveRow, Pc, Driving, Activity
    <3> QED
      BY <1>2, <3>1 DEF StageLeases
  <2> QED
    BY <2>1, <2>2, <2>3 DEF StagePublish
<1>3. CASE StageRests(c)
  BY <1>1, <1>3, GotoType DEF StagePublish, StageRests, Pc
<1>4. CASE StageFails(c)
  BY <1>1, <1>4, GotoType DEF StagePublish, StageFails, Pc, ActionType
<1> QED
  BY <1>2, <1>3, <1>4, StageShape

\* The steps that read GitHub under the fence and write down what they found.
Reconciles(c) == FencePush(c) \/ OpenPullRequest(c) \/ Recover(c) \/ RecordReceipt(c)
Recorded == {"unknown", "changed", "push", "announce", "create", "attach"}

LEMMA ReconcilesShape ==
    ASSUME TypeOK, NEW c \in Controller, Reconciles(c)
    PROVE  /\ Fenced(c) /\ ctl[c].pc \in {"publish", "open", "recover", "announce"}
           /\ \E w \in Recorded : Goto(c, w)
           /\ \E r \in Receipt : act' = [act EXCEPT !.receipt = r]
           /\ run' = run \/ run' = [run EXCEPT !.bound = TRUE]
           /\ UNCHANGED <<cycle, turn, task, lease, inv, outside, budgets, approved>>
<1>1. act = [act EXCEPT !.receipt = act.receipt] /\ act.receipt \in Receipt
  BY DEF TypeOK, ActionType
<1>2. ASSUME NEW w \in Recorded, GoOn(c, w)
      PROVE  /\ \E v \in Recorded : Goto(c, v)
             /\ \E r \in Receipt : act' = [act EXCEPT !.receipt = r]
             /\ run' = run
  BY <1>1, <1>2 DEF GoOn
<1>3. ASSUME RecordConflict(c) \/ (\E r \in Receipt : RecordUnclear(c, r)) \/ RecordAmbiguous(c)
      PROVE  /\ Goto(c, "unknown")
             /\ \E r \in Receipt : act' = [act EXCEPT !.receipt = r]
             /\ run' = run \/ run' = [run EXCEPT !.bound = TRUE]
  BY <1>3 DEF RecordConflict, RecordUnclear, RecordAmbiguous, Receipt
<1>4. CASE FencePush(c)
  BY <1>4, <1>2, <1>3 DEF FencePush, At, Recorded, Receipt
<1>5. CASE OpenPullRequest(c)
  BY <1>5, <1>2, <1>3 DEF OpenPullRequest, At, Recorded, Receipt
<1>6. CASE Recover(c)
  BY <1>6, <1>2, <1>3 DEF Recover, At, Recorded, Receipt
<1>7. CASE RecordReceipt(c)
  BY <1>7, <1>2, <1>3 DEF RecordReceipt, At, Recorded, Receipt
<1> QED
  BY <1>4, <1>5, <1>6, <1>7 DEF Reconciles

\* Of the rows they touch only run.bound and act.receipt.
LEMMA ReconcilesKeeps ==
    ASSUME TypeOK, NEW c \in Controller, Reconciles(c)
    PROVE  /\ run' \in RunType /\ act' \in ActionType
           /\ UNCHANGED <<run.phase, run.activity, run.from, run.outcome, run.failedIn,
                          run.overBudget, run.cycles, run.noProgress, run.head, run.turns>>
           /\ UNCHANGED <<act.status, act.cycle, act.head, act.owner, act.live>>
<1>1. run' = run \/ run' = [run EXCEPT !.bound = TRUE]
  BY ReconcilesShape
<1>2. PICK r \in Receipt : act' = [act EXCEPT !.receipt = r]
  BY ReconcilesShape
<1> QED
  BY <1>1, <1>2 DEF TypeOK, RunType, RunRow, ActionType

LEMMA ReconcilesType ==
    ASSUME TypeOK, NEW c \in Controller, Reconciles(c)
    PROVE  TypeOK'
<1>1. ctl' \in [Controller -> DriveType]
  <2>1. PICK w \in Recorded : Goto(c, w)
    BY ReconcilesShape
  <2>2. ctl[c].pc \in Driving /\ w \in Pc
    BY ReconcilesShape DEF Driving, Pc, Recorded
  <2> QED
    BY <2>1, <2>2, GotoType DEF TypeOK
<1> QED
  BY <1>1, ReconcilesShape, ReconcilesKeeps DEF TypeOK, outside, budgets

\* The creation moves only the pull request and its own step.
Created == {"announce", "unknown", "recover"}
LEMMA CreateShape ==
    ASSUME TypeOK, NEW c \in Controller, CreatePullRequest(c)
    PROVE  /\ ctl[c].pc = "create"
           /\ \E w \in Created : Goto(c, w)
           /\ remote' \in RemoteType /\ faults' \in Nat /\ commands' = commands
           /\ UNCHANGED <<rows, lease, inv, git, mon, pushed, approved>>
<1>1. [remote EXCEPT !.pr = "open", !.at = remote.head] \in RemoteType
  BY DEF TypeOK, RemoteType
<1>2. faults' \in Nat /\ commands' = commands
  BY DEF CreatePullRequest, budgets, TypeOK
<1> QED
  BY <1>1, <1>2 DEF CreatePullRequest, At, Created, TypeOK

LEMMA CreateType ==
    ASSUME TypeOK, NEW c \in Controller, CreatePullRequest(c)
    PROVE  TypeOK'
<1>1. PICK w \in Created : Goto(c, w)
  BY CreateShape
<1>2. ctl[c].pc \in Driving /\ w \in Pc
  BY CreateShape DEF Driving, Pc, Created
<1>3. ctl' \in [Controller -> DriveType]
  BY <1>1, <1>2, GotoType DEF TypeOK
<1> QED
  BY <1>3, CreateShape DEF TypeOK, rows

LEMMA BindPullRequestType ==
    ASSUME TypeOK, SnapshotIsCurrent, NEW c \in Controller, BindPullRequest(c)
    PROVE  TypeOK'
<1> USE DEF TypeOK, outside, budgets
<1>1. ctl[c].pc \in Driving
  BY DEF BindPullRequest, At, Pc, Driving
<1>2. CASE mon' = [status |-> "watching", head |-> ctl[c].head] /\ Goto(c, "release")
           /\ act' = [act EXCEPT !.status = "succeeded", !.owner = "none", !.live = FALSE]
           /\ run' = [Moved(run, "monitoring", "waiting") EXCEPT !.bound = TRUE]
           /\ cycle' = [cycle EXCEPT !.status = "completed"]
  <2>1. Moved(run, "monitoring", "waiting") \in RunType
    BY MovedType DEF Phase, Activity
  <2>2. run' \in RunType
    BY <1>2, <2>1, BoundType DEF BindPullRequest
  <2>3. ctl' \in [Controller -> DriveType]
    BY <1>1, <1>2, GotoType DEF BindPullRequest, Pc
  <2>4. act' \in ActionType /\ cycle' \in CycleType
    BY <1>2 DEF BindPullRequest, ActionType, CycleType
  <2>5. mon' \in MonitorType
    BY <1>2 DEF BindPullRequest, MonitorType, DriveType, DriveRow
  <2> QED
    BY <2>2, <2>3, <2>4, <2>5 DEF BindPullRequest
<1>3. CASE UNCHANGED <<act, run, cycle, mon>> /\ (Goto(c, "reject") \/ Goto(c, "changed"))
  BY <1>1, <1>3, GotoType DEF BindPullRequest, Pc
<1> QED
  BY <1>2, <1>3 DEF BindPullRequest

LEMMA MonitorBlockedType ==
    ASSUME TypeOK, SnapshotIsCurrent, NEW c \in Controller, MonitorBlocked(c)
    PROVE  TypeOK'
<1> USE DEF TypeOK, outside, budgets
<1>1. ctl' \in [Controller -> DriveType]
  BY GotoType DEF MonitorBlocked, In, At, Pc, Driving
<1>2. CASE run.cycles >= MaxCycles
  <2>1. Failed(run, TRUE) \in RunType
    BY FailedType DEF MonitorBlocked, In, Current, Phase
  <2> QED
    BY <1>1, <1>2, <2>1 DEF MonitorBlocked, TaskType, Reusable, Terminated
<1>3. CASE ~(run.cycles >= MaxCycles)
  <2>1. Moved(run, "planning", "ready") \in RunType
    BY MovedType DEF Phase, Activity
  <2>2. Moved(run, "planning", "ready").cycles < MaxCycles
    BY <1>3, MovedType, DeliveryAssumption DEF RunType, RunRow, Cycle, Phase, Activity
  <2>3. NextCycle(Moved(run, "planning", "ready")) \in RunType
    BY <2>1, <2>2, NextCycleType
  <2> QED
    BY <1>1, <1>3, <2>3, NewCycleType DEF MonitorBlocked, ActiveCycle
<1> QED
  BY <1>2, <1>3

LEMMA RetryByUserType ==
    ASSUME TypeOK, RetryByUser
    PROVE  TypeOK'
<1> USE DEF TypeOK, outside
<1> DEFINE a == IF run.failedIn = "monitoring" THEN "waiting" ELSE "ready"
<1>1. run.failedIn \in Phase /\ run.cycles < MaxCycles
  BY DEF RetryByUser, RetryAdmitted, RetryOffered, RunType, RunRow
<1>2. a \in Activity
  BY DEF Activity
<1>3. /\ Moved(run, run.failedIn, a) \in RunType
      /\ Moved(run, run.failedIn, a).cycles < MaxCycles
  BY <1>1, <1>2, MovedType
<1>4. run' \in RunType
  BY <1>3, NextCycleType DEF RetryByUser
<1>5. cycle' \in CycleType
  BY <1>1 DEF RetryByUser, CycleType, ActiveCycle, Phase
<1> QED
  BY <1>4, <1>5 DEF RetryByUser, Command, TaskType, Reusable

LEMMA ResumeByUserType ==
    ASSUME TypeOK, ResumeByUser
    PROVE  TypeOK'
<1> USE DEF TypeOK, outside
<1>1. run \in RunRow /\ run.from \in Activity /\ run.phase # "done" /\ run.outcome = "none"
  BY DEF ResumeByUser, RunType, RunRow, Activity, Stopped
<1>2. [run EXCEPT !.activity = run.from, !.from = "none"] \in RunType
  BY <1>1 DEF RunType, RunRow, Activity, Stopped
<1> QED
  BY <1>2 DEF ResumeByUser, Command

LEMMA MonitorWrites ==
    ASSUME TypeOK, NEW s, MonitorBecomes(s),
           s \in {"none", "watching", "ready", "blocked", "paused", "error", "closed"}
    PROVE  ctl' \in [Controller -> DriveType] /\ mon' \in MonitorType
<1>1. ctl' \in [Controller -> DriveType]
  BY StaleType DEF TypeOK, MonitorBecomes
<1>2. mon' \in MonitorType
  BY DEF TypeOK, MonitorBecomes, MonitorType
<1> QED
  BY <1>1, <1>2

LEMMA TypeStep == TypeOK /\ SnapshotIsCurrent /\ [Next]_vars => TypeOK'
<1> SUFFICES ASSUME TypeOK, SnapshotIsCurrent, [Next]_vars PROVE TypeOK'
  OBVIOUS
<1> USE DEF TypeOK, rows, outside, budgets
<1>1. ASSUME NEW c \in Controller, Claim(c) PROVE TypeOK'
  BY <1>1, ClaimType
<1>2. ASSUME NEW c \in Controller, Release(c) PROVE TypeOK'
  BY <1>2 DEF Release, Idle, DriveType, DriveRow, LeaseType, Pc, Driving
<1>3. ASSUME NEW c \in Controller, LeaseLost(c) PROVE TypeOK'
  BY <1>3, GotoType DEF LeaseLost, Pc
<1>4. ASSUME NEW c \in Controller, PauseRun(c) PROVE TypeOK'
  BY <1>4, GotoType, PausedType DEF PauseRun, Pc, Driving, At
<1>5. ASSUME NEW c \in Controller, FailRun(c) PROVE TypeOK'
  BY <1>5, GotoType, HolderDrives, FailedType, ClosedType DEF FailRun, Pc, Driving, At,
     TaskType, Reusable, Terminated
<1>6. ASSUME NEW c \in Controller, EnsureWorkspace(c) PROVE TypeOK'
  BY <1>6, GotoType DEF EnsureWorkspace, Pc, Driving, At, In
<1>7. ASSUME NEW c \in Controller, RequestReview(c) PROVE TypeOK'
  BY <1>7, GotoType DEF RequestReview, Pc, Driving, At, In
<1>8. ASSUME NEW c \in Controller, CreateInvocation(c) PROVE TypeOK'
  BY <1>8, CreateInvocationType
<1>9. ASSUME NEW c \in Controller, BindInvocation(c) PROVE TypeOK'
  BY <1>9, GotoType, HolderDrives, MovedType DEF BindInvocation, Pc, Driving, At,
     Current, Activity
<1>10. ASSUME NEW c \in Controller, Observe(c) PROVE TypeOK'
  BY <1>10, GotoType, ObservedStatus DEF Observe, Pc, Driving, At, In
<1>11. ASSUME NEW c \in Controller, Consume(c) PROVE TypeOK'
  BY <1>11, GotoType DEF Consume, Pc, Driving, At, InvocationType
<1>12. ASSUME NEW c \in Controller, PlanReady(c) PROVE TypeOK'
  BY <1>12, GotoType, MovedType DEF PlanReady, Pc, Driving, At, CycleType, ActiveCycle,
     Phase, Activity
<1>13. ASSUME NEW c \in Controller, ReviewApproved(c) PROVE TypeOK'
  BY <1>13, GotoType, MovedType DEF ReviewApproved, Pc, Driving, At, CycleType,
     ActiveCycle, Phase, Activity
<1>14. ASSUME NEW c \in Controller, ReviewRejected(c) PROVE TypeOK'
  BY <1>14, ReviewRejectedType
<1>15. ASSUME NEW c \in Controller, DispatchTurn(c) PROVE TypeOK'
  BY <1>15, DispatchTurnType
<1>16. ASSUME NEW c \in Controller, ObserveBusyTurn(c) PROVE TypeOK'
  BY <1>16, GotoType DEF ObserveBusyTurn, Pc, Driving, At, In, TurnType, TaskType
<1>17. ASSUME NEW c \in Controller, ObserveEndedTurn(c) PROVE TypeOK'
  BY <1>17, GotoType, HolderDrives, FailedType DEF ObserveEndedTurn, Pc, Driving, At,
     In, TurnType, CycleType
<1>18. ASSUME NEW c \in Controller, CommitChanges(c) PROVE TypeOK'
  BY <1>18, CommitChangesType
<1>19. ASSUME NEW c \in Controller, FinishTurn(c) PROVE TypeOK'
  BY <1>19, FinishTurnType
<1>20. ASSUME NEW c \in Controller, StagePublish(c) PROVE TypeOK'
  BY <1>20, StagePublishType
<1>21. ASSUME NEW c \in Controller, Reconciles(c) PROVE TypeOK'
  BY <1>21, ReconcilesType
<1>22. ASSUME NEW c \in Controller, Push(c) PROVE TypeOK'
  BY <1>22, GotoType DEF Push, Advanced, Pc, Driving, At, RemoteType, DriveType, DriveRow
<1>23. ASSUME NEW c \in Controller, CreatePullRequest(c) PROVE TypeOK'
  BY <1>23, CreateType
<1>24. ASSUME NEW c \in Controller, BindPullRequest(c) PROVE TypeOK'
  BY <1>24, BindPullRequestType
<1>25. ASSUME NEW c \in Controller, MarkUnknown(c) PROVE TypeOK'
  BY <1>25, GotoType DEF MarkUnknown, Pc, Driving, At, ActionType
<1>26. ASSUME NEW c \in Controller, MarkFailed(c) PROVE TypeOK'
  BY <1>26, GotoType DEF MarkFailed, Pc, Driving, At, ActionType
<1>27. ASSUME NEW c \in Controller, Watch(c) PROVE TypeOK'
  BY <1>27 DEF Watch, Pc, Driving, At, In, DriveType, DriveRow
<1>28. ASSUME NEW c \in Controller, CompleteRun(c) PROVE TypeOK'
  BY <1>28, GotoType, HolderDrives, EndedType DEF CompleteRun, Pc, Driving, At,
     TaskType, Reusable, Terminated
<1>29. ASSUME NEW c \in Controller, MonitorBlocked(c) PROVE TypeOK'
  BY <1>29, MonitorBlockedType
<1>30. ASSUME NEW c \in Controller, ReviewError(c) PROVE TypeOK'
  BY <1>30, GotoType, HolderDrives, FailedType, ClosedType DEF ReviewError, Pc, Driving,
     At, In, Current, TaskType, Reusable, Terminated
<1>31. ASSUME NEW c \in Controller, DriveFails(c) PROVE TypeOK'
  BY <1>31, GotoType DEF DriveFails, Pc, Driving, Fault
<1>32. ASSUME NEW c \in Controller, Refused(c) PROVE TypeOK'
  BY <1>32, GotoType DEF Refused, Pc, Driving, At, Fault
<1>33. ASSUME NEW c \in Controller, Crash(c) PROVE TypeOK'
  BY <1>33 DEF Crash, Fault, Idle, DriveType, DriveRow, LeaseType, Pc, Driving
<1>34. CASE PauseByUser
  BY <1>34, PausedType DEF PauseByUser, Command, MayStop, Stopped
<1>35. CASE CancelByUser
  BY <1>35, EndedType, ClosedType DEF CancelByUser, Command, TaskType, Reusable,
     Terminated
<1>36. CASE ResumeByUser
  BY <1>36, ResumeByUserType
<1>37. CASE RetryByUser
  BY <1>37, RetryByUserType
<1>38. ASSUME NEW h \in Handle, CapabilityEnds(h) PROVE TypeOK'
  BY <1>38 DEF CapabilityEnds, Handle, Capability, InvocationType
<1>39. ASSUME NEW h \in Handle, CapabilityFails(h) PROVE TypeOK'
  BY <1>39 DEF CapabilityFails, Fault, InvocationType
<1>40. CASE DeveloperStarts
  BY <1>40, task.generation + 1 \in Nat DEF DeveloperStarts, TaskType, Busy
<1>41. CASE DeveloperWrites
  BY <1>41 DEF DeveloperWrites, GitType
<1>42. CASE DeveloperEnds
  BY <1>42 DEF DeveloperEnds, TaskType, Reusable, Terminated
<1>43. CASE OwnerReleased
  BY <1>43 DEF OwnerReleased, TaskType
<1>44. CASE Requeue
  BY <1>44 DEF Requeue, Fault, TaskType, Busy
<1>45. CASE MonitorDecides
  BY <1>45, MonitorWrites DEF MonitorDecides, MonitorBecomes
<1>46. CASE MonitorReturns
  <2>1. MonitorBecomes("watching") /\ faults + 1 \in Nat
    BY <1>46 DEF MonitorReturns
  <2>2. ctl' \in [Controller -> DriveType] /\ mon' \in MonitorType
    BY <2>1, MonitorWrites
  <2> QED
    BY <1>46, <2>1, <2>2 DEF MonitorReturns, MonitorBecomes, Fault
<1>47. CASE PullRequestCloses
  <2>1. MonitorBecomes("closed") \/ (MonitorBecomes("none") /\ mon.status = "none")
    BY <1>47 DEF PullRequestCloses
  <2>2. ctl' \in [Controller -> DriveType] /\ mon' \in MonitorType
    BY <2>1, MonitorWrites
  <2>3. remote' \in RemoteType
    BY <1>47 DEF PullRequestCloses, RemoteType
  <2> QED
    BY <1>47, <2>1, <2>2, <2>3, faults + 1 \in Nat DEF PullRequestCloses, MonitorBecomes, Fault
<1>48. CASE GhostExpires
  BY <1>48 DEF GhostExpires, LeaseType
<1>49. CASE HeartbeatLate
  BY <1>49, faults + 1 \in Nat DEF HeartbeatLate, Fault, LeaseType
<1>50. CASE ActionExpires
  BY <1>50 DEF ActionExpires, ActionType
<1>51. CASE UNCHANGED vars
  BY <1>51 DEF vars
<1>52. CASE BranchMoves
  BY <1>52, faults + 1 \in Nat DEF BranchMoves, Fault, RemoteType
<1> QED
  BY <1>1, <1>2, <1>3, <1>4, <1>5, <1>6, <1>7, <1>8, <1>9, <1>10, <1>11, <1>12, <1>13,
     <1>14, <1>15, <1>16, <1>17, <1>18, <1>19, <1>20, <1>21, <1>22, <1>23, <1>24, <1>25,
     <1>26, <1>27, <1>28, <1>29, <1>30, <1>31, <1>32, <1>33, <1>34, <1>35, <1>36, <1>37,
     <1>38, <1>39, <1>40, <1>41, <1>42, <1>43, <1>44, <1>45, <1>46, <1>47, <1>48, <1>49,
     <1>50, <1>51, <1>52
  DEF Next, DriveStep, UserCommand, Surroundings, Reconciles
-----------------------------------------------------------------------------
(* The snapshot of the lease holder. *)

\* A controller that lets go of the run may have changed it in any way.
LEMMA HolderLeaves ==
    ASSUME TypeOK, SnapshotIsCurrent, NEW c \in Controller, Holds(c), Goto(c, "release"),
           lease' = lease
    PROVE  SnapshotIsCurrent'
BY DEF TypeOK, SnapshotIsCurrent, Holds, Goto, Driving, DriveType, DriveRow

\* A step of one controller that leaves run and lease alone.
LEMMA QuietStep ==
    ASSUME TypeOK, SnapshotIsCurrent, NEW c \in Controller, NEW w, Goto(c, w),
           ctl[c].pc \in Driving \/ w = "release", lease' = lease,
           UNCHANGED <<run.phase, run.activity, run.cycles, run.head>>
    PROVE  SnapshotIsCurrent'
BY DEF TypeOK, SnapshotIsCurrent, Holds, Goto, Driving, DriveType, DriveRow

\* Users move a run only while nobody holds it.
LEMMA NobodyHolds ==
    ASSUME TypeOK, lease.owner = "none", lease' = lease
    PROVE  SnapshotIsCurrent'
BY DeliveryAssumption DEF SnapshotIsCurrent, Holds

\* Nothing of the drive of a holder changes, and no lease begins.
LEMMA Elsewhere ==
    ASSUME TypeOK, SnapshotIsCurrent, run' = run,
           lease' = lease \/ ~lease'.live,
           \A c \in Controller : /\ ctl'[c].pc = ctl[c].pc
                                 /\ ctl'[c].phase = ctl[c].phase
                                 /\ ctl'[c].activity = ctl[c].activity
                                 /\ ctl'[c].cycle = ctl[c].cycle
                                 /\ ctl'[c].head = ctl[c].head
    PROVE  SnapshotIsCurrent'
BY DEF SnapshotIsCurrent, Holds

LEMMA SnapshotStep == TypeOK /\ SnapshotIsCurrent /\ [Next]_vars => SnapshotIsCurrent'
<1> SUFFICES ASSUME TypeOK, SnapshotIsCurrent, [Next]_vars PROVE SnapshotIsCurrent'
  OBVIOUS
<1> USE DEF rows, outside, budgets
<1>1. ASSUME NEW c \in Controller,
             \/ PauseRun(c) \/ FailRun(c) \/ BindInvocation(c) \/ PlanReady(c)
             \/ ReviewApproved(c) \/ ReviewRejected(c) \/ DispatchTurn(c)
             \/ FinishTurn(c) \/ MonitorBlocked(c) \/ ReviewError(c)
      PROVE  SnapshotIsCurrent'
  <2>1. Holds(c) /\ Goto(c, "release") /\ lease' = lease
    BY <1>1 DEF PauseRun, FailRun, BindInvocation, PlanReady, ReviewApproved,
       ReviewRejected, DispatchTurn, FinishTurn, MonitorBlocked, ReviewError, Current
  <2> QED
    BY <2>1, HolderLeaves
<1>2. ASSUME NEW c \in Controller,
             \/ LeaseLost(c) \/ EnsureWorkspace(c) \/ RequestReview(c)
             \/ CreateInvocation(c) \/ Observe(c) \/ Consume(c) \/ ObserveBusyTurn(c)
             \/ Push(c) \/ CreatePullRequest(c) \/ MarkUnknown(c) \/ MarkFailed(c)
             \/ DriveFails(c) \/ Refused(c)
      PROVE  SnapshotIsCurrent'
  <2>1. \E w : Goto(c, w) /\ (ctl[c].pc \in Driving \/ w = "release")
    BY <1>2 DEF LeaseLost, EnsureWorkspace, RequestReview, CreateInvocation, Observe,
       Consume, ObserveBusyTurn, Push, CreatePullRequest, MarkUnknown, MarkFailed,
       DriveFails, Refused, In, At, Driving, Pc
  <2>2. lease' = lease /\ run' = run
    BY <1>2 DEF LeaseLost, EnsureWorkspace, RequestReview, CreateInvocation, Observe,
       Consume, ObserveBusyTurn, Push, CreatePullRequest, MarkUnknown, MarkFailed,
       DriveFails, Refused
  <2> QED
    BY <2>1, <2>2, QuietStep
<1>3. ASSUME NEW c \in Controller, Claim(c) PROVE SnapshotIsCurrent'
  <2>1. /\ run' = run /\ lease' = [owner |-> c, live |-> TRUE]
        /\ ctl'[c].phase = run.phase /\ ctl'[c].activity = run.activity
        /\ ctl'[c].cycle = run.cycles /\ ctl'[c].head = run.head
    BY <1>3 DEF Claim, TypeOK
  <2> QED
    BY <2>1 DEF SnapshotIsCurrent, Holds
<1>4. ASSUME NEW c \in Controller, Release(c) \/ Crash(c) PROVE SnapshotIsCurrent'
  <2>1. run' = run /\ ctl' = [ctl EXCEPT ![c] = Idle] /\ Idle.pc \notin Driving
    BY <1>4 DEF Release, Crash, Idle, Driving
  <2>2. \A d \in Controller : Holds(d)' => Holds(d)
    BY <1>4, DeliveryAssumption DEF Release, Crash, Holds, Fault, TypeOK, LeaseType
  <2> QED
    BY <2>1, <2>2 DEF SnapshotIsCurrent, TypeOK
<1>5. ASSUME NEW c \in Controller, ObserveEndedTurn(c) PROVE SnapshotIsCurrent'
  <2>1. CASE Goto(c, "release")
    BY <1>5, <2>1, HolderLeaves DEF ObserveEndedTurn
  <2>2. CASE UNCHANGED run /\ (Goto(c, "pause") \/ Goto(c, "commit"))
    BY <1>5, <2>2, QuietStep DEF ObserveEndedTurn, In, At, Driving, Pc
  <2> QED
    BY <1>5, <2>1, <2>2 DEF ObserveEndedTurn
<1>6. ASSUME NEW c \in Controller, CommitChanges(c) \/ Watch(c) PROVE SnapshotIsCurrent'
  <2>1. /\ run' = run /\ lease' = lease
        /\ \A d \in Controller :
             /\ ctl'[d].pc \in Driving => ctl[d].pc \in Driving
             /\ ctl'[d].phase = ctl[d].phase /\ ctl'[d].activity = ctl[d].activity
             /\ ctl'[d].cycle = ctl[d].cycle /\ ctl'[d].head = ctl[d].head
    BY <1>6 DEF CommitChanges, Watch, Goto, In, At, TypeOK, DriveType, DriveRow, Driving, Pc
  <2> QED
    BY <2>1 DEF SnapshotIsCurrent, Holds
<1>7. ASSUME NEW c \in Controller, StagePublish(c) PROVE SnapshotIsCurrent'
  <2>1. ASSUME NEW w \in {"publish", "attach"}, NEW r \in Receipt, StageLeases(c, w, r)
        PROVE  SnapshotIsCurrent'
    <3>1. /\ run'.phase = "publishing" /\ run'.activity = "running"
          /\ run'.cycles = run.cycles /\ run'.head = run.head
      BY <2>1 DEF StageLeases, Moved, TypeOK, RunType, RunRow
    <3>2. ctl[c].phase = "publishing" /\ Holds(c) /\ ctl[c].pc \in Driving /\ lease' = lease
      BY <1>7 DEF StagePublish, Current, At, Driving, Pc
    <3>3. /\ run.cycles = ctl[c].cycle /\ run.head = ctl[c].head
      BY <3>2, HolderDrives
    <3>4. /\ ctl'[c].phase = ctl[c].phase /\ ctl'[c].activity = "running"
          /\ ctl'[c].cycle = ctl[c].cycle /\ ctl'[c].head = ctl[c].head
          /\ \A d \in Controller \ {c} : ctl'[d] = ctl[d]
      BY <2>1 DEF StageLeases, TypeOK, DriveType, DriveRow
    <3> QED
      BY <3>1, <3>2, <3>3, <3>4 DEF SnapshotIsCurrent, Holds
  <2>2. CASE StageRests(c) \/ StageFails(c)
    BY <1>7, <2>2, QuietStep DEF StageRests, StageFails, StagePublish, At, Driving, Pc
  <2> QED
    BY <1>7, <2>1, <2>2, StageShape
<1>8. ASSUME NEW c \in Controller, Reconciles(c) PROVE SnapshotIsCurrent'
  <2>1. \E w : Goto(c, w)
    BY <1>8, ReconcilesShape
  <2>2. ctl[c].pc \in Driving /\ lease' = lease
    BY <1>8, ReconcilesShape DEF Driving, Pc
  <2>3. UNCHANGED <<run.phase, run.activity, run.cycles, run.head>>
    BY <1>8, ReconcilesKeeps
  <2> QED
    BY <2>1, <2>2, <2>3, QuietStep
<1>9. ASSUME NEW c \in Controller, BindPullRequest(c) PROVE SnapshotIsCurrent'
  <2>1. CASE Goto(c, "release")
    BY <1>9, <2>1, HolderLeaves DEF BindPullRequest, Fenced, Current
  <2>2. CASE UNCHANGED run /\ (Goto(c, "reject") \/ Goto(c, "changed"))
    BY <1>9, <2>2, QuietStep DEF BindPullRequest, At, Driving, Pc
  <2> QED
    BY <1>9, <2>1, <2>2 DEF BindPullRequest
<1>10. ASSUME NEW c \in Controller, CompleteRun(c) PROVE SnapshotIsCurrent'
  <2>1. CASE Goto(c, "release")
    BY <1>10, <2>1, HolderLeaves DEF CompleteRun, Current
  <2>2. CASE UNCHANGED run /\ Goto(c, "pause")
    BY <1>10, <2>2, QuietStep DEF CompleteRun, At, Driving, Pc
  <2> QED
    BY <1>10, <2>1, <2>2 DEF CompleteRun
<1>11. CASE UserCommand
  <2>1. lease.owner = "none" /\ lease' = lease
    BY <1>11 DEF UserCommand, PauseByUser, CancelByUser, ResumeByUser, RetryByUser, MayStop,
       RetryAdmitted, RetryOffered
  <2> QED
    BY <2>1, NobodyHolds
<1>12. CASE Surroundings \/ UNCHANGED vars
  <2>1. run' = run
    BY <1>12 DEF Surroundings, CapabilityEnds, CapabilityFails, DeveloperStarts,
       DeveloperWrites, DeveloperEnds, OwnerReleased, Requeue, MonitorDecides,
       MonitorReturns, PullRequestCloses, BranchMoves, MonitorBecomes, GhostExpires, HeartbeatLate,
       ActionExpires, vars
  <2>2. lease' = lease \/ ~lease'.live
    BY <1>12 DEF Surroundings, CapabilityEnds, CapabilityFails, DeveloperStarts,
       DeveloperWrites, DeveloperEnds, OwnerReleased, Requeue, MonitorDecides,
       MonitorReturns, PullRequestCloses, BranchMoves, MonitorBecomes, GhostExpires, HeartbeatLate,
       ActionExpires, vars, TypeOK, LeaseType
  <2>3. ctl' = ctl \/ ctl' = [c \in Controller |-> [ctl[c] EXCEPT !.fresh = FALSE]]
    BY <1>12 DEF Surroundings, CapabilityEnds, CapabilityFails, DeveloperStarts,
       DeveloperWrites, DeveloperEnds, OwnerReleased, Requeue, MonitorDecides,
       MonitorReturns, PullRequestCloses, BranchMoves, MonitorBecomes, GhostExpires, HeartbeatLate,
       ActionExpires, vars
  <2>4. \A c \in Controller : /\ ctl'[c].pc = ctl[c].pc
                              /\ ctl'[c].phase = ctl[c].phase
                              /\ ctl'[c].activity = ctl[c].activity
                              /\ ctl'[c].cycle = ctl[c].cycle
                              /\ ctl'[c].head = ctl[c].head
    BY <2>3 DEF TypeOK, DriveType, DriveRow
  <2> QED
    BY <2>1, <2>2, <2>4, Elsewhere
<1> QED
  BY <1>1, <1>2, <1>3, <1>4, <1>5, <1>6, <1>7, <1>8, <1>9, <1>10, <1>11, <1>12
  DEF Next, DriveStep, Reconciles

-----------------------------------------------------------------------------
(* The approval chain. *)

\* What the chain says of the invocations, and of what controllers read there.
LEMMA InvocationsKept ==
    ASSUME TypeOK, ApprovalChain, inv' = inv, approved' = approved
    PROVE  \A h \in Handle : inv'[h].verdict = "approved" => inv'[h].head \in approved'
BY DEF ApprovalChain

\* A controller that moves on to a step that carries no approval.
Plain == Pc \ (Publishers \cup {"consume", "accept"})

LEMMA PlainStep ==
    ASSUME TypeOK, ApprovalChain, NEW c \in Controller, NEW w \in Plain, Goto(c, w),
           UNCHANGED <<inv, approved, pushed>>,
           run'.phase = "publishing" => run'.head \in approved,
           run'.outcome = "failed" /\ run'.failedIn = "publishing" => run'.head \in approved
    PROVE  ApprovalChain'
<1>1. \A d \in Controller :
        /\ ctl'[d].pc = ctl[d].pc \/ (ctl'[d].pc = w /\ d = c)
        /\ ctl'[d].phase = ctl[d].phase
        /\ ctl'[d].cycle = ctl[d].cycle /\ ctl'[d].head = ctl[d].head
  BY DEF Goto, TypeOK, DriveType, DriveRow
<1>2. w \notin Publishers /\ w \notin {"consume", "accept"}
  BY DEF Plain
<1>3. \A d \in Controller : ReviewRead(d)'
  BY <1>1, <1>2 DEF ApprovalChain, ReviewRead
<1>4. \A d \in Controller : ctl'[d].pc \in Publishers => ctl'[d].head \in approved'
  BY <1>1, <1>2 DEF ApprovalChain
<1> QED
  BY <1>3, <1>4, InvocationsKept DEF ApprovalChain, PublishedIsReviewed

\* The row of the run: what an event makes of an approval.
LEMMA MovedKeeps ==
    ASSUME NEW r \in RunType, NEW p \in Phase, NEW a \in Activity
    PROVE  /\ Moved(r, p, a).phase = p /\ Moved(r, p, a).outcome = "none"
           /\ Moved(r, p, a).head = r.head
BY DEF Moved, RunType, RunRow

LEMMA EndedKeeps ==
    ASSUME NEW r \in RunType, NEW o \in {"success", "cancelled"}
    PROVE  Ended(r, o).phase = "done" /\ Ended(r, o).outcome = o
BY DEF Ended, RunType, RunRow

LEMMA FailedKeeps ==
    ASSUME NEW r \in RunType, NEW b
    PROVE  /\ Failed(r, b).phase = "done" /\ Failed(r, b).failedIn = r.phase
           /\ Failed(r, b).head = r.head
BY DEF Failed, Ended, RunType, RunRow

LEMMA NextCycleKeeps ==
    ASSUME NEW r \in RunType
    PROVE  /\ NextCycle(r).phase = r.phase /\ NextCycle(r).outcome = r.outcome
           /\ NextCycle(r).head = r.head
BY DEF NextCycle, RunType, RunRow

LEMMA PausedKeeps ==
    ASSUME run \in RunType
    PROVE  /\ Paused.phase = run.phase /\ Paused.outcome = run.outcome
           /\ Paused.failedIn = run.failedIn /\ Paused.head = run.head
BY DEF Paused, RunType, RunRow

\* The part of the chain that the row of the run carries.
RunApproved(r, heads) ==
    /\ r.phase = "publishing" => r.head \in heads
    /\ r.outcome = "failed" /\ r.failedIn = "publishing" => r.head \in heads

LEMMA FinishTurnApproved ==
    ASSUME TypeOK, ApprovalChain, NEW c \in Controller, FinishTurn(c)
    PROVE  RunApproved(run', approved)
<1> DEFINE progressed == ctl[c].result # turn.before
           heard == ~progressed /\ task.report /\ task.generation = run.turns
           idle == IF progressed \/ heard THEN 0 ELSE run.noProgress + 1
           counted == Counted(c, idle)
<1>1. idle \in Nat /\ ctl[c].result \in Nat
  BY DEF TypeOK, RunType, RunRow, DriveType, DriveRow
<1>2. /\ counted \in RunType /\ counted.head = ctl[c].result
      /\ counted.phase = run.phase
  BY <1>1 DEF Counted, RunType, RunRow, TypeOK
<1>3. \/ run' = Moved(counted, "pre_review", "ready")
      \/ run' = Ended(counted, "success")
      \/ ~progressed /\ run' = Failed(counted, idle < MaxNoProgress)
      \/ run' = NextCycle(Moved(counted, "coding", "ready"))
  BY DEF FinishTurn
<1> HIDE DEF idle, counted
<1>4. CASE run' = Moved(counted, "pre_review", "ready")
  BY <1>2, <1>4, MovedKeeps DEF RunApproved, Phase, Activity
<1>5. CASE run' = Ended(counted, "success")
  BY <1>2, <1>5, EndedKeeps DEF RunApproved
<1>6. CASE ~progressed /\ run' = Failed(counted, idle < MaxNoProgress)
  <2>1. run.head = ctl[c].result
    BY <1>6 DEF FinishTurn
  <2> QED
    BY <1>2, <1>6, <2>1, FailedKeeps DEF RunApproved, ApprovalChain
<1>7. CASE run' = NextCycle(Moved(counted, "coding", "ready"))
  <2>1. /\ Moved(counted, "coding", "ready") \in RunType
        /\ Moved(counted, "coding", "ready").phase = "coding"
        /\ Moved(counted, "coding", "ready").outcome = "none"
    BY <1>2, MovedType, MovedKeeps DEF Phase, Activity
  <2>2. run'.phase = "coding" /\ run'.outcome = "none"
    BY <1>7, <2>1 DEF NextCycle, RunType, RunRow
  <2> QED
    BY <2>2 DEF RunApproved
<1> QED
  BY <1>3, <1>4, <1>5, <1>6, <1>7

LEMMA ReviewApprovedChain ==
    ASSUME TypeOK, ApprovalChain, NEW c \in Controller, ReviewApproved(c)
    PROVE  ApprovalChain'
<1>1. ctl[c].pc \in Driving
  BY DEF ReviewApproved, At, Pc, Driving
<1>2. <<"review", ctl[c].cycle>> \in Handle
  BY <1>1 DEF TypeOK, DriveType, Handle, Capability
<1>3. run.head \in approved
  BY <1>2 DEF ApprovalChain, ReviewRead, ReviewApproved, Verdict, At
<1>4. run'.phase = "publishing" /\ run'.outcome = "none" /\ run'.head = run.head
  BY MovedKeeps DEF ReviewApproved, TypeOK, Phase, Activity
<1> QED
  BY <1>3, <1>4, PlainStep DEF ReviewApproved, Plain, Pc, Publishers, outside

\* A publishing controller goes one step further, on the head it started with.
LEMMA PublisherStep ==
    ASSUME TypeOK, ApprovalChain, NEW c \in Controller, NEW w \in Publishers, Goto(c, w),
           ctl[c].head \in approved, UNCHANGED <<inv, approved>>,
           UNCHANGED <<run.phase, run.outcome, run.failedIn, run.head>>,
           pushed' \subseteq pushed \cup {ctl[c].head}
    PROVE  ApprovalChain'
<1>1. \A d \in Controller :
        /\ ctl'[d].pc = ctl[d].pc \/ (ctl'[d].pc = w /\ d = c)
        /\ ctl'[d].phase = ctl[d].phase
        /\ ctl'[d].cycle = ctl[d].cycle /\ ctl'[d].head = ctl[d].head
  BY DEF Goto, TypeOK, DriveType, DriveRow
<1>2. w \notin {"consume", "accept"}
  BY DEF Publishers
<1>3. \A d \in Controller : ReviewRead(d)'
  BY <1>1, <1>2 DEF ApprovalChain, ReviewRead
<1>4. \A d \in Controller : ctl'[d].pc \in Publishers => ctl'[d].head \in approved'
  BY <1>1 DEF ApprovalChain
<1> QED
  BY <1>3, <1>4, InvocationsKept DEF ApprovalChain, PublishedIsReviewed

LEMMA ChainStep ==
    TypeOK /\ SnapshotIsCurrent /\ ApprovalChain /\ [Next]_vars => ApprovalChain'
<1> SUFFICES ASSUME TypeOK, SnapshotIsCurrent, ApprovalChain, [Next]_vars
             PROVE  ApprovalChain'
  OBVIOUS
<1> USE DEF rows, outside, budgets
<1>0. RunApproved(run, approved)
  BY DEF ApprovalChain, RunApproved
\* Steps of a controller that leave the run alone and carry no approval.
<1>1. ASSUME NEW c \in Controller,
             \/ LeaseLost(c) \/ EnsureWorkspace(c) \/ RequestReview(c)
             \/ ObserveBusyTurn(c) \/ MarkUnknown(c) \/ MarkFailed(c) \/ Refused(c)
             \/ DriveFails(c)
      PROVE  ApprovalChain'
  <2>1. /\ \E w \in Plain : Goto(c, w)
        /\ UNCHANGED <<run, inv, approved, pushed>>
    BY <1>1 DEF LeaseLost, EnsureWorkspace, RequestReview, ObserveBusyTurn, MarkUnknown,
       MarkFailed, Refused, DriveFails, Plain, Pc, Publishers
  <2> QED
    BY <2>1, <1>0, PlainStep DEF RunApproved
\* Decisions: one event of the run, then the controller lets go.
<1>2. ASSUME NEW c \in Controller,
             \/ BindInvocation(c) \/ PlanReady(c) \/ DispatchTurn(c)
             \/ ReviewRejected(c) \/ MonitorBlocked(c) \/ FailRun(c) \/ ReviewError(c)
             \/ PauseRun(c) \/ FinishTurn(c) \/ ObserveEndedTurn(c) \/ CompleteRun(c)
             \/ BindPullRequest(c)
      PROVE  ApprovalChain'
  <2>1. \E w \in Plain : Goto(c, w)
    BY <1>2 DEF BindInvocation, PlanReady, DispatchTurn, ReviewRejected, MonitorBlocked,
       FailRun, ReviewError, PauseRun, FinishTurn, ObserveEndedTurn, CompleteRun,
       BindPullRequest, Plain, Pc, Publishers
  <2>2. UNCHANGED <<inv, approved, pushed>>
    BY <1>2 DEF BindInvocation, PlanReady, DispatchTurn, ReviewRejected, MonitorBlocked,
       FailRun, ReviewError, PauseRun, FinishTurn, ObserveEndedTurn, CompleteRun,
       BindPullRequest
  <2>3. RunApproved(run', approved)
    <3>1. CASE BindInvocation(c)
      <4>1. run.phase \in Phase
        BY <3>1, HolderDrives DEF BindInvocation, Current, At, Driving, Pc
      <4> QED
        BY <3>1, <4>1, <1>0, MovedKeeps DEF BindInvocation, TypeOK, RunApproved, Activity
    <3>2. CASE PlanReady(c)
      BY <3>2, MovedKeeps DEF PlanReady, TypeOK, RunApproved, Phase, Activity
    <3>3. CASE DispatchTurn(c)
      <4>1. /\ Moved(run, "coding", "running") \in RunType
            /\ Moved(run, "coding", "running").phase = "coding"
            /\ Moved(run, "coding", "running").outcome = "none"
        BY MovedType, MovedKeeps DEF TypeOK, Phase, Activity
      <4>2. run'.phase = "coding" /\ run'.outcome = "none"
        BY <3>3, <4>1 DEF DispatchTurn, RunType, RunRow
      <4> QED
        BY <4>2 DEF RunApproved
    <3>4. CASE run' = NextCycle(Moved(run, "planning", "ready"))
      <4>1. /\ Moved(run, "planning", "ready") \in RunType
            /\ Moved(run, "planning", "ready").phase = "planning"
            /\ Moved(run, "planning", "ready").outcome = "none"
        BY MovedType, MovedKeeps DEF TypeOK, Phase, Activity
      <4>2. run'.phase = "planning" /\ run'.outcome = "none"
        BY <3>4, <4>1 DEF NextCycle, RunType, RunRow
      <4> QED
        BY <4>2 DEF RunApproved
    <3>5. CASE run' = Failed(run, TRUE) \/ run' = Failed(run, FALSE) \/ run' = run
      BY <3>5, <1>0, FailedKeeps DEF TypeOK, RunApproved
    <3>6. CASE run' = Paused
      BY <3>6, <1>0, PausedKeeps DEF TypeOK, RunApproved
    <3>7. CASE FinishTurn(c)
      BY <3>7, FinishTurnApproved
    <3>8. CASE run' = Ended(run, "success")
      BY <3>8, EndedKeeps DEF TypeOK, RunApproved
    <3>9. CASE run' = [Moved(run, "monitoring", "waiting") EXCEPT !.bound = TRUE]
      <4>1. /\ Moved(run, "monitoring", "waiting") \in RunType
            /\ Moved(run, "monitoring", "waiting").phase = "monitoring"
            /\ Moved(run, "monitoring", "waiting").outcome = "none"
        BY MovedType, MovedKeeps DEF TypeOK, Phase, Activity
      <4>2. run'.phase = "monitoring" /\ run'.outcome = "none"
        BY <3>9, <4>1 DEF RunType, RunRow
      <4> QED
        BY <4>2 DEF RunApproved
    <3> QED
      BY <1>2, <3>1, <3>2, <3>3, <3>4, <3>5, <3>6, <3>7, <3>8, <3>9
      DEF ReviewRejected, MonitorBlocked, FailRun, ReviewError, PauseRun,
          ObserveEndedTurn, CompleteRun, BindPullRequest
  <2> QED
    BY <2>1, <2>2, <2>3, PlainStep DEF RunApproved
<1>3. ASSUME NEW c \in Controller, ReviewApproved(c) PROVE ApprovalChain'
  BY <1>3, ReviewApprovedChain
<1>4. ASSUME NEW c \in Controller, Claim(c) \/ Release(c) \/ Crash(c) PROVE ApprovalChain'
  <2>1. /\ UNCHANGED <<run, inv, approved, pushed>>
        /\ \A d \in Controller : d # c => ctl'[d] = ctl[d]
        /\ ctl'[c].pc \in {"drive", "idle"}
    BY <1>4 DEF Claim, Release, Crash, Idle, TypeOK
  <2> QED
    BY <2>1 DEF ApprovalChain, ReviewRead, PublishedIsReviewed, Publishers
<1>5. ASSUME NEW c \in Controller, CreateInvocation(c) PROVE ApprovalChain'
  <2> DEFINE h == <<Kind(ctl[c].phase), ctl[c].cycle>>
  <2>1. \A i \in Handle : inv'[i] = inv[i] \/ (inv[i].status = "none" /\ inv'[i].verdict = "none")
    BY <1>5 DEF CreateInvocation, TypeOK
  <2>2. /\ UNCHANGED <<run, approved, pushed>>
        /\ \E w \in {"pause", "bind"} : Goto(c, w)
    BY <1>5 DEF CreateInvocation
  <2>3. \A d \in Controller :
          /\ ctl'[d].pc = ctl[d].pc \/ ctl'[d].pc \in {"pause", "bind"}
          /\ ctl'[d].phase = ctl[d].phase
          /\ ctl'[d].cycle = ctl[d].cycle /\ ctl'[d].head = ctl[d].head
    BY <2>2 DEF Goto, TypeOK, DriveType, DriveRow
  <2>4. \A d \in Controller : ctl'[d].pc \in {"consume", "accept"} =>
          ctl[d].pc = ctl'[d].pc /\ <<"review", ctl[d].cycle>> \in Handle
    BY <2>3 DEF TypeOK, DriveType, Driving, Pc, Handle, Capability
  <2>5. \A d \in Controller : ReviewRead(d)'
    BY <2>1, <2>3, <2>4 DEF ApprovalChain, ReviewRead
  <2>6. \A d \in Controller : ctl'[d].pc \in Publishers => ctl'[d].head \in approved'
    BY <2>2, <2>3 DEF ApprovalChain, Publishers
  <2>7. \A i \in Handle : inv'[i].verdict = "approved" => inv'[i].head \in approved'
    BY <2>1, <2>2 DEF ApprovalChain
  <2> QED
    BY <2>2, <2>5, <2>6, <2>7 DEF ApprovalChain, PublishedIsReviewed
<1>6. ASSUME NEW c \in Controller, Observe(c) PROVE ApprovalChain'
  <2> DEFINE i == inv[<<Kind(ctl[c].phase), ctl[c].cycle>>]
  <2>1. /\ UNCHANGED <<run, inv, approved, pushed>>
        /\ \A d \in Controller : d # c => ctl'[d] = ctl[d]
        /\ ctl'[c].phase = ctl[c].phase /\ ctl'[c].cycle = ctl[c].cycle
        /\ ctl'[c].head = ctl[c].head
    BY <1>6 DEF Observe, Goto, TypeOK, DriveType, DriveRow
  <2>2. ctl'[c].pc \notin Publishers
    BY <1>6, ObservedStatus DEF Observe, Goto, Publishers, TypeOK, DriveType, DriveRow
  <2>3. ctl'[c].pc \in {"consume", "accept"} /\ ctl[c].phase = "pre_review" =>
          i.head = ctl[c].head /\ i.status # "none"
    <3>1. i.status \in {"none", "queued", "ready", "completed", "failed"}
      BY <1>6, ObservedStatus
    <3>2. ctl'[c].pc \in {"consume", "accept"} => i.status \in {"ready", "completed"}
      BY <1>6, <3>1 DEF Observe, Goto, TypeOK, DriveType, DriveRow
    <3>3. /\ i.status \in {"ready", "completed"} /\ ctl[c].phase = "pre_review"
          /\ i.head # ctl[c].head
          => ctl'[c].pc = "pause"
      BY <1>6 DEF Observe, Goto, TypeOK, DriveType, DriveRow
    <3> HIDE DEF i
    <3> QED
      BY <3>2, <3>3
  <2> QED
    BY <2>1, <2>2, <2>3 DEF ApprovalChain, ReviewRead, PublishedIsReviewed, Kind
<1>7. ASSUME NEW c \in Controller, Consume(c) PROVE ApprovalChain'
  <2>1. \A h \in Handle : /\ inv'[h].verdict = inv[h].verdict /\ inv'[h].head = inv[h].head
                          /\ inv'[h].status = inv[h].status \/ inv'[h].status = "completed"
    BY <1>7 DEF Consume, TypeOK, InvocationType
  <2>2. \A d \in Controller :
          /\ ctl'[d].pc = ctl[d].pc \/ (ctl'[d].pc = "accept" /\ ctl[d].pc = "consume")
          /\ ctl'[d].phase = ctl[d].phase
          /\ ctl'[d].cycle = ctl[d].cycle /\ ctl'[d].head = ctl[d].head
    BY <1>7 DEF Consume, At, Goto, TypeOK, DriveType, DriveRow
  <2>3. \A d \in Controller : ctl[d].pc \in {"consume", "accept"} =>
          <<"review", ctl[d].cycle>> \in Handle
    BY DEF TypeOK, DriveType, Driving, Pc, Handle, Capability
  <2>4. \A d \in Controller : ReviewRead(d)'
    BY <2>1, <2>2, <2>3 DEF ApprovalChain, ReviewRead
  <2>5. UNCHANGED <<run, approved, pushed>>
    BY <1>7 DEF Consume
  <2>6. \A d \in Controller : ctl'[d].pc \in Publishers => ctl'[d].head \in approved'
    BY <2>2, <2>5 DEF ApprovalChain, Publishers
  <2> QED
    BY <2>1, <2>4, <2>5, <2>6 DEF ApprovalChain, PublishedIsReviewed
<1>8. ASSUME NEW c \in Controller, CommitChanges(c) \/ Watch(c) PROVE ApprovalChain'
  <2>1. /\ UNCHANGED <<run, inv, approved, pushed>>
        /\ \A d \in Controller : d # c => ctl'[d] = ctl[d]
        /\ ctl'[c].pc \in {"finish", "pause", "release", "verify", "fail"}
    BY <1>8 DEF CommitChanges, Watch, Goto, TypeOK, DriveType, DriveRow
  <2> QED
    BY <2>1 DEF ApprovalChain, ReviewRead, PublishedIsReviewed, Publishers
<1>9. ASSUME NEW c \in Controller, StagePublish(c) PROVE ApprovalChain'
  <2>1. UNCHANGED <<inv, approved, pushed>>
    BY <1>9 DEF StagePublish
  <2>2. ASSUME NEW w \in {"publish", "attach"}, NEW r \in Receipt, StageLeases(c, w, r)
        PROVE  ApprovalChain'
    <3>1. Holds(c) /\ ctl[c].pc \in Driving /\ run.phase = "publishing"
      BY <1>9 DEF StagePublish, Current, At, Driving, Pc
    <3>2. ctl[c].head \in approved /\ run.head \in approved
      BY <3>1, HolderDrives DEF ApprovalChain
    <3>3. run'.head = run.head /\ run'.outcome = "none"
      BY <2>2, MovedKeeps DEF StageLeases, TypeOK, Phase, Activity
    <3>4. \A d \in Controller :
            /\ ctl'[d].pc = ctl[d].pc \/ (ctl'[d].pc \in {"publish", "attach"} /\ d = c)
            /\ ctl'[d].phase = ctl[d].phase
            /\ ctl'[d].cycle = ctl[d].cycle /\ ctl'[d].head = ctl[d].head
      BY <2>2 DEF StageLeases, TypeOK, DriveType, DriveRow
    <3>5. \A d \in Controller : ReviewRead(d)'
      BY <2>1, <3>4 DEF ApprovalChain, ReviewRead
    <3>6. \A d \in Controller : ctl'[d].pc \in Publishers => ctl'[d].head \in approved'
      BY <2>1, <3>2, <3>4 DEF ApprovalChain
    <3> QED
      BY <2>1, <3>2, <3>3, <3>5, <3>6, InvocationsKept DEF ApprovalChain, PublishedIsReviewed
  <2>3. CASE StageRests(c) \/ StageFails(c)
    BY <2>1, <2>3, <1>0, PlainStep DEF StageRests, StageFails, RunApproved, Plain, Pc, Publishers
  <2> QED
    BY <1>9, <2>2, <2>3, StageShape
<1>10. ASSUME NEW c \in Controller, Reconciles(c) PROVE ApprovalChain'
  <2>1. /\ UNCHANGED <<inv, approved, pushed>>
        /\ UNCHANGED <<run.phase, run.outcome, run.failedIn, run.head>>
    BY <1>10, ReconcilesShape, ReconcilesKeeps
  <2>2. PICK w \in Recorded : Goto(c, w)
    BY <1>10, ReconcilesShape
  <2>3. CASE w \in {"unknown", "changed"}
    BY <2>1, <2>2, <2>3, <1>0, PlainStep DEF RunApproved, Plain, Pc, Publishers
  <2>4. CASE w \in Publishers
    <3>1. ctl[c].head \in approved
      BY <1>10, ReconcilesShape DEF ApprovalChain, Publishers
    <3> QED
      BY <2>1, <2>2, <2>4, <3>1, PublisherStep
  <2> QED
    BY <2>3, <2>4 DEF Recorded, Publishers
<1>11. ASSUME NEW c \in Controller, Push(c) PROVE ApprovalChain'
  <2>1. ctl[c].head \in approved
    BY <1>11 DEF Push, At, ApprovalChain, Publishers
  <2>2. CASE pushed' = pushed \cup {ctl[c].head} /\ Goto(c, "open")
    BY <1>11, <2>1, <2>2, PublisherStep DEF Push, Publishers
  <2>3. CASE UNCHANGED pushed /\ Goto(c, "reject")
    BY <1>11, <2>3, <1>0, PlainStep DEF Push, RunApproved, Plain, Pc, Publishers
  <2> QED
    BY <1>11, <2>2, <2>3 DEF Push
<1>12. CASE UserCommand
  <2>1. UNCHANGED <<inv, approved, pushed, ctl>>
    BY <1>12 DEF UserCommand, PauseByUser, CancelByUser, ResumeByUser, RetryByUser
  <2>2. RunApproved(run', approved)
    <3>1. CASE PauseByUser
      BY <3>1, <1>0, PausedKeeps DEF PauseByUser, TypeOK, RunApproved
    <3>2. CASE CancelByUser
      BY <3>2, EndedKeeps DEF CancelByUser, TypeOK, RunApproved
    <3>3. CASE ResumeByUser
      BY <3>3, <1>0 DEF ResumeByUser, TypeOK, RunType, RunRow, RunApproved
    <3>4. CASE RetryByUser
      <4> DEFINE a == IF run.failedIn = "monitoring" THEN "waiting" ELSE "ready"
      <4>1. run.failedIn \in Phase /\ run.outcome = "failed" /\ a \in Activity
        BY <3>4 DEF RetryByUser, RetryAdmitted, RetryOffered, TypeOK, RunType, RunRow, Activity
      <4>2. run' = NextCycle(Moved(run, run.failedIn, a))
        BY <3>4 DEF RetryByUser
      <4> HIDE DEF a
      <4>3. run'.phase = run.failedIn /\ run'.outcome = "none" /\ run'.head = run.head
        BY <4>1, <4>2, MovedType, MovedKeeps, NextCycleKeeps DEF TypeOK
      <4> QED
        BY <4>1, <4>3, <1>0 DEF RunApproved
    <3> QED
      BY <1>12, <3>1, <3>2, <3>3, <3>4 DEF UserCommand
  <2> QED
    BY <2>1, <2>2 DEF ApprovalChain, RunApproved, ReviewRead, PublishedIsReviewed
<1>13. ASSUME NEW h \in Handle, CapabilityEnds(h) \/ CapabilityFails(h) PROVE ApprovalChain'
  <2>1. /\ UNCHANGED <<run, ctl, pushed>>
        /\ \A i \in Handle : i # h => inv'[i] = inv[i]
        /\ inv'[h].head = inv[h].head /\ inv'[h].status # "none"
        /\ approved \subseteq approved'
        /\ inv'[h].verdict = "approved" => inv[h].verdict = "approved" \/ inv[h].head \in approved'
    BY <1>13 DEF CapabilityEnds, CapabilityFails, TypeOK, InvocationType
  <2>2. \A i \in Handle : inv'[i].verdict = "approved" => inv'[i].head \in approved'
    BY <2>1 DEF ApprovalChain
  <2>3. \A d \in Controller : ctl[d].pc \in {"consume", "accept"} =>
          <<"review", ctl[d].cycle>> \in Handle
    BY DEF TypeOK, DriveType, Driving, Pc, Handle, Capability
  <2>4. \A d \in Controller : ReviewRead(d)'
    BY <2>1, <2>3 DEF ApprovalChain, ReviewRead
  <2> QED
    BY <2>1, <2>2, <2>4 DEF ApprovalChain, PublishedIsReviewed
<1>14. CASE \/ DeveloperStarts \/ DeveloperWrites \/ DeveloperEnds \/ OwnerReleased
            \/ Requeue \/ MonitorDecides \/ MonitorReturns \/ PullRequestCloses \/ BranchMoves
            \/ GhostExpires \/ HeartbeatLate \/ ActionExpires \/ UNCHANGED vars
  <2>1. UNCHANGED <<run, inv, approved, pushed>>
    BY <1>14 DEF DeveloperStarts, DeveloperWrites, DeveloperEnds, OwnerReleased, Requeue,
       MonitorDecides, MonitorReturns, PullRequestCloses, BranchMoves, MonitorBecomes, GhostExpires,
       HeartbeatLate, ActionExpires, vars
  <2>2. ctl' = ctl \/ ctl' = [c \in Controller |-> [ctl[c] EXCEPT !.fresh = FALSE]]
    BY <1>14 DEF DeveloperStarts, DeveloperWrites, DeveloperEnds, OwnerReleased, Requeue,
       MonitorDecides, MonitorReturns, PullRequestCloses, BranchMoves, MonitorBecomes, GhostExpires,
       HeartbeatLate, ActionExpires, vars
  <2>3. \A d \in Controller :
          /\ ctl'[d].pc = ctl[d].pc /\ ctl'[d].phase = ctl[d].phase
          /\ ctl'[d].cycle = ctl[d].cycle /\ ctl'[d].head = ctl[d].head
    BY <2>2 DEF TypeOK, DriveType, DriveRow
  <2> QED
    BY <2>1, <2>3 DEF ApprovalChain, ReviewRead, PublishedIsReviewed
<1>15. ASSUME NEW c \in Controller, CreatePullRequest(c) PROVE ApprovalChain'
  <2>1. UNCHANGED <<run, inv, approved, pushed>> /\ ctl[c].pc = "create"
    BY <1>15, CreateShape
  <2>2. PICK w \in Created : Goto(c, w)
    BY <1>15, CreateShape
  <2>3. CASE w = "unknown"
    BY <2>1, <2>2, <2>3, <1>0, PlainStep DEF RunApproved, Plain, Pc, Publishers
  <2>4. CASE w \in {"announce", "recover"}
    <3>1. ctl[c].head \in approved
      BY <2>1 DEF ApprovalChain, Publishers
    <3> QED
      BY <2>1, <2>2, <2>4, <3>1, PublisherStep DEF Publishers
  <2> QED
    BY <2>3, <2>4 DEF Created
<1> QED
  BY <1>1, <1>2, <1>3, <1>4, <1>5, <1>6, <1>7, <1>8, <1>9, <1>10, <1>11, <1>12, <1>13,
     <1>14, <1>15 DEF Next, DriveStep, Surroundings, Reconciles

-----------------------------------------------------------------------------
(* The theorems. *)

LEMMA InvInit == Init => DeliveryInv
<1> SUFFICES ASSUME Init PROVE DeliveryInv
  OBVIOUS
<1> USE DeliveryAssumption DEF Init
<1>1. run \in RunType
  BY DEF NewRun, RunType, RunRow, Phase, Activity, Stopped, Cycle
<1>2. cycle \in CycleType
  BY NewCycleType DEF ActiveCycle
<1>3. ctl \in [Controller -> DriveType]
  BY DEF Idle, DriveType, DriveRow, Pc, Driving
<1>4. TypeOK
  BY <1>1, <1>2, <1>3 DEF TypeOK, LeaseType, InvocationType, TurnType, TaskType, Reusable,
     ActionType, Receipt, GitType, RemoteType, MonitorType
<1>5. SnapshotIsCurrent
  BY DEF SnapshotIsCurrent, Holds
<1>6. ApprovalChain
  BY DEF ApprovalChain, ReviewRead, PublishedIsReviewed, Publishers, Idle, NewRun
<1> QED
  BY <1>4, <1>5, <1>6 DEF DeliveryInv

LEMMA InvStep == DeliveryInv /\ [Next]_vars => DeliveryInv'
BY TypeStep, SnapshotStep, ChainStep DEF DeliveryInv

\* The inductive invariant: every transaction of a drive, every command and
\* every fault keeps the types, the snapshot of the holder and the approvals.
THEOREM DeliveryInvariant == Spec => []DeliveryInv
BY InvInit, InvStep, PTL DEF Spec

\* Every reachable state is well typed: the rows are consistent, and a run
\* never has more cycles than its budget, whatever fails or is retried.
THEOREM DeliveryTypeCorrect == Spec => []TypeOK
<1>1. DeliveryInv => TypeOK
  BY DEF DeliveryInv
<1> QED
  BY <1>1, DeliveryInvariant, PTL

\* The lease of _claim_run works: with any number of controllers, crashes and
\* late heartbeats, its holder acts on the run as it is.
THEOREM SnapshotHolds == Spec => []SnapshotIsCurrent
<1>1. DeliveryInv => SnapshotIsCurrent
  BY DEF DeliveryInv
<1> QED
  BY <1>1, DeliveryInvariant, PTL

\* The gate of the code review holds: _drive_publishing, the fences and
\* push_exact never let out a head no review approved.
THEOREM PublishedReviewed == Spec => []PublishedIsReviewed
<1>1. DeliveryInv => PublishedIsReviewed
  BY DEF DeliveryInv, ApprovalChain
<1> QED
  BY <1>1, DeliveryInvariant, PTL

=============================================================================
