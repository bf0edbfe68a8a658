-------------------------- MODULE DeliveryRun_proofs --------------------------
(***************************************************************************)
(* Proofs about the rows around a run of Delivery: the developer Task works *)
(* for one turn at a time, an ended run owns nothing, the worktree stays at *)
(* the head of the run, and a success is what was approved, published and   *)
(* judged.  For any number of controllers, cycles, faults and commands.     *)
(***************************************************************************)
EXTENDS Delivery_proofs

-----------------------------------------------------------------------------
(* What an event does to the columns of the run. *)

LEMMA MovedColumns ==
    ASSUME NEW r \in RunType, NEW p \in Phase, NEW a \in Activity
    PROVE  LET m == Moved(r, p, a) IN
           /\ m \in RunType
           /\ m.phase = p /\ m.activity = a /\ m.from = "none" /\ m.outcome = "none"
           /\ m.failedIn = r.failedIn /\ m.cycles = r.cycles /\ m.head = r.head
           /\ m.turns = r.turns
<1>1. Moved(r, p, a) \in RunType
  BY MovedType
<1>2. r \in RunRow
  BY DEF RunType
<1> QED
  BY <1>1, <1>2 DEF Moved, RunRow

LEMMA EndedColumns ==
    ASSUME NEW r \in RunType, NEW o \in {"success", "cancelled"}
    PROVE  LET m == Ended(r, o) IN
           /\ m.phase = "done" /\ m.activity = "terminal" /\ m.from = "none"
           /\ m.outcome = o /\ m.failedIn = r.failedIn /\ m.cycles = r.cycles
           /\ m.head = r.head /\ m.turns = r.turns
BY DEF Ended, RunType, RunRow

LEMMA FailedColumns ==
    ASSUME NEW r \in RunType, NEW b
    PROVE  LET m == Failed(r, b) IN
           /\ m.phase = "done" /\ m.activity = "terminal" /\ m.from = "none"
           /\ m.outcome = "failed" /\ m.failedIn = r.phase /\ m.cycles = r.cycles
           /\ m.head = r.head /\ m.turns = r.turns
BY DEF Failed, Ended, RunType, RunRow

LEMMA NextCycleColumns ==
    ASSUME NEW r \in RunType
    PROVE  LET m == NextCycle(r) IN
           /\ m.phase = r.phase /\ m.activity = r.activity /\ m.from = r.from
           /\ m.outcome = r.outcome /\ m.failedIn = r.failedIn
           /\ m.head = r.head /\ m.turns = r.turns
BY DEF NextCycle, RunType, RunRow

LEMMA PausedColumns ==
    ASSUME run \in RunType
    PROVE  LET m == Paused IN
           /\ m.phase = run.phase /\ m.activity = "paused" /\ m.from = run.activity
           /\ m.outcome = run.outcome /\ m.failedIn = run.failedIn
           /\ m.cycles = run.cycles /\ m.head = run.head /\ m.turns = run.turns
BY DEF Paused, RunType, RunRow

LEMMA BoundColumns ==
    ASSUME NEW r \in RunType
    PROVE  LET m == [r EXCEPT !.bound = TRUE] IN
           /\ m.phase = r.phase /\ m.activity = r.activity /\ m.from = r.from
           /\ m.outcome = r.outcome /\ m.failedIn = r.failedIn /\ m.cycles = r.cycles
           /\ m.head = r.head /\ m.turns = r.turns
BY DEF RunType, RunRow

\* The row after a completed turn.
LEMMA CountedColumns ==
    ASSUME TypeOK, NEW c \in Controller, NEW i \in Nat
    PROVE  LET m == Counted(c, i) IN
           /\ m \in RunType
           /\ m.phase = run.phase /\ m.activity = run.activity /\ m.from = run.from
           /\ m.outcome = run.outcome /\ m.failedIn = run.failedIn
           /\ m.cycles = run.cycles /\ m.head = ctl[c].result /\ m.turns = run.turns
<1>1. ctl[c].result \in Nat /\ run \in RunType /\ run \in RunRow
  BY DEF TypeOK, DriveType, DriveRow, RunType
<1> QED
  BY <1>1 DEF Counted, RunType, RunRow

\* The four ends of a completed turn.
LEMMA FinishTurnRun ==
    ASSUME TypeOK, NEW c \in Controller, FinishTurn(c)
    PROVE  /\ run'.turns = run.turns /\ run'.head = ctl[c].result
           /\ \/ /\ run'.phase = "pre_review" /\ run'.activity = "ready"
                 /\ run'.outcome = "none" /\ cycle' = [cycle EXCEPT !.result = TRUE,
                                                                 !.status = "pre_review"]
              \/ /\ run'.phase = "done" /\ run'.outcome = "success"
                 /\ cycle' = [cycle EXCEPT !.result = TRUE, !.status = "completed"]
              \/ /\ run'.phase = "done" /\ run'.outcome = "failed"
                 /\ run'.failedIn = run.phase
                 /\ cycle' = [cycle EXCEPT !.result = TRUE, !.status = "failed"]
              \/ /\ run'.phase = "coding" /\ run'.activity = "ready"
                 /\ run'.outcome = "none"
                 /\ cycle' = [NewCycle("coding") EXCEPT !.plan = TRUE]
<1> DEFINE progressed == ctl[c].result # turn.before
           heard == ~progressed /\ task.report /\ task.generation = run.turns
           idle == IF progressed \/ heard THEN 0 ELSE run.noProgress + 1
           counted == Counted(c, idle)
           done == [cycle EXCEPT !.result = TRUE]
<1>1. idle \in Nat
  BY DEF TypeOK, RunType, RunRow
<1>2. \/ /\ run' = Moved(counted, "pre_review", "ready")
         /\ cycle' = [done EXCEPT !.status = "pre_review"]
      \/ /\ run' = Ended(counted, "success")
         /\ cycle' = [done EXCEPT !.status = "completed"]
      \/ /\ run' = Failed(counted, idle < MaxNoProgress)
         /\ cycle' = [done EXCEPT !.status = "failed"]
      \/ /\ run' = NextCycle(Moved(counted, "coding", "ready"))
         /\ cycle' = [NewCycle("coding") EXCEPT !.plan = TRUE]
  BY DEF FinishTurn
<1>3. /\ counted \in RunType /\ counted.phase = run.phase
      /\ counted.head = ctl[c].result /\ counted.turns = run.turns
  BY <1>1, CountedColumns
<1> HIDE DEF idle, counted
<1>4. CASE run' = Moved(counted, "pre_review", "ready")
  BY <1>2, <1>3, <1>4, MovedColumns, EndedColumns, FailedColumns, NextCycleColumns
  DEF Phase, Activity, TypeOK, CycleType
<1>5. CASE run' = Ended(counted, "success")
  BY <1>2, <1>3, <1>5, MovedColumns, EndedColumns, FailedColumns, NextCycleColumns
  DEF Phase, Activity, TypeOK, CycleType
<1>6. CASE run' = Failed(counted, idle < MaxNoProgress)
  BY <1>2, <1>3, <1>6, MovedColumns, EndedColumns, FailedColumns, NextCycleColumns
  DEF Phase, Activity, TypeOK, CycleType
<1>7. CASE run' = NextCycle(Moved(counted, "coding", "ready"))
  BY <1>2, <1>3, <1>7, MovedColumns, EndedColumns, FailedColumns, NextCycleColumns
  DEF Phase, Activity, TypeOK, CycleType
<1> QED
  BY <1>2, <1>4, <1>5, <1>6, <1>7

-----------------------------------------------------------------------------
(* The step of a controller belongs to its phase. *)

LEMMA GotoPlace ==
    ASSUME TypeOK, StepsInPlace, NEW c \in Controller, NEW w, Goto(c, w),
           InPlace([ctl[c] EXCEPT !.pc = w])
    PROVE  StepsInPlace'
BY DEF TypeOK, StepsInPlace, Goto

LEMMA PlaceStep ==
    TypeOK /\ StepsInPlace /\ [Next]_vars => StepsInPlace'
<1> SUFFICES ASSUME TypeOK, StepsInPlace, [Next]_vars PROVE StepsInPlace'
  OBVIOUS
<1> USE DEF rows, outside, budgets
<1>0. \A c \in Controller : ctl[c] \in DriveRow /\ InPlace(ctl[c])
  BY DEF TypeOK, DriveType, StepsInPlace
\* Steps that end a drive, or pause the run.
<1>1. ASSUME NEW c \in Controller, Goto(c, "release") \/ Goto(c, "pause")
      PROVE  StepsInPlace'
  <2>1. ASSUME NEW w \in {"release", "pause"} PROVE InPlace([ctl[c] EXCEPT !.pc = w])
    BY <1>0, <2>1 DEF InPlace, Publishers, DriveRow
  <2> QED
    BY <1>1, <2>1, GotoPlace
\* Steps within one phase.
<1>2. ASSUME NEW c \in Controller, ctl[c].phase \in {"planning", "pre_review"},
             NEW w \in {"request", "bind", "consume", "accept"}, Goto(c, w)
      PROVE  StepsInPlace'
  <2>1. InPlace([ctl[c] EXCEPT !.pc = w])
    BY <1>0, <1>2 DEF InPlace, Publishers, DriveRow
  <2> QED
    BY <1>2, <2>1, GotoPlace
<1>3. ASSUME NEW c \in Controller, ctl[c].phase = "publishing",
             NEW w \in Publishers \cup {"unknown", "changed", "reject"}, Goto(c, w)
      PROVE  StepsInPlace'
  <2>1. InPlace([ctl[c] EXCEPT !.pc = w])
    BY <1>0, <1>3 DEF InPlace, Publishers, DriveRow
  <2> QED
    BY <1>3, <2>1, GotoPlace
<1>4. ASSUME NEW c \in Controller, Goto(c, "fail"), ctl[c].phase # "coding"
      PROVE  StepsInPlace'
  <2>1. InPlace([ctl[c] EXCEPT !.pc = "fail"])
    BY <1>0, <1>4 DEF InPlace, Publishers, DriveRow
  <2> QED
    BY <1>4, <2>1, GotoPlace
<1>5. ASSUME NEW c \in Controller,
             \/ LeaseLost(c) \/ PauseRun(c) \/ FailRun(c) \/ BindInvocation(c) \/ PlanReady(c)
             \/ ReviewApproved(c) \/ ReviewRejected(c) \/ DispatchTurn(c) \/ FinishTurn(c)
             \/ MarkUnknown(c) \/ CompleteRun(c) \/ MonitorBlocked(c) \/ ReviewError(c)
             \/ ObserveBusyTurn(c)
      PROVE  StepsInPlace'
  BY <1>1, <1>5 DEF LeaseLost, PauseRun, FailRun, BindInvocation, PlanReady, ReviewApproved,
     ReviewRejected, DispatchTurn, FinishTurn, MarkUnknown, CompleteRun, MonitorBlocked,
     ReviewError, ObserveBusyTurn
<1>6. ASSUME NEW c \in Controller, Claim(c) \/ Release(c) \/ Crash(c) PROVE StepsInPlace'
  <2>1. /\ \A d \in Controller : d # c => ctl'[d] = ctl[d]
        /\ ctl'[c].pc \in {"drive", "idle"}
    BY <1>6 DEF Claim, Release, Crash, Idle, TypeOK
  <2> QED
    BY <2>1 DEF StepsInPlace, InPlace, Publishers
<1>7. ASSUME NEW c \in Controller,
             EnsureWorkspace(c) \/ RequestReview(c) \/ CreateInvocation(c) \/ Consume(c)
      PROVE  StepsInPlace'
  <2>1. ctl[c].phase \in {"planning", "pre_review"}
    BY <1>0, <1>7 DEF EnsureWorkspace, RequestReview, CreateInvocation, Consume, In, At, InPlace
  <2>2. PICK w \in {"pause", "request", "bind", "accept"} : Goto(c, w)
    BY <1>7 DEF EnsureWorkspace, RequestReview, CreateInvocation, Consume
  <2>3. CASE w \in {"request", "bind", "accept"}
    BY <1>2, <2>1, <2>2, <2>3
  <2> QED
    BY <1>1, <2>2, <2>3
<1>8. ASSUME NEW c \in Controller, Observe(c) PROVE StepsInPlace'
  <2>1. ctl[c].phase \in {"planning", "pre_review"}
    BY <1>8 DEF Observe, In
  <2>2. PICK w \in {"pause", "release", "fail", "consume", "accept"} : Goto(c, w)
    BY <1>8, ObservedStatus DEF Observe
  <2>3. CASE w \in {"consume", "accept"}
    BY <1>2, <2>1, <2>2, <2>3
  <2> QED
    BY <1>1, <1>4, <2>1, <2>2, <2>3
<1>9. ASSUME NEW c \in Controller, ObserveEndedTurn(c) PROVE StepsInPlace'
  <2>1. CASE Goto(c, "commit")
    <3>1. InPlace([ctl[c] EXCEPT !.pc = "commit"])
      BY <1>0, <1>9 DEF ObserveEndedTurn, In, InPlace, Publishers, DriveRow
    <3> QED
      BY <2>1, <3>1, GotoPlace
  <2> QED
    BY <1>1, <1>9, <2>1 DEF ObserveEndedTurn
<1>10. ASSUME NEW c \in Controller, CommitChanges(c) PROVE StepsInPlace'
  <2>1. CASE Goto(c, "pause")
    BY <1>1, <2>1
  <2>2. CASE ~Goto(c, "pause")
    <3>1. /\ \A d \in Controller : d # c => ctl'[d] = ctl[d]
          /\ ctl'[c].pc = "finish" /\ ctl'[c].phase = ctl[c].phase
          /\ ctl'[c].activity = ctl[c].activity /\ ctl[c].pc = "commit"
      BY <1>0, <1>10, <2>2 DEF CommitChanges, At, TypeOK, DriveType, DriveRow
    <3> QED
      BY <1>0, <3>1 DEF StepsInPlace, InPlace, Publishers
  <2> QED
    BY <2>1, <2>2
<1>11. ASSUME NEW c \in Controller, StagePublish(c) PROVE StepsInPlace'
  <2>1. ASSUME NEW w \in {"publish", "attach"}, NEW r \in Receipt, StageLeases(c, w, r)
        PROVE  StepsInPlace'
    <3>1. /\ \A d \in Controller : d # c => ctl'[d] = ctl[d]
          /\ ctl'[c].pc \in {"publish", "attach"} /\ ctl'[c].phase = "publishing"
      BY <1>0, <1>11, <2>1 DEF StagePublish, StageLeases, TypeOK, DriveType, DriveRow
    <3> QED
      BY <1>0, <3>1 DEF StepsInPlace, InPlace, Publishers
  <2>2. CASE StageRests(c) \/ StageFails(c)
    BY <1>1, <1>4, <1>11, <2>2 DEF StagePublish, StageRests, StageFails
  <2> QED
    BY <1>11, <2>1, <2>2, StageShape
<1>12. ASSUME NEW c \in Controller,
             \/ Reconciles(c) \/ Push(c) \/ CreatePullRequest(c) \/ BindPullRequest(c)
             \/ MarkFailed(c)
      PROVE  StepsInPlace'
  <2>1. ctl[c].phase = "publishing"
    BY <1>0, <1>12, ReconcilesShape DEF Push, CreatePullRequest, BindPullRequest, MarkFailed,
       At, InPlace, Publishers
  <2>2. \E w \in Publishers \cup {"unknown", "changed", "reject", "release", "fail"} :
           Goto(c, w)
    BY <1>12, ReconcilesShape DEF Recorded, Push, CreatePullRequest, BindPullRequest,
       MarkFailed, Publishers
  <2> QED
    BY <1>1, <1>3, <1>4, <2>1, <2>2
<1>13. ASSUME NEW c \in Controller, Watch(c) PROVE StepsInPlace'
  <2>1. /\ \A d \in Controller : d # c => ctl'[d] = ctl[d]
        /\ ctl'[c].pc \in {"pause", "release", "verify", "fail"}
        /\ ctl'[c].phase = "monitoring"
    BY <1>0, <1>13 DEF Watch, In, TypeOK, DriveType, DriveRow
  <2> QED
    BY <1>0, <2>1 DEF StepsInPlace, InPlace, Publishers
<1>14. ASSUME NEW c \in Controller, DriveFails(c) \/ Refused(c) PROVE StepsInPlace'
  <2>1. CASE Goto(c, "release")
    BY <1>1, <2>1
  <2>2. CASE ctl[c].pc \in Publishers /\ (Goto(c, "unknown") \/ Goto(c, "reject"))
    <3>1. ctl[c].phase = "publishing"
      BY <1>0, <2>2 DEF InPlace
    <3> QED
      BY <1>3, <2>2, <3>1
  <2>3. CASE At(c, "request") /\ Goto(c, "fail")
    <3>1. ctl[c].phase # "coding"
      BY <1>0, <2>3 DEF InPlace, At
    <3> QED
      BY <1>4, <2>3, <3>1
  <2> QED
    BY <1>14, <2>1, <2>2, <2>3 DEF DriveFails, Refused, Publishers
<1>15. CASE UserCommand \/ Surroundings \/ UNCHANGED vars
  <2>1. ctl' = ctl \/ ctl' = [c \in Controller |-> [ctl[c] EXCEPT !.fresh = FALSE]]
    BY <1>15 DEF UserCommand, PauseByUser, CancelByUser, ResumeByUser, RetryByUser,
       Surroundings, CapabilityEnds, CapabilityFails, DeveloperStarts, DeveloperWrites,
       DeveloperEnds, OwnerReleased, Requeue, MonitorDecides, MonitorReturns,
       PullRequestCloses, BranchMoves, MonitorBecomes, GhostExpires, HeartbeatLate, ActionExpires, vars
  <2>2. \A c \in Controller : /\ ctl'[c].pc = ctl[c].pc
                              /\ ctl'[c].phase = ctl[c].phase
                              /\ ctl'[c].activity = ctl[c].activity
    BY <1>0, <2>1 DEF DriveRow
  <2> QED
    BY <1>0, <2>2 DEF StepsInPlace, InPlace
<1> QED
  BY <1>5, <1>6, <1>7, <1>8, <1>9, <1>10, <1>11, <1>12, <1>13, <1>14, <1>15
  DEF Next, DriveStep, Reconciles

-----------------------------------------------------------------------------
(* The developer Task works for one turn of a run that codes. *)

Worked == ~TaskFree \/ turn.status \in ActiveTurn

\* Outside coding, and before a turn is dispatched, the Task is free.
LEMMA NotWorked ==
    ASSUME TurnOwned, run.phase # "coding" \/ run.activity \notin {"running", "paused"}
    PROVE  ~Worked
BY DEF TurnOwned, Worked

LEMMA StaysFree ==
    ASSUME ~Worked, turn' = turn,
           task' = task \/ (task'.status \in Reusable /\ task'.settled = task.settled)
    PROVE  TurnOwned'
BY DEF Worked, TurnOwned, TaskFree

\* A free Task is closed with the run, or returned to the loop.
LEMMA Disposed ==
    ASSUME TypeOK, NEW s \in Reusable
    PROVE  /\ [task EXCEPT !.status = s].status = s
           /\ [task EXCEPT !.status = s].settled = task.settled
BY DEF TypeOK, TaskType

LEMMA TurnStep ==
    TypeOK /\ SnapshotIsCurrent /\ StepsInPlace /\ TurnOwned /\ [Next]_vars => TurnOwned'
<1> SUFFICES ASSUME TypeOK, SnapshotIsCurrent, StepsInPlace, TurnOwned, [Next]_vars
             PROVE  TurnOwned'
  OBVIOUS
<1> USE DEF rows, outside, budgets
<1>1. ASSUME UNCHANGED <<run, turn, task>> PROVE TurnOwned'
  BY <1>1 DEF TurnOwned, TaskFree
<1>2. ASSUME NEW c \in Controller, PauseRun(c) PROVE TurnOwned'
  <2>1. CASE run.activity \in Stopped
    BY <1>1, <1>2, <2>1 DEF PauseRun
  <2>2. CASE run.activity \notin Stopped
    BY <1>2, <2>2, PausedColumns DEF PauseRun, TurnOwned, TaskFree, TypeOK, Stopped
  <2> QED
    BY <2>1, <2>2
\* Decisions of a holder that drives another phase, or has no turn yet.
<1>3. ASSUME NEW c \in Controller, Holds(c), ctl[c].pc \in Driving,
             ctl[c].phase # "coding" \/ ctl[c].activity \notin {"running", "paused"},
             turn' = turn,
             task' = task \/ \E s \in Reusable : task' = [task EXCEPT !.status = s]
      PROVE  TurnOwned'
  <2>1. ~Worked
    BY <1>3, HolderDrives, NotWorked
  <2> QED
    BY <1>3, <2>1, StaysFree, Disposed
<1>4. ASSUME NEW c \in Controller,
             \/ FailRun(c) \/ BindInvocation(c) \/ PlanReady(c) \/ ReviewApproved(c)
             \/ ReviewRejected(c)
      PROVE  TurnOwned'
  <2>1. ctl[c].phase # "coding" /\ ctl[c].pc \in Driving
    BY <1>4 DEF FailRun, BindInvocation, PlanReady, ReviewApproved, ReviewRejected, At,
       StepsInPlace, InPlace, Driving, Pc
  <2> QED
    BY <1>3, <1>4, <2>1 DEF FailRun, BindInvocation, PlanReady, ReviewApproved,
       ReviewRejected, Current, Reusable, Terminated
<1>5. ASSUME NEW c \in Controller,
             \/ StagePublish(c) \/ Reconciles(c) \/ BindPullRequest(c)
             \/ MarkUnknown(c) \/ MarkFailed(c)
      PROVE  TurnOwned'
  <2>1. ctl[c].phase # "coding" /\ ctl[c].pc \in Driving
    BY <1>5, ReconcilesShape DEF StagePublish, BindPullRequest, MarkUnknown,
       MarkFailed, At, StepsInPlace, InPlace, Publishers, Driving, Pc
  <2>2. Holds(c) /\ turn' = turn /\ task' = task
    BY <1>5, ReconcilesShape DEF StagePublish, BindPullRequest, MarkUnknown, MarkFailed,
       Fenced, Current
  <2> QED
    BY <1>3, <2>1, <2>2
<1>6. ASSUME NEW c \in Controller, CompleteRun(c) \/ MonitorBlocked(c) \/ ReviewError(c)
      PROVE  TurnOwned'
  <2>1. ctl[c].phase # "coding" /\ ctl[c].pc \in Driving
    BY <1>6 DEF CompleteRun, MonitorBlocked, ReviewError, At, In, StepsInPlace, InPlace,
       Driving, Pc
  <2> QED
    BY <1>3, <1>6, <2>1 DEF CompleteRun, MonitorBlocked, ReviewError, Current, Reusable,
       Terminated
<1>7. ASSUME NEW c \in Controller, DispatchTurn(c) PROVE TurnOwned'
  <2>1. /\ run'.phase = "coding" /\ run'.activity = "running" /\ run'.cycles = run.cycles
    BY <1>7, MovedColumns DEF DispatchTurn, Phase, Activity, RunType, RunRow, TypeOK
  <2>2. turn'.status = "queued" /\ turn'.cycle = run.cycles
    BY <1>7 DEF DispatchTurn
  <2> QED
    BY <2>1, <2>2 DEF TurnOwned, ActiveTurn
<1>8. ASSUME NEW c \in Controller, ObserveBusyTurn(c) PROVE TurnOwned'
  <2>1. Worked
    BY <1>8 DEF ObserveBusyTurn, Worked, TaskFree, Busy, Reusable, Terminated
  <2>2. turn'.cycle = turn.cycle /\ turn'.status \in {turn.status, "running"}
    BY <1>8 DEF ObserveBusyTurn, TypeOK, TurnType
  <2>3. run' = run /\ task' = task
    BY <1>8 DEF ObserveBusyTurn
  <2> QED
    BY <2>1, <2>2, <2>3 DEF Worked, TurnOwned, ActiveTurn
<1>9. ASSUME NEW c \in Controller, ObserveEndedTurn(c) PROVE TurnOwned'
  <2>1. CASE UNCHANGED <<run, turn, task>>
    BY <1>1, <2>1
  <2>2. CASE turn' = [turn EXCEPT !.status = "failed"] /\ task.settled /\ task' = task
    BY <1>9, <2>2 DEF ObserveEndedTurn, TurnOwned, TaskFree, Reusable, ActiveTurn,
       TypeOK, TurnType
  <2> QED
    BY <1>9, <2>1, <2>2 DEF ObserveEndedTurn
<1>10. ASSUME NEW c \in Controller, FinishTurn(c) PROVE TurnOwned'
  <2>1. turn'.status = "completed"
    BY <1>10 DEF FinishTurn, TypeOK, TurnType
  <2>2. task'.settled /\ task'.status \in Reusable
    BY <1>10 DEF FinishTurn, TypeOK, TaskType, Reusable, Terminated
  <2> QED
    BY <2>1, <2>2 DEF TurnOwned, TaskFree, ActiveTurn
<1>11. CASE PauseByUser \/ CancelByUser
  <2>1. ~Worked
    BY <1>11, NotWorked DEF PauseByUser, CancelByUser, MayStop
  <2>2. turn' = turn /\ (task' = task \/ task' = [task EXCEPT !.status = "cancelled"])
    BY <1>11 DEF PauseByUser, CancelByUser
  <2>3. [task EXCEPT !.status = "cancelled"].settled = task.settled
        /\ [task EXCEPT !.status = "cancelled"].status \in Reusable
    BY Disposed DEF Reusable, Terminated
  <2> QED
    BY <2>1, <2>2, <2>3, StaysFree
<1>12. CASE ResumeByUser
  BY <1>12 DEF ResumeByUser, TurnOwned, TaskFree, TypeOK, RunType, RunRow
<1>13. CASE RetryByUser
  <2>1. ~Worked
    BY <1>13 DEF RetryByUser, RetryAdmitted, Worked
  <2> QED
    BY <1>13, <2>1, StaysFree, Disposed DEF RetryByUser, Reusable
\* What happens to a Task that works leaves its turn and its run alone.
<1>14. ASSUME Worked, UNCHANGED <<run, turn>> PROVE TurnOwned'
  BY <1>14 DEF TurnOwned, Worked
<1>15. CASE DeveloperStarts \/ DeveloperEnds \/ OwnerReleased \/ Requeue
  BY <1>14, <1>15 DEF DeveloperStarts, DeveloperEnds, OwnerReleased, Requeue, Worked,
     TaskFree, Reusable, Terminated
<1>16. ASSUME NEW c \in Controller,
              \/ Claim(c) \/ Release(c) \/ LeaseLost(c) \/ EnsureWorkspace(c)
              \/ RequestReview(c) \/ CreateInvocation(c) \/ Observe(c) \/ Consume(c)
              \/ CommitChanges(c) \/ Push(c) \/ CreatePullRequest(c) \/ Watch(c)
              \/ DriveFails(c) \/ Refused(c) \/ Crash(c)
       PROVE  TurnOwned'
  BY <1>1, <1>16 DEF Claim, Release, LeaseLost, EnsureWorkspace, RequestReview,
     CreateInvocation, Observe, Consume, CommitChanges, Push, CreatePullRequest, Watch,
     DriveFails, Refused, Crash
<1>17. CASE \/ \E h \in Handle : CapabilityEnds(h) \/ CapabilityFails(h)
            \/ DeveloperWrites \/ MonitorDecides \/ MonitorReturns \/ PullRequestCloses \/ BranchMoves
            \/ GhostExpires \/ HeartbeatLate \/ ActionExpires \/ UNCHANGED vars
  BY <1>1, <1>17 DEF CapabilityEnds, CapabilityFails, DeveloperWrites, MonitorDecides,
     MonitorReturns, PullRequestCloses, BranchMoves, MonitorBecomes, GhostExpires, HeartbeatLate,
     ActionExpires, vars
<1> QED
  BY <1>2, <1>4, <1>5, <1>6, <1>7, <1>8, <1>9, <1>10, <1>11, <1>12, <1>13, <1>15, <1>16,
     <1>17 DEF Next, DriveStep, Reconciles, UserCommand, Surroundings

-----------------------------------------------------------------------------
(* The rows of the cycle and of the outbox follow the run. *)

CycleFollows ==
    /\ run.activity = "terminal" => cycle.status \notin ActiveCycle
    /\ run.phase = "monitoring" => cycle.status = "completed"
    /\ run.outcome = "failed" /\ run.failedIn = "monitoring" => cycle.status = "completed"

OutboxFollows == act.status \in ActiveAction => run.phase = "publishing"

FailsQuiet ==
    \A c \in Controller : Holds(c) /\ ctl[c].pc = "fail" => act.status \notin ActiveAction

\* A closed cycle keeps the status it had when it was not active.
LEMMA ClosedStatus ==
    ASSUME TypeOK, NEW s \in {"failed", "cancelled"}
    PROVE  /\ Closed(s).status \notin ActiveCycle
           /\ cycle.status = "completed" => Closed(s).status = "completed"
BY DEF Closed, TypeOK, CycleType, ActiveCycle

LEMMA CycleStep ==
    TypeOK /\ SnapshotIsCurrent /\ StepsInPlace /\ CycleFollows /\ [Next]_vars
      => CycleFollows'
<1> SUFFICES ASSUME TypeOK, SnapshotIsCurrent, StepsInPlace, CycleFollows, [Next]_vars
             PROVE  CycleFollows'
  OBVIOUS
<1> USE DEF rows, outside, budgets
<1>0. run \in RunType /\ cycle \in CycleType
  BY DEF TypeOK
<1>1. ASSUME cycle' = cycle,
             UNCHANGED <<run.phase, run.outcome, run.failedIn>>,
             run'.activity = "terminal" => run.activity = "terminal"
      PROVE  CycleFollows'
  BY <1>1 DEF CycleFollows
<1>2. ASSUME NEW c \in Controller, PauseRun(c) PROVE CycleFollows'
  <2>1. CASE run.activity \in Stopped
    BY <1>1, <1>2, <2>1 DEF PauseRun
  <2>2. CASE run.activity \notin Stopped
    BY <1>0, <1>1, <1>2, <2>2, PausedColumns DEF PauseRun
  <2> QED
    BY <2>1, <2>2
<1>3. ASSUME NEW c \in Controller, FailRun(c) \/ ReviewError(c) PROVE CycleFollows'
  <2>1. run' = Failed(run, FALSE) /\ cycle' = Closed("failed")
    BY <1>3 DEF FailRun, ReviewError
  <2> QED
    BY <1>0, <2>1, FailedColumns, ClosedStatus DEF CycleFollows
\* A run that goes on to a phase before monitoring.
<1>4. ASSUME NEW p \in Phase \ {"monitoring"}, run'.phase = p, run'.activity # "terminal",
             run'.outcome = "none"
      PROVE  CycleFollows'
  BY <1>4 DEF CycleFollows
<1>5. ASSUME NEW c \in Controller, BindInvocation(c) \/ PlanReady(c) \/ ReviewApproved(c)
      PROVE  CycleFollows'
  <2>1. CASE BindInvocation(c)
    <3>1. run.phase \in {"planning", "pre_review"}
      BY <2>1, HolderDrives DEF BindInvocation, Current, At, StepsInPlace, InPlace, Driving, Pc
    <3>2. run'.phase = run.phase /\ run'.activity = "waiting" /\ run'.outcome = "none"
      BY <1>0, <2>1, <3>1, MovedColumns DEF BindInvocation, Phase, Activity
    <3> QED
      BY <1>4, <3>1, <3>2 DEF Phase
  <2>2. CASE PlanReady(c)
    BY <1>0, <1>4, <2>2, MovedColumns DEF PlanReady, Phase, Activity
  <2>3. CASE ReviewApproved(c)
    BY <1>0, <1>4, <2>3, MovedColumns DEF ReviewApproved, Phase, Activity
  <2> QED
    BY <1>5, <2>1, <2>2, <2>3
<1>6. ASSUME NEW c \in Controller, ReviewRejected(c) \/ MonitorBlocked(c) PROVE CycleFollows'
  <2>1. CASE run' = NextCycle(Moved(run, "planning", "ready"))
    BY <1>0, <1>4, <2>1, MovedColumns, NextCycleColumns DEF Phase, Activity
  <2>2. CASE ReviewRejected(c) /\ run' = Failed(run, TRUE) /\ cycle'.status = "failed"
    <3>1. run.phase = "pre_review"
      BY <2>2, HolderDrives DEF ReviewRejected, Current, At, Driving, Pc
    <3> QED
      BY <1>0, <2>2, <3>1, FailedColumns DEF CycleFollows, ActiveCycle
  <2>3. CASE MonitorBlocked(c) /\ run' = Failed(run, TRUE) /\ cycle' = cycle
    <3>1. run.phase = "monitoring"
      BY <2>3, HolderDrives DEF MonitorBlocked, Current, At, In, Driving, Pc
    <3> QED
      BY <1>0, <2>3, <3>1, FailedColumns DEF CycleFollows, ActiveCycle
  <2> QED
    BY <1>0, <1>6, <2>1, <2>2, <2>3 DEF ReviewRejected, MonitorBlocked, CycleType
<1>7. ASSUME NEW c \in Controller, DispatchTurn(c) PROVE CycleFollows'
  <2>1. /\ run'.phase = "coding" /\ run'.activity = "running" /\ run'.outcome = "none"
    BY <1>0, <1>7, MovedColumns DEF DispatchTurn, Phase, Activity, RunType, RunRow
  <2> QED
    BY <1>4, <2>1 DEF Phase
<1>8. ASSUME NEW c \in Controller, ObserveEndedTurn(c) PROVE CycleFollows'
  <2>1. CASE UNCHANGED <<run, cycle>>
    BY <1>1, <2>1
  <2>2. CASE run' = Failed(run, FALSE) /\ cycle' = [cycle EXCEPT !.status = "failed"]
    <3>1. run.phase = "coding"
      BY <1>8, HolderDrives DEF ObserveEndedTurn, At, In, Driving, Pc
    <3> QED
      BY <1>0, <2>2, <3>1, FailedColumns DEF CycleFollows, ActiveCycle, CycleType
  <2> QED
    BY <1>8, <2>1, <2>2 DEF ObserveEndedTurn
<1>9. ASSUME NEW c \in Controller, FinishTurn(c) PROVE CycleFollows'
  <2>1. run.phase = "coding"
    BY <1>9, HolderDrives DEF FinishTurn, Current, At, Driving, Pc, StepsInPlace, InPlace
  <2>2. \/ run'.phase \in {"pre_review", "coding"} /\ run'.activity = "ready"
           /\ run'.outcome = "none"
        \/ /\ run'.phase = "done" /\ run'.outcome \in {"success", "failed"}
           /\ run'.outcome = "failed" => run'.failedIn = "coding"
           /\ cycle'.status \in {"completed", "failed"}
    BY <1>0, <1>9, <2>1, FinishTurnRun DEF CycleType
  <2> QED
    BY <1>4, <2>2 DEF CycleFollows, ActiveCycle, Phase
<1>10. ASSUME NEW c \in Controller, StagePublish(c) PROVE CycleFollows'
  <2>1. CASE run' = run
    BY <1>1, <1>10, <2>1 DEF StagePublish
  <2>2. CASE run' = Moved(run, "publishing", "running")
    BY <1>0, <1>4, <2>2, MovedColumns DEF Phase, Activity
  <2> QED
    BY <1>10, <2>1, <2>2, StageShape DEF StageLeases, StageRests, StageFails
<1>11. ASSUME NEW c \in Controller, Reconciles(c) PROVE CycleFollows'
  <2>1. cycle' = cycle /\ (run' = run \/ run' = [run EXCEPT !.bound = TRUE])
    BY <1>11, ReconcilesShape
  <2> QED
    BY <1>0, <1>1, <2>1, BoundColumns
<1>12. ASSUME NEW c \in Controller, BindPullRequest(c) PROVE CycleFollows'
  <2>1. CASE UNCHANGED <<run, cycle>>
    BY <1>1, <2>1
  <2>2. CASE /\ run' = [Moved(run, "monitoring", "waiting") EXCEPT !.bound = TRUE]
             /\ cycle' = [cycle EXCEPT !.status = "completed"]
    <3>1. run'.phase = "monitoring" /\ run'.activity = "waiting" /\ run'.outcome = "none"
      BY <1>0, <2>2, MovedColumns, BoundColumns DEF Phase, Activity
    <3>2. cycle'.status = "completed"
      BY <1>0, <2>2 DEF CycleType
    <3> QED
      BY <3>1, <3>2 DEF CycleFollows
  <2> QED
    BY <1>12, <2>1, <2>2 DEF BindPullRequest
<1>13. ASSUME NEW c \in Controller, CompleteRun(c) PROVE CycleFollows'
  <2>1. run.phase = "monitoring" /\ cycle.status = "completed"
    BY <1>13, HolderDrives DEF CompleteRun, Current, At, Driving, Pc, StepsInPlace, InPlace,
       CycleFollows
  <2>2. cycle' = cycle /\ (run' = run \/ run' = Ended(run, "success"))
    BY <1>13 DEF CompleteRun
  <2> QED
    BY <1>0, <1>1, <2>1, <2>2, EndedColumns DEF CycleFollows, ActiveCycle
<1>14. CASE PauseByUser
  BY <1>0, <1>1, <1>14, PausedColumns DEF PauseByUser
<1>15. CASE CancelByUser
  BY <1>0, <1>15, EndedColumns, ClosedStatus DEF CancelByUser, CycleFollows
<1>16. CASE ResumeByUser
  <2>1. /\ run'.phase = run.phase /\ run'.outcome = run.outcome
        /\ run'.failedIn = run.failedIn /\ run'.activity # "terminal"
    BY <1>0, <1>16 DEF ResumeByUser, RunType, RunRow, Activity
  <2> QED
    BY <1>1, <1>16, <2>1 DEF ResumeByUser
<1>17. CASE RetryByUser
  <2>1. run.outcome = "failed" /\ cycle.status = "failed" /\ run.failedIn \in Phase
    BY <1>0, <1>17 DEF RetryByUser, RetryAdmitted, RetryOffered, RunType, RunRow
  <2>2. run.failedIn # "monitoring"
    BY <2>1 DEF CycleFollows
  <2>3. run' = NextCycle(Moved(run, run.failedIn, "ready"))
    BY <1>17, <2>2 DEF RetryByUser
  <2>4. /\ run'.phase = run.failedIn /\ run'.activity = "ready" /\ run'.outcome = "none"
    <3> DEFINE m == Moved(run, run.failedIn, "ready")
    <3>1. m \in RunType /\ m.phase = run.failedIn /\ m.activity = "ready" /\ m.outcome = "none"
      BY <1>0, <2>1, MovedColumns DEF Activity
    <3>2. run' = NextCycle(m)
      BY <2>3
    <3> HIDE DEF m
    <3> QED
      BY <3>1, <3>2, NextCycleColumns
  <2> QED
    BY <1>4, <2>1, <2>2, <2>4
<1>18. ASSUME NEW c \in Controller,
              \/ Claim(c) \/ Release(c) \/ LeaseLost(c) \/ EnsureWorkspace(c)
              \/ RequestReview(c) \/ CreateInvocation(c) \/ Observe(c) \/ Consume(c)
              \/ ObserveBusyTurn(c) \/ CommitChanges(c) \/ Push(c)
              \/ CreatePullRequest(c) \/ MarkUnknown(c) \/ MarkFailed(c) \/ Watch(c)
              \/ DriveFails(c) \/ Refused(c) \/ Crash(c)
       PROVE  CycleFollows'
  BY <1>1, <1>18 DEF Claim, Release, LeaseLost, EnsureWorkspace, RequestReview,
     CreateInvocation, Observe, Consume, ObserveBusyTurn, CommitChanges, Push,
     CreatePullRequest, MarkUnknown, MarkFailed, Watch, DriveFails, Refused, Crash
<1>19. CASE Surroundings \/ UNCHANGED vars
  BY <1>1, <1>19 DEF Surroundings, CapabilityEnds, CapabilityFails, DeveloperStarts,
     DeveloperWrites, DeveloperEnds, OwnerReleased, Requeue, MonitorDecides, MonitorReturns,
     PullRequestCloses, BranchMoves, MonitorBecomes, GhostExpires, HeartbeatLate, ActionExpires, vars
<1> QED
  BY <1>2, <1>3, <1>5, <1>6, <1>7, <1>8, <1>9, <1>10, <1>11, <1>12, <1>13, <1>14, <1>15,
     <1>16, <1>17, <1>18, <1>19 DEF Next, DriveStep, Reconciles, UserCommand

\* Whoever comes to the end of a drive that fails owns no action.
LEMMA FailsKept ==
    ASSUME FailsQuiet, act'.status \in ActiveAction => act.status \in ActiveAction,
           \A c \in Controller :
              Holds(c)' /\ ctl'[c].pc = "fail" => Holds(c) /\ ctl[c].pc = "fail"
    PROVE  FailsQuiet'
BY DEF FailsQuiet

LEMMA GoesElsewhere ==
    ASSUME TypeOK, FailsQuiet, NEW c \in Controller, NEW w, Goto(c, w), w # "fail",
           lease' = lease, act'.status \in ActiveAction => act.status \in ActiveAction
    PROVE  FailsQuiet'
<1>1. \A d \in Controller : ctl'[d].pc = "fail" => ctl[d].pc = "fail"
  BY DEF TypeOK, Goto, DriveType, DriveRow
<1> QED
  BY <1>1, FailsKept DEF Holds

\* It failed in a phase without an outbox.
LEMMA FailsHere ==
    ASSUME TypeOK, SnapshotIsCurrent, OutboxFollows, FailsQuiet, NEW c \in Controller,
           ctl[c].pc \in Driving, ctl[c].phase # "publishing",
           lease' = lease, act' = act, \A d \in Controller : d # c => ctl'[d] = ctl[d]
    PROVE  FailsQuiet'
<1>1. Holds(c) => act.status \notin ActiveAction
  BY HolderDrives DEF OutboxFollows
<1> QED
  BY <1>1 DEF FailsQuiet, Holds

\* The action is settled before the drive fails, or belongs to its holder.
LEMMA SettledHere ==
    ASSUME act'.status \notin ActiveAction
    PROVE  FailsQuiet' /\ OutboxFollows'
BY DEF FailsQuiet, OutboxFollows

LEMMA OutboxStep ==
    TypeOK /\ SnapshotIsCurrent /\ StepsInPlace /\ OutboxFollows /\ FailsQuiet /\ [Next]_vars
      => OutboxFollows'
<1> SUFFICES ASSUME TypeOK, SnapshotIsCurrent, StepsInPlace, OutboxFollows, FailsQuiet,
                    [Next]_vars
             PROVE  OutboxFollows'
  OBVIOUS
<1> USE DEF rows, outside, budgets
<1>0. run \in RunType
  BY DEF TypeOK
<1>1. ASSUME act'.status \in ActiveAction => act.status \in ActiveAction,
             run'.phase = run.phase
      PROVE  OutboxFollows'
  BY <1>1 DEF OutboxFollows
<1>2. ASSUME act' = act, act.status \notin ActiveAction PROVE OutboxFollows'
  BY <1>2 DEF OutboxFollows
<1>3. ASSUME NEW c \in Controller, PauseRun(c) PROVE OutboxFollows'
  BY <1>0, <1>1, <1>3, PausedColumns DEF PauseRun
<1>4. ASSUME NEW c \in Controller, FailRun(c) PROVE OutboxFollows'
  BY <1>2, <1>4 DEF FailRun, At, FailsQuiet
\* A holder that drives another phase.
<1>5. ASSUME NEW c \in Controller, Holds(c), ctl[c].pc \in Driving,
             ctl[c].phase # "publishing", act' = act
      PROVE  OutboxFollows'
  BY <1>2, <1>5, HolderDrives DEF OutboxFollows
<1>6. ASSUME NEW c \in Controller,
             \/ BindInvocation(c) \/ PlanReady(c) \/ ReviewApproved(c) \/ ReviewRejected(c)
             \/ DispatchTurn(c) \/ ObserveEndedTurn(c) \/ FinishTurn(c)
             \/ CompleteRun(c) \/ MonitorBlocked(c) \/ ReviewError(c)
      PROVE  OutboxFollows'
  <2>1. Holds(c) /\ act' = act
    BY <1>6 DEF BindInvocation, PlanReady, ReviewApproved, ReviewRejected, DispatchTurn,
       ObserveEndedTurn, FinishTurn, CompleteRun, MonitorBlocked, ReviewError, Current
  <2>2. ctl[c].pc \in Driving /\ ctl[c].phase # "publishing"
    BY <1>6 DEF BindInvocation, PlanReady, ReviewApproved, ReviewRejected, DispatchTurn,
       ObserveEndedTurn, FinishTurn, CompleteRun, MonitorBlocked, ReviewError, At, In,
       StepsInPlace, InPlace, Driving, Pc
  <2> QED
    BY <1>5, <2>1, <2>2
<1>7. ASSUME NEW c \in Controller, StagePublish(c) PROVE OutboxFollows'
  <2>1. run.phase = "publishing"
    BY <1>7 DEF StagePublish, Current
  <2>2. run' = run \/ run' = Moved(run, "publishing", "running")
    BY <1>7, StageShape DEF StageLeases, StageRests, StageFails
  <2>3. run'.phase = "publishing"
    BY <1>0, <2>1, <2>2, MovedColumns DEF Phase, Activity
  <2> QED
    BY <2>3 DEF OutboxFollows
<1>8. ASSUME NEW c \in Controller, Reconciles(c) PROVE OutboxFollows'
  BY <1>1, <1>8, ReconcilesKeeps
<1>9. ASSUME NEW c \in Controller, BindPullRequest(c) \/ MarkFailed(c) PROVE OutboxFollows'
  <2>1. act'.status \in {"succeeded", "failed"} \/ UNCHANGED <<run, act>>
    BY <1>9 DEF BindPullRequest, MarkFailed, TypeOK, ActionType
  <2> QED
    BY <1>1, <2>1, SettledHere DEF ActiveAction
<1>10. ASSUME NEW c \in Controller, MarkUnknown(c) PROVE OutboxFollows'
  BY <1>1, <1>10 DEF MarkUnknown, Fenced, ActiveAction
<1>11. CASE PauseByUser \/ CancelByUser \/ RetryByUser
  BY <1>2, <1>11 DEF PauseByUser, CancelByUser, MayStop, RetryByUser, RetryAdmitted,
     RetryOffered
<1>12. CASE ResumeByUser
  BY <1>0, <1>1, <1>12 DEF ResumeByUser, RunType, RunRow
<1>13. CASE ActionExpires
  BY <1>1, <1>13 DEF ActionExpires, TypeOK, ActionType
<1>14. ASSUME NEW c \in Controller,
              \/ Claim(c) \/ Release(c) \/ LeaseLost(c) \/ EnsureWorkspace(c)
              \/ RequestReview(c) \/ CreateInvocation(c) \/ Observe(c) \/ Consume(c)
              \/ ObserveBusyTurn(c) \/ CommitChanges(c) \/ Push(c)
              \/ CreatePullRequest(c) \/ Watch(c) \/ DriveFails(c) \/ Refused(c)
              \/ Crash(c)
       PROVE  OutboxFollows'
  BY <1>1, <1>14 DEF Claim, Release, LeaseLost, EnsureWorkspace, RequestReview,
     CreateInvocation, Observe, Consume, ObserveBusyTurn, CommitChanges, Push,
     CreatePullRequest, Watch,
     DriveFails, Refused, Crash
<1>15. CASE \/ \E h \in Handle : CapabilityEnds(h) \/ CapabilityFails(h)
            \/ DeveloperStarts \/ DeveloperWrites \/ DeveloperEnds \/ OwnerReleased
            \/ Requeue \/ MonitorDecides \/ MonitorReturns \/ PullRequestCloses \/ BranchMoves
            \/ GhostExpires \/ HeartbeatLate \/ UNCHANGED vars
  BY <1>1, <1>15 DEF CapabilityEnds, CapabilityFails, DeveloperStarts,
     DeveloperWrites, DeveloperEnds, OwnerReleased, Requeue, MonitorDecides, MonitorReturns,
     PullRequestCloses, BranchMoves, MonitorBecomes, GhostExpires, HeartbeatLate, vars
<1> QED
  BY <1>3, <1>4, <1>6, <1>7, <1>8, <1>9, <1>10, <1>11, <1>12, <1>13, <1>14, <1>15
  DEF Next, DriveStep, Reconciles, UserCommand, Surroundings

LEMMA FailsStep ==
    TypeOK /\ SnapshotIsCurrent /\ StepsInPlace /\ OutboxFollows /\ FailsQuiet /\ [Next]_vars
      => FailsQuiet'
<1> SUFFICES ASSUME TypeOK, SnapshotIsCurrent, StepsInPlace, OutboxFollows, FailsQuiet,
                    [Next]_vars
             PROVE  FailsQuiet'
  OBVIOUS
<1> USE DEF rows, outside, budgets
<1>1. ASSUME NEW c \in Controller,
             \/ LeaseLost(c) \/ PauseRun(c) \/ FailRun(c) \/ BindInvocation(c) \/ PlanReady(c)
             \/ ReviewApproved(c) \/ ReviewRejected(c) \/ DispatchTurn(c) \/ FinishTurn(c)
             \/ CompleteRun(c) \/ MonitorBlocked(c) \/ ReviewError(c)
             \/ ObserveBusyTurn(c) \/ ObserveEndedTurn(c) \/ EnsureWorkspace(c)
             \/ RequestReview(c) \/ CreateInvocation(c) \/ Consume(c)
             \/ MarkUnknown(c) \/ Push(c) \/ CreatePullRequest(c) \/ DriveFails(c)
      PROVE  FailsQuiet'
  <2>1. PICK w \in Pc \ {"fail"} : Goto(c, w)
    BY <1>1 DEF LeaseLost, PauseRun, FailRun, BindInvocation, PlanReady, ReviewApproved,
       ReviewRejected, DispatchTurn, FinishTurn, CompleteRun, MonitorBlocked, ReviewError,
       ObserveBusyTurn, ObserveEndedTurn, EnsureWorkspace, RequestReview, CreateInvocation,
       Consume, MarkUnknown, Push, CreatePullRequest, DriveFails, Pc
  <2>2. lease' = lease
    BY <1>1 DEF LeaseLost, PauseRun, FailRun, BindInvocation, PlanReady, ReviewApproved,
       ReviewRejected, DispatchTurn, FinishTurn, CompleteRun, MonitorBlocked, ReviewError,
       ObserveBusyTurn, ObserveEndedTurn, EnsureWorkspace, RequestReview, CreateInvocation,
       Consume, MarkUnknown, Push, CreatePullRequest, DriveFails
  <2>3. act'.status \in ActiveAction => act.status \in ActiveAction
    BY <1>1 DEF LeaseLost, PauseRun, FailRun, BindInvocation, PlanReady, ReviewApproved,
       ReviewRejected, DispatchTurn, FinishTurn, CompleteRun, MonitorBlocked, ReviewError,
       ObserveBusyTurn, ObserveEndedTurn, EnsureWorkspace, RequestReview, CreateInvocation,
       Consume, MarkUnknown, Fenced, ActiveAction, Push, CreatePullRequest, DriveFails
  <2> QED
    BY <2>1, <2>2, <2>3, GoesElsewhere
<1>2. ASSUME NEW c \in Controller, Observe(c) \/ Watch(c) \/ Refused(c) PROVE FailsQuiet'
  <2>1. /\ lease' = lease /\ act' = act
        /\ \A d \in Controller : d # c => ctl'[d] = ctl[d]
    BY <1>2 DEF Observe, Watch, Refused, Goto, TypeOK
  <2>2. CASE Refused(c) /\ Goto(c, "reject")
    BY <2>1, <2>2, GoesElsewhere
  <2>3. CASE Observe(c) \/ Watch(c) \/ At(c, "request")
    <3>1. ctl[c].pc \in Driving /\ ctl[c].phase # "publishing"
      BY <2>3 DEF Observe, Watch, In, At, StepsInPlace, InPlace, Driving, Pc
    <3> QED
      BY <2>1, <3>1, FailsHere
  <2> QED
    BY <1>2, <2>2, <2>3 DEF Refused
<1>3. ASSUME NEW c \in Controller, MarkFailed(c) \/ BindPullRequest(c) PROVE FailsQuiet'
  <2>1. CASE act'.status \in {"succeeded", "failed"}
    BY <2>1, SettledHere DEF ActiveAction
  <2>2. CASE (Goto(c, "reject") \/ Goto(c, "changed")) /\ act' = act
    BY <1>3, <2>2, GoesElsewhere DEF MarkFailed, BindPullRequest
  <2> QED
    BY <1>3, <2>1, <2>2 DEF MarkFailed, BindPullRequest, TypeOK, ActionType
\* Only the holder leases the action, and it goes on to publish.
<1>4. ASSUME NEW c \in Controller, StagePublish(c) PROVE FailsQuiet'
  <2>1. ASSUME NEW w \in {"publish", "attach"}, NEW r \in Receipt, StageLeases(c, w, r)
        PROVE  FailsQuiet'
    <3>1. ctl'[c].pc # "fail" /\ lease' = lease /\ Holds(c)
      BY <1>4, <2>1 DEF StageLeases, StagePublish, Current, TypeOK, DriveType, DriveRow
    <3> QED
      BY <3>1 DEF FailsQuiet, Holds
  <2>2. CASE StageRests(c)
    BY <1>4, <2>2, GoesElsewhere DEF StagePublish, StageRests
  <2>3. CASE StageFails(c)
    BY <2>3, SettledHere DEF StageFails, ActiveAction, TypeOK, ActionType
  <2> QED
    BY <1>4, <2>1, <2>2, <2>3, StageShape
<1>5. ASSUME NEW c \in Controller, Reconciles(c) PROVE FailsQuiet'
  <2>1. act'.status = act.status /\ lease' = lease
    BY <1>5, ReconcilesKeeps, ReconcilesShape
  <2>2. PICK w \in Recorded : Goto(c, w)
    BY <1>5, ReconcilesShape
  <2> QED
    BY <2>1, <2>2, GoesElsewhere DEF Recorded
<1>6. ASSUME NEW c \in Controller, Claim(c) \/ Release(c) \/ Crash(c) \/ CommitChanges(c)
      PROVE  FailsQuiet'
  <2>1. act' = act /\ ctl'[c].pc \in {"drive", "idle", "finish", "pause"}
    BY <1>6 DEF Claim, Release, Crash, CommitChanges, Goto, Idle, TypeOK, DriveType, DriveRow
  <2>2. \A d \in Controller : d # c => ctl'[d] = ctl[d]
    BY <1>6 DEF Claim, Release, Crash, CommitChanges, Goto, TypeOK
  <2>3. \A d \in Controller : d # c /\ Holds(d)' => Holds(d)
    BY <1>6, DeliveryAssumption DEF Claim, Release, Crash, CommitChanges, Holds, TypeOK, LeaseType
  <2> QED
    BY <2>1, <2>2, <2>3, FailsKept
<1>7. CASE UserCommand \/ Surroundings \/ UNCHANGED vars
  <2>1. ctl' = ctl \/ ctl' = [c \in Controller |-> [ctl[c] EXCEPT !.fresh = FALSE]]
    BY <1>7 DEF UserCommand, PauseByUser, CancelByUser, ResumeByUser, RetryByUser,
       Surroundings, CapabilityEnds, CapabilityFails, DeveloperStarts, DeveloperWrites,
       DeveloperEnds, OwnerReleased, Requeue, MonitorDecides, MonitorReturns,
       PullRequestCloses, BranchMoves, MonitorBecomes, GhostExpires, HeartbeatLate, ActionExpires, vars
  <2>2. \A c \in Controller : ctl'[c].pc = ctl[c].pc
    BY <2>1 DEF TypeOK, DriveType, DriveRow
  <2>3. lease' = lease \/ ~lease'.live
    BY <1>7 DEF UserCommand, PauseByUser, CancelByUser, ResumeByUser, RetryByUser,
       Surroundings, CapabilityEnds, CapabilityFails, DeveloperStarts, DeveloperWrites,
       DeveloperEnds, OwnerReleased, Requeue, MonitorDecides, MonitorReturns,
       PullRequestCloses, BranchMoves, MonitorBecomes, GhostExpires, HeartbeatLate, ActionExpires, vars,
       TypeOK, LeaseType
  <2>4. act'.status = act.status
    BY <1>7 DEF UserCommand, PauseByUser, CancelByUser, ResumeByUser, RetryByUser,
       Surroundings, CapabilityEnds, CapabilityFails, DeveloperStarts, DeveloperWrites,
       DeveloperEnds, OwnerReleased, Requeue, MonitorDecides, MonitorReturns,
       PullRequestCloses, BranchMoves, MonitorBecomes, GhostExpires, HeartbeatLate, ActionExpires, vars,
       TypeOK, ActionType
  <2> QED
    BY <2>2, <2>3, <2>4, FailsKept DEF Holds
<1> QED
  BY <1>1, <1>2, <1>3, <1>4, <1>5, <1>6, <1>7 DEF Next, DriveStep, Reconciles

LEMMA RowsStep ==
    TypeOK /\ SnapshotIsCurrent /\ StepsInPlace /\ RowsFollow /\ [Next]_vars => RowsFollow'
<1>1. RowsFollow <=> CycleFollows /\ OutboxFollows /\ FailsQuiet
  BY DEF RowsFollow, CycleFollows, OutboxFollows, FailsQuiet
<1>2. RowsFollow' <=> CycleFollows' /\ OutboxFollows' /\ FailsQuiet'
  BY DEF RowsFollow, CycleFollows, OutboxFollows, FailsQuiet
<1> QED
  BY <1>1, <1>2, CycleStep, OutboxStep, FailsStep

-----------------------------------------------------------------------------
(* The worktree stands at the head of the run. *)

\* What the row of the run says of the tree.
AtHead(r) ==
    \/ r.phase \in Phase \ {"coding"}
    \/ r.outcome = "failed" /\ r.failedIn # "coding"
    => git.head = r.head /\ ~git.dirty

LEMMA HeadColumns ==
    ASSUME run \in RunType, AtHead(run)
    PROVE  /\ \A p \in Phase, a \in Activity :
                 p = "coding" \/ run.phase \in Phase \ {"coding"}
                   => AtHead(Moved(run, p, a)) /\ AtHead(NextCycle(Moved(run, p, a)))
           /\ \A b \in BOOLEAN : run.phase \in Phase => AtHead(Failed(run, b))
           /\ \A o \in {"success", "cancelled"} : AtHead(Ended(run, o))
<1>1. ASSUME NEW p \in Phase, NEW a \in Activity,
             p = "coding" \/ run.phase \in Phase \ {"coding"}
      PROVE  AtHead(Moved(run, p, a)) /\ AtHead(NextCycle(Moved(run, p, a)))
  <2> DEFINE m == Moved(run, p, a)
  <2>1. m \in RunType /\ m.phase = p /\ m.outcome = "none" /\ m.head = run.head
    BY MovedColumns
  <2>2. /\ NextCycle(m).phase = p /\ NextCycle(m).outcome = "none"
        /\ NextCycle(m).head = run.head
    <3> HIDE DEF m
    <3> QED
      BY <2>1, NextCycleColumns
  <2>3. p # "coding" => git.head = run.head /\ ~git.dirty
    BY <1>1 DEF AtHead
  <2> HIDE DEF m
  <2>4. AtHead(m) /\ AtHead(NextCycle(m))
    BY <2>1, <2>2, <2>3 DEF AtHead
  <2> QED
    BY <2>4 DEF m
<1>2. ASSUME NEW b \in BOOLEAN, run.phase \in Phase PROVE AtHead(Failed(run, b))
  BY <1>2, FailedColumns DEF AtHead, Phase
<1>3. ASSUME NEW o \in {"success", "cancelled"} PROVE AtHead(Ended(run, o))
  BY <1>3, EndedColumns DEF AtHead, Phase
<1> QED
  BY <1>1, <1>2, <1>3

LEMMA HeadStep ==
    TypeOK /\ SnapshotIsCurrent /\ StepsInPlace /\ TreeOwned /\ [Next]_vars => AtHead(run')
<1> SUFFICES ASSUME TypeOK, SnapshotIsCurrent, StepsInPlace, TreeOwned, [Next]_vars
             PROVE  AtHead(run')
  OBVIOUS
<1> USE DEF rows, outside, budgets
<1>0. run \in RunType /\ AtHead(run)
  BY DEF TypeOK, TreeOwned, AtHead
<1>1. ASSUME UNCHANGED <<run.phase, run.outcome, run.failedIn, run.head>> PROVE AtHead(run')
  BY <1>0, <1>1 DEF AtHead
<1>2. ASSUME NEW c \in Controller, PauseRun(c) PROVE AtHead(run')
  BY <1>0, <1>1, <1>2, PausedColumns DEF PauseRun
<1>3. ASSUME NEW c \in Controller,
             \/ FailRun(c) \/ BindInvocation(c) \/ PlanReady(c) \/ ReviewApproved(c)
             \/ ReviewRejected(c)
      PROVE  AtHead(run')
  <2>1. run.phase \in Phase \ {"coding"} /\ run.activity \in Activity
    BY <1>3, HolderDrives DEF FailRun, BindInvocation, PlanReady, ReviewApproved,
       ReviewRejected, Current, At, StepsInPlace, InPlace, Driving, Pc
  <2>2. \/ run' = Failed(run, FALSE) \/ run' = Failed(run, TRUE)
        \/ \E p \in Phase, a \in Activity :
              run' = Moved(run, p, a) \/ run' = NextCycle(Moved(run, p, a))
    BY <1>3, <2>1 DEF FailRun, BindInvocation, PlanReady, ReviewApproved, ReviewRejected,
       Phase, Activity
  <2> QED
    BY <1>0, <2>1, <2>2, HeadColumns
<1>4. ASSUME NEW c \in Controller, MonitorBlocked(c) \/ ReviewError(c) \/ CompleteRun(c)
      PROVE  AtHead(run')
  <2>1. run.phase = "monitoring"
    BY <1>4, HolderDrives DEF MonitorBlocked, ReviewError, CompleteRun, Current, At, In,
       StepsInPlace, InPlace, Driving, Pc
  <2>2. \/ run' = run \/ run' = Failed(run, FALSE) \/ run' = Failed(run, TRUE)
        \/ run' = NextCycle(Moved(run, "planning", "ready")) \/ run' = Ended(run, "success")
    BY <1>4 DEF MonitorBlocked, ReviewError, CompleteRun
  <2> QED
    BY <1>0, <2>1, <2>2, HeadColumns DEF Phase, Activity
<1>5. ASSUME NEW c \in Controller, DispatchTurn(c) PROVE AtHead(run')
  <2>1. run'.phase = "coding" /\ run'.outcome = "none"
    BY <1>0, <1>5, MovedColumns DEF DispatchTurn, Phase, Activity, RunType, RunRow
  <2> QED
    BY <2>1 DEF AtHead
<1>6. ASSUME NEW c \in Controller, ObserveEndedTurn(c) PROVE AtHead(run')
  <2>1. run.phase = "coding"
    BY <1>6, HolderDrives DEF ObserveEndedTurn, At, In, Driving, Pc
  <2> QED
    BY <1>0, <1>6, <2>1, HeadColumns DEF ObserveEndedTurn, Phase
<1>7. ASSUME NEW c \in Controller, FinishTurn(c) PROVE AtHead(run')
  <2>1. run.phase = "coding" /\ git.head = ctl[c].result /\ ~git.dirty
    BY <1>7, HolderDrives DEF FinishTurn, Current, At, Driving, Pc, StepsInPlace, InPlace,
       TreeOwned
  <2> QED
    BY <1>7, <2>1, FinishTurnRun DEF AtHead
<1>8. ASSUME NEW c \in Controller, StagePublish(c) PROVE AtHead(run')
  <2>1. run.phase = "publishing"
    BY <1>8 DEF StagePublish, Current
  <2> QED
    BY <1>0, <1>8, <2>1, StageShape, HeadColumns
    DEF StageLeases, StageRests, StageFails, Phase, Activity
<1>9. ASSUME NEW c \in Controller, Reconciles(c) PROVE AtHead(run')
  BY <1>1, <1>9, ReconcilesKeeps
<1>10. ASSUME NEW c \in Controller, BindPullRequest(c) PROVE AtHead(run')
  <2> DEFINE m == Moved(run, "monitoring", "waiting")
  <2>1. run.phase = "publishing"
    BY <1>10, HolderDrives DEF BindPullRequest, Fenced, Current, At, Driving, Pc,
       StepsInPlace, InPlace, Publishers
  <2>2. AtHead(m) /\ m \in RunType
    BY <1>0, <2>1, HeadColumns, MovedColumns DEF Phase, Activity
  <2>3. run' = run \/ run' = [m EXCEPT !.bound = TRUE]
    BY <1>10 DEF BindPullRequest
  <2> HIDE DEF m
  <2> QED
    BY <1>0, <2>2, <2>3, BoundColumns DEF AtHead
<1>11. CASE PauseByUser \/ CancelByUser \/ ResumeByUser
  <2>1. PauseByUser => AtHead(run')
    BY <1>0, <1>1, PausedColumns DEF PauseByUser
  <2>2. CancelByUser => AtHead(run')
    BY <1>0, HeadColumns DEF CancelByUser
  <2>3. ResumeByUser => AtHead(run')
    BY <1>0, <1>1 DEF ResumeByUser, RunType, RunRow
  <2> QED
    BY <1>11, <2>1, <2>2, <2>3
<1>12. CASE RetryByUser
  <2>1. run.outcome = "failed" /\ run.failedIn \in Phase
    BY <1>0, <1>12 DEF RetryByUser, RetryAdmitted, RetryOffered, RunType, RunRow
  <2>2. PICK a \in Activity : run' = NextCycle(Moved(run, run.failedIn, a))
    BY <1>12 DEF RetryByUser, Activity
  <2> DEFINE m == Moved(run, run.failedIn, a)
  <2>3. m \in RunType /\ m.phase = run.failedIn /\ m.outcome = "none" /\ m.head = run.head
    BY <1>0, <2>1, MovedColumns
  <2>4. run' = NextCycle(m)
    BY <2>2
  <2> HIDE DEF m
  <2>5. run'.phase = run.failedIn /\ run'.outcome = "none" /\ run'.head = run.head
    BY <2>3, <2>4, NextCycleColumns
  <2> QED
    BY <1>0, <2>1, <2>5 DEF AtHead
<1>13. ASSUME NEW c \in Controller,
              \/ Claim(c) \/ Release(c) \/ LeaseLost(c) \/ EnsureWorkspace(c)
              \/ RequestReview(c) \/ CreateInvocation(c) \/ Observe(c) \/ Consume(c)
              \/ ObserveBusyTurn(c) \/ CommitChanges(c) \/ Push(c)
              \/ CreatePullRequest(c) \/ MarkUnknown(c) \/ MarkFailed(c) \/ Watch(c)
              \/ DriveFails(c) \/ Refused(c) \/ Crash(c)
       PROVE  AtHead(run')
  BY <1>1, <1>13 DEF Claim, Release, LeaseLost, EnsureWorkspace, RequestReview,
     CreateInvocation, Observe, Consume, ObserveBusyTurn, CommitChanges, Push,
     CreatePullRequest, MarkUnknown, MarkFailed, Watch, DriveFails, Refused, Crash
<1>14. CASE Surroundings \/ UNCHANGED vars
  BY <1>1, <1>14 DEF Surroundings, CapabilityEnds, CapabilityFails, DeveloperStarts,
     DeveloperWrites, DeveloperEnds, OwnerReleased, Requeue, MonitorDecides, MonitorReturns,
     PullRequestCloses, BranchMoves, MonitorBecomes, GhostExpires, HeartbeatLate, ActionExpires, vars
<1> QED
  BY <1>2, <1>3, <1>4, <1>5, <1>6, <1>7, <1>8, <1>9, <1>10, <1>11, <1>12, <1>13, <1>14
  DEF Next, DriveStep, Reconciles, UserCommand

\* Only a dispatch takes the Task.
LEMMA FreeStep ==
    ASSUME TypeOK, TaskFree, [Next]_vars, ~(\E c \in Controller : DispatchTurn(c))
    PROVE  TaskFree'
<1> USE DEF rows, outside, budgets
<1>1. task.settled /\ task.status \in Reusable /\ task \in TaskType
  BY DEF TaskFree, TypeOK
<1>2. ASSUME \/ task' = task
             \/ \E s \in Reusable : task' = [task EXCEPT !.status = s]
      PROVE  TaskFree'
  BY <1>1, <1>2 DEF TaskFree, TaskType
<1>3. ASSUME NEW c \in Controller,
             \/ FailRun(c) \/ ReviewRejected(c) \/ FinishTurn(c)
             \/ CompleteRun(c) \/ MonitorBlocked(c) \/ ReviewError(c)
      PROVE  TaskFree'
  BY <1>2, <1>3 DEF FailRun, ReviewRejected, FinishTurn, CompleteRun, MonitorBlocked,
     ReviewError, Reusable, Terminated
<1>4. CASE CancelByUser \/ RetryByUser
  BY <1>2, <1>4 DEF CancelByUser, RetryByUser, Reusable, Terminated
<1>5. CASE DeveloperStarts \/ DeveloperEnds \/ OwnerReleased \/ Requeue
  BY <1>1, <1>5 DEF DeveloperStarts, DeveloperEnds, OwnerReleased, Requeue, Reusable,
     Terminated
<1>6. ASSUME NEW c \in Controller,
             \/ Claim(c) \/ Release(c) \/ LeaseLost(c) \/ PauseRun(c) \/ EnsureWorkspace(c)
             \/ RequestReview(c) \/ CreateInvocation(c) \/ BindInvocation(c) \/ Observe(c)
             \/ Consume(c) \/ PlanReady(c) \/ ReviewApproved(c) \/ ObserveBusyTurn(c)
             \/ ObserveEndedTurn(c) \/ CommitChanges(c)
      PROVE  TaskFree'
  BY <1>2, <1>6 DEF Claim, Release, LeaseLost, PauseRun, EnsureWorkspace, RequestReview,
     CreateInvocation, BindInvocation, Observe, Consume, PlanReady, ReviewApproved,
     ObserveBusyTurn, ObserveEndedTurn, CommitChanges
<1>7. ASSUME NEW c \in Controller,
             \/ StagePublish(c) \/ Reconciles(c) \/ Push(c) \/ CreatePullRequest(c)
             \/ BindPullRequest(c) \/ MarkUnknown(c) \/ MarkFailed(c) \/ Watch(c)
             \/ DriveFails(c) \/ Refused(c) \/ Crash(c)
      PROVE  TaskFree'
  BY <1>2, <1>7, ReconcilesShape DEF StagePublish, Push, CreatePullRequest, BindPullRequest,
     MarkUnknown, MarkFailed, Watch, DriveFails, Refused, Crash
<1>8. CASE \/ PauseByUser \/ ResumeByUser
           \/ \E h \in Handle : CapabilityEnds(h) \/ CapabilityFails(h)
           \/ DeveloperWrites \/ MonitorDecides \/ MonitorReturns \/ PullRequestCloses \/ BranchMoves
           \/ GhostExpires \/ HeartbeatLate \/ ActionExpires \/ UNCHANGED vars
  BY <1>2, <1>8 DEF PauseByUser, ResumeByUser, CapabilityEnds, CapabilityFails,
     DeveloperWrites, MonitorDecides, MonitorReturns, PullRequestCloses, BranchMoves, MonitorBecomes,
     GhostExpires, HeartbeatLate, ActionExpires, vars
<1> QED
  BY <1>3, <1>4, <1>5, <1>6, <1>7, <1>8
  DEF Next, DriveStep, Reconciles, UserCommand, Surroundings

\* The turn of a drive is read once, and its step is not one of a code turn.
DriveKept(c) ==
    /\ ctl'[c].turn = ctl[c].turn /\ ctl'[c].result = ctl[c].result
    /\ ctl'[c].pc \in {"commit", "finish"} => ctl'[c].pc = ctl[c].pc
    /\ ctl'[c].pc \in Driving => ctl[c].pc \in Driving

LEMMA GotoKept ==
    ASSUME TypeOK, NEW c \in Controller, NEW w, Goto(c, w), w \notin {"commit", "finish"},
           w \in Driving => ctl[c].pc \in Driving
    PROVE  \A d \in Controller : DriveKept(d)
BY DEF TypeOK, Goto, DriveType, DriveRow, DriveKept

LEMMA TreeKept ==
    ASSUME TypeOK, TreeOwned, AtHead(run'), TaskFree => TaskFree',
           git' = git, run'.turns = run.turns,
           \A c \in Controller : DriveKept(c) /\ (Holds(c)' => Holds(c))
    PROVE  TreeOwned'
BY DEF TreeOwned, DriveKept, AtHead

LEMMA TreeStep ==
    TypeOK /\ SnapshotIsCurrent /\ StepsInPlace /\ TurnOwned /\ TreeOwned /\ [Next]_vars
      => TreeOwned'
<1> SUFFICES ASSUME TypeOK, SnapshotIsCurrent, StepsInPlace, TurnOwned, TreeOwned,
                    [Next]_vars
             PROVE  TreeOwned'
  OBVIOUS
<1> USE DEF rows, outside, budgets
<1>0. run \in RunType /\ AtHead(run')
  BY HeadStep DEF TypeOK
<1>1. ASSUME NEW c \in Controller, DispatchTurn(c) PROVE TreeOwned'
  <2>1. run'.turns = run.turns + 1 /\ git' = git /\ lease' = lease
    BY <1>0, <1>1, MovedColumns DEF DispatchTurn, Phase, Activity, RunType, RunRow
  <2>2. /\ \A d \in Controller : DriveKept(d)
        /\ Holds(c) /\ ctl'[c].pc = "release"
    BY <1>1, GotoKept DEF DispatchTurn, Current, Driving, Pc, Goto, TypeOK, DriveType,
       DriveRow
  <2>3. \A d \in Controller \ {c} : ~Holds(d)
    BY <2>2 DEF Holds
  <2>4. run.turns \in Nat /\ git.by \in Nat /\ \A d \in Controller : ctl[d].turn \in Nat
    BY DEF TypeOK, RunType, RunRow, GitType, DriveType, DriveRow
  <2>5. git'.by < run'.turns /\ \A d \in Controller : ctl'[d].turn < run'.turns
    BY <2>1, <2>2, <2>4 DEF TreeOwned, DriveKept
  <2>6. \A d \in Controller : ~(Holds(d)' /\ ctl'[d].pc \in Driving)
    BY <2>1, <2>2, <2>3 DEF Holds, Driving
  <2>7. "finish" \in Driving
    BY DEF Driving, Pc
  <2>8. /\ git'.by <= run'.turns /\ git'.by # run'.turns
        /\ \A d \in Controller : ctl'[d].turn <= run'.turns /\ ctl'[d].turn # run'.turns
    BY <2>1, <2>2, <2>4, <2>5 DEF DriveKept
  <2>9. \/ run'.phase \in Phase \ {"coding"}
        \/ run'.outcome = "failed" /\ run'.failedIn # "coding"
        => git'.head = run'.head /\ ~git'.dirty
    BY <1>0, <2>1 DEF AtHead
  <2> QED
    BY <2>6, <2>7, <2>8, <2>9 DEF TreeOwned
<1> SUFFICES ASSUME ~(\E c \in Controller : DispatchTurn(c)) PROVE TreeOwned'
  BY <1>1
<1>2. TaskFree => TaskFree'
  BY FreeStep
\* A step of a controller that goes on at another place.
<1>3. ASSUME NEW c \in Controller, NEW w, Goto(c, w), w \notin {"commit", "finish"},
             w \in Driving => ctl[c].pc \in Driving,
             UNCHANGED <<git, lease>>, run'.turns = run.turns
      PROVE  TreeOwned'
  BY <1>0, <1>2, <1>3, GotoKept, TreeKept DEF Holds
<1>4. ASSUME NEW c \in Controller,
             \/ LeaseLost(c) \/ PauseRun(c) \/ FailRun(c) \/ BindInvocation(c) \/ PlanReady(c)
             \/ ReviewApproved(c) \/ ReviewRejected(c) \/ FinishTurn(c)
             \/ CompleteRun(c) \/ MonitorBlocked(c) \/ ReviewError(c)
             \/ ObserveBusyTurn(c) \/ EnsureWorkspace(c)
             \/ RequestReview(c) \/ CreateInvocation(c) \/ Consume(c) \/ Observe(c)
      PROVE  TreeOwned'
  <2>1. PICK w \in Pc \ {"commit", "finish"} : Goto(c, w)
    BY <1>4, ObservedStatus DEF LeaseLost, PauseRun, FailRun, BindInvocation, PlanReady,
       ReviewApproved, ReviewRejected, FinishTurn, CompleteRun, MonitorBlocked, ReviewError,
       ObserveBusyTurn, EnsureWorkspace, RequestReview, CreateInvocation, Consume, Observe, Pc
  <2>2. UNCHANGED <<git, lease>>
    BY <1>4 DEF LeaseLost, PauseRun, FailRun, BindInvocation, PlanReady, ReviewApproved,
       ReviewRejected, FinishTurn, CompleteRun, MonitorBlocked, ReviewError,
       ObserveBusyTurn, EnsureWorkspace, RequestReview, CreateInvocation, Consume, Observe
  <2>3. ctl[c].pc \in Driving \/ w = "release"
    BY <1>4, <2>1 DEF LeaseLost, PauseRun, FailRun, BindInvocation, PlanReady,
       ReviewApproved, ReviewRejected, FinishTurn, CompleteRun, MonitorBlocked, ReviewError,
       ObserveBusyTurn, EnsureWorkspace, RequestReview, CreateInvocation, Consume, Observe,
       At, In, Driving, Pc, TypeOK, DriveType, DriveRow
  <2>4. run'.turns = run.turns
    <3>1. CASE FinishTurn(c)
      BY <3>1, FinishTurnRun
    <3>2. CASE PauseRun(c)
      BY <1>0, <3>2, PausedColumns DEF PauseRun
    <3>3. CASE ~FinishTurn(c) /\ ~PauseRun(c)
      <4>1. \/ run' = run \/ run' = Failed(run, FALSE) \/ run' = Failed(run, TRUE)
            \/ run' = Ended(run, "success") \/ run' = Moved(run, run.phase, "waiting")
            \/ \E p \in {"planning", "coding", "publishing"} :
                  run' = Moved(run, p, "ready") \/ run' = NextCycle(Moved(run, p, "ready"))
        BY <1>4, <3>3 DEF LeaseLost, FailRun, BindInvocation, PlanReady,
           ReviewApproved, ReviewRejected, CompleteRun, MonitorBlocked, ReviewError,
           ObserveBusyTurn, EnsureWorkspace, RequestReview, CreateInvocation, Consume, Observe
      <4> QED
        BY <1>0, <4>1 DEF Failed, Ended, Moved, NextCycle, RunType, RunRow
    <3> QED
      BY <3>1, <3>2, <3>3
  <2> QED
    BY <1>3, <2>1, <2>2, <2>3, <2>4 DEF Driving
<1>5. ASSUME NEW c \in Controller, StagePublish(c) PROVE TreeOwned'
  <2>1. git' = git /\ lease' = lease /\ Holds(c) /\ ctl[c].pc \in Driving
    BY <1>5 DEF StagePublish, Current, At, Driving, Pc
  <2>2. run'.turns = run.turns
    <3>1. run' = run \/ run' = Moved(run, "publishing", "running")
      BY <1>5, StageShape DEF StageLeases, StageRests, StageFails
    <3> QED
      BY <1>0, <3>1, MovedColumns DEF Phase, Activity
  <2>3. \A d \in Controller : DriveKept(d)
    <3>1. ASSUME NEW w \in {"publish", "attach"}, NEW r \in Receipt, StageLeases(c, w, r)
          PROVE  \A d \in Controller : DriveKept(d)
      BY <2>1, <3>1 DEF StageLeases, TypeOK, DriveType, DriveRow, DriveKept
    <3>2. CASE StageRests(c) \/ StageFails(c)
      BY <2>1, <3>2, GotoKept DEF StageRests, StageFails
    <3> QED
      BY <1>5, <3>1, <3>2, StageShape
  <2> QED
    BY <1>0, <1>2, <2>1, <2>2, <2>3, TreeKept DEF Holds
<1>6. ASSUME NEW c \in Controller,
             \/ Reconciles(c) \/ Push(c) \/ CreatePullRequest(c) \/ BindPullRequest(c)
             \/ MarkUnknown(c) \/ MarkFailed(c) \/ DriveFails(c) \/ Refused(c)
      PROVE  TreeOwned'
  <2>1. \E w \in Pc \ {"commit", "finish"} : Goto(c, w)
    BY <1>6, ReconcilesShape DEF Push, CreatePullRequest, BindPullRequest, MarkUnknown,
       MarkFailed, DriveFails, Refused, Recorded, Pc
  <2>2. UNCHANGED <<git, lease>>
    BY <1>6, ReconcilesShape DEF Push, CreatePullRequest, BindPullRequest, MarkUnknown,
       MarkFailed, DriveFails, Refused
  <2>3. ctl[c].pc \in Driving
    BY <1>6, ReconcilesShape DEF Push, CreatePullRequest, BindPullRequest, MarkUnknown,
       MarkFailed, DriveFails, Refused, At, Driving, Pc
  <2>4. run'.turns = run.turns
    <3>1. \/ run' = run \/ run' = [run EXCEPT !.bound = TRUE]
          \/ run' = [Moved(run, "monitoring", "waiting") EXCEPT !.bound = TRUE]
      BY <1>6, ReconcilesShape DEF Push, CreatePullRequest, BindPullRequest, MarkUnknown,
         MarkFailed, DriveFails, Refused
    <3> QED
      BY <1>0, <3>1 DEF Moved, RunType, RunRow
  <2> QED
    BY <1>3, <2>1, <2>2, <2>3, <2>4
<1>7. ASSUME NEW c \in Controller, ObserveEndedTurn(c) PROVE TreeOwned'
  <2>1. run'.turns = run.turns
    <3>1. run' = run \/ run' = Failed(run, FALSE)
      BY <1>7 DEF ObserveEndedTurn
    <3> QED
      BY <1>0, <3>1 DEF Failed, Ended, RunType, RunRow
  <2>2. CASE Goto(c, "commit")
    <3>1. TaskFree' /\ git' = git /\ run' = run /\ lease' = lease
      <4>1. ~Goto(c, "release") /\ ~Goto(c, "pause")
        BY <2>2 DEF Goto, TypeOK, DriveType, DriveRow
      <4>2. /\ run' = run /\ task' = task /\ git' = git /\ lease' = lease
            /\ task.settled /\ task.status \in Terminated
        BY <1>7, <4>1 DEF ObserveEndedTurn
      <4> QED
        BY <4>2 DEF TaskFree, Reusable
    <3>2. \A d \in Controller :
            /\ ctl'[d].turn = ctl[d].turn /\ ctl'[d].result = ctl[d].result
            /\ ctl'[d].pc \in Driving => ctl[d].pc \in Driving
            /\ ctl'[d].pc = "finish" => ctl[d].pc = "finish"
      BY <1>7, <2>2 DEF ObserveEndedTurn, Goto, In, At, Driving, Pc, TypeOK, DriveType,
         DriveRow
    <3> QED
      BY <1>0, <3>1, <3>2 DEF TreeOwned, AtHead, Holds
  <2>3. CASE Goto(c, "release") \/ Goto(c, "pause")
    BY <1>3, <1>7, <2>1, <2>3 DEF ObserveEndedTurn, In, At, Driving, Pc
  <2> QED
    BY <1>7, <2>2, <2>3 DEF ObserveEndedTurn
\* The commit of a turn, also by a controller that lost its lease.
<1>8. ASSUME NEW c \in Controller, CommitChanges(c) PROVE TreeOwned'
  <2>1. UNCHANGED <<run, lease, task>> /\ ctl[c].pc = "commit"
    BY <1>8 DEF CommitChanges, At
  <2>2. CASE Goto(c, "pause") /\ git' = git
    BY <1>3, <2>1, <2>2 DEF Driving, Pc
  <2>3. CASE ctl' = [ctl EXCEPT ![c].pc = "finish", ![c].result = git'.head]
    <3>1. /\ \A d \in Controller \ {c} : ctl'[d] = ctl[d]
          /\ ctl'[c].pc = "finish" /\ ctl'[c].turn = ctl[c].turn
          /\ ctl'[c].result = git'.head
      BY <2>3 DEF TypeOK, DriveType, DriveRow
    <3>2. ctl[c].turn <= run.turns /\ (ctl[c].turn = run.turns => TaskFree)
      BY <2>1 DEF TreeOwned
    <3>3. Holds(c) => ctl[c].turn = run.turns
      BY <2>1 DEF TreeOwned, Driving, Pc
    <3>4. CASE git' = git /\ (git.dirty => git.by = ctl[c].turn)
      <4>1. Holds(c) => TaskFree /\ ~git.dirty
        BY <3>2, <3>3, <3>4 DEF TreeOwned
      <4> QED
        BY <1>0, <2>1, <3>1, <3>2, <3>3, <3>4, <4>1 DEF TreeOwned, AtHead, Holds, TaskFree
    <3>5. CASE /\ git.dirty
               /\ git' = [head |-> git.head + 1, by |-> ctl[c].turn, dirty |-> FALSE]
      <4>1. \A d \in Controller : ~(Holds(d) /\ ctl[d].pc = "finish")
        BY <3>5 DEF TreeOwned
      <4>2. ~(\/ run.phase \in Phase \ {"coding"}
              \/ run.outcome = "failed" /\ run.failedIn # "coding")
        BY <3>5 DEF TreeOwned
      <4>3. git'.by = ctl[c].turn /\ ~git'.dirty
        BY <3>5
      <4> QED
        BY <2>1, <3>1, <3>2, <3>3, <4>1, <4>2, <4>3 DEF TreeOwned, Holds, TaskFree
    <3>6. ~Goto(c, "pause")
      BY <3>1 DEF Goto, TypeOK, DriveType, DriveRow
    <3>7. \/ git' = git /\ ~git.dirty
          \/ git' = git /\ git.by = ctl[c].turn
          \/ /\ git.dirty
             /\ git' = [head |-> git.head + 1, by |-> ctl[c].turn, dirty |-> FALSE]
      BY <1>8, <3>6 DEF CommitChanges, TypeOK, GitType
    <3> QED
      BY <3>4, <3>5, <3>7
  <2>4. \/ Goto(c, "pause") /\ git' = git
        \/ ctl' = [ctl EXCEPT ![c].pc = "finish", ![c].result = git'.head]
    BY <1>8 DEF CommitChanges
  <2> QED
    BY <2>2, <2>3, <2>4
<1>9. ASSUME NEW c \in Controller, Claim(c) PROVE TreeOwned'
  <2>1. /\ UNCHANGED <<run, git, task>>
        /\ \A d \in Controller \ {c} : ctl'[d] = ctl[d] /\ ~Holds(d)'
        /\ ctl'[c].pc = "drive" /\ ctl'[c].turn = run.turns
    BY <1>9 DEF Claim, Holds, TypeOK
  <2>2. run.turns \in Nat
    BY <1>0 DEF RunType, RunRow
  <2> QED
    BY <1>0, <2>1, <2>2 DEF TreeOwned, AtHead, TaskFree
<1>10. ASSUME NEW c \in Controller, Release(c) \/ Crash(c) PROVE TreeOwned'
  <2>1. /\ UNCHANGED <<run, git, task>>
        /\ \A d \in Controller \ {c} : ctl'[d] = ctl[d]
        /\ ctl'[c].pc = "idle" /\ ctl'[c].turn = 0
    BY <1>10 DEF Release, Crash, Idle, TypeOK
  <2>2. \A d \in Controller \ {c} : Holds(d)' => Holds(d)
    BY <1>10, DeliveryAssumption DEF Release, Crash, Holds, TypeOK, LeaseType
  <2>3. run.turns \in Nat /\ "idle" \notin Driving
    BY <1>0 DEF RunType, RunRow, Driving
  <2> QED
    BY <1>0, <2>1, <2>2, <2>3 DEF TreeOwned, AtHead, TaskFree
<1>11. ASSUME NEW c \in Controller, Watch(c) PROVE TreeOwned'
  <2>1. \A d \in Controller : DriveKept(d)
    BY <1>11 DEF Watch, In, At, DriveKept, Driving, Pc, TypeOK, DriveType, DriveRow
  <2> QED
    BY <1>0, <1>2, <1>11, <2>1, TreeKept DEF Watch, Holds
\* The Task writes only while it executes, for a run that codes.
<1>12. CASE DeveloperWrites
  <2>1. ~TaskFree /\ UNCHANGED <<run, lease, ctl, task>>
    BY <1>12 DEF DeveloperWrites, TaskFree, Reusable, Terminated
  <2>2. git'.by = git.by /\ git'.head = git.head
    BY <1>12 DEF DeveloperWrites, TypeOK, GitType
  <2>3. run.phase = "coding" /\ run.outcome # "failed"
    BY <1>0, <2>1 DEF TurnOwned, RunType
  <2> QED
    BY <2>1, <2>2, <2>3 DEF TreeOwned, TaskFree, Holds
<1>13. CASE UserCommand \/ (Surroundings /\ ~DeveloperWrites) \/ UNCHANGED vars
  <2>1. ctl' = ctl \/ ctl' = [c \in Controller |-> [ctl[c] EXCEPT !.fresh = FALSE]]
    BY <1>13 DEF UserCommand, PauseByUser, CancelByUser, ResumeByUser, RetryByUser,
       Surroundings, CapabilityEnds, CapabilityFails, DeveloperStarts,
       DeveloperEnds, OwnerReleased, Requeue, MonitorDecides, MonitorReturns,
       PullRequestCloses, BranchMoves, MonitorBecomes, GhostExpires, HeartbeatLate, ActionExpires, vars
  <2>2. \A c \in Controller : DriveKept(c)
    BY <2>1 DEF DriveKept, TypeOK, DriveType, DriveRow
  <2>3. git' = git /\ (lease' = lease \/ ~lease'.live)
    BY <1>13 DEF UserCommand, PauseByUser, CancelByUser, ResumeByUser, RetryByUser,
       Surroundings, CapabilityEnds, CapabilityFails, DeveloperStarts,
       DeveloperEnds, OwnerReleased, Requeue, MonitorDecides, MonitorReturns,
       PullRequestCloses, BranchMoves, MonitorBecomes, GhostExpires, HeartbeatLate, ActionExpires, vars,
       TypeOK, LeaseType
  <2>4. run'.turns = run.turns
    <3>1. \/ run' = run \/ run' = Paused \/ run' = Ended(run, "cancelled")
          \/ run' = [run EXCEPT !.activity = run.from, !.from = "none"]
          \/ run' = NextCycle(Moved(run, run.failedIn,
                              IF run.failedIn = "monitoring" THEN "waiting" ELSE "ready"))
      BY <1>13 DEF UserCommand, PauseByUser, CancelByUser, ResumeByUser, RetryByUser,
         Surroundings, CapabilityEnds, CapabilityFails, DeveloperStarts,
         DeveloperEnds, OwnerReleased, Requeue, MonitorDecides, MonitorReturns,
         PullRequestCloses, BranchMoves, MonitorBecomes, GhostExpires, HeartbeatLate, ActionExpires, vars
    <3> QED
      BY <1>0, <3>1 DEF Paused, Ended, Moved, NextCycle, RunType, RunRow
  <2> QED
    BY <1>0, <1>2, <2>2, <2>3, <2>4, TreeKept DEF Holds
<1> QED
  BY <1>4, <1>5, <1>6, <1>7, <1>8, <1>9, <1>10, <1>11, <1>12, <1>13
  DEF Next, DriveStep, Reconciles, Surroundings

-----------------------------------------------------------------------------
(* From an approved head to a success. *)

VerdictFollows ==
    /\ cycle.verdict = "approved" /\ run.activity # "terminal" =>
          run.phase \in {"publishing", "monitoring"}
    /\ cycle.verdict = "approved" /\ run.outcome = "failed" =>
          run.failedIn \in {"publishing", "monitoring"}

MonitoredHead == run.phase = "monitoring" => run.head \in approved \cap pushed

AnnouncedHead ==
    \A c \in Controller : ctl[c].pc \in Announcers => ctl[c].head \in pushed

JudgedHead ==
    \A c \in Controller : Holds(c) /\ ctl[c].pc = "verify" => mon.head = ctl[c].head

\* A failure keeps the verdict of its cycle.
LEMMA ClosedVerdict ==
    ASSUME TypeOK, NEW s \in {"failed", "cancelled"}
    PROVE  Closed(s).verdict = cycle.verdict
BY DEF Closed, TypeOK, CycleType

LEMMA VerdictStep ==
    TypeOK /\ SnapshotIsCurrent /\ StepsInPlace /\ VerdictFollows /\ [Next]_vars
      => VerdictFollows'
<1> SUFFICES ASSUME TypeOK, SnapshotIsCurrent, StepsInPlace, VerdictFollows, [Next]_vars
             PROVE  VerdictFollows'
  OBVIOUS
<1> USE DEF rows, outside, budgets
<1>0. run \in RunType /\ cycle \in CycleType
  BY DEF TypeOK
\* The verdict is no approval, or the run does not leave its phase.
<1>1. ASSUME cycle'.verdict # "approved" PROVE VerdictFollows'
  BY <1>1 DEF VerdictFollows
<1>2. ASSUME cycle'.verdict = cycle.verdict, UNCHANGED <<run.phase, run.outcome, run.failedIn>>,
             run'.activity # "terminal" => run.activity # "terminal"
      PROVE  VerdictFollows'
  BY <1>2 DEF VerdictFollows
<1>3. ASSUME NEW b \in BOOLEAN, run' = Failed(run, b), cycle'.verdict = cycle.verdict,
             run.activity # "terminal"
      PROVE  VerdictFollows'
  BY <1>0, <1>3, FailedColumns DEF VerdictFollows
\* Before a publication the cycle has no approval.
<1>4. ASSUME NEW c \in Controller, Holds(c), ctl[c].pc \in Driving,
             ctl[c].phase \in {"planning", "coding", "pre_review"}
      PROVE  cycle.verdict # "approved"
  BY <1>4, HolderDrives DEF VerdictFollows, Activity
<1>5. ASSUME NEW c \in Controller, PauseRun(c) PROVE VerdictFollows'
  BY <1>0, <1>2, <1>5, PausedColumns DEF PauseRun, Stopped
<1>6. ASSUME NEW c \in Controller, FailRun(c) \/ ReviewError(c) PROVE VerdictFollows'
  <2>1. Holds(c) /\ ctl[c].pc \in Driving /\ run' = Failed(run, FALSE)
        /\ cycle' = Closed("failed")
    BY <1>6 DEF FailRun, ReviewError, Current, At, In, Driving, Pc
  <2>2. run.activity # "terminal"
    BY <2>1, HolderDrives DEF Activity
  <2> QED
    BY <1>3, <2>1, <2>2, ClosedVerdict
<1>7. ASSUME NEW c \in Controller,
             \/ BindInvocation(c) \/ PlanReady(c) \/ ReviewRejected(c) \/ DispatchTurn(c)
             \/ ObserveEndedTurn(c) \/ FinishTurn(c)
      PROVE  VerdictFollows'
  <2>1. Holds(c) /\ ctl[c].pc \in Driving
    BY <1>7 DEF BindInvocation, PlanReady, ReviewRejected, DispatchTurn, ObserveEndedTurn,
       FinishTurn, Current, At, In, Driving, Pc
  <2>2. ctl[c].phase \in {"planning", "coding", "pre_review"}
    BY <1>7 DEF BindInvocation, PlanReady, ReviewRejected, DispatchTurn, ObserveEndedTurn,
       FinishTurn, At, In, StepsInPlace, InPlace
  <2>3. cycle.verdict # "approved"
    BY <1>4, <2>1, <2>2
  <2>4. cycle'.verdict # "approved"
    <3>1. CASE FinishTurn(c)
      BY <1>0, <2>3, <3>1, FinishTurnRun DEF NewCycle, CycleType
    <3>2. CASE ReviewRejected(c)
      <4>1. \/ cycle' = NewCycle("planning")
            \/ cycle' = [cycle EXCEPT !.verdict = "changes_requested", !.status = "failed"]
        BY <3>2 DEF ReviewRejected
      <4>2. NewCycle("planning").verdict = "none"
        BY DEF NewCycle
      <4>3. [cycle EXCEPT !.verdict = "changes_requested", !.status = "failed"].verdict
              = "changes_requested"
        BY <1>0 DEF CycleType
      <4> QED
        BY <4>1, <4>2, <4>3
    <3>3. CASE BindInvocation(c) \/ PlanReady(c) \/ DispatchTurn(c) \/ ObserveEndedTurn(c)
      <4>1. \/ cycle' = cycle \/ cycle' = [cycle EXCEPT !.plan = TRUE, !.status = "coding"]
            \/ cycle' = [cycle EXCEPT !.status = "coding"]
            \/ cycle' = [cycle EXCEPT !.status = "failed"]
        BY <3>3 DEF BindInvocation, PlanReady, DispatchTurn, ObserveEndedTurn
      <4> QED
        BY <1>0, <2>3, <4>1 DEF CycleType
    <3> QED
      BY <1>7, <3>1, <3>2, <3>3
  <2> QED
    BY <1>1, <2>4
<1>8. ASSUME NEW c \in Controller, ReviewApproved(c) PROVE VerdictFollows'
  <2>1. run'.phase = "publishing" /\ run'.outcome = "none"
    BY <1>0, <1>8, MovedColumns DEF ReviewApproved, Phase, Activity
  <2> QED
    BY <2>1 DEF VerdictFollows
<1>9. ASSUME NEW c \in Controller, StagePublish(c) PROVE VerdictFollows'
  <2>1. run.phase = "publishing" /\ cycle' = cycle
    BY <1>9 DEF StagePublish, Current
  <2>2. CASE run' = run
    BY <1>2, <2>1, <2>2
  <2>3. CASE run' = Moved(run, "publishing", "running")
    <3>1. run'.phase = "publishing" /\ run'.outcome = "none"
      BY <1>0, <2>3, MovedColumns DEF Phase, Activity
    <3> QED
      BY <3>1 DEF VerdictFollows
  <2> QED
    BY <1>9, <2>2, <2>3, StageShape DEF StageLeases, StageRests, StageFails
<1>10. ASSUME NEW c \in Controller, Reconciles(c) PROVE VerdictFollows'
  <2>1. cycle' = cycle /\ (run' = run \/ run' = [run EXCEPT !.bound = TRUE])
    BY <1>10, ReconcilesShape
  <2> QED
    BY <1>0, <1>2, <2>1, BoundColumns
<1>11. ASSUME NEW c \in Controller, BindPullRequest(c) PROVE VerdictFollows'
  <2>1. CASE UNCHANGED <<run, cycle>>
    BY <1>2, <2>1
  <2>2. CASE run' = [Moved(run, "monitoring", "waiting") EXCEPT !.bound = TRUE]
    <3>1. run'.phase = "monitoring" /\ run'.outcome = "none"
      BY <1>0, <2>2, MovedColumns, BoundColumns DEF Phase, Activity
    <3> QED
      BY <3>1 DEF VerdictFollows
  <2> QED
    BY <1>11, <2>1, <2>2 DEF BindPullRequest
<1>12. ASSUME NEW c \in Controller, CompleteRun(c) PROVE VerdictFollows'
  <2>1. cycle' = cycle /\ (run' = run \/ run' = Ended(run, "success"))
    BY <1>12 DEF CompleteRun
  <2> QED
    BY <1>0, <1>2, <2>1, EndedColumns DEF VerdictFollows
<1>13. ASSUME NEW c \in Controller, MonitorBlocked(c) PROVE VerdictFollows'
  <2>1. run.activity # "terminal"
    BY <1>13, HolderDrives DEF MonitorBlocked, Current, In, At, Driving, Pc, Activity
  <2>2. \/ run' = Failed(run, TRUE) /\ cycle' = cycle
        \/ cycle' = NewCycle("planning")
    BY <1>13 DEF MonitorBlocked
  <2>3. CASE run' = Failed(run, TRUE) /\ cycle' = cycle
    BY <1>3, <2>1, <2>3
  <2>4. CASE cycle' = NewCycle("planning")
    BY <1>1, <2>4 DEF NewCycle
  <2> QED
    BY <2>2, <2>3, <2>4
<1>14. CASE PauseByUser
  BY <1>0, <1>2, <1>14, PausedColumns DEF PauseByUser, MayStop
<1>15. CASE CancelByUser
  BY <1>0, <1>15, EndedColumns DEF CancelByUser, VerdictFollows
<1>16. CASE ResumeByUser
  <2>1. /\ run'.phase = run.phase /\ run'.outcome = run.outcome
        /\ run'.failedIn = run.failedIn /\ run.activity # "terminal"
    BY <1>0, <1>16 DEF ResumeByUser, RunType, RunRow
  <2> QED
    BY <1>2, <1>16, <2>1 DEF ResumeByUser
<1>17. CASE RetryByUser
  <2>1. run.outcome = "failed" /\ run.failedIn \in Phase
    BY <1>0, <1>17 DEF RetryByUser, RetryAdmitted, RetryOffered, RunType, RunRow
  <2>2. PICK a \in Activity : run' = NextCycle(Moved(run, run.failedIn, a))
    BY <1>17 DEF RetryByUser, Activity
  <2>3. run'.phase = run.failedIn /\ run'.outcome = "none"
    BY <1>0, <2>1, <2>2 DEF NextCycle, Moved, RunType, RunRow
  <2>4. cycle'.verdict = cycle.verdict
    BY <1>0, <1>17 DEF RetryByUser, CycleType
  <2> QED
    BY <2>1, <2>3, <2>4 DEF VerdictFollows
<1>18. ASSUME NEW c \in Controller,
              \/ Claim(c) \/ Release(c) \/ LeaseLost(c) \/ EnsureWorkspace(c)
              \/ RequestReview(c) \/ CreateInvocation(c) \/ Observe(c) \/ Consume(c)
              \/ ObserveBusyTurn(c) \/ CommitChanges(c) \/ Push(c)
              \/ CreatePullRequest(c) \/ MarkUnknown(c) \/ MarkFailed(c) \/ Watch(c)
              \/ DriveFails(c) \/ Refused(c) \/ Crash(c)
       PROVE  VerdictFollows'
  BY <1>2, <1>18 DEF Claim, Release, LeaseLost, EnsureWorkspace, RequestReview,
     CreateInvocation, Observe, Consume, ObserveBusyTurn, CommitChanges, Push,
     CreatePullRequest, MarkUnknown, MarkFailed, Watch, DriveFails, Refused, Crash
<1>19. CASE Surroundings \/ UNCHANGED vars
  BY <1>2, <1>19 DEF Surroundings, CapabilityEnds, CapabilityFails, DeveloperStarts,
     DeveloperWrites, DeveloperEnds, OwnerReleased, Requeue, MonitorDecides, MonitorReturns,
     PullRequestCloses, BranchMoves, MonitorBecomes, GhostExpires, HeartbeatLate, ActionExpires, vars
<1> QED
  BY <1>5, <1>6, <1>7, <1>8, <1>9, <1>10, <1>11, <1>12, <1>13, <1>14, <1>15,
     <1>16, <1>17, <1>18, <1>19 DEF Next, DriveStep, Reconciles, UserCommand

\* What was approved or pushed stays so.
LEMMA HeadsKept ==
    ASSUME TypeOK, [Next]_vars
    PROVE  approved \subseteq approved' /\ pushed \subseteq pushed'
<1> USE DEF rows, outside, budgets
<1>1. ASSUME NEW c \in Controller,
             \/ Claim(c) \/ Release(c) \/ LeaseLost(c) \/ PauseRun(c) \/ FailRun(c)
             \/ EnsureWorkspace(c) \/ RequestReview(c) \/ CreateInvocation(c)
             \/ BindInvocation(c) \/ Observe(c) \/ Consume(c) \/ PlanReady(c)
             \/ ReviewApproved(c) \/ ReviewRejected(c) \/ DispatchTurn(c)
             \/ ObserveBusyTurn(c) \/ ObserveEndedTurn(c) \/ CommitChanges(c) \/ FinishTurn(c)
      PROVE  approved \subseteq approved' /\ pushed \subseteq pushed'
  BY <1>1 DEF Claim, Release, LeaseLost, PauseRun, FailRun, EnsureWorkspace, RequestReview,
     CreateInvocation, BindInvocation, Observe, Consume, PlanReady, ReviewApproved,
     ReviewRejected, DispatchTurn, ObserveBusyTurn, ObserveEndedTurn, CommitChanges, FinishTurn
<1>2. ASSUME NEW c \in Controller,
             \/ StagePublish(c) \/ Reconciles(c) \/ Push(c) \/ CreatePullRequest(c)
             \/ BindPullRequest(c) \/ MarkUnknown(c) \/ MarkFailed(c) \/ Watch(c)
             \/ CompleteRun(c) \/ MonitorBlocked(c) \/ ReviewError(c)
             \/ DriveFails(c) \/ Refused(c) \/ Crash(c)
      PROVE  approved \subseteq approved' /\ pushed \subseteq pushed'
  BY <1>2, ReconcilesShape DEF StagePublish, Push, CreatePullRequest, BindPullRequest,
     MarkUnknown, MarkFailed, Watch, CompleteRun, MonitorBlocked, ReviewError, DriveFails, Refused, Crash
<1>3. CASE UserCommand \/ Surroundings \/ UNCHANGED vars
  BY <1>3 DEF UserCommand, PauseByUser, CancelByUser, ResumeByUser, RetryByUser,
     Surroundings, CapabilityEnds, CapabilityFails, DeveloperStarts, DeveloperWrites,
     DeveloperEnds, OwnerReleased, Requeue, MonitorDecides, MonitorReturns,
     PullRequestCloses, BranchMoves, MonitorBecomes, GhostExpires, HeartbeatLate, ActionExpires, vars
<1> QED
  BY <1>1, <1>2, <1>3 DEF Next, DriveStep, Reconciles

\* A run comes to monitoring only by binding its pull request.
LEMMA EntersMonitoring ==
    ASSUME TypeOK, SnapshotIsCurrent, StepsInPlace, CycleFollows, [Next]_vars,
           run'.phase = "monitoring"
    PROVE  \/ run.phase = "monitoring" /\ run'.head = run.head
           \/ \E c \in Controller : BindPullRequest(c) /\ run'.head = run.head
<1> USE DEF rows, outside, budgets
<1>0. run \in RunType
  BY DEF TypeOK
<1>1. ASSUME UNCHANGED <<run.phase, run.head>>
      PROVE  run.phase = "monitoring" /\ run'.head = run.head
  BY <1>1
<1>2. ASSUME NEW c \in Controller, PauseRun(c)
      PROVE  run.phase = "monitoring" /\ run'.head = run.head
  BY <1>0, <1>1, <1>2, PausedColumns DEF PauseRun
<1>3. ASSUME NEW c \in Controller, BindInvocation(c) PROVE FALSE
  <2>1. run.phase \in {"planning", "pre_review"}
    BY <1>3, HolderDrives DEF BindInvocation, Current, At, StepsInPlace, InPlace, Driving, Pc
  <2>2. run'.phase = run.phase
    BY <1>0, <1>3 DEF BindInvocation, Moved, RunType, RunRow
  <2> QED
    BY <2>1, <2>2
\* An event that ends the run, or moves it to another phase.
<1>4. ASSUME \/ run' = Failed(run, FALSE) \/ run' = Failed(run, TRUE)
             \/ \E o \in {"success", "cancelled"} : run' = Ended(run, o)
             \/ \E p \in {"planning", "coding", "publishing"}, a \in {"ready", "running"} :
                  \/ run' = Moved(run, p, a) \/ run' = NextCycle(Moved(run, p, a))
                  \/ run' = [Moved(run, p, a) EXCEPT !.turns = @ + 1]
      PROVE  FALSE
  BY <1>0, <1>4 DEF Failed, Ended, Moved, NextCycle, RunType, RunRow
<1>5. ASSUME NEW c \in Controller,
             \/ FailRun(c) \/ PlanReady(c) \/ ReviewApproved(c)
             \/ ReviewRejected(c) \/ DispatchTurn(c) \/ MonitorBlocked(c) \/ ReviewError(c)
      PROVE  FALSE
  BY <1>4, <1>5 DEF FailRun, PlanReady, ReviewApproved, ReviewRejected, DispatchTurn,
     MonitorBlocked, ReviewError
<1>6. ASSUME NEW c \in Controller,
             ObserveEndedTurn(c) \/ StagePublish(c) \/ CompleteRun(c)
      PROVE  run.phase = "monitoring" /\ run'.head = run.head
  BY <1>1, <1>4, <1>6, StageShape DEF ObserveEndedTurn, StageLeases, StageRests, StageFails,
     CompleteRun
<1>7. ASSUME NEW c \in Controller, FinishTurn(c) PROVE FALSE
  BY <1>7, FinishTurnRun
<1>8. ASSUME NEW c \in Controller, Reconciles(c)
      PROVE  run.phase = "monitoring" /\ run'.head = run.head
  BY <1>1, <1>8, ReconcilesKeeps
<1>9. ASSUME NEW c \in Controller, BindPullRequest(c) PROVE run'.head = run.head
  BY <1>0, <1>9 DEF BindPullRequest, Moved, RunType, RunRow
<1>10. CASE PauseByUser \/ CancelByUser \/ ResumeByUser
  <2>1. run' = Paused \/ run' = Ended(run, "cancelled")
        \/ run' = [run EXCEPT !.activity = run.from, !.from = "none"]
    BY <1>10 DEF PauseByUser, CancelByUser, ResumeByUser
  <2> QED
    BY <1>0, <1>4, <2>1 DEF Paused, RunType, RunRow
<1>11. CASE RetryByUser
  <2>1. run.outcome = "failed" /\ cycle.status = "failed" /\ run.failedIn \in Phase
    BY <1>0, <1>11 DEF RetryByUser, RetryAdmitted, RetryOffered, RunType, RunRow
  <2>2. PICK a \in Activity : run' = NextCycle(Moved(run, run.failedIn, a))
    BY <1>11 DEF RetryByUser, Activity
  <2>3. run'.phase = run.failedIn
    BY <1>0, <2>1, <2>2 DEF NextCycle, Moved, RunType, RunRow
  <2> QED
    BY <2>1, <2>3 DEF CycleFollows
<1>12. ASSUME NEW c \in Controller,
              \/ Claim(c) \/ Release(c) \/ LeaseLost(c) \/ EnsureWorkspace(c)
              \/ RequestReview(c) \/ CreateInvocation(c) \/ Observe(c) \/ Consume(c)
              \/ ObserveBusyTurn(c) \/ CommitChanges(c) \/ Push(c)
              \/ CreatePullRequest(c) \/ MarkUnknown(c) \/ MarkFailed(c) \/ Watch(c)
              \/ DriveFails(c) \/ Refused(c) \/ Crash(c)
       PROVE  run.phase = "monitoring" /\ run'.head = run.head
  BY <1>1, <1>12 DEF Claim, Release, LeaseLost, EnsureWorkspace, RequestReview,
     CreateInvocation, Observe, Consume, ObserveBusyTurn, CommitChanges, Push,
     CreatePullRequest, MarkUnknown, MarkFailed, Watch, DriveFails, Refused, Crash
<1>13. CASE Surroundings \/ UNCHANGED vars
  BY <1>1, <1>13 DEF Surroundings, CapabilityEnds, CapabilityFails, DeveloperStarts,
     DeveloperWrites, DeveloperEnds, OwnerReleased, Requeue, MonitorDecides, MonitorReturns,
     PullRequestCloses, BranchMoves, MonitorBecomes, GhostExpires, HeartbeatLate, ActionExpires, vars
<1> QED
  BY <1>2, <1>3, <1>5, <1>6, <1>7, <1>8, <1>9, <1>10, <1>11, <1>12, <1>13
  DEF Next, DriveStep, Reconciles, UserCommand

LEMMA MonitoredStep ==
    ASSUME TypeOK, SnapshotIsCurrent, StepsInPlace, CycleFollows, ApprovalChain,
           MonitoredHead, AnnouncedHead, [Next]_vars
    PROVE  MonitoredHead'
<1> SUFFICES ASSUME run'.phase = "monitoring" PROVE run'.head \in approved' \cap pushed'
  BY DEF MonitoredHead
<1>1. approved \subseteq approved' /\ pushed \subseteq pushed'
  BY HeadsKept
<1>2. CASE run.phase = "monitoring" /\ run'.head = run.head
  BY <1>1, <1>2 DEF MonitoredHead
<1>3. ASSUME NEW c \in Controller, BindPullRequest(c), run'.head = run.head
      PROVE  run'.head \in approved' \cap pushed'
  <2>1. Holds(c) /\ ctl[c].pc = "attach"
    BY <1>3 DEF BindPullRequest, Fenced, Current, At
  <2>2. run.head = ctl[c].head
    BY <2>1, HolderDrives DEF Driving, Pc
  <2>3. ctl[c].head \in approved \cap pushed
    BY <2>1 DEF ApprovalChain, AnnouncedHead, Publishers, Announcers
  <2> QED
    BY <1>1, <1>3, <2>2, <2>3
<1> QED
  BY <1>2, <1>3, EntersMonitoring

\* What the steps of a controller leave of the drives.
LEMMA AnnouncedStep ==
    ASSUME TypeOK, SnapshotIsCurrent, RemoteFollows, AnnouncedHead, [Next]_vars
    PROVE  AnnouncedHead'
<1> USE DEF rows, outside, budgets
<1>1. pushed \subseteq pushed'
  BY HeadsKept
<1>2. ASSUME NEW c \in Controller, NEW w, Goto(c, w),
             w \in Announcers => ctl[c].head \in pushed'
      PROVE  AnnouncedHead'
  <2>1. /\ \A d \in Controller : ctl'[d].head = ctl[d].head
        /\ \A d \in Controller : d # c => ctl'[d].pc = ctl[d].pc
        /\ ctl'[c].pc = w
    BY <1>2 DEF Goto, TypeOK, DriveType, DriveRow
  <2> QED
    BY <1>1, <1>2, <2>1 DEF AnnouncedHead
<1>3. ASSUME NEW c \in Controller, \A d \in Controller \ {c} : ctl'[d] = ctl[d],
             ctl'[c].pc \notin Announcers
      PROVE  AnnouncedHead'
  BY <1>1, <1>3 DEF AnnouncedHead
<1>4. ASSUME NEW c \in Controller,
             \/ LeaseLost(c) \/ PauseRun(c) \/ FailRun(c) \/ BindInvocation(c) \/ PlanReady(c)
             \/ ReviewApproved(c) \/ ReviewRejected(c) \/ FinishTurn(c)
             \/ CompleteRun(c) \/ MonitorBlocked(c) \/ ReviewError(c)
             \/ DispatchTurn(c) \/ ObserveBusyTurn(c) \/ EnsureWorkspace(c)
             \/ RequestReview(c) \/ CreateInvocation(c) \/ Consume(c) \/ Observe(c)
      PROVE  AnnouncedHead'
  <2>1. PICK w \in Pc \ Announcers : Goto(c, w)
    BY <1>4, ObservedStatus DEF LeaseLost, PauseRun, FailRun, BindInvocation, PlanReady,
       ReviewApproved, ReviewRejected, FinishTurn, CompleteRun, MonitorBlocked, ReviewError,
       DispatchTurn, ObserveBusyTurn, EnsureWorkspace, RequestReview, CreateInvocation,
       Consume, Observe, Pc, Announcers
  <2> QED
    BY <1>2, <2>1
<1>5. ASSUME NEW c \in Controller,
             \/ ObserveEndedTurn(c) \/ BindPullRequest(c) \/ MarkUnknown(c)
             \/ MarkFailed(c) \/ DriveFails(c) \/ Refused(c)
      PROVE  AnnouncedHead'
  <2>1. PICK w \in Pc \ Announcers : Goto(c, w)
    BY <1>5 DEF ObserveEndedTurn, BindPullRequest, MarkUnknown, MarkFailed,
       DriveFails, Refused, Pc, Announcers
  <2> QED
    BY <1>2, <2>1
<1>6. ASSUME NEW c \in Controller,
             Claim(c) \/ Release(c) \/ Crash(c) \/ CommitChanges(c) \/ Watch(c)
      PROVE  AnnouncedHead'
  <2>1. ctl'[c].pc \notin Announcers
    BY <1>6 DEF Claim, Release, Crash, CommitChanges, Watch, Goto, Idle, TypeOK,
       DriveType, DriveRow, Announcers
  <2>2. \A d \in Controller \ {c} : ctl'[d] = ctl[d]
    BY <1>6 DEF Claim, Release, Crash, CommitChanges, Watch, Goto, TypeOK
  <2> QED
    BY <1>3, <2>1, <2>2
<1>7. ASSUME NEW c \in Controller, Push(c) PROVE AnnouncedHead'
  <2>1. CASE Goto(c, "reject")
    BY <1>2, <2>1 DEF Announcers
  <2>2. CASE pushed' = pushed \cup {ctl[c].head} /\ Goto(c, "open")
    BY <1>2, <2>2
  <2> QED
    BY <1>7, <2>1, <2>2 DEF Push
<1>8. ASSUME NEW c \in Controller, Reconciles(c) \/ CreatePullRequest(c)
      PROVE  AnnouncedHead'
  <2>1. PICK w \in Recorded \cup Created : Goto(c, w)
    BY <1>8, ReconcilesShape, CreateShape
  <2>2. CASE ctl[c].pc \in Announcers
    BY <1>1, <1>2, <2>1, <2>2 DEF AnnouncedHead
  <2>3. CASE FencePush(c)
    <3>1. CASE remote.pr = "open" /\ ShowsHead(c)
      BY <1>1, <1>2, <2>1, <3>1 DEF RemoteFollows, ShowsHead
    <3>2. CASE ~(remote.pr = "open" /\ ShowsHead(c))
      <4>1. Goto(c, "unknown") \/ Goto(c, "push")
        BY <2>3, <3>2 DEF FencePush, RecordConflict, RecordAmbiguous, RecordUnclear, GoOn
      <4> QED
        BY <1>2, <4>1 DEF Announcers
    <3> QED
      BY <3>1, <3>2
  <2> QED
    BY <1>8, <2>2, <2>3
    DEF Reconciles, OpenPullRequest, Recover, RecordReceipt, CreatePullRequest, At, Announcers
<1>10. ASSUME NEW c \in Controller, StagePublish(c) PROVE AnnouncedHead'
  <2>1. ASSUME NEW w \in {"publish", "attach"}, NEW r \in Receipt, StageLeases(c, w, r)
        PROVE  AnnouncedHead'
    <3>1. Holds(c) /\ ctl[c].pc \in Driving
      BY <1>10 DEF StagePublish, Current, At, Driving, Pc
    <3>2. w \in Announcers => ctl[c].head \in pushed
      BY <2>1, <3>1, HolderDrives DEF StageLeases, RemoteFollows, Announcers
    <3>3. /\ \A d \in Controller : ctl'[d].head = ctl[d].head
          /\ \A d \in Controller : d # c => ctl'[d].pc = ctl[d].pc
          /\ ctl'[c].pc = w
      BY <2>1 DEF StageLeases, TypeOK, DriveType, DriveRow
    <3> QED
      BY <1>1, <3>2, <3>3 DEF AnnouncedHead
  <2>2. CASE StageRests(c) \/ StageFails(c)
    BY <1>2, <2>2 DEF StageRests, StageFails, Announcers
  <2> QED
    BY <1>10, <2>1, <2>2, StageShape
<1>9. CASE UserCommand \/ Surroundings \/ UNCHANGED vars
  <2>1. ctl' = ctl \/ ctl' = [c \in Controller |-> [ctl[c] EXCEPT !.fresh = FALSE]]
    BY <1>9 DEF UserCommand, PauseByUser, CancelByUser, ResumeByUser, RetryByUser,
       Surroundings, CapabilityEnds, CapabilityFails, DeveloperStarts, DeveloperWrites,
       DeveloperEnds, OwnerReleased, Requeue, MonitorDecides, MonitorReturns,
       PullRequestCloses, BranchMoves, MonitorBecomes, GhostExpires, HeartbeatLate, ActionExpires, vars
  <2>2. \A c \in Controller : ctl'[c].pc = ctl[c].pc /\ ctl'[c].head = ctl[c].head
    BY <2>1 DEF TypeOK, DriveType, DriveRow
  <2> QED
    BY <1>1, <2>2 DEF AnnouncedHead
<1> QED
  BY <1>4, <1>5, <1>6, <1>7, <1>8, <1>9, <1>10 DEF Next, DriveStep, Reconciles

\* Only what was pushed is on GitHub and in a receipt.
LEMMA RemoteKept ==
    ASSUME RemoteFollows, pushed' = pushed, UNCHANGED <<remote.head, remote.at>>,
           remote'.pr # "none" => remote.pr # "none",
           act'.receipt = "published" => act.receipt = "published" /\ act'.head = act.head
    PROVE  RemoteFollows'
BY DEF RemoteFollows

LEMMA RemoteStep ==
    ASSUME TypeOK, SnapshotIsCurrent, RemoteFollows, AnnouncedHead, [Next]_vars
    PROVE  RemoteFollows'
<1> USE DEF rows, outside, budgets
<1>0. act \in ActionType /\ remote \in RemoteType
  BY DEF TypeOK
<1>1. ASSUME UNCHANGED <<remote, pushed, act>> PROVE RemoteFollows'
  BY <1>1 DEF RemoteFollows
<1>2. ASSUME NEW c \in Controller,
             \/ Claim(c) \/ Release(c) \/ LeaseLost(c) \/ PauseRun(c) \/ FailRun(c)
             \/ EnsureWorkspace(c) \/ RequestReview(c) \/ CreateInvocation(c)
             \/ BindInvocation(c) \/ Observe(c) \/ Consume(c) \/ PlanReady(c)
             \/ ReviewApproved(c) \/ ReviewRejected(c) \/ DispatchTurn(c)
             \/ ObserveBusyTurn(c) \/ ObserveEndedTurn(c) \/ CommitChanges(c) \/ FinishTurn(c)
      PROVE  RemoteFollows'
  BY <1>1, <1>2 DEF Claim, Release, LeaseLost, PauseRun, FailRun, EnsureWorkspace, RequestReview,
     CreateInvocation, BindInvocation, Observe, Consume, PlanReady, ReviewApproved,
     ReviewRejected, DispatchTurn, ObserveBusyTurn, ObserveEndedTurn, CommitChanges, FinishTurn
<1>3. ASSUME NEW c \in Controller,
             \/ Watch(c) \/ CompleteRun(c) \/ MonitorBlocked(c) \/ ReviewError(c)
             \/ DriveFails(c) \/ Refused(c) \/ Crash(c)
      PROVE  RemoteFollows'
  BY <1>1, <1>3 DEF Watch, CompleteRun, MonitorBlocked, ReviewError, DriveFails, Refused, Crash
<1>4. ASSUME NEW c \in Controller, BindPullRequest(c) \/ MarkUnknown(c) \/ MarkFailed(c)
      PROVE  RemoteFollows'
  <2>1. pushed' = pushed /\ remote' = remote
    BY <1>4 DEF BindPullRequest, MarkUnknown, MarkFailed
  <2>2. act'.receipt = act.receipt /\ act'.head = act.head
    BY <1>0, <1>4 DEF BindPullRequest, MarkUnknown, MarkFailed, ActionType
  <2> QED
    BY <2>1, <2>2, RemoteKept
<1>5. ASSUME NEW c \in Controller, StagePublish(c) PROVE RemoteFollows'
  <2>1. pushed' = pushed /\ remote' = remote
    BY <1>5 DEF StagePublish
  <2>2. ASSUME NEW w \in {"publish", "attach"}, NEW r \in Receipt, StageLeases(c, w, r)
        PROVE  RemoteFollows'
    <3>1. act'.receipt = r /\ act'.head = run.head
      BY <2>2 DEF StageLeases, LeaseAction
    <3>2. r = "published" => act.receipt = "published" /\ act.head = run.head
      BY <2>2 DEF StageLeases
    <3> QED
      BY <2>1, <3>1, <3>2, RemoteKept
  <2>3. CASE StageRests(c)
    BY <1>1, <2>1, <2>3 DEF StageRests
  <2>4. CASE StageFails(c)
    <3>1. act'.receipt = act.receipt /\ act'.head = act.head
      BY <1>0, <2>4 DEF StageFails, ActionType
    <3> QED
      BY <2>1, <3>1, RemoteKept
  <2> QED
    BY <1>5, <2>2, <2>3, <2>4, StageShape
\* A holder records the receipt of the head that it announces.
<1>6. ASSUME NEW c \in Controller, Reconciles(c) PROVE RemoteFollows'
  <2>1. pushed' = pushed /\ remote' = remote /\ act'.head = act.head
    BY <1>6, ReconcilesShape, ReconcilesKeeps
  <2>2. CASE act'.receipt = "published" => act.receipt = "published"
    BY <2>1, <2>2, RemoteKept
  <2>3. CASE RecordReceipt(c)
    <3>1. act.head = run.head /\ Holds(c) /\ ctl[c].pc = "announce"
      BY <2>3 DEF RecordReceipt, Fenced, Current, At
    <3>2. ctl[c].head = run.head /\ ctl[c].head \in pushed
      BY <3>1, HolderDrives DEF Driving, Pc, AnnouncedHead, Announcers
    <3>3. act.head \in pushed
      BY <3>1, <3>2
    <3> QED
      BY <2>1, <3>3 DEF RemoteFollows
  <2>4. ASSUME ~RecordReceipt(c) PROVE act'.receipt = "published" => act.receipt = "published"
    BY <1>0, <1>6, <2>4 DEF Reconciles, FencePush, OpenPullRequest, Recover, RecordConflict,
       RecordAmbiguous, RecordUnclear, GoOn, ActionType
  <2> QED
    BY <2>2, <2>3, <2>4
<1>7. ASSUME NEW c \in Controller, Push(c) PROVE RemoteFollows'
  <2>1. CASE UNCHANGED <<remote, pushed>>
    BY <1>1, <1>7, <2>1 DEF Push
  <2>2. CASE remote' = Advanced(ctl[c].head) /\ pushed' = pushed \cup {ctl[c].head}
    <3>1. remote'.head = ctl[c].head /\ remote'.pr = remote.pr
          /\ (remote'.at = ctl[c].head \/ remote'.at = remote.at)
      BY <1>0, <2>2 DEF Advanced, RemoteType
    <3>2. act' = act
      BY <1>7 DEF Push
    <3> QED
      BY <2>2, <3>1, <3>2 DEF RemoteFollows
  <2> QED
    BY <1>7, <2>1, <2>2 DEF Push
<1>8. ASSUME NEW c \in Controller, CreatePullRequest(c) PROVE RemoteFollows'
  <2>1. pushed' = pushed /\ act' = act
    BY <1>8 DEF CreatePullRequest
  <2>2. remote.head \in pushed
    BY <1>8 DEF CreatePullRequest, At, AnnouncedHead, Announcers, RemoteFollows
  <2>3. remote' = remote \/ (remote'.head = remote.head /\ remote'.at = remote.head)
    BY <1>0, <1>8 DEF CreatePullRequest, RemoteType
  <2> QED
    BY <2>1, <2>2, <2>3 DEF RemoteFollows
<1>9. CASE PullRequestCloses \/ BranchMoves
  <2>1. pushed' = pushed /\ act' = act
    BY <1>9 DEF PullRequestCloses, BranchMoves, MonitorBecomes
  <2>2. UNCHANGED <<remote.head, remote.at>> /\ (remote'.pr # "none" => remote.pr # "none")
    BY <1>0, <1>9 DEF PullRequestCloses, BranchMoves, RemoteType
  <2> QED
    BY <2>1, <2>2, RemoteKept
<1>10. CASE ActionExpires
  <2>1. pushed' = pushed /\ remote' = remote
    BY <1>10 DEF ActionExpires
  <2>2. act'.receipt = act.receipt /\ act'.head = act.head
    BY <1>0, <1>10 DEF ActionExpires, ActionType
  <2> QED
    BY <2>1, <2>2, RemoteKept
<1>11. CASE \/ UserCommand
            \/ \E h \in Handle : CapabilityEnds(h) \/ CapabilityFails(h)
            \/ DeveloperStarts \/ DeveloperWrites \/ DeveloperEnds \/ OwnerReleased
            \/ Requeue \/ MonitorDecides \/ MonitorReturns
            \/ GhostExpires \/ HeartbeatLate \/ UNCHANGED vars
  BY <1>1, <1>11 DEF UserCommand, PauseByUser, CancelByUser, ResumeByUser, RetryByUser,
     CapabilityEnds, CapabilityFails, DeveloperStarts, DeveloperWrites, DeveloperEnds,
     OwnerReleased, Requeue, MonitorDecides, MonitorReturns, MonitorBecomes, GhostExpires,
     HeartbeatLate, vars
<1> QED
  BY <1>2, <1>3, <1>4, <1>5, <1>6, <1>7, <1>8, <1>9, <1>10, <1>11
  DEF Next, DriveStep, Reconciles, Surroundings

\* The head that the holder verifies is the one the monitor has judged.
LEMMA JudgedStep ==
    ASSUME TypeOK, SnapshotIsCurrent, JudgedHead, [Next]_vars
    PROVE  JudgedHead'
<1> USE DEF rows, outside, budgets
<1>1. ASSUME NEW c \in Controller, NEW w, Goto(c, w), w # "verify", lease' = lease,
             mon'.head = mon.head
      PROVE  JudgedHead'
  <2>1. \A d \in Controller : ctl'[d].head = ctl[d].head
                              /\ (ctl'[d].pc = "verify" => ctl[d].pc = "verify")
    BY <1>1 DEF Goto, TypeOK, DriveType, DriveRow
  <2> QED
    BY <1>1, <2>1 DEF JudgedHead, Holds
<1>2. ASSUME NEW c \in Controller,
             \/ LeaseLost(c) \/ PauseRun(c) \/ FailRun(c) \/ BindInvocation(c) \/ PlanReady(c)
             \/ ReviewApproved(c) \/ ReviewRejected(c) \/ FinishTurn(c)
             \/ CompleteRun(c) \/ MonitorBlocked(c) \/ ReviewError(c)
             \/ DispatchTurn(c) \/ ObserveBusyTurn(c) \/ EnsureWorkspace(c)
             \/ RequestReview(c) \/ CreateInvocation(c) \/ Consume(c) \/ Observe(c)
      PROVE  JudgedHead'
  <2>1. PICK w \in Pc \ {"verify"} : Goto(c, w)
    BY <1>2, ObservedStatus DEF LeaseLost, PauseRun, FailRun, BindInvocation, PlanReady,
       ReviewApproved, ReviewRejected, FinishTurn, CompleteRun, MonitorBlocked, ReviewError,
       DispatchTurn, ObserveBusyTurn, EnsureWorkspace, RequestReview, CreateInvocation,
       Consume, Observe, Pc
  <2>2. UNCHANGED <<lease, mon>>
    BY <1>2 DEF LeaseLost, PauseRun, FailRun, BindInvocation, PlanReady,
       ReviewApproved, ReviewRejected, FinishTurn, CompleteRun, MonitorBlocked, ReviewError,
       DispatchTurn, ObserveBusyTurn, EnsureWorkspace, RequestReview, CreateInvocation,
       Consume, Observe
  <2> QED
    BY <1>1, <2>1, <2>2
<1>3. ASSUME NEW c \in Controller,
             \/ ObserveEndedTurn(c) \/ Reconciles(c) \/ Push(c) \/ CreatePullRequest(c)
             \/ MarkUnknown(c) \/ MarkFailed(c) \/ DriveFails(c) \/ Refused(c)
      PROVE  JudgedHead'
  <2>1. PICK w \in Pc \ {"verify"} : Goto(c, w)
    BY <1>3, ReconcilesShape DEF ObserveEndedTurn, Push, CreatePullRequest, MarkUnknown,
       MarkFailed, DriveFails, Refused, Recorded, Pc
  <2>2. UNCHANGED <<lease, mon>>
    BY <1>3, ReconcilesShape DEF ObserveEndedTurn, Push, CreatePullRequest, MarkUnknown,
       MarkFailed, DriveFails, Refused
  <2> QED
    BY <1>1, <2>1, <2>2
<1>4. ASSUME NEW c \in Controller, Claim(c) \/ Release(c) \/ Crash(c) PROVE JudgedHead'
  <2>1. /\ mon' = mon /\ ctl'[c].pc # "verify"
        /\ \A d \in Controller \ {c} : ctl'[d] = ctl[d]
    BY <1>4 DEF Claim, Release, Crash, Idle, TypeOK
  <2>2. \A d \in Controller \ {c} : Holds(d)' => Holds(d)
    BY <1>4, DeliveryAssumption DEF Claim, Release, Crash, Holds, TypeOK, LeaseType
  <2> QED
    BY <2>1, <2>2 DEF JudgedHead
<1>5. ASSUME NEW c \in Controller, CommitChanges(c) \/ StagePublish(c) PROVE JudgedHead'
  <2>1. UNCHANGED <<mon, lease>> /\ ctl'[c].pc # "verify"
    BY <1>5 DEF CommitChanges, StagePublish, Goto, TypeOK, DriveType, DriveRow
  <2>2. \A d \in Controller \ {c} : ctl'[d] = ctl[d]
    BY <1>5 DEF CommitChanges, StagePublish, Goto, TypeOK
  <2> QED
    BY <2>1, <2>2 DEF JudgedHead, Holds
<1>6. ASSUME NEW c \in Controller, Watch(c) PROVE JudgedHead'
  <2>1. UNCHANGED <<mon, lease>> /\ (\A d \in Controller \ {c} : ctl'[d] = ctl[d])
        /\ ctl'[c].head = ctl[c].head
    BY <1>6 DEF Watch, TypeOK, DriveType, DriveRow
  <2>2. ctl'[c].pc = "verify" => mon.head = ctl[c].head
    BY <1>6 DEF Watch, TypeOK, DriveType, DriveRow
  <2> QED
    BY <2>1, <2>2 DEF JudgedHead, Holds
\* A monitor is bound by the holder, and the others hold nothing.
<1>7. ASSUME NEW c \in Controller, BindPullRequest(c) PROVE JudgedHead'
  <2>1. Holds(c) /\ lease' = lease
    BY <1>7 DEF BindPullRequest, Fenced, Current
  <2>2. ctl'[c].pc # "verify"
    BY <1>7 DEF BindPullRequest, Goto, TypeOK, DriveType, DriveRow
  <2> QED
    BY <2>1, <2>2 DEF JudgedHead, Holds
<1>8. CASE UserCommand \/ Surroundings \/ UNCHANGED vars
  <2>1. ctl' = ctl \/ ctl' = [c \in Controller |-> [ctl[c] EXCEPT !.fresh = FALSE]]
    BY <1>8 DEF UserCommand, PauseByUser, CancelByUser, ResumeByUser, RetryByUser,
       Surroundings, CapabilityEnds, CapabilityFails, DeveloperStarts, DeveloperWrites,
       DeveloperEnds, OwnerReleased, Requeue, MonitorDecides, MonitorReturns,
       PullRequestCloses, BranchMoves, MonitorBecomes, GhostExpires, HeartbeatLate, ActionExpires, vars
  <2>2. \A c \in Controller : ctl'[c].pc = ctl[c].pc /\ ctl'[c].head = ctl[c].head
    BY <2>1 DEF TypeOK, DriveType, DriveRow
  <2>3. lease' = lease \/ ~lease'.live
    BY <1>8 DEF UserCommand, PauseByUser, CancelByUser, ResumeByUser, RetryByUser,
       Surroundings, CapabilityEnds, CapabilityFails, DeveloperStarts, DeveloperWrites,
       DeveloperEnds, OwnerReleased, Requeue, MonitorDecides, MonitorReturns,
       PullRequestCloses, BranchMoves, MonitorBecomes, GhostExpires, HeartbeatLate, ActionExpires, vars,
       TypeOK, LeaseType
  <2>4. mon'.head = mon.head
    BY <1>8 DEF UserCommand, PauseByUser, CancelByUser, ResumeByUser, RetryByUser,
       Surroundings, CapabilityEnds, CapabilityFails, DeveloperStarts, DeveloperWrites,
       DeveloperEnds, OwnerReleased, Requeue, MonitorDecides, MonitorReturns,
       PullRequestCloses, BranchMoves, MonitorBecomes, GhostExpires, HeartbeatLate, ActionExpires, vars,
       TypeOK, MonitorType
  <2> QED
    BY <2>2, <2>3, <2>4 DEF JudgedHead, Holds
<1> QED
  BY <1>2, <1>3, <1>4, <1>5, <1>6, <1>7, <1>8 DEF Next, DriveStep, Reconciles

LEMMA RealStep ==
    ASSUME TypeOK, SnapshotIsCurrent, StepsInPlace, VerdictFollows, MonitoredHead,
           JudgedHead, SuccessIsReal, [Next]_vars
    PROVE  SuccessIsReal'
<1> USE DEF rows, outside, budgets
<1>0. run \in RunType /\ cycle \in CycleType
  BY DEF TypeOK
<1>1. approved \subseteq approved' /\ pushed \subseteq pushed'
  BY HeadsKept
<1>2. ASSUME UNCHANGED <<run, cycle>>, mon'.head = mon.head PROVE SuccessIsReal'
  BY <1>1, <1>2 DEF SuccessIsReal
\* A run that somebody drives has no outcome yet.
<1>3. ASSUME NEW c \in Controller, Holds(c), ctl[c].pc \in Driving,
             \/ run' = run \/ run' = Paused \/ run' = [run EXCEPT !.bound = TRUE]
             \/ run' = Failed(run, FALSE) \/ run' = Failed(run, TRUE)
             \/ \E p \in Phase, a \in Activity :
                  \/ run' = Moved(run, p, a) \/ run' = NextCycle(Moved(run, p, a))
                  \/ run' = [Moved(run, p, a) EXCEPT !.turns = @ + 1]
                  \/ run' = [Moved(run, p, a) EXCEPT !.bound = TRUE]
      PROVE  SuccessIsReal'
  <2>1. run.outcome = "none"
    BY <1>0, <1>3, HolderDrives DEF RunType, Stopped
  <2>2. run'.outcome # "success"
    BY <1>0, <1>3, <2>1 DEF Paused, Failed, Ended, Moved, NextCycle, RunType, RunRow
  <2> QED
    BY <2>2 DEF SuccessIsReal
<1>4. ASSUME NEW c \in Controller,
             \/ PauseRun(c) \/ FailRun(c) \/ BindInvocation(c) \/ PlanReady(c)
             \/ ReviewApproved(c) \/ ReviewRejected(c) \/ DispatchTurn(c)
             \/ ObserveEndedTurn(c) \/ MonitorBlocked(c) \/ ReviewError(c)
      PROVE  SuccessIsReal'
  <2>1. Holds(c) /\ ctl[c].pc \in Driving
    BY <1>4 DEF PauseRun, FailRun, BindInvocation, PlanReady, ReviewApproved, ReviewRejected,
       DispatchTurn, ObserveEndedTurn, MonitorBlocked, ReviewError, Current, At, In, Driving, Pc
  <2>2. run.phase \in Phase
    BY <2>1, HolderDrives
  <2> QED
    BY <1>3, <1>4, <2>1, <2>2 DEF PauseRun, FailRun, BindInvocation, PlanReady, ReviewApproved,
       ReviewRejected, DispatchTurn, ObserveEndedTurn, MonitorBlocked, ReviewError, Phase,
       Activity
<1>5. ASSUME NEW c \in Controller,
             StagePublish(c) \/ Reconciles(c) \/ BindPullRequest(c)
      PROVE  SuccessIsReal'
  <2>1. Holds(c) /\ ctl[c].pc \in Driving
    BY <1>5, ReconcilesShape DEF StagePublish, BindPullRequest, Fenced, Current,
       At, Driving, Pc
  <2>2. \/ run' = run \/ run' = [run EXCEPT !.bound = TRUE]
        \/ run' = Moved(run, "publishing", "running")
        \/ run' = [Moved(run, "monitoring", "waiting") EXCEPT !.bound = TRUE]
    BY <1>5, ReconcilesShape, StageShape DEF StageLeases, StageRests, StageFails,
       BindPullRequest
  <2> QED
    BY <1>3, <2>1, <2>2 DEF Phase, Activity
\* The success that a finished report ends with has no verdict.
<1>6. ASSUME NEW c \in Controller, FinishTurn(c) PROVE SuccessIsReal'
  <2>1. cycle.verdict # "approved"
    BY <1>6, HolderDrives DEF FinishTurn, Current, At, Driving, Pc, StepsInPlace, InPlace,
       VerdictFollows, Activity
  <2>2. cycle'.verdict # "approved"
    BY <1>0, <1>6, <2>1, FinishTurnRun DEF NewCycle, CycleType
  <2> QED
    BY <2>2 DEF SuccessIsReal
<1>7. ASSUME NEW c \in Controller, CompleteRun(c) PROVE SuccessIsReal'
  <2>1. Holds(c) /\ ctl[c].pc = "verify" /\ UNCHANGED <<cycle, mon>>
    BY <1>7 DEF CompleteRun, Current, At
  <2>2. run.phase = "monitoring" /\ run.head = ctl[c].head
    BY <2>1, HolderDrives DEF Driving, Pc, StepsInPlace, InPlace
  <2>3. run.head \in approved \cap pushed /\ mon.head = run.head
    BY <2>1, <2>2 DEF MonitoredHead, JudgedHead
  <2>4. run'.head = run.head
    BY <1>0, <1>7, EndedColumns DEF CompleteRun
  <2> QED
    BY <1>1, <2>1, <2>3, <2>4 DEF SuccessIsReal
<1>8. CASE UserCommand
  <2>1. run'.outcome # "success"
    <3>1. CASE PauseByUser
      BY <1>0, <3>1, PausedColumns DEF PauseByUser, MayStop, RunType
    <3>2. CASE CancelByUser
      BY <1>0, <3>2, EndedColumns DEF CancelByUser
    <3>3. CASE ResumeByUser
      BY <1>0, <3>3 DEF ResumeByUser, RunType, RunRow
    <3>4. CASE RetryByUser
      BY <1>0, <3>4 DEF RetryByUser, NextCycle, Moved, RunType, RunRow
    <3> QED
      BY <1>8, <3>1, <3>2, <3>3, <3>4 DEF UserCommand
  <2> QED
    BY <2>1 DEF SuccessIsReal
<1>9. ASSUME NEW c \in Controller,
             \/ Claim(c) \/ Release(c) \/ LeaseLost(c) \/ EnsureWorkspace(c)
             \/ RequestReview(c) \/ CreateInvocation(c) \/ Observe(c) \/ Consume(c)
             \/ ObserveBusyTurn(c) \/ CommitChanges(c) \/ Push(c)
             \/ CreatePullRequest(c) \/ MarkUnknown(c) \/ MarkFailed(c) \/ Watch(c)
             \/ DriveFails(c) \/ Refused(c) \/ Crash(c)
      PROVE  SuccessIsReal'
  BY <1>2, <1>9 DEF Claim, Release, LeaseLost, EnsureWorkspace, RequestReview,
     CreateInvocation, Observe, Consume, ObserveBusyTurn, CommitChanges, Push,
     CreatePullRequest, MarkUnknown, MarkFailed, Watch, DriveFails, Refused, Crash
<1>10. CASE Surroundings \/ UNCHANGED vars
  <2>1. UNCHANGED <<run, cycle>>
    BY <1>10 DEF Surroundings, CapabilityEnds, CapabilityFails, DeveloperStarts,
       DeveloperWrites, DeveloperEnds, OwnerReleased, Requeue, MonitorDecides, MonitorReturns,
       PullRequestCloses, BranchMoves, MonitorBecomes, GhostExpires, HeartbeatLate, ActionExpires, vars
  <2>2. mon'.head = mon.head
    BY <1>10 DEF Surroundings, CapabilityEnds, CapabilityFails, DeveloperStarts,
       DeveloperWrites, DeveloperEnds, OwnerReleased, Requeue, MonitorDecides, MonitorReturns,
       PullRequestCloses, BranchMoves, MonitorBecomes, GhostExpires, HeartbeatLate, ActionExpires, vars,
       TypeOK, MonitorType
  <2> QED
    BY <1>2, <2>1, <2>2
<1> QED
  BY <1>4, <1>5, <1>6, <1>7, <1>8, <1>9, <1>10 DEF Next, DriveStep, Reconciles

-----------------------------------------------------------------------------
(* The invariant and the theorems. *)

LEMMA SuccessStep ==
    ASSUME TypeOK, SnapshotIsCurrent, ApprovalChain, StepsInPlace, RowsFollow, RemoteFollows,
           SuccessChain, [Next]_vars
    PROVE  RemoteFollows' /\ SuccessChain'
<1>1. SuccessChain <=> /\ VerdictFollows /\ MonitoredHead /\ AnnouncedHead /\ JudgedHead
                       /\ SuccessIsReal
  BY DEF SuccessChain, VerdictFollows, MonitoredHead, AnnouncedHead, JudgedHead
<1>2. SuccessChain' <=> /\ VerdictFollows' /\ MonitoredHead' /\ AnnouncedHead' /\ JudgedHead'
                        /\ SuccessIsReal'
  BY DEF SuccessChain, VerdictFollows, MonitoredHead, AnnouncedHead, JudgedHead
<1>3. CycleFollows
  BY DEF RowsFollow, CycleFollows
<1> QED
  BY <1>1, <1>2, <1>3, VerdictStep, MonitoredStep, AnnouncedStep, RemoteStep, JudgedStep,
     RealStep

LEMMA FlowInit == Init => FlowInv
<1> SUFFICES ASSUME Init PROVE FlowInv
  OBVIOUS
<1>1. DeliveryInv
  BY InvInit
<1>2. \A c \in Controller : ctl[c] = Idle
  BY DEF Init
<1>3. StepsInPlace
  BY <1>2 DEF StepsInPlace, InPlace, Idle, Publishers
<1>4. TurnOwned
  BY DEF Init, TurnOwned, TaskFree, Reusable, ActiveTurn
<1>5. RowsFollow
  BY <1>2 DEF Init, RowsFollow, NewRun, Idle, ActiveAction
<1>6. TreeOwned
  BY <1>2 DEF Init, TreeOwned, NewRun, Idle, TaskFree, Reusable, Driving
<1>7. SuccessChain
  BY <1>2 DEF Init, SuccessChain, SuccessIsReal, NewRun, NewCycle, Idle, Announcers
<1>8. RemoteFollows
  BY DEF Init, RemoteFollows
<1> QED
  BY <1>1, <1>3, <1>4, <1>5, <1>6, <1>7, <1>8 DEF FlowInv

LEMMA FlowStep == FlowInv /\ [Next]_vars => FlowInv'
<1> SUFFICES ASSUME FlowInv, [Next]_vars PROVE FlowInv'
  OBVIOUS
<1>1. TypeOK /\ SnapshotIsCurrent /\ ApprovalChain
  BY DEF FlowInv, DeliveryInv
<1>2. DeliveryInv'
  BY InvStep DEF FlowInv
<1>3. StepsInPlace' /\ TurnOwned' /\ RowsFollow' /\ TreeOwned'
  BY <1>1, PlaceStep, TurnStep, RowsStep, TreeStep DEF FlowInv
<1>4. RemoteFollows' /\ SuccessChain'
  BY <1>1, SuccessStep DEF FlowInv
<1> QED
  BY <1>2, <1>3, <1>4 DEF FlowInv

\* The inductive invariant of the rows around the run: every transaction of a
\* drive, every command and every fault keeps it.
THEOREM FlowInvariant == Spec => []FlowInv
BY FlowInit, FlowStep, PTL DEF Spec

\* _dispatch_code_turn, _observe_code_turn and the guards of the users' commands
\* keep the developer Task to one turn at a time: no command, retry or takeover
\* lets a run leave coding while its Task may still write.
THEOREM OneTurn == Spec => []OneDeveloperTurn
<1>1. FlowInv => OneDeveloperTurn
  BY DEF FlowInv, TurnOwned, OneDeveloperTurn
<1> QED
  BY <1>1, FlowInvariant, PTL

\* _fail_run, complete_cycle, _finalize_completed_turn and the outbox close what
\* a run owns before it ends, so that _retry_available is never blocked by it.
THEOREM TerminalReleased == Spec => []TerminalOwnsNothing
<1>1. FlowInv => TerminalOwnsNothing
  BY DEF FlowInv, DeliveryInv, TypeOK, RunType, TurnOwned, RowsFollow, TerminalOwnsNothing
<1> QED
  BY <1>1, FlowInvariant, PTL

\* commit_changes and the terminal lease of the Task keep the worktree where the
\* reviewers, the publication and the next cycle expect it, also when a commit
\* comes from a controller that has lost its lease.
THEOREM WorktreeFollows == Spec => []WorktreeAtHead
<1>1. FlowInv => WorktreeAtHead
  BY DEF FlowInv, TreeOwned, WorktreeAtHead
<1> QED
  BY <1>1, FlowInvariant, PTL

\* _finalize_publish_action and verify_ready_to_merge end a run only on the head
\* that was approved, pushed and judged.
THEOREM SuccessReal == Spec => []SuccessIsReal
<1>1. FlowInv => SuccessIsReal
  BY DEF FlowInv, SuccessChain
<1> QED
  BY <1>1, FlowInvariant, PTL

=============================================================================
