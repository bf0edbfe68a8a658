------------------------ MODULE DeliveryContract_proofs ------------------------
(***************************************************************************)
(* Proof that Delivery implements DeliveryContract: every transaction and   *)
(* every effect of a controller, a user or the surroundings is one step of   *)
(* the contract or none, for any number of controllers, cycles, faults and  *)
(* commands.                                                                *)
(***************************************************************************)
EXTENDS DeliveryRun_proofs

-----------------------------------------------------------------------------
(* The stage of a run. *)

\* An active run has the stage of its phase.
LEMMA ActiveStage ==
    ASSUME run \in RunType, run.phase \in Phase
    PROVE  /\ Stage = StageOf(run.phase) /\ Back = "none" /\ run.outcome = "none"
           /\ Stage \in {"work", "publish", "watch"}
BY DEF RunType, Phase, Stage, Back, StageOf

\* What the next row of the run shows of its stage.
LEMMA NextActive ==
    ASSUME NEW p \in Phase, run'.phase = p, run'.outcome = "none"
    PROVE  Stage' = StageOf(p) /\ Back' = "none"
BY DEF Phase, Stage, Back

LEMMA NextEnded ==
    ASSUME run'.phase = "done"
    PROVE  /\ Stage' = run'.outcome
           /\ run'.outcome = "failed" => Back' = StageOf(run'.failedIn)
           /\ run'.outcome # "failed" => Back' = "none"
BY DEF Stage, Back

\* A step that the contract does not see.
LEMMA Unseen ==
    ASSUME UNCHANGED <<run.phase, run.outcome, run.failedIn, run.head, run.cycles,
                       approved, pushed>>
    PROVE  UNCHANGED Contract!dvars
BY DEF Contract!dvars, Stage, Back, StageOf

\* An active run that goes on in a phase of the same stage.
LEMMA SameStage ==
    ASSUME run \in RunType, run.phase \in Phase, NEW p \in Phase, NEW a \in Activity,
           StageOf(p) = StageOf(run.phase), UNCHANGED <<approved, pushed>>,
           \/ run' = Moved(run, p, a)
           \/ run' = [Moved(run, p, a) EXCEPT !.turns = @ + 1]
    PROVE  UNCHANGED Contract!dvars
<1>1. /\ run'.phase = p /\ run'.outcome = "none" /\ run'.head = run.head
      /\ run'.cycles = run.cycles
  BY DEF Moved, RunType, RunRow
<1> QED
  BY <1>1, ActiveStage, NextActive DEF Contract!dvars

\* An active run that fails.
LEMMA FailsStage ==
    ASSUME run \in RunType, run.phase \in Phase, NEW b, run' = Failed(run, b),
           UNCHANGED <<approved, pushed>>
    PROVE  Contract!Fail
<1>1. /\ run'.phase = "done" /\ run'.outcome = "failed" /\ run'.failedIn = run.phase
      /\ run'.head = run.head /\ run'.cycles = run.cycles
  BY FailedColumns
<1>2. Stage' = "failed" /\ Back' = Stage /\ Stage \in {"work", "publish", "watch"}
  BY <1>1, ActiveStage, NextEnded
<1> QED
  BY <1>1, <1>2 DEF Contract!Fail, Contract!Goes

\* An active run that ends otherwise.
LEMMA EndsStage ==
    ASSUME run \in RunType, run.phase \in Phase, NEW o \in {"success", "cancelled"},
           run' = Ended(run, o), UNCHANGED <<approved, pushed>>
    PROVE  /\ Stage' = o /\ UNCHANGED <<Back, run.head, run.cycles>>
<1>1. /\ run'.phase = "done" /\ run'.outcome = o
      /\ run'.head = run.head /\ run'.cycles = run.cycles
  BY EndedColumns
<1> QED
  BY <1>1, ActiveStage, NextEnded

\* The next cycle of an active run.
LEMMA AgainStage ==
    ASSUME run \in RunType, run.phase \in Phase, run.cycles < MaxCycles,
           NEW p \in {"planning", "coding"}, NEW a \in Activity,
           Stage \in {"work", "watch"},
           run' = NextCycle(Moved(run, p, a)), UNCHANGED <<approved, pushed>>
    PROVE  Contract!Again
<1>1. /\ run'.phase = p /\ run'.outcome = "none" /\ run'.head = run.head
      /\ run'.cycles = run.cycles + 1
  BY DEF NextCycle, Moved, RunType, RunRow
<1>2. Stage' = "work" /\ Back' = "none" /\ Back = "none"
  BY <1>1, ActiveStage, NextActive DEF Phase, StageOf
<1> QED
  BY <1>1, <1>2 DEF Contract!Again, Contract!Goes, Contract!Pay

-----------------------------------------------------------------------------
(* The steps. *)

\* The result of a turn stands at the head of the run or one commit ahead.
LEMMA FinishTurnImplements ==
    ASSUME FlowInv, HeadsBehind, NEW c \in Controller, FinishTurn(c)
    PROVE  [Contract!DNext]_(Contract!dvars)
<1> USE DEF FlowInv, DeliveryInv
<1> DEFINE progressed == ctl[c].result # turn.before
           heard == ~progressed /\ task.report /\ task.generation = run.turns
           idle == IF progressed \/ heard THEN 0 ELSE run.noProgress + 1
           counted == Counted(c, idle)
<1>1. run.phase = "coding" /\ run.head = ctl[c].head /\ ctl[c].pc = "finish"
  BY HolderDrives DEF FinishTurn, Current, At, Driving, Pc, StepsInPlace, InPlace
<1>2. idle \in Nat /\ run \in RunType /\ run.head \in Nat /\ run.cycles \in Cycle
  BY DEF TypeOK, RunType, RunRow
<1>3. /\ counted \in RunType /\ counted.phase = "coding"
      /\ counted.outcome = run.outcome /\ counted.failedIn = run.failedIn
      /\ counted.cycles = run.cycles /\ counted.head = ctl[c].result
  BY <1>1, <1>2, CountedColumns
<1>4. /\ run.head = turn.before /\ UNCHANGED <<approved, pushed>>
      /\ ctl[c].result \in {run.head, run.head + 1}
  BY <1>1 DEF FinishTurn, HeadsBehind, outside
<1>5. /\ Stage = "work" /\ Back = "none" /\ "coding" \in Phase
  BY <1>1, <1>2, ActiveStage DEF StageOf, Phase
<1>6. \/ progressed /\ run' = Moved(counted, "pre_review", "ready")
      \/ ~progressed /\ run' = Ended(counted, "success")
      \/ ~progressed /\ run' = Failed(counted, idle < MaxNoProgress)
      \/ /\ ~progressed /\ run.cycles < MaxCycles
         /\ run' = NextCycle(Moved(counted, "coding", "ready"))
  BY <1>2, DeliveryAssumption DEF FinishTurn, Cycle
<1>7. ~progressed => counted.head = run.head
  BY <1>3, <1>4
<1>8. progressed => counted.head = run.head + 1
  BY <1>2, <1>3, <1>4
<1> HIDE DEF counted, idle, progressed, heard
<1>9. CASE progressed /\ run' = Moved(counted, "pre_review", "ready")
  <2>1. /\ run'.phase = "pre_review" /\ run'.outcome = "none" /\ run'.cycles = run.cycles
        /\ run'.head = run.head + 1
    BY <1>3, <1>8, <1>9, MovedColumns DEF Phase, Activity
  <2>2. Stage' = "work" /\ Back' = "none"
    BY <2>1, NextActive DEF Phase, StageOf
  <2>3. Contract!Code
    BY <1>4, <1>5, <2>1, <2>2 DEF Contract!Code
  <2> QED
    BY <2>3 DEF Contract!DNext
<1>10. CASE ~progressed /\ run' = Ended(counted, "success")
  <2>1. /\ run'.phase = "done" /\ run'.outcome = "success" /\ run'.cycles = run.cycles
        /\ run'.head = run.head
    BY <1>3, <1>7, <1>10, EndedColumns
  <2>2. Stage' = "success" /\ Back' = "none"
    BY <2>1, NextEnded
  <2>3. Contract!Succeed
    BY <1>4, <1>5, <2>1, <2>2 DEF Contract!Succeed, Contract!Goes
  <2> QED
    BY <2>3 DEF Contract!DNext
<1>11. CASE ~progressed /\ run' = Failed(counted, idle < MaxNoProgress)
  <2>1. /\ run'.phase = "done" /\ run'.outcome = "failed" /\ run'.cycles = run.cycles
        /\ run'.head = run.head /\ run'.failedIn = "coding"
    BY <1>3, <1>7, <1>11, FailedColumns
  <2>2. Stage' = "failed" /\ Back' = "work"
    BY <2>1, NextEnded DEF StageOf
  <2>3. Contract!Fail
    BY <1>4, <1>5, <2>1, <2>2 DEF Contract!Fail, Contract!Goes
  <2> QED
    BY <2>3 DEF Contract!DNext
<1>12. CASE /\ ~progressed /\ run.cycles < MaxCycles
            /\ run' = NextCycle(Moved(counted, "coding", "ready"))
  <2>1. /\ run'.phase = "coding" /\ run'.outcome = "none" /\ run'.cycles = run.cycles + 1
        /\ run'.head = run.head
    BY <1>3, <1>7, <1>12 DEF NextCycle, Moved, RunType, RunRow
  <2>2. Stage' = "work" /\ Back' = "none"
    BY <1>5, <2>1, NextActive DEF StageOf
  <2>3. Contract!Again
    BY <1>4, <1>5, <1>12, <2>1, <2>2 DEF Contract!Again, Contract!Goes, Contract!Pay
  <2> QED
    BY <2>3 DEF Contract!DNext
<1> QED
  BY <1>6, <1>9, <1>10, <1>11, <1>12

\* An approval opens the way to publishing, a binding to the watch.
LEMMA AdvanceImplements ==
    ASSUME FlowInv, NEW c \in Controller, ReviewApproved(c) \/ BindPullRequest(c)
    PROVE  [Contract!DNext]_(Contract!dvars)
<1> USE DEF FlowInv, DeliveryInv
<1>0. run \in RunType
  BY DEF TypeOK
<1>1. CASE ReviewApproved(c)
  <2>1. run.phase = "pre_review" /\ ctl[c].pc = "accept" /\ ctl[c].phase = "pre_review"
        /\ run.head = ctl[c].head
    BY <1>1 DEF ReviewApproved, Current, At
  <2>2. <<"review", ctl[c].cycle>> \in Handle
    BY <2>1 DEF TypeOK, DriveType, Handle, Capability, Driving, Pc
  <2>3. run.head \in approved
    BY <1>1, <2>1, <2>2 DEF ApprovalChain, ReviewRead, ReviewApproved, Verdict
  <2>4. /\ run'.phase = "publishing" /\ run'.outcome = "none" /\ run'.head = run.head
        /\ run'.cycles = run.cycles /\ UNCHANGED <<approved, pushed>>
    BY <1>0, <1>1, MovedColumns DEF ReviewApproved, Phase, Activity, outside
  <2>5. Stage = "work" /\ Back = "none" /\ Stage' = "publish" /\ Back' = "none"
    BY <1>0, <2>1, <2>4, ActiveStage, NextActive DEF Phase, StageOf
  <2>6. Contract!Advance
    BY <2>3, <2>4, <2>5 DEF Contract!Advance, Contract!Goes
  <2> QED
    BY <2>6 DEF Contract!DNext
<1>2. CASE BindPullRequest(c)
  <2>1. Holds(c) /\ ctl[c].pc = "attach" /\ UNCHANGED <<approved, pushed>>
    BY <1>2 DEF BindPullRequest, Fenced, Current, At
  <2>2. /\ run.phase = "publishing" /\ run.head = ctl[c].head
    BY <2>1, HolderDrives DEF Driving, Pc, StepsInPlace, InPlace, Publishers
  <2>3. run.head \in pushed
    BY <2>1, <2>2 DEF SuccessChain, Announcers
  <2>4. CASE run' = run
    BY <2>1, <2>4, Unseen
  <2>5. CASE run' = [Moved(run, "monitoring", "waiting") EXCEPT !.bound = TRUE]
    <3>1. /\ run'.phase = "monitoring" /\ run'.outcome = "none" /\ run'.head = run.head
          /\ run'.cycles = run.cycles
      BY <1>0, <2>5 DEF Moved, RunType, RunRow
    <3>2. Stage = "publish" /\ Back = "none" /\ Stage' = "watch" /\ Back' = "none"
      BY <1>0, <2>2, <3>1, ActiveStage, NextActive DEF Phase, StageOf
    <3>3. Contract!Advance
      BY <2>1, <2>3, <3>1, <3>2 DEF Contract!Advance, Contract!Goes
    <3> QED
      BY <3>3 DEF Contract!DNext
  <2> QED
    BY <1>2, <2>4, <2>5 DEF BindPullRequest
<1> QED
  BY <1>1, <1>2

\* Findings start the next cycle, or end the budget; errors fail the run.
LEMMA SetbackImplements ==
    ASSUME FlowInv, NEW c \in Controller,
           \/ ReviewRejected(c) \/ MonitorBlocked(c) \/ FailRun(c) \/ ReviewError(c)
           \/ ObserveEndedTurn(c)
    PROVE  [Contract!DNext]_(Contract!dvars)
<1> USE DEF FlowInv, DeliveryInv, outside
<1>0. run \in RunType /\ run.cycles \in Cycle /\ UNCHANGED <<approved, pushed>>
  BY DEF TypeOK, RunType, RunRow, ReviewRejected, MonitorBlocked, FailRun, ReviewError,
     ObserveEndedTurn
<1>1. run.phase \in Phase
  BY HolderDrives DEF ReviewRejected, MonitorBlocked, FailRun, ReviewError,
     ObserveEndedTurn, Current, At, In, Driving, Pc, Phase
<1>2. ASSUME NEW b, run' = Failed(run, b) PROVE Contract!DNext
  BY <1>0, <1>1, <1>2, FailsStage DEF Contract!DNext
<1>3. ASSUME ReviewRejected(c) \/ MonitorBlocked(c), ~(run.cycles >= MaxCycles)
      PROVE  Contract!DNext
  <2>1. /\ run' = NextCycle(Moved(run, "planning", "ready"))
        /\ run.phase \in {"pre_review", "monitoring"}
    BY <1>3 DEF ReviewRejected, MonitorBlocked, Current, At, In
  <2>2. Stage \in {"work", "watch"}
    BY <1>0, <1>1, <2>1, ActiveStage DEF StageOf
  <2>3. run.cycles < MaxCycles
    BY <1>0, <1>3, DeliveryAssumption DEF Cycle
  <2>4. Contract!Again
    BY <1>0, <1>1, <2>1, <2>2, <2>3, AgainStage DEF Activity
  <2> QED
    BY <2>4 DEF Contract!DNext
<1>4. CASE run' = run
  BY <1>0, <1>4, Unseen
<1>5. \/ run' = run \/ run' = Failed(run, TRUE) \/ run' = Failed(run, FALSE)
      \/ (ReviewRejected(c) \/ MonitorBlocked(c)) /\ ~(run.cycles >= MaxCycles)
  BY DEF ReviewRejected, MonitorBlocked, FailRun, ReviewError, ObserveEndedTurn
<1> QED
  BY <1>2, <1>3, <1>4, <1>5

\* The judged pull request, and a user who gives up before anything is published.
LEMMA EndImplements ==
    ASSUME FlowInv, CancelByUser \/ \E c \in Controller : CompleteRun(c)
    PROVE  [Contract!DNext]_(Contract!dvars)
<1> USE DEF FlowInv, DeliveryInv, outside
<1>0. run \in RunType
  BY DEF TypeOK
<1>1. CASE CancelByUser
  <2>1. run' = Ended(run, "cancelled") /\ UNCHANGED <<approved, pushed>>
    BY <1>1 DEF CancelByUser
  <2>2. run.phase \in Phase /\ StageOf(run.phase) = "work"
    BY <1>0, <1>1 DEF CancelByUser, MayStop, RunType, RunRow, Phase, StageOf
  <2>3. Stage = "work"
    BY <1>0, <2>2, ActiveStage
  <2>4. Stage' = "cancelled" /\ UNCHANGED <<Back, run.head, run.cycles>>
    BY <1>0, <2>1, <2>2, EndsStage
  <2>5. Contract!Cancel
    BY <2>1, <2>3, <2>4 DEF Contract!Cancel, Contract!Goes
  <2> QED
    BY <2>5 DEF Contract!DNext
<1>2. ASSUME NEW c \in Controller, CompleteRun(c)
      PROVE  [Contract!DNext]_(Contract!dvars)
  <2>1. run.phase = "monitoring" /\ UNCHANGED <<approved, pushed>>
    BY <1>2, HolderDrives DEF CompleteRun, Current, At, Driving, Pc, StepsInPlace, InPlace
  <2>2. Stage = "watch"
    BY <1>0, <2>1, ActiveStage DEF Phase, StageOf
  <2>3. CASE run' = run
    BY <2>1, <2>3, Unseen
  <2>4. CASE run' = Ended(run, "success")
    <3>1. Stage' = "success" /\ UNCHANGED <<Back, run.head, run.cycles>>
      BY <1>0, <2>1, <2>4, EndsStage DEF Phase
    <3>2. Contract!Succeed
      BY <2>1, <2>2, <3>1 DEF Contract!Succeed, Contract!Goes
    <3> QED
      BY <3>2 DEF Contract!DNext
  <2> QED
    BY <1>2, <2>3, <2>4 DEF CompleteRun
<1> QED
  BY <1>1, <1>2

\* A retry goes on where the run failed, but never with a watched pull request.
LEMMA RetryImplements ==
    ASSUME FlowInv, RetryByUser
    PROVE  Contract!DNext
<1> USE DEF FlowInv, DeliveryInv, outside
<1>0. run \in RunType /\ run.cycles \in Cycle
  BY DEF TypeOK, RunType, RunRow
<1>1. /\ run.activity = "terminal" /\ run.outcome = "failed" /\ cycle.status = "failed"
      /\ run.cycles < MaxCycles /\ UNCHANGED <<approved, pushed>>
  BY DEF RetryByUser, RetryAdmitted, RetryOffered
<1>2. run.phase = "done" /\ run.failedIn \in Phase
  BY <1>0, <1>1 DEF RunType, RunRow
<1>3. run.failedIn # "monitoring"
  BY <1>1 DEF RowsFollow
<1>4. Stage = "failed" /\ Back = StageOf(run.failedIn) /\ Back \in {"work", "publish"}
  BY <1>1, <1>2, <1>3 DEF Stage, Back, StageOf, Phase
<1>5. run' = NextCycle(Moved(run, run.failedIn, "ready"))
  BY <1>3 DEF RetryByUser
<1>6. /\ run'.phase = run.failedIn /\ run'.outcome = "none" /\ run'.head = run.head
      /\ run'.cycles = run.cycles + 1
  BY <1>0, <1>5 DEF NextCycle, Moved, RunType, RunRow
<1>7. Stage' = Back /\ Back' = "none"
  BY <1>2, <1>4, <1>6, NextActive
<1>8. Contract!Retry
  BY <1>1, <1>4, <1>6, <1>7 DEF Contract!Retry, Contract!Goes, Contract!Pay
<1> QED
  BY <1>8 DEF Contract!DNext

\* What changes the run without changing its stage.
LEMMA QuietImplements ==
    ASSUME FlowInv,
           \/ PauseByUser \/ ResumeByUser
           \/ \E c \in Controller :
                 \/ PauseRun(c) \/ BindInvocation(c) \/ PlanReady(c) \/ DispatchTurn(c)
                 \/ StagePublish(c) \/ Reconciles(c)
    PROVE  UNCHANGED Contract!dvars
<1> USE DEF FlowInv, DeliveryInv, outside
<1>0. run \in RunType
  BY DEF TypeOK
<1>1. CASE PauseByUser \/ ResumeByUser
  <2>1. PauseByUser => UNCHANGED Contract!dvars
    BY <1>0, Unseen, PausedColumns DEF PauseByUser
  <2>2. ResumeByUser => UNCHANGED Contract!dvars
    BY <1>0, Unseen DEF ResumeByUser, RunType, RunRow
  <2> QED
    BY <1>1, <2>1, <2>2
<1>2. ASSUME NEW c \in Controller, PauseRun(c) PROVE UNCHANGED Contract!dvars
  BY <1>0, <1>2, Unseen, PausedColumns DEF PauseRun
<1>3. ASSUME NEW c \in Controller, Reconciles(c)
      PROVE  UNCHANGED Contract!dvars
  <2>1. UNCHANGED <<approved, pushed>>
    BY <1>3, ReconcilesShape
  <2> QED
    BY <1>3, <2>1, Unseen, ReconcilesKeeps
<1>4. ASSUME NEW c \in Controller, BindInvocation(c) PROVE UNCHANGED Contract!dvars
  <2>1. run.phase \in Phase
    BY <1>4, HolderDrives DEF BindInvocation, Current, At, Driving, Pc, StepsInPlace,
       InPlace, Phase
  <2>2. run' = Moved(run, run.phase, "waiting") /\ UNCHANGED <<approved, pushed>>
    BY <1>4 DEF BindInvocation
  <2> QED
    BY <1>0, <2>1, <2>2, SameStage DEF Activity
<1>5. ASSUME NEW c \in Controller, PlanReady(c) PROVE UNCHANGED Contract!dvars
  <2>1. run.phase = "planning" /\ run' = Moved(run, "coding", "ready")
        /\ UNCHANGED <<approved, pushed>>
    BY <1>5 DEF PlanReady, Current
  <2> QED
    BY <1>0, <2>1, SameStage DEF Activity, Phase, StageOf
<1>6. ASSUME NEW c \in Controller, DispatchTurn(c) PROVE UNCHANGED Contract!dvars
  <2>1. /\ run.phase = "coding" /\ UNCHANGED <<approved, pushed>>
        /\ run' = [Moved(run, "coding", "running") EXCEPT !.turns = @ + 1]
    BY <1>6 DEF DispatchTurn, Current, In
  <2> QED
    BY <1>0, <2>1, SameStage DEF Activity, Phase, StageOf
<1>7. ASSUME NEW c \in Controller, StagePublish(c) PROVE UNCHANGED Contract!dvars
  <2>1. /\ run.phase = "publishing" /\ UNCHANGED <<approved, pushed>>
        /\ run' = run \/ run' = Moved(run, "publishing", "running")
    BY <1>7, StageShape DEF StagePublish, Current, StageLeases, StageRests, StageFails
  <2> QED
    BY <1>0, <2>1, Unseen, SameStage DEF Activity, Phase, StageOf
<1> QED
  BY <1>1, <1>2, <1>3, <1>4, <1>5, <1>6, <1>7

\* What leaves the run alone: a push is of an approved head, a review that ends
\* is of a head that the run has had, and nothing else is seen.
LEMMA OthersImplement ==
    ASSUME FlowInv, HeadsBehind,
           \/ \E c \in Controller :
                 \/ Claim(c) \/ Release(c) \/ LeaseLost(c) \/ EnsureWorkspace(c)
                 \/ RequestReview(c) \/ CreateInvocation(c) \/ Observe(c) \/ Consume(c)
                 \/ ObserveBusyTurn(c) \/ CommitChanges(c) \/ Push(c)
                 \/ CreatePullRequest(c) \/ MarkUnknown(c) \/ MarkFailed(c) \/ Watch(c)
                 \/ DriveFails(c) \/ Refused(c) \/ Crash(c)
           \/ Surroundings
           \/ UNCHANGED vars
    PROVE  [Contract!DNext]_(Contract!dvars)
<1> USE DEF FlowInv, DeliveryInv, rows, outside
<1>1. CASE UNCHANGED <<run, approved, pushed>>
  BY <1>1, Unseen
<1>2. ASSUME NEW c \in Controller, Push(c) PROVE [Contract!DNext]_(Contract!dvars)
  <2>1. ctl[c].head \in approved /\ UNCHANGED <<run, approved>>
    BY <1>2 DEF Push, At, ApprovalChain, Publishers
  <2>2. CASE pushed' = pushed
    BY <1>1, <2>1, <2>2
  <2>3. CASE pushed' = pushed \cup {ctl[c].head}
    <3>1. UNCHANGED <<Stage, Back>>
      BY <2>1 DEF Stage, Back, StageOf
    <3>2. Contract!Push(ctl[c].head)
      BY <2>1, <2>3, <3>1 DEF Contract!Push
    <3> QED
      BY <2>1, <3>2 DEF Contract!DNext
  <2> QED
    BY <1>2, <2>2, <2>3 DEF Push
<1>3. ASSUME NEW h \in Handle, CapabilityEnds(h) PROVE [Contract!DNext]_(Contract!dvars)
  <2>1. inv[h].head \in 0..run.head /\ UNCHANGED <<run, pushed>>
    BY <1>3 DEF CapabilityEnds, HeadsBehind, TypeOK, InvocationType, RunType, RunRow
  <2>2. CASE approved' = approved
    BY <1>1, <2>1, <2>2
  <2>3. CASE approved' = approved \cup {inv[h].head}
    <3>1. UNCHANGED <<Stage, Back>>
      BY <2>1 DEF Stage, Back, StageOf
    <3>2. Contract!Approve(inv[h].head)
      BY <2>1, <2>3, <3>1 DEF Contract!Approve
    <3> QED
      BY <2>1, <3>2 DEF Contract!DNext
  <2> QED
    BY <1>3, <2>2, <2>3 DEF CapabilityEnds
<1>4. ASSUME NEW c \in Controller,
              \/ Claim(c) \/ Release(c) \/ LeaseLost(c) \/ EnsureWorkspace(c)
              \/ RequestReview(c) \/ CreateInvocation(c) \/ Observe(c) \/ Consume(c)
              \/ ObserveBusyTurn(c) \/ CommitChanges(c) \/ CreatePullRequest(c)
              \/ MarkUnknown(c) \/ MarkFailed(c) \/ Watch(c)
              \/ DriveFails(c) \/ Refused(c) \/ Crash(c)
      PROVE  UNCHANGED <<run, approved, pushed>>
  BY <1>4 DEF Claim, Release, LeaseLost, EnsureWorkspace, RequestReview,
     CreateInvocation, Observe, Consume, ObserveBusyTurn, CommitChanges, CreatePullRequest,
     MarkUnknown, MarkFailed, Watch, DriveFails, Refused, Crash
<1>5. CASE Surroundings
  BY <1>1, <1>3, <1>5 DEF Surroundings, CapabilityFails, DeveloperStarts,
     DeveloperWrites, DeveloperEnds, OwnerReleased, Requeue, MonitorDecides, MonitorReturns,
     PullRequestCloses, BranchMoves, MonitorBecomes, GhostExpires, HeartbeatLate, ActionExpires
<1> QED
  BY <1>1, <1>2, <1>4, <1>5 DEF vars

LEMMA ContractStep ==
    FlowInv /\ HeadsBehind /\ [Next]_vars => [Contract!DNext]_(Contract!dvars)
<1> SUFFICES ASSUME FlowInv, HeadsBehind, [Next]_vars
             PROVE  [Contract!DNext]_(Contract!dvars)
  OBVIOUS
<1>1. CASE UserCommand
  BY <1>1, QuietImplements, EndImplements, RetryImplements DEF UserCommand
<1>2. CASE Surroundings \/ UNCHANGED vars
  BY <1>2, OthersImplement
<1>3. ASSUME NEW c \in Controller, DriveStep(c) \/ DriveFails(c) \/ Refused(c) \/ Crash(c)
      PROVE  [Contract!DNext]_(Contract!dvars)
  BY <1>3, OthersImplement, QuietImplements, EndImplements, SetbackImplements,
     AdvanceImplements, FinishTurnImplements DEF DriveStep, Reconciles
<1> QED
  BY <1>1, <1>2, <1>3 DEF Next

LEMMA ContractInit == Init => Contract!DInit /\ HeadsBehind
<1> SUFFICES ASSUME Init PROVE Contract!DInit /\ HeadsBehind
  OBVIOUS
<1>1. Contract!DInit
  BY DEF Init, NewRun, Contract!DInit, Stage, Back, StageOf
<1>2. HeadsBehind
  BY DEF Init, NewRun, Idle, HeadsBehind
<1> QED
  BY <1>1, <1>2

-----------------------------------------------------------------------------
(* Nobody works on a head that the run has not had. *)

\* The head of the run moves by at most one commit.
LEMMA HeadMoves ==
    ASSUME FlowInv, HeadsBehind, [Next]_vars
    PROVE  run.head \in Nat /\ run'.head \in {run.head, run.head + 1}
<1>1. run.head \in Nat
  BY DEF FlowInv, DeliveryInv, TypeOK, RunType, RunRow
<1>2. CASE Contract!DNext
  BY <1>1, <1>2 DEF Contract!DNext, Contract!Approve, Contract!Push, Contract!Code,
     Contract!Advance, Contract!Again, Contract!Succeed, Contract!Cancel, Contract!Fail,
     Contract!Retry, Contract!Goes
<1>3. CASE UNCHANGED Contract!dvars
  BY <1>1, <1>3 DEF Contract!dvars
<1> QED
  BY <1>1, <1>2, <1>3, ContractStep

\* The rows of a claim and of a commit.
LEMMA ClaimedHeads ==
    ASSUME FlowInv, HeadsBehind, NEW c \in Controller, Claim(c)
    PROVE  /\ inv' = inv
           /\ \A d \in Controller :
                /\ ctl'[d].head <= run.head
                /\ ctl'[d].pc = "finish" => ctl'[d].result \in {ctl'[d].head, ctl'[d].head + 1}
<1>1. run.head \in Nat
  BY DEF FlowInv, DeliveryInv, TypeOK, RunType, RunRow
<1> QED
  BY <1>1 DEF FlowInv, DeliveryInv, TypeOK, Claim, HeadsBehind

LEMMA CommittedHeads ==
    ASSUME FlowInv, HeadsBehind, NEW c \in Controller, CommitChanges(c)
    PROVE  /\ inv' = inv
           /\ \A d \in Controller :
                /\ ctl'[d].head <= run.head
                /\ ctl'[d].pc = "finish" => ctl'[d].result \in {ctl'[d].head, ctl'[d].head + 1}
<1>1. ctl \in [Controller -> DriveType] /\ git \in GitType /\ inv' = inv
  BY DEF FlowInv, DeliveryInv, TypeOK, CommitChanges
<1>2. \/ Goto(c, "pause")
      \/ \E r \in {ctl[c].head, ctl[c].head + 1} :
            ctl' = [ctl EXCEPT ![c].pc = "finish", ![c].result = r]
  BY <1>1 DEF CommitChanges, GitType
<1> QED
  BY <1>1, <1>2 DEF HeadsBehind, Goto, DriveType, DriveRow

\* Every other step of a controller keeps what it has read.
LEMMA KeptHeads ==
    ASSUME FlowInv, HeadsBehind, NEW c \in Controller,
           DriveStep(c) \/ DriveFails(c) \/ Refused(c) \/ Crash(c),
           ~Claim(c), ~CommitChanges(c)
    PROVE  \A d \in Controller :
              /\ ctl'[d].head \in {ctl[d].head, 0}
              /\ ctl'[d].pc = "finish" =>
                    ctl[d].pc = "finish" /\ ctl'[d].head = ctl[d].head
                    /\ ctl'[d].result = ctl[d].result
<1>1. ctl \in [Controller -> DriveType]
  BY DEF FlowInv, DeliveryInv, TypeOK
<1>2. ASSUME NEW w \in Pc \ {"finish"}, Goto(c, w)
      PROVE  \A d \in Controller :
                /\ ctl'[d].head = ctl[d].head
                /\ ctl'[d].pc = "finish" => ctl[d].pc = "finish"
                /\ ctl'[d].result = ctl[d].result
  BY <1>1, <1>2 DEF Goto, DriveType, DriveRow
<1>3. CASE ctl' = [ctl EXCEPT ![c] = Idle]
  BY <1>1, <1>3 DEF Idle, DriveType, DriveRow
<1>4. CASE StagePublish(c) \/ Watch(c)
  <2>1. \/ \E w \in Pc \ {"finish"} : Goto(c, w)
        \/ \E w \in {"publish", "attach"} :
              ctl' = [ctl EXCEPT ![c].pc = w, ![c].activity = "running"]
        \/ \E w \in Pc \ {"finish"} : ctl' = [ctl EXCEPT ![c].fresh = TRUE, ![c].pc = w]
    BY <1>4, StageShape DEF FlowInv, DeliveryInv, StageLeases, StageRests, StageFails, Watch, Pc
  <2>2. ASSUME NEW w \in {"publish", "attach"},
               ctl' = [ctl EXCEPT ![c].pc = w, ![c].activity = "running"]
        PROVE  \A d \in Controller :
                  /\ ctl'[d].head = ctl[d].head
                  /\ ctl'[d].pc = "finish" => ctl[d].pc = "finish"
                  /\ ctl'[d].result = ctl[d].result
    BY <1>1, <2>2 DEF DriveType, DriveRow
  <2>3. ASSUME NEW w \in Pc \ {"finish"}, ctl' = [ctl EXCEPT ![c].fresh = TRUE, ![c].pc = w]
        PROVE  \A d \in Controller :
                  /\ ctl'[d].head = ctl[d].head
                  /\ ctl'[d].pc = "finish" => ctl[d].pc = "finish"
                  /\ ctl'[d].result = ctl[d].result
    BY <1>1, <2>3 DEF DriveType, DriveRow
  <2> QED
    BY <1>2, <2>1, <2>2, <2>3
<1>5. CASE Observe(c)
  <2>1. inv[<<Kind(ctl[c].phase), ctl[c].cycle>>].status
          \in {"none", "queued", "ready", "completed", "failed"}
    BY <1>5, ObservedStatus DEF FlowInv, DeliveryInv
  <2>2. \E w \in Pc \ {"finish"} : Goto(c, w)
    BY <1>5, <2>1 DEF Observe, Pc
  <2> QED
    BY <1>2, <2>2
<1>6. CASE Reconciles(c)
  <2>1. \E w \in Pc \ {"finish"} : Goto(c, w)
    BY <1>6, ReconcilesShape DEF FlowInv, DeliveryInv, Recorded, Pc
  <2> QED
    BY <1>2, <2>1
<1>7. \/ ctl' = [ctl EXCEPT ![c] = Idle]
      \/ StagePublish(c) \/ Watch(c) \/ Observe(c) \/ Reconciles(c)
      \/ \E w \in Pc \ {"finish"} : Goto(c, w)
  BY DEF DriveStep, Release, LeaseLost, PauseRun, FailRun, EnsureWorkspace, RequestReview,
     CreateInvocation, BindInvocation, Consume, PlanReady, ReviewApproved, ReviewRejected,
     DispatchTurn, ObserveBusyTurn, ObserveEndedTurn, FinishTurn, Reconciles, Push,
     CreatePullRequest, BindPullRequest, MarkUnknown, MarkFailed, CompleteRun,
     MonitorBlocked, ReviewError, DriveFails, Refused, Crash, Pc
<1> QED
  BY <1>2, <1>3, <1>4, <1>5, <1>6, <1>7

\* Reviews are asked for by controllers, of the head that they have read.
LEMMA AskedHeads ==
    ASSUME FlowInv, HeadsBehind, [Next]_vars
    PROVE  \A h \in Handle : inv'[h].head <= run.head
<1>1. inv \in [Handle -> InvocationType]
  BY DEF FlowInv, DeliveryInv, TypeOK
<1>2. CASE inv' = inv
  BY <1>2 DEF HeadsBehind
<1>3. ASSUME NEW c \in Controller, CreateInvocation(c) \/ Consume(c)
      PROVE  \A h \in Handle : inv'[h].head <= run.head
  BY <1>1, <1>2, <1>3 DEF CreateInvocation, Consume, HeadsBehind, InvocationType
<1>4. ASSUME NEW h \in Handle, CapabilityEnds(h) \/ CapabilityFails(h)
      PROVE  \A g \in Handle : inv'[g].head <= run.head
  BY <1>1, <1>4 DEF CapabilityEnds, CapabilityFails, HeadsBehind, InvocationType
<1>5. ASSUME NEW c \in Controller, DriveStep(c) \/ DriveFails(c) \/ Refused(c) \/ Crash(c)
      PROVE  inv' = inv \/ CreateInvocation(c) \/ Consume(c)
  BY <1>5, ReconcilesShape DEF FlowInv, DeliveryInv, Reconciles, DriveStep, Claim, Release, LeaseLost, PauseRun, FailRun, EnsureWorkspace,
     RequestReview, BindInvocation, Observe, PlanReady, ReviewApproved, ReviewRejected,
     DispatchTurn, ObserveBusyTurn, ObserveEndedTurn, CommitChanges, FinishTurn,
     StagePublish, Push, CreatePullRequest, BindPullRequest, MarkUnknown, MarkFailed, Watch,
     CompleteRun, MonitorBlocked, ReviewError, DriveFails, Refused, Crash
<1>6. CASE UserCommand \/ UNCHANGED vars
  BY <1>2, <1>6 DEF UserCommand, PauseByUser, CancelByUser, ResumeByUser, RetryByUser, vars
<1>7. CASE Surroundings
  BY <1>2, <1>4, <1>7 DEF Surroundings, DeveloperStarts, DeveloperWrites, DeveloperEnds,
     OwnerReleased, Requeue, MonitorDecides, MonitorReturns, PullRequestCloses,
     BranchMoves, MonitorBecomes, GhostExpires, HeartbeatLate, ActionExpires
<1> QED
  BY <1>2, <1>3, <1>5, <1>6, <1>7 DEF Next

LEMMA BehindStep == FlowInv /\ HeadsBehind /\ [Next]_vars => HeadsBehind'
<1> SUFFICES ASSUME FlowInv, HeadsBehind, [Next]_vars PROVE HeadsBehind'
  OBVIOUS
<1>1. run.head \in Nat /\ run'.head \in Nat /\ run.head <= run'.head
  BY HeadMoves
<1>2. FlowInv'
  BY FlowStep
<1>3. /\ inv' \in [Handle -> InvocationType]
      /\ ctl \in [Controller -> DriveType] /\ ctl' \in [Controller -> DriveType]
  BY <1>2 DEF FlowInv, DeliveryInv, TypeOK
<1>4. \A h \in Handle : inv'[h].head <= run'.head
  BY <1>1, <1>3, AskedHeads DEF InvocationType
<1>5. \A d \in Controller :
        /\ ctl'[d].head <= run.head
        /\ ctl'[d].pc = "finish" => ctl'[d].result \in {ctl'[d].head, ctl'[d].head + 1}
  <2>1. ASSUME NEW c \in Controller, Claim(c) \/ CommitChanges(c)
        PROVE  \A d \in Controller :
                 /\ ctl'[d].head <= run.head
                 /\ ctl'[d].pc = "finish" => ctl'[d].result \in {ctl'[d].head, ctl'[d].head + 1}
    BY <2>1, ClaimedHeads, CommittedHeads
  <2>2. ASSUME NEW c \in Controller,
               DriveStep(c) \/ DriveFails(c) \/ Refused(c) \/ Crash(c),
               ~Claim(c), ~CommitChanges(c)
        PROVE  \A d \in Controller :
                 /\ ctl'[d].head <= run.head
                 /\ ctl'[d].pc = "finish" => ctl'[d].result \in {ctl'[d].head, ctl'[d].head + 1}
    BY <1>1, <2>2, KeptHeads DEF HeadsBehind
  <2>3. CASE UserCommand \/ Surroundings \/ UNCHANGED vars
    <3>1. \/ ctl' = ctl
          \/ ctl' = [d \in Controller |-> [ctl[d] EXCEPT !.fresh = FALSE]]
      BY <2>3 DEF UserCommand, Surroundings, PauseByUser, CancelByUser, ResumeByUser,
         RetryByUser, CapabilityEnds, CapabilityFails, DeveloperStarts, DeveloperWrites,
         DeveloperEnds, OwnerReleased, Requeue, MonitorDecides, MonitorReturns,
         PullRequestCloses, BranchMoves, MonitorBecomes, GhostExpires, HeartbeatLate, ActionExpires, vars
    <3>2. \A d \in Controller :
             ctl'[d].head = ctl[d].head /\ ctl'[d].pc = ctl[d].pc /\ ctl'[d].result = ctl[d].result
      BY <1>3, <3>1 DEF DriveType, DriveRow
    <3> QED
      BY <3>2 DEF HeadsBehind
  <2> QED
    BY <2>1, <2>2, <2>3 DEF Next
<1>6. \A d \in Controller : ctl'[d].head <= run'.head
  <2>1. \A d \in Controller : ctl'[d].head \in Nat
    BY <1>3 DEF DriveType, DriveRow
  <2> QED
    BY <1>1, <1>5, <2>1
<1> QED
  BY <1>4, <1>5, <1>6 DEF HeadsBehind

-----------------------------------------------------------------------------
(* The theorems. *)

\* create_controller_invocation and commit_changes read no lease; still no
\* review is asked for a head ahead of the run, and a turn that is about to be
\* finished stands at the head its controller has read or one commit after it.
THEOREM HeadsStayBehind == Spec => []HeadsBehind
<1>1. Init => HeadsBehind
  BY ContractInit
<1> QED
  BY <1>1, BehindStep, FlowInvariant, PTL DEF Spec

\* DeliveryController, its reducer and the users' commands implement what is
\* promised of a delivery: whatever controllers interleave, crash or are
\* fenced off, the run moves through its stages as one sequential author would.
THEOREM ContractImplemented == Spec => ImplementsContract
<1>1. Init => Contract!DInit
  BY ContractInit
<1> QED
  BY <1>1, ContractStep, FlowInvariant, HeadsStayBehind, PTL
  DEF Spec, ImplementsContract, Contract!DSpec


\* What follows for the user.  A delivered or cancelled run is over: no late
\* controller, resume or retry moves its head or spends another cycle.
THEOREM EndedStaysEnded ==
    Spec => [][(Stage \in {"success", "cancelled"}) =>
                 Stage' = Stage /\ run'.head = run.head /\ run'.cycles = run.cycles]_vars
<1> DEFINE Over == Stage \in {"success", "cancelled"} =>
                     Stage' = Stage /\ run'.head = run.head /\ run'.cycles = run.cycles
<1>1. [Contract!DNext]_(Contract!dvars) => Over
  BY DEF Contract!DNext, Contract!dvars, Contract!Approve, Contract!Push, Contract!Code,
     Contract!Advance, Contract!Again, Contract!Succeed, Contract!Cancel, Contract!Fail,
     Contract!Retry, Contract!Goes
<1>2. FlowInv /\ HeadsBehind /\ [Next]_vars => [Over]_vars
  BY <1>1, ContractStep
<1> QED
  BY <1>2, FlowInvariant, HeadsStayBehind, PTL DEF Spec

\* The head that was reviewed is the head that is published and watched: from
\* the end of the review until the run works again, nothing moves it.
THEOREM ReviewedHeadStands ==
    Spec => [][(Stage \in {"publish", "watch"}) => run'.head = run.head]_vars
<1> DEFINE Stands == Stage \in {"publish", "watch"} => run'.head = run.head
<1>1. [Contract!DNext]_(Contract!dvars) => Stands
  BY DEF Contract!DNext, Contract!dvars, Contract!Approve, Contract!Push, Contract!Code,
     Contract!Advance, Contract!Again, Contract!Succeed, Contract!Cancel, Contract!Fail,
     Contract!Retry, Contract!Goes
<1>2. FlowInv /\ HeadsBehind /\ [Next]_vars => [Stands]_vars
  BY <1>1, ContractStep
<1> QED
  BY <1>2, FlowInvariant, HeadsStayBehind, PTL DEF Spec
=============================================================================
