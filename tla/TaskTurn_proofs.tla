--------------------------- MODULE TaskTurn_proofs ---------------------------
(***************************************************************************)
(* Proofs about the Task-turn machine, for every number of Tasks, slots    *)
(* and processes and every value of the settings and bounds.               *)
(***************************************************************************)
EXTENDS TaskTurnProps, TLAPS

LEMMA FailOwnedType ==
    ASSUME TaskRows, NEW i, FailOwned(i)
    PROVE  TaskRows'
BY DEF TaskRows, FailOwned, Statuses, Terminal

LEMMA FinalizeType ==
    ASSUME TaskRows, NEW i, NEW a, NEW c, Finalize(i, a, c)
    PROVE  TaskRows'
<1> DEFINE t == lc[i].task
<1>1. CASE UNCHANGED <<status, inst, retry>>
  BY <1>1 DEF TaskRows, Finalize
<1>2. CASE /\ status' = [status EXCEPT ![t] = "pending"]
           /\ inst' = [inst EXCEPT ![t] = NoInst]
           /\ retry' = [retry EXCEPT ![t] = IF c THEN @ + 1 ELSE @]
  <2>1. retry' \in [Tasks -> Nat]
    <3>1. CASE c
      <4>1. t \in Tasks => retry[t] + 1 \in Nat
        BY DEF TaskRows
      <4> QED
        BY <1>2, <3>1, <4>1 DEF TaskRows
    <3>2. CASE ~c
      BY <1>2, <3>2 DEF TaskRows
    <3> QED
      BY <3>1, <3>2
  <2>2. status' \in [Tasks -> Statuses] /\ inst' \in [Tasks -> Instances \cup {NoInst}]
    BY <1>2 DEF TaskRows, Statuses
  <2> QED
    BY <2>1, <2>2 DEF TaskRows, Finalize
<1>3. CASE /\ status' = [status EXCEPT ![t] = "failed"]
           /\ UNCHANGED <<inst, retry>>
  BY <1>3 DEF TaskRows, Finalize, Statuses, Terminal
<1> QED
  BY <1>1, <1>2, <1>3 DEF Finalize

LEMMA GotoType ==
    ASSUME lc \in [Instances -> LcRow], NEW i \in Instances, NEW w \in LcPc, Goto(i, w),
           HasTask([lc[i] EXCEPT !.pc = w]) => lc[i].task \in Tasks
    PROVE  lc' \in [Instances -> LcRow]
BY DEF Goto, LcRow, HasTask

LEMMA LeaveType ==
    ASSUME lc \in [Instances -> LcRow], NEW i \in Instances, lc' = [lc EXCEPT ![i] = NoLc]
    PROVE  lc' \in [Instances -> LcRow]
BY DEF LcRow, NoLc, LcPc, HasTask

LEMMA ClearSlotType ==
    ASSUME InstanceRows, NEW i \in Instances, NEW s \in {"idle", "error"}, ClearSlot(i, s)
    PROVE  InstanceRows'
BY DEF InstanceRows, ClearSlot

\* Each group of variables keeps its type; one step per action that writes it.
LEMMA LifecycleTaskRows ==
    ASSUME TypeOK, NEW i \in Instances, Lifecycle(i)
    PROVE  TaskRows'
<1> USE DEF TypeOK
<1>1. ASSUME NEW t \in Tasks, Dequeue(i, t) PROVE TaskRows'
  BY <1>1 DEF Dequeue, TaskRows, Statuses, Active
<1>2. CASE BindTurn(i)
  BY <1>2 DEF BindTurn, TaskRows, Statuses, Active
<1>3. CASE Admit(i)
  BY <1>3 DEF Admit, TaskRows
<1>4. CASE PrepareFails(i) \/ LaunchDeferred(i) \/ JudgeError(i) \/ LifecycleCancelled(i)
  BY <1>4, FinalizeType DEF PrepareFails, LaunchDeferred, JudgeError, LifecycleCancelled
<1>5. CASE \/ LaunchFails(i) \/ TrackAborted(i) \/ TrackAbortUnconfirmed(i)
           \/ JudgeRejectedFails(i) \/ WaitFails(i)
  BY <1>5, FailOwnedType DEF LaunchFails, TrackAborted, TrackAbortUnconfirmed,
     JudgeRejectedFails, WaitFails
<1>6. CASE JudgeCompleted(i) \/ JudgeRejected(i)
  BY <1>6 DEF JudgeCompleted, JudgeRejected, TaskRows, Statuses, Terminal
<1>7. CASE ExitReset(i)
  <2>1. FailOwned(i) \/ UNCHANGED taskVars
    BY <1>7 DEF ExitReset
  <2> QED
    BY <2>1, FailOwnedType DEF TaskRows, taskVars
<1>8. CASE UNCHANGED taskVars
  BY <1>8 DEF TaskRows, taskVars
<1>9. CASE \/ ReleaseReservation(i) \/ BindSuperseded(i) \/ LaunchAbandoned(i)
           \/ (\E p \in Procs : Spawn(i, p)) \/ Track(i) \/ LifecycleDies(i) \/ Reconcile(i)
  <2>1. UNCHANGED taskVars
    BY <1>9 DEF ReleaseReservation, BindSuperseded, LaunchAbandoned, Spawn, Track,
       LifecycleDies, Reconcile
  <2> QED
    BY <2>1, <1>8
<1> QED
  BY <1>1, <1>2, <1>3, <1>4, <1>5, <1>6, <1>7, <1>9 DEF Lifecycle

LEMMA LifecycleInstanceRows ==
    ASSUME TypeOK, NEW i \in Instances, Lifecycle(i)
    PROVE  InstanceRows'
<1> USE DEF TypeOK
<1>1. CASE Track(i) \/ TrackAbortUnconfirmed(i)
  <2>1. lc[i].task \in Tasks \cup {NoTask} /\ lc[i].pid \in Procs \cup {NoProc}
    BY DEF LcRow
  <2> QED
    BY <1>1, <2>1 DEF Track, TrackAbortUnconfirmed, InstanceRows
<1>2. CASE ExitReset(i)
  BY <1>2, ClearSlotType DEF ExitReset, InstanceRows, instVars
<1>3. CASE Reconcile(i)
  BY <1>3 DEF Reconcile, InstanceRows
<1>4. CASE UNCHANGED instVars
  BY <1>4 DEF InstanceRows, instVars
<1>5. CASE \/ ReleaseReservation(i) \/ (\E t \in Tasks : Dequeue(i, t))
           \/ PrepareFails(i) \/ BindTurn(i) \/ BindSuperseded(i)
           \/ LaunchAbandoned(i) \/ LaunchDeferred(i) \/ LaunchFails(i)
           \/ Admit(i) \/ (\E p \in Procs : Spawn(i, p)) \/ TrackAborted(i)
           \/ JudgeCompleted(i) \/ JudgeError(i) \/ JudgeRejected(i)
           \/ JudgeRejectedFails(i) \/ WaitFails(i) \/ LifecycleDies(i)
           \/ LifecycleCancelled(i)
  <2>1. UNCHANGED instVars
    BY <1>5 DEF ReleaseReservation, Dequeue, PrepareFails, BindTurn, BindSuperseded,
       LaunchAbandoned, LaunchDeferred, LaunchFails, Admit, Spawn, TrackAborted,
       JudgeCompleted, JudgeError, JudgeRejected, JudgeRejectedFails, WaitFails,
       LifecycleDies, LifecycleCancelled
  <2> QED
    BY <2>1, <1>4
<1> QED
  BY <1>1, <1>2, <1>3, <1>5 DEF Lifecycle

LEMMA LifecycleLc ==
    ASSUME TypeOK, NEW i \in Instances, Lifecycle(i)
    PROVE  lc' \in [Instances -> LcRow]
<1> USE DEF TypeOK
<1>0. lc[i] \in LcRow
  OBVIOUS
<1>1. ASSUME NEW t \in Tasks, Dequeue(i, t) PROVE lc' \in [Instances -> LcRow]
  <2>1. gen'[t] \in Nat /\ retry[t] \in Nat
    BY <1>1 DEF Dequeue, TaskRows
  <2>2. [pc |-> "claimed", task |-> t, gen |-> gen'[t], retry |-> retry[t],
         pid |-> NoProc] \in LcRow
    BY <2>1 DEF LcRow, LcPc, HasTask
  <2> QED
    BY <1>1, <2>2 DEF Dequeue
<1>2. CASE BindTurn(i)
  <2>1. gen[lc[i].task] \in Nat
    BY <1>0, <1>2 DEF BindTurn, LcRow, HasTask, TaskRows
  <2>2. [lc[i] EXCEPT !.pc = "launch", !.gen = gen[lc[i].task]] \in LcRow
    BY <1>0, <1>2, <2>1 DEF BindTurn, LcRow, LcPc, HasTask
  <2> QED
    BY <1>2, <2>2 DEF BindTurn
<1>3. ASSUME NEW p \in Procs, Spawn(i, p) PROVE lc' \in [Instances -> LcRow]
  <2>1. [lc[i] EXCEPT !.pc = "track", !.pid = p] \in LcRow
    BY <1>0, <1>3 DEF Spawn, LcRow, LcPc, HasTask
  <2> QED
    BY <1>3, <2>1 DEF Spawn
<1>4. CASE \/ ReleaseReservation(i) \/ PrepareFails(i) \/ BindSuperseded(i)
           \/ Reconcile(i) \/ LifecycleCancelled(i)
  BY <1>4, LeaveType DEF ReleaseReservation, PrepareFails, BindSuperseded, Reconcile,
     LifecycleCancelled
<1>5. ASSUME NEW w \in {"spawn", "wait", "exit", "reconcile"}, Goto(i, w), HasTask(lc[i])
      PROVE  lc' \in [Instances -> LcRow]
  BY <1>0, <1>5, GotoType DEF LcRow, LcPc
<1>6. CASE \/ LaunchAbandoned(i) \/ LaunchDeferred(i) \/ LaunchFails(i) \/ Admit(i)
           \/ Track(i) \/ TrackAborted(i) \/ TrackAbortUnconfirmed(i)
           \/ JudgeCompleted(i) \/ JudgeError(i) \/ JudgeRejected(i)
           \/ JudgeRejectedFails(i) \/ WaitFails(i) \/ LifecycleDies(i) \/ ExitReset(i)
  <2>1. HasTask(lc[i])
    BY <1>6 DEF HasTask, LaunchAbandoned, LaunchDeferred, LaunchFails, Admit, Track,
       TrackAborted, TrackAbortUnconfirmed, JudgeCompleted, JudgeError, JudgeRejected,
       JudgeRejectedFails, WaitFails, LifecycleDies, ExitReset
  <2>2. \E w \in {"spawn", "wait", "exit", "reconcile"} : Goto(i, w)
    BY <1>6 DEF LaunchAbandoned, LaunchDeferred, LaunchFails, Admit, Track,
       TrackAborted, TrackAbortUnconfirmed, JudgeCompleted, JudgeError, JudgeRejected,
       JudgeRejectedFails, WaitFails, LifecycleDies, ExitReset
  <2> QED
    BY <2>1, <2>2, <1>5
<1> QED
  BY <1>1, <1>2, <1>3, <1>4, <1>6 DEF Lifecycle

LEMMA LifecycleRest ==
    ASSUME TypeOK, NEW i \in Instances, Lifecycle(i)
    PROVE  /\ managed' \in [Instances -> Procs \cup {NoProc}]
           /\ proc' \in [Procs -> ProcRow]
           /\ UNCHANGED <<stop, mode, crashes>>
<1> USE DEF TypeOK
<1>1. ASSUME NEW p \in Procs, Spawn(i, p)
      PROVE  /\ managed' \in [Instances -> Procs \cup {NoProc}]
             /\ proc' \in [Procs -> ProcRow]
             /\ UNCHANGED <<stop, mode, crashes>>
  <2>1. lc[i].task \in Tasks /\ lc[i].gen \in Nat /\ auth[lc[i].task] \in Nat
    BY <1>1 DEF Spawn, LcRow, HasTask, TaskRows
  <2>2. [st |-> "live", task |-> lc[i].task, gen |-> lc[i].gen,
         auth |-> auth[lc[i].task], out |-> "none", rec |-> FALSE] \in ProcRow
    BY <2>1 DEF ProcRow
  <2> QED
    BY <1>1, <2>2 DEF Spawn, sysVars
<1>2. CASE Track(i) \/ TrackAborted(i) \/ TrackAbortUnconfirmed(i)
  <2>1. proc' \in [Procs -> ProcRow]
    <3> DEFINE p == lc[i].pid
    <3>1. p \in Procs => /\ [proc[p] EXCEPT !.rec = TRUE] \in ProcRow
                         /\ [proc[p] EXCEPT !.st = "dead", !.out = "error"] \in ProcRow
      BY DEF ProcRow
    <3>2. CASE Track(i) \/ TrackAbortUnconfirmed(i)
      BY <3>1, <3>2 DEF Track, TrackAbortUnconfirmed
    <3>3. CASE TrackAborted(i)
      BY <3>1, <3>3 DEF TrackAborted
    <3> QED
      BY <1>2, <3>2, <3>3
  <2> QED
    BY <1>2, <2>1 DEF Track, TrackAborted, TrackAbortUnconfirmed, sysVars
<1>3. CASE \/ ReleaseReservation(i) \/ (\E t \in Tasks : Dequeue(i, t))
           \/ PrepareFails(i) \/ BindTurn(i) \/ BindSuperseded(i)
           \/ LaunchAbandoned(i) \/ LaunchDeferred(i) \/ LaunchFails(i) \/ Admit(i)
           \/ JudgeCompleted(i) \/ JudgeError(i) \/ JudgeRejected(i)
           \/ JudgeRejectedFails(i) \/ WaitFails(i) \/ LifecycleDies(i)
           \/ LifecycleCancelled(i) \/ ExitReset(i) \/ Reconcile(i)
  BY <1>3 DEF ReleaseReservation, Dequeue, PrepareFails, BindTurn, BindSuperseded,
       LaunchAbandoned, LaunchDeferred, LaunchFails, Admit,
       JudgeCompleted, JudgeError, JudgeRejected, JudgeRejectedFails, WaitFails,
       LifecycleDies, LifecycleCancelled, ExitReset, Reconcile, sysVars
<1> QED
  BY <1>1, <1>2, <1>3 DEF Lifecycle

LEMMA LifecycleType ==
    ASSUME TypeOK, NEW i \in Instances, Lifecycle(i)
    PROVE  TypeOK'
BY LifecycleTaskRows, LifecycleInstanceRows, LifecycleLc, LifecycleRest DEF TypeOK

LEMMA StopType ==
    ASSUME TypeOK, NEW t \in Tasks, StopStep(t)
    PROVE  TypeOK'
<1> USE DEF TypeOK
<1> DEFINE Memory == /\ UNCHANGED <<lc, mode, crashes>>
                     /\ stop' \in [Tasks -> StopRow]
                     /\ managed' \in [Instances -> Procs \cup {NoProc}]
<1>1. Memory
  <2>0. stop[t] \in StopRow
    OBVIOUS
  <2>1. ASSUME NEW i \in Instances, NEW x
        PROVE  /\ [stop[t] EXCEPT !.at = i] \in StopRow
               /\ [stop[t] EXCEPT !.todo = @ \ {x}] \in StopRow
               /\ [stop[t] EXCEPT !.at = NoInst, !.todo = {y \in @ : y[1] # stop[t].at}]
                    \in StopRow
    BY <2>0 DEF StopRow
  <2>2. NoStop \in StopRow
    BY DEF NoStop, StopRow, Statuses
  <2>3. ASSUME NEW i \in Instances, NEW p, StopKill(t, i, p) PROVE Memory
    BY <2>1, <2>3 DEF StopKill, sysVars
  <2>4. ASSUME NEW i \in Instances, NEW p, StopUnconfirmed(t, i, p) PROVE Memory
    BY <2>1, <2>4 DEF StopUnconfirmed, sysVars
  <2>5. ASSUME NEW i \in Instances, NEW p, StopUnmanaged(t, i, p) PROVE Memory
    BY <2>1, <2>5 DEF StopUnmanaged, sysVars
  <2>6. CASE StopSettle(t)
    <3>1. stop[t].at \in Instances
      BY <2>0, <2>6 DEF StopSettle, StopRow
    <3> QED
      BY <2>1, <2>6, <3>1 DEF StopSettle, sysVars
  <2>7. CASE CancelFinish(t) \/ SupersedeFinish(t)
    BY <2>2, <2>7 DEF CancelFinish, SupersedeFinish, sysVars
  <2> QED
    BY <2>3, <2>4, <2>5, <2>6, <2>7 DEF StopStep
<1>2. proc' \in [Procs -> ProcRow]
  <2>1. ASSUME NEW i \in Instances, NEW p, StopKill(t, i, p)
        PROVE  proc' \in [Procs -> ProcRow]
    <3>1. p \in Procs => [proc[p] EXCEPT !.st = "dead", !.out = "interrupt"] \in ProcRow
      BY DEF ProcRow
    <3> QED
      BY <2>1, <3>1 DEF StopKill
  <2>2. (\A i \in Instances, p \in Procs \cup {NoProc} : ~StopKill(t, i, p)) => proc' = proc
    BY DEF StopStep, StopUnconfirmed, StopUnmanaged, StopSettle, CancelFinish,
       SupersedeFinish
  <2> QED
    BY <2>1, <2>2 DEF StopStep
<1>3. InstanceRows'
  <2>1. \/ UNCHANGED instVars
        \/ \E i \in Instances : ClearSlot(i, "idle")
    <3>1. stop[t].at \in Instances \cup {NoInst}
      BY DEF StopRow
    <3> QED
      BY <3>1 DEF StopStep, StopKill, StopUnconfirmed, StopUnmanaged, StopSettle,
         CancelFinish, SupersedeFinish
  <2> QED
    BY <2>1, ClearSlotType DEF InstanceRows, instVars
<1>4. TaskRows'
  <2>1. CASE UNCHANGED taskVars
    BY <2>1 DEF TaskRows, taskVars
  <2>2. CASE StopSettle(t)
    BY <2>2 DEF StopSettle, TaskRows, Statuses, Terminal
  <2>3. CASE SupersedeFinish(t)
    <3>1. stop[t].was \in Statuses
      BY DEF StopRow
    <3> QED
      BY <2>3, <3>1 DEF SupersedeFinish, SupersedeTarget, TaskRows, Statuses, Terminal
  <2> QED
    BY <2>1, <2>2, <2>3 DEF StopStep, StopKill, StopUnconfirmed, StopUnmanaged, CancelFinish
<1> QED
  BY <1>1, <1>2, <1>3, <1>4

LEMMA OtherType ==
    ASSUME TypeOK,
           \/ \E i \in Instances : EnsureIdle(i) \/ Reserve(i) \/ ConsumerRelease(i)
           \/ \E p \in Procs : ProcEnds(p)
           \/ \E t \in Tasks : Request(t)
           \/ BeginShutdown \/ Crash \/ Restart
    PROVE  TypeOK'
<1> USE DEF TypeOK
<1>1. ASSUME NEW i \in Instances, EnsureIdle(i) PROVE TypeOK'
  BY <1>1 DEF EnsureIdle, TaskRows, InstanceRows, taskVars, memVars, sysVars
<1>2. ASSUME NEW i \in Instances, Reserve(i) PROVE TypeOK'
  <2>1. HasTask([lc[i] EXCEPT !.pc = "reserved"]) => lc[i].task \in Tasks
    BY DEF HasTask, LcRow
  <2>2. lc' \in [Instances -> LcRow]
    BY <1>2, <2>1, GotoType DEF Reserve, LcPc
  <2> QED
    BY <1>2, <2>2 DEF Reserve, TaskRows, InstanceRows, taskVars, instVars, sysVars
<1>3. ASSUME NEW i \in Instances, ConsumerRelease(i) PROVE TypeOK'
  <2>1. InstanceRows'
    BY <1>3, ClearSlotType DEF ConsumerRelease, InstanceRows, instVars
  <2> QED
    BY <1>3, <2>1 DEF ConsumerRelease, TaskRows, taskVars, sysVars
<1>4. ASSUME NEW p \in Procs, ProcEnds(p) PROVE TypeOK'
  <2>1. proc' \in [Procs -> ProcRow]
    BY <1>4 DEF ProcEnds, ProcExit, ProcRow
  <2> QED
    BY <1>4, <2>1 DEF ProcEnds, ProcExit, TaskRows, InstanceRows, taskVars, instVars,
       memVars, sysVars
<1>5. ASSUME NEW t \in Tasks, CancelOwnerless(t) PROVE TypeOK'
  BY <1>5 DEF CancelOwnerless, TaskRows, InstanceRows, Statuses, Terminal, instVars,
     memVars, sysVars
<1>6. ASSUME NEW t \in Tasks, NEW k \in {"cancel", "supersede"},
             NEW O \in SUBSET Instances
      PROVE  Snapshot(t, k, O) \in StopRow
  BY DEF Snapshot, StopRow, TaskRows, InstanceRows
<1>7. ASSUME NEW t \in Tasks, CancelBegin(t) PROVE TypeOK'
  <2>1. Snapshot(t, "cancel", Owners(t)) \in StopRow
    BY <1>6 DEF Owners
  <2> QED
    BY <1>7, <2>1 DEF CancelBegin, TaskRows, InstanceRows, taskVars, instVars, sysVars
<1>8. ASSUME NEW t \in Tasks, SupersedeBegin(t) PROVE TypeOK'
  <2>1. Snapshot(t, "supersede", Owners(t)) \in StopRow
    BY <1>6 DEF Owners
  <2> QED
    BY <1>8, <2>1 DEF SupersedeBegin, TaskRows, InstanceRows, instVars, sysVars
<1>9. ASSUME NEW t \in Tasks, Retry(t) PROVE TypeOK'
  <2>1. TaskRows'
    BY <1>9 DEF Retry, TaskRows, Statuses
  <2>2. InstanceRows'
    BY <1>9 DEF Retry, InstanceRows
  <2> QED
    BY <1>9, <2>1, <2>2 DEF Retry, memVars, sysVars
<1>10. CASE BeginShutdown
  BY <1>10 DEF BeginShutdown, TaskRows, InstanceRows, taskVars, instVars, memVars
<1>11. CASE Crash
  <2>1. NoLc \in LcRow
    BY DEF NoLc, LcRow, LcPc, HasTask
  <2>2. NoStop \in StopRow
    BY DEF NoStop, StopRow, Statuses
  <2> QED
    BY <1>11, <2>1, <2>2 DEF Crash, TaskRows, InstanceRows, taskVars, instVars
<1>12. CASE Restart
  <2>1. \A t \in Tasks : CleanedStatus(t) \in Statuses
    BY DEF CleanedStatus, TaskRows, Statuses, Terminal
  <2>2. TaskRows'
    BY <1>12, <2>1 DEF Restart, TaskRows
  <2>3. InstanceRows'
    BY <1>12 DEF Restart, InstanceRows, CleanedSlot
  <2> QED
    BY <1>12, <2>2, <2>3 DEF Restart, memVars
<1> QED
  BY <1>1, <1>2, <1>3, <1>4, <1>5, <1>7, <1>8, <1>9, <1>10, <1>11, <1>12 DEF Request

LEMMA InitType == Init => TypeOK
<1> SUFFICES ASSUME Init PROVE TypeOK
  OBVIOUS
<1>1. NoLc \in LcRow
  BY DEF NoLc, LcRow, LcPc, HasTask
<1>2. NoStop \in StopRow
  BY DEF NoStop, StopRow, Statuses
<1>3. Unborn \in ProcRow
  BY DEF Unborn, ProcRow
<1> QED
  BY <1>1, <1>2, <1>3 DEF Init, TypeOK, TaskRows, InstanceRows, Statuses

LEMMA NextType == TypeOK /\ [Next]_vars => TypeOK'
<1> SUFFICES ASSUME TypeOK, [Next]_vars PROVE TypeOK'
  OBVIOUS
<1>1. CASE Next
  BY <1>1, LifecycleType, StopType, OtherType DEF Next
<1>2. CASE UNCHANGED vars
  BY <1>2 DEF vars, taskVars, instVars, memVars, sysVars, TypeOK, TaskRows, InstanceRows
<1> QED
  BY <1>1, <1>2

(***************************************************************************)
(* Type correctness, with the fact the later proofs lean on most: every    *)
(* coroutine past its reservation carries a Task.                          *)
(***************************************************************************)
THEOREM TypeCorrect == Spec => []TypeOK
<1> QED
  BY InitType, NextType, PTL DEF Spec
=============================================================================
