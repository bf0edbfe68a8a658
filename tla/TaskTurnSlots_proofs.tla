------------------------- MODULE TaskTurnSlots_proofs -------------------------
(***************************************************************************)
(* Slots, processes and stops of the Task-turn machine agree: SlotInv is   *)
(* inductive on top of EffectInv. What one step may do to an Instance row, *)
(* to a process and to a lifecycle is said once (RowStep, ProcStep,        *)
(* LcStep), and the parts of the invariant are preserved by these kinds.   *)
(***************************************************************************)
EXTENDS TaskTurnEffects_proofs, FiniteSetTheorems

Inv == TypeOK /\ EffectInv /\ SlotInv

\* The row keeps its owner and process, and does not start to run.
RowQuiet(i) ==
    /\ cur'[i] = cur[i] /\ pid'[i] = pid[i]
    /\ istat'[i] = istat[i] \/ istat'[i] # "running"
\* The row lets go of a process that is not alive.
RowDropped(i) ==
    /\ cur'[i] = NoTask /\ pid'[i] = NoProc /\ istat'[i] # "running"
    /\ ~Live(pid[i])
\* The row names the process its lifecycle has spawned.
RowPublished(i) ==
    /\ lc[i].pc = "track" /\ lc'[i].pc \in {"wait", "exit"}
    /\ cur'[i] = lc[i].task /\ pid'[i] = lc[i].pid
    /\ managed' = managed
\* A process runs on, ends, or becomes recorded by the slot that publishes it.
ProcGoesOn(p) ==
    /\ proc'[p].task = proc[p].task /\ proc'[p].gen = proc[p].gen
    /\ proc'[p].auth = proc[p].auth
    /\ proc'[p].st = proc[p].st \/ (proc[p].st = "live" /\ proc'[p].st = "dead")
    /\ proc'[p].rec = proc[p].rec \/ \E i \in Instances : RowPublished(i) /\ lc[i].pid = p
\* A lifecycle that neither starts nor advances a launch.
LcEnds(i) ==
    \/ lc'[i] = lc[i] \/ lc'[i] = NoLc
    \/ HasTask(lc[i]) /\ lc'[i].pc \in {"exit", "reconcile"} /\ Carries(i)
    \/ lc[i].pc = "track" /\ lc'[i].pc = "wait" /\ Carries(i)
\* The evidence of slot i goes where no launch and no running process needs it.
EvidenceDropped(i) ==
    /\ managed'[i] = NoProc /\ lc'[i].pc # "track"
    /\ mode' = "down" \/ istat'[i] # "running" \/ ~Live(pid[i])'

-----------------------------------------------------------------------------
(* What a step does to rows. *)

LEMMA LifecycleRow ==
    ASSUME Inv, NEW i \in Instances, Lifecycle(i), NEW j \in Instances
    PROVE  RowQuiet(j) \/ RowDropped(j) \/ (j = i /\ RowPublished(j))
<1>0. /\ istat \in [Instances -> {"idle", "running", "error"}]
      /\ cur \in [Instances -> Tasks \cup {NoTask}]
      /\ pid \in [Instances -> Procs \cup {NoProc}]
      /\ lc \in [Instances -> LcRow]
  BY DEF Inv, TypeOK, InstanceRows
<1>1. CASE UNCHANGED instVars
  BY <1>1 DEF instVars, RowQuiet
<1>2. CASE Track(i) \/ TrackAbortUnconfirmed(i)
  <2>1. lc[i].pc = "track" /\ lc'[i].pc \in {"wait", "exit"} /\ managed' = managed
    BY <1>0, <1>2 DEF Track, TrackAbortUnconfirmed, Goto, LcRow
  <2>2. /\ cur' = [cur EXCEPT ![i] = lc[i].task] /\ pid' = [pid EXCEPT ![i] = lc[i].pid]
        /\ \E s \in {"running", "error"} : istat' = [istat EXCEPT ![i] = s]
    BY <1>2 DEF Track, TrackAbortUnconfirmed
  <2> QED
    BY <1>0, <2>1, <2>2 DEF RowQuiet, RowPublished
<1>3. CASE ExitReset(i)
  <2>1. CASE istat[i] = "running" /\ ~IsRunning(i) /\ ClearSlot(i, "idle") /\ lc[i].pc = "exit"
    <3>1. ~Live(pid[i])
      BY <2>1, LifecycleIsUp DEF Inv, SlotInv, RunningManaged, IsRunning, Live
    <3> QED
      BY <1>0, <2>1, <3>1 DEF ClearSlot, RowQuiet, RowDropped
  <2> QED
    BY <1>1, <1>3, <2>1 DEF ExitReset
<1>4. CASE Reconcile(i)
  BY <1>0, <1>4 DEF Reconcile, DeadReverseOwner, StaleOwner, Dead, Live, RowQuiet, RowDropped
<1> QED
  BY <1>1, <1>2, <1>3, <1>4 DEF Lifecycle, ReleaseReservation, Dequeue, PrepareFails, BindTurn,
     BindSuperseded, LaunchAbandoned, LaunchDeferred, LaunchFails, Admit, Spawn, TrackAborted,
     JudgeCompleted, JudgeError, JudgeRejected, JudgeRejectedFails, WaitFails, LifecycleDies,
     LifecycleCancelled, instVars

LEMMA StopKeepsRow ==
    ASSUME Inv, NEW t \in Tasks, StopStep(t), NEW j \in Instances
    PROVE  RowQuiet(j) \/ RowDropped(j)
<1>0. /\ istat \in [Instances -> {"idle", "running", "error"}]
      /\ cur \in [Instances -> Tasks \cup {NoTask}]
      /\ pid \in [Instances -> Procs \cup {NoProc}]
  BY DEF Inv, TypeOK, InstanceRows
<1>1. CASE UNCHANGED instVars
  BY <1>1 DEF instVars, RowQuiet
<1>2. ASSUME NEW i \in Instances, ~Live(pid[i]), ClearSlot(i, "idle")
      PROVE  RowQuiet(j) \/ RowDropped(j)
  BY <1>0, <1>2 DEF ClearSlot, RowQuiet, RowDropped
<1>3. ASSUME NEW i \in Instances, NEW p, StopUnmanaged(t, i, p)
      PROVE  UNCHANGED instVars \/ (~Live(pid[i]) /\ ClearSlot(i, "idle"))
  BY <1>3 DEF StopUnmanaged, DeadReverseOwner, StaleOwner, Dead, Live
<1>4. ASSUME StopSettle(t)
      PROVE  \/ UNCHANGED instVars
             \/ stop[t].at \in Instances /\ ~Live(pid[stop[t].at]) /\ ClearSlot(stop[t].at, "idle")
  <2>1. stop[t].at \in Instances
    BY <1>4 DEF StopSettle, Inv, TypeOK, StopRow
  <2>2. <<stop[t].at, pid[stop[t].at]>> \in stop[t].todo => ~Live(pid[stop[t].at])
    <3> DEFINE x == <<stop[t].at, pid[stop[t].at]>>
    <3>1. x[1] = stop[t].at /\ x[2] = pid[stop[t].at] /\ stop[t].at # NoInst
      BY <2>1, NullAssumption
    <3>2. x \in stop[t].todo /\ x[1] = stop[t].at => Dead(x[2])
      BY <3>1 DEF Inv, SlotInv, StopFindsDead
    <3> QED
      BY <3>1, <3>2 DEF Dead, Live
  <2> QED
    BY <1>4, <2>1, <2>2 DEF StopSettle
<1> QED
  BY <1>1, <1>2, <1>3, <1>4 DEF StopStep, StopKill, StopUnconfirmed, CancelFinish, SupersedeFinish, instVars

LEMMA OtherRow ==
    ASSUME Inv, NEW j \in Instances,
           \/ \E i \in Instances : EnsureIdle(i) \/ Reserve(i) \/ ConsumerRelease(i)
           \/ \E p \in Procs : ProcEnds(p)
           \/ \E t \in Tasks : Request(t)
           \/ BeginShutdown \/ Crash \/ Restart \/ UNCHANGED vars
    PROVE  RowQuiet(j) \/ RowDropped(j)
<1>0. /\ istat \in [Instances -> {"idle", "running", "error"}]
      /\ cur \in [Instances -> Tasks \cup {NoTask}]
      /\ pid \in [Instances -> Procs \cup {NoProc}]
  BY DEF Inv, TypeOK, InstanceRows
<1>1. CASE UNCHANGED instVars
  BY <1>1 DEF instVars, RowQuiet
<1>2. ASSUME NEW i \in Instances, EnsureIdle(i) PROVE RowQuiet(j)
  BY <1>0, <1>2 DEF EnsureIdle, RowQuiet
<1>3. ASSUME NEW i \in Instances, ConsumerRelease(i) PROVE RowQuiet(j) \/ RowDropped(j)
  BY <1>0, <1>1, <1>3 DEF ConsumerRelease, ClearSlot, RowQuiet, RowDropped, Dead, Live
<1>4. ASSUME NEW t \in Tasks, Retry(t) PROVE RowQuiet(j) \/ RowDropped(j)
  BY <1>0, <1>4 DEF Retry, RetryMayRelease, Owners, RowQuiet, RowDropped, Dead, Live
<1>5. CASE Restart
  BY <1>0, <1>5 DEF Restart, SlotSurvives, CleanedSlot, ActiveCapacity, RowQuiet, RowDropped, Live
<1> QED
  BY <1>1, <1>2, <1>3, <1>4, <1>5 DEF Reserve, ProcEnds, ProcExit, Request, CancelOwnerless,
     CancelBegin, SupersedeBegin, BeginShutdown, Crash, vars, instVars

LEMMA RowStep ==
    ASSUME Inv, [Next]_vars, NEW j \in Instances
    PROVE  RowQuiet(j) \/ RowDropped(j) \/ RowPublished(j)
BY LifecycleRow, StopKeepsRow, OtherRow DEF Next

-----------------------------------------------------------------------------
(* What a step does to processes. *)

LEMMA ProcEnded ==
    ASSUME TypeOK, NEW q \in Procs, Live(q), NEW o,
           proc' = [proc EXCEPT ![q].st = "dead", ![q].out = o], NEW p \in Procs
    PROVE  ProcGoesOn(p)
BY DEF ProcGoesOn, Live, TypeOK, ProcRow

LEMMA ProcStep ==
    ASSUME Inv, [Next]_vars, NEW p \in Procs
    PROVE  ProcGoesOn(p) \/ \E i \in Instances : Spawn(i, p)
<1>0. /\ proc \in [Procs -> ProcRow] /\ TypeOK /\ lc \in [Instances -> LcRow]
      /\ cur \in [Instances -> Tasks \cup {NoTask}]
      /\ pid \in [Instances -> Procs \cup {NoProc}]
  BY DEF Inv, TypeOK, InstanceRows
<1>1. proc' = proc => ProcGoesOn(p)
  BY DEF ProcGoesOn
<1>2. ASSUME NEW q \in Procs \cup {NoProc}, Live(q),
             \E o : proc' = [proc EXCEPT ![q].st = "dead", ![q].out = o]
      PROVE  ProcGoesOn(p)
  BY <1>0, <1>2, ProcEnded DEF Live
<1>3. ASSUME NEW i \in Instances, Track(i) \/ TrackAbortUnconfirmed(i)
      PROVE  ProcGoesOn(p)
  <2>1. lc[i].pc = "track" /\ lc'[i].pc \in {"wait", "exit"} /\ managed' = managed
    BY <1>0, <1>3 DEF Track, TrackAbortUnconfirmed, Goto, LcRow
  <2>2. /\ cur' = [cur EXCEPT ![i] = lc[i].task] /\ pid' = [pid EXCEPT ![i] = lc[i].pid]
        /\ proc' = [proc EXCEPT ![lc[i].pid].rec = TRUE]
    BY <1>3 DEF Track, TrackAbortUnconfirmed
  <2>3. RowPublished(i)
    BY <1>0, <2>1, <2>2 DEF RowPublished
  <2> QED
    BY <1>0, <2>2, <2>3 DEF ProcGoesOn, ProcRow
<1>4. ASSUME NEW i \in Instances, TrackAborted(i) PROVE ProcGoesOn(p)
  <2>1. lc[i].pid \in Procs \cup {NoProc}
    BY <1>0 DEF LcRow
  <2>2. CASE Live(lc[i].pid)
    <3>1. proc' = [proc EXCEPT ![lc[i].pid].st = "dead", ![lc[i].pid].out = "error"]
      BY <1>4, <2>2 DEF TrackAborted
    <3> QED
      BY <1>2, <2>1, <2>2, <3>1
  <2> QED
    BY <1>1, <1>4, <2>2 DEF TrackAborted
<1>5. ASSUME NEW i \in Instances, NEW q \in Procs, Spawn(i, q)
      PROVE  ProcGoesOn(p) \/ Spawn(i, p)
  BY <1>0, <1>5 DEF Spawn, ProcGoesOn
<1>6. ASSUME NEW i \in Instances, Lifecycle(i)
      PROVE  ProcGoesOn(p) \/ Spawn(i, p)
  <2>1. \/ Track(i) \/ TrackAborted(i) \/ TrackAbortUnconfirmed(i)
        \/ (\E q \in Procs : Spawn(i, q)) \/ proc' = proc
    BY <1>6 DEF Lifecycle, ReleaseReservation, Dequeue, PrepareFails, BindTurn,
       BindSuperseded, LaunchAbandoned, LaunchDeferred, LaunchFails, Admit, JudgeCompleted,
       JudgeError, JudgeRejected, JudgeRejectedFails, WaitFails, LifecycleDies,
       LifecycleCancelled, ExitReset, Reconcile
  <2> QED
    BY <1>1, <1>3, <1>4, <1>5, <2>1
<1>7. ASSUME NEW t \in Tasks, StopStep(t) PROVE ProcGoesOn(p)
  <2>1. ASSUME NEW i \in Instances, NEW q \in Procs \cup {NoProc}, StopKill(t, i, q)
        PROVE  ProcGoesOn(p)
    <3>1. CASE Live(q)
      <4>1. proc' = [proc EXCEPT ![q].st = "dead", ![q].out = "interrupt"]
        BY <2>1, <3>1 DEF StopKill
      <4> QED
        BY <1>2, <3>1, <4>1
    <3> QED
      BY <1>1, <2>1, <3>1 DEF StopKill
  <2>2. \/ \E i \in Instances, q \in Procs \cup {NoProc} : StopKill(t, i, q)
        \/ proc' = proc
    BY <1>7 DEF StopStep, StopUnconfirmed, StopUnmanaged, StopSettle, CancelFinish,
       SupersedeFinish
  <2> QED
    BY <1>1, <2>1, <2>2
<1>8. ASSUME NEW q \in Procs, ProcEnds(q) PROVE ProcGoesOn(p)
  BY <1>2, <1>8 DEF ProcEnds, ProcExit
<1> QED
  BY <1>1, <1>6, <1>7, <1>8 DEF Next, EnsureIdle, Reserve, ConsumerRelease, Request,
     CancelOwnerless, CancelBegin, SupersedeBegin, Retry, BeginShutdown, Crash, Restart, vars

-----------------------------------------------------------------------------
(* What a step does to lifecycles and to the evidence. *)

LEMMA LcStep ==
    ASSUME Inv, [Next]_vars, NEW i \in Instances
    PROVE  \/ LcEnds(i) \/ Reserve(i) \/ (\E t \in Tasks : Dequeue(i, t))
           \/ BindTurn(i) \/ Admit(i) \/ (\E p \in Procs : Spawn(i, p))
<1>0. lc \in [Instances -> LcRow]
  BY DEF Inv, TypeOK
<1>1. CASE lc' = lc
  BY <1>1 DEF LcEnds
<1>2. ASSUME NEW j \in Instances, HasTask(lc[j]),
             \/ Goto(j, "exit") \/ Goto(j, "reconcile") \/ lc' = [lc EXCEPT ![j] = NoLc]
             \/ lc[j].pc = "track" /\ Goto(j, "wait")
      PROVE  LcEnds(i)
  BY <1>0, <1>2 DEF LcEnds, Goto, Carries, LcRow
<1>3. ASSUME NEW j \in Instances, ReleaseReservation(j) PROVE LcEnds(i)
  BY <1>0, <1>3 DEF ReleaseReservation, LcEnds
<1>4. ASSUME NEW j \in Instances, j # i,
             \/ Reserve(j) \/ (\E t \in Tasks : Dequeue(j, t))
             \/ BindTurn(j) \/ Admit(j) \/ (\E p \in Procs : Spawn(j, p))
      PROVE  lc'[i] = lc[i]
  BY <1>0, <1>4 DEF Reserve, Dequeue, BindTurn, Admit, Spawn, Goto
<1>5. ASSUME NEW j \in Instances, Lifecycle(j)
      PROVE  \/ LcEnds(i) \/ (\E t \in Tasks : Dequeue(i, t))
             \/ BindTurn(i) \/ Admit(i) \/ (\E p \in Procs : Spawn(i, p))
  <2>1. CASE \/ PrepareFails(j) \/ BindSuperseded(j) \/ LaunchAbandoned(j)
             \/ LaunchDeferred(j) \/ LaunchFails(j) \/ Track(j) \/ TrackAborted(j)
             \/ TrackAbortUnconfirmed(j) \/ JudgeCompleted(j) \/ JudgeError(j)
             \/ JudgeRejected(j) \/ JudgeRejectedFails(j) \/ WaitFails(j)
             \/ LifecycleDies(j) \/ LifecycleCancelled(j) \/ ExitReset(j) \/ Reconcile(j)
    <3>1. HasTask(lc[j])
      BY <2>1 DEF HasTask, PrepareFails, BindSuperseded, LaunchAbandoned, LaunchDeferred,
         LaunchFails, Track, TrackAborted, TrackAbortUnconfirmed, JudgeCompleted, JudgeError,
         JudgeRejected, JudgeRejectedFails, WaitFails, LifecycleDies, LifecycleCancelled,
         ExitReset, Reconcile
    <3>2. \/ Goto(j, "exit") \/ Goto(j, "reconcile") \/ lc' = [lc EXCEPT ![j] = NoLc]
          \/ lc[j].pc = "track" /\ Goto(j, "wait")
      BY <2>1 DEF PrepareFails, BindSuperseded, LaunchAbandoned, LaunchDeferred,
         LaunchFails, Track, TrackAborted, TrackAbortUnconfirmed, JudgeCompleted, JudgeError,
         JudgeRejected, JudgeRejectedFails, WaitFails, LifecycleDies, LifecycleCancelled,
         ExitReset, Reconcile
    <3> QED
      BY <1>2, <3>1, <3>2
  <2> QED
    BY <1>3, <1>4, <1>5, <2>1 DEF Lifecycle, LcEnds
<1>6. CASE Crash
  BY <1>6 DEF Crash, LcEnds
<1>7. ASSUME NEW t \in Tasks, StopStep(t) \/ Request(t) PROVE lc' = lc
  BY <1>7 DEF StopStep, StopKill, StopUnconfirmed, StopUnmanaged, StopSettle, CancelFinish,
     SupersedeFinish, Request, CancelOwnerless, CancelBegin, SupersedeBegin, Retry, memVars
<1>8. ASSUME \/ \E j \in Instances : EnsureIdle(j) \/ ConsumerRelease(j)
             \/ \E p \in Procs : ProcEnds(p)
             \/ BeginShutdown \/ Restart \/ UNCHANGED vars
      PROVE  lc' = lc
  BY <1>8 DEF EnsureIdle, ConsumerRelease, ProcEnds, ProcExit, BeginShutdown, Restart, vars, memVars
<1> QED
  BY <1>1, <1>4, <1>5, <1>6, <1>7, <1>8 DEF Next, LcEnds

LEMMA EvidenceStep ==
    ASSUME Inv, [Next]_vars, NEW i \in Instances
    PROVE  \/ managed'[i] = managed[i] \/ EvidenceDropped(i)
           \/ \E p \in Procs : Spawn(i, p)
<1>0. /\ managed \in [Instances -> Procs \cup {NoProc}]
      /\ lc \in [Instances -> LcRow] /\ proc \in [Procs -> ProcRow]
      /\ pid \in [Instances -> Procs \cup {NoProc}]
      /\ istat \in [Instances -> {"idle", "running", "error"}]
      /\ cur \in [Instances -> Tasks \cup {NoTask}]
  BY DEF Inv, TypeOK, InstanceRows
<1>1. ASSUME NEW j \in Instances, TrackAborted(j)
      PROVE  managed'[i] = managed[i] \/ EvidenceDropped(i)
  <2>1. j = i => managed'[i] = NoProc /\ lc'[i].pc = "exit" /\ pid'[i] = NoProc
    BY <1>0, <1>1 DEF TrackAborted, Goto, instVars, LcRow, Inv, SlotInv, StartingSlotEmpty, Starting
  <2> QED
    BY <1>0, <1>1, <2>1 DEF TrackAborted, EvidenceDropped, Live
<1>2. ASSUME NEW j \in Instances, ConsumerRelease(j)
      PROVE  managed'[i] = managed[i] \/ EvidenceDropped(i)
  <2>1. CASE j # i
    BY <1>0, <1>2, <2>1 DEF ConsumerRelease
  <2>2. CASE j = i /\ UNCHANGED instVars
    <3>1. mode # "down" /\ istat[i] = "running" => ~Live(pid[i])
      BY <1>2, <2>2 DEF ConsumerRelease, Inv, SlotInv, RunningManaged, Live, Dead
    <3>2. mode' = mode /\ proc' = proc /\ lc' = lc /\ managed'[i] = NoProc /\ lc[i].pc # "track"
      BY <1>0, <1>2, <2>2 DEF ConsumerRelease, sysVars
    <3> QED
      BY <2>2, <3>1, <3>2 DEF EvidenceDropped, Live, instVars
  <2>3. CASE j = i /\ pid'[i] = NoProc
    BY <1>0, <1>2, <2>3 DEF ConsumerRelease, EvidenceDropped, Live
  <2> QED
    BY <1>0, <1>2, <2>1, <2>2, <2>3 DEF ConsumerRelease, ClearSlot
<1>3. ASSUME NEW t \in Tasks, StopSettle(t)
      PROVE  managed'[i] = managed[i] \/ EvidenceDropped(i)
  <2>0. stop[t].at \in Instances
    BY <1>3 DEF StopSettle, Inv, TypeOK, StopRow
  <2>1. CASE stop[t].at # i
    BY <1>0, <1>3, <2>0, <2>1 DEF StopSettle
  <2>2. CASE stop[t].at = i
    <3>1. Stopping(i) /\ lc[i].pc # "track" /\ ~Live(managed[i])
      BY <2>2, NullAssumption DEF Stopping, Inv, SlotInv, LockExcludesStop, LaunchHoldsLock, StopFindsDead
    <3>2. mode # "down" /\ istat[i] = "running" => ~Live(pid[i])
      BY <3>1 DEF Inv, SlotInv, RunningManaged
    <3>3. mode' = mode /\ proc' = proc /\ lc' = lc
      BY <1>3 DEF StopSettle, sysVars
    <3>4. CASE managed'[i] = NoProc /\ UNCHANGED instVars
      BY <3>1, <3>2, <3>3, <3>4 DEF EvidenceDropped, Live, instVars
    <3>5. CASE managed'[i] = NoProc /\ pid'[i] = NoProc
      BY <3>1, <3>3, <3>5 DEF EvidenceDropped, Live
    <3> QED
      BY <1>0, <1>3, <2>2, <3>4, <3>5 DEF StopSettle, ClearSlot
  <2> QED
    BY <2>1, <2>2
<1>4. ASSUME NEW j \in Instances, NEW p \in Procs, Spawn(j, p)
      PROVE  managed'[i] = managed[i] \/ Spawn(i, p)
  BY <1>0, <1>4 DEF Spawn
<1>5. CASE Crash
  BY <1>5 DEF Crash, EvidenceDropped, NoLc
<1>6. \/ managed' = managed \/ Crash
      \/ \E j \in Instances : TrackAborted(j) \/ ConsumerRelease(j) \/ \E p \in Procs : Spawn(j, p)
      \/ \E t \in Tasks : StopSettle(t)
  <2>1. ASSUME NEW j \in Instances, Lifecycle(j)
        PROVE  managed' = managed \/ TrackAborted(j) \/ \E p \in Procs : Spawn(j, p)
    BY <2>1 DEF Lifecycle, ReleaseReservation, Dequeue, PrepareFails, BindTurn,
       BindSuperseded, LaunchAbandoned, LaunchDeferred, LaunchFails, Admit, Track,
       TrackAbortUnconfirmed, JudgeCompleted, JudgeError, JudgeRejected, JudgeRejectedFails,
       WaitFails, LifecycleDies, LifecycleCancelled, ExitReset, Reconcile
  <2>2. ASSUME NEW t \in Tasks, StopStep(t) \/ Request(t)
        PROVE  managed' = managed \/ StopSettle(t)
    BY <2>2 DEF StopStep, StopKill, StopUnconfirmed, StopUnmanaged, CancelFinish,
       SupersedeFinish, Request, CancelOwnerless, CancelBegin, SupersedeBegin, Retry, memVars
  <2> QED
    BY <2>1, <2>2 DEF Next, EnsureIdle, Reserve, ProcEnds, ProcExit, BeginShutdown, Restart,
       vars, memVars
<1> QED
  BY <1>1, <1>2, <1>3, <1>4, <1>5, <1>6

LEMMA StopStepShape ==
    ASSUME Inv, [Next]_vars, NEW t \in Tasks
    PROVE  \/ stop'[t].at = stop[t].at /\ stop'[t].todo \subseteq stop[t].todo
           \/ /\ stop'[t].at = NoInst
              /\ \A x, y \in stop'[t].todo : x[1] = y[1] => x = y
           \/ \E i \in Instances, p \in Procs \cup {NoProc} :
                StopKill(t, i, p) /\ stop'[t].at = i /\ stop'[t].todo = stop[t].todo
<1>0. stop \in [Tasks -> StopRow]
  BY DEF Inv, TypeOK
<1>1. CASE stop'[t] = stop[t]
  BY <1>1
<1>2. CASE stop'[t] = NoStop
  BY <1>2 DEF NoStop
<1>3. ASSUME NEW k, NEW S, stop'[t] = Snapshot(t, k, S)
      PROVE  /\ stop'[t].at = NoInst
             /\ \A x, y \in stop'[t].todo : x[1] = y[1] => x = y
  <2>1. stop'[t].at = NoInst /\ stop'[t].todo = {<<i, pid[i]>> : i \in S}
    BY <1>3 DEF Snapshot
  <2> QED
    BY <2>1
<1>4. ASSUME NEW u \in Tasks, StopStep(u)
      PROVE  \/ stop'[t] = stop[t] \/ stop'[t] = NoStop
             \/ stop'[t].at = stop[t].at /\ stop'[t].todo \subseteq stop[t].todo
             \/ stop'[t].at = NoInst /\ stop'[t].todo \subseteq stop[t].todo
             \/ \E i \in Instances, p \in Procs \cup {NoProc} :
                  StopKill(t, i, p) /\ stop'[t].at = i /\ stop'[t].todo = stop[t].todo
  <2>1. u # t => stop'[t] = stop[t]
    BY <1>0, <1>4 DEF StopStep, StopKill, StopUnconfirmed, StopUnmanaged, StopSettle,
       CancelFinish, SupersedeFinish
  <2>2. ASSUME NEW i \in Instances, NEW p \in Procs \cup {NoProc}, StopKill(t, i, p)
        PROVE  stop'[t].at = i /\ stop'[t].todo = stop[t].todo
    BY <1>0, <2>2 DEF StopKill, StopRow
  <2>3. ASSUME NEW i \in Instances, NEW p \in Procs \cup {NoProc},
               StopUnconfirmed(t, i, p) \/ StopUnmanaged(t, i, p)
        PROVE  stop'[t].at = stop[t].at /\ stop'[t].todo \subseteq stop[t].todo
    BY <1>0, <2>3 DEF StopUnconfirmed, StopUnmanaged, StopRow
  <2>4. ASSUME StopSettle(t)
        PROVE  stop'[t].at = NoInst /\ stop'[t].todo \subseteq stop[t].todo
    BY <1>0, <2>4 DEF StopSettle, StopRow
  <2>5. ASSUME CancelFinish(t) \/ SupersedeFinish(t)
        PROVE  stop'[t] = NoStop
    BY <1>0, <2>5 DEF CancelFinish, SupersedeFinish
  <2> QED
    BY <1>4, <2>1, <2>2, <2>3, <2>4, <2>5 DEF StopStep
<1>5. ASSUME NEW u \in Tasks, Request(u)
      PROVE  stop'[t] = stop[t] \/ \E k, S : stop'[t] = Snapshot(t, k, S)
  BY <1>0, <1>5 DEF Request, CancelOwnerless, CancelBegin, SupersedeBegin, Retry, memVars
<1>6. ASSUME NEW j \in Instances, EnsureIdle(j) \/ Reserve(j) \/ Lifecycle(j) \/ ConsumerRelease(j)
      PROVE  stop' = stop
  BY <1>6 DEF EnsureIdle, Reserve, ConsumerRelease, Lifecycle, ReleaseReservation, Dequeue,
     PrepareFails, BindTurn, BindSuperseded, LaunchAbandoned, LaunchDeferred, LaunchFails, Admit,
     Spawn, Track, TrackAborted, TrackAbortUnconfirmed, JudgeCompleted, JudgeError, JudgeRejected,
     JudgeRejectedFails, WaitFails, LifecycleDies, LifecycleCancelled, ExitReset, Reconcile, memVars
<1>7. CASE Crash
  BY <1>2, <1>7 DEF Crash
<1>8. CASE (\E p \in Procs : ProcEnds(p)) \/ BeginShutdown \/ Restart \/ UNCHANGED vars
  BY <1>1, <1>8 DEF ProcEnds, ProcExit, BeginShutdown, Restart, vars, memVars
<1>9. \A x, y \in stop[t].todo : x[1] = y[1] => x = y
  BY DEF Inv, SlotInv, StopFindsDead
<1> QED
  BY <1>1, <1>2, <1>3, <1>4, <1>5, <1>6, <1>7, <1>8, <1>9 DEF Next

-----------------------------------------------------------------------------
(* Each part of the invariant is preserved. *)

\* Births and deaths last, and a live process was alive or is just spawned.
LEMMA ProcLasts ==
    ASSUME Inv, [Next]_vars, NEW p \in Procs
    PROVE  /\ Born(p) => Born(p)' /\ ProcGoesOn(p) /\ (Live(p)' => Live(p))
           /\ Dead(p) => Dead(p)'
<1>1. ASSUME NEW i \in Instances, Spawn(i, p) PROVE proc[p].st = "unborn"
  BY <1>1 DEF Spawn
<1> QED
  BY <1>1, ProcStep DEF ProcGoesOn, Born, Live, Dead

LEMMA StartingStep ==
    ASSUME Inv, [Next]_vars
    PROVE  StartingSlotEmpty'
<1> SUFFICES ASSUME NEW i \in Instances, Starting(i)'
             PROVE  cur'[i] = NoTask /\ pid'[i] = NoProc
  BY DEF StartingSlotEmpty
<1>1. CASE Starting(i)
  <2>1. cur[i] = NoTask /\ pid[i] = NoProc
    BY <1>1 DEF Inv, SlotInv, StartingSlotEmpty
  <2>2. ~RowPublished(i)
    BY DEF RowPublished, Starting
  <2> QED
    BY <2>1, <2>2, RowStep DEF RowQuiet, RowDropped
<1>2. CASE ~Starting(i)
  <2>1. ASSUME \/ (\E t \in Tasks : Dequeue(i, t)) \/ BindTurn(i) \/ Admit(i)
               \/ (\E p \in Procs : Spawn(i, p)) \/ LcEnds(i)
        PROVE  FALSE
    BY <1>2, <2>1 DEF Dequeue, BindTurn, Admit, Spawn, LcEnds, Starting, NoLc
  <2>2. Reserve(i)
    BY <2>1, LcStep
  <2> QED
    BY <2>2 DEF Reserve, ReusableIdle, instVars
<1> QED
  BY <1>1, <1>2

LEMMA LockStep ==
    ASSUME Inv, [Next]_vars
    PROVE  LockExcludesStop'
<1> SUFFICES ASSUME NEW i \in Instances, LaunchHoldsLock(i)', NEW t \in Tasks, stop'[t].at = i
             PROVE  FALSE
  BY DEF LockExcludesStop, Stopping
<1>0. i # NoInst /\ lc \in [Instances -> LcRow]
  BY NullAssumption DEF Inv, TypeOK
<1>1. CASE lc'[i] = lc[i]
  <2>1. LaunchHoldsLock(i) /\ ~Stopping(i)
    BY <1>1 DEF LaunchHoldsLock, Inv, SlotInv, LockExcludesStop
  <2>2. PICK j \in Instances, p \in Procs \cup {NoProc} :
           StopKill(t, j, p) /\ stop'[t].at = j
    BY <1>0, <2>1, StopStepShape DEF Stopping
  <2> QED
    BY <2>1, <2>2 DEF StopKill, CanStop
<1>2. CASE Admit(i) \/ \E p \in Procs : Spawn(i, p)
  <2>1. ~Stopping(i) /\ stop' = stop
    BY <1>2 DEF Admit, Spawn, Inv, SlotInv, LockExcludesStop, LaunchHoldsLock
  <2> QED
    BY <2>1 DEF Stopping
<1>3. ASSUME Reserve(i) \/ BindTurn(i) \/ \E u \in Tasks : Dequeue(i, u)
      PROVE  FALSE
  BY <1>0, <1>3 DEF Reserve, BindTurn, Dequeue, Goto, LaunchHoldsLock, LcRow
<1>4. LcEnds(i) => lc'[i] = lc[i]
  BY DEF LcEnds, LaunchHoldsLock, NoLc
<1> QED
  BY <1>1, <1>2, <1>3, <1>4, LcStep

LEMMA EvidenceBornStep ==
    ASSUME Inv, [Next]_vars
    PROVE  EvidenceBorn'
<1> SUFFICES ASSUME NEW i \in Instances, NEW p \in Procs, p \in {pid'[i], managed'[i]}
             PROVE  Born(p)'
  BY DEF EvidenceBorn
<1>0. Born(p) => Born(p)'
  BY ProcLasts
<1>1. CASE p = pid'[i]
  <2>1. RowPublished(i) => Born(p)
    BY <1>1 DEF RowPublished, Inv, EffectInv, SoleProcess
  <2>2. RowQuiet(i) => Born(p)
    BY <1>1 DEF RowQuiet, Inv, SlotInv, EvidenceBorn
  <2>3. ~RowDropped(i)
    BY <1>1, NullAssumption DEF RowDropped
  <2> QED
    BY <1>0, <2>1, <2>2, <2>3, RowStep
<1>2. CASE p = managed'[i]
  <2>1. managed'[i] = managed[i] => Born(p)
    BY <1>2 DEF Inv, SlotInv, EvidenceBorn
  <2>2. ~EvidenceDropped(i)
    BY <1>2, NullAssumption DEF EvidenceDropped
  <2>3. ASSUME NEW q \in Procs, Spawn(i, q) PROVE Born(p)'
    BY <1>2, <2>3 DEF Spawn, Born, Inv, TypeOK
  <2> QED
    BY <1>0, <2>1, <2>2, <2>3, EvidenceStep
<1> QED
  BY <1>1, <1>2

\* An authorization is renewed by a retry alone, which finds no launch of the Task
\* and no recorded live process.
LEMMA AuthStep ==
    ASSUME Inv, [Next]_vars, NEW t \in Tasks
    PROVE  \/ auth'[t] = auth[t]
           \/ /\ Retry(t) /\ UNCHANGED <<lc, managed, proc, stop, mode>>
              /\ \A i \in Instances : LaunchHoldsLock(i) => lc[i].task # t
              /\ \A p \in Procs : Live(p) /\ proc[p].rec => proc[p].task # t
<1>0. auth \in [Tasks -> Nat] /\ lc \in [Instances -> LcRow]
  BY DEF Inv, TypeOK, TaskRows
<1>1. CASE auth' = auth
  BY <1>1
<1>2. ASSUME NEW u \in Tasks, Retry(u), u # t PROVE auth'[t] = auth[t]
  BY <1>0, <1>2 DEF Retry
<1>3. ASSUME Retry(t)
      PROVE  /\ UNCHANGED <<lc, managed, proc, stop, mode>>
             /\ \A i \in Instances : LaunchHoldsLock(i) => lc[i].task # t
             /\ \A p \in Procs : Live(p) /\ proc[p].rec => proc[p].task # t
  <2>1. UNCHANGED <<lc, managed, proc, stop, mode>>
    BY <1>3 DEF Retry, memVars, sysVars
  <2>2. \A i \in Owners(t) \cup ({inst[t]} \ {NoInst}) : RetryMayRelease(i, t)
    BY <1>3 DEF Retry
  <2>3. ASSUME NEW i \in Instances, LaunchHoldsLock(i) PROVE lc[i].task # t
    <3>1. inst[lc[i].task] = i
      BY <2>3 DEF Inv, EffectInv, LaunchCurrent
    <3> QED
      BY <2>2, <2>3, <3>1, NullAssumption DEF RetryMayRelease
  <2>4. ASSUME NEW p \in Procs, Live(p), proc[p].rec PROVE proc[p].task # t
    <3>1. PICK i \in Instances : pid[i] = p /\ cur[i] = proc[p].task
      BY <2>4 DEF Inv, SlotInv, LiveProcessOnRecord
    <3> QED
      BY <2>2, <2>4, <3>1 DEF Owners, RetryMayRelease, Dead, Live
  <2> QED
    BY <2>1, <2>3, <2>4
<1>4. auth' = auth \/ \E u \in Tasks : Retry(u)
  BY StepKinds DEF Inv, Closing, Requeueing, Dequeue, BindTurn, Admit, Spawn, Restart, taskVars
<1> QED
  BY <1>1, <1>2, <1>3, <1>4

LEMMA TurnStep ==
    ASSUME Inv, [Next]_vars
    PROVE  TurnOfProcess'
<1> SUFFICES ASSUME NEW i \in Instances, lc'[i].pc \in {"track", "wait"}
             PROVE  LET p == lc'[i].pid
                    IN  /\ proc'[p].task = lc'[i].task /\ proc'[p].gen = lc'[i].gen
                        /\ lc'[i].pc = "track" =>
                             managed'[i] = p /\ proc'[p].auth = auth'[lc'[i].task]
  BY DEF TurnOfProcess
<1>0. /\ lc \in [Instances -> LcRow] /\ proc \in [Procs -> ProcRow]
      /\ managed \in [Instances -> Procs \cup {NoProc}]
  BY DEF Inv, TypeOK
<1>1. ASSUME NEW p \in Procs, Spawn(i, p)
      PROVE  /\ lc'[i].pid = p /\ proc'[p].task = lc'[i].task /\ proc'[p].gen = lc'[i].gen
             /\ managed'[i] = p /\ proc'[p].auth = auth'[lc'[i].task]
  BY <1>0, <1>1 DEF Spawn, LcRow, taskVars
<1>2. CASE LcEnds(i)
  <2> DEFINE p == lc[i].pid
  <2>1. /\ lc[i].pc \in {"track", "wait"} /\ Carries(i)
        /\ lc'[i].pc = "track" => lc[i].pc = "track"
    BY <1>2 DEF LcEnds, NoLc, Carries
  <2>2. p \in Procs /\ Born(p) /\ lc[i].task \in Tasks
    BY <1>0, <2>1 DEF Inv, EffectInv, SoleProcess, LcRow, HasTask
  <2>3. /\ proc[p].task = lc[i].task /\ proc[p].gen = lc[i].gen
        /\ lc[i].pc = "track" => managed[i] = p /\ proc[p].auth = auth[lc[i].task]
    BY <2>1 DEF Inv, SlotInv, TurnOfProcess
  <2>4. ProcGoesOn(p)
    BY <2>2, ProcLasts
  <2>5. lc'[i].pc = "track" => managed'[i] = managed[i]
    <3>1. ASSUME NEW q \in Procs, Spawn(i, q) PROVE lc[i].pc = "spawn"
      BY <3>1 DEF Spawn
    <3> QED
      BY <2>1, <3>1, EvidenceStep DEF EvidenceDropped
  <2>6. lc'[i].pc = "track" => auth'[lc[i].task] = auth[lc[i].task]
    BY <2>1, <2>2, AuthStep DEF LaunchHoldsLock
  <2> QED
    BY <2>1, <2>3, <2>4, <2>5, <2>6 DEF Carries, ProcGoesOn
<1>3. ASSUME Reserve(i) \/ BindTurn(i) \/ Admit(i) \/ \E u \in Tasks : Dequeue(i, u)
      PROVE  FALSE
  BY <1>0, <1>3 DEF Reserve, BindTurn, Admit, Dequeue, Goto, LcRow
<1> QED
  BY <1>1, <1>2, <1>3, LcStep

LEMMA StopDeadStep ==
    ASSUME Inv, [Next]_vars
    PROVE  StopFindsDead'
<1> SUFFICES ASSUME NEW t \in Tasks
             PROVE  /\ \A x, y \in stop'[t].todo : x[1] = y[1] => x = y
                    /\ stop'[t].at # NoInst =>
                         /\ ~Live(managed[stop[t].at])'
                         /\ \A x \in stop'[t].todo : x[1] = stop'[t].at => Dead(x[2])'
  BY DEF StopFindsDead
<1>0. /\ stop \in [Tasks -> StopRow] /\ proc \in [Procs -> ProcRow]
      /\ managed \in [Instances -> Procs \cup {NoProc}]
  BY DEF Inv, TypeOK
<1>1. \A x, y \in stop[t].todo : x[1] = y[1] => x = y
  BY DEF Inv, SlotInv, StopFindsDead
<1>2. CASE /\ stop'[t].at = NoInst
           /\ \A x, y \in stop'[t].todo : x[1] = y[1] => x = y
  BY <1>2
<1>3. CASE stop'[t].at = stop[t].at /\ stop'[t].todo \subseteq stop[t].todo /\ stop[t].at # NoInst
  <2> DEFINE i == stop[t].at
  <2>1. /\ i \in Instances /\ Stopping(i) /\ ~Live(managed[i])
        /\ \A x \in stop[t].todo : x[1] = i => Dead(x[2])
    BY <1>0, <1>3 DEF StopRow, Stopping, Inv, SlotInv, StopFindsDead
  <2>2. \A x \in stop[t].todo : x[2] \in Procs \cup {NoProc}
    BY <1>0 DEF StopRow
  <2>3. ASSUME NEW x \in stop'[t].todo, x[1] = i PROVE Dead(x[2])'
    <3>1. Dead(x[2]) /\ x[2] \in Procs
      BY <1>3, <2>1, <2>2, <2>3 DEF Dead
    <3> QED
      BY <3>1, ProcLasts DEF Dead
  <2>4. managed'[i] # NoProc => proc'[managed'[i]].st # "live"
    <3>1. CASE managed'[i] = managed[i] /\ managed[i] # NoProc
      <4>1. managed[i] \in Procs /\ Born(managed[i])
        BY <1>0, <2>1, <3>1 DEF Inv, SlotInv, EvidenceBorn
      <4> QED
        BY <2>1, <3>1, <4>1, ProcLasts DEF Live
    <3>2. ASSUME NEW p \in Procs, Spawn(i, p) PROVE FALSE
      BY <2>1, <3>2 DEF Spawn, Inv, SlotInv, LockExcludesStop, LaunchHoldsLock
    <3> QED
      BY <2>1, <3>1, <3>2, EvidenceStep DEF EvidenceDropped
  <2>5. \A x, y \in stop'[t].todo : x[1] = y[1] => x = y
    BY <1>1, <1>3
  <2> QED
    BY <1>3, <2>3, <2>4, <2>5 DEF Live
<1>4. CASE stop'[t].at = stop[t].at /\ stop'[t].todo \subseteq stop[t].todo /\ stop[t].at = NoInst
  BY <1>1, <1>4
<1>5. ASSUME NEW i \in Instances, NEW p \in Procs \cup {NoProc}, StopKill(t, i, p),
             stop'[t].at = i, stop'[t].todo = stop[t].todo
      PROVE  /\ ~Live(managed[stop[t].at])'
             /\ \A x \in stop'[t].todo : x[1] = stop'[t].at => Dead(x[2])'
  <2>1. managed[i] = p /\ p \in Procs /\ <<i, p>> \in stop[t].todo /\ managed' = managed
    BY <1>5 DEF StopKill, CanStop, ExactTurn
  <2>2. Born(p)
    BY <2>1 DEF Inv, SlotInv, EvidenceBorn
  <2>3. proc'[p].st = "dead"
    <3>1. CASE Live(p)
      <4>1. proc' = [proc EXCEPT ![p].st = "dead", ![p].out = "interrupt"]
        BY <1>5, <3>1 DEF StopKill
      <4> QED
        BY <1>0, <2>1, <4>1 DEF ProcRow
    <3>2. CASE ~Live(p)
      <4>1. proc' = proc /\ proc[p].st \in {"unborn", "live", "dead"}
        BY <1>0, <1>5, <2>1, <3>2 DEF StopKill, ProcRow
      <4> QED
        BY <2>1, <2>2, <3>2, <4>1, NullAssumption DEF Live, Born
    <3> QED
      BY <3>1, <3>2
  <2>4. ASSUME NEW x \in stop'[t].todo, x[1] = stop'[t].at PROVE x[2] = p
    <3>1. x = <<i, p>>
      BY <1>1, <1>5, <2>1, <2>4
    <3> QED
      BY <3>1
  <2> QED
    BY <1>5, <2>1, <2>3, <2>4, NullAssumption DEF Live, Dead
<1> QED
  BY <1>1, <1>2, <1>3, <1>4, <1>5, StopStepShape

LEMMA DownUntilRestart ==
    ASSUME [Next]_vars, mode = "down"
    PROVE  mode' = "down" \/ Restart
<1>1. ASSUME NEW i \in Instances, EnsureIdle(i) \/ Reserve(i) \/ Lifecycle(i) \/ ConsumerRelease(i)
      PROVE  mode' = mode
  BY <1>1 DEF EnsureIdle, Reserve, ConsumerRelease, Lifecycle, ReleaseReservation, Dequeue,
     PrepareFails, BindTurn, BindSuperseded, LaunchAbandoned, LaunchDeferred, LaunchFails, Admit,
     Spawn, Track, TrackAborted, TrackAbortUnconfirmed, JudgeCompleted, JudgeError, JudgeRejected,
     JudgeRejectedFails, WaitFails, LifecycleDies, LifecycleCancelled, ExitReset, Reconcile, sysVars
<1>2. ASSUME NEW t \in Tasks, StopStep(t) \/ Request(t)
      PROVE  mode' = mode
  BY <1>2 DEF StopStep, StopKill, StopUnconfirmed, StopUnmanaged, StopSettle, CancelFinish,
     SupersedeFinish, Request, CancelOwnerless, CancelBegin, SupersedeBegin, Retry, sysVars
<1> QED
  BY <1>1, <1>2 DEF Next, ProcEnds, ProcExit, BeginShutdown, Crash, vars, sysVars

LEMMA RunningStep ==
    ASSUME Inv, [Next]_vars
    PROVE  RunningManaged'
<1> SUFFICES ASSUME NEW i \in Instances, mode' # "down", istat'[i] = "running", Live(pid[i])'
             PROVE  managed'[i] = pid'[i]
  BY DEF RunningManaged
<1>0. /\ pid \in [Instances -> Procs \cup {NoProc}]
      /\ istat \in [Instances -> {"idle", "running", "error"}]
  BY DEF Inv, TypeOK, InstanceRows
<1>1. CASE RowQuiet(i)
  <2>1. istat[i] = "running" /\ pid'[i] = pid[i] /\ pid[i] \in Procs
    BY <1>0, <1>1 DEF RowQuiet, Live
  <2>2. Live(pid[i])
    BY <2>1, ProcLasts DEF Live, Inv, SlotInv, EvidenceBorn
  <2>3. mode # "down"
    <3>1. ~Restart
      BY <1>0, <2>1 DEF Restart, CleanedSlot, ActiveCapacity
    <3> QED
      BY <3>1, DownUntilRestart
  <2>4. managed[i] = pid[i]
    BY <2>1, <2>2, <2>3 DEF Inv, SlotInv, RunningManaged
  <2>5. ASSUME NEW p \in Procs, Spawn(i, p) PROVE FALSE
    BY <2>2, <2>5 DEF Spawn, Inv, SlotInv, StartingSlotEmpty, Starting, Live
  <2> QED
    BY <2>1, <2>4, <2>5, EvidenceStep DEF EvidenceDropped
<1>2. CASE RowPublished(i)
  BY <1>2 DEF RowPublished, Inv, SlotInv, TurnOfProcess
<1> QED
  BY <1>1, <1>2, RowStep DEF RowDropped

LEMMA RecordStep ==
    ASSUME Inv, [Next]_vars
    PROVE  LiveProcessOnRecord'
<1> SUFFICES ASSUME NEW p \in Procs, Live(p)', proc'[p].rec
             PROVE  \E i \in Instances : pid'[i] = p /\ cur'[i] = proc'[p].task
  BY DEF LiveProcessOnRecord, Live
<1>0. proc \in [Procs -> ProcRow]
  BY DEF Inv, TypeOK
<1>1. ASSUME NEW i \in Instances, Spawn(i, p) PROVE FALSE
  BY <1>0, <1>1 DEF Spawn
<1>2. ProcGoesOn(p)
  BY <1>1, ProcStep
<1>3. ASSUME NEW i \in Instances, RowPublished(i), lc[i].pid = p
      PROVE  pid'[i] = p /\ cur'[i] = proc'[p].task
  BY <1>2, <1>3 DEF RowPublished, ProcGoesOn, Inv, SlotInv, TurnOfProcess
<1>4. CASE proc[p].rec
  <2>1. Live(p)
    BY <1>2 DEF ProcGoesOn, Live
  <2>2. PICK i \in Instances : pid[i] = p /\ cur[i] = proc[p].task
    BY <1>4, <2>1 DEF Inv, SlotInv, LiveProcessOnRecord
  <2>3. RowQuiet(i)
    <3>1. RowPublished(i) => pid[i] = NoProc
      BY DEF RowPublished, Inv, SlotInv, StartingSlotEmpty, Starting
    <3> QED
      BY <2>1, <2>2, <3>1, RowStep, NullAssumption DEF RowDropped
  <2> QED
    BY <1>2, <2>2, <2>3 DEF RowQuiet, ProcGoesOn
<1> QED
  BY <1>2, <1>3, <1>4 DEF ProcGoesOn

LEMMA GenStep ==
    ASSUME Inv, [Next]_vars, NEW t \in Tasks
    PROVE  /\ gen'[t] >= gen[t]
           /\ \/ gen'[t] = gen[t] /\ inst'[t] \in {inst[t], NoInst}
              \/ (\E i \in Instances : Dequeue(i, t)) \/ Restart
<1>0. gen \in [Tasks -> Nat] /\ inst \in [Tasks -> Instances \cup {NoInst}]
  BY DEF Inv, TypeOK, TaskRows
<1>1. ASSUME NEW i \in Instances, NEW u \in Tasks, Dequeue(i, u)
      PROVE  /\ gen'[t] >= gen[t]
             /\ u # t => gen'[t] = gen[t] /\ inst'[t] = inst[t]
  BY <1>0, <1>1 DEF Dequeue
<1>2. CASE Restart
  BY <1>0, <1>2 DEF Restart
<1>3. ASSUME \/ Closing \/ (\E i \in Instances : Requeueing(i) \/ BindTurn(i) \/ Admit(i)
                              \/ \E p \in Procs : Spawn(i, p))
             \/ \E u \in Tasks : Retry(u)
      PROVE  gen'[t] = gen[t] /\ inst'[t] \in {inst[t], NoInst}
  BY <1>0, <1>3 DEF Closing, Requeueing, BindTurn, Admit, Spawn, Retry, taskVars
<1> QED
  BY <1>0, <1>1, <1>2, <1>3, StepKinds DEF Inv

LEMMA OrderStep ==
    ASSUME Inv, [Next]_vars
    PROVE  TurnsOrdered'
<1>0. /\ proc \in [Procs -> ProcRow] /\ lc \in [Instances -> LcRow]
      /\ gen \in [Tasks -> Nat] /\ auth \in [Tasks -> Nat]
  BY DEF Inv, TypeOK, TaskRows
<1>1. \A p \in Procs : Born(p) => proc[p].task \in Tasks /\ proc[p].auth <= auth[proc[p].task]
                                  /\ proc[p].gen <= gen[proc[p].task]
                                  /\ proc[p].gen \in Nat /\ proc[p].auth \in Nat
  BY <1>0 DEF Inv, EffectInv, ProcSane, SlotInv, TurnsOrdered, ProcRow
<1>2. ASSUME NEW i \in Instances, NEW p \in Procs, Spawn(i, p)
      PROVE  LET t == lc[i].task
             IN  /\ t \in Tasks /\ proc'[p].task = t /\ proc'[p].gen = gen[t]
                 /\ proc'[p].auth = auth[t] /\ ~proc'[p].rec
                 /\ UNCHANGED <<gen, auth>>
                 /\ \A q \in Procs \ {p} : proc'[q] = proc[q]
  <2>1. lc[i].task \in Tasks /\ lc[i].gen = gen[lc[i].task]
    BY <1>0, <1>2 DEF Spawn, LcRow, HasTask, Inv, EffectInv, LaunchCurrent, LaunchHoldsLock
  <2> QED
    BY <1>0, <1>2, <2>1 DEF Spawn, taskVars
<1> SUFFICES ASSUME NEW p \in Procs, Born(p)'
             PROVE  (/\ proc[p].gen <= gen[proc[p].task]
                     /\ Live(p) /\ proc[p].rec => proc[p].auth = auth[proc[p].task]
                     /\ \A q \in Procs :
                          Born(q) /\ proc[q].task = proc[p].task /\ proc[p].gen < proc[q].gen
                          => proc[p].auth <= proc[q].auth)'
  BY DEF TurnsOrdered
<1>3. CASE Born(p)
  <2>1. ProcGoesOn(p) /\ proc[p].task \in Tasks
    BY <1>1, <1>3, ProcLasts
  <2>2. (proc[p].gen <= gen[proc[p].task])'
    <3>1. gen'[proc[p].task] >= gen[proc[p].task] /\ gen'[proc[p].task] \in Nat
      BY <2>1, GenStep, NextType DEF Inv, TypeOK, TaskRows
    <3> QED
      BY <1>0, <1>1, <1>3, <2>1, <3>1 DEF ProcGoesOn
  <2>3. ASSUME Live(p)', proc'[p].rec PROVE proc'[p].auth = auth'[proc'[p].task]
    <3>1. Live(p)
      BY <1>3, <2>3, ProcLasts
    <3>2. CASE proc[p].rec
      <4>1. auth'[proc[p].task] = auth[proc[p].task]
        BY <2>1, <3>1, <3>2, AuthStep
      <4> QED
        BY <1>3, <2>1, <3>1, <3>2, <4>1 DEF Inv, SlotInv, TurnsOrdered, ProcGoesOn
    <3>3. ASSUME NEW i \in Instances, RowPublished(i), lc[i].pid = p
          PROVE  proc'[p].auth = auth'[proc'[p].task]
      <4>1. proc[p].task = lc[i].task /\ proc[p].auth = auth[lc[i].task]
        BY <3>3 DEF RowPublished, Inv, SlotInv, TurnOfProcess
      <4>2. auth'[proc[p].task] = auth[proc[p].task]
        BY <2>1, <3>3, AuthStep DEF RowPublished
      <4> QED
        BY <2>1, <4>1, <4>2 DEF ProcGoesOn
    <3> QED
      BY <2>1, <2>3, <3>2, <3>3 DEF ProcGoesOn
  <2>4. ASSUME NEW q \in Procs, Born(q)', proc'[q].task = proc'[p].task,
               proc'[p].gen < proc'[q].gen
        PROVE  proc'[p].auth <= proc'[q].auth
    <3>1. CASE Born(q)
      BY <1>3, <2>1, <2>4, <3>1, ProcLasts DEF ProcGoesOn, Inv, SlotInv, TurnsOrdered
    <3>2. CASE ~Born(q)
      <4>1. PICK i \in Instances : Spawn(i, q)
        BY <2>4, <3>2, ProcStep DEF ProcGoesOn, Born
      <4> QED
        BY <1>1, <1>2, <1>3, <2>1, <2>4, <4>1 DEF ProcGoesOn
    <3> QED
      BY <3>1, <3>2
  <2> QED
    BY <2>2, <2>3, <2>4 DEF Live
<1>4. CASE ~Born(p)
  <2>1. PICK i \in Instances : Spawn(i, p)
    BY <1>4, ProcStep DEF ProcGoesOn, Born
  <2>2. ASSUME NEW q \in Procs, Born(q)', proc'[q].task = proc'[p].task,
               proc'[p].gen < proc'[q].gen
        PROVE  FALSE
    <3>1. q # p
      BY <1>0, <1>2, <2>1, <2>2
    <3>2. proc'[q] = proc[q] /\ Born(q)
      BY <1>2, <2>1, <2>2, <3>1 DEF Born
    <3> QED
      BY <1>0, <1>1, <1>2, <2>1, <2>2, <3>2
  <2> QED
    BY <1>0, <1>2, <2>1, <2>2 DEF Live
<1> QED
  BY <1>3, <1>4

LEMMA ClaimStep ==
    ASSUME Inv, [Next]_vars
    PROVE  ClaimOfSlot'
<1> SUFFICES ASSUME NEW i \in Instances
             PROVE  /\ HasTask(lc'[i]) /\ inst'[lc'[i].task] = i
                       => lc'[i].gen = gen'[lc'[i].task]
                    /\ ~HasTask(lc'[i]) => lc'[i].task = NoTask
  BY DEF ClaimOfSlot, HasTask
<1>0. lc \in [Instances -> LcRow] /\ i # NoInst
  BY NullAssumption DEF Inv, TypeOK
<1>1. HasTask(lc[i]) => lc[i].task \in Tasks
  BY <1>0 DEF LcRow
<1>2. IF HasTask(lc[i]) THEN inst[lc[i].task] = i => lc[i].gen = gen[lc[i].task]
      ELSE lc[i].task = NoTask
  BY DEF Inv, SlotInv, ClaimOfSlot
<1>3. ASSUME HasTask(lc[i]), HasTask(lc'[i]), lc'[i].task = lc[i].task, lc'[i].gen = lc[i].gen,
             inst'[lc[i].task] = i
      PROVE  lc[i].gen = gen'[lc[i].task]
  <2>1. mode # "down"
    BY <1>3, LifecycleIsUp DEF HasTask, Inv
  <2>2. ASSUME NEW j \in Instances, Dequeue(j, lc[i].task) PROVE FALSE
    BY <1>0, <1>1, <1>3, <2>2 DEF Dequeue, HasTask, Inv, TypeOK, TaskRows
  <2> QED
    BY <1>0, <1>1, <1>2, <1>3, <2>1, <2>2, GenStep DEF Restart
<1>4. ASSUME NEW t \in Tasks, Dequeue(i, t)
      PROVE  HasTask(lc'[i]) /\ lc'[i].task = t /\ lc'[i].gen = gen'[t]
  BY <1>0, <1>4 DEF Dequeue, HasTask
<1>5. ASSUME BindTurn(i)
      PROVE  HasTask(lc'[i]) /\ lc'[i].task = lc[i].task /\ lc'[i].gen = gen'[lc[i].task]
  BY <1>0, <1>5 DEF BindTurn, HasTask, LcRow
<1>6. ASSUME Admit(i) \/ \E p \in Procs : Spawn(i, p)
      PROVE  HasTask(lc[i]) /\ HasTask(lc'[i]) /\ lc'[i].task = lc[i].task /\ lc'[i].gen = lc[i].gen
  BY <1>0, <1>6 DEF Admit, Spawn, Goto, HasTask, LcRow
<1>7. ASSUME Reserve(i) PROVE ~HasTask(lc'[i]) /\ lc'[i].task = lc[i].task /\ ~HasTask(lc[i])
  BY <1>0, <1>7 DEF Reserve, Busy, Goto, HasTask, LcRow
<1>8. CASE LcEnds(i)
  <2>1. CASE HasTask(lc'[i])
    <3>1. HasTask(lc[i]) /\ lc'[i].task = lc[i].task /\ lc'[i].gen = lc[i].gen
      BY <1>8, <2>1 DEF LcEnds, Carries, HasTask, NoLc
    <3> QED
      BY <1>3, <2>1, <3>1
  <2>2. CASE ~HasTask(lc'[i])
    BY <1>2, <1>8, <2>2 DEF LcEnds, HasTask, NoLc
  <2> QED
    BY <2>1, <2>2
<1> QED
  BY <1>2, <1>3, <1>4, <1>5, <1>6, <1>7, <1>8, LcStep

\* A stop operation keeps its kind until it is answered.
LEMMA KindStep ==
    ASSUME Inv, [Next]_vars, NEW t \in Tasks
    PROVE  /\ superseded[t] => superseded'[t]
           /\ \/ stop'[t].kind = stop[t].kind
              \/ stop'[t] = NoStop /\ (Crash \/ CancelFinish(t) \/ SupersedeFinish(t))
              \/ stop[t] = NoStop /\ stop'[t].kind = "cancel"
              \/ stop[t] = NoStop /\ stop'[t].kind = "supersede" /\ superseded'[t]
           /\ stop'[t].kind = "none" => stop'[t].todo = {} /\ stop'[t].at = NoInst
<1>0. /\ stop \in [Tasks -> StopRow] /\ superseded \in [Tasks -> BOOLEAN]
      /\ stop[t].kind = "none" => stop[t].todo = {} /\ stop[t].at = NoInst
  BY DEF Inv, TypeOK, TaskRows, SlotInv, SupersedeMarked
<1>1. CASE stop' = stop /\ superseded' = superseded
  BY <1>0, <1>1
<1>2. ASSUME NEW u \in Tasks, StopStep(u)
      PROVE  /\ superseded' = superseded
             /\ \/ stop'[t] = stop[t]
                \/ stop'[t] = NoStop /\ (CancelFinish(t) \/ SupersedeFinish(t))
                \/ stop'[t].kind = stop[t].kind /\ stop[t].kind # "none"
  <2>1. superseded' = superseded
    BY <1>2 DEF StopStep, StopKill, StopUnconfirmed, StopUnmanaged, StopSettle, CancelFinish,
       SupersedeFinish, taskVars
  <2>2. u # t => stop'[t] = stop[t]
    BY <1>0, <1>2 DEF StopStep, StopKill, StopUnconfirmed, StopUnmanaged, StopSettle,
       CancelFinish, SupersedeFinish
  <2>3. ASSUME NEW i \in Instances, NEW p \in Procs \cup {NoProc},
               StopKill(t, i, p) \/ StopUnconfirmed(t, i, p) \/ StopUnmanaged(t, i, p)
        PROVE  stop'[t].kind = stop[t].kind /\ stop[t].kind # "none"
    <3>1. stop[t].kind # "none"
      BY <1>0, <2>3 DEF StopKill, StopUnconfirmed, StopUnmanaged, CanStop
    <3>2. stop'[t].kind = stop[t].kind
      BY <1>0, <2>3 DEF StopKill, StopUnconfirmed, StopUnmanaged, StopRow
    <3> QED
      BY <3>1, <3>2
  <2>4. ASSUME StopSettle(t)
        PROVE  stop'[t].kind = stop[t].kind /\ stop[t].kind # "none"
    BY <1>0, <2>4 DEF StopSettle, StopRow
  <2>5. ASSUME CancelFinish(t) \/ SupersedeFinish(t) PROVE stop'[t] = NoStop
    BY <1>0, <2>5 DEF CancelFinish, SupersedeFinish
  <2> QED
    BY <1>2, <2>1, <2>2, <2>3, <2>4, <2>5 DEF StopStep
<1>3. ASSUME NEW u \in Tasks, Request(u)
      PROVE  /\ superseded[t] => superseded'[t]
             /\ \/ stop'[t] = stop[t]
                \/ stop[t] = NoStop /\ stop'[t].kind = "cancel"
                \/ stop[t] = NoStop /\ stop'[t].kind = "supersede" /\ superseded'[t]
  <2>1. CASE CancelOwnerless(u) \/ Retry(u)
    BY <2>1 DEF CancelOwnerless, Retry, memVars
  <2>2. CASE CancelBegin(u)
    BY <1>0, <2>2 DEF CancelBegin, Snapshot, taskVars
  <2>3. CASE SupersedeBegin(u)
    BY <1>0, <2>3 DEF SupersedeBegin, Snapshot
  <2> QED
    BY <1>3, <2>1, <2>2, <2>3 DEF Request
<1>4. ASSUME NEW j \in Instances, EnsureIdle(j) \/ Reserve(j) \/ Lifecycle(j) \/ ConsumerRelease(j)
      PROVE  stop' = stop /\ superseded' = superseded
  <2>1. ASSUME FailOwned(j) \/ \E a, c : Finalize(j, a, c) PROVE superseded' = superseded
    BY <2>1 DEF FailOwned, Finalize
  <2>2. stop' = stop
    BY <1>4 DEF EnsureIdle, Reserve, ConsumerRelease, Lifecycle, ReleaseReservation, Dequeue,
       PrepareFails, BindTurn, BindSuperseded, LaunchAbandoned, LaunchDeferred, LaunchFails, Admit,
       Spawn, Track, TrackAborted, TrackAbortUnconfirmed, JudgeCompleted, JudgeError, JudgeRejected,
       JudgeRejectedFails, WaitFails, LifecycleDies, LifecycleCancelled, ExitReset, Reconcile, memVars
  <2> QED
    BY <1>4, <2>1, <2>2 DEF EnsureIdle, Reserve, ConsumerRelease, Lifecycle, ReleaseReservation,
       Dequeue, PrepareFails, BindTurn, BindSuperseded, LaunchAbandoned, LaunchDeferred, LaunchFails,
       Admit, Spawn, Track, TrackAborted, TrackAbortUnconfirmed, JudgeCompleted, JudgeError,
       JudgeRejected, JudgeRejectedFails, WaitFails, LifecycleDies, LifecycleCancelled, ExitReset,
       Reconcile, taskVars
<1>5. CASE Crash
  BY <1>0, <1>5 DEF Crash, NoStop, taskVars
<1>6. CASE (\E p \in Procs : ProcEnds(p)) \/ BeginShutdown \/ Restart \/ UNCHANGED vars
  BY <1>1, <1>6 DEF ProcEnds, ProcExit, BeginShutdown, Restart, vars, taskVars, memVars
<1> QED
  BY <1>0, <1>1, <1>2, <1>3, <1>4, <1>5, <1>6 DEF Next, NoStop

LEMMA MarkStep ==
    ASSUME Inv, [Next]_vars
    PROVE  SupersedeMarked'
BY KindStep DEF SupersedeMarked, Inv, SlotInv, NoStop

\* What completes a Task: the clean end of its turn, or a supersede.
LEMMA NewlyCompleted ==
    ASSUME Inv, [Next]_vars, NEW t \in Tasks, status[t] # "completed", status'[t] = "completed"
    PROVE  \/ \E j \in Instances : JudgeCompleted(j) /\ OwnsTurn(j) /\ lc[j].task = t
           \/ StopSettle(t) /\ stop[t].kind = "supersede"
           \/ SupersedeFinish(t)
<1>0. status \in [Tasks -> Statuses] /\ lc \in [Instances -> LcRow] /\ stop \in [Tasks -> StopRow]
  BY DEF Inv, TypeOK, TaskRows
<1>1. ASSUME UNCHANGED taskVars PROVE FALSE
  BY <1>1 DEF taskVars
<1>2. ASSUME NEW j \in Instances, FailOwned(j) \/ \E a, c : Finalize(j, a, c) PROVE FALSE
  BY <1>0, <1>2 DEF FailOwned, Finalize
<1>3. ASSUME NEW j \in Instances, NEW u \in Tasks,
             BindTurn(j) \/ Dequeue(j, u) \/ Admit(j) \/ JudgeRejected(j)
      PROVE  FALSE
  BY <1>0, <1>3 DEF BindTurn, Dequeue, Admit, JudgeRejected
<1>4. ASSUME NEW j \in Instances, JudgeCompleted(j) PROVE OwnsTurn(j) /\ lc[j].task = t
  BY <1>0, <1>4 DEF JudgeCompleted
<1>5. ASSUME NEW j \in Instances, EnsureIdle(j) \/ Reserve(j) \/ Lifecycle(j) \/ ConsumerRelease(j)
      PROVE  JudgeCompleted(j)
  BY <1>1, <1>2, <1>3, <1>5 DEF EnsureIdle, Reserve, ConsumerRelease, Lifecycle,
     ReleaseReservation, PrepareFails, BindSuperseded, LaunchAbandoned, LaunchDeferred,
     LaunchFails, Spawn, Track, TrackAborted, TrackAbortUnconfirmed, JudgeError,
     JudgeRejectedFails, WaitFails, LifecycleDies, LifecycleCancelled, ExitReset, Reconcile
<1>6. ASSUME NEW u \in Tasks, StopStep(u) \/ Request(u)
      PROVE  \/ StopSettle(t) /\ stop[t].kind = "supersede"
             \/ SupersedeFinish(t)
  <2>1. ASSUME SupersedeFinish(u) PROVE u = t
    BY <1>0, <2>1 DEF SupersedeFinish
  <2>2. ASSUME StopSettle(u) PROVE u = t /\ stop[t].kind = "supersede"
    <3>1. u = t /\ stop[t].kind # "cancel" /\ stop[t].at # NoInst
      BY <1>0, <2>2 DEF StopSettle
    <3> QED
      BY <1>0, <3>1 DEF StopRow, Inv, SlotInv, SupersedeMarked
  <2>3. ASSUME Retry(u) \/ CancelOwnerless(u) PROVE FALSE
    BY <1>0, <2>3 DEF Retry, CancelOwnerless
  <2>4. ASSUME SupersedeBegin(u) PROVE FALSE
    BY <2>4 DEF SupersedeBegin
  <2> QED
    BY <1>1, <1>6, <2>1, <2>2, <2>3, <2>4 DEF StopStep, StopKill, StopUnconfirmed, StopUnmanaged,
       CancelFinish, Request, CancelBegin
<1>7. ASSUME Restart PROVE FALSE
  BY <1>0, <1>7 DEF Restart, CleanedStatus
<1> QED
  BY <1>1, <1>4, <1>5, <1>6, <1>7 DEF Next, ProcEnds, ProcExit, BeginShutdown, Crash, vars

LEMMA CompletedStep ==
    ASSUME Inv, [Next]_vars
    PROVE  LaunchNotCompleted'
<1> SUFFICES ASSUME NEW i \in Instances, LaunchHoldsLock(i)', status'[lc'[i].task] = "completed"
             PROVE  FALSE
  BY DEF LaunchNotCompleted
<1>0. lc \in [Instances -> LcRow] /\ status \in [Tasks -> Statuses]
  BY DEF Inv, TypeOK, TaskRows
<1>1. CASE lc'[i] = lc[i]
  <2> DEFINE t == lc[i].task
  <2>1. LaunchHoldsLock(i) /\ t \in Tasks
    BY <1>0, <1>1 DEF LaunchHoldsLock, LcRow, HasTask
  <2>2. inst[t] = i /\ status[t] # "completed"
    BY <2>1 DEF Inv, EffectInv, SlotInv, LaunchCurrent, LaunchNotCompleted, LaunchHoldsLock
  <2>3. ~(SupersedeFinish(t) /\ status'[t] # status[t])
    BY <2>1 DEF SupersedeFinish, NoLaunchInFlight
  <2>4. ~(StopSettle(t) /\ status'[t] # status[t])
    <3>1. stop[t].at # i
      BY <2>1 DEF Inv, SlotInv, LockExcludesStop, Stopping
    <3> QED
      BY <2>2, <3>1 DEF StopSettle
  <2>5. ASSUME NEW j \in Instances, JudgeCompleted(j), lc[j].task = t, OwnsTurn(j)
        PROVE  FALSE
    <3>1. inst[t] = j /\ lc[j].pc = "wait"
      BY <2>5 DEF OwnsTurn, SameGeneration, JudgeCompleted
    <3> QED
      BY <2>1, <2>2, <3>1 DEF LaunchHoldsLock
  <2> QED
    BY <1>1, <2>1, <2>2, <2>3, <2>4, <2>5, NewlyCompleted
<1>2. ASSUME Admit(i) PROVE FALSE
  BY <1>0, <1>2 DEF Admit, Goto, OwnsTurn, Active, LcRow
<1>3. ASSUME NEW p \in Procs, Spawn(i, p) PROVE FALSE
  <2>1. UNCHANGED status /\ lc'[i].task = lc[i].task /\ LaunchHoldsLock(i)
    BY <1>0, <1>3 DEF Spawn, taskVars, LaunchHoldsLock, LcRow
  <2> QED
    BY <2>1 DEF Inv, SlotInv, LaunchNotCompleted
<1>4. ASSUME Reserve(i) \/ BindTurn(i) \/ \E u \in Tasks : Dequeue(i, u)
      PROVE  FALSE
  BY <1>0, <1>4 DEF Reserve, BindTurn, Dequeue, Goto, LaunchHoldsLock, LcRow
<1>5. LcEnds(i) => lc'[i] = lc[i]
  BY DEF LcEnds, LaunchHoldsLock, NoLc
<1> QED
  BY <1>1, <1>2, <1>3, <1>4, <1>5, LcStep

-----------------------------------------------------------------------------
(* The theorems. *)

LEMMA InitInv == Init => Inv
<1> SUFFICES ASSUME Init PROVE Inv
  OBVIOUS
<1>1. TypeOK /\ EffectInv
  BY InitType, InitEffectInv
<1>2. SlotInv
  BY NullAssumption DEF Init, SlotInv, StartingSlotEmpty, Starting, LockExcludesStop, LaunchHoldsLock,
     EvidenceBorn, TurnOfProcess, StopFindsDead, RunningManaged, TurnsOrdered, SupersedeMarked,
     LaunchNotCompleted, ClaimOfSlot, HasTask, LiveProcessOnRecord, NoLc, NoStop, Unborn,
     Born, Live
<1> QED
  BY <1>1, <1>2 DEF Inv

LEMMA NextInv == Inv /\ [Next]_vars => Inv'
<1> SUFFICES ASSUME Inv, [Next]_vars PROVE Inv'
  OBVIOUS
<1>1. TypeOK' /\ EffectInv'
  BY NextType, NextEffectInv DEF Inv
<1>2. SlotInv'
  BY StartingStep, LockStep, EvidenceBornStep, TurnStep, StopDeadStep, RunningStep, RecordStep,
     OrderStep, MarkStep, CompletedStep, ClaimStep DEF SlotInv
<1> QED
  BY <1>1, <1>2 DEF Inv

LEMMA Invariant == Spec => []Inv
BY InitInv, NextInv, PTL DEF Spec

(***************************************************************************)
(* SlotInv holds in every reachable state, for every number of Tasks,      *)
(* slots and processes: slot rows, runtime evidence, lifecycles and stop   *)
(* operations agree about the process that runs.                           *)
(***************************************************************************)
THEOREM SlotInvariant == Spec => []SlotInv
<1>1. Inv => SlotInv
  BY DEF Inv
<1> QED
  BY <1>1, Invariant, PTL

(***************************************************************************)
(* No writer of an Instance row ever lets go of a live recorded process:   *)
(* neither the lifecycle's finally block, reconciliation, stop, consumer,  *)
(* manual retry nor the clean-up of a restart.                             *)
(***************************************************************************)
THEOREM LiveStaysOnRecord == Spec => []LiveProcessOnRecord
<1>1. Inv => LiveProcessOnRecord
  BY DEF Inv, SlotInv
<1> QED
  BY <1>1, Invariant, PTL

(***************************************************************************)
(* A success answer of cancel or supersede is true: the second look at the *)
(* owner rows finds none, and a live process would still have its row.     *)
(***************************************************************************)
THEOREM StopSucceedsTruly == Spec => []StopIsReal
<1>1. Inv => StopIsReal
  BY DEF Inv, SlotInv, LiveProcessOnRecord, StopIsReal, CancelConfirmed, SupersedeConfirmed,
     SameTarget, Owners
<1> QED
  BY <1>1, Invariant, PTL

(***************************************************************************)
(* A newer turn beside an older live one would need a newer authorization, *)
(* and manual retry gives none while a recorded process of the Task lives. *)
(***************************************************************************)
THEOREM TurnsNeverOverlap == Spec => []NoOverlap
<1>1. Inv => NoOverlap
  <2> SUFFICES ASSUME Inv, NEW p \in Procs, NEW q \in Procs, Live(p), Live(q),
                      proc[p].task = proc[q].task, proc[p].gen < proc[q].gen, proc[p].rec
               PROVE  FALSE
    BY DEF NoOverlap
  <2>1. Born(p) /\ Born(q) /\ p # q
    <3>1. proc[p].gen \in Nat
      BY DEF Inv, TypeOK, ProcRow
    <3> QED
      BY <3>1 DEF Born, Live
  <2>2. proc[p].auth = auth[proc[p].task] /\ proc[p].auth <= proc[q].auth
    BY <2>1 DEF Inv, SlotInv, TurnsOrdered
  <2>3. proc[q].auth <= auth[proc[q].task]
    BY <2>1 DEF Inv, EffectInv, ProcSane
  <2>4. proc[p].auth = proc[q].auth
    <3>1. proc[p].auth \in Nat /\ proc[q].auth \in Nat
      BY DEF Inv, TypeOK, ProcRow
    <3> QED
      BY <2>2, <2>3, <3>1
  <2>5. proc[p].out = "none" /\ proc[q].out = "none"
    BY <2>1 DEF Inv, EffectInv, ProcSane, Live
  <2> QED
    BY <2>1, <2>4, <2>5 DEF Inv, EffectInv, AtMostOneEffect
<1> QED
  BY <1>1, Invariant, PTL

(***************************************************************************)
(* A Task completes on the clean end of its own current turn: the judging  *)
(* lifecycle owns the turn its process was spawned for.                    *)
(***************************************************************************)
THEOREM CompletionIsEarned == Spec => CompletedTurnEnded
<1>1. Inv /\ [Next]_vars =>
        (\A t \in Tasks :
           status[t] # "completed" /\ status'[t] = "completed" /\ ~superseded[t] =>
             \E p \in Procs : /\ proc[p].task = t /\ proc[p].gen = gen[t]
                              /\ Dead(p) /\ proc[p].out \in {"ok", "interrupt"})
  <2> SUFFICES ASSUME Inv, [Next]_vars, NEW t \in Tasks, status[t] # "completed",
                      status'[t] = "completed", ~superseded[t]
               PROVE  \E p \in Procs : /\ proc[p].task = t /\ proc[p].gen = gen[t]
                                       /\ Dead(p) /\ proc[p].out \in {"ok", "interrupt"}
    OBVIOUS
  <2>1. stop[t].kind # "supersede"
    BY DEF Inv, SlotInv, SupersedeMarked
  <2>2. PICK j \in Instances : JudgeCompleted(j) /\ OwnsTurn(j) /\ lc[j].task = t
    BY <2>1, NewlyCompleted DEF SupersedeFinish
  <2>3. lc[j].pc = "wait" /\ Dead(lc[j].pid) /\ proc[lc[j].pid].out \in {"ok", "interrupt"}
    BY <2>2 DEF JudgeCompleted
  <2>4. lc[j].pid \in Procs /\ proc[lc[j].pid].task = t /\ proc[lc[j].pid].gen = gen[t]
    BY <2>2, <2>3 DEF Inv, EffectInv, SoleProcess, SlotInv, TurnOfProcess, OwnsTurn, SameGeneration
  <2> QED
    BY <2>3, <2>4
<1> QED
  BY <1>1, Invariant, PTL DEF Spec, CompletedTurnEnded

(***************************************************************************)
(* A superseded Task that was completed is never launched again: what      *)
(* could still spawn holds the lifecycle lock, and supersede completes     *)
(* nothing without it.                                                     *)
(***************************************************************************)
THEOREM SupersededIsFinal == Spec => SupersededStaysDown
<1> DEFINE Down(t) == superseded[t] /\ stop[t] = NoStop /\ status[t] = "completed"
<1>1. Inv /\ [Next]_vars =>
        \A p \in Procs :
          proc[p].st = "unborn" /\ proc'[p].st = "live" => ~Down(proc'[p].task)
  <2> SUFFICES ASSUME Inv, [Next]_vars, NEW p \in Procs, proc[p].st = "unborn",
                      proc'[p].st = "live", Down(proc'[p].task)
               PROVE  FALSE
    OBVIOUS
  <2>1. PICK i \in Instances : Spawn(i, p)
    BY ProcStep DEF ProcGoesOn
  <2>2. proc'[p].task = lc[i].task /\ LaunchHoldsLock(i)
    BY <2>1 DEF Spawn, LaunchHoldsLock, Inv, TypeOK
  <2>3. status[lc[i].task] # "completed"
    BY <2>2 DEF Inv, SlotInv, LaunchNotCompleted
  <2> QED
    BY <2>2, <2>3
<1> QED
  BY <1>1, Invariant, PTL DEF Spec, SupersededStaysDown

\* A step of one lifecycle leaves the others alone.
LEMMA LcWriter ==
    ASSUME Inv, [Next]_vars, NEW i \in Instances, lc'[i] # lc[i]
    PROVE  Lifecycle(i) \/ Reserve(i) \/ Crash
<1>0. lc \in [Instances -> LcRow]
  BY DEF Inv, TypeOK
<1>1. ASSUME NEW j \in Instances, j # i, Lifecycle(j) \/ Reserve(j) PROVE FALSE
  <2>1. \A r : lc' = [lc EXCEPT ![j] = r] => FALSE
    BY <1>0, <1>1
  <2>2. \A w : Goto(j, w) => FALSE
    BY <1>0, <1>1 DEF Goto
  <2>3. ~BindTurn(j) /\ \A p \in Procs : ~Spawn(j, p)
    BY <1>0, <1>1 DEF BindTurn, Spawn
  <2> QED
    BY <1>1, <2>1, <2>2, <2>3 DEF Reserve, Lifecycle, ReleaseReservation, Dequeue, PrepareFails,
       BindSuperseded, LaunchAbandoned, LaunchDeferred, LaunchFails, Admit, Track, TrackAborted,
       TrackAbortUnconfirmed, JudgeCompleted, JudgeError, JudgeRejected, JudgeRejectedFails,
       WaitFails, LifecycleDies, LifecycleCancelled, ExitReset, Reconcile
<1>2. ASSUME NEW t \in Tasks, StopStep(t) \/ Request(t) PROVE lc' = lc
  BY <1>2 DEF StopStep, StopKill, StopUnconfirmed, StopUnmanaged, StopSettle, CancelFinish,
     SupersedeFinish, Request, CancelOwnerless, CancelBegin, SupersedeBegin, Retry, memVars
<1>3. ASSUME \/ \E j \in Instances : EnsureIdle(j) \/ ConsumerRelease(j)
             \/ \E p \in Procs : ProcEnds(p)
             \/ BeginShutdown \/ Restart \/ UNCHANGED vars
      PROVE  lc' = lc
  BY <1>3 DEF EnsureIdle, ConsumerRelease, ProcEnds, ProcExit, BeginShutdown, Restart, vars, memVars
<1> QED
  BY <1>1, <1>2, <1>3 DEF Next

(***************************************************************************)
(* A lifecycle that lost its Task writes nothing to it: every CAS but the  *)
(* executing one compares the generation, and that one is protected by the *)
(* slot, which names no lifecycle of an older turn.                        *)
(***************************************************************************)
THEOREM StaleIsSilent == Spec => StaleLifecycleSilent
<1> DEFINE Stale(i) == LET t == lc[i].task
                       IN  /\ t # NoTask /\ lc'[i] # lc[i]
                           /\ gen[t] # lc[i].gen \/ retry[t] # lc[i].retry
           Silent(i) == LET t == lc[i].task
                        IN  /\ status'[t] = status[t] /\ inst'[t] = inst[t]
                            /\ sent'[t] = sent[t]
<1>1. ASSUME Inv, [Next]_vars, NEW i \in Instances, Stale(i) PROVE Silent(i)
  <2>1. ~OwnsTurn(i)
    BY <1>1 DEF OwnsTurn, SameGeneration
  <2>2. HasTask(lc[i])
    BY <1>1 DEF Inv, SlotInv, ClaimOfSlot
  <2>3. ASSUME UNCHANGED taskVars PROVE Silent(i)
    BY <2>3 DEF taskVars
  <2>4. ASSUME FailOwned(i) \/ \E a, c : Finalize(i, a, c) PROVE Silent(i)
    BY <2>1, <2>4 DEF FailOwned, Finalize
  <2>5. ASSUME BindTurn(i) PROVE FALSE
    <3>1. inst[lc[i].task] = i /\ retry[lc[i].task] = lc[i].retry
      BY <2>5 DEF BindTurn, ClaimMatches
    <3>2. lc[i].gen = gen[lc[i].task]
      BY <1>1, <2>2, <3>1 DEF Inv, SlotInv, ClaimOfSlot
    <3> QED
      BY <1>1, <3>1, <3>2
  <2>6. ASSUME NEW t \in Tasks, Dequeue(i, t) PROVE FALSE
    BY <2>2, <2>6 DEF Dequeue, HasTask
  <2>7. ~Reserve(i)
    BY <2>2 DEF Reserve, Busy, HasTask
  <2>8. ASSUME JudgeCompleted(i) PROVE Silent(i)
    BY <2>1, <2>8 DEF JudgeCompleted
  <2>9. ASSUME Admit(i) \/ JudgeRejected(i) PROVE FALSE
    BY <2>1, <2>9 DEF Admit, JudgeRejected
  <2>10. CASE Crash
    BY <2>3, <2>10 DEF Crash
  <2>11. ASSUME Lifecycle(i) PROVE Silent(i)
    BY <2>3, <2>4, <2>5, <2>6, <2>8, <2>9, <2>11 DEF Lifecycle, ReleaseReservation, PrepareFails,
       BindSuperseded, LaunchAbandoned, LaunchDeferred, LaunchFails, Spawn, Track, TrackAborted,
       TrackAbortUnconfirmed, JudgeError, JudgeRejectedFails, WaitFails, LifecycleDies,
       LifecycleCancelled, ExitReset, Reconcile
  <2> QED
    BY <1>1, <2>7, <2>10, <2>11, LcWriter
<1>2. Inv /\ [Next]_vars => \A i \in Instances : Stale(i) => Silent(i)
  BY <1>1
<1> QED
  BY <1>2, Invariant, PTL DEF Spec, StaleLifecycleSilent

-----------------------------------------------------------------------------
(* The cap. *)

UsedSlots == {i \in Instances : Used(i)}

LEMMA UsedStep ==
    ASSUME Inv, [Next]_vars
    PROVE  \/ UsedSlots' \subseteq UsedSlots
           \/ \E i \in Instances : Reserve(i) /\ UsedSlots' \subseteq UsedSlots \cup {i}
<1>1. ASSUME NEW i \in Instances, Used(i)', ~Used(i) PROVE Reserve(i)
  <2>1. ~RowPublished(i)
    BY <1>1 DEF RowPublished, Used, Busy
  <2>2. lc'[i].pc # "none"
    BY <1>1, <2>1, RowStep DEF Used, Busy, ActiveCapacity, RowQuiet, RowDropped
  <2>3. lc[i].pc = "none"
    BY <1>1 DEF Used, Busy
  <2>4. ~LcEnds(i)
    BY <2>2, <2>3 DEF LcEnds, NoLc, HasTask
  <2> QED
    BY <2>3, <2>4, LcStep DEF Dequeue, BindTurn, Admit, Spawn
<1>2. ASSUME NEW i \in Instances, Reserve(i), NEW j \in Instances, Reserve(j)
      PROVE  i = j
  BY <1>2 DEF Reserve, Goto, Busy, Inv, TypeOK, LcRow
<1> QED
  BY <1>1, <1>2 DEF UsedSlots

LEMMA CapStep ==
    ASSUME IsFiniteSet(Instances), Inv, UsedWithinCap, [Next]_vars
    PROVE  UsedWithinCap'
<1> SUFFICES ASSUME MaxConcurrent > 0 PROVE Cardinality(UsedSlots') <= MaxConcurrent
  BY DEF UsedWithinCap, UsedSlots
<1>0. IsFiniteSet(UsedSlots) /\ Cardinality(UsedSlots) <= MaxConcurrent
  BY FS_Subset DEF UsedSlots, UsedWithinCap
<1>1. Cardinality(UsedSlots) \in Nat /\ MaxConcurrent \in Nat
  BY <1>0, FS_CardinalityType, BoundAssumption
<1>2. CASE UsedSlots' \subseteq UsedSlots
  <2>1. IsFiniteSet(UsedSlots') /\ Cardinality(UsedSlots') <= Cardinality(UsedSlots)
    BY <1>0, <1>2, FS_Subset
  <2> QED
    BY <1>0, <1>1, <2>1, FS_CardinalityType
<1>3. ASSUME NEW i \in Instances, Reserve(i), UsedSlots' \subseteq UsedSlots \cup {i}
      PROVE  Cardinality(UsedSlots') <= MaxConcurrent
  <2>1. Cardinality(UsedSlots) < MaxConcurrent
    BY <1>3 DEF Reserve, UsedSlots, Used
  <2>2. /\ IsFiniteSet(UsedSlots \cup {i})
        /\ Cardinality(UsedSlots \cup {i}) <= Cardinality(UsedSlots) + 1
    <3>1. Cardinality(UsedSlots \cup {i}) =
            IF i \in UsedSlots THEN Cardinality(UsedSlots) ELSE Cardinality(UsedSlots) + 1
      BY <1>0, FS_AddElement
    <3> QED
      BY <1>0, <1>1, <3>1, FS_AddElement
  <2>3. IsFiniteSet(UsedSlots') /\ Cardinality(UsedSlots') <= Cardinality(UsedSlots \cup {i})
    BY <1>3, <2>2, FS_Subset
  <2>4. Cardinality(UsedSlots') \in Nat /\ Cardinality(UsedSlots \cup {i}) \in Nat
    BY <2>2, <2>3, FS_CardinalityType
  <2> QED
    BY <1>1, <2>1, <2>2, <2>3, <2>4
<1> QED
  BY <1>2, <1>3, UsedStep

\* Every recorded live process takes up a slot of its own.
LEMMA LiveTakeSlots ==
    ASSUME IsFiniteSet(Instances), Inv, UsedWithinCap
    PROVE  LiveWithinCap
<1> SUFFICES ASSUME MaxConcurrent > 0
             PROVE  Cardinality({p \in Procs : Live(p) /\ proc[p].rec}) <= MaxConcurrent
  BY DEF LiveWithinCap
<1> DEFINE L == {p \in Procs : Live(p) /\ proc[p].rec}
           f == [p \in L |-> CHOOSE i \in Instances : pid[i] = p]
<1>1. \A p \in L : f[p] \in Instances /\ pid[f[p]] = p
  <2>1. \A p \in L : \E i \in Instances : pid[i] = p
    BY DEF Inv, SlotInv, LiveProcessOnRecord
  <2> QED
    BY <2>1
<1>2. \A p \in L : f[p] \in UsedSlots
  BY <1>1 DEF UsedSlots, Used, ActiveCapacity, Live
<1>3. f \in Injection(L, UsedSlots)
  <2>1. f \in [L -> UsedSlots]
    BY <1>2
  <2>2. \A p, q \in L : f[p] = f[q] => p = q
    BY <1>1
  <2> QED
    BY <2>1, <2>2 DEF Injection, IsInjective
<1>4. IsFiniteSet(UsedSlots) /\ Cardinality(UsedSlots) <= MaxConcurrent
  BY FS_Subset DEF UsedSlots, UsedWithinCap
<1>5. IsFiniteSet(L) /\ Cardinality(L) <= Cardinality(UsedSlots)
  BY <1>3, <1>4, FS_Injection
<1>6. Cardinality(L) \in Nat /\ Cardinality(UsedSlots) \in Nat /\ MaxConcurrent \in Nat
  BY <1>4, <1>5, FS_CardinalityType, BoundAssumption
<1> QED
  BY <1>4, <1>5, <1>6

(***************************************************************************)
(* With finitely many Instance rows the recorded live turns stay within    *)
(* max_concurrent_instances: the capacity query of a reservation counts    *)
(* whatever could still hold one of them.                                  *)
(***************************************************************************)
THEOREM CapRespected ==
    ASSUME IsFiniteSet(Instances)
    PROVE  Spec => []LiveWithinCap
<1>1. Init => UsedWithinCap
  <2> SUFFICES ASSUME Init, MaxConcurrent > 0 PROVE Cardinality(UsedSlots) <= MaxConcurrent
    BY DEF UsedWithinCap, UsedSlots
  <2>1. UsedSlots = {}
    BY DEF Init, UsedSlots, Used, ActiveCapacity, Busy, NoLc
  <2>2. Cardinality(UsedSlots) = 0
    BY <2>1, FS_EmptySet
  <2> QED
    BY <2>2, BoundAssumption
<1>2. Inv /\ UsedWithinCap /\ [Next]_vars => UsedWithinCap'
  BY CapStep
<1>3. Inv /\ UsedWithinCap => LiveWithinCap
  BY LiveTakeSlots
<1> QED
  BY <1>1, <1>2, <1>3, Invariant, PTL DEF Spec
=============================================================================
