------------------------ MODULE TaskTurnEffects_proofs ------------------------
(***************************************************************************)
(* One authorization of a Task fires at most one provider turn, and the    *)
(* Task-turn machine implements TurnEffects. Most actions only settle what *)
(* has begun: they are one kind of step here, "closing" or "requeueing",   *)
(* and only the steps that claim, admit, spawn or authorize differ.        *)
(***************************************************************************)
EXTENDS TaskTurn_proofs

Carries(i) ==
    lc'[i].task = lc[i].task /\ lc'[i].gen = lc[i].gen /\ lc'[i].pid = lc[i].pid
Leaves(i) ==
    \/ ~HasTask(lc'[i])
    \/ HasTask(lc[i]) /\ lc'[i].pc \in {"exit", "reconcile"} /\ Carries(i)
Settles(i) ==
    \/ lc'[i] = lc[i] \/ Leaves(i)
    \/ lc[i].pc = "track" /\ lc'[i].pc = "wait" /\ Carries(i)
ProcKept(p) ==
    /\ proc'[p].task = proc[p].task /\ proc'[p].auth = proc[p].auth
    /\ (proc'[p].st = "unborn") <=> (proc[p].st = "unborn")
    /\ proc[p].out = "rejected" => proc'[p].out = "rejected"
    /\ proc'[p].st = "live" => proc[p].st = "live" /\ proc'[p].out = proc[p].out

StatusSettles(t) ==
    status'[t] = status[t] \/ (status[t] \notin Terminal /\ status'[t] \in Terminal)
NoRefusal == \A p \in Procs : proc'[p].out = "rejected" => proc[p].out = "rejected"

\* No Task becomes launchable, no coroutine launches, no process is born.
Closing ==
    /\ UNCHANGED <<gen, inst, source, sent, auth>>
    /\ \A t \in Tasks : StatusSettles(t)
    /\ \A i \in Instances : Settles(i)
    /\ \A p \in Procs : ProcKept(p)
    /\ NoRefusal \/ UNCHANGED status
    /\ mode' = "down" => \A i \in Instances : lc'[i] = NoLc

\* The owner of a turn without effect hands its Task back and leaves.
Requeueing(i) ==
    LET t == lc[i].task
    IN  /\ HasTask(lc[i]) /\ OwnsTurn(i) /\ ~Fired(t) /\ Leaves(i)
        /\ status' = [status EXCEPT ![t] = "pending"]
        /\ inst' = [inst EXCEPT ![t] = NoInst]
        /\ UNCHANGED <<gen, source, sent, auth, proc, mode>>
        /\ \A j \in Instances \ {i} : lc'[j] = lc[j]

-----------------------------------------------------------------------------
(* Which kind each action is. *)

LEMMA LifecycleIsUp ==
    ASSUME EffectInv, NEW i \in Instances, lc[i].pc # "none" 
    PROVE  mode # "down"
BY DEF EffectInv, DownIsEmpty, NoLc

LEMMA GotoSettles ==
    ASSUME TypeOK, EffectInv, NEW i \in Instances, HasTask(lc[i]),
           mode' = mode,
           \/ Goto(i, "exit") \/ Goto(i, "reconcile")
           \/ Goto(i, "wait") /\ lc[i].pc = "track"
           \/ lc' = [lc EXCEPT ![i] = NoLc]
    PROVE  /\ \A j \in Instances : Settles(j)
           /\ mode' = "down" => \A j \in Instances : lc'[j] = NoLc
<1>1. mode' # "down"
  BY LifecycleIsUp DEF HasTask
<1>2. lc \in [Instances -> LcRow] /\ lc[i] \in LcRow
  BY DEF TypeOK
<1>3. Settles(i)
  BY <1>2 DEF Settles, Leaves, Carries, Goto, HasTask, NoLc, LcRow
<1>4. \A j \in Instances \ {i} : Settles(j)
  BY <1>2 DEF Settles, Goto
<1> QED
  BY <1>1, <1>3, <1>4

LEMMA FailOwnedCloses ==
    ASSUME TypeOK, NEW i \in Instances, FailOwned(i)
    PROVE  /\ UNCHANGED <<gen, inst, source, sent, auth>>
           /\ \A t \in Tasks : StatusSettles(t)
BY DEF FailOwned, OwnsTurn, Active, TypeOK, TaskRows, Terminal, StatusSettles

LEMMA FinalizeKind ==
    ASSUME TypeOK, EffectInv, NEW i \in Instances, NEW a, NEW c, Finalize(i, a, c),
           HasTask(lc[i]), UNCHANGED <<proc, mode>>,
           Goto(i, "exit") \/ lc' = [lc EXCEPT ![i] = NoLc]
    PROVE  Closing \/ Requeueing(i)
<1> DEFINE t == lc[i].task
<1>1. CASE UNCHANGED <<status, inst>> \/ 
           (OwnsTurn(i) /\ status' = [status EXCEPT ![t] = "failed"] /\ UNCHANGED inst)
  <2>1. /\ UNCHANGED <<gen, inst, source, sent, auth>>
        /\ \A u \in Tasks : StatusSettles(u)
    BY <1>1 DEF Finalize, OwnsTurn, Active, TypeOK, TaskRows, Terminal, StatusSettles
  <2> QED
    BY <2>1, GotoSettles DEF Closing, NoRefusal, ProcKept
<1>2. CASE /\ OwnsTurn(i) /\ ReplaySafe(t, a)
           /\ status' = [status EXCEPT ![t] = "pending"]
           /\ inst' = [inst EXCEPT ![t] = NoInst]
  <2>1. t \in Tasks /\ lc[i] \in LcRow /\ lc \in [Instances -> LcRow]
    BY DEF TypeOK, LcRow
  <2>2. gen[t] > 0 /\ source[t] \in Nat /\ gen[t] \in Nat /\ sent[t] \in BOOLEAN
    BY <1>2, <2>1 DEF EffectInv, LcOpened, OwnsTurn, SameGeneration, TypeOK, TaskRows
  <2>3. ~ProvenSent(t)
    BY <1>2, <2>2 DEF ReplaySafe, ProvenSent
  <2>4. ~Fired(t)
    BY <1>2, <2>1, <2>3 DEF EffectInv, LaunchableUnfired, OwnsTurn
  <2>5. Leaves(i) /\ \A j \in Instances \ {i} : lc'[j] = lc[j]
    BY <2>1 DEF Leaves, Carries, Goto, HasTask, NoLc, LcRow
  <2> QED
    BY <1>2, <2>4, <2>5 DEF Requeueing, Finalize
<1> QED
  BY <1>1, <1>2 DEF Finalize

LEMMA LifecycleKind ==
    ASSUME TypeOK, EffectInv, NEW i \in Instances, Lifecycle(i)
    PROVE  \/ Closing \/ Requeueing(i) \/ (\E t \in Tasks : Dequeue(i, t))
           \/ BindTurn(i) \/ Admit(i) \/ (\E p \in Procs : Spawn(i, p))
<1>0. lc \in [Instances -> LcRow] /\ lc[i] \in LcRow
  BY DEF TypeOK
<1>1. CASE ReleaseReservation(i) \/ BindSuperseded(i)
  <2>1. mode' # "down" /\ \A j \in Instances : Settles(j)
    BY <1>0, <1>1, LifecycleIsUp
       DEF ReleaseReservation, BindSuperseded, Settles, Leaves, HasTask, NoLc, sysVars
  <2> QED
    BY <1>1, <2>1 DEF Closing, StatusSettles, NoRefusal, ProcKept, ReleaseReservation, BindSuperseded, taskVars
<1>2. CASE PrepareFails(i) \/ LaunchDeferred(i) \/ JudgeError(i) \/ LifecycleCancelled(i)
  BY <1>2, FinalizeKind DEF PrepareFails, LaunchDeferred, JudgeError,
     LifecycleCancelled, HasTask, sysVars
<1>3. CASE \/ LaunchFails(i) \/ JudgeRejectedFails(i) \/ WaitFails(i)
  <2>1. FailOwned(i) /\ Goto(i, "exit") /\ HasTask(lc[i]) /\ UNCHANGED <<proc, mode>>
    BY <1>3 DEF LaunchFails, JudgeRejectedFails, WaitFails, HasTask, sysVars
  <2> QED
    BY <2>1, FailOwnedCloses, GotoSettles DEF Closing, NoRefusal, ProcKept
<1>4. CASE LaunchAbandoned(i) \/ LifecycleDies(i) \/ Reconcile(i)
  <2>1. /\ Goto(i, "exit") \/ lc' = [lc EXCEPT ![i] = NoLc]
        /\ HasTask(lc[i]) /\ UNCHANGED <<taskVars, proc, mode>>
    BY <1>4 DEF LaunchAbandoned, LifecycleDies, Reconcile, HasTask, sysVars
  <2> QED
    BY <2>1, GotoSettles DEF Closing, StatusSettles, NoRefusal, ProcKept, taskVars
<1>5. CASE Track(i)
  <2>1. Goto(i, "wait") /\ lc[i].pc = "track" /\ HasTask(lc[i]) /\ UNCHANGED <<taskVars, mode>>
    BY <1>5 DEF Track, HasTask, sysVars
  <2>2. \A p \in Procs : ProcKept(p)
    BY <1>5 DEF Track, ProcKept, TypeOK, ProcRow
  <2> QED
    BY <2>1, <2>2, GotoSettles DEF Closing, StatusSettles, NoRefusal, taskVars
<1>6. CASE TrackAborted(i) \/ TrackAbortUnconfirmed(i)
  <2>1. FailOwned(i) /\ Goto(i, "exit") /\ HasTask(lc[i]) /\ mode' = mode
    BY <1>6 DEF TrackAborted, TrackAbortUnconfirmed, HasTask, sysVars
  <2>2. \A p \in Procs : ProcKept(p)
    <3>1. CASE TrackAbortUnconfirmed(i)
      BY <3>1 DEF TrackAbortUnconfirmed, ProcKept, TypeOK, ProcRow
    <3>2. CASE TrackAborted(i)
      BY <3>2 DEF TrackAborted, ProcKept, TypeOK, ProcRow, Live, EffectInv, ProcSane, Born
    <3> QED
      BY <1>6, <3>1, <3>2
  <2>3. NoRefusal
    BY <1>6 DEF TrackAborted, TrackAbortUnconfirmed, NoRefusal, TypeOK, ProcRow
  <2> QED
    BY <2>1, <2>2, <2>3, FailOwnedCloses, GotoSettles DEF Closing
<1>7. CASE JudgeCompleted(i)
  <2>1. /\ Goto(i, "exit") /\ HasTask(lc[i])
        /\ UNCHANGED <<gen, inst, source, sent, auth, proc, mode>>
        /\ \A t \in Tasks : StatusSettles(t)
    BY <1>7 DEF JudgeCompleted, OwnsTurn, Active, HasTask, sysVars, TypeOK, TaskRows, Terminal, StatusSettles
  <2> QED
    BY <2>1, GotoSettles DEF Closing, NoRefusal, ProcKept
<1>8. CASE JudgeRejected(i)
  <2> DEFINE t == lc[i].task
  <2>1. HasTask(lc[i]) /\ t \in Tasks
    BY <1>0, <1>8 DEF JudgeRejected, HasTask, LcRow
  <2>2. \A q \in Procs : EffectOf(q, t, auth[t]) => q = lc[i].pid
    BY <1>8 DEF JudgeRejected, OwnsTurn, SameGeneration, EffectInv, SoleProcess
  <2>3. ~Fired(t)
    BY <1>8, <2>2 DEF JudgeRejected, Fired, EffectOf
  <2>4. Leaves(i) /\ \A j \in Instances \ {i} : lc'[j] = lc[j]
    BY <1>0, <1>8, <2>1 DEF JudgeRejected, Leaves, Carries, Goto, HasTask, LcRow
  <2> QED
    BY <1>8, <2>1, <2>3, <2>4 DEF JudgeRejected, Requeueing, sysVars
<1>9. CASE ExitReset(i)
  <2>1. Goto(i, "reconcile") /\ HasTask(lc[i]) /\ UNCHANGED <<proc, mode>>
    BY <1>9 DEF ExitReset, HasTask, sysVars
  <2>2. FailOwned(i) \/ UNCHANGED taskVars
    BY <1>9 DEF ExitReset
  <2>3. /\ UNCHANGED <<gen, inst, source, sent, auth>>
        /\ \A t \in Tasks : StatusSettles(t)
    BY <2>2, FailOwnedCloses DEF StatusSettles, taskVars
  <2> QED
    BY <2>1, <2>3, GotoSettles DEF Closing, NoRefusal, ProcKept
<1> QED
  BY <1>1, <1>2, <1>3, <1>4, <1>5, <1>6, <1>7, <1>8, <1>9 DEF Lifecycle

LEMMA StopCloses ==
    ASSUME TypeOK, EffectInv, NEW t \in Tasks, StopStep(t)
    PROVE  Closing
<1>1. UNCHANGED <<gen, inst, source, sent, auth, lc, mode>>
  BY DEF StopStep, StopKill, StopUnconfirmed, StopUnmanaged, StopSettle, CancelFinish,
     SupersedeFinish, taskVars, sysVars
<1>2. \A p \in Procs : ProcKept(p)
  <2>1. ASSUME NEW i \in Instances, NEW q, StopKill(t, i, q)
        PROVE  \A p \in Procs : ProcKept(p)
    BY <2>1 DEF StopKill, ProcKept, TypeOK, ProcRow, Live, EffectInv, ProcSane, Born
  <2>2. (\A i \in Instances, p \in Procs \cup {NoProc} : ~StopKill(t, i, p)) => proc' = proc
    BY DEF StopStep, StopUnconfirmed, StopUnmanaged, StopSettle, CancelFinish,
       SupersedeFinish
  <2> QED
    BY <2>1, <2>2 DEF ProcKept
<1>3. \A u \in Tasks : StatusSettles(u)
  <2>1. CASE UNCHANGED taskVars
    BY <2>1 DEF StatusSettles, taskVars
  <2>2. CASE StopSettle(t)
    BY <2>2 DEF StopSettle, Active, TypeOK, TaskRows, Terminal, StatusSettles
  <2>3. CASE SupersedeFinish(t)
    <3>1. /\ SupersedeTarget(t) \in Terminal
          /\ stop[t].was \in Terminal => SupersedeTarget(t) = stop[t].was
      BY DEF SupersedeTarget, TypeOK, StopRow, Statuses, Active, Terminal
    <3> QED
      BY <2>3, <3>1 DEF SupersedeFinish, SupersedeConfirmed, StatusSettles, TypeOK, TaskRows
  <2> QED
    BY <2>1, <2>2, <2>3 DEF StopStep, StopKill, StopUnconfirmed, StopUnmanaged, CancelFinish
<1>4. NoRefusal \/ UNCHANGED status
  BY DEF StopStep, StopKill, StopUnconfirmed, StopUnmanaged, StopSettle, CancelFinish,
     SupersedeFinish, NoRefusal, taskVars
<1> QED
  BY <1>1, <1>2, <1>3, <1>4 DEF Closing, Settles, EffectInv, DownIsEmpty

LEMMA OtherCloses ==
    ASSUME TypeOK, EffectInv,
           \/ \E i \in Instances : EnsureIdle(i) \/ Reserve(i) \/ ConsumerRelease(i)
           \/ \E p \in Procs : ProcEnds(p)
           \/ \E t \in Tasks : CancelOwnerless(t) \/ CancelBegin(t) \/ SupersedeBegin(t)
           \/ BeginShutdown \/ Crash \/ UNCHANGED vars
    PROVE  Closing
<1>1. ASSUME NEW i \in Instances, Reserve(i) PROVE Closing
  <2>1. \A j \in Instances : Settles(j)
    BY <1>1 DEF Reserve, Goto, Settles, Leaves, HasTask, TypeOK, LcRow
  <2> QED
    BY <1>1, <2>1 DEF Reserve, Closing, StatusSettles, NoRefusal, ProcKept, taskVars, sysVars
<1>2. ASSUME NEW p \in Procs, ProcEnds(p) PROVE Closing
  <2>1. \A q \in Procs : ProcKept(q)
    BY <1>2 DEF ProcEnds, ProcExit, ProcKept, TypeOK, ProcRow, Live, EffectInv, ProcSane, Born
  <2> QED
    BY <1>2, <2>1 DEF ProcEnds, ProcExit, Closing, StatusSettles, Settles, taskVars, memVars,
       sysVars, EffectInv, DownIsEmpty
<1>3. ASSUME NEW t \in Tasks, CancelOwnerless(t) PROVE Closing
  BY <1>3 DEF CancelOwnerless, Closing, NoRefusal, Settles, ProcKept, Active, memVars,
     sysVars, EffectInv, DownIsEmpty, TypeOK, TaskRows, Terminal, StatusSettles
<1>4. CASE Crash
  <2>1. \A i \in Instances : lc'[i] = NoLc
    BY <1>4 DEF Crash
  <2> QED
    BY <1>4, <2>1 DEF Crash, Closing, StatusSettles, NoRefusal, Settles, Leaves, HasTask,
       NoLc, ProcKept, taskVars
<1>5. CASE \/ \E i \in Instances : EnsureIdle(i) \/ ConsumerRelease(i)
           \/ \E t \in Tasks : CancelBegin(t) \/ SupersedeBegin(t)
           \/ BeginShutdown \/ UNCHANGED vars
  <2>1. /\ UNCHANGED <<status, gen, inst, source, sent, auth, lc, proc>>
        /\ mode' = "down" => mode = "down"
    BY <1>5 DEF EnsureIdle, ConsumerRelease, CancelBegin, SupersedeBegin, BeginShutdown,
       vars, taskVars, memVars, sysVars
  <2> QED
    BY <2>1 DEF Closing, StatusSettles, NoRefusal, Settles, ProcKept, EffectInv, DownIsEmpty
<1> QED
  BY <1>1, <1>2, <1>3, <1>4, <1>5

LEMMA StepKinds ==
    ASSUME TypeOK, EffectInv, [Next]_vars
    PROVE  \/ Closing \/ Restart
           \/ \E i \in Instances :
                \/ Requeueing(i) \/ (\E t \in Tasks : Dequeue(i, t))
                \/ BindTurn(i) \/ Admit(i) \/ (\E p \in Procs : Spawn(i, p))
           \/ \E t \in Tasks : Retry(t)
BY LifecycleKind, StopCloses, OtherCloses DEF Next, Request

-----------------------------------------------------------------------------
(* Each kind of step preserves the inductive invariant. *)

LEMMA ClosingKeeps ==
    ASSUME TypeOK, TypeOK', EffectInv, Closing
    PROVE  EffectInv'
<1>1. \A p \in Procs, t \in Tasks : \A a : EffectOf(p, t, a)' => EffectOf(p, t, a)
  BY DEF Closing, NoRefusal, ProcKept, EffectOf, Born
<1>2. \A t \in Tasks : Fired(t)' => Fired(t)
  BY <1>1 DEF Fired, Closing
<1>3. \A i \in Instances : lc[i] \in LcRow /\ lc'[i] \in LcRow
  BY DEF TypeOK
<1>4. \A i \in Instances : HasTask(lc'[i]) => HasTask(lc[i]) /\ Carries(i)
  BY DEF Closing, Settles, Leaves, HasTask, Carries
<1>5. DownIsEmpty' /\ LcOpened' /\ LcUnique' /\ ClaimUnbound'
  BY <1>4 DEF EffectInv, DownIsEmpty, LcOpened, LcUnique, ClaimUnbound, Closing,
     StatusSettles, Carries, Terminal
<1>6. LcPlaced'
  <2> SUFFICES ASSUME NEW i \in Instances, HasTask(lc'[i]), 
                      lc'[i].gen = gen'[lc'[i].task], status'[lc'[i].task] \in Active
               PROVE  inst'[lc'[i].task] = i
    BY DEF LcPlaced, HasTask
  <2>1. HasTask(lc[i]) /\ Carries(i) /\ lc[i].task \in Tasks
    BY <1>3, <1>4 DEF LcRow
  <2>2. status[lc[i].task] \in Active
    BY <2>1 DEF Closing, StatusSettles, Carries, Active, Terminal
  <2> QED
    BY <2>1, <2>2 DEF EffectInv, LcPlaced, Closing, Carries
<1>7. ProcSane'
  BY DEF EffectInv, ProcSane, Closing, NoRefusal, ProcKept, Born
<1>8. LaunchableUnfired'
  BY <1>2 DEF EffectInv, LaunchableUnfired, Closing, StatusSettles, ProvenSent, Active, Terminal
<1>9. \A i \in Instances : lc'[i].pc \in {"spawn", "track"} => lc'[i] = lc[i] /\ lc[i].task \in Tasks
  BY <1>3 DEF Closing, Settles, Leaves, HasTask, LcRow
<1>10. LaunchCurrent' /\ SpawnUnfired'
  BY <1>2, <1>9 DEF EffectInv, LaunchCurrent, LaunchHoldsLock, SpawnUnfired, Closing,
     StatusSettles, ProvenSent, Terminal
<1>11. SoleProcess'
  <2> SUFFICES ASSUME NEW i \in Instances, (lc[i].pc \in {"track", "wait"})'
               PROVE  (/\ lc[i].pid \in Procs /\ Born(lc[i].pid)
                       /\ lc[i].gen = gen[lc[i].task] =>
                            \A q \in Procs :
                              EffectOf(q, lc[i].task, auth[lc[i].task]) => q = lc[i].pid)'
    BY DEF SoleProcess
  <2>1. lc[i].pc \in {"track", "wait"} /\ Carries(i) /\ lc[i].task \in Tasks
    BY <1>3 DEF Closing, Settles, Leaves, HasTask, Carries, LcRow
  <2>2. (lc[i].pid \in Procs /\ Born(lc[i].pid))'
    BY <2>1 DEF EffectInv, SoleProcess, Carries, Closing, NoRefusal, ProcKept, Born
  <2>3. ASSUME (lc[i].gen = gen[lc[i].task])',
               NEW q \in Procs, EffectOf(q, lc[i].task, auth[lc[i].task])'
        PROVE  (q = lc[i].pid)'
    <3>1. EffectOf(q, lc[i].task, auth[lc[i].task])
      BY <2>1, <2>3 DEF Carries, Closing, NoRefusal, ProcKept, EffectOf, Born
    <3> QED
      BY <2>1, <2>3, <3>1 DEF EffectInv, SoleProcess, Carries, Closing
  <2> QED
    BY <2>2, <2>3
<1>12. AtMostOneEffect'
  BY DEF EffectInv, AtMostOneEffect, Closing, NoRefusal, ProcKept, Born
<1> QED
  BY <1>5, <1>6, <1>7, <1>8, <1>10, <1>11, <1>12 DEF EffectInv

LEMMA RequeueingKeeps ==
    ASSUME TypeOK, TypeOK', EffectInv, NEW i \in Instances, Requeueing(i)
    PROVE  EffectInv'
<1> DEFINE t == lc[i].task
<1>0. \A j \in Instances : lc[j] \in LcRow /\ lc'[j] \in LcRow
  BY DEF TypeOK
<1>1. t \in Tasks /\ lc[i].gen = gen[t] /\ HasTask(lc[i])
  BY <1>0 DEF Requeueing, OwnsTurn, SameGeneration, LcRow
<1>2. \A p \in Procs, u \in Tasks : \A a : EffectOf(p, u, a)' <=> EffectOf(p, u, a)
  BY DEF Requeueing, EffectOf, Born
<1>3. \A u \in Tasks : Fired(u)' <=> Fired(u)
  BY <1>2 DEF Fired, Requeueing
<1>4. \A j \in Instances : HasTask(lc'[j]) => HasTask(lc[j]) /\ Carries(j)
  BY DEF Requeueing, Leaves, Carries
<1>5. \A j \in Instances : lc'[j].pc \in {"spawn", "track", "wait"} => j # i /\ lc'[j] = lc[j]
  BY DEF Requeueing, Leaves, HasTask
<1>6. /\ status' = [status EXCEPT ![t] = "pending"] /\ inst' = [inst EXCEPT ![t] = NoInst]
      /\ UNCHANGED <<gen, source, sent, auth, proc, mode>> /\ ~Fired(t)
  BY DEF Requeueing
<1>7. \A u \in Tasks : u # t => status'[u] = status[u] /\ inst'[u] = inst[u]
  BY <1>6 DEF TypeOK, TaskRows
<1>8. status'[t] = "pending"
  BY <1>1, <1>6 DEF TypeOK, TaskRows
<1>9. DownIsEmpty' /\ LcOpened' /\ LcUnique'
  <2>1. mode # "down"
    BY <1>1, LifecycleIsUp DEF HasTask
  <2> QED
    BY <1>4, <1>6, <2>1 DEF EffectInv, DownIsEmpty, LcOpened, LcUnique, Carries
<1>10. LcPlaced'
  BY <1>0, <1>4, <1>6, <1>7, <1>8 DEF EffectInv, LcPlaced, Carries, LcRow, Active
<1>11. ClaimUnbound'
  BY <1>6, <1>7, <1>8 DEF EffectInv, ClaimUnbound
<1>12. ProcSane' /\ AtMostOneEffect'
  BY <1>6 DEF EffectInv, ProcSane, AtMostOneEffect, Born
<1>13. LaunchableUnfired'
  BY <1>3, <1>6, <1>7, <1>8 DEF EffectInv, LaunchableUnfired, ProvenSent
<1>14. LaunchCurrent'
  <2> SUFFICES ASSUME NEW j \in Instances, LaunchHoldsLock(j)'
               PROVE  (LET u == lc[j].task
                       IN  /\ lc[j].gen = gen[u] /\ inst[u] = j
                           /\ status[u] # "pending" /\ ProvenSent(u))'
    BY DEF LaunchCurrent
  <2>1. j # i /\ lc'[j] = lc[j] /\ LaunchHoldsLock(j) /\ HasTask(lc[j]) /\ lc[j].task \in Tasks
    BY <1>0, <1>5 DEF LaunchHoldsLock, HasTask, LcRow
  <2>2. lc[j].gen = gen[lc[j].task]
    BY <2>1 DEF EffectInv, LaunchCurrent
  <2>3. lc[j].task # t
    BY <1>1, <2>1, <2>2 DEF EffectInv, LcUnique
  <2> QED
    BY <1>6, <1>7, <2>1, <2>3 DEF EffectInv, LaunchCurrent, ProvenSent
<1>15. SpawnUnfired' /\ SoleProcess'
  BY <1>0, <1>2, <1>3, <1>5, <1>6 DEF EffectInv, SpawnUnfired, SoleProcess, Born, LcRow, HasTask
<1> QED
  BY <1>9, <1>10, <1>11, <1>12, <1>13, <1>14, <1>15 DEF EffectInv

LEMMA DequeueKeeps ==
    ASSUME TypeOK, TypeOK', EffectInv, NEW i \in Instances, NEW t \in Tasks, Dequeue(i, t)
    PROVE  EffectInv'
<1>0. \A j \in Instances : lc[j] \in LcRow
  BY DEF TypeOK
<1>1. /\ lc'[i].pc = "claimed" /\ lc'[i].task = t /\ lc'[i].gen = gen[t] + 1
      /\ gen[t] \in Nat /\ gen'[t] = gen[t] + 1 /\ status[t] = "pending"
      /\ status'[t] = "in_progress" /\ inst'[t] = i /\ source'[t] = 0
      /\ lc[i].pc = "reserved" /\ UNCHANGED <<auth, proc, mode>>
  BY DEF Dequeue, TypeOK, TaskRows, sysVars
<1>2. \A u \in Tasks \ {t} : /\ status'[u] = status[u] /\ gen'[u] = gen[u]
                             /\ inst'[u] = inst[u] /\ source'[u] = source[u]
                             /\ sent'[u] = sent[u]
  BY DEF Dequeue, TypeOK, TaskRows
<1>3. \A j \in Instances \ {i} : lc'[j] = lc[j]
  BY DEF Dequeue, TypeOK
<1>4. \A j \in Instances \ {i} : HasTask(lc[j]) /\ lc[j].task = t => lc[j].gen <= gen[t]
  BY <1>1 DEF EffectInv, LcOpened
<1>5. \A u \in Tasks : Fired(u)' <=> Fired(u)
  BY <1>1 DEF Fired, EffectOf, Born
<1>6. \A j \in Instances : HasTask(lc[j]) => lc[j].task \in Tasks /\ lc[j].gen \in Nat
  BY <1>0 DEF LcRow
<1>7. DownIsEmpty'
  BY <1>1, LifecycleIsUp DEF DownIsEmpty
<1>8. LcOpened'
  BY <1>1, <1>2, <1>3, <1>6 DEF EffectInv, LcOpened
<1>9. LcUnique'
  BY <1>1, <1>3, <1>4, <1>6 DEF EffectInv, LcUnique
<1>10. LcPlaced'
  BY <1>1, <1>2, <1>3, <1>4, <1>6 DEF EffectInv, LcPlaced
<1>11. ClaimUnbound' /\ ProcSane' /\ AtMostOneEffect'
  BY <1>1, <1>2 DEF EffectInv, ClaimUnbound, ProcSane, AtMostOneEffect, Born
<1>12. LaunchableUnfired'
  BY <1>1, <1>2, <1>5 DEF EffectInv, LaunchableUnfired, ProvenSent
<1>13. \A j \in Instances : lc'[j].pc \in {"spawn", "track"} =>
         j # i /\ lc'[j] = lc[j] /\ lc[j].task \in Tasks \ {t}
  BY <1>1, <1>3, <1>6 DEF EffectInv, LaunchCurrent, LaunchHoldsLock, HasTask
<1>14. LaunchCurrent' /\ SpawnUnfired'
  BY <1>1, <1>2, <1>5, <1>13
     DEF EffectInv, LaunchCurrent, LaunchHoldsLock, SpawnUnfired, ProvenSent
<1>15. SoleProcess'
  <2> SUFFICES ASSUME NEW j \in Instances, (lc[j].pc \in {"track", "wait"})'
               PROVE  (/\ lc[j].pid \in Procs /\ Born(lc[j].pid)
                       /\ lc[j].gen = gen[lc[j].task] =>
                            \A q \in Procs :
                              EffectOf(q, lc[j].task, auth[lc[j].task]) => q = lc[j].pid)'
    BY DEF SoleProcess
  <2>1. j # i /\ lc'[j] = lc[j] /\ HasTask(lc[j])
    BY <1>1, <1>3 DEF HasTask
  <2>2. lc[j].gen = gen'[lc[j].task] => lc[j].task # t
    BY <1>1, <1>4, <2>1
  <2> QED
    BY <1>1, <1>2, <1>6, <2>1, <2>2 DEF EffectInv, SoleProcess, EffectOf, Born
<1> QED
  BY <1>7, <1>8, <1>9, <1>10, <1>11, <1>12, <1>14, <1>15 DEF EffectInv

LEMMA BindTurnKeeps ==
    ASSUME TypeOK, TypeOK', EffectInv, NEW i \in Instances, BindTurn(i)
    PROVE  EffectInv'
<1> DEFINE t == lc[i].task
<1>0. \A j \in Instances : lc[j] \in LcRow
  BY DEF TypeOK
<1>1. \A j \in Instances : HasTask(lc[j]) => lc[j].task \in Tasks /\ lc[j].gen \in Nat
  BY <1>0 DEF LcRow
<1>2. /\ t \in Tasks /\ HasTask(lc[i]) /\ lc[i].pc = "claimed" /\ lc'[i].pc = "launch"
      /\ lc'[i].task = t /\ lc'[i].gen = gen[t] /\ inst[t] = i /\ status[t] = "in_progress"
      /\ UNCHANGED <<gen, inst, auth, proc, mode>>
  BY <1>0, <1>1 DEF BindTurn, ClaimMatches, HasTask, LcRow, TypeOK, sysVars
<1>3. \A j \in Instances \ {i} : lc'[j] = lc[j]
  BY DEF BindTurn, TypeOK
<1>4. /\ status'[t] = "executing" /\ source'[t] = gen[t] /\ sent'[t] = FALSE
      /\ \A u \in Tasks \ {t} : /\ status'[u] = status[u] /\ source'[u] = source[u]
                                /\ sent'[u] = sent[u]
  BY <1>2 DEF BindTurn, TypeOK, TaskRows
<1>5. gen[t] \in Nat /\ gen[t] > 0 /\ source[t] = 0
  BY <1>1, <1>2 DEF EffectInv, LcOpened, ClaimUnbound, TypeOK, TaskRows
<1>6. ~Fired(t)
  BY <1>2, <1>5 DEF EffectInv, LaunchableUnfired, ProvenSent, Active
<1>7. \A u \in Tasks : Fired(u)' <=> Fired(u)
  BY <1>2 DEF Fired, EffectOf, Born
<1>8. \A j \in Instances \ {i} : HasTask(lc[j]) /\ lc[j].task = t => lc[j].gen # gen[t]
  BY <1>2 DEF EffectInv, LcPlaced, Active
<1>9. DownIsEmpty' /\ LcOpened' /\ LcUnique'
  BY <1>1, <1>2, <1>3, <1>5, <1>8, LifecycleIsUp DEF EffectInv, DownIsEmpty, LcOpened, LcUnique
<1>10. LcPlaced'
  BY <1>1, <1>2, <1>3, <1>4, <1>8 DEF EffectInv, LcPlaced
<1>11. ClaimUnbound' /\ ProcSane' /\ AtMostOneEffect'
  BY <1>2, <1>4 DEF EffectInv, ClaimUnbound, ProcSane, AtMostOneEffect, Born
<1>12. LaunchableUnfired'
  BY <1>2, <1>4, <1>6, <1>7 DEF EffectInv, LaunchableUnfired, ProvenSent
<1>13. \A j \in Instances : lc'[j].pc \in {"spawn", "track", "wait"} =>
         j # i /\ lc'[j] = lc[j] /\ HasTask(lc[j])
  BY <1>2, <1>3 DEF HasTask
<1>14. LaunchCurrent'
  BY <1>1, <1>2, <1>4, <1>8, <1>13 DEF EffectInv, LaunchCurrent, LaunchHoldsLock, ProvenSent
<1>15. SpawnUnfired' /\ SoleProcess'
  BY <1>1, <1>2, <1>7, <1>13 DEF EffectInv, SpawnUnfired, SoleProcess, EffectOf, Born
<1> QED
  BY <1>9, <1>10, <1>11, <1>12, <1>14, <1>15 DEF EffectInv

LEMMA AdmitKeeps ==
    ASSUME TypeOK, TypeOK', EffectInv, NEW i \in Instances, Admit(i)
    PROVE  EffectInv'
<1> DEFINE t == lc[i].task
<1>0. \A j \in Instances : lc[j] \in LcRow
  BY DEF TypeOK
<1>1. \A j \in Instances : HasTask(lc[j]) => lc[j].task \in Tasks /\ lc[j].gen \in Nat
  BY <1>0 DEF LcRow
<1>2. /\ t \in Tasks /\ HasTask(lc[i]) /\ lc[i].pc = "launch" /\ lc'[i].pc = "spawn"
      /\ Carries(i) /\ lc[i].gen = gen[t] /\ inst[t] = i /\ status[t] \in Active
      /\ source[t] = gen[t] /\ ~sent[t]
      /\ UNCHANGED <<status, gen, inst, source, auth, proc, mode>>
  BY <1>0, <1>1 DEF Admit, OwnsTurn, SameGeneration, HasTask, LcRow, TypeOK, sysVars,
     Goto, Carries
<1>3. \A j \in Instances \ {i} : lc'[j] = lc[j]
  BY DEF Admit, Goto, TypeOK
<1>4. sent'[t] = TRUE /\ \A u \in Tasks \ {t} : sent'[u] = sent[u]
  BY <1>2 DEF Admit, TypeOK, TaskRows
<1>5. ~Fired(t)
  BY <1>2 DEF EffectInv, LaunchableUnfired, ProvenSent
<1>6. \A u \in Tasks : Fired(u)' <=> Fired(u)
  BY <1>2 DEF Fired, EffectOf, Born
<1>7. \A j \in Instances : /\ HasTask(lc'[j]) <=> HasTask(lc[j])
                           /\ lc'[j].task = lc[j].task /\ lc'[j].gen = lc[j].gen
  BY <1>2, <1>3 DEF Carries, HasTask
<1>8. DownIsEmpty' /\ LcOpened' /\ LcUnique' /\ LcPlaced'
  BY <1>1, <1>2, <1>7, LifecycleIsUp
     DEF EffectInv, DownIsEmpty, LcOpened, LcUnique, LcPlaced
<1>9. ClaimUnbound' /\ ProcSane' /\ AtMostOneEffect'
  BY <1>2 DEF EffectInv, ClaimUnbound, ProcSane, AtMostOneEffect, Born
<1>10. LaunchableUnfired'
  BY <1>2, <1>4, <1>5, <1>6 DEF EffectInv, LaunchableUnfired, ProvenSent
<1>11. LaunchCurrent'
  <2> SUFFICES ASSUME NEW j \in Instances, LaunchHoldsLock(j)'
               PROVE  (LET u == lc[j].task
                       IN  /\ lc[j].gen = gen[u] /\ inst[u] = j
                           /\ status[u] # "pending" /\ ProvenSent(u))'
    BY DEF LaunchCurrent
  <2>1. CASE j = i
    BY <1>2, <1>4, <2>1 DEF Carries, ProvenSent, Active
  <2>2. CASE j # i
    <3>1. LaunchHoldsLock(j) /\ HasTask(lc[j]) /\ lc'[j] = lc[j]
      BY <1>3, <2>2 DEF LaunchHoldsLock, HasTask
    <3> QED
      BY <1>1, <1>2, <1>4, <3>1 DEF EffectInv, LaunchCurrent, ProvenSent
  <2> QED
    BY <2>1, <2>2
<1>12. SpawnUnfired'
  BY <1>2, <1>3, <1>5, <1>6, <1>7, <1>1 DEF EffectInv, SpawnUnfired, HasTask
<1>13. SoleProcess'
  BY <1>2, <1>3 DEF EffectInv, SoleProcess, EffectOf, Born
<1> QED
  BY <1>8, <1>9, <1>10, <1>11, <1>12, <1>13 DEF EffectInv

\* The facts about a spawn that the invariant and the refinement both need.
LEMMA SpawnFacts ==
    ASSUME TypeOK, EffectInv, NEW i \in Instances, NEW p \in Procs, Spawn(i, p)
    PROVE  LET t == lc[i].task
           IN  /\ t \in Tasks /\ HasTask(lc[i]) /\ ~Fired(t)
               /\ lc[i].gen = gen[t] /\ ProvenSent(t) /\ status[t] # "pending"
               /\ ~Born(p) /\ proc'[p].st = "live" /\ proc'[p].task = t
               /\ proc'[p].auth = auth[t] /\ proc'[p].out = "none"
               /\ \A q \in Procs \ {p} : proc'[q] = proc[q]
               /\ lc'[i].pc = "track" /\ lc'[i].pid = p
               /\ lc'[i].task = t /\ lc'[i].gen = lc[i].gen
               /\ \A j \in Instances \ {i} : lc'[j] = lc[j]
               /\ UNCHANGED <<status, gen, inst, source, sent, auth, mode>>
<1>1. lc \in [Instances -> LcRow] /\ lc[i] \in LcRow /\ lc[i].pc = "spawn"
  BY DEF TypeOK, Spawn
<1>2. HasTask(lc[i]) /\ lc[i].task \in Tasks
  BY <1>1 DEF HasTask, LcRow
<1>3. /\ ~Fired(lc[i].task) /\ lc[i].gen = gen[lc[i].task]
      /\ ProvenSent(lc[i].task) /\ status[lc[i].task] # "pending"
  BY <1>1 DEF EffectInv, SpawnUnfired, LaunchCurrent, LaunchHoldsLock
<1>4. /\ lc'[i].pc = "track" /\ lc'[i].pid = p
      /\ lc'[i].task = lc[i].task /\ lc'[i].gen = lc[i].gen
      /\ \A j \in Instances \ {i} : lc'[j] = lc[j]
  BY <1>1 DEF Spawn, LcRow
<1> QED
  BY <1>2, <1>3, <1>4 DEF Spawn, Born, TypeOK, taskVars, sysVars

LEMMA SpawnKeeps ==
    ASSUME TypeOK, TypeOK', EffectInv, NEW i \in Instances, NEW p \in Procs, Spawn(i, p)
    PROVE  EffectInv'
<1> DEFINE t == lc[i].task
<1>1. \A j \in Instances : lc[j] \in LcRow /\ (HasTask(lc[j]) => lc[j].task \in Tasks)
  BY DEF TypeOK, LcRow
<1>2. /\ t \in Tasks /\ HasTask(lc[i]) /\ ~Fired(t)
      /\ lc[i].gen = gen[t] /\ ProvenSent(t) /\ status[t] # "pending"
      /\ ~Born(p) /\ proc'[p].st = "live" /\ proc'[p].task = t
      /\ proc'[p].auth = auth[t] /\ proc'[p].out = "none"
      /\ \A q \in Procs \ {p} : proc'[q] = proc[q]
      /\ lc'[i].pc = "track" /\ lc'[i].pid = p
      /\ lc'[i].task = t /\ lc'[i].gen = lc[i].gen
      /\ \A j \in Instances \ {i} : lc'[j] = lc[j]
      /\ UNCHANGED <<status, gen, inst, source, sent, auth, mode>>
  BY SpawnFacts
<1>3. \A u \in Tasks \ {t} : Fired(u)' <=> Fired(u)
  BY <1>2 DEF Fired, EffectOf, Born
<1>4. \A j \in Instances \ {i} : HasTask(lc[j]) /\ lc[j].task = t => lc[j].gen # gen[t]
  BY <1>2 DEF EffectInv, LcUnique
<1>5. \A j \in Instances : /\ HasTask(lc'[j]) <=> HasTask(lc[j])
                           /\ lc'[j].task = lc[j].task /\ lc'[j].gen = lc[j].gen
  BY <1>2 DEF HasTask
<1>6. DownIsEmpty' /\ LcOpened' /\ LcUnique' /\ LcPlaced' /\ ClaimUnbound'
  BY <1>1, <1>2, <1>5, LifecycleIsUp
     DEF EffectInv, DownIsEmpty, LcOpened, LcUnique, LcPlaced, ClaimUnbound, HasTask
<1>7. ProcSane'
  <2>1. auth[t] \in Nat
    BY <1>2 DEF TypeOK, TaskRows
  <2> QED
    BY <1>2, <2>1 DEF EffectInv, ProcSane, Born
<1>8. LaunchableUnfired'
  BY <1>2, <1>3 DEF EffectInv, LaunchableUnfired, ProvenSent
<1>9. LaunchCurrent'
  <2> SUFFICES ASSUME NEW j \in Instances, LaunchHoldsLock(j)'
               PROVE  (LET u == lc[j].task
                       IN  /\ lc[j].gen = gen[u] /\ inst[u] = j
                           /\ status[u] # "pending" /\ ProvenSent(u))'
    BY DEF LaunchCurrent
  <2>1. LaunchHoldsLock(j) /\ lc[j].task \in Tasks
    BY <1>1, <1>2 DEF LaunchHoldsLock, HasTask, Spawn
  <2> QED
    BY <1>2, <1>5, <2>1 DEF EffectInv, LaunchCurrent, ProvenSent
<1>10. SpawnUnfired'
  <2> SUFFICES ASSUME NEW j \in Instances, (lc[j].pc = "spawn")' 
               PROVE  ~Fired(lc[j].task)'
    BY DEF SpawnUnfired
  <2>1. j # i /\ lc'[j] = lc[j] /\ HasTask(lc[j]) /\ LaunchHoldsLock(j)
    BY <1>2 DEF HasTask, LaunchHoldsLock
  <2>2. lc[j].task \in Tasks \ {t}
    BY <1>1, <1>4, <2>1 DEF EffectInv, LaunchCurrent
  <2>3. ~Fired(lc[j].task)
    BY <2>1 DEF EffectInv, SpawnUnfired
  <2> QED
    BY <1>3, <2>1, <2>2, <2>3
<1>11. SoleProcess'
  <2> SUFFICES ASSUME NEW j \in Instances, (lc[j].pc \in {"track", "wait"})'
               PROVE  (/\ lc[j].pid \in Procs /\ Born(lc[j].pid)
                       /\ lc[j].gen = gen[lc[j].task] =>
                            \A q \in Procs :
                              EffectOf(q, lc[j].task, auth[lc[j].task]) => q = lc[j].pid)'
    BY DEF SoleProcess
  <2>1. CASE j = i
    <3>1. \A q \in Procs : EffectOf(q, t, auth[t])' => q = p
      BY <1>2 DEF Fired, EffectOf, Born
    <3> QED
      BY <1>2, <2>1, <3>1 DEF Born
  <2>2. CASE j # i
    <3>1. lc'[j] = lc[j] /\ HasTask(lc[j]) /\ lc[j].pc \in {"track", "wait"}
      BY <1>2, <2>2 DEF HasTask
    <3>2. lc[j].pid \in Procs \ {p} /\ Born(lc[j].pid)
      BY <1>2, <3>1 DEF EffectInv, SoleProcess
    <3>3. lc[j].gen = gen[lc[j].task] => lc[j].task \in Tasks \ {t}
      BY <1>1, <1>4, <2>2, <3>1
    <3>4. \A u \in Tasks \ {t}, q \in Procs : EffectOf(q, u, auth[u])' => EffectOf(q, u, auth[u])
      BY <1>2 DEF EffectOf, Born
    <3> QED
      BY <1>2, <3>1, <3>2, <3>3, <3>4 DEF EffectInv, SoleProcess, Born
  <2> QED
    BY <2>1, <2>2
<1>12. AtMostOneEffect'
  <2>1. \A q \in Procs \ {p} : Born(q) /\ proc[q].task = t /\ proc[q].auth = auth[t]
                                 => proc[q].out = "rejected"
    BY <1>2 DEF Fired, EffectOf
  <2> QED
    BY <1>2, <2>1 DEF EffectInv, AtMostOneEffect, Born
<1> QED
  BY <1>6, <1>7, <1>8, <1>9, <1>10, <1>11, <1>12 DEF EffectInv

\* A launch past admission blocks the retry of its Task.
LEMMA RetryFacts ==
    ASSUME TypeOK, EffectInv, NEW t \in Tasks, Retry(t)
    PROVE  /\ status[t] \in Terminal /\ status'[t] = "pending"
           /\ auth'[t] = auth[t] + 1 /\ auth[t] \in Nat
           /\ \A u \in Tasks \ {t} : /\ status'[u] = status[u] /\ inst'[u] = inst[u]
                                     /\ source'[u] = source[u] /\ sent'[u] = sent[u]
                                     /\ auth'[u] = auth[u]
           /\ UNCHANGED <<gen, lc, proc, mode>>
           /\ \A p \in Procs : ~EffectOf(p, t, auth'[t])
           /\ \A i \in Instances : LaunchHoldsLock(i) => lc[i].task # t
<1>1. /\ status[t] \in Terminal /\ status'[t] = "pending"
      /\ auth'[t] = auth[t] + 1 /\ auth[t] \in Nat
      /\ \A u \in Tasks \ {t} : /\ status'[u] = status[u] /\ inst'[u] = inst[u]
                                /\ source'[u] = source[u] /\ sent'[u] = sent[u]
                                /\ auth'[u] = auth[u]
      /\ UNCHANGED <<gen, lc, proc, mode>>
  BY DEF Retry, TypeOK, TaskRows, memVars, sysVars
<1>2. \A p \in Procs : ~EffectOf(p, t, auth'[t])
  BY <1>1 DEF EffectInv, ProcSane, EffectOf, TypeOK, ProcRow
<1>3. ASSUME NEW i \in Instances, LaunchHoldsLock(i), lc[i].task = t PROVE FALSE
  <2>1. inst[t] = i /\ i # NoInst
    BY <1>3, NullAssumption DEF EffectInv, LaunchCurrent
  <2> QED
    BY <1>3, <2>1 DEF Retry, RetryMayRelease
<1> QED
  BY <1>1, <1>2, <1>3

LEMMA RetryKeeps ==
    ASSUME TypeOK, TypeOK', EffectInv, NEW t \in Tasks, Retry(t)
    PROVE  EffectInv'
<1>1. /\ status[t] \in Terminal /\ status'[t] = "pending"
      /\ auth'[t] = auth[t] + 1 /\ auth[t] \in Nat
      /\ \A u \in Tasks \ {t} : /\ status'[u] = status[u] /\ inst'[u] = inst[u]
                                /\ source'[u] = source[u] /\ sent'[u] = sent[u]
                                /\ auth'[u] = auth[u]
      /\ UNCHANGED <<gen, lc, proc, mode>>
      /\ \A p \in Procs : ~EffectOf(p, t, auth'[t])
      /\ \A i \in Instances : LaunchHoldsLock(i) => lc[i].task # t
  BY RetryFacts
<1>2. \A i \in Instances : HasTask(lc[i]) => lc[i].task \in Tasks
  BY DEF TypeOK, LcRow
<1>3. \A u \in Tasks, p \in Procs : EffectOf(p, u, auth[u])' => EffectOf(p, u, auth[u])
  BY <1>1 DEF EffectOf, Born
<1>4. DownIsEmpty' /\ LcOpened' /\ LcUnique' /\ AtMostOneEffect'
  BY <1>1 DEF EffectInv, DownIsEmpty, LcOpened, LcUnique, AtMostOneEffect, Born
<1>5. LcPlaced' /\ ClaimUnbound'
  BY <1>1, <1>2 DEF EffectInv, LcPlaced, ClaimUnbound, Active
<1>6. ProcSane'
  BY <1>1 DEF EffectInv, ProcSane, Born, TypeOK, TaskRows, ProcRow
<1>7. LaunchableUnfired'
  <2>1. ~Fired(t)'
    BY <1>1 DEF Fired, EffectOf, Born
  <2>2. \A u \in Tasks : Fired(u)' => Fired(u)
    BY <1>3 DEF Fired
  <2> QED
    BY <1>1, <2>1, <2>2 DEF EffectInv, LaunchableUnfired, ProvenSent
<1>8. LaunchCurrent'
  BY <1>1, <1>2 DEF EffectInv, LaunchCurrent, LaunchHoldsLock, HasTask, ProvenSent
<1>9. SpawnUnfired' /\ SoleProcess'
  BY <1>1, <1>2, <1>3 DEF EffectInv, SpawnUnfired, SoleProcess, Fired, Born, HasTask
<1> QED
  BY <1>4, <1>5, <1>6, <1>7, <1>8, <1>9 DEF EffectInv

\* The clean-up requeues a Task only if its turn provably had no effect.
LEMMA RestartFacts ==
    ASSUME TypeOK, EffectInv, Restart
    PROVE  /\ UNCHANGED <<gen, source, sent, auth, lc, proc>>
           /\ \A i \in Instances : lc[i] = NoLc
           /\ \A t \in Tasks :
                \/ status'[t] = status[t] \/ status'[t] \in Terminal
                \/ status[t] \in Active /\ status'[t] = "pending" /\ ~Fired(t)
<1>1. /\ UNCHANGED <<gen, source, sent, auth, lc, proc>>
      /\ \A i \in Instances : lc[i] = NoLc
  BY DEF Restart, memVars, EffectInv, DownIsEmpty
<1>2. ASSUME NEW t \in Tasks, status'[t] # status[t], status'[t] \notin Terminal
      PROVE  status[t] \in Active /\ status'[t] = "pending" /\ ~Fired(t)
  <2>1. status[t] \in Active /\ status'[t] = "pending" /\ Unlaunched(t)
    BY <1>2 DEF Restart, CleanedStatus, Interrupted, Terminal
  <2>2. ~ProvenSent(t)
    BY <2>1 DEF Unlaunched, ReplaySafe, ProvenSent
  <2> QED
    BY <2>1, <2>2 DEF EffectInv, LaunchableUnfired
<1> QED
  BY <1>1, <1>2

LEMMA RestartKeeps ==
    ASSUME TypeOK, TypeOK', EffectInv, Restart
    PROVE  EffectInv'
<1>1. /\ UNCHANGED <<gen, source, sent, auth, lc, proc>>
      /\ \A i \in Instances : lc[i] = NoLc
      /\ \A t \in Tasks :
           \/ status'[t] = status[t] \/ status'[t] \in Terminal
           \/ status[t] \in Active /\ status'[t] = "pending" /\ ~Fired(t)
  BY RestartFacts
<1>2. \A i \in Instances : lc'[i].pc = "none" /\ lc[i].pc = "none"
  BY <1>1 DEF NoLc
<1>3. \A t \in Tasks : Fired(t)' <=> Fired(t)
  BY <1>1 DEF Fired, EffectOf, Born
<1>4. /\ DownIsEmpty' /\ LcOpened' /\ LcUnique' /\ LcPlaced' /\ LaunchCurrent'
      /\ SpawnUnfired' /\ SoleProcess'
  BY <1>1, <1>2 DEF DownIsEmpty, LcOpened, LcUnique, LcPlaced, LaunchCurrent,
     LaunchHoldsLock, SpawnUnfired, SoleProcess, HasTask
<1>5. ClaimUnbound' /\ ProcSane' /\ AtMostOneEffect'
  BY <1>1 DEF EffectInv, ClaimUnbound, ProcSane, AtMostOneEffect, Born, Terminal
<1>6. LaunchableUnfired'
  BY <1>1, <1>3 DEF EffectInv, LaunchableUnfired, ProvenSent, Active, Terminal
<1> QED
  BY <1>4, <1>5, <1>6 DEF EffectInv

-----------------------------------------------------------------------------
(* The theorems. *)

LEMMA InitEffectInv == Init => EffectInv
<1> SUFFICES ASSUME Init PROVE EffectInv
  OBVIOUS
<1>1. \A i \in Instances : lc[i].pc = "none"
  BY DEF Init, NoLc
<1>2. \A p \in Procs : proc[p].st = "unborn"
  BY DEF Init, Unborn
<1>3. DownIsEmpty /\ LcOpened /\ LcUnique /\ LcPlaced /\ LaunchCurrent /\ SpawnUnfired
  BY <1>1 DEF Init, DownIsEmpty, LcOpened, LcUnique, LcPlaced, LaunchCurrent,
     LaunchHoldsLock, SpawnUnfired, HasTask
<1>4. ClaimUnbound /\ ProcSane /\ LaunchableUnfired /\ SoleProcess /\ AtMostOneEffect
  BY <1>1, <1>2 DEF Init, ClaimUnbound, ProcSane, LaunchableUnfired, SoleProcess,
     AtMostOneEffect, Fired, EffectOf, Born
<1> QED
  BY <1>3, <1>4 DEF EffectInv

LEMMA NextEffectInv ==
    ASSUME TypeOK, EffectInv, [Next]_vars
    PROVE  EffectInv'
<1>1. TypeOK'
  BY NextType
<1>2. CASE Closing
  BY <1>1, <1>2, ClosingKeeps
<1>3. CASE Restart
  BY <1>1, <1>3, RestartKeeps
<1>4. ASSUME NEW t \in Tasks, Retry(t) PROVE EffectInv'
  BY <1>1, <1>4, RetryKeeps
<1>5. ASSUME NEW i \in Instances, Requeueing(i) PROVE EffectInv'
  BY <1>1, <1>5, RequeueingKeeps
<1>6. ASSUME NEW i \in Instances, NEW t \in Tasks, Dequeue(i, t) PROVE EffectInv'
  BY <1>1, <1>6, DequeueKeeps
<1>7. ASSUME NEW i \in Instances, BindTurn(i) PROVE EffectInv'
  BY <1>1, <1>7, BindTurnKeeps
<1>8. ASSUME NEW i \in Instances, Admit(i) PROVE EffectInv'
  BY <1>1, <1>8, AdmitKeeps
<1>9. ASSUME NEW i \in Instances, NEW p \in Procs, Spawn(i, p) PROVE EffectInv'
  BY <1>1, <1>9, SpawnKeeps
<1> QED
  BY StepKinds, <1>2, <1>3, <1>4, <1>5, <1>6, <1>7, <1>8, <1>9

(***************************************************************************)
(* The inductive invariant holds of every reachable state.                 *)
(***************************************************************************)
THEOREM EffectInvariant == Spec => []EffectInv
<1>1. TypeOK /\ EffectInv /\ [Next]_vars => EffectInv'
  BY NextEffectInv
<1> QED
  BY InitEffectInv, TypeCorrect, <1>1, PTL DEF Spec

(***************************************************************************)
(* No two provider turns of one user authorization can both have had an    *)
(* effect, whatever the interleaving of claims, launches, stops, retries,  *)
(* crashes and restarts.                                                   *)
(***************************************************************************)
THEOREM AtMostOnce == Spec => []AtMostOneEffect
<1>1. EffectInv => AtMostOneEffect
  BY DEF EffectInv
<1> QED
  BY EffectInvariant, <1>1, PTL

-----------------------------------------------------------------------------
(* The machine implements TurnEffects. *)

LEMMA EffectsAtMostOne ==
    ASSUME TypeOK, EffectInv, NEW t \in Tasks, NEW p \in EffectsOf(t), NEW q \in EffectsOf(t)
    PROVE  p = q
BY DEF EffectInv, AtMostOneEffect, EffectsOf, EffectOf

LEMMA ClosingSimulates ==
    ASSUME TypeOK, EffectInv, Closing, NEW t \in Tasks
    PROVE  Effects!Stay(t) \/ Effects!Close(t) \/ Effects!Refuse(t)
<1>1. EffectsOf(t)' \subseteq EffectsOf(t)
  BY DEF Closing, ProcKept, EffectsOf, EffectOf, Born
<1>2. status'[t] = status[t] \/ status'[t] \in Terminal
  BY DEF Closing, StatusSettles
<1>3. CASE NoRefusal
  <2>1. EffectsOf(t)' = EffectsOf(t)
    BY <1>3 DEF NoRefusal, Closing, ProcKept, EffectsOf, EffectOf, Born
  <2> QED
    BY <1>2, <2>1 DEF Effects!Stay, Effects!Close
<1>4. CASE UNCHANGED status
  <2>1. EffectsOf(t)' = EffectsOf(t) \/ (EffectsOf(t) # {} /\ EffectsOf(t)' = {})
    BY <1>1, EffectsAtMostOne
  <2> QED
    BY <1>4, <2>1 DEF Effects!Stay, Effects!Refuse
<1> QED
  BY <1>3, <1>4 DEF Closing

LEMMA SpawnSimulates ==
    ASSUME TypeOK, EffectInv, NEW i \in Instances, NEW p \in Procs, Spawn(i, p),
           NEW t \in Tasks
    PROVE  Effects!Stay(t) \/ Effects!Fire(t)
<1> DEFINE u == lc[i].task
<1>1. /\ u \in Tasks /\ ~Fired(u) /\ ~Born(p) /\ proc'[p].st = "live"
      /\ proc'[p].task = u /\ proc'[p].auth = auth[u] /\ proc'[p].out = "none"
      /\ \A q \in Procs \ {p} : proc'[q] = proc[q]
      /\ UNCHANGED <<status, auth>>
  BY SpawnFacts
<1>2. CASE t = u
  <2>1. EffectsOf(t) = {}
    BY <1>1, <1>2 DEF Fired, EffectsOf
  <2>2. EffectsOf(t)' = {p}
    BY <1>1, <1>2 DEF Fired, EffectsOf, EffectOf, Born
  <2>3. status'[t] = status[t]
    BY <1>1
  <2> QED
    BY <2>1, <2>2, <2>3 DEF Effects!Fire
<1>3. CASE t # u
  <2>1. EffectsOf(t)' = EffectsOf(t)
    BY <1>1, <1>3 DEF EffectsOf, EffectOf, Born
  <2> QED
    BY <1>1, <2>1 DEF Effects!Stay
<1> QED
  BY <1>2, <1>3

LEMMA RetrySimulates ==
    ASSUME TypeOK, EffectInv, NEW u \in Tasks, Retry(u), NEW t \in Tasks
    PROVE  Effects!Stay(t) \/ Effects!Authorize(t)
<1>1. /\ status[u] \in Terminal /\ status'[u] = "pending"
      /\ \A v \in Tasks \ {u} : status'[v] = status[v] /\ auth'[v] = auth[v]
      /\ UNCHANGED proc /\ \A p \in Procs : ~EffectOf(p, u, auth'[u])
  BY RetryFacts
<1>2. CASE t = u
  <2>1. EffectsOf(u)' = {}
    BY <1>1 DEF EffectsOf, EffectOf, Born
  <2> QED
    BY <1>1, <1>2, <2>1 DEF Effects!Authorize, Terminal
<1>3. CASE t # u
  <2>1. EffectsOf(t)' = EffectsOf(t)
    BY <1>1, <1>3 DEF EffectsOf, EffectOf, Born
  <2> QED
    BY <1>1, <1>3, <2>1 DEF Effects!Stay
<1> QED
  BY <1>2, <1>3

\* Claims, bindings, admissions and hand-backs leave an open Task open.
LEMMA OpenSimulates ==
    ASSUME TypeOK, UNCHANGED <<auth, proc>>, NEW t \in Tasks,
           \/ status'[t] = status[t]
           \/ status'[t] \in Terminal
           \/ status[t] \notin Terminal /\ status'[t] \notin Terminal
    PROVE  Effects!Stay(t) \/ Effects!Close(t)
<1>1. EffectsOf(t)' = EffectsOf(t)
  BY DEF EffectsOf, EffectOf, Born
<1> QED
  BY <1>1 DEF Effects!Stay, Effects!Close

LEMMA StepSimulates ==
    ASSUME TypeOK, EffectInv, [Next]_vars
    PROVE  Effects!Next
<1> SUFFICES ASSUME NEW t \in Tasks
             PROVE  \/ Effects!Stay(t) \/ Effects!Fire(t) \/ Effects!Refuse(t)
                    \/ Effects!Close(t) \/ Effects!Authorize(t)
  BY DEF Effects!Next
<1> DEFINE Open == \/ status'[t] = status[t]
                   \/ status'[t] \in Terminal
                   \/ status[t] \notin Terminal /\ status'[t] \notin Terminal
<1>1. CASE Closing
  BY <1>1, ClosingSimulates
<1>2. CASE Restart
  <2>1. UNCHANGED <<auth, proc>> /\ Open
    BY <1>2, RestartFacts DEF Active, Terminal
  <2> QED
    BY <2>1, OpenSimulates
<1>3. ASSUME NEW i \in Instances,
             Requeueing(i) \/ (\E u \in Tasks : Dequeue(i, u)) \/ BindTurn(i) \/ Admit(i)
      PROVE  Effects!Stay(t) \/ Effects!Close(t)
  <2>1. UNCHANGED <<auth, proc>>
    BY <1>3 DEF Requeueing, Dequeue, BindTurn, Admit
  <2>2. Open
    <3> DEFINE u == lc[i].task
    <3>1. CASE Requeueing(i)
      <4>1. status[u] \in Active /\ status' = [status EXCEPT ![u] = "pending"]
        BY <3>1 DEF Requeueing, OwnsTurn
      <4> QED
        BY <4>1 DEF TypeOK, TaskRows, Active, Terminal
    <3>2. CASE \E v \in Tasks : Dequeue(i, v)
      <4>1. PICK v \in Tasks : Dequeue(i, v)
        BY <3>2
      <4>2. status[v] = "pending" /\ status' = [status EXCEPT ![v] = "in_progress"]
        BY <4>1 DEF Dequeue
      <4> QED
        BY <4>2 DEF TypeOK, TaskRows, Terminal, StatusSettles
    <3>3. CASE BindTurn(i)
      <4>1. status[u] = "in_progress" /\ status' = [status EXCEPT ![u] = "executing"]
        BY <3>3 DEF BindTurn, ClaimMatches
      <4> QED
        BY <4>1 DEF TypeOK, TaskRows, Terminal, StatusSettles
    <3>4. CASE Admit(i)
      BY <3>4 DEF Admit
    <3> QED
      BY <1>3, <3>1, <3>2, <3>3, <3>4
  <2> QED
    BY <2>1, <2>2, OpenSimulates
<1>4. ASSUME NEW i \in Instances, NEW p \in Procs, Spawn(i, p)
      PROVE  Effects!Stay(t) \/ Effects!Fire(t)
  BY <1>4, SpawnSimulates
<1>5. ASSUME NEW u \in Tasks, Retry(u)
      PROVE  Effects!Stay(t) \/ Effects!Authorize(t)
  BY <1>5, RetrySimulates
<1> QED
  BY StepKinds, <1>1, <1>2, <1>3, <1>4, <1>5

LEMMA InitSimulates == Init => Effects!Init
<1> SUFFICES ASSUME Init PROVE Effects!Init
  OBVIOUS
<1>1. \A t \in Tasks : EffectsOf(t) = {}
  BY DEF Init, Unborn, EffectsOf, EffectOf, Born
<1> QED
  BY <1>1 DEF Init, Effects!Init, Terminal

(***************************************************************************)
(* The Task-turn machine implements the at-most-once contract TurnEffects. *)
(***************************************************************************)
THEOREM Refinement == Spec => EffectsContract
<1>1. TypeOK /\ EffectInv /\ [Next]_vars => Effects!Next
  BY StepSimulates
<1> QED
  BY InitSimulates, TypeCorrect, EffectInvariant, <1>1, PTL
     DEF Spec, EffectsContract, Effects!Spec

-----------------------------------------------------------------------------

(***************************************************************************)
(* A terminal Task is revived by a manual retry and by nothing else.       *)
(***************************************************************************)
THEOREM TerminalIsFinal == Spec => TerminalOnlyRetried
<1> DEFINE Revives(t) == status[t] \in Terminal /\ status'[t] # status[t]
<1>1. ASSUME TypeOK, EffectInv, [Next]_vars, NEW t \in Tasks, Revives(t)
      PROVE  status'[t] = "pending" /\ auth'[t] = auth[t] + 1
  <2>1. CASE Closing
    BY <1>1, <2>1 DEF Closing, StatusSettles
  <2>2. CASE Restart
    BY <1>1, <2>2 DEF Restart, CleanedStatus, Interrupted, Active, Terminal
  <2>3. ASSUME NEW i \in Instances, Requeueing(i) PROVE FALSE
    BY <1>1, <2>3 DEF Requeueing, OwnsTurn, TypeOK, TaskRows, Active, Terminal
  <2>4. ASSUME NEW i \in Instances, NEW u \in Tasks, Dequeue(i, u) PROVE FALSE
    BY <1>1, <2>4 DEF Dequeue, TypeOK, TaskRows, Terminal
  <2>5. ASSUME NEW i \in Instances, BindTurn(i) PROVE FALSE
    BY <1>1, <2>5 DEF BindTurn, ClaimMatches, TypeOK, TaskRows, Terminal
  <2>6. ASSUME NEW i \in Instances, Admit(i) \/ (\E p \in Procs : Spawn(i, p)) PROVE FALSE
    BY <1>1, <2>6 DEF Admit, Spawn, taskVars
  <2>7. ASSUME NEW u \in Tasks, Retry(u)
        PROVE  status'[t] = "pending" /\ auth'[t] = auth[t] + 1
    BY <1>1, <2>7, RetryFacts
  <2> QED
    BY <1>1, StepKinds, <2>1, <2>2, <2>3, <2>4, <2>5, <2>6, <2>7
<1>2. TypeOK /\ EffectInv /\ [Next]_vars =>
        [\A t \in Tasks : Revives(t) =>
           status'[t] = "pending" /\ auth'[t] = auth[t] + 1]_vars
  BY <1>1
<1> QED
  BY TypeCorrect, EffectInvariant, <1>2, PTL DEF Spec, TerminalOnlyRetried
=============================================================================
