--------------------------- MODULE TaskTurnProps ---------------------------
(***************************************************************************)
(* What the Task-turn machine of TaskTurn promises.                        *)
(***************************************************************************)
EXTENDS TaskTurn

Born(p) == proc[p].st # "unborn"
\* A provider turn that may have had an effect for Task t's authorization a.
EffectOf(p, t, a) ==
    Born(p) /\ proc[p].task = t /\ proc[p].auth = a /\ proc[p].out # "rejected"
Fired(t) == \E p \in Procs : EffectOf(p, t, auth[t])

(***************************************************************************)
(* One user authorization (creating the Task, or a manual retry) starts at *)
(* most one provider turn that can have had an effect. A second turn needs *)
(* the provider's proof that it refused the first unread. This is what the *)
(* fences in _persist_actual_turn_transport, the replay-safe finalizer and *)
(* _cleanup_stale_state exist for: "automatic replay was blocked to        *)
(* prevent duplicate execution".                                           *)
(***************************************************************************)
AtMostOneEffect ==
    \A p, q \in Procs :
      /\ p # q /\ Born(p) /\ Born(q)
      /\ proc[p].task = proc[q].task /\ proc[p].auth = proc[q].auth
      => "rejected" \in {proc[p].out, proc[q].out}

(***************************************************************************)
(* A live provider process whose launch was recorded stays recorded: some  *)
(* Instance row names its pid and its Task until it is dead. Consumer,     *)
(* stop, stale reset, reverse-owner reconciliation, manual retry and       *)
(* restart quarantine all clear such rows.                                 *)
(***************************************************************************)
LiveProcessOnRecord ==
    \A p \in Procs : Live(p) /\ proc[p].rec =>
      \E i \in Instances : pid[i] = p /\ cur[i] = proc[p].task

(***************************************************************************)
(* A newer turn of a Task never runs beside an older live one, unless the  *)
(* backend died before it could record the older (dispatcher.launch:       *)
(* concurrent --resume on one session).                                    *)
(***************************************************************************)
NoOverlap ==
    \A p, q \in Procs :
      /\ Live(p) /\ Live(q) /\ proc[p].task = proc[q].task
      /\ proc[p].gen < proc[q].gen
      => ~proc[p].rec

(***************************************************************************)
(* The recorded live turns never outnumber max_concurrent_instances, also  *)
(* counting launches in flight, failed lifecycles whose process lives on,  *)
(* and processes that survived a crash.                                    *)
(***************************************************************************)
LiveWithinCap ==
    MaxConcurrent > 0 =>
      Cardinality({p \in Procs : Live(p) /\ proc[p].rec}) <= MaxConcurrent

(***************************************************************************)
(* When cancel or supersede can answer success, no recorded process of the *)
(* Task is alive: neither the one it stopped nor a launch that raced it.   *)
(***************************************************************************)
StopIsReal ==
    \A t \in Tasks :
      CancelConfirmed(t) \/ SupersedeConfirmed(t) =>
        \A p \in Procs : Live(p) /\ proc[p].rec => proc[p].task # t

(***************************************************************************)
(* Once the backend finished superseding a Task, it never starts a         *)
(* provider turn for it again.                                             *)
(***************************************************************************)
SupersededStaysDown ==
    [][\A p \in Procs :
         proc[p].st = "unborn" /\ proc'[p].st = "live" =>
           LET t == proc'[p].task
           IN  ~(superseded[t] /\ stop[t] = NoStop /\ status[t] = "completed")]_vars

(***************************************************************************)
(* A terminal Task is revived by the user's manual retry and by nothing    *)
(* else: no late lifecycle, consumer, stop or restart reopens it.          *)
(***************************************************************************)
TerminalOnlyRetried ==
    [][\A t \in Tasks :
         status[t] \in Terminal /\ status'[t] # status[t] =>
           status'[t] = "pending" /\ auth'[t] = auth[t] + 1]_vars

(***************************************************************************)
(* A lifecycle whose turn generation or retry is no longer the Task's own  *)
(* leaves the Task row alone (_task_lifecycle_stable_predicates).          *)
(***************************************************************************)
StaleLifecycleSilent ==
    [][\A i \in Instances :
         LET t == lc[i].task
         IN  /\ t # NoTask /\ lc'[i] # lc[i]
             /\ gen[t] # lc[i].gen \/ retry[t] # lc[i].retry
             => /\ status'[t] = status[t] /\ inst'[t] = inst[t]
                /\ sent'[t] = sent[t]]_vars

(***************************************************************************)
(* A Task completes, unless superseded, only when the provider process of  *)
(* its very turn has ended cleanly or was interrupted.                     *)
(***************************************************************************)
CompletedTurnEnded ==
    [][\A t \in Tasks :
         status[t] # "completed" /\ status'[t] = "completed" /\ ~superseded[t] =>
           \E p \in Procs : /\ proc[p].task = t /\ proc[p].gen = gen[t]
                            /\ Dead(p) /\ proc[p].out \in {"ok", "interrupt"}]_vars

-----------------------------------------------------------------------------
(* The at-most-once contract the detailed machine implements. *)

EffectsOf(t) == {p \in Procs : EffectOf(p, t, auth[t])}
Effects == INSTANCE TurnEffects WITH
    Turns   <- Procs,
    open    <- [t \in Tasks |-> status[t] \notin Terminal],
    effects <- [t \in Tasks |-> EffectsOf(t)]

(***************************************************************************)
(* Every behaviour of the Task-turn machine is one of TurnEffects: a turn  *)
(* fires at most once per authorization, a refusal alone takes that back,  *)
(* and a closed Task is reopened only by an authorization that has no      *)
(* effect yet (retry leaves no old launch behind that could still fire).   *)
(***************************************************************************)
EffectsContract == Effects!Spec

-----------------------------------------------------------------------------
(* Why one authorization fires at most once: the inductive invariant. *)

ProvenSent(t) == source[t] = gen[t] /\ sent[t]

\* A dead backend has no coroutine.
DownIsEmpty == mode = "down" => \A i \in Instances : lc[i] = NoLc
\* Lifecycles carry a generation that was opened, and each a different one.
LcOpened == \A i \in Instances : HasTask(lc[i]) =>
    lc[i].gen \in 1 .. gen[lc[i].task]
LcUnique == \A i, j \in Instances :
    HasTask(lc[i]) /\ HasTask(lc[j]) /\ lc[i].task = lc[j].task /\ lc[i].gen = lc[j].gen => i = j
\* The lifecycle of a Task's current generation sits on the Task's slot.
LcPlaced == \A i \in Instances :
    /\ HasTask(lc[i]) /\ lc[i].gen = gen[lc[i].task] /\ status[lc[i].task] \in Active
    => inst[lc[i].task] = i
ClaimUnbound == \A t \in Tasks : status[t] = "in_progress" => source[t] = 0
ProcSane == \A p \in Procs : Born(p) =>
    /\ proc[p].task \in Tasks /\ proc[p].auth <= auth[proc[p].task]
    /\ proc[p].st = "live" => proc[p].out = "none"
\* A Task that may still be launched has had no effect yet.
LaunchableUnfired == \A t \in Tasks :
    status[t] = "pending" \/ (status[t] \in Active /\ ~ProvenSent(t)) => ~Fired(t)
\* A launch past admission is the current turn's, and its proof is durable.
LaunchCurrent == \A i \in Instances : LaunchHoldsLock(i) =>
    LET t == lc[i].task
    IN  /\ lc[i].gen = gen[t] /\ inst[t] = i
        /\ status[t] # "pending" /\ ProvenSent(t)
SpawnUnfired == \A i \in Instances : lc[i].pc = "spawn" => ~Fired(lc[i].task)
\* While a current lifecycle has a process, no other process counts.
SoleProcess == \A i \in Instances : lc[i].pc \in {"track", "wait"} =>
    LET t == lc[i].task
    IN  /\ lc[i].pid \in Procs /\ Born(lc[i].pid)
        /\ lc[i].gen = gen[t] =>
             \A q \in Procs : EffectOf(q, t, auth[t]) => q = lc[i].pid

(***************************************************************************)
(* The inductive invariant behind AtMostOneEffect and EffectsContract: a   *)
(* Task that can still be claimed or admitted has had no effect, and a     *)
(* launch past admission is the only one of its Task's current turn.       *)
(***************************************************************************)
EffectInv ==
    /\ DownIsEmpty /\ LcOpened /\ LcUnique /\ LcPlaced /\ ClaimUnbound /\ ProcSane
    /\ LaunchableUnfired /\ LaunchCurrent /\ SpawnUnfired /\ SoleProcess
    /\ AtMostOneEffect

-----------------------------------------------------------------------------
(* Why slots, processes and stops agree: a second inductive invariant. *)

Starting(i) == lc[i].pc \in {"reserved", "claimed", "launch", "spawn", "track"}

\* The slot of a turn that was not published yet names no owner and no process.
StartingSlotEmpty == \A i \in Instances :
    Starting(i) => cur[i] = NoTask /\ pid[i] = NoProc
\* A launch under the lifecycle lock excludes a stop that has signalled.
LockExcludesStop == \A i \in Instances : LaunchHoldsLock(i) => ~Stopping(i)
\* Rows and runtime evidence name processes that were spawned.
EvidenceBorn == \A i \in Instances, p \in Procs : p \in {pid[i], managed[i]} => Born(p)
\* A lifecycle's process runs the very turn of the lifecycle, under its evidence.
TurnOfProcess == \A i \in Instances : lc[i].pc \in {"track", "wait"} =>
    LET p == lc[i].pid
    IN  /\ proc[p].task = lc[i].task /\ proc[p].gen = lc[i].gen
        /\ lc[i].pc = "track" => managed[i] = p /\ proc[p].auth = auth[lc[i].task]
\* What a stop has signalled is dead, and it looks at one process per slot.
StopFindsDead == \A t \in Tasks :
    /\ \A x, y \in stop[t].todo : x[1] = y[1] => x = y
    /\ stop[t].at # NoInst =>
         /\ ~Live(managed[stop[t].at])
         /\ \A x \in stop[t].todo : x[1] = stop[t].at => Dead(x[2])
\* A slot that runs a live process has the evidence of it.
RunningManaged == \A i \in Instances :
    mode # "down" /\ istat[i] = "running" /\ Live(pid[i]) => managed[i] = pid[i]
\* Of two turns the newer one has the newer authorization, and the recorded live
\* turn has the newest.
TurnsOrdered == \A p \in Procs : Born(p) =>
    /\ proc[p].gen <= gen[proc[p].task]
    /\ Live(p) /\ proc[p].rec => proc[p].auth = auth[proc[p].task]
    /\ \A q \in Procs :
         Born(q) /\ proc[q].task = proc[p].task /\ proc[p].gen < proc[q].gen
         => proc[p].auth <= proc[q].auth
\* Only a marked Task is being superseded.
SupersedeMarked == \A t \in Tasks :
    /\ stop[t].kind = "supersede" => superseded[t]
    /\ stop[t].kind = "none" => stop[t].todo = {} /\ stop[t].at = NoInst
\* While a turn of a Task is launched, nothing completes it: a stop that settles
\* has the lifecycle lock, and supersede gives up when it cannot get it.
LaunchNotCompleted == \A i \in Instances :
    LaunchHoldsLock(i) => status[lc[i].task] # "completed"
\* The slot a Task names holds no lifecycle of an older turn of it.
ClaimOfSlot == \A i \in Instances :
    IF HasTask(lc[i]) THEN inst[lc[i].task] = i => lc[i].gen = gen[lc[i].task]
    ELSE lc[i].task = NoTask

(***************************************************************************)
(* The invariant behind LiveProcessOnRecord, NoOverlap, StopIsReal and the *)
(* action properties of lifecycles, inductive together with EffectInv.     *)
(***************************************************************************)
SlotInv ==
    /\ StartingSlotEmpty /\ LockExcludesStop /\ EvidenceBorn /\ TurnOfProcess
    /\ StopFindsDead /\ RunningManaged /\ TurnsOrdered
    /\ SupersedeMarked /\ LaunchNotCompleted /\ ClaimOfSlot
    /\ LiveProcessOnRecord

\* A slot that counts against the cap; the invariant behind LiveWithinCap.
Used(i) == ActiveCapacity(i) \/ Busy(i)
UsedWithinCap ==
    MaxConcurrent > 0 => Cardinality({i \in Instances : Used(i)}) <= MaxConcurrent

-----------------------------------------------------------------------------
(* Liveness. A launch ends one way or another; the turn timeout ends every *)
(* process; the supervisor restarts a dead backend. Nothing is assumed of  *)
(* faults, of the user, or of the claim of pending Tasks.                  *)

LifecycleProgress(i) ==
    \/ ReleaseReservation(i) \/ BindTurn(i) \/ BindSuperseded(i)
    \/ LaunchAbandoned(i) \/ LaunchDeferred(i) \/ LaunchFails(i) \/ Admit(i)
    \/ \E p \in Procs : Spawn(i, p)
    \/ Track(i) \/ TrackAborted(i) \/ TrackAbortUnconfirmed(i)
    \/ JudgeCompleted(i) \/ JudgeError(i)
    \/ JudgeRejected(i) \/ JudgeRejectedFails(i)
    \/ ExitReset(i) \/ Reconcile(i)

FairSpec ==
    /\ Spec
    /\ \A i \in Instances :
         /\ WF_vars(LifecycleProgress(i))
         /\ SF_vars(ConsumerRelease(i))
         /\ SF_vars(ExitReset(i)) /\ SF_vars(Reconcile(i))
    /\ \A p \in Procs : WF_vars(ProcEnds(p))
    /\ \A t \in Tasks : WF_vars(StopStep(t))
    /\ WF_vars(Restart)

(***************************************************************************)
(* No Task stays claimed for ever: every turn that was claimed ends in a   *)
(* terminal status or back in the queue, also across crashes. A superseded *)
(* Task is left to the supersede request, which is repeated until it       *)
(* succeeds: its lifecycle no longer writes, and the clean-up of a restart *)
(* does not release an unlaunched first turn that carries the marker.      *)
(***************************************************************************)
ActiveSettles ==
    \A t \in Tasks :
      status[t] \in Active ~> status[t] \notin Active \/ superseded[t]

(***************************************************************************)
(* No slot stays "running" for ever after its process has ended.           *)
(***************************************************************************)
RunningSlotReleased ==
    \A i \in Instances : istat[i] = "running" ~> istat[i] # "running"
=============================================================================
