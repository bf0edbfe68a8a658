------------------------------ MODULE TaskTurn ------------------------------
(***************************************************************************)
(* The life of one local Task turn in the CC-Manager backend: the claim of *)
(* a pending Task for a reserved Instance slot (dispatcher, task_queue),   *)
(* the binding of its turn source, the admission, spawn and tracking of    *)
(* the provider process (instance_manager), the judgement of its exit, the *)
(* release of the slot, cancel, supersede and manual retry (api/tasks,     *)
(* task_termination), a backend crash and the start-up clean-up.           *)
(*                                                                         *)
(* One action is one database transaction, or one stretch of a coroutine   *)
(* between two points where another coroutine can be scheduled.            *)
(***************************************************************************)
EXTENDS Integers, FiniteSets

CONSTANTS
    Tasks,          \* rows of the task table
    Reviews,        \* the PR-review Tasks: only these are ever superseded
    Instances,      \* rows of the instance table: the reusable slots
    Procs,          \* OS process identities (pid + start time, never reused)
    NoTask, NoInst, NoProc,     \* NULL in the three reference columns
    MaxConcurrent,  \* settings.max_concurrent_instances; 0 is "no cap"
    MinIdle,        \* settings.min_idle_instances
    MaxRetries,     \* Task.max_retries
    MaxGen,         \* bound: turn generations of one Task
    MaxAuth,        \* bound: user authorizations (creation, manual retries)
    MaxCrash,       \* bound: crashes of the backend
    Faults          \* whether a lifecycle may die without its terminal write

ASSUME NullAssumption ==
    /\ NoTask \notin Tasks /\ NoInst \notin Instances /\ NoProc \notin Procs
    /\ Reviews \subseteq Tasks

ASSUME BoundAssumption ==
    /\ {MaxConcurrent, MinIdle, MaxRetries, MaxGen, MaxAuth, MaxCrash} \subseteq Nat
    /\ Faults \in BOOLEAN

VARIABLES
    \* Task rows
    status,     \* Task.status
    retry,      \* Task.retry_count
    gen,        \* Task.turn_generation
    inst,       \* Task.instance_id
    source,     \* generation named by the row at turn_source_log_id; 0: NULL
    sent,       \* that row's actual_transport is set: the provider may have run
    superseded, \* the pr_review_superseded marker of Task.metadata_
    \* Instance rows
    istat,      \* Instance.status
    cur,        \* Instance.current_task_id
    pid,        \* Instance.pid and process_identity
    \* memory of the backend process
    lc,         \* the lifecycle coroutine or reservation that occupies a slot
    managed,    \* the process InstanceManager still holds runtime evidence of
    stop,       \* the cancel or supersede operation in flight for a Task
    mode,       \* the backend itself
    crashes,
    \* the operating system
    proc,
    \* history, read by properties only
    auth        \* how often the user has asked for the Task to run

taskVars == <<status, retry, gen, inst, source, sent, superseded, auth>>
instVars == <<istat, cur, pid>>
memVars  == <<lc, managed, stop>>
sysVars  == <<mode, crashes>>
vars     == <<taskVars, instVars, memVars, sysVars, proc>>

Active   == {"in_progress", "executing"}
Terminal == {"completed", "failed", "cancelled"}

\* A lifecycle at "launch", "spawn", "track" or "wait" has validated its claim.
LcPc == {"none", "reserved", "claimed", "launch", "spawn", "track", "wait",
         "exit", "reconcile"}
NoLc   == [pc |-> "none", task |-> NoTask, gen |-> 0, retry |-> 0, pid |-> NoProc]
NoStop == [kind |-> "none", todo |-> {}, at |-> NoInst, was |-> "pending",
           gen |-> 0, retry |-> 0, inst |-> NoInst]
Unborn == [st |-> "unborn", task |-> NoTask, gen |-> 0, auth |-> 0,
           out |-> "none", rec |-> FALSE]

Statuses == {"pending"} \cup Active \cup Terminal
TaskRows ==
    /\ status \in [Tasks -> Statuses]
    /\ retry \in [Tasks -> Nat] /\ gen \in [Tasks -> Nat]
    /\ inst \in [Tasks -> Instances \cup {NoInst}]
    /\ source \in [Tasks -> Nat] /\ sent \in [Tasks -> BOOLEAN]
    /\ superseded \in [Tasks -> BOOLEAN] /\ auth \in [Tasks -> Nat]
InstanceRows ==
    /\ istat \in [Instances -> {"idle", "running", "error"}]
    /\ cur \in [Instances -> Tasks \cup {NoTask}]
    /\ pid \in [Instances -> Procs \cup {NoProc}]
HasTask(r) == r.pc \notin {"none", "reserved"}
LcRow == {r \in [pc : LcPc, task : Tasks \cup {NoTask}, gen : Nat, retry : Nat,
                 pid : Procs \cup {NoProc}] : HasTask(r) => r.task \in Tasks}
StopRow == [kind : {"none", "cancel", "supersede"},
            todo : SUBSET (Instances \X (Procs \cup {NoProc})),
            at : Instances \cup {NoInst}, was : Statuses,
            gen : Nat, retry : Nat, inst : Instances \cup {NoInst}]
ProcRow == [st : {"unborn", "live", "dead"}, task : Tasks \cup {NoTask},
            gen : Nat, auth : Nat,
            out : {"none", "ok", "error", "interrupt", "rejected"}, rec : BOOLEAN]

TypeOK ==
    /\ TaskRows /\ InstanceRows
    /\ lc \in [Instances -> LcRow]
    /\ managed \in [Instances -> Procs \cup {NoProc}]
    /\ stop \in [Tasks -> StopRow]
    /\ mode \in {"up", "stopping", "down"} /\ crashes \in Nat
    /\ proc \in [Procs -> ProcRow]

Init ==
    /\ status = [t \in Tasks |-> "pending"]
    /\ retry = [t \in Tasks |-> 0] /\ gen = [t \in Tasks |-> 0]
    /\ inst = [t \in Tasks |-> NoInst]
    /\ source = [t \in Tasks |-> 0] /\ sent = [t \in Tasks |-> FALSE]
    /\ superseded = [t \in Tasks |-> FALSE]
    /\ istat = [i \in Instances |-> "idle"]
    /\ cur = [i \in Instances |-> NoTask] /\ pid = [i \in Instances |-> NoProc]
    /\ lc = [i \in Instances |-> NoLc]
    /\ managed = [i \in Instances |-> NoProc]
    /\ stop = [t \in Tasks |-> NoStop]
    /\ mode = "up" /\ crashes = 0
    /\ proc = [p \in Procs |-> Unborn]
    /\ auth = [t \in Tasks |-> 1]

-----------------------------------------------------------------------------
(* Predicates the code builds its guards and CAS conditions from. *)

Live(p) == p # NoProc /\ proc[p].st = "live"
Dead(p) == p # NoProc /\ proc[p].st = "dead"
Owners(t) == {i \in Instances : cur[i] = t}

ReusableIdle(i) == istat[i] = "idle" /\ pid[i] = NoProc /\ cur[i] = NoTask
ActiveCapacity(i) == istat[i] = "running" \/ pid[i] # NoProc \/ cur[i] # NoTask
OccupiesSlot(i) == istat[i] = "idle" \/ ActiveCapacity(i)
Busy(i) == lc[i].pc # "none"

IsRunning(i) == managed[i] # NoProc
Stopping(i) == \E t \in Tasks : stop[t].at = i
\* The per-Instance lifecycle lock is held from admission until tracking is over.
LaunchHoldsLock(i) == lc[i].pc \in {"spawn", "track"}

\* Mutant: the CAS of a lifecycle forgets generation, retry and slot.
SameGenerationDropped(i) == ~superseded[lc[i].task]

\* The lifecycle's exact generation: the predicates every CAS of it repeats.
SameGeneration(i) ==
    LET t == lc[i].task
    IN  /\ retry[t] = lc[i].retry /\ gen[t] = lc[i].gen
        /\ inst[t] = i /\ ~superseded[t]
OwnsTurn(i) == status[lc[i].task] \in Active /\ SameGeneration(i)

\* Mutant: a bound source counts as unread though its transport is recorded.
ReplaySafeIgnoresTransport(t, allowUnbound) ==
    (allowUnbound /\ source[t] = 0) \/ (source[t] = gen[t] /\ gen[t] > 0)

\* Whether no provider can have seen the turn.
ReplaySafe(t, allowUnbound) ==
    \/ allowUnbound /\ source[t] = 0
    \/ source[t] = gen[t] /\ gen[t] > 0 /\ ~sent[t]

Goto(i, where) == lc' = [lc EXCEPT ![i].pc = where]
ClearSlot(i, s) ==
    /\ istat' = [istat EXCEPT ![i] = s]
    /\ cur' = [cur EXCEPT ![i] = NoTask]
    /\ pid' = [pid EXCEPT ![i] = NoProc]

-----------------------------------------------------------------------------
(* Writers of the Task row that a lifecycle reaches from several places. *)

\* A claim that still owns its turn fails the Task; a superseded one is silent.
FailOwned(i) ==
    /\ status' = IF OwnsTurn(i) THEN [status EXCEPT ![lc[i].task] = "failed"]
                 ELSE status
    /\ UNCHANGED <<retry, gen, inst, source, sent, superseded, auth>>

\* Hand the turn back for replay when that is provably safe and the user it runs
\* as is still active, else fail it.
Finalize(i, allowUnbound, consume) ==
    LET t == lc[i].task
        replay == /\ ReplaySafe(t, allowUnbound)
                  /\ consume => retry[t] < MaxRetries
    IN  /\ \/ /\ ~OwnsTurn(i)
              /\ UNCHANGED <<status, inst, retry>>
           \/ /\ OwnsTurn(i) /\ replay
              /\ status' = [status EXCEPT ![t] = "pending"]
              /\ inst' = [inst EXCEPT ![t] = NoInst]
              /\ retry' = [retry EXCEPT ![t] = IF consume THEN @ + 1 ELSE @]
           \/ /\ OwnsTurn(i)
              /\ status' = [status EXCEPT ![t] = "failed"]
              /\ UNCHANGED <<inst, retry>>
        /\ UNCHANGED <<gen, source, sent, superseded, auth>>

-----------------------------------------------------------------------------
(* Reserving a slot and claiming a Task. *)

\* Terminal error rows free the cap; the new row takes over a cleared identity.
EnsureIdle(i) ==
    /\ mode = "up"
    /\ ~OccupiesSlot(i) /\ ~Busy(i) /\ ~IsRunning(i) /\ ~Stopping(i)
    /\ Cardinality({j \in Instances : ReusableIdle(j)}) < MinIdle
    /\ MaxConcurrent > 0 =>
         Cardinality({j \in Instances : OccupiesSlot(j)}) < MaxConcurrent
    /\ istat' = [istat EXCEPT ![i] = "idle"]
    /\ UNCHANGED <<taskVars, cur, pid, memVars, sysVars, proc>>

\* Mutant: the cap counts the published slots, not the launches on their way.
ReserveCountsRowsOnly(i) ==
    /\ mode = "up"
    /\ ReusableIdle(i) /\ ~Busy(i)
    /\ MaxConcurrent > 0 =>
         Cardinality({j \in Instances : ActiveCapacity(j)}) < MaxConcurrent
    /\ Goto(i, "reserved")
    /\ UNCHANGED <<taskVars, instVars, managed, stop, sysVars, proc>>

Reserve(i) ==
    /\ mode = "up"
    /\ ReusableIdle(i) /\ ~Busy(i)
    /\ MaxConcurrent > 0 =>
         Cardinality({j \in Instances : ActiveCapacity(j) \/ Busy(j)}) < MaxConcurrent
    /\ Goto(i, "reserved")
    /\ UNCHANGED <<taskVars, instVars, managed, stop, sysVars, proc>>

ReleaseReservation(i) ==
    /\ lc[i].pc = "reserved"
    /\ lc' = [lc EXCEPT ![i] = NoLc]
    /\ UNCHANGED <<taskVars, instVars, managed, stop, sysVars, proc>>

\* One compare-and-swap claims the Task and opens its next turn generation.
Dequeue(i, t) ==
    /\ lc[i].pc = "reserved"
    /\ status[t] = "pending" /\ ~superseded[t]
    /\ gen[t] < MaxGen
    /\ status' = [status EXCEPT ![t] = "in_progress"]
    /\ gen' = [gen EXCEPT ![t] = @ + 1]
    /\ inst' = [inst EXCEPT ![t] = i]
    /\ source' = [source EXCEPT ![t] = 0]
    /\ sent' = [sent EXCEPT ![t] = FALSE]
    /\ lc' = [lc EXCEPT ![i] = [pc |-> "claimed", task |-> t, gen |-> gen'[t],
                                retry |-> retry[t], pid |-> NoProc]]
    /\ UNCHANGED <<retry, superseded, auth, instVars, managed, stop, sysVars, proc>>

\* Project preparation failed or was cancelled before a lifecycle existed.
PrepareFails(i) ==
    /\ lc[i].pc = "claimed"
    /\ Finalize(i, TRUE, FALSE)
    /\ lc' = [lc EXCEPT ![i] = NoLc]
    /\ UNCHANGED <<instVars, managed, stop, sysVars, proc>>

-----------------------------------------------------------------------------
(* The lifecycle up to the provider process. *)

\* The executing CAS compares retry and slot, not the generation it re-reads.
ClaimMatches(i) ==
    LET t == lc[i].task
    IN  /\ status[t] = "in_progress" /\ retry[t] = lc[i].retry
        /\ inst[t] = i /\ ~superseded[t]

\* in_progress -> executing, with a fresh turn source bound to the generation.
BindTurn(i) ==
    LET t == lc[i].task
    IN  /\ lc[i].pc = "claimed" /\ ClaimMatches(i)
        /\ status' = [status EXCEPT ![t] = "executing"]
        /\ source' = [source EXCEPT ![t] = gen[t]]
        /\ sent' = [sent EXCEPT ![t] = FALSE]
        /\ lc' = [lc EXCEPT ![i].pc = "launch", ![i].gen = gen[t]]
        /\ UNCHANGED <<retry, gen, inst, superseded, auth, instVars, managed,
                       stop, sysVars, proc>>

BindSuperseded(i) ==
    /\ lc[i].pc = "claimed" /\ ~ClaimMatches(i)
    /\ lc' = [lc EXCEPT ![i] = NoLc]
    /\ UNCHANGED <<taskVars, instVars, managed, stop, sysVars, proc>>

\* The claim is re-read after account resolution and found superseded.
LaunchAbandoned(i) ==
    /\ lc[i].pc = "launch" /\ ~OwnsTurn(i)
    /\ Goto(i, "exit")
    /\ UNCHANGED <<taskVars, instVars, managed, stop, sysVars, proc>>

\* Account routing, a busy app-server, a slot still occupied or being stopped.
LaunchDeferred(i) ==
    /\ lc[i].pc \in {"launch", "spawn"}
    /\ Finalize(i, FALSE, FALSE)
    /\ Goto(i, "exit")
    /\ UNCHANGED <<instVars, managed, stop, sysVars, proc>>

\* Any other error of launch, the LaunchSupersededError of admission included.
LaunchFails(i) ==
    /\ lc[i].pc \in {"launch", "spawn"}
    /\ FailOwned(i)
    /\ Goto(i, "exit")
    /\ UNCHANGED <<instVars, managed, stop, sysVars, proc>>

\* The last durable write before the provider: which transport runs the turn.
Admit(i) ==
    LET t == lc[i].task
    IN  /\ lc[i].pc = "launch"
        /\ ~Stopping(i) /\ ~IsRunning(i)
        /\ OwnsTurn(i) /\ cur[i] \in {NoTask, t}
        /\ source[t] = gen[t] /\ ~sent[t]
        /\ sent' = [sent EXCEPT ![t] = TRUE]
        /\ Goto(i, "spawn")
        /\ UNCHANGED <<status, retry, gen, inst, source, superseded, auth,
                       instVars, managed, stop, sysVars, proc>>

\* From here on the provider acts, whatever the database says of it.
Spawn(i, p) ==
    LET t == lc[i].task
    IN  /\ lc[i].pc = "spawn" /\ proc[p].st = "unborn"
        /\ proc' = [proc EXCEPT ![p] = [st |-> "live", task |-> t,
                      gen |-> lc[i].gen, auth |-> auth[t], out |-> "none",
                      rec |-> FALSE]]
        /\ managed' = [managed EXCEPT ![i] = p]
        /\ lc' = [lc EXCEPT ![i].pc = "track", ![i].pid = p]
        /\ UNCHANGED <<taskVars, instVars, stop, sysVars>>

\* The Task still owns the turn: publish pid and owner, install the consumer.
Track(i) ==
    LET p == lc[i].pid
    IN  /\ lc[i].pc = "track" /\ OwnsTurn(i)
        /\ istat' = [istat EXCEPT ![i] = "running"]
        /\ cur' = [cur EXCEPT ![i] = lc[i].task]
        /\ pid' = [pid EXCEPT ![i] = p]
        /\ proc' = [proc EXCEPT ![p].rec = TRUE]
        /\ Goto(i, "wait")
        /\ UNCHANGED <<taskVars, managed, stop, sysVars>>

\* Tracking failed or was superseded: the process tree is killed and reaped.
TrackAborted(i) ==
    LET p == lc[i].pid
    IN  /\ lc[i].pc = "track"
        /\ proc' = IF Live(p) THEN [proc EXCEPT ![p].st = "dead", ![p].out = "error"]
                   ELSE proc
        /\ managed' = [managed EXCEPT ![i] = NoProc]
        /\ FailOwned(i)
        /\ Goto(i, "exit")
        /\ UNCHANGED <<instVars, stop, sysVars>>

\* As above, but the tree survives SIGKILL: the slot keeps pid and owner.
TrackAbortUnconfirmed(i) ==
    LET p == lc[i].pid
    IN  /\ lc[i].pc = "track" /\ Live(p)
        /\ istat' = [istat EXCEPT ![i] = "error"]
        /\ cur' = [cur EXCEPT ![i] = lc[i].task]
        /\ pid' = [pid EXCEPT ![i] = p]
        /\ proc' = [proc EXCEPT ![p].rec = TRUE]
        /\ FailOwned(i)
        /\ Goto(i, "exit")
        /\ UNCHANGED <<managed, stop, sysVars>>

-----------------------------------------------------------------------------
(* The process, its output consumer, and the lifecycle's judgement. *)

\* By itself, or killed by the turn timeout (out = "error"). "rejected" is the
\* provider's proof that the prompt was refused before any activity.
ProcExit(p, out) ==
    /\ Live(p)
    /\ out \in {"ok", "error", "interrupt", "rejected"}
    /\ proc' = [proc EXCEPT ![p].st = "dead", ![p].out = out]
    /\ UNCHANGED <<taskVars, instVars, memVars, sysVars>>

\* Terminal bookkeeping: release the slot of exactly this process. A slot that
\* TrackAbortUnconfirmed left in "error" has no consumer; it keeps its owner.
ConsumerRelease(i) ==
    LET p == managed[i]
    IN  /\ Dead(p) /\ ~Stopping(i) /\ lc[i].pc # "track"
        /\ managed' = [managed EXCEPT ![i] = NoProc]
        /\ IF pid[i] = p /\ cur[i] = proc[p].task /\ istat[i] = "running"
           THEN ClearSlot(i, IF proc[p].out \in {"ok", "interrupt"}
                             THEN "idle" ELSE "error")
           ELSE UNCHANGED instVars
        /\ UNCHANGED <<taskVars, lc, stop, sysVars, proc>>

\* Mutant: any exit of the process completes the turn.
JudgeCompletedOnAnyExit(i) ==
    /\ lc[i].pc = "wait" /\ Dead(lc[i].pid)
    /\ status' = IF OwnsTurn(i) THEN [status EXCEPT ![lc[i].task] = "completed"]
                 ELSE status
    /\ Goto(i, "exit")
    /\ UNCHANGED <<retry, gen, inst, source, sent, superseded, auth,
                   instVars, managed, stop, sysVars, proc>>

\* A clean exit or a user interrupt completes the turn.
JudgeCompleted(i) ==
    LET t == lc[i].task
    IN  /\ lc[i].pc = "wait" /\ Dead(lc[i].pid)
        /\ proc[lc[i].pid].out \in {"ok", "interrupt"}
        /\ status' = IF OwnsTurn(i) THEN [status EXCEPT ![t] = "completed"]
                     ELSE status
        /\ Goto(i, "exit")
        /\ UNCHANGED <<retry, gen, inst, source, sent, superseded, auth,
                       instVars, managed, stop, sysVars, proc>>

\* An error exit is retried only when no transport was ever recorded.
JudgeError(i) ==
    /\ lc[i].pc = "wait" /\ Dead(lc[i].pid) /\ proc[lc[i].pid].out = "error"
    /\ Finalize(i, FALSE, TRUE)
    /\ Goto(i, "exit")
    /\ UNCHANGED <<instVars, managed, stop, sysVars, proc>>

\* Mutant: after the compaction the claim is not compared again.
JudgeRejectedUnchecked(i) ==
    LET t == lc[i].task
    IN  /\ lc[i].pc = "wait" /\ Dead(lc[i].pid)
        /\ proc[lc[i].pid].out = "rejected"
        /\ status' = [status EXCEPT ![t] = "pending"]
        /\ inst' = [inst EXCEPT ![t] = NoInst]
        /\ Goto(i, "exit")
        /\ UNCHANGED <<retry, gen, source, sent, superseded, auth, instVars,
                       managed, stop, sysVars, proc>>

\* The context was refused unread: compact the session and queue the Task anew.
JudgeRejected(i) ==
    LET t == lc[i].task
    IN  /\ lc[i].pc = "wait" /\ Dead(lc[i].pid)
        /\ proc[lc[i].pid].out = "rejected"
        /\ OwnsTurn(i)
        /\ status' = [status EXCEPT ![t] = "pending"]
        /\ inst' = [inst EXCEPT ![t] = NoInst]
        /\ Goto(i, "exit")
        /\ UNCHANGED <<retry, gen, source, sent, superseded, auth, instVars,
                       managed, stop, sysVars, proc>>

\* Compaction failed, or the turn's permit is stale.
JudgeRejectedFails(i) ==
    /\ lc[i].pc = "wait" /\ Dead(lc[i].pid) /\ proc[lc[i].pid].out = "rejected"
    /\ FailOwned(i)
    /\ Goto(i, "exit")
    /\ UNCHANGED <<instVars, managed, stop, sysVars, proc>>

\* An error while waiting, or a timeout whose kill could not be confirmed.
WaitFails(i) ==
    /\ lc[i].pc = "wait"
    /\ FailOwned(i)
    /\ Goto(i, "exit")
    /\ UNCHANGED <<instVars, managed, stop, sysVars, proc>>

\* The database refuses the terminal write too: the coroutine ends without one.
LifecycleDies(i) ==
    /\ Faults
    /\ lc[i].pc \in {"launch", "wait"}
    /\ Goto(i, "exit")
    /\ UNCHANGED <<taskVars, instVars, managed, stop, sysVars, proc>>

-----------------------------------------------------------------------------
(* The lifecycle's finally block. *)

\* Release the slot of an ended turn that nobody settled, and fail its Task.
ExitReset(i) ==
    LET t == lc[i].task
    IN  /\ lc[i].pc = "exit" /\ ~Stopping(i)
        /\ Goto(i, "reconcile")
        /\ IF /\ ~IsRunning(i) /\ SameGeneration(i)
              /\ cur[i] \in {NoTask, t} /\ istat[i] = "running"
           THEN FailOwned(i) /\ ClearSlot(i, "idle")
           ELSE UNCHANGED <<taskVars, instVars>>
        /\ UNCHANGED <<managed, stop, sysVars, proc>>

\* A slot whose Task has moved on and whose process is gone beyond doubt.
StaleOwner(j, t) == cur[j] = t /\ inst[t] # j /\ Dead(pid[j])
DeadReverseOwner(j, t) == StaleOwner(j, t) /\ ~IsRunning(j)

\* Clear such slots under their lifecycle locks, then leave _running_tasks.
Reconcile(i) ==
    LET t == lc[i].task
        stale == IF status[t] \in Active /\ inst[t] = NoInst THEN {}
                 ELSE {j \in Instances : DeadReverseOwner(j, t)}
    IN  /\ lc[i].pc = "reconcile"
        /\ \A j \in Owners(t) \ {inst[t]} : ~Stopping(j) /\ ~LaunchHoldsLock(j)
        /\ istat' = [j \in Instances |-> IF j \in stale THEN "idle" ELSE istat[j]]
        /\ cur' = [j \in Instances |-> IF j \in stale THEN NoTask ELSE cur[j]]
        /\ pid' = [j \in Instances |-> IF j \in stale THEN NoProc ELSE pid[j]]
        /\ lc' = [lc EXCEPT ![i] = NoLc]
        /\ UNCHANGED <<taskVars, managed, stop, sysVars, proc>>

-----------------------------------------------------------------------------
(* Cancel (api/tasks) and supersede (task_termination). *)

Snapshot(t, kind, owners) ==
    [kind |-> kind, todo |-> {<<i, pid[i]>> : i \in owners}, at |-> NoInst,
     was |-> status[t], gen |-> gen[t], retry |-> retry[t], inst |-> inst[t]]

\* Without an owner row the cancel is a single compare-and-swap.
CancelOwnerless(t) ==
    /\ mode # "down"
    /\ status[t] \in {"pending"} \cup Active
    /\ Owners(t) = {}
    /\ status' = [status EXCEPT ![t] = "cancelled"]
    /\ UNCHANGED <<retry, gen, inst, source, sent, superseded, auth, instVars,
                   memVars, sysVars, proc>>

\* With owner rows it snapshots them, commits, and goes to stop each one.
CancelBegin(t) ==
    /\ mode # "down" /\ stop[t] = NoStop
    /\ status[t] \in {"pending", "cancelled"} \cup Active
    /\ Owners(t) # {}
    /\ stop' = [stop EXCEPT ![t] = Snapshot(t, "cancel", Owners(t))]
    /\ UNCHANGED <<taskVars, instVars, lc, managed, sysVars, proc>>

\* Marker and owner snapshot commit together; several owners are a conflict.
SupersedeBegin(t) ==
    /\ t \in Reviews
    /\ mode # "down" /\ stop[t] = NoStop
    /\ superseded' = [superseded EXCEPT ![t] = TRUE]
    /\ stop' = IF Cardinality(Owners(t)) > 1 THEN stop
               ELSE [stop EXCEPT ![t] = Snapshot(t, "supersede", Owners(t))]
    /\ UNCHANGED <<status, retry, gen, inst, source, sent, auth, instVars, lc,
                   managed, sysVars, proc>>

\* InstanceManager.stop signals only the very turn the snapshot names.
ExactTurn(t, i, p) ==
    managed[i] = p /\ p # NoProc /\ proc[p].task = t /\ proc[p].gen = stop[t].gen

CanStop(t, i, p) ==
    /\ stop[t].at = NoInst /\ <<i, p>> \in stop[t].todo
    /\ ~Stopping(i) /\ ~LaunchHoldsLock(i)

\* The slot is marked as stopping and the process tree is confirmed dead.
StopKill(t, i, p) ==
    /\ CanStop(t, i, p) /\ ExactTurn(t, i, p)
    /\ proc' = IF Live(p) THEN [proc EXCEPT ![p].st = "dead", ![p].out = "interrupt"]
               ELSE proc
    /\ stop' = [stop EXCEPT ![t].at = i]
    /\ UNCHANGED <<taskVars, instVars, lc, managed, sysVars>>

\* The process survives the signals: stop returns False, the row is kept.
StopUnconfirmed(t, i, p) ==
    /\ CanStop(t, i, p) /\ ExactTurn(t, i, p) /\ Live(p)
    /\ stop' = [stop EXCEPT ![t].todo = @ \ {<<i, p>>}]
    /\ UNCHANGED <<taskVars, instVars, lc, managed, sysVars, proc>>

\* Nothing of that turn runs here: at most a dead reverse owner is released.
StopUnmanaged(t, i, p) ==
    /\ CanStop(t, i, p) /\ ~ExactTurn(t, i, p)
    /\ stop' = [stop EXCEPT ![t].todo = @ \ {<<i, p>>}]
    /\ IF DeadReverseOwner(i, t) /\ pid[i] = p THEN ClearSlot(i, "idle")
       ELSE UNCHANGED instVars
    /\ UNCHANGED <<taskVars, lc, managed, sysVars, proc>>

\* Task and Instance change in one transaction, or not at all. When they do not,
\* the consumer may still settle the slot, or nothing runs there any more and the
\* slot is released as a dead reverse owner.
StopSettle(t) ==
    LET i == stop[t].at
        exact == /\ inst[t] = i /\ gen[t] = stop[t].gen
                 /\ cur[i] = t /\ <<i, pid[i]>> \in stop[t].todo
    IN  /\ i # NoInst
        /\ \/ /\ exact
              /\ status' = IF status[t] \in Active
                           THEN [status EXCEPT ![t] = IF stop[t].kind = "cancel"
                                                      THEN "cancelled" ELSE "completed"]
                           ELSE status
              /\ ClearSlot(i, "idle")
              /\ managed' = [managed EXCEPT ![i] = NoProc]
           \/ /\ ~exact
              /\ UNCHANGED <<status, managed, instVars>>
           \/ /\ ~exact
              /\ managed' = [managed EXCEPT ![i] = NoProc]
              /\ IF StaleOwner(i, t) /\ <<i, pid[i]>> \in stop[t].todo
                 THEN ClearSlot(i, "idle") ELSE UNCHANGED instVars
              /\ UNCHANGED status
        /\ stop' = [stop EXCEPT ![t].at = NoInst,
                                ![t].todo = {x \in @ : x[1] # i}]
        /\ UNCHANGED <<retry, gen, inst, source, sent, superseded, auth, lc,
                       sysVars, proc>>

\* Every owner was visited and the Task is still the one that was observed.
StopDone(t) == stop[t].kind # "none" /\ stop[t].at = NoInst /\ stop[t].todo = {}
\* Mutant: the owner rows are not looked up a second time.
SameTargetOwnersUnread(t) ==
    retry[t] = stop[t].retry /\ gen[t] = stop[t].gen /\ inst[t] = stop[t].inst
SameTarget(t) ==
    /\ retry[t] = stop[t].retry /\ gen[t] = stop[t].gen /\ inst[t] = stop[t].inst
    /\ Owners(t) = {}

\* The request is answered with success; any other answer is a 409.
CancelConfirmed(t) ==
    /\ StopDone(t) /\ stop[t].kind = "cancel"
    /\ SameTarget(t) /\ status[t] = "cancelled"

CancelFinish(t) ==
    /\ StopDone(t) /\ stop[t].kind = "cancel"
    /\ stop' = [stop EXCEPT ![t] = NoStop]
    /\ UNCHANGED <<taskVars, instVars, lc, managed, sysVars, proc>>

\* Mutant: the barrier waits for the slots that already name the Task as owner.
NoLaunchOnOwnerRows(t) == \A i \in Owners(t) : ~LaunchHoldsLock(i)
NoLaunchInFlight(t) ==
    \A i \in Instances : lc[i].task = t => ~LaunchHoldsLock(i)

\* Mutant: supersede stores the name of the operation as the Task's status.
SupersedeTargetUnmapped(t) ==
    IF stop[t].was \in {"pending"} \cup Active THEN "superseded" ELSE stop[t].was
SupersedeTarget(t) ==
    IF stop[t].was \in {"pending"} \cup Active THEN "completed" ELSE stop[t].was

SupersedeConfirmed(t) ==
    /\ StopDone(t) /\ stop[t].kind = "supersede"
    /\ SameTarget(t) /\ status[t] \in {stop[t].was, SupersedeTarget(t)}

\* The final compare-and-swap, or a conflict; it is one, too, when the launch
\* barrier times out on a launch in flight.
SupersedeFinish(t) ==
    /\ StopDone(t) /\ stop[t].kind = "supersede"
    /\ status' = IF NoLaunchInFlight(t) /\ SupersedeConfirmed(t)
                 THEN [status EXCEPT ![t] = SupersedeTarget(t)] ELSE status
    /\ stop' = [stop EXCEPT ![t] = NoStop]
    /\ UNCHANGED <<retry, gen, inst, source, sent, superseded, auth, instVars,
                   lc, managed, sysVars, proc>>

-----------------------------------------------------------------------------
(* Manual retry. *)

\* Mutant: retry releases the slots without looking at their processes.
RetryMayReleaseLive(i, t) == ~LaunchHoldsLock(i) /\ ~Stopping(i)

\* Nothing may still run for the slot i that the Task or its owner row names.
RetryMayRelease(i, t) ==
    /\ ~LaunchHoldsLock(i) /\ ~Stopping(i)
    /\ cur[i] \in {NoTask, t} => ~IsRunning(i)
    /\ cur[i] = t => (Dead(pid[i]) \/ (pid[i] = NoProc /\ istat[i] # "running"))

Retry(t) ==
    /\ mode # "down"
    /\ status[t] \in Terminal /\ ~superseded[t]
    /\ auth[t] < MaxAuth
    /\ \A i \in Owners(t) \cup ({inst[t]} \ {NoInst}) : RetryMayRelease(i, t)
    /\ istat' = [i \in Instances |-> IF cur[i] = t THEN "error" ELSE istat[i]]
    /\ cur' = [i \in Instances |-> IF cur[i] = t THEN NoTask ELSE cur[i]]
    /\ pid' = [i \in Instances |-> IF cur[i] = t THEN NoProc ELSE pid[i]]
    /\ status' = [status EXCEPT ![t] = "pending"]
    /\ retry' = [retry EXCEPT ![t] = @ + 1]
    /\ inst' = [inst EXCEPT ![t] = NoInst]
    /\ source' = [source EXCEPT ![t] = 0]
    /\ sent' = [sent EXCEPT ![t] = FALSE]
    /\ auth' = [auth EXCEPT ![t] = @ + 1]
    /\ UNCHANGED <<gen, superseded, memVars, sysVars, proc>>

-----------------------------------------------------------------------------
(* Shutdown, crash, and the clean-up of a restart. *)

BeginShutdown ==
    /\ mode = "up" /\ mode' = "stopping"
    /\ UNCHANGED <<taskVars, instVars, memVars, crashes, proc>>

\* The dispatcher cancels its coroutines; only an unlaunched turn is requeued.
LifecycleCancelled(i) ==
    /\ mode = "stopping"
    /\ lc[i].pc \in {"claimed", "launch", "wait"}
    /\ Finalize(i, lc[i].pc = "claimed", FALSE)
    /\ lc' = [lc EXCEPT ![i] = NoLc]
    /\ UNCHANGED <<instVars, managed, stop, sysVars, proc>>

\* The backend is gone; its processes are sessions of their own and live on.
Crash ==
    /\ mode # "down" /\ crashes < MaxCrash
    /\ mode' = "down" /\ crashes' = crashes + 1
    /\ lc' = [i \in Instances |-> NoLc]
    /\ managed' = [i \in Instances |-> NoProc]
    /\ stop' = [t \in Tasks |-> NoStop]
    /\ UNCHANGED <<taskVars, instVars, proc>>

\* _cleanup_stale_state, branch by branch, for a Task that was active.
LiveOwners(t) == {i \in Owners(t) : Live(pid[i])}
UnmanagedLive(t) == LiveOwners(t) # {} \/ (inst[t] # NoInst /\ Live(pid[inst[t]]))
InconsistentOwner(t) ==
    \/ Cardinality(Owners(t)) > 1
    \/ Owners(t) # {} /\ inst[t] \notin Owners(t)
    \/ Owners(t) = {} /\ inst[t] # NoInst /\ cur[inst[t]] # NoTask
\* Mutant: a first turn counts as unlaunched even though it was admitted.
UnlaunchedFirst(t) == gen[t] = 1
Unlaunched(t) == ReplaySafe(t, FALSE) /\ gen[t] = 1

\* Mutant: the clean-up forgets the Tasks that were claimed but not yet bound.
InterruptedExecuting(t) == status[t] = "executing"
Interrupted(t) == status[t] \in Active

CleanedStatus(t) ==
    IF Interrupted(t)
    THEN IF ~UnmanagedLive(t) /\ ~InconsistentOwner(t) /\ Unlaunched(t)
         THEN IF superseded[t] THEN status[t] ELSE "pending"
         ELSE "failed"
    ELSE IF /\ status[t] = "pending"
            /\ \E i \in LiveOwners(t) : inst[t] \in {NoInst, i}
         THEN "failed" ELSE status[t]

CleanedInst(t) ==
    IF Interrupted(t)
    THEN IF UnmanagedLive(t) \/ CleanedStatus(t) = status[t] THEN {inst[t]}
         ELSE {NoInst}
    ELSE IF CleanedStatus(t) # status[t]
         THEN {i \in LiveOwners(t) : inst[t] \in {NoInst, i}} ELSE {inst[t]}

\* Mutant: only a row that says "running" is taken to hold a live process.
SlotSurvivesRunning(i) == istat[i] = "running" /\ Live(pid[i])
SlotSurvives(i) == Live(pid[i])
\* Mutant: a slot whose process survived is left as it was.
CleanedSlotDeadOnly(i) == IF ActiveCapacity(i) /\ ~Live(pid[i]) THEN "error" ELSE istat[i]
CleanedSlot(i) == IF ActiveCapacity(i) THEN "error" ELSE istat[i]

Restart ==
    /\ mode = "down" /\ mode' = "up"
    /\ status' = [t \in Tasks |-> CleanedStatus(t)]
    /\ inst' \in [Tasks -> Instances \cup {NoInst}]
    /\ \A t \in Tasks : inst'[t] \in CleanedInst(t)
    /\ istat' = [i \in Instances |-> CleanedSlot(i)]
    /\ cur' = [i \in Instances |-> IF SlotSurvives(i) THEN cur[i] ELSE NoTask]
    /\ pid' = [i \in Instances |-> IF SlotSurvives(i) THEN pid[i] ELSE NoProc]
    /\ UNCHANGED <<retry, gen, source, sent, superseded, auth, memVars, crashes,
                   proc>>

-----------------------------------------------------------------------------
\* The steps of the coroutine that occupies slot i.
Lifecycle(i) ==
    \/ ReleaseReservation(i) \/ \E t \in Tasks : Dequeue(i, t)
    \/ PrepareFails(i) \/ BindTurn(i) \/ BindSuperseded(i)
    \/ LaunchAbandoned(i) \/ LaunchDeferred(i) \/ LaunchFails(i)
    \/ Admit(i) \/ \E p \in Procs : Spawn(i, p)
    \/ Track(i) \/ TrackAborted(i) \/ TrackAbortUnconfirmed(i)
    \/ JudgeCompleted(i) \/ JudgeError(i)
    \/ JudgeRejected(i) \/ JudgeRejectedFails(i)
    \/ WaitFails(i) \/ LifecycleDies(i) \/ LifecycleCancelled(i)
    \/ ExitReset(i) \/ Reconcile(i)

\* The steps of a stop operation once it has begun.
StopStep(t) ==
    \/ \E i \in Instances, p \in Procs \cup {NoProc} :
         StopKill(t, i, p) \/ StopUnconfirmed(t, i, p) \/ StopUnmanaged(t, i, p)
    \/ StopSettle(t) \/ CancelFinish(t) \/ SupersedeFinish(t)

Request(t) ==
    CancelOwnerless(t) \/ CancelBegin(t) \/ SupersedeBegin(t) \/ Retry(t)

ProcEnds(p) == \E out \in {"ok", "error", "interrupt", "rejected"} : ProcExit(p, out)

Next ==
    \/ \E i \in Instances :
         EnsureIdle(i) \/ Reserve(i) \/ Lifecycle(i) \/ ConsumerRelease(i)
    \/ \E p \in Procs : ProcEnds(p)
    \/ \E t \in Tasks : Request(t) \/ StopStep(t)
    \/ BeginShutdown \/ Crash \/ Restart

Spec == Init /\ [][Next]_vars
=============================================================================
