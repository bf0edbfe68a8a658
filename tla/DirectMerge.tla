----------------------------- MODULE DirectMerge -----------------------------
(***************************************************************************)
(* The manual "Merge PR" outbox of the PR monitor: one monitored pull       *)
(* request, its run (PRMonitorRun), the one durable merge action            *)
(* (PRMergeQueueAction, effect_kind direct) a click arms, the coroutines    *)
(* that claim the action under a ten-minute lease and push the fast-forward *)
(* to GitHub, and the lifecycle hook that turns a closed or merged pull     *)
(* request into a durable terminal intent and then into the run's end.      *)
(*                                                                          *)
(* Every database transaction is one action; everything that happens        *)
(* between two transactions (a GitHub read, the ref update, a crash) is an  *)
(* action of its own, so the other actors may step in between.  The lock    *)
(* _pr_repo_write_lock is local to one Manager process and the reconciler   *)
(* does not take it: the model leaves it out.  A run whose subject was      *)
(* replaced by a new review ("reviewing") is the end of this instance.      *)
(***************************************************************************)
EXTENDS Naturals, FiniteSets

CONSTANTS
    Publisher,    \* coroutines that may run reconcile_direct_merge_action
    NoOne,        \* no lease holder
    MaxAttempts,  \* _MAX_DIRECT_ATTEMPTS
    MaxCount,     \* bound: attempt_count is followed up to here; it grows on in
                  \* the code, which treats all counts from MaxAttempts alike
    MaxFaults,    \* bound: failed GitHub calls, crashes and overrun leases
    Overdue       \* may a ref update outlive its lease, or a call its timeout?

ASSUME DirectMergeAssumption ==
    /\ NoOne \notin Publisher
    /\ MaxAttempts \in Nat \ {0}
    /\ MaxCount \in Nat /\ MaxCount > MaxAttempts
    /\ MaxFaults \in Nat
    /\ Overdue \in BOOLEAN

VARIABLES
    pr,       \* the pull request on GitHub
    landed,   \* the base branch contains the reviewed head by CCM's update
    events,   \* signed pull_request.closed deliveries GitHub may (re)deliver
    receipt,  \* the comment that CCM merged is on the pull request
    enabled,  \* MonitoredRepo.enabled
    blocking, \* a blocking Finding of the run is open
    run,      \* PRMonitorRun: status, pause reason, terminal intent
    act,      \* PRMergeQueueAction: status, lease, attempts, error prefix
    pc,       \* publisher |-> its place in the reconciler
    saw,      \* publisher |-> the remote state its last read returned
    why,      \* publisher |-> the kind of GhError it is handling
    sent,     \* publishers whose ref update GitHub has not processed yet
    hook,     \* the lifecycle hook (signed delivery or periodic recovery)
    faults    \* faults that happened so far

remote  == <<pr, landed, events, receipt>>
locals  == <<pc, saw, why>>
vars    == <<pr, landed, events, receipt, enabled, blocking, run, act, pc, saw, why,
             sent, hook, faults>>

Active      == {"pending", "enqueuing"}
Terminal    == {"merged", "closed"}
RemoteState == {"open_exact", "open_changed", "merged", "closed", "unknown"}
Reason      == {"transient", "terminal", "diverged"}
PublisherPc == {"idle", "intent", "read", "check", "guard", "final", "send",
                "await", "confirm", "comment", "post", "done", "reread", "record"}

IdleHook == [pc |-> "idle", signed |-> FALSE, end |-> "merged", exact |-> TRUE,
             fresh |-> FALSE]

Init ==
    /\ pr = [state |-> "open", head |-> "exact", base |-> "ancestor",
             ours |-> FALSE]
    /\ landed = FALSE
    /\ events = {}
    /\ receipt = FALSE
    /\ enabled = TRUE
    /\ blocking = FALSE
    /\ run = [status |-> "ready_to_merge", reason |-> "none",
              intent |-> "none", exact |-> FALSE]
    /\ act = [status |-> "none", holder |-> NoOne, live |-> FALSE, tries |-> 0,
              error |-> "none"]
    /\ pc = [p \in Publisher |-> "idle"]
    /\ saw = [p \in Publisher |-> "unknown"]
    /\ why = [p \in Publisher |-> "transient"]
    /\ sent = {}
    /\ hook = IdleHook
    /\ faults = 0

-----------------------------------------------------------------------------
(* GitHub.                                                                  *)

\* The state _remote_state reports; a foreign merge has no evidence of ours
\* and the read raises.
ReadsAs ==
    IF pr.state = "merged" THEN IF pr.ours THEN "merged" ELSE "unknown"
    ELSE IF pr.state = "closed" THEN "closed"
    ELSE IF pr.head = "exact" THEN "open_exact" ELSE "open_changed"

\* The pull request ends: GitHub signs one delivery that names its subject.
EndPr(end, ours) ==
    /\ pr' = [pr EXCEPT !.state = end, !.ours = ours]
    /\ events' = events \cup {[end |-> end, exact |-> pr.head = "exact"]}

ClosePr ==
    /\ pr.state = "open"
    /\ EndPr("closed", FALSE)
    /\ UNCHANGED <<landed, receipt, enabled, blocking, run, act, locals, sent, hook,
                   faults>>

MergeElsewhere ==
    /\ pr.state = "open"
    /\ EndPr("merged", FALSE)
    /\ UNCHANGED <<landed, receipt, enabled, blocking, run, act, locals, sent, hook,
                   faults>>

\* The author reopens the pull request (GitHub refuses when its commits are in
\* the base already), pushes to its branch or retargets it, or the base branch
\* moves away from the reviewed head.
AuthorActs ==
    /\ \/ /\ pr.state = "closed" /\ ~(landed /\ pr.head = "exact")
          /\ pr' = [pr EXCEPT !.state = "open"]
       \/ pr.state = "open" /\ pr.head = "exact" /\ pr' = [pr EXCEPT !.head = "moved"]
       \/ pr.base = "ancestor" /\ ~landed /\ pr' = [pr EXCEPT !.base = "diverged"]
    /\ UNCHANGED <<landed, events, receipt, enabled, blocking, run, act, locals, sent,
                   hook, faults>>

\* GitHub processes a ref update: it fast-forwards the base to the reviewed
\* head when the base is still its ancestor, and marks a still open pull
\* request with that very head as merged.
Land(p) ==
    /\ p \in sent
    /\ sent' = sent \ {p}
    /\ landed' = (landed \/ pr.base = "ancestor")
    /\ IF landed' /\ pr.state = "open" /\ pr.head = "exact"
       THEN EndPr("merged", TRUE)
       ELSE UNCHANGED <<pr, events>>
    /\ UNCHANGED <<receipt, enabled, blocking, run, act, locals, hook, faults>>

\* GitHub refuses an update (protection, permission) or never gets to see it.
Refuse(p) ==
    /\ p \in sent
    /\ sent' = sent \ {p}
    /\ UNCHANGED <<remote, enabled, blocking, run, act, locals, hook, faults>>

-----------------------------------------------------------------------------
(* The run.                                                                 *)

\* Any change of the run ends the generation a hook has frozen.
ChangeRun(new) ==
    /\ run' = new
    /\ hook' = [hook EXCEPT !.fresh = FALSE]

HasIntent == run.intent # "none"

\* A direct action that may still own a remote effect: an active one, or a
\* failed or paused one whose error is not an absence proof.
OwnsEffect ==
    \/ act.status \in Active
    \/ /\ act.status \in {"paused", "failed"}
       /\ act.error # "absence_proven"
       /\ act.holder # NoOne \/ act.tries > 0

\* Mutant: any terminal intent for the reviewed head is taken for a merge.
ExactTerminalIntent == HasIntent /\ run.exact

\* _direct_merge_has_exact_merged_intent.
ExactMergedIntent == run.intent = "merged" /\ run.exact

\* The click: POST /runs/{run_id}/merge arms a fresh or a failed action.
Arm ==
    /\ enabled
    /\ run.status = "ready_to_merge" /\ ~HasIntent /\ ~blocking
    /\ \/ act.status = "none"
       \/ act.status \in {"failed", "paused"} /\ ~OwnsEffect
    /\ act' = [status |-> "pending", holder |-> NoOne, live |-> FALSE,
               tries |-> 0, error |-> "none"]
    /\ ChangeRun([run EXCEPT !.status = "merge_pending", !.reason = "none"])
    /\ UNCHANGED <<remote, enabled, blocking, locals, sent, faults>>

\* Mutant: only an action that is being published counts as an active effect.
QuiescibleArmed == run.status # "reviewing" /\ act.status # "enqueuing"

\* _quiesce_monitor_runs refuses while a review or a merge effect is active;
\* otherwise it parks the run.
Quiescible == run.status # "reviewing" /\ ~OwnsEffect

Pause ==
    /\ run.status \notin Terminal /\ ~HasIntent
    /\ Quiescible
    /\ ChangeRun([run EXCEPT !.status = "paused", !.reason = "manual"])
    /\ UNCHANGED <<remote, enabled, blocking, act, locals, sent, faults>>

Disable ==
    /\ enabled /\ Quiescible
    /\ enabled' = FALSE
    /\ IF run.status \in Terminal
       THEN UNCHANGED <<run, hook>>
       ELSE ChangeRun([run EXCEPT !.status = "paused", !.reason = "repo_disabled"])
    /\ UNCHANGED <<remote, blocking, act, locals, sent, faults>>

Enable ==
    /\ ~enabled
    /\ enabled' = TRUE
    /\ UNCHANGED <<remote, blocking, run, act, locals, sent, hook, faults>>

\* POST /runs/{run_id}/resume: no direct action is ever paused, so nothing of
\* GitHub is read and the reviewed verdict decides.
Resume ==
    /\ enabled /\ run.status = "paused" /\ ~HasIntent
    /\ run.reason # "base_update_required"
    /\ ChangeRun([run EXCEPT !.status = IF blocking THEN "waiting_for_fix"
                                                    ELSE "ready_to_merge",
                             !.reason = "none"])
    /\ UNCHANGED <<remote, enabled, blocking, act, locals, sent, faults>>

\* A Finding is reopened, or its fix and its thread are resolved.
FindingChanges ==
    /\ blocking' = ~blocking
    /\ UNCHANGED <<remote, enabled, run, act, locals, sent, hook, faults>>

\* A signed synchronize (or its recovery) replaces the subject; it waits for
\* every merge effect, and a terminal run needs an explicit reopen.
Synchronize ==
    /\ enabled /\ pr.state = "open" /\ pr.head = "moved"
    /\ run.status \notin Terminal \cup {"reviewing"} /\ ~HasIntent
    /\ ~OwnsEffect
    /\ ChangeRun([run EXCEPT !.status = "reviewing", !.reason = "none"])
    /\ UNCHANGED <<remote, enabled, blocking, act, locals, sent, faults>>

\* A signed reopened/ready event: assert_terminal_reactivation_ready, then the
\* new review replaces the subject and the intent is cleared.
Reopen ==
    /\ enabled /\ pr.state = "open"
    /\ run.status \in Terminal \/ HasIntent
    /\ act.status # "enqueuing" /\ (act.status = "pending" \/ ~OwnsEffect)
    /\ act' = [act EXCEPT !.status = IF @ = "pending" THEN "superseded" ELSE @]
    /\ ChangeRun([run EXCEPT !.status = "reviewing", !.reason = "none",
                             !.intent = "none", !.exact = FALSE])
    /\ UNCHANGED <<remote, enabled, blocking, locals, sent, faults>>

-----------------------------------------------------------------------------
(* The publisher: reconcile_direct_merge_action and _publish_direct_merge.  *)

Goto(p, l) == pc' = [pc EXCEPT ![p] = l]

\* The coroutine returns; its locals are gone.
Return(p) ==
    /\ Goto(p, "idle")
    /\ saw' = [saw EXCEPT ![p] = "unknown"]
    /\ why' = [why EXCEPT ![p] = "transient"]

\* A GhError is raised.
Raise(p, kind) == Goto(p, "reread") /\ why' = [why EXCEPT ![p] = kind]

\* attempt_count + 1, followed up to MaxCount.
Counted == IF act.tries < MaxCount THEN act.tries + 1 ELSE act.tries

\* Mutant: a live lease does not keep another reconciler out.
ClaimStealing(p) ==
    /\ pc[p] = "idle"
    /\ enabled /\ ~blocking
    /\ act.status \in Active
    /\ run.status = "merge_pending"
    /\ ~HasIntent \/ ExactMergedIntent
    /\ act' = [act EXCEPT !.status = "enqueuing", !.holder = p, !.live = TRUE,
                          !.tries = Counted]
    /\ Goto(p, IF ExactMergedIntent THEN "intent" ELSE "read")
    /\ UNCHANGED <<remote, enabled, blocking, run, saw, why, sent, hook, faults>>

\* Mutant: a lease whose holder died is never taken over.
ClaimFresh(p) ==
    /\ pc[p] = "idle"
    /\ enabled /\ ~blocking
    /\ act.status \in Active
    /\ run.status = "merge_pending"
    /\ ~HasIntent \/ ExactMergedIntent
    /\ act.holder = NoOne
    /\ act' = [act EXCEPT !.status = "enqueuing", !.holder = p, !.live = TRUE,
                          !.tries = Counted]
    /\ Goto(p, IF ExactMergedIntent THEN "intent" ELSE "read")
    /\ UNCHANGED <<remote, enabled, blocking, run, saw, why, sent, hook, faults>>

\* The claim: one transaction, a fresh token, a ten-minute lease.
Claim(p) ==
    /\ pc[p] = "idle"
    /\ enabled /\ ~blocking
    /\ act.status \in Active
    /\ run.status = "merge_pending"
    /\ ~HasIntent \/ ExactMergedIntent
    /\ act.holder = NoOne \/ ~act.live
    /\ act' = [act EXCEPT !.status = "enqueuing", !.holder = p, !.live = TRUE,
                          !.tries = Counted]
    /\ Goto(p, IF ExactMergedIntent THEN "intent" ELSE "read")
    /\ UNCHANGED <<remote, enabled, blocking, run, saw, why, sent, hook, faults>>

\* _settle_remote_terminal: a compare-and-set on the token (not on its
\* expiry); a run with a terminal intent keeps its status.
Settles(p, state) ==
    state \in Terminal /\ act.status = "enqueuing" /\ act.holder = p

\* Mutant: the action gets the state of the pull request for its status.
SettleAsRead(state) ==
    /\ act' = [act EXCEPT !.status = state,
                          !.error = IF state = "merged" THEN "none" ELSE "pr_closed",
                          !.holder = NoOne, !.live = FALSE]
    /\ IF HasIntent
       THEN UNCHANGED <<run, hook>>
       ELSE ChangeRun([run EXCEPT !.status = state, !.reason = "none"])

SettleAs(state) ==
    /\ act' = [act EXCEPT !.status = IF state = "merged" THEN "merged" ELSE "superseded",
                          !.error = IF state = "merged" THEN "none" ELSE "pr_closed",
                          !.holder = NoOne, !.live = FALSE]
    /\ IF HasIntent
       THEN UNCHANGED <<run, hook>>
       ELSE ChangeRun([run EXCEPT !.status = state, !.reason = "none"])

SettleIntent(p) ==
    /\ pc[p] = "intent"
    /\ IF Settles(p, "merged") THEN SettleAs("merged") ELSE UNCHANGED <<act, run, hook>>
    /\ Return(p)
    /\ UNCHANGED <<remote, enabled, blocking, sent, faults>>

\* The first _remote_state: a terminal answer is settled at once.
FirstRead(p) ==
    /\ pc[p] = "read"
    /\ saw' = [saw EXCEPT ![p] = ReadsAs]
    /\ IF ReadsAs = "unknown" THEN Raise(p, "terminal")
                              ELSE Goto(p, "check") /\ UNCHANGED why
    /\ UNCHANGED <<remote, enabled, blocking, run, act, sent, hook, faults>>

\* _action_is_current.
Current(p) ==
    /\ enabled /\ ~blocking
    /\ act.status = "enqueuing" /\ act.holder = p /\ act.live
    /\ run.status = "merge_pending" /\ ~HasIntent

\* Settle what the read said, else admit the publication.
Check(p) ==
    /\ pc[p] = "check"
    /\ IF Settles(p, saw[p])
       THEN SettleAs(saw[p]) /\ Return(p)
       ELSE /\ IF Current(p) THEN Goto(p, "guard") /\ UNCHANGED why
                             ELSE Raise(p, "transient")
            /\ saw' = [saw EXCEPT ![p] = "unknown"]
            /\ UNCHANGED <<act, run, hook>>
    /\ UNCHANGED <<remote, enabled, blocking, sent, faults>>

\* The publisher's reads: merge evidence first, then open snapshot, CI, branch
\* protection and base ancestry.  A policy that refuses is a terminal error, an
\* actor or a generation that is not current any more a transient one.
Guard(p) ==
    /\ pc[p] = "guard"
    /\ \/ ReadsAs = "merged" /\ Goto(p, "comment") /\ UNCHANGED why
       \/ ReadsAs \in {"closed", "open_changed", "unknown"} /\ Raise(p, "terminal")
       \/ /\ ReadsAs = "open_exact"
          /\ IF pr.base = "ancestor" THEN Goto(p, "final") /\ UNCHANGED why
                                     ELSE Raise(p, "diverged")
       \/ ReadsAs = "open_exact" /\ \E k \in {"terminal", "transient"} : Raise(p, k)
    /\ UNCHANGED <<remote, enabled, blocking, run, act, saw, sent, hook, faults>>

\* Mutant: the reads of the publisher are not followed by a last check.
FinalUnchecked(p) ==
    /\ pc[p] = "final"
    /\ Goto(p, "send")
    /\ UNCHANGED <<remote, enabled, blocking, run, act, saw, why, sent, hook, faults>>

\* The last ensure_current before the write.
Final(p) ==
    /\ pc[p] = "final"
    /\ IF Current(p) THEN Goto(p, "send") /\ UNCHANGED why ELSE Raise(p, "transient")
    /\ UNCHANGED <<remote, enabled, blocking, run, act, saw, sent, hook, faults>>

Send(p) ==
    /\ pc[p] = "send"
    /\ sent' = sent \cup {p}
    /\ Goto(p, "await")
    /\ UNCHANGED <<remote, enabled, blocking, run, act, saw, why, hook, faults>>

\* The answer to the update; a client that gives up asks GitHub all the same.
Answer(p) ==
    /\ pc[p] = "await"
    /\ p \notin sent \/ Overdue
    /\ Goto(p, "confirm")
    /\ UNCHANGED <<remote, enabled, blocking, run, act, saw, why, sent, hook, faults>>

\* _find_merge_evidence after the write.
Confirm(p) ==
    /\ pc[p] = "confirm"
    /\ IF ReadsAs = "merged" THEN Goto(p, "comment") /\ UNCHANGED why
       ELSE Raise(p, IF pr.state = "open" THEN "transient" ELSE "terminal")
    /\ UNCHANGED <<remote, enabled, blocking, run, act, saw, sent, hook, faults>>

\* _publish_merged_comment: a comment that is there already is enough; else
\* the two ensure_current around the actor check, and the POST.
Comment(p) ==
    /\ pc[p] = "comment"
    /\ IF receipt THEN Goto(p, "done") /\ UNCHANGED why
       ELSE IF Current(p) THEN Goto(p, "post") /\ UNCHANGED why
       ELSE Raise(p, "transient")
    /\ UNCHANGED <<remote, enabled, blocking, run, act, saw, sent, hook, faults>>

Post(p) ==
    /\ pc[p] = "post"
    /\ receipt' = TRUE
    /\ Goto(p, "done")
    /\ UNCHANGED <<pr, landed, events, enabled, blocking, run, act, saw, why, sent, hook,
                   faults>>

Done(p) ==
    /\ pc[p] = "done"
    /\ IF Settles(p, "merged") THEN SettleAs("merged") ELSE UNCHANGED <<act, run, hook>>
    /\ Return(p)
    /\ UNCHANGED <<remote, enabled, blocking, sent, faults>>

\* The except branch reads GitHub again.
Reread(p) ==
    /\ pc[p] = "reread"
    /\ saw' = [saw EXCEPT ![p] = ReadsAs]
    /\ Goto(p, "record")
    /\ UNCHANGED <<remote, enabled, blocking, run, act, why, sent, hook, faults>>

\* Mutant: a spent budget withdraws the action without an absence proof.
RecordFailureUnproven(p) ==
    IF why[p] # "transient" \/ act.tries >= MaxAttempts
    THEN /\ act' = [act EXCEPT !.status = "failed", !.error = "absence_proven",
                               !.holder = NoOne, !.live = FALSE]
         /\ IF HasIntent THEN UNCHANGED <<run, hook>>
            ELSE ChangeRun([run EXCEPT !.status = "paused", !.reason = "subject_changed"])
    ELSE /\ act' = [act EXCEPT !.error = "reconcile_pending",
                               !.holder = NoOne, !.live = FALSE]
         /\ UNCHANGED <<run, hook>>

\* Mutant: the last attempt of the budget does not count as spent.
RecordFailureLate(p) ==
    IF saw[p] \in {"open_exact", "open_changed", "closed"}
       /\ (why[p] # "transient" \/ act.tries > MaxAttempts)
    THEN /\ act' = [act EXCEPT !.status = "failed", !.error = "absence_proven",
                               !.holder = NoOne, !.live = FALSE]
         /\ IF HasIntent THEN UNCHANGED <<run, hook>>
            ELSE ChangeRun([run EXCEPT !.status = "paused", !.reason = "subject_changed"])
    ELSE /\ act' = [act EXCEPT !.error = "reconcile_pending",
                               !.holder = NoOne, !.live = FALSE]
         /\ UNCHANGED <<run, hook>>

\* _record_failure on the token: the lease is released; an absence proof
\* together with a terminal error or a spent budget withdraws the action.
RecordFailure(p) ==
    LET stop  == why[p] # "transient" \/ act.tries >= MaxAttempts
        gone  == saw[p] \in {"open_exact", "open_changed", "closed"}
        next  == IF saw[p] = "open_exact" /\ why[p] = "diverged"
                 THEN [run EXCEPT !.status = "paused", !.reason = "base_update_required"]
                 ELSE IF saw[p] = "open_exact"
                 THEN [run EXCEPT !.status = "ready_to_merge", !.reason = "absence_proven"]
                 ELSE [run EXCEPT !.status = "paused", !.reason = "subject_changed"]
    IN  IF gone /\ stop
        THEN /\ act' = [act EXCEPT !.status = IF saw[p] = "closed" THEN "superseded"
                                                                   ELSE "failed",
                                   !.error = "absence_proven",
                                   !.holder = NoOne, !.live = FALSE]
             /\ IF HasIntent THEN UNCHANGED <<run, hook>> ELSE ChangeRun(next)
        ELSE /\ act' = [act EXCEPT !.error = "reconcile_pending",
                                   !.holder = NoOne, !.live = FALSE]
             /\ UNCHANGED <<run, hook>>

Record(p) ==
    /\ pc[p] = "record"
    /\ IF Settles(p, saw[p]) THEN SettleAs(saw[p])
       ELSE IF act.status = "enqueuing" /\ act.holder = p THEN RecordFailure(p)
       ELSE UNCHANGED <<act, run, hook>>
    /\ Return(p)
    /\ UNCHANGED <<remote, enabled, blocking, sent, faults>>

\* A GitHub call of the publisher fails.  In the error path the read is then
\* "unknown"; anywhere else it is a transient GhError.  A failed POST may have
\* left its comment.
CallFails(p) ==
    /\ faults < MaxFaults /\ faults' = faults + 1
    /\ \/ /\ pc[p] \in {"read", "guard", "confirm", "comment", "post"}
          /\ Raise(p, "transient") /\ UNCHANGED saw
          /\ UNCHANGED receipt \/ (pc[p] = "post" /\ receipt' = TRUE)
       \/ /\ pc[p] = "reread"
          /\ saw' = [saw EXCEPT ![p] = "unknown"]
          /\ Goto(p, "record") /\ UNCHANGED <<why, receipt>>
    /\ UNCHANGED <<pr, landed, events, enabled, blocking, run, act, sent, hook>>

\* The Manager dies, or the coroutine is cancelled: the lease stays behind.
Crash(p) ==
    /\ faults < MaxFaults /\ faults' = faults + 1
    /\ pc[p] # "idle"
    /\ Return(p)
    /\ UNCHANGED <<remote, enabled, blocking, run, act, sent, hook>>

\* The ten minutes pass.  A holder that is still at work has overrun them.
LeaseExpires ==
    /\ act.live
    /\ ~Overdue => sent = {} /\ pc[act.holder] \notin {"send", "await"}
    /\ act' = [act EXCEPT !.live = FALSE]
    /\ IF pc[act.holder] = "idle" THEN UNCHANGED faults
       ELSE faults < MaxFaults /\ faults' = faults + 1
    /\ UNCHANGED <<remote, enabled, blocking, run, locals, sent, hook>>

-----------------------------------------------------------------------------
(* The lifecycle hook: _terminalize_pull_request_run.                       *)

\* Phase 1 of a signed delivery, or of the periodic recovery of an intent.
HookBegin ==
    /\ hook.pc = "idle" /\ enabled /\ run.status # "reviewing"
    /\ \/ \E e \in events :
            hook' = [pc |-> "frozen", signed |-> TRUE, end |-> e.end,
                     exact |-> e.exact, fresh |-> TRUE]
       \/ /\ HasIntent /\ run.status \notin Terminal
          /\ hook' = [pc |-> "frozen", signed |-> FALSE, end |-> run.intent,
                      exact |-> run.exact, fresh |-> TRUE]
    /\ UNCHANGED <<remote, enabled, blocking, run, act, locals, sent, faults>>

HookMatches ==
    pr.state = hook.end /\ (pr.head = "exact") = hook.exact

\* Phase 2: GitHub is asked without a transaction; a mismatch or a failed read
\* ends the hook (the signed delivery is ignored or retried).
HookReads ==
    /\ hook.pc \in {"frozen", "persisted"}
    /\ IF HookMatches
       THEN hook' = [hook EXCEPT !.pc = IF @ = "frozen" THEN "verified" ELSE "repeated"]
       ELSE hook' = IdleHook
    /\ UNCHANGED <<remote, enabled, blocking, run, act, locals, sent, faults>>

HookFails ==
    /\ hook.pc # "idle" /\ faults < MaxFaults /\ faults' = faults + 1
    /\ hook' = IdleHook
    /\ UNCHANGED <<remote, enabled, blocking, run, act, locals, sent>>

\* Phase 3 of a signed delivery: persist the intent before anything is ended.
HookPersists ==
    /\ hook.pc = "verified" /\ hook.signed
    /\ IF enabled /\ hook.fresh
       THEN /\ run' = [run EXCEPT !.intent = hook.end, !.exact = hook.exact]
            /\ hook' = [hook EXCEPT !.pc = "persisted"]
       ELSE hook' = IdleHook /\ UNCHANGED run
    /\ UNCHANGED <<remote, enabled, blocking, act, locals, sent, faults>>

\* Mutant: the intent consumes the action under its publisher's live lease.
ConsumedAnyway ==
    IF act.status \in Active /\ ExactMergedIntent
    THEN [act EXCEPT !.status = "merged", !.error = "none", !.holder = NoOne, !.live = FALSE]
    ELSE act

\* Mutant: the intent never consumes the action.
ConsumedNever == act

\* The exact direct outbox of a merged intent is consumed unless a publisher
\* still has a live lease on it.
Consumed ==
    IF act.status \in Active /\ ExactMergedIntent /\ ~(act.holder # NoOne /\ act.live)
    THEN [act EXCEPT !.status = "merged", !.error = "none", !.holder = NoOne, !.live = FALSE]
    ELSE act

\* The last transaction: it ends the run, or it leaves everything (503) while
\* an effect may still happen.
HookEnds ==
    /\ hook.pc = IF hook.signed THEN "repeated" ELSE "verified"
    /\ hook' = IdleHook
    /\ IF /\ enabled /\ hook.fresh
          /\ run.status \notin Terminal
          /\ Consumed # act \/ ~OwnsEffect
       THEN /\ act' = [Consumed EXCEPT !.status = IF @ = "paused" THEN "superseded" ELSE @]
            /\ run' = [run EXCEPT !.status = hook.end, !.reason = "none"]
       ELSE UNCHANGED <<act, run>>
    /\ UNCHANGED <<remote, enabled, blocking, locals, sent, faults>>

-----------------------------------------------------------------------------
PublisherStep(p) ==
    \/ Claim(p) \/ SettleIntent(p) \/ FirstRead(p) \/ Check(p) \/ Guard(p)
    \/ Final(p) \/ Send(p) \/ Answer(p) \/ Confirm(p) \/ Comment(p) \/ Post(p)
    \/ Done(p) \/ Reread(p) \/ Record(p)

HookStep == HookReads \/ HookPersists \/ HookEnds

Operator == Arm \/ Pause \/ Disable \/ Enable \/ Resume \/ FindingChanges
            \/ Synchronize \/ Reopen

GitHub == ClosePr \/ MergeElsewhere \/ AuthorActs

Next ==
    \/ GitHub
    \/ Operator
    \/ \E p \in Publisher : PublisherStep(p) \/ Land(p) \/ Refuse(p) \/ CallFails(p) \/ Crash(p)
    \/ LeaseExpires
    \/ HookBegin \/ HookStep \/ HookFails

Spec == Init /\ [][Next]_vars

\* The periodic recovery calls the reconciler and the lifecycle recovery again
\* and again; a started coroutine runs on, GitHub answers, an orphaned lease
\* runs out.  Deliveries, operators and the author owe nothing.  (Strong for the
\* recovery: redelivered webhooks may keep the hook busy now and then.)
Fairness ==
    /\ \A p \in Publisher : WF_vars(PublisherStep(p)) /\ WF_vars(Land(p) \/ Refuse(p))
    /\ WF_vars(LeaseExpires)
    /\ SF_vars(HookBegin /\ hook'.signed = FALSE)
    /\ WF_vars(HookStep)

FairSpec == Spec /\ Fairness
=============================================================================
