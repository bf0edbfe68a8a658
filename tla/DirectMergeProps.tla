--------------------------- MODULE DirectMergeProps ---------------------------
(***************************************************************************)
(* The properties of DirectMerge, and the contract it implements.           *)
(***************************************************************************)
EXTENDS DirectMerge

PrType ==
    [state : {"open"} \cup Terminal, head : {"exact", "moved"},
     base : {"ancestor", "diverged"}, ours : BOOLEAN]
RunType ==
    [status : {"ready_to_merge", "merge_pending", "paused", "reviewing",
               "waiting_for_fix"} \cup Terminal,
     reason : {"none", "manual", "repo_disabled", "absence_proven",
               "base_update_required", "subject_changed"},
     intent : {"none"} \cup Terminal, exact : BOOLEAN]
ActionType ==
    [status : {"none", "failed", "superseded", "merged"} \cup Active,
     holder : Publisher \cup {NoOne}, live : BOOLEAN, tries : 0..MaxCount,
     error : {"none", "pr_closed", "absence_proven", "reconcile_pending"}]
HookType ==
    [pc : {"idle", "frozen", "verified", "persisted", "repeated"},
     signed : BOOLEAN, end : Terminal, exact : BOOLEAN, fresh : BOOLEAN]

\* Types of every variable.
TypeOK ==
    /\ pr \in PrType /\ run \in RunType /\ act \in ActionType /\ hook \in HookType
    /\ landed \in BOOLEAN /\ receipt \in BOOLEAN /\ enabled \in BOOLEAN /\ blocking \in BOOLEAN
    /\ events \subseteq [end : Terminal, exact : BOOLEAN]
    /\ pc \in [Publisher -> PublisherPc]
    /\ saw \in [Publisher -> RemoteState]
    /\ why \in [Publisher -> Reason]
    /\ sent \subseteq Publisher
    /\ faults \in 0..MaxFaults

\* A publisher that may still move the base branch: past its last check, or
\* with an update GitHub has not processed.
Writing == {p \in Publisher : pc[p] = "send" \/ p \in sent}

\* An active action always has its run in merge_pending: were the run moved on
\* under it, the reconciler would refuse the action for ever while pause,
\* disable and synchronize wait for it.
ArmedRun == act.status \in Active => run.status = "merge_pending"

\* One outbox row has at most one writer at GitHub, across Managers, crashes
\* and expired leases.
OneWriter == Cardinality(Writing) <= 1

\* pause, disable and a withdrawn action are real: when the run is not armed,
\* or the repository is off, no publisher can still move the base branch.
\* ("we fail closed instead of presenting a pause/disable control that did not
\* actually stop work", api/pr_monitor.py:1064)
StopIsFinal == run.status # "merge_pending" \/ ~enabled => Writing = {}

\* Whatever says merged is true at GitHub, however the settlement came about:
\* through a read, through the publisher's evidence, through an intent.
MergedIsTrue == act.status = "merged" \/ run.status = "merged" => pr.state = "merged"

\* A finished settlement of CCM's own merge is not lost: once GitHub shows the
\* pull request as merged by CCM, the action can no longer be withdrawn.
OwnMergeKept == pr.ours => act.status \in {"enqueuing", "merged"}

\* A lease exists only on an action that is being published.
LeaseOwned ==
    /\ act.status # "enqueuing" => act.holder = NoOne
    /\ act.holder = NoOne => ~act.live

\* Why there is one writer, and why it can be stopped: who may still write holds
\* the live lease of an action under publication.
WriterHolds ==
    \A p \in Publisher : pc[p] = "send" \/ p \in sent =>
        /\ act.status = "enqueuing" /\ act.holder = p /\ act.live /\ enabled
        /\ pc[p] = "send" \/ (p \in sent /\ pc[p] \in {"await", "idle"})

\* Why a merge is true: everybody who speaks of one has seen it, and a merge at
\* GitHub is for ever.
MergeSeen ==
    /\ pr.ours => pr.state = "merged"
    /\ run.intent = "merged" => pr.state = "merged"
    /\ hook.pc \in {"verified", "persisted", "repeated"} /\ hook.end = "merged" =>
          pr.state = "merged"
    /\ \A p \in Publisher :
          /\ pc[p] \in {"intent", "comment", "post", "done"} => pr.state = "merged"
          /\ saw[p] = "merged" => pr.state = "merged"
          /\ pc[p] \notin {"check", "record"} => saw[p] = "unknown"

\* Why an own merge is kept: its holder has no older read to act on.
OwnSeen ==
    \A p \in Publisher : pr.ours /\ act.holder = p => saw[p] \in {"unknown", "merged"}

\* A hook whose generation is fresh does not end a run under review.
FreshHook == hook.pc # "idle" /\ hook.fresh => run.status # "reviewing"

\* The inductive invariants of DirectMerge_proofs: the first holds even when a
\* ref update outlives the lease it was sent under.
MergeInv == TypeOK /\ LeaseOwned /\ ArmedRun /\ MergeSeen /\ MergedIsTrue /\ FreshHook
DirectInv == MergeInv /\ WriterHolds /\ OwnSeen /\ OwnMergeKept

\* The budget of attempts is kept: an action is claimed more than MaxAttempts
\* times only after a failed call, a crash or an overrun lease, or when a
\* stranger's merge keeps its remote state unreadable.  (_record_failure stops at
\* _MAX_DIRECT_ATTEMPTS; the claim itself counts without a bound.)
Excused == faults > 0 \/ (pr.state = "merged" /\ ~pr.ours)
BudgetKept == act.tries > MaxAttempts => Excused

\* Why it is kept: without an excuse a claim ends in its own record, and that
\* record has read whether the effect is absent.
BudgetInv ==
    \/ Excused
    \/ /\ act.tries <= MaxAttempts
       /\ act.status \in Active /\ act.tries >= MaxAttempts => act.holder # NoOne
       /\ act.holder # NoOne => act.live /\ pc[act.holder] # "idle"
       /\ \A p \in Publisher : pc[p] = "record" => saw[p] # "unknown"

\* A live lease is only given up by its holder (or by time): no other
\* publisher, hook or operator may settle, re-arm or take an action that is
\* being published.
LeaseRespected ==
    [][\A p \in Publisher :
         act.holder = p /\ act.live /\ act'.holder # p => pc[p] # "idle" /\ pc'[p] = "idle"]_vars

\* Every armed action is settled or withdrawn, unless a Finding blocks it, a
\* stranger merged, or a terminal intent has taken the run over.
ClaimSettles ==
    act.status \in Active ~>
        \/ act.status \notin Active
        \/ blocking \/ HasIntent \/ (pr.state = "merged" /\ ~pr.ours)

\* A merged intent for the reviewed head ends the run as merged, whatever the
\* publisher was doing when the delivery came (unless the repository is
\* switched off, or an unprocessed reopen left the run closed).
MergedIntentEnds ==
    ExactMergedIntent /\ run.status \notin {"reviewing", "closed"}
        ~> run.status = "merged" \/ ~enabled

\* "The durable outbox remains recoverable by the periodic reconciler"
\* (api/pr_monitor.py:5600): an action that was claimed is finished one day,
\* at the latest when no Finding blocks it any more.
OutboxRecovers ==
    act.status = "enqueuing" ~> act.status # "enqueuing" \/ blocking \/ pr.state = "merged"

-----------------------------------------------------------------------------
(* The contract: what the outbox row and the run say about the one effect.  *)

Stage ==
    IF act.status \in Active THEN "armed"
    ELSE IF "merged" \in {act.status, run.status} THEN "merged"
    ELSE IF run.status \in Terminal \cup {"reviewing"} THEN "over"
    ELSE IF act.status = "superseded" THEN "settled"
    ELSE "free"

Contract == INSTANCE MergeContract WITH stage <- Stage, landed <- landed, own <- pr.ours
ImplementsContract == Contract!CSpec
=============================================================================
