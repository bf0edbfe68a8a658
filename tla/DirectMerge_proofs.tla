------------------------- MODULE DirectMerge_proofs -------------------------
(***************************************************************************)
(* Proofs about DirectMerge, for any set of publishers, budget of attempts  *)
(* and number of faults: typing, the inductive invariant, what follows from *)
(* it, and the refinement of MergeContract.  What concerns the write at     *)
(* GitHub assumes that no ref update outlives its lease (~Overdue).         *)
(***************************************************************************)
EXTENDS DirectMergeProps, FiniteSetTheorems, TLAPS

-----------------------------------------------------------------------------
(* Typing. *)

LEMMA TypeInit == Init => TypeOK
<1> SUFFICES ASSUME Init PROVE TypeOK
  OBVIOUS
<1> USE DirectMergeAssumption DEF Init
<1>1. pr \in PrType /\ run \in RunType
  BY DEF PrType, RunType
<1>2. act \in ActionType
  BY DEF ActionType
<1>3. hook \in HookType
  BY DEF HookType, IdleHook, Terminal
<1>4. pc \in [Publisher -> PublisherPc] /\ saw \in [Publisher -> RemoteState]
  BY DEF PublisherPc, RemoteState
<1>5. why \in [Publisher -> Reason] /\ faults \in 0..MaxFaults
  BY DEF Reason
<1> QED
  BY <1>1, <1>2, <1>3, <1>4, <1>5 DEF TypeOK

LEMMA ReadsAsType == ReadsAs \in RemoteState
BY DEF ReadsAs, RemoteState

LEMMA ReturnType ==
    ASSUME TypeOK, NEW p \in Publisher, Return(p)
    PROVE  /\ pc' \in [Publisher -> PublisherPc]
           /\ saw' \in [Publisher -> RemoteState]
           /\ why' \in [Publisher -> Reason]
BY DEF TypeOK, Return, Goto, PublisherPc, RemoteState, Reason

LEMMA RaiseType ==
    ASSUME TypeOK, NEW p \in Publisher, NEW k \in Reason, Raise(p, k)
    PROVE  /\ pc' \in [Publisher -> PublisherPc]
           /\ why' \in [Publisher -> Reason]
BY DEF TypeOK, Raise, Goto, PublisherPc, Reason

LEMMA ChangeType ==
    ASSUME TypeOK, NEW new \in RunType, ChangeRun(new)
    PROVE  run' \in RunType /\ hook' \in HookType
BY DEF TypeOK, ChangeRun, HookType

LEMMA SettleType ==
    ASSUME TypeOK, NEW s \in Terminal, SettleAs(s)
    PROVE  act' \in ActionType /\ run' \in RunType /\ hook' \in HookType
<1>1. act' \in ActionType
  BY DEF SettleAs, TypeOK, ActionType, Terminal
<1>2. [run EXCEPT !.status = s, !.reason = "none"] \in RunType
  BY DEF TypeOK, RunType
<1> QED
  BY <1>1, <1>2, ChangeType DEF SettleAs, TypeOK

LEMMA RecordType ==
    ASSUME TypeOK, NEW p \in Publisher, RecordFailure(p)
    PROVE  act' \in ActionType /\ run' \in RunType /\ hook' \in HookType
<1> DEFINE next ==
      IF saw[p] = "open_exact" /\ why[p] = "diverged"
      THEN [run EXCEPT !.status = "paused", !.reason = "base_update_required"]
      ELSE IF saw[p] = "open_exact"
      THEN [run EXCEPT !.status = "ready_to_merge", !.reason = "absence_proven"]
      ELSE [run EXCEPT !.status = "paused", !.reason = "subject_changed"]
<1>1. act' \in ActionType
  BY DEF RecordFailure, TypeOK, ActionType
<1>2. next \in RunType
  BY DEF TypeOK, RunType
<1>3. ChangeRun(next) \/ UNCHANGED <<run, hook>>
  BY DEF RecordFailure
<1> HIDE DEF next
<1> QED
  BY <1>1, <1>2, <1>3, ChangeType DEF TypeOK

LEMMA EndPrType ==
    ASSUME TypeOK, NEW end \in Terminal, NEW ours \in BOOLEAN, EndPr(end, ours)
    PROVE  pr' \in PrType /\ events' \subseteq [end : Terminal, exact : BOOLEAN]
<1>1. pr' \in PrType
  BY DEF EndPr, TypeOK, PrType
<1>2. [end |-> end, exact |-> pr.head = "exact"] \in [end : Terminal, exact : BOOLEAN]
  OBVIOUS
<1> QED
  BY <1>1, <1>2 DEF EndPr, TypeOK

LEMMA TypeStep == TypeOK /\ [Next]_vars => TypeOK'
<1> SUFFICES ASSUME TypeOK, [Next]_vars PROVE TypeOK'
  OBVIOUS
<1> USE DirectMergeAssumption DEF remote, locals
\* GitHub.
<1>1. CASE GitHub
  <2>1. CASE ClosePr \/ MergeElsewhere
    BY <2>1, EndPrType DEF ClosePr, MergeElsewhere, TypeOK, Terminal
  <2>2. CASE AuthorActs
    <3>1. pr' \in PrType
      BY <2>2 DEF AuthorActs, TypeOK, PrType
    <3> QED
      BY <2>2, <3>1 DEF AuthorActs, TypeOK
  <2> QED
    BY <1>1, <2>1, <2>2 DEF GitHub
<1>2. ASSUME NEW p \in Publisher, Land(p) PROVE TypeOK'
  <2>1. landed' \in BOOLEAN
    BY <1>2 DEF Land, TypeOK
  <2>2. pr' \in PrType /\ events' \subseteq [end : Terminal, exact : BOOLEAN]
    BY <1>2, EndPrType DEF Land, TypeOK, Terminal
  <2> QED
    BY <1>2, <2>1, <2>2 DEF Land, TypeOK
<1>2a. ASSUME NEW p \in Publisher, Refuse(p) PROVE TypeOK'
  BY <1>2a DEF Refuse, TypeOK
\* The commands around the run.
<1>3. CASE Arm
  <2>1. [run EXCEPT !.status = "merge_pending", !.reason = "none"] \in RunType
    BY DEF TypeOK, RunType
  <2>2. act' \in ActionType
    BY <1>3 DEF Arm, ActionType, Active
  <2> QED
    BY <1>3, <2>1, <2>2, ChangeType DEF Arm, TypeOK
<1>4. CASE Pause
  <2>1. [run EXCEPT !.status = "paused", !.reason = "manual"] \in RunType
    BY DEF TypeOK, RunType
  <2> QED
    BY <1>4, <2>1, ChangeType DEF Pause, TypeOK
<1>5. CASE Disable
  <2>1. [run EXCEPT !.status = "paused", !.reason = "repo_disabled"] \in RunType
    BY DEF TypeOK, RunType
  <2> QED
    BY <1>5, <2>1, ChangeType DEF Disable, TypeOK
<1>6. CASE Enable \/ FindingChanges
  BY <1>6 DEF Enable, FindingChanges, TypeOK
<1>7. CASE Resume
  <2>1. [run EXCEPT !.status = IF blocking THEN "waiting_for_fix" ELSE "ready_to_merge",
                    !.reason = "none"] \in RunType
    BY DEF TypeOK, RunType
  <2> QED
    BY <1>7, <2>1, ChangeType DEF Resume, TypeOK
<1>8. CASE Synchronize
  <2>1. [run EXCEPT !.status = "reviewing", !.reason = "none"] \in RunType
    BY DEF TypeOK, RunType
  <2> QED
    BY <1>8, <2>1, ChangeType DEF Synchronize, TypeOK
<1>9. CASE Reopen
  <2>1. [run EXCEPT !.status = "reviewing", !.reason = "none", !.intent = "none",
                    !.exact = FALSE] \in RunType
    BY DEF TypeOK, RunType
  <2>2. act' \in ActionType
    BY <1>9 DEF Reopen, TypeOK, ActionType
  <2> QED
    BY <1>9, <2>1, <2>2, ChangeType DEF Reopen, TypeOK
\* The publisher.
<1>10. ASSUME NEW p \in Publisher, Claim(p) PROVE TypeOK'
  <2>1. act' \in ActionType
    <3>1. Counted \in 0..MaxCount
      BY DEF Counted, TypeOK, ActionType
    <3> QED
      BY <1>10, <3>1 DEF Claim, TypeOK, ActionType, Active
  <2> QED
    BY <1>10, <2>1 DEF Claim, Goto, TypeOK, PublisherPc
<1>11. ASSUME NEW p \in Publisher, SettleIntent(p) PROVE TypeOK'
  BY <1>11, ReturnType, SettleType DEF SettleIntent, TypeOK, Terminal
<1>12. ASSUME NEW p \in Publisher, FirstRead(p) \/ Reread(p) PROVE TypeOK'
  BY <1>12, ReadsAsType DEF FirstRead, Reread, Raise, Goto, TypeOK, PublisherPc, Reason
<1>13. ASSUME NEW p \in Publisher, Check(p) PROVE TypeOK'
  <2>1. CASE Settles(p, saw[p])
    BY <1>13, <2>1, ReturnType, SettleType DEF Check, Settles, TypeOK
  <2>2. CASE ~Settles(p, saw[p])
    BY <1>13, <2>2 DEF Check, Raise, Goto, TypeOK, PublisherPc, Reason, RemoteState
  <2> QED
    BY <2>1, <2>2
<1>14. ASSUME NEW p \in Publisher,
              Guard(p) \/ Final(p) \/ Confirm(p) \/ Comment(p) \/ Post(p)
       PROVE  TypeOK'
  BY <1>14 DEF Guard, Final, Confirm, Comment, Post, Raise, Goto, TypeOK, PublisherPc, Reason
<1>15. ASSUME NEW p \in Publisher, Send(p) \/ Answer(p) PROVE TypeOK'
  BY <1>15 DEF Send, Answer, Goto, TypeOK, PublisherPc
<1>16. ASSUME NEW p \in Publisher, Done(p) PROVE TypeOK'
  BY <1>16, ReturnType, SettleType DEF Done, TypeOK, Terminal
<1>17. ASSUME NEW p \in Publisher, Record(p) PROVE TypeOK'
  <2>1. CASE Settles(p, saw[p])
    BY <1>17, <2>1, ReturnType, SettleType DEF Record, Settles, TypeOK
  <2>2. CASE ~Settles(p, saw[p])
    BY <1>17, <2>2, ReturnType, RecordType DEF Record, TypeOK
  <2> QED
    BY <2>1, <2>2
\* Faults.
<1>18. ASSUME NEW p \in Publisher, CallFails(p) PROVE TypeOK'
  <2>0. receipt' \in BOOLEAN
    BY <1>18 DEF CallFails, TypeOK
  <2>1. faults' \in 0..MaxFaults
    BY <1>18 DEF CallFails, TypeOK
  <2>2. /\ pc' \in [Publisher -> PublisherPc] /\ saw' \in [Publisher -> RemoteState]
        /\ why' \in [Publisher -> Reason]
    BY <1>18 DEF CallFails, Raise, Goto, TypeOK, PublisherPc, Reason, RemoteState
  <2> QED
    BY <1>18, <2>0, <2>1, <2>2 DEF CallFails, TypeOK
<1>19. ASSUME NEW p \in Publisher, Crash(p) PROVE TypeOK'
  BY <1>19, ReturnType DEF Crash, TypeOK
<1>20. CASE LeaseExpires
  <2>1. act' \in ActionType
    BY <1>20 DEF LeaseExpires, TypeOK, ActionType
  <2>2. faults' \in 0..MaxFaults
    BY <1>20 DEF LeaseExpires, TypeOK
  <2> QED
    BY <1>20, <2>1, <2>2 DEF LeaseExpires, TypeOK
\* The lifecycle hook.
<1>21. CASE HookBegin
  <2>1. ASSUME NEW e \in events,
               hook' = [pc |-> "frozen", signed |-> TRUE, end |-> e.end,
                        exact |-> e.exact, fresh |-> TRUE]
        PROVE  hook' \in HookType
    <3>1. e \in [end : Terminal, exact : BOOLEAN]
      BY DEF TypeOK
    <3> QED
      BY <2>1, <3>1 DEF HookType
  <2>2. ASSUME HasIntent,
               hook' = [pc |-> "frozen", signed |-> FALSE, end |-> run.intent,
                        exact |-> run.exact, fresh |-> TRUE]
        PROVE  hook' \in HookType
    BY <2>2 DEF HasIntent, TypeOK, RunType, HookType
  <2> QED
    BY <1>21, <2>1, <2>2 DEF HookBegin, TypeOK
<1>22. CASE HookReads \/ HookFails
  <2>1. IdleHook \in HookType
    BY DEF IdleHook, HookType, Terminal
  <2>2. hook' \in HookType
    BY <1>22, <2>1 DEF HookReads, HookFails, TypeOK, HookType
  <2> QED
    BY <1>22, <2>2 DEF HookReads, HookFails, TypeOK
<1>23. CASE HookPersists
  <2>1. IdleHook \in HookType
    BY DEF IdleHook, HookType, Terminal
  <2>2. [run EXCEPT !.intent = hook.end, !.exact = hook.exact] \in RunType
    BY DEF TypeOK, RunType, HookType
  <2>3. [hook EXCEPT !.pc = "persisted"] \in HookType
    BY DEF TypeOK, HookType
  <2> QED
    BY <1>23, <2>1, <2>2, <2>3 DEF HookPersists, TypeOK
<1>24. CASE HookEnds
  <2>1. Consumed \in ActionType
    BY DEF Consumed, TypeOK, ActionType
  <2>2. [Consumed EXCEPT !.status = IF @ = "paused" THEN "superseded" ELSE @] \in ActionType
    <3> HIDE DEF Consumed
    <3> QED
      BY <2>1 DEF ActionType
  <2>3. IdleHook \in HookType
    BY DEF IdleHook, HookType, Terminal
  <2> HIDE DEF Consumed
  <2>4. run' \in RunType
    BY <1>24 DEF HookEnds, TypeOK, RunType, HookType
  <2> QED
    BY <1>24, <2>2, <2>3, <2>4 DEF HookEnds, TypeOK
<1>25. CASE UNCHANGED vars
  BY <1>25 DEF vars, TypeOK
<1> QED
  BY <1>1, <1>2, <1>2a, <1>3, <1>4, <1>5, <1>6, <1>7, <1>8, <1>9, <1>10, <1>11, <1>12, <1>13,
     <1>14, <1>15, <1>16, <1>17, <1>18, <1>19, <1>20, <1>21, <1>22, <1>23, <1>24, <1>25
  DEF Next, Operator, PublisherStep, HookStep

\* Every reachable state is well typed: no settlement or failure record leaves
\* the action or its run with a status, a reason or an error of another column.
THEOREM MergeTypeCorrect == Spec => []TypeOK
BY TypeInit, TypeStep, PTL DEF Spec

-----------------------------------------------------------------------------
(* What the shared steps do to the action and the run. *)

LEMMA SettleEffect ==
    ASSUME TypeOK, NEW s \in Terminal, SettleAs(s)
    PROVE  /\ act'.status = (IF s = "merged" THEN "merged" ELSE "superseded")
           /\ act'.holder = NoOne /\ act'.live = FALSE
           /\ UNCHANGED <<run, hook>> \/ run'.status = s
           /\ run'.intent = run.intent /\ run'.exact = run.exact
           /\ hook'.pc = hook.pc /\ hook'.end = hook.end
<1>1. /\ act'.status = (IF s = "merged" THEN "merged" ELSE "superseded")
      /\ act'.holder = NoOne /\ act'.live = FALSE
  BY DEF SettleAs, TypeOK, ActionType
<1>2. CASE HasIntent
  BY <1>1, <1>2 DEF SettleAs
<1>3. CASE ~HasIntent
  BY <1>1, <1>3 DEF SettleAs, ChangeRun, TypeOK, RunType, HookType
<1> QED
  BY <1>2, <1>3

LEMMA RecordEffect ==
    ASSUME TypeOK, NEW p \in Publisher, RecordFailure(p)
    PROVE  /\ act'.holder = NoOne /\ act'.live = FALSE
           /\ \/ act'.status = act.status /\ UNCHANGED run
              \/ /\ act'.status \in {"failed", "superseded"}
                 /\ saw[p] \in {"open_exact", "open_changed", "closed"}
                 /\ UNCHANGED run \/ run'.status \in {"paused", "ready_to_merge"}
           /\ run'.intent = run.intent /\ run'.exact = run.exact
           /\ hook'.pc = hook.pc /\ hook'.end = hook.end
<1> DEFINE gone == saw[p] \in {"open_exact", "open_changed", "closed"}
           stop == why[p] # "transient" \/ act.tries >= MaxAttempts
           next ==
             IF saw[p] = "open_exact" /\ why[p] = "diverged"
             THEN [run EXCEPT !.status = "paused", !.reason = "base_update_required"]
             ELSE IF saw[p] = "open_exact"
             THEN [run EXCEPT !.status = "ready_to_merge", !.reason = "absence_proven"]
             ELSE [run EXCEPT !.status = "paused", !.reason = "subject_changed"]
<1>1. CASE gone /\ stop
  <2>1. /\ next.status \in {"paused", "ready_to_merge"}
        /\ next.intent = run.intent /\ next.exact = run.exact
    BY DEF TypeOK, RunType
  <2>2. UNCHANGED <<run, hook>> \/ ChangeRun(next)
    BY <1>1 DEF RecordFailure
  <2>3. /\ act'.status \in {"failed", "superseded"}
        /\ act'.holder = NoOne /\ act'.live = FALSE
    BY <1>1 DEF RecordFailure, TypeOK, ActionType
  <2> HIDE DEF next
  <2> QED
    BY <1>1, <2>1, <2>2, <2>3 DEF ChangeRun, TypeOK, HookType
<1>2. CASE ~(gone /\ stop)
  BY <1>2 DEF RecordFailure, TypeOK, ActionType
<1> QED
  BY <1>1, <1>2

\* The steps of a publisher that only move itself.
Moves(p) ==
    \/ FirstRead(p) \/ Guard(p) \/ Final(p) \/ Send(p) \/ Answer(p) \/ Confirm(p)
    \/ Comment(p) \/ Post(p) \/ Reread(p) \/ CallFails(p) \/ Crash(p)

\* The steps that end a publication: its holder settles it or gives it up.
Finishes(p) ==
    \/ SettleIntent(p) \/ (Check(p) /\ Settles(p, saw[p])) \/ Done(p) \/ Record(p)

LEMMA FinishEffect ==
    ASSUME TypeOK, NEW p \in Publisher, Finishes(p)
    PROVE  /\ pc[p] \in {"intent", "check", "done", "record"} /\ Return(p)
           /\ UNCHANGED <<remote, enabled, blocking, sent, faults>>
           /\ \/ UNCHANGED <<act, run, hook>>
              \/ /\ act.status = "enqueuing" /\ act.holder = p
                 /\ \/ \E s \in Terminal :
                          /\ s = "merged" => pc[p] \in {"intent", "done"} \/ saw[p] = "merged"
                          /\ s = "closed" => pc[p] \in {"check", "record"} /\ saw[p] = "closed"
                          /\ SettleAs(s)
                    \/ pc[p] = "record" /\ RecordFailure(p)
<1>1. CASE SettleIntent(p) \/ Done(p)
  BY <1>1 DEF SettleIntent, Done, Settles, Terminal
<1>2. CASE Check(p) /\ Settles(p, saw[p])
  BY <1>2 DEF Check, Settles, Terminal
<1>3. CASE Record(p)
  BY <1>3 DEF Record, Settles, Terminal
<1> QED
  BY <1>1, <1>2, <1>3 DEF Finishes

LEMMA PublisherCases ==
    ASSUME NEW p \in Publisher,
           PublisherStep(p) \/ CallFails(p) \/ Crash(p)
    PROVE  \/ Claim(p) \/ Finishes(p) \/ Moves(p)
           \/ Check(p) /\ ~Settles(p, saw[p])
BY DEF PublisherStep, Moves, Finishes

-----------------------------------------------------------------------------
(* The action, its lease and its run. *)

LEMMA LeaseStep ==
    TypeOK /\ LeaseOwned /\ ArmedRun /\ [Next]_vars => LeaseOwned' /\ ArmedRun'
<1> SUFFICES ASSUME TypeOK, LeaseOwned, ArmedRun, [Next]_vars
             PROVE  LeaseOwned' /\ ArmedRun'
  OBVIOUS
<1> USE DirectMergeAssumption DEF LeaseOwned, ArmedRun, Active
<1>1. ASSUME UNCHANGED <<act, run>> PROVE LeaseOwned' /\ ArmedRun'
  BY <1>1
<1>2. ASSUME NEW p \in Publisher, Claim(p) PROVE LeaseOwned' /\ ArmedRun'
  BY <1>2 DEF Claim, TypeOK, ActionType
<1>3. ASSUME NEW p \in Publisher, Finishes(p) PROVE LeaseOwned' /\ ArmedRun'
  <2>1. ASSUME NEW s \in Terminal, SettleAs(s) PROVE LeaseOwned' /\ ArmedRun'
    BY <2>1, SettleEffect
  <2>2. ASSUME RecordFailure(p) PROVE LeaseOwned' /\ ArmedRun'
    BY <2>2, RecordEffect
  <2> QED
    BY <1>1, <1>3, <2>1, <2>2, FinishEffect
<1>4. ASSUME NEW p \in Publisher,
             Moves(p) \/ (Check(p) /\ ~Settles(p, saw[p])) \/ Land(p) \/ Refuse(p)
      PROVE  LeaseOwned' /\ ArmedRun'
  BY <1>1, <1>4 DEF Moves, FirstRead, Guard, Final, Send, Answer, Confirm, Comment, Post, Reread,
     CallFails, Crash, Check, Land, Refuse
<1>5. CASE Arm
  BY <1>5 DEF Arm, ChangeRun, TypeOK, RunType
<1>6. CASE Pause \/ Disable
  BY <1>6 DEF Pause, Disable, Quiescible, OwnsEffect
<1>7. CASE Resume
  BY <1>7 DEF Resume
<1>8. CASE Synchronize
  BY <1>8 DEF Synchronize, OwnsEffect
<1>9. CASE Reopen
  BY <1>9 DEF Reopen, OwnsEffect, TypeOK, ActionType
<1>10. CASE LeaseExpires
  BY <1>10 DEF LeaseExpires, TypeOK, ActionType
<1>11. CASE HookPersists
  BY <1>11 DEF HookPersists, TypeOK, RunType
<1>12. CASE HookEnds
  <2>1. act' # act \/ run' # run =>
          /\ act'.status \notin Active
          /\ act'.status # "enqueuing" => act'.holder = NoOne
          /\ act'.holder = NoOne => ~act'.live
    <3>1. CASE Consumed # act
      <4>1. Consumed.status = "merged" /\ Consumed.holder = NoOne /\ Consumed.live = FALSE
        BY <3>1 DEF Consumed, TypeOK, ActionType
      <4>2. Consumed \in ActionType
        BY DEF Consumed, TypeOK, ActionType
      <4> HIDE DEF Consumed
      <4> QED
        BY <1>12, <4>1, <4>2 DEF HookEnds, ActionType
    <3>2. CASE Consumed = act /\ ~OwnsEffect
      <4> HIDE DEF Consumed
      <4> QED
        BY <1>12, <3>2 DEF HookEnds, OwnsEffect, TypeOK, ActionType
    <3> QED
      BY <1>12, <3>1, <3>2 DEF HookEnds
  <2> QED
    BY <1>1, <2>1
<1>13. CASE GitHub \/ Enable \/ FindingChanges \/ HookBegin \/ HookReads \/ HookFails
            \/ UNCHANGED vars
  BY <1>1, <1>13 DEF GitHub, ClosePr, MergeElsewhere, AuthorActs, Enable, FindingChanges,
     HookBegin, HookReads, HookFails, vars
<1> QED
  BY <1>2, <1>3, <1>4, <1>5, <1>6, <1>7, <1>8, <1>9, <1>10, <1>11, <1>12, <1>13,
     PublisherCases DEF Next, Operator, HookStep

-----------------------------------------------------------------------------
(* One writer: the live lease of an action under publication. *)

LEMMA WriterStep ==
    ASSUME ~Overdue
    PROVE  TypeOK /\ LeaseOwned /\ ArmedRun /\ WriterHolds /\ [Next]_vars => WriterHolds'
<1> SUFFICES ASSUME TypeOK, LeaseOwned, ArmedRun, WriterHolds, [Next]_vars,
                    NEW w \in Publisher, (pc[w] = "send" \/ w \in sent)'
             PROVE  (/\ act.status = "enqueuing" /\ act.holder = w /\ act.live /\ enabled
                     /\ pc[w] = "send" \/ (w \in sent /\ pc[w] \in {"await", "idle"}))'
  BY DEF WriterHolds
<1> DEFINE Held == /\ act.status = "enqueuing" /\ act.holder = w /\ act.live /\ enabled
                   /\ pc[w] = "send" \/ (w \in sent /\ pc[w] \in {"await", "idle"})
<1>0. pc[w] = "send" \/ w \in sent => Held
  BY DEF WriterHolds
<1>1. ASSUME UNCHANGED <<act, enabled, pc>>, sent' \subseteq sent PROVE Held'
  BY <1>0, <1>1
<1>2. ASSUME NEW p \in Publisher, Claim(p) PROVE Held'
  <2>1. pc[w] = "send" \/ w \in sent
    BY <1>2 DEF Claim, Goto, TypeOK
  <2> QED
    BY <1>0, <1>2, <2>1, DirectMergeAssumption DEF Claim
<1>3. ASSUME NEW p \in Publisher, Finishes(p) PROVE Held'
  <2>1. pc[w] = "send" \/ w \in sent
    BY <1>3, FinishEffect DEF Return, Goto, TypeOK, remote
  <2>2. w # p /\ act.holder # p
    BY <1>0, <1>3, <2>1, FinishEffect
  <2> QED
    BY <1>0, <1>3, <2>1, <2>2, FinishEffect DEF Return, Goto, TypeOK, remote
<1>4. ASSUME NEW p \in Publisher, Final(p) PROVE Held'
  BY <1>0, <1>4 DEF Final, Current, Goto, Raise, TypeOK
<1>5. ASSUME NEW p \in Publisher, Send(p) PROVE Held'
  BY <1>0, <1>5 DEF Send, Goto, TypeOK
<1>6. ASSUME NEW p \in Publisher, Answer(p) PROVE Held'
  BY <1>0, <1>6 DEF Answer, Goto, TypeOK
<1>7. ASSUME NEW p \in Publisher,
             \/ FirstRead(p) \/ Guard(p) \/ Confirm(p) \/ Comment(p) \/ Post(p) \/ Reread(p)
             \/ (Check(p) /\ ~Settles(p, saw[p])) \/ CallFails(p)
      PROVE  Held'
  <2>1. /\ UNCHANGED <<act, enabled, sent>>
        /\ pc[p] \notin {"send", "await", "idle"}
    BY <1>7 DEF FirstRead, Guard, Confirm, Comment, Post, Reread, Check, CallFails
  <2>2. \E l \in PublisherPc \ {"send"} : Goto(p, l)
    BY <1>7 DEF FirstRead, Guard, Confirm, Comment, Post, Reread, Check, CallFails, Raise,
       PublisherPc
  <2>3. w # p => pc'[w] = pc[w]
    BY <2>2 DEF Goto, TypeOK
  <2>4. pc'[p] # "send"
    BY <2>2 DEF Goto, TypeOK
  <2> QED
    BY <1>0, <2>1, <2>3, <2>4
<1>8. ASSUME NEW p \in Publisher, Crash(p) PROVE Held'
  BY <1>0, <1>8 DEF Crash, Return, Goto, TypeOK
<1>9. ASSUME NEW p \in Publisher, Land(p) \/ Refuse(p) PROVE Held'
  BY <1>1, <1>9 DEF Land, Refuse, locals
<1>10. CASE Arm \/ Synchronize \/ Reopen \/ Pause \/ Disable
  <2>1. pc[w] = "send" \/ w \in sent
    BY <1>10 DEF Arm, Synchronize, Reopen, Pause, Disable, locals
  <2>2. act.status \in Active /\ OwnsEffect
    BY <1>0, <2>1 DEF Active, OwnsEffect
  <2> QED
    BY <1>0, <1>10, <2>1, <2>2 DEF Arm, Synchronize, Reopen, Pause, Disable, Quiescible, Active
<1>11. CASE Resume \/ Enable \/ FindingChanges \/ HookPersists
  BY <1>0, <1>11 DEF Resume, Enable, FindingChanges, HookPersists, locals
<1>12. CASE LeaseExpires
  BY <1>0, <1>12 DEF LeaseExpires, locals, TypeOK
<1>13. CASE HookEnds
  <2>1. pc[w] = "send" \/ w \in sent
    BY <1>13 DEF HookEnds, locals
  <2>2. Consumed = act
    BY <1>0, <2>1, DirectMergeAssumption DEF Consumed
  <2>3. OwnsEffect
    BY <1>0, <2>1 DEF Active, OwnsEffect
  <2> HIDE DEF Consumed
  <2>4. UNCHANGED <<act, enabled, pc, sent>>
    BY <1>13, <2>2, <2>3 DEF HookEnds, locals
  <2> QED
    BY <1>1, <2>4
<1>14. CASE GitHub \/ HookBegin \/ HookReads \/ HookFails \/ UNCHANGED vars
  BY <1>1, <1>14 DEF GitHub, ClosePr, MergeElsewhere, AuthorActs, HookBegin, HookReads,
     HookFails, locals, vars
<1> QED
  BY <1>2, <1>3, <1>4, <1>5, <1>6, <1>7, <1>8, <1>9, <1>10, <1>11, <1>12, <1>13, <1>14,
     PublisherCases DEF Next, Operator, HookStep, Moves

-----------------------------------------------------------------------------
(* A merge that is reported is true, and CCM's own merge is not lost. *)

\* GitHub never takes a merge back.
LEMMA MergeIsForEver ==
    TypeOK /\ [Next]_vars /\ pr.state = "merged" =>
        pr'.state = "merged" /\ pr'.ours = pr.ours
<1> SUFFICES ASSUME TypeOK, [Next]_vars, pr.state = "merged"
             PROVE  pr'.state = "merged" /\ pr'.ours = pr.ours
  OBVIOUS
<1>1. CASE GitHub
  BY <1>1 DEF GitHub, ClosePr, MergeElsewhere, AuthorActs, TypeOK, PrType
<1>2. ASSUME NEW p \in Publisher, Land(p) \/ Refuse(p) PROVE UNCHANGED pr
  BY <1>2 DEF Land, Refuse, remote
<1>3. ASSUME NEW p \in Publisher, PublisherStep(p) \/ CallFails(p) \/ Crash(p)
      PROVE  UNCHANGED pr
  BY <1>3 DEF PublisherStep, Claim, SettleIntent, FirstRead, Check, Guard, Final, Send, Answer,
     Confirm, Comment, Post, Done, Reread, Record, CallFails, Crash, remote
<1>4. CASE \/ Operator \/ LeaseExpires \/ HookBegin \/ HookStep \/ HookFails
           \/ UNCHANGED vars
  BY <1>4 DEF Operator, Arm, Pause, Disable, Enable, Resume, FindingChanges, Synchronize,
     Reopen, LeaseExpires, HookBegin, HookStep, HookReads, HookPersists, HookEnds, HookFails,
     remote, vars
<1> QED
  BY <1>1, <1>2, <1>3, <1>4 DEF Next

\* Only GitHub processing an update makes the merge CCM's own.
LEMMA OwnMergeLands ==
    TypeOK /\ [Next]_vars /\ pr'.ours => pr.ours \/ \E p \in Publisher : Land(p)
<1> SUFFICES ASSUME TypeOK, [Next]_vars, pr'.ours, ~\E p \in Publisher : Land(p)
             PROVE  pr.ours
  OBVIOUS
<1>1. CASE GitHub
  BY <1>1 DEF GitHub, ClosePr, MergeElsewhere, AuthorActs, EndPr, TypeOK, PrType
<1>2. ASSUME NEW p \in Publisher, PublisherStep(p) \/ Refuse(p) \/ CallFails(p) \/ Crash(p)
      PROVE  UNCHANGED pr
  BY <1>2 DEF PublisherStep, Claim, SettleIntent, FirstRead, Check, Guard, Final, Send, Answer,
     Confirm, Comment, Post, Done, Reread, Record, Refuse, CallFails, Crash, remote
<1>3. CASE \/ Operator \/ LeaseExpires \/ HookBegin \/ HookStep \/ HookFails
           \/ UNCHANGED vars
  BY <1>3 DEF Operator, Arm, Pause, Disable, Enable, Resume, FindingChanges, Synchronize,
     Reopen, LeaseExpires, HookBegin, HookStep, HookReads, HookPersists, HookEnds, HookFails,
     remote, vars
<1> QED
  BY <1>1, <1>2, <1>3 DEF Next

\* Everybody but the publisher itself leaves its place and its last read alone.
LEMMA OthersKeepPlace ==
    ASSUME TypeOK, [Next]_vars, NEW q \in Publisher,
           ~(PublisherStep(q) \/ CallFails(q) \/ Crash(q))
    PROVE  pc'[q] = pc[q] /\ saw'[q] = saw[q]
<1>1. CASE GitHub \/ (\E p \in Publisher : Land(p) \/ Refuse(p)) \/ LeaseExpires \/ HookBegin \/ HookStep
           \/ HookFails \/ UNCHANGED vars
  BY <1>1 DEF GitHub, ClosePr, MergeElsewhere, AuthorActs, Land, Refuse, LeaseExpires,
     HookBegin,
     HookStep, HookReads, HookPersists, HookEnds, HookFails, locals, vars
<1>2. CASE Operator
  BY <1>2 DEF Operator, Arm, Pause, Disable, Enable, Resume, FindingChanges, Synchronize,
     Reopen, locals
<1>3. ASSUME NEW p \in Publisher, p # q, PublisherStep(p) \/ CallFails(p) \/ Crash(p)
      PROVE  pc'[q] = pc[q] /\ saw'[q] = saw[q]
  <2>1. CASE \/ Claim(p) \/ FirstRead(p) \/ Guard(p) \/ Final(p) \/ Send(p) \/ Answer(p)
             \/ Confirm(p) \/ Comment(p) \/ Post(p) \/ Reread(p) \/ CallFails(p)
    BY <1>3, <2>1 DEF Claim, FirstRead, Guard, Final, Send, Answer, Confirm, Comment, Post, Reread,
       CallFails, Goto, Raise, TypeOK
  <2>2. CASE Finishes(p) \/ Crash(p)
    BY <1>3, <2>2, FinishEffect DEF Crash, Return, Goto, TypeOK
  <2>3. CASE Check(p) /\ ~Settles(p, saw[p])
    BY <1>3, <2>3 DEF Check, Goto, Raise, TypeOK
  <2> QED
    BY <1>3, <2>1, <2>2, <2>3, PublisherCases DEF Moves
<1> QED
  BY <1>1, <1>2, <1>3 DEF Next

\* What a publisher knows after a step of its own.
LEMMA OwnPlace ==
    ASSUME TypeOK, MergeSeen, NEW p \in Publisher,
           PublisherStep(p) \/ CallFails(p) \/ Crash(p)
    PROVE  /\ pc'[p] \in {"intent", "comment", "post", "done"} => pr.state = "merged"
           /\ saw'[p] = "merged" => pr.state = "merged"
           /\ pc'[p] \notin {"check", "record"} => saw'[p] = "unknown"
           /\ saw'[p] \in {saw[p], "unknown", ReadsAs}
<1>0. /\ pc[p] \in {"intent", "comment", "post", "done"} => pr.state = "merged"
      /\ saw[p] = "merged" => pr.state = "merged"
      /\ pc[p] \notin {"check", "record"} => saw[p] = "unknown"
      /\ run.intent = "merged" => pr.state = "merged"
  BY DEF MergeSeen
<1>1. ReadsAs = "merged" => pr.state = "merged"
  BY DEF ReadsAs
<1>2. CASE Claim(p)
  BY <1>0, <1>2 DEF Claim, Goto, ExactMergedIntent, TypeOK
<1>3. CASE FirstRead(p) \/ Reread(p)
  BY <1>0, <1>1, <1>3 DEF FirstRead, Reread, Goto, Raise, TypeOK
<1>4. CASE Guard(p) \/ Confirm(p)
  BY <1>0, <1>1, <1>4 DEF Guard, Confirm, Goto, Raise, TypeOK
<1>5. CASE Final(p) \/ Send(p) \/ Answer(p) \/ Comment(p) \/ Post(p)
  BY <1>0, <1>5 DEF Final, Send, Answer, Comment, Post, Goto, Raise, TypeOK
<1>6. CASE CallFails(p)
  BY <1>0, <1>6 DEF CallFails, Goto, Raise, TypeOK
<1>7. CASE Finishes(p) \/ Crash(p)
  BY <1>7, FinishEffect DEF Crash, Return, Goto, TypeOK
<1>8. CASE Check(p) /\ ~Settles(p, saw[p])
  BY <1>8 DEF Check, Goto, Raise, TypeOK
<1> QED
  BY <1>2, <1>3, <1>4, <1>5, <1>6, <1>7, <1>8, PublisherCases DEF Moves

\* The intent and the hook speak of a merge only after GitHub showed it.
LEMMA IntentStep ==
    TypeOK /\ MergeSeen /\ [Next]_vars =>
        /\ run'.intent = "merged" => pr.state = "merged"
        /\ hook'.pc \in {"verified", "persisted", "repeated"} /\ hook'.end = "merged" =>
              pr.state = "merged"
<1> DEFINE Seen == /\ run'.intent = "merged" => pr.state = "merged"
                   /\ hook'.pc \in {"verified", "persisted", "repeated"}
                      /\ hook'.end = "merged" => pr.state = "merged"
<1> SUFFICES ASSUME TypeOK, MergeSeen, [Next]_vars PROVE Seen
  OBVIOUS
<1>0. /\ run.intent = "merged" => pr.state = "merged"
      /\ hook.pc \in {"verified", "persisted", "repeated"} /\ hook.end = "merged" =>
            pr.state = "merged"
  BY DEF MergeSeen
<1>1. ASSUME run'.intent \in {run.intent, "none"}, hook'.pc = hook.pc, hook'.end = hook.end
      PROVE  Seen
  BY <1>0, <1>1
<1>2. ASSUME NEW p \in Publisher, Finishes(p) PROVE Seen
  <2>1. ASSUME NEW s \in Terminal, SettleAs(s) PROVE Seen
    BY <1>1, <2>1, SettleEffect
  <2>2. ASSUME RecordFailure(p) PROVE Seen
    BY <1>1, <2>2, RecordEffect
  <2> QED
    BY <1>1, <1>2, <2>1, <2>2, FinishEffect
<1>3. ASSUME NEW p \in Publisher,
             Claim(p) \/ Moves(p) \/ (Check(p) /\ ~Settles(p, saw[p])) \/ Land(p) \/ Refuse(p)
      PROVE  Seen
  BY <1>1, <1>3 DEF Claim, Moves, FirstRead, Guard, Final, Send, Answer, Confirm, Comment, Post,
     Reread, CallFails, Crash, Check, Land, Refuse
<1>4. CASE Operator
  <2>1. UNCHANGED <<run, hook>> \/ \E new : ChangeRun(new) /\ new.intent \in {run.intent, "none"}
    <3>1. ASSUME NEW new, ChangeRun(new), new.intent \in {run.intent, "none"}
          PROVE  \E x : ChangeRun(x) /\ x.intent \in {run.intent, "none"}
      BY <3>1
    <3>2. CASE Arm
      BY <3>1, <3>2 DEF Arm, TypeOK, RunType
    <3>3. CASE Pause
      BY <3>1, <3>3 DEF Pause, TypeOK, RunType
    <3>4. CASE Disable
      BY <3>1, <3>4 DEF Disable, TypeOK, RunType
    <3>5. CASE Enable \/ FindingChanges
      BY <3>5 DEF Enable, FindingChanges
    <3>6. CASE Resume
      BY <3>1, <3>6 DEF Resume, TypeOK, RunType
    <3>7. CASE Synchronize
      BY <3>1, <3>7 DEF Synchronize, TypeOK, RunType
    <3>8. CASE Reopen
      BY <3>1, <3>8 DEF Reopen, TypeOK, RunType
    <3> QED
      BY <1>4, <3>2, <3>3, <3>4, <3>5, <3>6, <3>7, <3>8 DEF Operator
  <2>2. ASSUME NEW new, ChangeRun(new), new.intent \in {run.intent, "none"} PROVE Seen
    BY <1>1, <2>2 DEF ChangeRun, TypeOK, HookType
  <2> QED
    BY <1>1, <2>1, <2>2
<1>5. CASE GitHub \/ LeaseExpires \/ UNCHANGED vars
  BY <1>1, <1>5 DEF GitHub, ClosePr, MergeElsewhere, AuthorActs, LeaseExpires, vars
<1>6. CASE HookBegin \/ HookFails
  BY <1>0, <1>6 DEF HookBegin, HookFails, IdleHook
<1>7. CASE HookReads
  BY <1>0, <1>7 DEF HookReads, HookMatches, IdleHook, TypeOK, HookType
<1>8. CASE HookPersists
  <2>1. CASE enabled /\ hook.fresh
    <3>1. run'.intent = hook.end /\ hook'.end = hook.end /\ hook.pc = "verified"
      BY <1>8, <2>1 DEF HookPersists, TypeOK, HookType, RunType
    <3> QED
      BY <1>0, <3>1
  <2>2. CASE ~(enabled /\ hook.fresh)
    BY <1>0, <1>8, <2>2 DEF HookPersists, IdleHook
  <2> QED
    BY <2>1, <2>2
<1>9. CASE HookEnds
  BY <1>0, <1>9 DEF HookEnds, IdleHook, TypeOK, RunType
<1> QED
  BY <1>2, <1>3, <1>4, <1>5, <1>6, <1>7, <1>8, <1>9, PublisherCases DEF Next, HookStep

\* A publisher becomes the holder by its own claim and by nothing else.
LEMMA HolderChanges ==
    ASSUME TypeOK, [Next]_vars
    PROVE  \/ act'.holder \in {act.holder, NoOne}
           \/ \E p \in Publisher : Claim(p) /\ act'.holder = p
<1> DEFINE Left == act'.holder \in {act.holder, NoOne}
<1>1. ASSUME NEW p \in Publisher, Finishes(p) PROVE Left
  BY <1>1, FinishEffect, SettleEffect, RecordEffect
<1>2. ASSUME NEW p \in Publisher,
             Moves(p) \/ (Check(p) /\ ~Settles(p, saw[p])) \/ Land(p) \/ Refuse(p)
      PROVE  Left
  BY <1>2 DEF Moves, FirstRead, Guard, Final, Send, Answer, Confirm, Comment, Post, Reread,
     CallFails, Crash, Check, Land, Refuse
<1>3. ASSUME NEW p \in Publisher, Claim(p) PROVE act'.holder = p
  BY <1>3 DEF Claim, TypeOK, ActionType
<1>4. CASE Operator \/ LeaseExpires
  BY <1>4 DEF Operator, Arm, Pause, Disable, Enable, Resume, FindingChanges, Synchronize,
     Reopen, LeaseExpires, TypeOK, ActionType
<1>5. CASE HookEnds
  <2>1. Consumed \in ActionType /\ Consumed.holder \in {act.holder, NoOne}
    BY DirectMergeAssumption DEF Consumed, TypeOK, ActionType
  <2> HIDE DEF Consumed
  <2> QED
    BY <1>5, <2>1 DEF HookEnds, ActionType
<1>6. CASE GitHub \/ HookBegin \/ HookReads \/ HookPersists \/ HookFails \/ UNCHANGED vars
  BY <1>6 DEF GitHub, ClosePr, MergeElsewhere, AuthorActs, HookBegin, HookReads,
     HookPersists, HookFails, vars
<1> QED
  BY <1>1, <1>2, <1>3, <1>4, <1>5, <1>6, PublisherCases DEF Next, HookStep

\* What a publisher knows after any step.
LEMMA PlaceStep ==
    ASSUME TypeOK, MergeSeen, [Next]_vars, NEW p \in Publisher
    PROVE  /\ pc'[p] \in {"intent", "comment", "post", "done"} => pr.state = "merged"
           /\ saw'[p] = "merged" => pr.state = "merged"
           /\ pc'[p] \notin {"check", "record"} => saw'[p] = "unknown"
           /\ saw'[p] \in {saw[p], "unknown", ReadsAs}
<1>1. CASE PublisherStep(p) \/ CallFails(p) \/ Crash(p)
  BY <1>1, OwnPlace
<1>2. CASE ~(PublisherStep(p) \/ CallFails(p) \/ Crash(p))
  BY <1>2, OthersKeepPlace DEF MergeSeen
<1> QED
  BY <1>1, <1>2

LEMMA SeenStep == TypeOK /\ MergeSeen /\ [Next]_vars => MergeSeen'
<1> SUFFICES ASSUME TypeOK, MergeSeen, [Next]_vars
             PROVE  MergeSeen'
  OBVIOUS
<1>1. pr.state = "merged" => pr'.state = "merged" /\ pr'.ours = pr.ours
  BY MergeIsForEver
<1>2. ASSUME pr'.ours PROVE pr'.state = "merged"
  <2>1. ASSUME NEW p \in Publisher, Land(p), ~pr.ours PROVE pr'.state = "merged"
    BY <1>2, <2>1 DEF Land, EndPr, TypeOK, PrType
  <2> QED
    BY <1>1, <1>2, <2>1, OwnMergeLands DEF MergeSeen
<1>3. \A p \in Publisher :
        /\ pc'[p] \in {"intent", "comment", "post", "done"} => pr.state = "merged"
        /\ saw'[p] = "merged" => pr.state = "merged"
        /\ pc'[p] \notin {"check", "record"} => saw'[p] = "unknown"
  BY PlaceStep
<1>4. /\ run'.intent = "merged" => pr.state = "merged"
      /\ hook'.pc \in {"verified", "persisted", "repeated"} /\ hook'.end = "merged" =>
            pr.state = "merged"
  BY IntentStep
<1> QED
  BY <1>1, <1>2, <1>3, <1>4 DEF MergeSeen

\* No update of a holder lands after it has read that nothing was merged.
LEMMA OwnSeenStep ==
    ASSUME ~Overdue
    PROVE  TypeOK /\ WriterHolds /\ MergeSeen /\ OwnSeen /\ [Next]_vars => OwnSeen'
<1> SUFFICES ASSUME TypeOK, WriterHolds, MergeSeen, OwnSeen, [Next]_vars,
                    NEW p \in Publisher, pr'.ours, act'.holder = p
             PROVE  saw'[p] \in {"unknown", "merged"}
  BY DEF OwnSeen
<1>1. /\ pc'[p] \notin {"check", "record"} => saw'[p] = "unknown"
      /\ saw'[p] \in {saw[p], "unknown", ReadsAs}
  BY PlaceStep
<1>2. CASE pr.ours /\ act.holder = p
  <2>1. ReadsAs = "merged"
    BY <1>2 DEF ReadsAs, MergeSeen
  <2> QED
    BY <1>1, <1>2, <2>1 DEF OwnSeen
<1>3. CASE pr.ours /\ act.holder # p
  <2>1. Claim(p)
    BY <1>3, HolderChanges, DirectMergeAssumption
  <2>2. pc'[p] \in {"intent", "read"}
    BY <2>1 DEF Claim, Goto, TypeOK
  <2> QED
    BY <1>1, <2>2
<1>4. CASE ~pr.ours
  <2>1. PICK q \in Publisher : Land(q)
    BY <1>4, OwnMergeLands
  <2>2. act.holder = q /\ pc[q] \in {"send", "await", "idle"}
    BY <2>1 DEF Land, WriterHolds
  <2>3. UNCHANGED <<act, pc, saw>>
    BY <2>1 DEF Land, locals
  <2> QED
    BY <2>2, <2>3 DEF MergeSeen
<1> QED
  BY <1>2, <1>3, <1>4

LEMMA TrueStep ==
    TypeOK /\ MergeSeen /\ MergedIsTrue /\ [Next]_vars => MergedIsTrue'
<1> SUFFICES ASSUME TypeOK, MergeSeen, MergedIsTrue, [Next]_vars PROVE MergedIsTrue'
  OBVIOUS
<1>0. /\ pr.state = "merged" => pr'.state = "merged"
      /\ act.status = "merged" \/ run.status = "merged" => pr.state = "merged"
  BY MergeIsForEver DEF MergedIsTrue
<1>1. ASSUME act'.status = "merged" => act.status = "merged",
             run'.status = "merged" => run.status = "merged"
      PROVE  MergedIsTrue'
  BY <1>0, <1>1 DEF MergedIsTrue
<1>2. ASSUME NEW p \in Publisher, Finishes(p) PROVE MergedIsTrue'
  <2>1. ASSUME NEW s \in Terminal, SettleAs(s), s = "merged" => pr.state = "merged"
        PROVE  MergedIsTrue'
    <3>1. CASE s = "merged"
      BY <1>0, <2>1, <3>1 DEF MergedIsTrue
    <3>2. CASE s # "merged"
      <4>1. act'.status = "superseded" /\ (UNCHANGED run \/ run'.status = s)
        BY <2>1, <3>2, SettleEffect
      <4> QED
        BY <1>1, <3>2, <4>1
    <3> QED
      BY <3>1, <3>2
  <2>2. ASSUME RecordFailure(p) PROVE MergedIsTrue'
    BY <1>1, <2>2, RecordEffect
  <2> QED
    BY <1>1, <1>2, <2>1, <2>2, FinishEffect DEF MergeSeen
<1>3. ASSUME NEW p \in Publisher,
             Claim(p) \/ Moves(p) \/ (Check(p) /\ ~Settles(p, saw[p])) \/ Land(p) \/ Refuse(p)
      PROVE  MergedIsTrue'
  <2>1. UNCHANGED run /\ (UNCHANGED act \/ act'.status = "enqueuing")
    BY <1>3 DEF Claim, Moves, FirstRead, Guard, Final, Send, Answer, Confirm, Comment, Post, Reread,
       CallFails, Crash, Check, Land, Refuse, TypeOK, ActionType
  <2> QED
    BY <1>1, <2>1
<1>4. CASE Arm
  BY <1>1, <1>4 DEF Arm, ChangeRun, TypeOK, RunType
<1>5. CASE Pause \/ Disable \/ Resume \/ Synchronize
  BY <1>1, <1>5 DEF Pause, Disable, Resume, Synchronize, ChangeRun, TypeOK, RunType
<1>6. CASE Reopen
  <2>1. run'.status = "reviewing"
    BY <1>6 DEF Reopen, ChangeRun, TypeOK, RunType
  <2>2. act'.status \in {act.status, "superseded"}
    BY <1>6 DEF Reopen, TypeOK, ActionType
  <2> QED
    BY <1>1, <2>1, <2>2
<1>7. CASE LeaseExpires
  BY <1>1, <1>7 DEF LeaseExpires, TypeOK, ActionType
<1>8. CASE HookPersists
  BY <1>1, <1>8 DEF HookPersists, TypeOK, RunType
<1>9. CASE HookEnds
  <2>1. run'.status = "merged" => run.status = "merged" \/ pr.state = "merged"
    BY <1>9 DEF HookEnds, MergeSeen, TypeOK, RunType
  <2>2. act'.status = "merged" => act.status = "merged" \/ pr.state = "merged"
    <3>1. Consumed.status = "merged" => act.status = "merged" \/ pr.state = "merged"
      BY DEF Consumed, ExactMergedIntent, MergeSeen, TypeOK, ActionType
    <3>2. Consumed \in ActionType
      BY DEF Consumed, TypeOK, ActionType
    <3> HIDE DEF Consumed
    <3> QED
      BY <1>9, <3>1, <3>2 DEF HookEnds, ActionType
  <2> QED
    BY <1>0, <2>1, <2>2 DEF MergedIsTrue
<1>10. CASE GitHub \/ Enable \/ FindingChanges \/ HookBegin \/ HookReads \/ HookFails
            \/ UNCHANGED vars
  BY <1>1, <1>10 DEF GitHub, ClosePr, MergeElsewhere, AuthorActs, Enable, FindingChanges,
     HookBegin, HookReads, HookFails, vars
<1> QED
  BY <1>2, <1>3, <1>4, <1>5, <1>6, <1>7, <1>8, <1>9, <1>10, PublisherCases
  DEF Next, Operator, HookStep

\* Whoever moves the run under a hook ends the generation the hook has frozen.
LEMMA FreshStep == TypeOK /\ FreshHook /\ [Next]_vars => FreshHook'
<1> SUFFICES ASSUME TypeOK, FreshHook, [Next]_vars PROVE FreshHook'
  OBVIOUS
<1>1. ASSUME UNCHANGED hook \/ hook' = IdleHook, run'.status # "reviewing" \/ UNCHANGED run
      PROVE  FreshHook'
  BY <1>1 DEF FreshHook, IdleHook
<1>2. ASSUME NEW new, ChangeRun(new) PROVE FreshHook'
  BY <1>2 DEF FreshHook, ChangeRun, TypeOK, HookType
<1>3. ASSUME NEW p \in Publisher, Finishes(p) PROVE FreshHook'
  <2>1. ASSUME NEW s \in Terminal, SettleAs(s) PROVE FreshHook'
    BY <1>1, <1>2, <2>1 DEF SettleAs
  <2>2. ASSUME RecordFailure(p) PROVE FreshHook'
    BY <1>1, <1>2, <2>2 DEF RecordFailure
  <2> QED
    BY <1>1, <1>3, <2>1, <2>2, FinishEffect
<1>4. ASSUME NEW p \in Publisher,
             Claim(p) \/ Moves(p) \/ (Check(p) /\ ~Settles(p, saw[p])) \/ Land(p) \/ Refuse(p)
      PROVE  FreshHook'
  BY <1>1, <1>4 DEF Claim, Moves, FirstRead, Guard, Final, Send, Answer, Confirm, Comment, Post,
     Reread, CallFails, Crash, Check, Land, Refuse
<1>5. CASE Operator
  BY <1>1, <1>2, <1>5 DEF Operator, Arm, Pause, Disable, Enable, Resume, FindingChanges,
     Synchronize, Reopen
<1>6. CASE GitHub \/ LeaseExpires \/ HookFails \/ UNCHANGED vars
  BY <1>1, <1>6 DEF GitHub, ClosePr, MergeElsewhere, AuthorActs, LeaseExpires, HookFails, vars
<1>7. CASE HookBegin
  BY <1>7 DEF HookBegin, FreshHook
<1>8. CASE HookReads
  BY <1>8 DEF HookReads, FreshHook, IdleHook, TypeOK, HookType
<1>9. CASE HookPersists
  <2>1. CASE enabled /\ hook.fresh
    <3>1. run' = [run EXCEPT !.intent = hook.end, !.exact = hook.exact]
      BY <1>9, <2>1 DEF HookPersists
    <3>2. run'.status = run.status
      BY <3>1 DEF TypeOK, RunType
    <3>3. run.status # "reviewing"
      BY <1>9, <2>1 DEF HookPersists, FreshHook
    <3> QED
      BY <3>2, <3>3 DEF FreshHook
  <2>2. CASE ~(enabled /\ hook.fresh)
    BY <1>1, <1>9, <2>2 DEF HookPersists
  <2> QED
    BY <2>1, <2>2
<1>10. CASE HookEnds
  BY <1>10 DEF HookEnds, FreshHook, IdleHook
<1> QED
  BY <1>3, <1>4, <1>5, <1>6, <1>7, <1>8, <1>9, <1>10, PublisherCases DEF Next, HookStep

LEMMA KeptStep ==
    ASSUME ~Overdue
    PROVE  TypeOK /\ WriterHolds /\ MergeSeen /\ OwnSeen /\ OwnMergeKept /\ [Next]_vars
             => OwnMergeKept'
<1> SUFFICES ASSUME TypeOK, WriterHolds, MergeSeen, OwnSeen, OwnMergeKept, [Next]_vars,
                    pr'.ours
             PROVE  act'.status \in {"enqueuing", "merged"}
  BY DEF OwnMergeKept
<1> DEFINE Kept == act'.status \in {"enqueuing", "merged"}
<1>1. CASE ~pr.ours
  <2>1. PICK q \in Publisher : Land(q)
    BY <1>1, OwnMergeLands
  <2>2. act.status = "enqueuing" /\ UNCHANGED act
    BY <2>1 DEF Land, WriterHolds
  <2> QED
    BY <2>2
<1>2. CASE pr.ours
  <2>0. act.status \in {"enqueuing", "merged"} /\ pr.state = "merged"
    BY <1>2 DEF OwnMergeKept, MergeSeen
  <2>1. ASSUME NEW p \in Publisher, Finishes(p) PROVE Kept
    <3>1. act.holder = p => saw[p] \in {"unknown", "merged"}
      BY <1>2 DEF OwnSeen
    <3>2. ASSUME SettleAs("merged") PROVE Kept
      BY <3>2, SettleEffect DEF Terminal
    <3>3. ASSUME RecordFailure(p), act.holder = p PROVE Kept
      BY <2>0, <3>1, <3>3, RecordEffect
    <3> QED
      BY <2>0, <2>1, <3>1, <3>2, <3>3, FinishEffect DEF Terminal
  <2>2. ASSUME NEW p \in Publisher,
               Claim(p) \/ Moves(p) \/ (Check(p) /\ ~Settles(p, saw[p])) \/ Land(p) \/ Refuse(p)
        PROVE  Kept
    BY <2>0, <2>2 DEF Claim, Moves, FirstRead, Guard, Final, Send, Answer, Confirm, Comment, Post,
       Reread, CallFails, Crash, Check, Land, Refuse, TypeOK, ActionType
  <2>3. CASE Operator
    BY <2>0, <2>3 DEF Operator, Arm, Pause, Disable, Enable, Resume, FindingChanges,
       Synchronize, Reopen
  <2>4. CASE LeaseExpires
    BY <2>0, <2>4 DEF LeaseExpires, TypeOK, ActionType
  <2>5. CASE HookEnds
    <3>1. Consumed \in ActionType /\ Consumed.status \in {"enqueuing", "merged"}
      BY <2>0 DEF Consumed, TypeOK, ActionType
    <3> HIDE DEF Consumed
    <3> QED
      BY <2>0, <2>5, <3>1 DEF HookEnds, ActionType
  <2>6. CASE GitHub \/ HookBegin \/ HookReads \/ HookPersists \/ HookFails \/ UNCHANGED vars
    BY <2>0, <2>6 DEF GitHub, ClosePr, MergeElsewhere, AuthorActs, HookBegin, HookReads,
       HookPersists, HookFails, vars
  <2> QED
    BY <2>1, <2>2, <2>3, <2>4, <2>5, <2>6, PublisherCases DEF Next, HookStep
<1> QED
  BY <1>1, <1>2

-----------------------------------------------------------------------------
(* The theorems. *)

LEMMA InvInit == Init => DirectInv
<1> SUFFICES ASSUME Init PROVE DirectInv
  OBVIOUS
<1>1. LeaseOwned /\ ArmedRun /\ MergedIsTrue /\ OwnMergeKept
  BY DEF Init, LeaseOwned, ArmedRun, Active, MergedIsTrue, OwnMergeKept
<1>3. FreshHook
  BY DEF Init, FreshHook, IdleHook
<1>2. WriterHolds /\ MergeSeen /\ OwnSeen
  BY DEF Init, WriterHolds, MergeSeen, OwnSeen, IdleHook
<1> QED
  BY <1>1, <1>2, <1>3, TypeInit DEF DirectInv, MergeInv

LEMMA MergeInvHolds == Spec => []MergeInv
<1>1. Init => MergeInv
  BY InvInit DEF DirectInv
<1>2. MergeInv /\ [Next]_vars => MergeInv'
  BY TypeStep, LeaseStep, SeenStep, TrueStep, FreshStep DEF MergeInv
<1> QED
  BY <1>1, <1>2, PTL DEF Spec

LEMMA InvStep ==
    ASSUME ~Overdue
    PROVE  DirectInv /\ [Next]_vars => DirectInv'
BY TypeStep, LeaseStep, WriterStep, SeenStep, OwnSeenStep, TrueStep, FreshStep,
   KeptStep
   DEF DirectInv, MergeInv

LEMMA InvHolds ==
    ASSUME ~Overdue
    PROVE  Spec => []DirectInv
BY InvInit, InvStep, PTL DEF Spec

\* An armed action always has its run in merge_pending, overdue calls or not.
THEOREM ArmedRunHolds == Spec => []ArmedRun
<1>1. MergeInv => ArmedRun
  BY DEF MergeInv
<1> QED
  BY <1>1, MergeInvHolds, PTL

\* At most one publisher can move the base branch, across crashes, leases that
\* run out, and any number of reconcilers.
THEOREM OneWriterHolds ==
    ASSUME ~Overdue
    PROVE  Spec => []OneWriter
<1>1. DirectInv => OneWriter
  <2> SUFFICES ASSUME DirectInv PROVE Cardinality(Writing) <= 1
    BY DEF OneWriter
  <2>1. Writing \subseteq {act.holder}
    BY DEF DirectInv, WriterHolds, Writing
  <2>2. Writing = {} \/ Writing = {act.holder}
    BY <2>1
  <2>3. CASE Writing = {}
    BY <2>3, FS_EmptySet
  <2>4. CASE Writing = {act.holder}
    BY <2>4, FS_Singleton
  <2> QED
    BY <2>2, <2>3, <2>4
<1> QED
  BY <1>1, InvHolds, PTL

\* Pause, disable and a withdrawal are real: then nobody can move the branch.
THEOREM StopIsFinalHolds ==
    ASSUME ~Overdue
    PROVE  Spec => []StopIsFinal
<1>1. DirectInv => StopIsFinal
  BY DEF DirectInv, MergeInv, WriterHolds, ArmedRun, Active, StopIsFinal, Writing
<1> QED
  BY <1>1, InvHolds, PTL

\* What _settle_remote_terminal, the publisher's evidence or an intent settles
\* as merged was merged at GitHub, overdue calls or not.
THEOREM MergedIsTrueHolds == Spec => []MergedIsTrue
<1>1. MergeInv => MergedIsTrue
  BY DEF MergeInv
<1> QED
  BY <1>1, MergeInvHolds, PTL

\* A merge of CCM's own is not withdrawn and not forgotten.
THEOREM OwnMergeKeptHolds ==
    ASSUME ~Overdue
    PROVE  Spec => []OwnMergeKept
<1>1. DirectInv => OwnMergeKept
  BY DEF DirectInv
<1> QED
  BY <1>1, InvHolds, PTL

\* A record without an excuse has read whether the effect is absent.
LEMMA RecordReads ==
    ASSUME TypeOK, MergeSeen, [Next]_vars, ~Excused', NEW p \in Publisher,
           pc[p] = "record" => saw[p] # "unknown", pc'[p] = "record"
    PROVE  saw'[p] # "unknown"
<1>0. faults' = 0
  BY TypeStep DEF Excused, TypeOK
<1>1. CASE ~(PublisherStep(p) \/ CallFails(p) \/ Crash(p))
  BY <1>1, OthersKeepPlace
<1>2. CASE CallFails(p) \/ Crash(p)
  BY <1>0, <1>2 DEF CallFails, Crash, TypeOK
<1>3. CASE PublisherStep(p)
  <2>1. Reread(p)
    BY <1>3 DEF PublisherStep, Claim, SettleIntent, FirstRead, Check, Guard, Final, Send,
       Answer, Confirm, Comment, Post, Done, Record, Return, Raise, Goto, ExactMergedIntent,
       TypeOK
  <2>2. pr' = pr /\ saw'[p] = ReadsAs
    BY <2>1 DEF Reread, TypeOK, remote
  <2> QED
    BY <2>2 DEF ReadsAs, Excused
<1> QED
  BY <1>1, <1>2, <1>3

\* The end of a publication by its holder: settled, withdrawn, or given back
\* with an attempt left.
LEMMA FinishBudget ==
    ASSUME TypeOK, NEW p \in Publisher, Finishes(p),
           act.status = "enqueuing", act.holder = p,
           pc[p] = "record" => saw[p] # "unknown"
    PROVE  /\ act'.holder = NoOne /\ act'.tries = act.tries
           /\ act'.status \in Active => act.tries < MaxAttempts
<1>1. ASSUME NEW s, SettleAs(s)
      PROVE  /\ act'.holder = NoOne /\ act'.tries = act.tries
             /\ act'.status \in {"merged", "superseded"}
  BY <1>1 DEF SettleAs, TypeOK, ActionType
<1>2. CASE ~Record(p)
  BY <1>1, <1>2 DEF Finishes, SettleIntent, Check, Done, Settles, Terminal, Active
<1>3. CASE Record(p) /\ Settles(p, saw[p])
  BY <1>1, <1>3 DEF Record, Active
<1>4. CASE Record(p) /\ ~Settles(p, saw[p])
  <2>1. saw[p] \in {"open_exact", "open_changed"}
    BY <1>4 DEF Record, Settles, Terminal, TypeOK, RemoteState
  <2>2. RecordFailure(p)
    BY <1>4 DEF Record
  <2>3. act'.holder = NoOne /\ act'.tries = act.tries
    BY <2>2 DEF RecordFailure, TypeOK, ActionType
  <2>4. act'.status \in Active => ~(act.tries >= MaxAttempts)
    BY <2>1, <2>2 DEF RecordFailure, TypeOK, ActionType, Active
  <2> QED
    BY <2>3, <2>4, DirectMergeAssumption DEF TypeOK, ActionType
<1> QED
  BY <1>2, <1>3, <1>4

\* What the holder of a claim without an excuse may lose it to.
LEMMA BudgetStep == MergeInv /\ BudgetInv /\ [Next]_vars => BudgetInv'
<1> SUFFICES ASSUME MergeInv, BudgetInv, [Next]_vars, ~Excused' PROVE BudgetInv'
  BY DEF BudgetInv
<1> USE DirectMergeAssumption DEF Active
<1> DEFINE Within == /\ act.tries <= MaxAttempts
                     /\ act.status \in Active /\ act.tries >= MaxAttempts => act.holder # NoOne
                     /\ act.holder # NoOne => act.live /\ pc[act.holder] # "idle"
<1>a. TypeOK /\ MergeSeen /\ LeaseOwned /\ TypeOK'
  BY TypeStep DEF MergeInv
<1>b. faults' = 0 /\ ~Excused
  <2>1. faults' = 0
    BY <1>a DEF Excused, TypeOK
  <2>2. faults = 0
    <3>1. ASSUME NEW p \in Publisher, PublisherStep(p) \/ Land(p) \/ Refuse(p)
          PROVE  UNCHANGED faults
      BY <3>1 DEF PublisherStep, Claim, SettleIntent, FirstRead, Check, Guard, Final, Send,
         Answer, Confirm, Comment, Post, Done, Reread, Record, Land, Refuse
    <3>2. CASE GitHub \/ Operator \/ HookBegin \/ HookStep \/ UNCHANGED vars
      BY <2>1, <3>2 DEF GitHub, ClosePr, MergeElsewhere, AuthorActs, Operator, Arm, Pause,
         Disable, Enable, Resume, FindingChanges, Synchronize, Reopen, HookBegin, HookStep,
         HookReads, HookPersists, HookEnds, vars
    <3>3. ASSUME NEW p \in Publisher, CallFails(p) \/ Crash(p) PROVE faults' = faults + 1
      BY <3>3 DEF CallFails, Crash
    <3>4. CASE LeaseExpires \/ HookFails
      BY <1>a, <2>1, <3>4 DEF LeaseExpires, HookFails, TypeOK
    <3> QED
      BY <1>a, <2>1, <3>1, <3>2, <3>3, <3>4 DEF Next, TypeOK
  <2> QED
    BY <1>a, <2>1, <2>2, MergeIsForEver DEF Excused
<1>c. Within /\ \A p \in Publisher : pc[p] = "record" => saw[p] # "unknown"
  BY <1>b DEF BudgetInv
<1>d. \A p \in Publisher : pc'[p] = "record" => saw'[p] # "unknown"
  BY <1>a, <1>c, RecordReads
<1> SUFFICES Within'
  BY <1>d DEF BudgetInv
<1>1. ASSUME UNCHANGED <<act, pc>> PROVE Within'
  BY <1>1, <1>c
<1>2. ASSUME NEW p \in Publisher, Claim(p) PROVE Within'
  <2>1. act.holder = NoOne /\ act.tries < MaxAttempts
    BY <1>2, <1>a, <1>c DEF Claim, TypeOK, ActionType
  <2>2. act'.tries = act.tries + 1 /\ act'.holder = p /\ act'.live
    BY <1>2, <1>a, <2>1 DEF Claim, Counted, TypeOK, ActionType
  <2>3. pc'[p] # "idle"
    BY <1>2, <1>a DEF Claim, Goto, TypeOK
  <2> QED
    BY <1>a, <2>1, <2>2, <2>3 DEF TypeOK, ActionType
<1>3. ASSUME NEW p \in Publisher, Finishes(p) PROVE Within'
  <2>1. CASE act.holder # p
    <3>1. act' = act /\ pc' = [pc EXCEPT ![p] = "idle"]
      BY <1>a, <1>3, <2>1, FinishEffect DEF Return, Goto
    <3> QED
      BY <1>a, <1>c, <2>1, <3>1 DEF TypeOK
  <2>2. CASE act.holder = p
    <3>1. act.status = "enqueuing" /\ (pc[p] = "record" => saw[p] # "unknown")
      BY <1>a, <1>c, <2>2 DEF LeaseOwned
    <3>2. /\ act'.holder = NoOne /\ act'.tries = act.tries
          /\ act'.status \in Active => act.tries < MaxAttempts
      BY <1>3, <1>a, <2>2, <3>1, FinishBudget
    <3> QED
      BY <1>a, <1>c, <3>2 DEF TypeOK, ActionType
  <2> QED
    BY <2>1, <2>2
<1>4. ASSUME NEW p \in Publisher,
             Moves(p) \/ (Check(p) /\ ~Settles(p, saw[p])) \/ Land(p) \/ Refuse(p)
      PROVE  Within'
  <2>1. UNCHANGED act
    BY <1>4 DEF Moves, FirstRead, Guard, Final, Send, Answer, Confirm, Comment, Post, Reread,
       CallFails, Crash, Check, Land, Refuse
  <2>2. pc' = pc \/ \E l \in PublisherPc \ {"idle"} : Goto(p, l)
    <3>1. CASE FirstRead(p) \/ Guard(p) \/ Final(p) \/ Send(p) \/ Answer(p)
      BY <3>1 DEF FirstRead, Guard, Final, Send, Answer, Raise, PublisherPc
    <3>2. CASE Confirm(p) \/ Comment(p) \/ Post(p) \/ Reread(p)
               \/ (Check(p) /\ ~Settles(p, saw[p]))
      BY <3>2 DEF Confirm, Comment, Post, Reread, Check, Raise, PublisherPc
    <3>3. CASE CallFails(p) \/ Crash(p)
      BY <1>a, <1>b, <3>3 DEF CallFails, Crash, TypeOK
    <3>4. CASE Land(p) \/ Refuse(p)
      BY <3>4 DEF Land, Refuse, locals
    <3> QED
      BY <1>4, <3>1, <3>2, <3>3, <3>4 DEF Moves
  <2>3. act.holder \in Publisher => (pc[act.holder] # "idle" => pc'[act.holder] # "idle")
    BY <1>a, <2>2 DEF Goto, TypeOK
  <2>4. act.holder \in Publisher \cup {NoOne}
    BY <1>a DEF TypeOK, ActionType
  <2> QED
    BY <1>c, <2>1, <2>3, <2>4
<1>5. CASE Operator
  <2>1. UNCHANGED pc
    BY <1>5 DEF Operator, Arm, Pause, Disable, Enable, Resume, FindingChanges, Synchronize,
       Reopen, locals
  <2>2. CASE Arm
    BY <2>2 DEF Arm
  <2>3. CASE Reopen
    <3>1. /\ act'.status \in Active => act'.status = act.status
          /\ act'.tries = act.tries /\ act'.holder = act.holder /\ act'.live = act.live
      BY <1>a, <2>3 DEF Reopen, TypeOK, ActionType
    <3> QED
      BY <1>c, <2>1, <3>1
  <2>4. CASE ~(Arm \/ Reopen)
    BY <1>1, <1>5, <2>1, <2>4 DEF Operator, Pause, Disable, Enable, Resume, FindingChanges,
       Synchronize
  <2> QED
    BY <2>2, <2>3, <2>4
<1>6. CASE LeaseExpires
  <2>1. act.holder # NoOne
    BY <1>a, <1>6 DEF LeaseExpires, LeaseOwned
  <2> QED
    BY <1>a, <1>b, <1>c, <1>6, <2>1 DEF LeaseExpires, TypeOK
<1>7. CASE HookEnds
  <2>1. /\ Consumed.status \in Active => Consumed = act
        /\ Consumed.tries = act.tries /\ Consumed.holder \in {act.holder, NoOne}
        /\ Consumed.holder # NoOne => Consumed = act
        /\ Consumed \in ActionType
    BY <1>a DEF Consumed, TypeOK, ActionType
  <2> HIDE DEF Consumed
  <2>2. act' = act \/ (act'.tries = Consumed.tries /\ act'.holder = Consumed.holder
                       /\ act'.live = Consumed.live
                       /\ (act'.status \in Active => act'.status = Consumed.status))
    BY <1>7, <2>1 DEF HookEnds, ActionType
  <2>3. UNCHANGED pc
    BY <1>7 DEF HookEnds, locals
  <2> QED
    BY <1>c, <2>1, <2>2, <2>3
<1>8. CASE GitHub \/ HookBegin \/ HookReads \/ HookPersists \/ HookFails \/ UNCHANGED vars
  BY <1>1, <1>8 DEF GitHub, ClosePr, MergeElsewhere, AuthorActs, HookBegin, HookReads,
     HookPersists, HookFails, locals, vars
<1> QED
  BY <1>2, <1>3, <1>4, <1>5, <1>6, <1>7, <1>8, PublisherCases DEF Next, HookStep

\* The budget of attempts is kept, overdue calls or not: an action is claimed
\* more often only after a fault, or while a stranger's merge hides its state.
THEOREM BudgetKeptHolds == Spec => []BudgetKept
<1>1. Init => BudgetInv
  BY DirectMergeAssumption DEF Init, BudgetInv, Active
<1>2. MergeInv /\ BudgetInv => BudgetKept
  BY DirectMergeAssumption DEF MergeInv, TypeOK, ActionType, BudgetInv, BudgetKept
<1> QED
  BY <1>1, <1>2, MergeInvHolds, BudgetStep, PTL DEF Spec

\* A live lease ends with its holder's own publication, or by time.
LEMMA RespectStep ==
    ASSUME TypeOK, LeaseOwned, [Next]_vars, NEW p \in Publisher,
           act.holder = p, act.live, act'.holder # p
    PROVE  pc[p] # "idle" /\ pc'[p] = "idle"
<1>0. act.status = "enqueuing" /\ p # NoOne /\ OwnsEffect
  BY DirectMergeAssumption DEF LeaseOwned, OwnsEffect, Active
<1>1. ASSUME NEW q \in Publisher, Finishes(q) PROVE pc[p] # "idle" /\ pc'[p] = "idle"
  BY <1>1, FinishEffect DEF Return, Goto, TypeOK
<1>2. ASSUME NEW q \in Publisher,
             Claim(q) \/ Moves(q) \/ (Check(q) /\ ~Settles(q, saw[q])) \/ Land(q) \/ Refuse(q)
      PROVE  FALSE
  BY <1>0, <1>2 DEF Claim, Moves, FirstRead, Guard, Final, Send, Answer, Confirm, Comment, Post,
     Reread, CallFails, Crash, Check, Land, Refuse
<1>3. CASE Operator
  BY <1>0, <1>3 DEF Operator, Arm, Pause, Disable, Enable, Resume, FindingChanges,
     Synchronize, Reopen
<1>4. CASE LeaseExpires
  BY <1>0, <1>4 DEF LeaseExpires, TypeOK, ActionType
<1>5. CASE HookEnds
  <2>1. Consumed = act
    BY <1>0, DirectMergeAssumption DEF Consumed
  <2> HIDE DEF Consumed
  <2> QED
    BY <1>0, <1>5, <2>1 DEF HookEnds
<1>6. CASE GitHub \/ HookBegin \/ HookReads \/ HookPersists \/ HookFails \/ UNCHANGED vars
  BY <1>6 DEF GitHub, ClosePr, MergeElsewhere, AuthorActs, HookBegin, HookReads,
     HookPersists, HookFails, vars
<1> QED
  BY <1>1, <1>2, <1>3, <1>4, <1>5, <1>6, PublisherCases DEF Next, HookStep

\* No other publisher, hook or operator takes an action that is being
\* published under a live lease, overdue calls or not.
THEOREM LeaseRespectedHolds == Spec => LeaseRespected
<1>1. MergeInv /\ [Next]_vars =>
        [\A p \in Publisher :
           act.holder = p /\ act.live /\ act'.holder # p =>
             pc[p] # "idle" /\ pc'[p] = "idle"]_vars
  BY RespectStep DEF MergeInv
<1> QED
  BY <1>1, MergeInvHolds, PTL DEF Spec, LeaseRespected

-----------------------------------------------------------------------------
(* Refinement: the outbox implements the contract. *)

LEMMA ContractStep == DirectInv /\ [Next]_vars => [Contract!CNext]_(Contract!cvars)
<1> DEFINE C == [Contract!CNext]_(Contract!cvars)
<1> SUFFICES ASSUME DirectInv, [Next]_vars PROVE C
  OBVIOUS
<1> USE DEF DirectInv, MergeInv
<1>1. ASSUME UNCHANGED <<act, run, landed, pr.ours>> PROVE C
  BY <1>1 DEF Stage, Contract!cvars
<1>2. act.status \in Active => run.status = "merge_pending"
  BY DEF ArmedRun
<1>3. ASSUME NEW p \in Publisher, Finishes(p) PROVE C
  <2>0. UNCHANGED <<landed, pr.ours>>
    BY <1>3, FinishEffect DEF remote
  <2>1. act.status = "enqueuing" => Stage = "armed"
    BY DEF Stage, Active
  <2>2. act.holder = p /\ pr.ours => saw[p] \in {"unknown", "merged"}
    BY DEF OwnSeen
  <2>3. ASSUME SettleAs("merged"), act.status = "enqueuing" PROVE C
    <3>1. Stage' = "merged"
      BY <2>3, SettleEffect DEF Terminal, Stage, Active
    <3> QED
      BY <2>0, <2>1, <2>3, <3>1 DEF Contract!CNext, Contract!Settle, Contract!Goes
  <2>4. ASSUME SettleAs("closed"), act.status = "enqueuing", ~pr.ours PROVE C
    <3>1. act'.status = "superseded" /\ (UNCHANGED run \/ run'.status = "closed")
      BY <2>4, SettleEffect DEF Terminal
    <3>2. Stage' \in {"settled", "over"}
      BY <1>2, <2>4, <3>1 DEF Stage, Active, Terminal
    <3> QED
      BY <2>0, <2>1, <2>4, <3>2 DEF Contract!CNext, Contract!Replace, Contract!Goes
  <2>5. ASSUME RecordFailure(p), act.status = "enqueuing", act.holder = p PROVE C
    <3>1. CASE act'.status = act.status /\ UNCHANGED run
      <4>1. UNCHANGED Stage
        BY <3>1 DEF Stage
      <4> QED
        BY <2>0, <4>1 DEF Contract!cvars
    <3>2. CASE ~(act'.status = act.status /\ UNCHANGED run)
      <4>1. /\ act'.status \in {"failed", "superseded"} /\ ~pr.ours
            /\ UNCHANGED run \/ run'.status \in {"paused", "ready_to_merge"}
        BY <2>2, <2>5, <3>2, RecordEffect
      <4>2. Stage' \in {"free", "settled"}
        BY <1>2, <2>5, <4>1 DEF Stage, Active, Terminal
      <4> QED
        BY <2>0, <2>1, <2>5, <4>1, <4>2
        DEF Contract!CNext, Contract!Replace, Contract!Withdraw, Contract!Goes
    <3> QED
      BY <3>1, <3>2
  <2>6. CASE UNCHANGED <<act, run>>
    BY <1>1, <2>0, <2>6
  <2> QED
    BY <1>3, <2>2, <2>3, <2>4, <2>5, <2>6, FinishEffect DEF Terminal
<1>4. ASSUME NEW p \in Publisher, Claim(p) PROVE C
  <2>1. Stage = "armed" /\ Stage' = "armed"
    BY <1>4 DEF Claim, Stage, Active, TypeOK, ActionType
  <2> QED
    BY <1>4, <2>1 DEF Claim, remote, Contract!cvars
<1>5. ASSUME NEW p \in Publisher,
             Moves(p) \/ (Check(p) /\ ~Settles(p, saw[p])) \/ Refuse(p)
      PROVE  C
  BY <1>1, <1>5 DEF Moves, FirstRead, Guard, Final, Send, Answer, Confirm, Comment, Post, Reread,
     CallFails, Crash, Check, Refuse, remote
<1>6. ASSUME NEW p \in Publisher, Land(p) PROVE C
  <2>1. Stage = "armed" /\ UNCHANGED <<act, run>>
    BY <1>6 DEF Land, WriterHolds, Stage, Active
  <2>2. UNCHANGED Stage
    BY <2>1 DEF Stage
  <2>3. CASE landed'
    <3>1. landed' = TRUE /\ pr'.ours \in {pr.ours, TRUE}
      BY <1>6, <2>3 DEF Land, EndPr, TypeOK, PrType
    <3> QED
      BY <2>1, <2>2, <3>1 DEF Contract!CNext, Contract!Push
  <2>4. CASE ~landed'
    BY <1>1, <1>6, <2>1, <2>4 DEF Land, TypeOK
  <2> QED
    BY <2>3, <2>4
<1>7. CASE Arm
  <2>1. act.status \in {"none", "failed"} /\ act'.status = "pending"
        /\ run.status = "ready_to_merge" /\ UNCHANGED <<landed, pr.ours>>
    BY <1>7 DEF Arm, TypeOK, ActionType, Active, remote
  <2>2. Stage = "free" /\ Stage' = "armed"
    BY <2>1 DEF Stage, Active, Terminal
  <2> QED
    BY <2>1, <2>2 DEF Contract!CNext, Contract!Click, Contract!Goes
<1>8. CASE Pause \/ Disable \/ Resume \/ Synchronize
  <2>1. UNCHANGED <<act, landed, pr.ours>> /\ act.status \notin Active
    BY <1>2, <1>8 DEF Pause, Disable, Resume, Synchronize, Quiescible, OwnsEffect, remote
  <2>2. \/ UNCHANGED run
        \/ /\ run.status \notin Terminal \cup {"reviewing"}
           /\ run'.status \in {"paused", "waiting_for_fix", "ready_to_merge", "reviewing"}
    BY <1>8 DEF Pause, Disable, Resume, Synchronize, Quiescible, ChangeRun, TypeOK, RunType,
       Terminal
  <2>3. UNCHANGED Stage \/ (Stage \in {"free", "settled"} /\ Stage' = "over")
    BY <2>1, <2>2 DEF Stage, Terminal
  <2> QED
    BY <2>1, <2>3 DEF Contract!CNext, Contract!End, Contract!Goes, Contract!cvars
<1>9. CASE Reopen
  <2>1. run'.status = "reviewing" /\ UNCHANGED <<landed, pr.ours>> /\ pr.state = "open"
    BY <1>9 DEF Reopen, ChangeRun, TypeOK, RunType, remote
  <2>2. ~pr.ours /\ act.status # "merged" /\ run.status # "merged"
    BY <2>1 DEF MergeSeen, MergedIsTrue
  <2>3. act'.status \notin Active \cup {"merged"}
    BY <1>9, <2>2 DEF Reopen, TypeOK, ActionType, OwnsEffect, Active
  <2>4. Stage' = "over" /\ Stage \in {"armed", "free", "settled", "over"}
    BY <2>1, <2>2, <2>3 DEF Stage
  <2> QED
    BY <2>1, <2>2, <2>4 DEF Contract!CNext, Contract!Replace, Contract!End, Contract!Goes,
       Contract!cvars
<1>10. CASE LeaseExpires
  <2>1. UNCHANGED <<run, act.status, landed, pr.ours>>
    BY <1>10 DEF LeaseExpires, TypeOK, ActionType, remote
  <2> QED
    BY <2>1 DEF Stage, Contract!cvars
<1>11. CASE HookPersists
  <2>1. UNCHANGED <<run.status, act, landed, pr.ours>>
    BY <1>11 DEF HookPersists, TypeOK, RunType, remote
  <2> QED
    BY <2>1 DEF Stage, Contract!cvars
<1>12. CASE HookEnds
  <2>0. UNCHANGED <<landed, pr.ours>>
    BY <1>12 DEF HookEnds, remote
  <2>1. CASE UNCHANGED <<act, run>>
    BY <1>1, <2>0, <2>1
  <2>2. CASE ~UNCHANGED <<act, run>>
    <3>1. /\ run'.status \in Terminal /\ run.status \notin Terminal \cup {"reviewing"}
          /\ Consumed # act \/ ~OwnsEffect
          /\ act' = [Consumed EXCEPT !.status = IF @ = "paused" THEN "superseded" ELSE @]
      BY <1>12, <2>2 DEF HookEnds, FreshHook, TypeOK, RunType, HookType
    <3>2. CASE Consumed # act
      <4>1. act.status \in Active /\ act'.status = "merged"
        BY <3>1, <3>2 DEF Consumed, TypeOK, ActionType
      <4>2. Stage = "armed" /\ Stage' = "merged"
        BY <4>1 DEF Stage, Active
      <4> QED
        BY <2>0, <4>2 DEF Contract!CNext, Contract!Settle, Contract!Goes
    <3>3. CASE Consumed = act
      <4>1. act' = act /\ act.status \notin Active
        BY <3>1, <3>3 DEF OwnsEffect, TypeOK, ActionType, Active
      <4>2. \/ Stage = "merged" /\ Stage' = "merged"
            \/ Stage \in {"free", "settled"} /\ Stage' \in {"over", "merged"}
        BY <3>1, <4>1 DEF Stage, Terminal
      <4> QED
        BY <2>0, <4>2 DEF Contract!CNext, Contract!End, Contract!Goes, Contract!cvars
    <3> QED
      BY <3>2, <3>3
  <2> QED
    BY <2>1, <2>2
<1>13. CASE GitHub
  <2>1. UNCHANGED <<act, run, landed>>
    BY <1>13 DEF GitHub, ClosePr, MergeElsewhere, AuthorActs
  <2>2. UNCHANGED pr.ours
    BY <1>13 DEF GitHub, ClosePr, MergeElsewhere, AuthorActs, EndPr, MergeSeen, TypeOK, PrType
  <2> QED
    BY <1>1, <2>1, <2>2
<1>14. CASE Enable \/ FindingChanges \/ HookBegin \/ HookReads \/ HookFails \/ UNCHANGED vars
  BY <1>1, <1>14 DEF Enable, FindingChanges, HookBegin, HookReads, HookFails, remote, vars
<1> QED
  BY <1>3, <1>4, <1>5, <1>6, <1>7, <1>8, <1>9, <1>10, <1>11, <1>12, <1>13, <1>14,
     PublisherCases
  DEF Next, Operator, HookStep

\* With calls that end within their leases, leases, reads and transactions add
\* up to the contract: one click, one effect, and a merge by CCM is settled as one.
THEOREM ContractImplemented ==
    ASSUME ~Overdue
    PROVE  Spec => ImplementsContract
<1>1. Init => Contract!CInit
  BY DEF Init, Contract!CInit, Stage, Active, Terminal
<1> QED
  BY <1>1, ContractStep, InvHolds, PTL DEF Spec, ImplementsContract, Contract!CSpec

\* The contract keeps what it is for: however the publications interleave, a
\* pull request that CCM has merged is never armed again or told as withdrawn.
THEOREM OwnMergeToldAsMerged ==
    ASSUME ~Overdue
    PROVE  Spec => []Contract!Kept
<1>1. Init => Contract!Kept
  BY DEF Init, Contract!Kept
<1>2. DirectInv /\ Contract!Kept /\ [Next]_vars => (Contract!Kept)'
  <2> SUFFICES ASSUME DirectInv, Contract!Kept, [Next]_vars PROVE (Contract!Kept)'
    OBVIOUS
  <2> QED
    BY ContractStep DEF Contract!CNext, Contract!Click, Contract!Withdraw, Contract!Settle,
       Contract!Push, Contract!Replace, Contract!End, Contract!Goes, Contract!cvars,
       Contract!Kept
<1> QED
  BY <1>1, <1>2, InvHolds, PTL DEF Spec
=============================================================================
