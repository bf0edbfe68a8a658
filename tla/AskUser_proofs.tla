--------------------------- MODULE AskUser_proofs ---------------------------
(***************************************************************************)
(* Proofs about AskUser: typing, the inductive invariant, and what follows *)
(* from it, for any number of requests, submissions and turn changes.      *)
(***************************************************************************)
EXTENDS AskUserProps, TLAPS

\* Typing is inductive: no step leaves the types of the state.
LEMMA TypeInit == Init => TypeOK
BY DEF Init, TypeOK, NoView, View

LEMMA TypeStep == TypeOK /\ [Next]_vars => TypeOK'
<1> SUFFICES ASSUME TypeOK, [Next]_vars PROVE TypeOK'
  OBVIOUS
<1> USE NullAssumption, BoundAssumption DEF TypeOK, Ended, Fulfilled, View, NoView, Row,
        taskVars, regVars, subVars, vars
<1>1. CASE TurnMoves
  BY <1>1 DEF TurnMoves, Writable
<1>2. CASE DeleteTask
  BY <1>2 DEF DeleteTask, Writable, Discard
<1>3. CASE ListReads
  BY <1>3 DEF ListReads
<1>4. CASE ListDrops
  BY <1>4 DEF ListDrops, Discard
<1>5. ASSUME NEW r \in Requests, WaitOpens(r) PROVE TypeOK'
  BY <1>5 DEF WaitOpens
<1>6. ASSUME NEW r \in Requests, WaitCommits(r) PROVE TypeOK'
  BY <1>6 DEF WaitCommits
<1>7. ASSUME NEW r \in Requests, WaitAborts(r) PROVE TypeOK'
  BY <1>7 DEF WaitAborts, Discard
<1>8. ASSUME NEW r \in Requests, Announced(r) PROVE TypeOK'
  BY <1>8 DEF Announced
<1>9. ASSUME NEW r \in Requests, CutOffEarly(r) PROVE TypeOK'
  BY <1>9 DEF CutOffEarly
<1>10. ASSUME NEW r \in Requests, Wakes(r) PROVE TypeOK'
  BY <1>10 DEF Wakes, Discard
<1>11. ASSUME NEW r \in Requests, GivesUp(r) PROVE TypeOK'
  BY <1>11 DEF GivesUp
<1>12. ASSUME NEW r \in Requests, ListAllDrops(r) PROVE TypeOK'
  BY <1>12 DEF ListAllDrops, Discard
<1>13. ASSUME NEW s \in Answers, NEW r \in Requests, SubmitReads(s, r) PROVE TypeOK'
  BY <1>13 DEF SubmitReads
<1>14. ASSUME NEW s \in Answers, SubmitClaims(s) PROVE TypeOK'
  <2> DEFINE r == req[s]
             fits == bound[r] = seen[s].turn /\ seen[s].active
  <2>1. r \in Requests
    BY <1>14 DEF SubmitClaims
  <2>2. CASE fits /\ Unanswered(r)
    <3>1. /\ claim' = [claim EXCEPT ![r] = s] /\ sub' = [sub EXCEPT ![s] = "claimed"]
          /\ UNCHANGED <<taskVars, registered, bound, future, given, hook, req, seen,
                         audited, listing>>
      BY <1>14, <2>2 DEF SubmitClaims
    <3> QED
      BY <2>1, <3>1
  <2>3. CASE fits /\ ~Unanswered(r)
    BY <1>14, <2>1, <2>3 DEF SubmitClaims
  <2>4. CASE ~fits
    BY <1>14, <2>1, <2>4 DEF SubmitClaims, Discard
  <2> QED
    BY <2>2, <2>3, <2>4
<1>15. ASSUME NEW s \in Answers, SubmitAudits(s) PROVE TypeOK'
  <2> req[s] \in Requests
    BY <1>15 DEF SubmitAudits
  <2>1. CASE Current(req[s])
    BY <1>15, <2>1 DEF SubmitAudits
  <2>2. CASE ~Current(req[s])
    BY <1>15, <2>2 DEF SubmitAudits, Discard
  <2> QED
    BY <2>1, <2>2
<1>16. ASSUME NEW s \in Answers, SubmitFulfils(s) PROVE TypeOK'
  <2> req[s] \in Requests
    BY <1>16 DEF SubmitFulfils
  <2>1. CASE Current(req[s]) /\ Holds(s)
    <3>1. PICK v \in Fulfilled : sub' = [sub EXCEPT ![s] = v]
      BY <1>16, <2>1 DEF SubmitFulfils
    <3> QED
      <4>1. /\ future' = [future EXCEPT ![req[s]] = "done"]
            /\ given' = [given EXCEPT ![req[s]] = s] /\ sub[s] = "audited"
            /\ UNCHANGED <<taskVars, registered, bound, claim, hook, req, seen,
                           audited, listing>>
        BY <1>16, <2>1 DEF SubmitFulfils
      <4> QED
        BY <3>1, <4>1
  <2>2. CASE Current(req[s]) /\ ~Holds(s)
    BY <1>16, <2>2 DEF SubmitFulfils
  <2>3. CASE ~Current(req[s])
    BY <1>16, <2>3 DEF SubmitFulfils, Discard
  <2> QED
    BY <2>1, <2>2, <2>3
<1>17. ASSUME NEW s \in Answers, SubmitFails(s) PROVE TypeOK'
  BY <1>17 DEF SubmitFails
<1>18. CASE UNCHANGED vars
  BY <1>18
<1> QED
  BY <1>1, <1>2, <1>3, <1>4, <1>5, <1>6, <1>7, <1>8, <1>9, <1>10, <1>11,
     <1>12, <1>13, <1>14, <1>15, <1>16, <1>17, <1>18 DEF Next, Wait, Submit

(***************************************************************************)
(* Every reachable state of the question machinery is well typed.          *)
(***************************************************************************)
THEOREM AskTypeCorrect == Spec => []TypeOK
BY TypeInit, TypeStep, PTL DEF Spec

-----------------------------------------------------------------------------
(* The inductive invariant. *)

LEMMA InvInit == Init => AskInv
BY NullAssumption DEF Init, AskInv, FreshClean, AnswersAsked, Reserved, InFlight,
   AuditKept, DoneByOk, BoundBehind, SeenBehind, ToldRevoked, AnswerAudited,
   OneCommitter, Accepted, Fulfilled, ClaimHeld, OkNeverRevoked

\* What Discard leaves of a question.
LEMMA DiscardEffect ==
  ASSUME TypeOK, NEW rs, Discard(rs), NEW r \in Requests
  PROVE  /\ future'[r] = future[r] \/ (future[r] = "open" /\ future'[r] = "revoked")
         /\ registered' \subseteq registered
         /\ r \in rs => r \notin registered'
         /\ future'[r] # future[r] => r \in rs \cap registered
         /\ bound' = bound /\ given' = given /\ claim' = claim
BY DEF Discard, TypeOK

\* Questions may be discarded at any time, provided that the submissions refused
\* with them lose no reservation and the hooks are told the truth.
LEMMA DiscardKeepsInv ==
  ASSUME TypeOK, TypeOK', AskInv, NEW rs, Discard(rs),
         UNCHANGED <<turn, active, req, seen, audited>>,
         \A r \in Requests :
           /\ hook'[r] = "idle" <=> hook[r] = "idle"
           /\ hook'[r] = "revoked" => hook[r] = "revoked" \/ future[r] = "revoked",
         \A s \in Answers :
           \/ sub'[s] = sub[s]
           \/ /\ sub[s] \in {"read", "claimed", "audited"} /\ sub'[s] = "refused"
              /\ InFlight(s) => req[s] \in rs
  PROVE  AskInv'
<1> USE NullAssumption, DiscardEffect DEF TypeOK, Fulfilled
<1>1. FreshClean'
  BY DEF AskInv, FreshClean
<1>2. AnswersAsked'
  BY DEF AskInv, AnswersAsked
<1>3. Reserved'
  BY DEF AskInv, Reserved, InFlight
<1>4. AuditKept'
  BY DEF AskInv, AuditKept
<1>5. DoneByOk'
  BY DEF AskInv, DoneByOk
<1>6. BoundBehind'
  BY DEF AskInv, BoundBehind
<1>7. SeenBehind'
  BY DEF AskInv, SeenBehind
<1>8. ToldRevoked'
  BY DEF AskInv, ToldRevoked
<1>9. AnswerAudited'
  BY DEF AskInv, AnswerAudited
<1>10. OneCommitter'
  BY DEF AskInv, OneCommitter, Accepted
<1>11. ClaimHeld'
  BY DEF AskInv, ClaimHeld, InFlight
<1>12. OkNeverRevoked'
  BY DEF AskInv, OkNeverRevoked
<1> QED
  BY <1>1, <1>2, <1>3, <1>4, <1>5, <1>6, <1>7, <1>8, <1>9, <1>10, <1>11, <1>12
     DEF AskInv

LEMMA InvStep == TypeOK /\ TypeOK' /\ AskInv /\ [Next]_vars => AskInv'
<1> SUFFICES ASSUME TypeOK, TypeOK', AskInv, [Next]_vars PROVE AskInv'
  OBVIOUS
<1> USE NullAssumption DEF TypeOK, Fulfilled, taskVars, regVars, subVars, vars
<1>1. CASE TurnMoves
  <2> USE <1>1 DEF TurnMoves
  <2>1. BoundBehind'
    BY DEF AskInv, BoundBehind
  <2>2. SeenBehind'
    BY DEF AskInv, SeenBehind, View
  <2>3. FreshClean' /\ AnswersAsked' /\ Reserved' /\ AuditKept' /\ DoneByOk'
    BY DEF AskInv, FreshClean, AnswersAsked, Reserved, InFlight, AuditKept, DoneByOk
  <2>4. /\ ToldRevoked' /\ AnswerAudited' /\ OneCommitter' /\ ClaimHeld'
        /\ OkNeverRevoked'
    BY DEF AskInv, ToldRevoked, AnswerAudited, OneCommitter, Accepted, ClaimHeld,
       OkNeverRevoked
  <2> QED
    BY <2>1, <2>2, <2>3, <2>4 DEF AskInv
<1>2. CASE DeleteTask
  BY <1>2, DiscardKeepsInv DEF DeleteTask
<1>3. CASE ListReads
  BY <1>3 DEF ListReads, AskInv, FreshClean, AnswersAsked, Reserved,
     InFlight, AuditKept, DoneByOk, BoundBehind, SeenBehind, ToldRevoked,
     AnswerAudited, OneCommitter, ClaimHeld, OkNeverRevoked
<1>4. CASE ListDrops
  BY <1>4, DiscardKeepsInv DEF ListDrops
<1>5. ASSUME NEW r \in Requests, WaitOpens(r) PROVE AskInv'
  <2> USE <1>5 DEF WaitOpens
  <2>1. FreshClean' /\ AnswersAsked' /\ AuditKept' /\ DoneByOk'
    BY DEF AskInv, FreshClean, AnswersAsked, AuditKept, DoneByOk
  <2>2. Reserved'
    BY DEF AskInv, FreshClean, AnswersAsked, Reserved, InFlight
  <2>3. BoundBehind'
    BY DEF AskInv, BoundBehind
  <2>4. SeenBehind'
    BY DEF AskInv, AnswersAsked, SeenBehind
  <2>5. ToldRevoked' /\ AnswerAudited' /\ OneCommitter' /\ OkNeverRevoked'
    BY DEF AskInv, ToldRevoked, AnswerAudited, OneCommitter, OkNeverRevoked, Accepted
  <2>6. ClaimHeld'
    BY DEF AskInv, FreshClean, ClaimHeld
  <2> QED
    BY <2>1, <2>2, <2>3, <2>4, <2>5, <2>6 DEF AskInv
<1>6. ASSUME NEW r \in Requests,
             WaitCommits(r) \/ Announced(r) \/ CutOffEarly(r)
      PROVE  AskInv'
  BY <1>6 DEF WaitCommits, Announced, CutOffEarly, AskInv, FreshClean, AnswersAsked,
     Reserved, InFlight, AuditKept, DoneByOk, BoundBehind, SeenBehind, ToldRevoked,
     AnswerAudited, OneCommitter, ClaimHeld, OkNeverRevoked
<1>7. ASSUME NEW r \in Requests, WaitAborts(r) PROVE AskInv'
  BY <1>7, DiscardKeepsInv DEF WaitAborts
<1>8. ASSUME NEW r \in Requests, Wakes(r) PROVE AskInv'
  BY <1>8, DiscardKeepsInv DEF Wakes
<1>9. ASSUME NEW r \in Requests, GivesUp(r) PROVE AskInv'
  BY <1>9 DEF GivesUp, AskInv, FreshClean, AnswersAsked,
     Reserved, InFlight, AuditKept, DoneByOk, BoundBehind, SeenBehind, ToldRevoked,
     AnswerAudited, OneCommitter, ClaimHeld, OkNeverRevoked
<1>10. ASSUME NEW r \in Requests, ListAllDrops(r) PROVE AskInv'
  BY <1>10, DiscardKeepsInv DEF ListAllDrops
<1>11. ASSUME NEW s \in Answers, NEW r \in Requests, SubmitReads(s, r) PROVE AskInv'
  <2> USE <1>11 DEF SubmitReads
  <2>1. FreshClean' /\ AnswersAsked' /\ AuditKept' /\ DoneByOk'
    BY DEF AskInv, FreshClean, AnswersAsked, AuditKept, DoneByOk
  <2>2. Reserved'
    BY DEF AskInv, Reserved, InFlight
  <2>3. BoundBehind' /\ SeenBehind'
    BY DEF AskInv, BoundBehind, SeenBehind, Row
  <2>4. ToldRevoked' /\ AnswerAudited' /\ OkNeverRevoked'
    BY DEF AskInv, ToldRevoked, AnswerAudited, OkNeverRevoked, DoneByOk
  <2>5. OneCommitter' /\ ClaimHeld'
    BY DEF AskInv, OneCommitter, Accepted, ClaimHeld
  <2> QED
    BY <2>1, <2>2, <2>3, <2>4, <2>5 DEF AskInv
<1>12. ASSUME NEW s \in Answers, SubmitClaims(s) PROVE AskInv'
  <2> DEFINE r == req[s]
             fits == bound[r] = seen[s].turn /\ seen[s].active
  <2>1. r \in Requests /\ sub[s] = "read" /\ UNCHANGED <<turn, active, hook, req, seen, audited>>
    BY <1>12 DEF SubmitClaims
  <2>2. CASE fits /\ Unanswered(r)
    <3> USE <2>1
    <3>1. /\ claim' = [claim EXCEPT ![r] = s] /\ sub' = [sub EXCEPT ![s] = "claimed"]
          /\ UNCHANGED <<registered, bound, future, given>>
          /\ r \in registered /\ future[r] = "open" /\ claim[r] = NoAnswer
      BY <1>12, <2>2 DEF SubmitClaims, Unanswered, Discard
    <3>2. \A u \in Answers : req[u] = r => sub[u] \notin Accepted
      BY <3>1 DEF AskInv, Reserved, InFlight, OkNeverRevoked, Accepted
    <3>3. FreshClean' /\ AnswersAsked' /\ AuditKept' /\ DoneByOk'
      BY <3>1 DEF AskInv, FreshClean, AnswersAsked, AuditKept, DoneByOk
    <3>4. Reserved'
      BY <3>1, <3>2 DEF AskInv, Reserved, InFlight, Accepted
    <3>5. BoundBehind' /\ SeenBehind' /\ ToldRevoked'
      BY <3>1 DEF AskInv, BoundBehind, SeenBehind, ToldRevoked
    <3>6. AnswerAudited' /\ OkNeverRevoked'
      BY <3>1 DEF AskInv, AnswerAudited, OkNeverRevoked
    <3>7. OneCommitter'
      BY <3>1, <3>2 DEF AskInv, OneCommitter, Accepted
    <3>8. ClaimHeld'
      BY <3>1, <3>2 DEF AskInv, ClaimHeld, Accepted
    <3> QED
      BY <3>3, <3>4, <3>5, <3>6, <3>7, <3>8 DEF AskInv
  <2>3. CASE fits /\ ~Unanswered(r)
    BY <1>12, <2>1, <2>3 DEF SubmitClaims, AskInv, FreshClean, AnswersAsked, Accepted,
       Reserved, InFlight, AuditKept, DoneByOk, BoundBehind, SeenBehind, ToldRevoked,
       AnswerAudited, OneCommitter, ClaimHeld, OkNeverRevoked
  <2>4. CASE ~fits
    <3>1. Discard({r}) /\ sub' = [sub EXCEPT ![s] = "refused"]
      BY <1>12, <2>4 DEF SubmitClaims
    <3> QED
      BY <2>1, <3>1, DiscardKeepsInv DEF InFlight
  <2> QED
    BY <2>2, <2>3, <2>4
<1>13. ASSUME NEW s \in Answers, SubmitAudits(s) PROVE AskInv'
  <2>1. CASE Current(req[s])
    <3> USE <1>13, <2>1 DEF SubmitAudits
    <3>1. FreshClean' /\ AnswersAsked' /\ Reserved' /\ AuditKept' /\ DoneByOk'
      BY DEF AskInv, FreshClean, AnswersAsked, Reserved, InFlight, AuditKept, DoneByOk
    <3>2. BoundBehind' /\ SeenBehind' /\ ToldRevoked' /\ AnswerAudited'
      BY DEF AskInv, BoundBehind, SeenBehind, ToldRevoked, AnswerAudited
    <3>3. OneCommitter' /\ ClaimHeld' /\ OkNeverRevoked'
      BY DEF AskInv, OneCommitter, Accepted, ClaimHeld, OkNeverRevoked
    <3> QED
      BY <3>1, <3>2, <3>3 DEF AskInv
  <2>2. CASE ~Current(req[s])
    BY <1>13, <2>2, DiscardKeepsInv DEF SubmitAudits
  <2> QED
    BY <2>1, <2>2
<1>14. ASSUME NEW s \in Answers, SubmitFulfils(s) PROVE AskInv'
  <2> DEFINE r == req[s]
  <2>1. /\ r \in Requests /\ sub[s] = "audited"
        /\ UNCHANGED <<turn, active, hook, req, seen, audited>>
    BY <1>14 DEF SubmitFulfils
  <2>2. CASE Current(r) /\ Holds(s)
    <3> USE <2>1
    <3>1. /\ future' = [future EXCEPT ![r] = "done"] /\ given' = [given EXCEPT ![r] = s]
          /\ UNCHANGED <<registered, bound, claim>>
          /\ \E v \in Fulfilled : sub' = [sub EXCEPT ![s] = v]
          /\ r \in registered /\ future[r] = "open" /\ claim[r] = s
      BY <1>14, <2>2 DEF SubmitFulfils, Holds, Discard
    <3>2. \A u \in Answers : req[u] = r /\ u # s => sub[u] \notin Accepted
      BY DEF AskInv, OneCommitter, Accepted
    <3>3. FreshClean' /\ AnswersAsked' /\ AuditKept'
      BY <3>1 DEF AskInv, FreshClean, AnswersAsked, AuditKept
    <3>4. Reserved'
      BY <3>1 DEF AskInv, Reserved, InFlight
    <3>5. DoneByOk' /\ AnswerAudited'
      BY <3>1 DEF AskInv, DoneByOk, AnswerAudited, AuditKept
    <3>6. BoundBehind' /\ SeenBehind' /\ ToldRevoked'
      BY <3>1 DEF AskInv, BoundBehind, SeenBehind, ToldRevoked
    <3>7. OneCommitter' /\ ClaimHeld'
      BY <3>1, <3>2 DEF AskInv, OneCommitter, Accepted, ClaimHeld
    <3>8. OkNeverRevoked'
      BY <3>1, <3>2 DEF AskInv, OkNeverRevoked, Accepted, ToldRevoked
    <3> QED
      BY <3>3, <3>4, <3>5, <3>6, <3>7, <3>8 DEF AskInv
  <2>3. CASE Current(r) /\ ~Holds(s)
    <3> USE <1>14, <2>3 DEF SubmitFulfils, Holds
    <3>1. FreshClean' /\ AnswersAsked' /\ Reserved' /\ AuditKept' /\ DoneByOk'
      BY DEF AskInv, FreshClean, AnswersAsked, Reserved, InFlight, AuditKept, DoneByOk
    <3>2. BoundBehind' /\ SeenBehind' /\ ToldRevoked' /\ AnswerAudited'
      BY DEF AskInv, BoundBehind, SeenBehind, ToldRevoked, AnswerAudited
    <3>3. OneCommitter' /\ ClaimHeld' /\ OkNeverRevoked'
      BY DEF AskInv, OneCommitter, Accepted, ClaimHeld, OkNeverRevoked
    <3> QED
      BY <3>1, <3>2, <3>3 DEF AskInv
  <2>4. CASE ~Current(r)
    <3>1. Discard({r}) /\ sub' = [sub EXCEPT ![s] = "refused"]
      BY <1>14, <2>4 DEF SubmitFulfils
    <3> QED
      BY <2>1, <3>1, DiscardKeepsInv
  <2> QED
    BY <2>2, <2>3, <2>4
<1>15. ASSUME NEW s \in Answers, SubmitFails(s) PROVE AskInv'
  <2> USE <1>15 DEF SubmitFails, Holds
  <2>1. FreshClean' /\ AnswersAsked' /\ AuditKept' /\ DoneByOk'
    BY DEF AskInv, FreshClean, AnswersAsked, AuditKept, DoneByOk
  <2>2. Reserved'
    BY DEF AskInv, Reserved, InFlight, OneCommitter, Accepted
  <2>3. BoundBehind' /\ SeenBehind' /\ ToldRevoked' /\ AnswerAudited'
    BY DEF AskInv, BoundBehind, SeenBehind, ToldRevoked, AnswerAudited
  <2>4. OneCommitter' /\ ClaimHeld' /\ OkNeverRevoked'
    BY DEF AskInv, OneCommitter, Accepted, ClaimHeld, OkNeverRevoked
  <2> QED
    BY <2>1, <2>2, <2>3, <2>4 DEF AskInv
<1>16. CASE UNCHANGED vars
  BY <1>16 DEF AskInv, FreshClean, AnswersAsked, Reserved, InFlight, AuditKept,
     DoneByOk, BoundBehind, SeenBehind, ToldRevoked, AnswerAudited, OneCommitter,
     ClaimHeld, OkNeverRevoked
<1> QED
  BY <1>1, <1>2, <1>3, <1>4, <1>5, <1>6, <1>7, <1>8, <1>9, <1>10, <1>11, <1>12,
     <1>13, <1>14, <1>15, <1>16 DEF Next, Wait, Submit

(***************************************************************************)
(* In every reachable state the registry, the submissions and the hooks    *)
(* agree: every answer a hook gets was audited first, one submission at a  *)
(* time has the question, no reservation is left behind, and a submission  *)
(* that reported success is never revoked.                                 *)
(***************************************************************************)
THEOREM AskInvariant == Spec => []AskInv
<1>1. Init => TypeOK /\ AskInv
  BY TypeInit, InvInit
<1>2. TypeOK /\ AskInv /\ [Next]_vars => TypeOK' /\ AskInv'
  BY TypeStep, InvStep
<1> QED
  BY <1>1, <1>2, PTL DEF Spec

(***************************************************************************)
(* Two submissions for one question never both get past its reservation,   *)
(* so that at most one of them has an audit row whose answer can be given. *)
(***************************************************************************)
THEOREM OneCommitterHolds == Spec => []OneCommitter
<1>1. AskInv => OneCommitter
  BY DEF AskInv
<1> QED
  BY <1>1, AskInvariant, PTL

(***************************************************************************)
(* A submission that has set its future has answered its question: the hook *)
(* is not told afterwards that the question was revoked.                   *)
(***************************************************************************)
THEOREM OkNeverRevokedHolds == Spec => []OkNeverRevoked
<1>1. AskInv => OkNeverRevoked
  BY DEF AskInv
<1> QED
  BY <1>1, AskInvariant, PTL

(***************************************************************************)
(* An open question that is reserved is reserved for a submission to it that*)
(* is still on its way: a reservation is never left behind.                 *)
(***************************************************************************)
THEOREM ClaimHeldHolds == Spec => []ClaimHeld
<1>1. AskInv => ClaimHeld
  BY DEF AskInv
<1> QED
  BY <1>1, AskInvariant, PTL

-----------------------------------------------------------------------------
(* Action properties. *)

\* Whatever revokes a question, but its hook and the listing of its Task, finds
\* the turn that asked to be over.
LEMMA RevokeStep ==
  TypeOK /\ AskInv /\ [Next]_vars =>
    \A r \in Requests :
      /\ future[r] = "open" /\ future'[r] = "revoked"
      /\ hook'[r] = hook[r] /\ listing' = listing
      => ~Current(r)
<1> SUFFICES ASSUME TypeOK, AskInv, [Next]_vars, NEW q \in Requests,
                    future[q] = "open", future'[q] = "revoked",
                    hook'[q] = hook[q], listing' = listing
             PROVE  ~Current(q)
  OBVIOUS
<1> USE DEF TypeOK
<1>1. ASSUME NEW rs, Discard(rs) PROVE q \in rs \cap registered
  BY <1>1 DEF Discard
<1>2. ASSUME UNCHANGED future PROVE FALSE
  BY <1>2
<1>3. q \in registered => hook[q] # "idle"
  BY DEF AskInv, FreshClean
<1>4. CASE TurnMoves \/ ListReads \/ ListDrops \/ DeleteTask
  <2>1. CASE TurnMoves \/ ListReads
    BY <1>2, <2>1 DEF TurnMoves, ListReads, regVars
  <2>2. CASE ListDrops
    BY <2>2 DEF ListDrops, NoView
  <2>3. CASE DeleteTask
    BY <2>3 DEF DeleteTask, Current
  <2> QED
    BY <1>4, <2>1, <2>2, <2>3
<1>5. ASSUME NEW r \in Requests, Wait(r) PROVE ~Current(q)
  BY <1>1, <1>2, <1>5 DEF Wait, WaitOpens, WaitCommits, WaitAborts, Announced,
     CutOffEarly, Wakes, GivesUp, regVars
<1>6. ASSUME NEW r \in Requests, ListAllDrops(r) PROVE ~Current(q)
  BY <1>1, <1>6 DEF ListAllDrops
<1>7. ASSUME NEW s \in Answers, NEW r \in Requests, SubmitReads(s, r) PROVE FALSE
  BY <1>2, <1>7 DEF SubmitReads, regVars
<1>8. ASSUME NEW s \in Answers, SubmitClaims(s) PROVE ~Current(q)
  <2> DEFINE fits == bound[req[s]] = seen[s].turn /\ seen[s].active
  <2>1. Discard({req[s]}) /\ ~fits /\ sub[s] = "read"
    BY <1>2, <1>8 DEF SubmitClaims, regVars
  <2>2. req[s] = q /\ hook[q] # "idle"
    BY <1>1, <1>3, <2>1
  <2>3. /\ seen[s].turn \in Nat /\ bound[q] \in Nat /\ seen[s].turn <= turn
        /\ bound[q] <= seen[s].turn
        /\ bound[q] = seen[s].turn => seen[s].active
    BY <2>1, <2>2 DEF AskInv, SeenBehind, View
  <2> QED
    BY <2>1, <2>2, <2>3 DEF Current
<1>9. ASSUME NEW s \in Answers, SubmitAudits(s) \/ SubmitFulfils(s) PROVE ~Current(q)
  <2> req[s] \in Requests
    BY <1>9 DEF SubmitAudits, SubmitFulfils
  <2>1. CASE ~Current(req[s])
    <3>1. Discard({req[s]})
      BY <1>9, <2>1 DEF SubmitAudits, SubmitFulfils
    <3> QED
      BY <3>1, <1>1, <2>1
  <2>2. CASE Current(req[s])
    BY <1>2, <1>9, <2>2 DEF SubmitAudits, SubmitFulfils, regVars
  <2> QED
    BY <2>1, <2>2
<1>10. ASSUME NEW s \in Answers, SubmitFails(s) PROVE FALSE
  BY <1>2, <1>10 DEF SubmitFails
<1>11. ASSUME UNCHANGED vars PROVE FALSE
  BY <1>2, <1>11 DEF vars, regVars
<1> QED
  BY <1>4, <1>5, <1>6, <1>7, <1>8, <1>9, <1>10, <1>11 DEF Next, Submit

(***************************************************************************)
(* A question of the running turn is revoked by the listing of its Task or *)
(* by the end of its own hook, and by nothing else.                        *)
(***************************************************************************)
THEOREM OnlyStaleRevoked == Spec => RevokedIsStale
<1>1. TypeOK /\ AskInv /\ [Next]_vars =>
        [\A r \in Requests :
           /\ future[r] = "open" /\ future'[r] = "revoked"
           /\ hook'[r] = hook[r] /\ listing' = listing
           => ~Current(r)]_vars
  BY RevokeStep
<1> QED
  BY <1>1, AskTypeCorrect, AskInvariant, PTL DEF Spec, RevokedIsStale

-----------------------------------------------------------------------------
(* The contract. *)

LEMMA ContractInit == Init => Contract!QInit
<1> SUFFICES ASSUME Init PROVE Contract!QInit
  OBVIOUS
<1>1. Live = {}
  BY DEF Init, Live
<1>2. /\ Fates = [r \in Requests |-> "unasked"]
      /\ Tolds = [r \in Requests |-> "nothing"]
      /\ Verdicts = [s \in Answers |-> "none"]
  BY DEF Init, Fates, Fate, Tolds, Told, Verdicts, Heard
<1> QED
  BY <1>1, <1>2 DEF Init, Contract!QInit

\* What the parties see of a step that leaves the underlying state alone.
LEMMA SeenSame ==
  /\ UNCHANGED <<hook, future>> => Fates' = Fates
  /\ UNCHANGED hook => Tolds' = Tolds
  /\ UNCHANGED sub => Verdicts' = Verdicts
  /\ UNCHANGED <<hook, turn, active, exists, bound>> => Live' = Live
BY DEF Fates, Fate, Tolds, Told, Verdicts, Heard, Live, Current

\* The same, for one step of a hook that was asked already.
LEMMA HookMoves ==
  ASSUME TypeOK, NEW q \in Requests, NEW h, h # "idle", hook[q] # "idle",
         hook' = [hook EXCEPT ![q] = h]
  PROVE  /\ UNCHANGED future => Fates' = Fates
         /\ h \in {"opening", "announcing", "waiting"} /\ Told(q) = "nothing" => Tolds' = Tolds
         /\ h \in {"timedOut", "gone"} => Tolds' = [Tolds EXCEPT ![q] = "gone"]
         /\ h \in {"answered", "revoked"} => Tolds' = [Tolds EXCEPT ![q] = h]
         /\ UNCHANGED <<turn, active, exists, bound>> => Live' = Live
<1>1. \A r \in Requests : /\ hook'[r] = IF r = q THEN h ELSE hook[r]
                          /\ hook'[r] = "idle" <=> hook[r] = "idle"
  BY DEF TypeOK
<1>2. UNCHANGED future => Fates' = Fates
  BY <1>1 DEF Fates, Fate
<1>3. \A r \in Requests \ {q} : Told(r)' = Tolds[r]
  BY <1>1 DEF Told, Tolds
<1>4. /\ h \in {"opening", "announcing", "waiting"} => Told(q)' = "nothing"
      /\ h \in {"timedOut", "gone"} => Told(q)' = "gone"
      /\ h \in {"answered", "revoked"} => Told(q)' = h
  BY <1>1 DEF Told
<1>5. UNCHANGED <<turn, active, exists, bound>> => Live' = Live
  BY <1>1 DEF Live, Current
<1> QED
  BY <1>2, <1>3, <1>4, <1>5 DEF Tolds

\* What the parties see of one step of a submission.
LEMMA SubMoves ==
  ASSUME TypeOK, NEW s \in Answers, NEW v, v # "idle", sub' = [sub EXCEPT ![s] = v]
  PROVE  /\ v \in {"ok", "erred", "refused"} => Verdicts' = [Verdicts EXCEPT ![s] = v]
         /\ v \in {"read", "claimed", "audited"} =>
               Verdicts' = [Verdicts EXCEPT ![s] = "pending"]
         /\ v \in {"claimed", "audited"} /\ Heard(s) = "pending" => Verdicts' = Verdicts
BY DEF TypeOK, Verdicts, Heard, Fulfilled

\* What they see of discarded questions.
LEMMA DiscardSeen ==
  ASSUME TypeOK, AskInv, NEW rs, Discard(rs),
         \A r \in Requests : hook'[r] = "idle" <=> hook[r] = "idle"
  PROVE  Fates' = [r \in Requests |-> IF r \in rs \cap registered /\ Fates[r] = "open"
                                      THEN "revoked" ELSE Fates[r]]
BY DEF Discard, TypeOK, Fates, Fate, AskInv, FreshClean

\* Turn changes, the deletion of the Task and the listings.
LEMMA TaskImplements ==
  ASSUME TypeOK, AskInv,
         TurnMoves \/ DeleteTask \/ ListReads \/ ListDrops
           \/ \E r \in Requests : ListAllDrops(r)
  PROVE  [Contract!QNext]_(Contract!qvars)
<1> USE SeenSame DEF taskVars, regVars, subVars
<1>1. CASE TurnMoves
  <2> USE <1>1 DEF TurnMoves
  <2>1. Live' = {}
    BY DEF Live, Current, AskInv, BoundBehind, TypeOK
  <2> QED
    BY <2>1 DEF Contract!QNext, Contract!TurnEnds
<1>2. ASSUME NEW rs, Discard(rs), UNCHANGED <<hook, subVars, Live>>
      PROVE  Contract!QNext
  <2>1. Fates' = [r \in Requests |-> IF r \in rs \cap registered /\ Fates[r] = "open"
                                     THEN "revoked" ELSE Fates[r]]
    BY <1>2, DiscardSeen
  <2>2. given' = given
    BY <1>2 DEF Discard
  <2>3. Contract!Revoke(rs \cap registered)
    BY <1>2, <2>1, <2>2 DEF Contract!Revoke
  <2>4. rs \cap registered \in SUBSET Requests
    BY DEF TypeOK
  <2> QED
    BY <2>3, <2>4 DEF Contract!QNext
<1>3. CASE DeleteTask
  <2>1. Live' = {} /\ Live = {}
    BY <1>3 DEF DeleteTask, Live, Current
  <2> QED
    BY <1>2, <1>3, <2>1 DEF DeleteTask
<1>4. CASE ListReads
  BY <1>4 DEF ListReads, Contract!qvars
<1>5. CASE ListDrops
  <2>1. UNCHANGED <<taskVars, hook, subVars, bound>>
    BY <1>5 DEF ListDrops, Discard
  <2> QED
    BY <1>2, <1>5, <2>1 DEF ListDrops
<1>6. ASSUME NEW r \in Requests, ListAllDrops(r) PROVE Contract!QNext
  <2>1. UNCHANGED <<taskVars, hook, subVars, bound>>
    BY <1>6 DEF ListAllDrops, Discard
  <2> QED
    BY <1>2, <1>6, <2>1 DEF ListAllDrops
<1> QED
  BY <1>1, <1>3, <1>4, <1>5, <1>6

\* The coroutine of a hook.
LEMMA WaitImplements ==
  ASSUME TypeOK, AskInv, NEW q \in Requests, Wait(q)
  PROVE  [Contract!QNext]_(Contract!qvars)
<1> USE SeenSame DEF taskVars, regVars, subVars
<1>1. CASE WaitOpens(q)
  <2> USE <1>1 DEF WaitOpens
  <2>1. Fates[q] = "unasked" /\ Fates' = [Fates EXCEPT ![q] = "open"]
    BY DEF Fates, Fate, TypeOK, AskInv, FreshClean
  <2>2. Tolds' = Tolds
    BY DEF Tolds, Told, TypeOK
  <2>3. Live' = Live \cup {q}
    BY DEF Live, Current, Writable, TypeOK
  <2>4. Contract!Ask(q)
    BY <2>1, <2>2, <2>3 DEF Contract!Ask
  <2> QED
    BY <2>4 DEF Contract!QNext
<1>2. CASE WaitCommits(q) \/ Announced(q)
  <2>1. /\ UNCHANGED <<turn, active, exists, bound, future, given, sub, req, audited>>
        /\ \E h \in {"announcing", "waiting"} : hook' = [hook EXCEPT ![q] = h]
        /\ hook[q] # "idle" /\ Told(q) = "nothing"
    BY <1>2 DEF WaitCommits, Announced, Told
  <2> QED
    BY <2>1, HookMoves DEF Contract!qvars
<1>3. CASE WaitAborts(q)
  <2> USE <1>3 DEF WaitAborts
  <2>1. \A r \in Requests : hook'[r] = "idle" <=> hook[r] = "idle"
    BY DEF TypeOK
  <2>2. Fates' = [r \in Requests |-> IF r \in {q} \cap registered /\ Fates[r] = "open"
                                     THEN "revoked" ELSE Fates[r]]
    BY <2>1, DiscardSeen
  <2>3. UNCHANGED Fates \/ (Fates[q] = "open" /\ Fates' = [Fates EXCEPT ![q] = "revoked"])
    BY <2>2 DEF Fates
  <2>4. Tolds[q] = "nothing" /\ Fates[q] # "unasked" /\ hook[q] # "idle"
    BY DEF Tolds, Told, Fates, Fate, TypeOK
  <2>5. UNCHANGED <<given, bound>>
    BY DEF Discard
  <2>6. Live' = Live /\ Tolds' = [Tolds EXCEPT ![q] = "gone"]
    BY <2>4, <2>5, HookMoves
  <2>7. Contract!Leaves(q)
    BY <2>3, <2>4, <2>5, <2>6 DEF Contract!Leaves
  <2> QED
    BY <2>7 DEF Contract!QNext
<1>4. CASE CutOffEarly(q)
  <2> USE <1>4 DEF CutOffEarly
  <2>1. Tolds[q] = "nothing" /\ Fates[q] # "unasked" /\ hook[q] # "idle"
    BY DEF Tolds, Told, Fates, Fate, TypeOK
  <2>2. UNCHANGED <<Fates, Live>> /\ Tolds' = [Tolds EXCEPT ![q] = "gone"]
    BY <2>1, HookMoves
  <2>3. Contract!Leaves(q)
    BY <2>1, <2>2 DEF Contract!Leaves
  <2> QED
    BY <2>3 DEF Contract!QNext
<1>5. CASE Wakes(q)
  <2> USE <1>5 DEF Wakes
  <2> DEFINE heard == IF future[q] = "done" THEN "answered" ELSE "revoked"
  <2>1. hook[q] # "idle" /\ Tolds[q] = "nothing" /\ Fates[q] = heard
    BY DEF Tolds, Told, Fates, Fate
  <2>2. UNCHANGED <<future, bound, given>>
    BY DEF Discard, TypeOK
  <2>3. UNCHANGED <<Fates, Live>> /\ Tolds' = [Tolds EXCEPT ![q] = heard]
    BY <2>1, <2>2, HookMoves
  <2>4. Contract!Hears(q)
    BY <2>1, <2>2, <2>3 DEF Contract!Hears
  <2> QED
    BY <2>4 DEF Contract!QNext
<1>6. CASE GivesUp(q)
  <2>1. PICK how \in {"timedOut", "gone"} : hook' = [hook EXCEPT ![q] = how]
    BY <1>6 DEF GivesUp
  <2>2. /\ hook[q] = "waiting" /\ UNCHANGED <<taskVars, bound, given, subVars>>
        /\ future' = [future EXCEPT ![q] = IF @ = "open" THEN "cancelled" ELSE @]
    BY <1>6 DEF GivesUp
  <2>3. Tolds[q] = "nothing" /\ Fates[q] # "unasked"
    BY <2>2 DEF Tolds, Told, Fates, Fate, TypeOK
  <2>4. Live' = Live /\ Tolds' = [Tolds EXCEPT ![q] = "gone"]
    BY <2>1, <2>2, HookMoves
  <2>5. UNCHANGED Fates \/ (Fates[q] = "open" /\ Fates' = [Fates EXCEPT ![q] = "dropped"])
    <3>1. \A r \in Requests : hook'[r] = "idle" <=> hook[r] = "idle"
      BY <2>1, <2>2 DEF TypeOK
    <3>2. CASE future[q] = "open"
      BY <2>2, <3>1, <3>2 DEF Fates, Fate, TypeOK
    <3>3. CASE future[q] # "open"
      BY <2>2, <3>1, <3>3 DEF Fates, Fate, TypeOK
    <3> QED
      BY <3>2, <3>3
  <2>6. Contract!Leaves(q)
    BY <2>2, <2>3, <2>4, <2>5 DEF Contract!Leaves
  <2> QED
    BY <2>6 DEF Contract!QNext
<1> QED
  BY <1>1, <1>2, <1>3, <1>4, <1>5, <1>6 DEF Wait

\* The submission of a card.
LEMMA SubmitImplements ==
  ASSUME TypeOK, AskInv, NEW s \in Answers, Submit(s)
  PROVE  [Contract!QNext]_(Contract!qvars)
<1> USE SeenSame DEF taskVars, regVars, subVars
<1>1. ASSUME NEW q \in Requests, SubmitReads(s, q) PROVE Contract!QNext
  <2> USE <1>1 DEF SubmitReads
  <2>1. Verdicts[s] = "none" /\ Verdicts' = [Verdicts EXCEPT ![s] = "pending"]
    BY SubMoves DEF Verdicts, Heard
  <2>2. Fates[q] # "unasked"
    BY DEF Fates, Fate, TypeOK
  <2>3. Contract!Submit(s, q)
    BY <2>1, <2>2 DEF Contract!Submit
  <2> QED
    BY <2>3 DEF Contract!QNext
\* A refused submission, with or without its stale question.
<1>2. ASSUME sub[s] \in {"read", "claimed", "audited"},
             sub' = [sub EXCEPT ![s] = "refused"],
             UNCHANGED <<taskVars, hook, req, audited, bound, given>>,
             \/ UNCHANGED future
             \/ Discard({req[s]}) /\ ~Current(req[s])
      PROVE  Contract!QNext
  <2>1. Verdicts[s] = "pending" /\ Verdicts' = [Verdicts EXCEPT ![s] = "refused"]
    BY <1>2, SubMoves DEF Verdicts, Heard, Fulfilled
  <2>2. UNCHANGED <<Live, Tolds>>
    BY <1>2
  <2>3. \/ UNCHANGED Fates
        \/ /\ req[s] \notin Live /\ Fates[req[s]] = "open"
           /\ Fates' = [Fates EXCEPT ![req[s]] = "revoked"]
    <3>1. CASE UNCHANGED future
      BY <1>2, <3>1
    <3>2. CASE Discard({req[s]}) /\ ~Current(req[s])
      <4>1. Fates' = [r \in Requests |->
                        IF r \in {req[s]} \cap registered /\ Fates[r] = "open"
                        THEN "revoked" ELSE Fates[r]]
        BY <1>2, <3>2, DiscardSeen
      <4>2. req[s] \in Requests /\ req[s] \notin Live
        BY <1>2, <3>2 DEF TypeOK, Live
      <4> QED
        BY <4>1, <4>2 DEF Fates
    <3> QED
      BY <1>2, <3>1, <3>2
  <2>4. Contract!Refuse(s)
    BY <1>2, <2>1, <2>2, <2>3 DEF Contract!Refuse
  <2> QED
    BY <2>4 DEF Contract!QNext
<1>3. CASE SubmitClaims(s)
  <2> DEFINE r == req[s]
             fits == bound[r] = seen[s].turn /\ seen[s].active
  <2>1. /\ sub[s] = "read" /\ UNCHANGED <<taskVars, hook, req, audited>>
        /\ r \in Requests
    BY <1>3 DEF SubmitClaims, TypeOK
  <2>2. CASE fits /\ Unanswered(r)
    <3>1. sub' = [sub EXCEPT ![s] = "claimed"] /\ UNCHANGED <<bound, future, given>>
      BY <1>3, <2>2 DEF SubmitClaims, Unanswered, Discard
    <3>2. Verdicts' = Verdicts
      BY <2>1, <3>1, SubMoves DEF Heard, Fulfilled
    <3> QED
      BY <2>1, <3>1, <3>2 DEF Contract!qvars
  <2>3. CASE fits /\ ~Unanswered(r)
    BY <1>2, <1>3, <2>1, <2>3 DEF SubmitClaims
  <2>4. CASE ~fits
    <3>1. Discard({r}) /\ sub' = [sub EXCEPT ![s] = "refused"]
      BY <1>3, <2>4 DEF SubmitClaims
    <3>2. /\ seen[s].turn \in Nat /\ bound[r] \in Nat /\ seen[s].turn <= turn
          /\ bound[r] <= seen[s].turn
          /\ bound[r] = seen[s].turn => seen[s].active
      BY <2>1 DEF AskInv, SeenBehind, View, TypeOK
    <3>3. ~Current(r)
      BY <2>4, <3>2 DEF Current, TypeOK
    <3>4. UNCHANGED <<bound, given>>
      BY <3>1 DEF Discard
    <3> QED
      BY <1>2, <2>1, <3>1, <3>3, <3>4
  <2> QED
    BY <2>2, <2>3, <2>4
<1>4. CASE SubmitAudits(s)
  <2>1. sub[s] = "claimed" /\ UNCHANGED <<taskVars, hook, req>> /\ req[s] \in Requests
    BY <1>4 DEF SubmitAudits, TypeOK
  <2>2. CASE Current(req[s])
    <3>1. /\ audited' = audited \cup {s} /\ sub' = [sub EXCEPT ![s] = "audited"]
          /\ UNCHANGED regVars
      BY <1>4, <2>2 DEF SubmitAudits
    <3>2. Verdicts[s] = "pending" /\ Verdicts' = Verdicts
      BY <2>1, <3>1, SubMoves DEF Verdicts, Heard, Fulfilled
    <3>3. req[s] \in Live
      BY <2>1, <2>2 DEF Live, AskInv, AnswersAsked
    <3>4. \A u \in audited \ {s} : req[u] = req[s] => Verdicts[u] = "refused"
      <4> SUFFICES ASSUME NEW u \in audited, u # s, req[u] = req[s]
                   PROVE  Verdicts[u] = "refused"
        OBVIOUS
      <4>1. u \in Answers /\ sub[u] \notin Accepted
        BY <2>1 DEF AskInv, OneCommitter, Accepted, TypeOK
      <4>2. sub[u] \notin {"idle", "read"}
        BY <4>1 DEF AskInv, AuditKept, Fulfilled
      <4> QED
        BY <4>1, <4>2 DEF Verdicts, Heard, Accepted, Fulfilled, TypeOK
    <3>5. Contract!Log(s)
      BY <2>1, <3>1, <3>2, <3>3, <3>4 DEF Contract!Log
    <3> QED
      BY <3>5 DEF Contract!QNext
  <2>3. CASE ~Current(req[s])
    <3>1. /\ Discard({req[s]}) /\ sub' = [sub EXCEPT ![s] = "refused"]
          /\ UNCHANGED audited
      BY <1>4, <2>3 DEF SubmitAudits
    <3>2. UNCHANGED <<bound, given>>
      BY <3>1 DEF Discard
    <3> QED
      BY <1>2, <2>1, <2>3, <3>1, <3>2
  <2> QED
    BY <2>2, <2>3
<1>5. CASE SubmitFulfils(s)
  <2>1. /\ sub[s] = "audited" /\ UNCHANGED <<taskVars, hook, req, audited>>
        /\ req[s] \in Requests
    BY <1>5 DEF SubmitFulfils, TypeOK
  <2>2. CASE Current(req[s]) /\ Holds(s)
    <3>1. PICK v \in Fulfilled : sub' = [sub EXCEPT ![s] = v]
      BY <1>5, <2>2 DEF SubmitFulfils
    <3>2. /\ future' = [future EXCEPT ![req[s]] = "done"]
          /\ given' = [given EXCEPT ![req[s]] = s]
          /\ UNCHANGED bound
          /\ future[req[s]] = "open"
      BY <1>5, <2>2 DEF SubmitFulfils, Holds
    <3>7. Verdicts[s] = "pending" /\ Verdicts' = [Verdicts EXCEPT ![s] = v]
      <4>1. v \in {"ok", "erred"} /\ v # "idle"
        BY DEF Fulfilled
      <4>2. Verdicts' = [Verdicts EXCEPT ![s] = v]
        BY <3>1, <4>1, SubMoves
      <4> QED
        BY <2>1, <4>2 DEF Verdicts, Heard, Fulfilled
    <3>3. req[s] \in Live /\ hook[req[s]] # "idle"
      BY <2>1, <2>2 DEF Live, AskInv, AnswersAsked
    <3>4. Fates[req[s]] = "open" /\ Fates' = [Fates EXCEPT ![req[s]] = "answered"]
      BY <2>1, <3>2, <3>3 DEF Fates, Fate, TypeOK
    <3>5. s \in audited
      BY <2>1 DEF AskInv, AuditKept
    <3>6. Contract!Answer(s)
      BY <2>1, <3>1, <3>2, <3>3, <3>4, <3>5, <3>7
         DEF Contract!Answer, Contract!Given, Fulfilled
    <3> QED
      BY <3>6 DEF Contract!QNext
  <2>3. CASE Current(req[s]) /\ ~Holds(s)
    BY <1>2, <1>5, <2>1, <2>3 DEF SubmitFulfils
  <2>4. CASE ~Current(req[s])
    <3>1. Discard({req[s]}) /\ sub' = [sub EXCEPT ![s] = "refused"]
      BY <1>5, <2>4 DEF SubmitFulfils
    <3>2. UNCHANGED <<bound, given>>
      BY <3>1 DEF Discard
    <3> QED
      BY <1>2, <2>1, <2>4, <3>1, <3>2
  <2> QED
    BY <2>2, <2>3, <2>4
<1>6. CASE SubmitFails(s)
  BY <1>2, <1>6 DEF SubmitFails
<1> QED
  BY <1>1, <1>3, <1>4, <1>5, <1>6 DEF Submit

LEMMA ContractStep == TypeOK /\ AskInv /\ [Next]_vars => [Contract!QNext]_(Contract!qvars)
<1>1. UNCHANGED vars => UNCHANGED Contract!qvars
  BY SeenSame DEF vars, taskVars, regVars, subVars, Contract!qvars
<1> QED
  BY <1>1, TaskImplements, WaitImplements, SubmitImplements DEF Next

(***************************************************************************)
(* The registry, its fences and its two-phase submissions implement the    *)
(* contract of a question: for any number of hooks, submissions and turn    *)
(* changes a question gets at most one answer, logged before and given in   *)
(* its own turn, and both parties are told what really happened.            *)
(***************************************************************************)
THEOREM ContractImplemented == Spec => ImplementsContract
BY ContractInit, ContractStep, AskTypeCorrect, AskInvariant, PTL
   DEF Spec, ImplementsContract, Contract!QSpec

-----------------------------------------------------------------------------
(* What the contract gives the parties. *)

LEMMA ContractTypes ==
  ASSUME TypeOK
  PROVE  /\ Fates \in [Requests -> {"unasked", "open", "answered", "revoked", "dropped"}]
         /\ Tolds \in [Requests -> {"nothing", "answered", "revoked", "gone"}]
         /\ Verdicts \in [Answers -> {"none", "pending", "ok", "erred", "refused"}]
         /\ given \in [Requests -> Answers \cup {NoAnswer}]
         /\ req \in [Answers -> Requests \cup {NoRequest}]
         /\ \A s \in Answers : Verdicts[s] # "none" => req[s] \in Requests
         /\ Live \subseteq Requests
BY DEF TypeOK, Fates, Fate, Tolds, Told, Verdicts, Heard, Fulfilled, Live

\* No step of the contract makes the parties disagree.
LEMMA FaithfulStep ==
  TypeOK /\ TypeOK' /\ Contract!Faithful /\ [Contract!QNext]_(Contract!qvars)
    => Contract!Faithful'
<1> SUFFICES ASSUME TypeOK, TypeOK', Contract!Faithful,
                    [Contract!QNext]_(Contract!qvars)
             PROVE  Contract!Faithful'
  OBVIOUS
<1> USE NullAssumption, ContractTypes DEF Contract!Faithful, Contract!Given
<1>1. CASE Contract!TurnEnds
  BY <1>1 DEF Contract!TurnEnds
<1>2. ASSUME NEW rs, Contract!Revoke(rs) PROVE Contract!Faithful'
  BY <1>2 DEF Contract!Revoke
<1>3. ASSUME NEW r \in Requests, Contract!Ask(r) PROVE Contract!Faithful'
  BY <1>3 DEF Contract!Ask
<1>4. ASSUME NEW r \in Requests, Contract!Hears(r) PROVE Contract!Faithful'
  BY <1>4 DEF Contract!Hears
<1>5. ASSUME NEW r \in Requests, Contract!Leaves(r) PROVE Contract!Faithful'
  BY <1>5 DEF Contract!Leaves
<1>6. ASSUME NEW s \in Answers, NEW r \in Requests, Contract!Submit(s, r)
      PROVE  Contract!Faithful'
  BY <1>6 DEF Contract!Submit
<1>7. ASSUME NEW s \in Answers, Contract!Log(s) PROVE Contract!Faithful'
  BY <1>7 DEF Contract!Log
<1>8. ASSUME NEW s \in Answers, Contract!Answer(s) PROVE Contract!Faithful'
  BY <1>8 DEF Contract!Answer
<1>9. ASSUME NEW s \in Answers, Contract!Refuse(s) PROVE Contract!Faithful'
  BY <1>9 DEF Contract!Refuse
<1>10. CASE UNCHANGED Contract!qvars
  BY <1>10 DEF Contract!qvars
<1> QED
  BY <1>1, <1>2, <1>3, <1>4, <1>5, <1>6, <1>7, <1>8, <1>9, <1>10 DEF Contract!QNext

(***************************************************************************)
(* Both parties are told the truth: a submission reported as accepted, or   *)
(* one that failed only after it had woken the hook, is the logged answer   *)
(* its question got; a question counts as answered only by such a           *)
(* submission; and a hook that was told of an answer or of a revocation has *)
(* a question that was answered or revoked.                                 *)
(***************************************************************************)
THEOREM PartiesToldTheTruth == Spec => []Contract!Faithful
<1>1. Contract!QInit => Contract!Faithful
  BY NullAssumption DEF Contract!QInit, Contract!Faithful, Contract!Given
<1> QED
  BY <1>1, ContractInit, ContractStep, FaithfulStep, AskTypeCorrect, AskInvariant, PTL
     DEF Spec

=============================================================================
