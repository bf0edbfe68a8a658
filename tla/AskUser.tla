------------------------------- MODULE AskUser -------------------------------
(***************************************************************************)
(* Questions of a running turn to the user (api/ask_user, services/        *)
(* ask_user). A hook of the provider blocks in /ask-user/wait on a future  *)
(* of the in-memory registry; a submission of the card reserves the        *)
(* question, commits an audit row, and only then sets the future. Turn     *)
(* changes of the Task, two listings that drop stale questions, timeouts,  *)
(* disconnects and database errors interleave with both.                   *)
(*                                                                         *)
(* One Task. Its identity as the code compares it (incarnation, retry,     *)
(* turn generation, session and status) is one number that every change of *)
(* any of them advances.                                                   *)
(***************************************************************************)
EXTENDS Naturals, FiniteSets

CONSTANTS
    Requests,   \* request_ids: the calls of /ask-user/wait
    Answers,    \* claim_ids: the submissions of a card
    NoAnswer, NoRequest,
    MaxTurn     \* bound: changes of the Task's identity

ASSUME NullAssumption == NoAnswer \notin Answers /\ NoRequest \notin Requests
ASSUME BoundAssumption == MaxTurn \in Nat

VARIABLES
    \* the Task row
    turn,       \* its identity
    active,     \* status is in_progress or executing
    exists,
    locked,     \* a wait transaction holds the row's writer fence
    \* the registry: request_id -> PendingAsk
    registered, \* the keys of _pending
    bound,      \* the identity a PendingAsk carries
    future,     \* its future; "done" holds the answer given[r]
    given,
    claim,      \* PendingAsk.answer_claim_id
    \* coroutines
    hook,       \* /ask-user/wait
    sub,        \* the submission endpoint
    req,        \* the request a submission is for
    seen,       \* the Task it read before its access check
    listing,    \* the Task that /tasks/{id}/ask-user/pending read
    \* audit rows of committed answers
    audited

taskVars == <<turn, active, exists, locked>>
regVars  == <<registered, bound, future, given, claim>>
subVars  == <<sub, req, seen, audited>>
vars     == <<taskVars, regVars, hook, subVars, listing>>

View  == [on : BOOLEAN, turn : Nat, active : BOOLEAN]
NoView == [on |-> FALSE, turn |-> 0, active |-> FALSE]
Row   == [on |-> TRUE, turn |-> turn, active |-> active]
Ended == {"answered", "revoked", "timedOut", "gone"}
\* The outcomes of a submission that has set the future: success, or an error that
\* its caller got all the same.
Fulfilled == {"ok", "erred"}

TypeOK ==
    /\ turn \in Nat /\ active \in BOOLEAN /\ exists \in BOOLEAN
    /\ locked \in Requests \cup {NoRequest}
    /\ registered \subseteq Requests /\ bound \in [Requests -> Nat]
    /\ future \in [Requests -> {"open", "done", "revoked", "cancelled"}]
    /\ given \in [Requests -> Answers \cup {NoAnswer}]
    /\ claim \in [Requests -> Answers \cup {NoAnswer}]
    /\ hook \in [Requests -> {"idle", "opening", "announcing", "waiting"} \cup Ended]
    /\ sub \in [Answers -> {"idle", "read", "claimed", "audited", "ok", "erred", "refused"}]
    /\ req \in [Answers -> Requests \cup {NoRequest}]
    /\ \A s \in Answers : sub[s] # "idle" => req[s] \in Requests
    /\ seen \in [Answers -> View]
    /\ listing \in View
    /\ audited \subseteq Answers

Init ==
    /\ turn = 0 /\ active \in BOOLEAN /\ exists = TRUE /\ locked = NoRequest
    /\ registered = {} /\ bound = [r \in Requests |-> 0]
    /\ future = [r \in Requests |-> "open"]
    /\ given = [r \in Requests |-> NoAnswer]
    /\ claim = [r \in Requests |-> NoAnswer]
    /\ hook = [r \in Requests |-> "idle"]
    /\ sub = [s \in Answers |-> "idle"]
    /\ req = [s \in Answers |-> NoRequest]
    /\ seen = [s \in Answers |-> NoView]
    /\ listing = NoView
    /\ audited = {}

-----------------------------------------------------------------------------
(* The Task, as the rest of the backend moves it. *)

Writable == exists /\ locked = NoRequest
Current(r) == exists /\ active /\ bound[r] = turn

TurnMoves ==
    /\ Writable /\ turn < MaxTurn
    /\ turn' = turn + 1 /\ active' \in BOOLEAN
    /\ UNCHANGED <<exists, locked, regVars, hook, subVars, listing>>

\* Mutant: discard revokes a question that was answered already.
DiscardAnswered(rs) ==
    /\ registered' = registered \ rs
    /\ future' = [r \in Requests |-> IF r \in rs \cap registered THEN "revoked"
                                    ELSE future[r]]
    /\ UNCHANGED <<bound, given, claim>>

\* AskUserRegistry.discard: forget the question, revoke it if nobody answered.
Discard(rs) ==
    /\ registered' = registered \ rs
    /\ future' = [r \in Requests |->
                    IF r \in rs \cap registered /\ future[r] = "open"
                    THEN "revoked" ELSE future[r]]
    /\ UNCHANGED <<bound, given, claim>>

\* Deletion of a terminal Task, with discard_for_task right after its commit.
DeleteTask ==
    /\ Writable /\ ~active
    /\ exists' = FALSE
    /\ Discard(Requests)
    /\ UNCHANGED <<turn, active, locked, hook, subVars, listing>>

-----------------------------------------------------------------------------
(* The hook's coroutine. *)

\* Fence the Task row, create the question, write the card: not yet committed.
WaitOpens(r) ==
    /\ hook[r] = "idle" /\ Writable /\ active
    /\ locked' = r
    /\ registered' = registered \cup {r}
    /\ bound' = [bound EXCEPT ![r] = turn]
    /\ hook' = [hook EXCEPT ![r] = "opening"]
    /\ UNCHANGED <<turn, active, exists, future, given, claim, subVars, listing>>

WaitCommits(r) ==
    /\ hook[r] = "opening"
    /\ locked' = NoRequest
    /\ hook' = [hook EXCEPT ![r] = "announcing"]
    /\ UNCHANGED <<turn, active, exists, regVars, subVars, listing>>

WaitAborts(r) ==
    /\ hook[r] = "opening"
    /\ locked' = NoRequest
    /\ Discard({r})
    /\ hook' = [hook EXCEPT ![r] = "gone"]
    /\ UNCHANGED <<turn, active, exists, subVars, listing>>

\* Both broadcasts of the card are out.
Announced(r) ==
    /\ hook[r] = "announcing"
    /\ hook' = [hook EXCEPT ![r] = "waiting"]
    /\ UNCHANGED <<taskVars, regVars, subVars, listing>>

\* Cut off during the broadcasts, which no handler encloses.
CutOffEarly(r) ==
    /\ hook[r] = "announcing"
    /\ hook' = [hook EXCEPT ![r] = "gone"]
    /\ UNCHANGED <<taskVars, regVars, subVars, listing>>

\* Mutant: the endpoint reports the state of the future as its own.
WakesRaw(r) ==
    /\ hook[r] = "waiting" /\ future[r] \in {"done", "revoked"}
    /\ Discard({r})
    /\ hook' = [hook EXCEPT ![r] = future[r]]
    /\ UNCHANGED <<taskVars, subVars, listing>>

Wakes(r) ==
    /\ hook[r] = "waiting" /\ future[r] \in {"done", "revoked"}
    /\ Discard({r})
    /\ hook' = [hook EXCEPT ![r] = IF future[r] = "done" THEN "answered" ELSE "revoked"]
    /\ UNCHANGED <<taskVars, subVars, listing>>

\* A timeout or a disconnect cancels an open future. Since Python 3.12 both also
\* win over a future that was set in the same turn of the event loop.
GivesUp(r) ==
    /\ hook[r] = "waiting"
    /\ registered' = registered \ {r}
    /\ future' = [future EXCEPT ![r] = IF @ = "open" THEN "cancelled" ELSE @]
    /\ \E how \in {"timedOut", "gone"} : hook' = [hook EXCEPT ![r] = how]
    /\ UNCHANGED <<taskVars, bound, given, claim, subVars, listing>>

-----------------------------------------------------------------------------
(* The submission of a card. *)

SubmitReads(s, r) ==
    /\ sub[s] = "idle" /\ hook[r] # "idle" /\ exists
    /\ sub' = [sub EXCEPT ![s] = "read"] /\ req' = [req EXCEPT ![s] = r]
    /\ seen' = [seen EXCEPT ![s] = Row]
    /\ UNCHANGED <<taskVars, regVars, hook, audited, listing>>

\* Mutant: a question that another submission reserved can be reserved again.
UnansweredTaken(r) == r \in registered /\ future[r] = "open"
\* Nobody has answered the question or is about to.
Unanswered(r) == r \in registered /\ future[r] = "open" /\ claim[r] = NoAnswer

\* Mutant: a submission that gets no reservation drops the question.
SubmitClaimsDropping(s) ==
    LET r == req[s]
    IN  /\ sub[s] = "read"
        /\ IF bound[r] = seen[s].turn /\ seen[s].active /\ Unanswered(r)
           THEN /\ claim' = [claim EXCEPT ![r] = s]
                /\ sub' = [sub EXCEPT ![s] = "claimed"]
                /\ UNCHANGED <<registered, bound, future, given>>
           ELSE /\ Discard({r}) /\ sub' = [sub EXCEPT ![s] = "refused"]
        /\ UNCHANGED <<taskVars, hook, req, seen, audited, listing>>

\* After the access check the question is compared with the Task read before it.
SubmitClaims(s) ==
    LET r == req[s]
        fits == bound[r] = seen[s].turn /\ seen[s].active
    IN  /\ sub[s] = "read"
        /\ \/ /\ fits /\ Unanswered(r)
              /\ claim' = [claim EXCEPT ![r] = s]
              /\ sub' = [sub EXCEPT ![s] = "claimed"]
              /\ UNCHANGED <<registered, bound, future, given>>
           \/ /\ fits /\ ~Unanswered(r)
              /\ sub' = [sub EXCEPT ![s] = "refused"]
              /\ UNCHANGED regVars
           \/ /\ ~fits
              /\ Discard({r})
              /\ sub' = [sub EXCEPT ![s] = "refused"]
        /\ UNCHANGED <<taskVars, hook, req, seen, audited, listing>>

\* Mutant: the row is fenced before the audit commit, but nothing is compared.
SubmitAuditsUnfenced(s) ==
    /\ sub[s] = "claimed" /\ Writable
    /\ audited' = audited \cup {s}
    /\ sub' = [sub EXCEPT ![s] = "audited"]
    /\ UNCHANGED <<taskVars, regVars, hook, req, seen, listing>>

\* Under the fence of the Task row: audit an answer to the current turn only.
SubmitAudits(s) ==
    LET r == req[s]
    IN  /\ sub[s] = "claimed" /\ Writable
        /\ \/ /\ Current(r)
              /\ audited' = audited \cup {s}
              /\ sub' = [sub EXCEPT ![s] = "audited"]
              /\ UNCHANGED regVars
           \/ /\ ~Current(r)
              /\ Discard({r})
              /\ sub' = [sub EXCEPT ![s] = "refused"]
              /\ UNCHANGED audited
        /\ UNCHANGED <<taskVars, hook, req, seen, listing>>

\* Whether s still holds the reservation of an open question.
Holds(s) ==
    LET r == req[s] IN r \in registered /\ future[r] = "open" /\ claim[r] = s

\* Under a second fence: wake the hook, unless the turn or the question is over.
\* What follows the wake-up (the rollback that releases the fence, a broadcast, a
\* cancellation that was put off) may still raise, and takes nothing back.
SubmitFulfils(s) ==
    LET r == req[s]
    IN  /\ sub[s] = "audited" /\ Writable
        /\ \/ /\ Current(r) /\ Holds(s)
              /\ future' = [future EXCEPT ![r] = "done"]
              /\ given' = [given EXCEPT ![r] = s]
              /\ \E outcome \in Fulfilled : sub' = [sub EXCEPT ![s] = outcome]
              /\ UNCHANGED <<registered, bound, claim>>
           \/ /\ Current(r) /\ ~Holds(s)
              /\ sub' = [sub EXCEPT ![s] = "refused"]
              /\ UNCHANGED regVars
           \/ /\ ~Current(r)
              /\ Discard({r})
              /\ sub' = [sub EXCEPT ![s] = "refused"]
        /\ UNCHANGED <<taskVars, hook, req, seen, audited, listing>>

\* Mutant: only errors before the audit commit give the reservation back.
SubmitFailsKeeping(s) ==
    /\ sub[s] \in {"claimed", "audited"}
    /\ sub' = [sub EXCEPT ![s] = "refused"]
    /\ claim' = IF Holds(s) /\ sub[s] = "claimed"
                THEN [claim EXCEPT ![req[s]] = NoAnswer] ELSE claim
    /\ UNCHANGED <<taskVars, registered, bound, future, given, hook, req, seen,
                   audited, listing>>

\* Revoked access, a deleted Task, a cancelled request or a database error.
SubmitFails(s) ==
    /\ sub[s] \in {"claimed", "audited"}
    /\ sub' = [sub EXCEPT ![s] = "refused"]
    /\ claim' = IF Holds(s) THEN [claim EXCEPT ![req[s]] = NoAnswer] ELSE claim
    /\ UNCHANGED <<taskVars, registered, bound, future, given, hook, req, seen,
                   audited, listing>>

-----------------------------------------------------------------------------
(* The two listings for reconnecting clients drop what they find stale. *)

\* The listing of one Task reads the row, then awaits the access check.
ListReads ==
    /\ exists
    /\ listing' = Row
    /\ UNCHANGED <<taskVars, regVars, hook, subVars>>

\* It compares all of the identity but the session, so that it may miss a change.
ListDrops ==
    /\ listing.on
    /\ \E rs \in SUBSET {r \in Requests : bound[r] # listing.turn \/ ~listing.active} :
          Discard(rs)
    /\ listing' = NoView
    /\ UNCHANGED <<taskVars, hook, subVars>>

\* The listing of all Tasks reads each row after it has chosen the question.
ListAllDrops(r) ==
    /\ r \in registered /\ ~Current(r)
    /\ Discard({r})
    /\ UNCHANGED <<taskVars, hook, subVars, listing>>

-----------------------------------------------------------------------------
Wait(r) ==
    \/ WaitOpens(r) \/ WaitCommits(r) \/ WaitAborts(r) \/ Announced(r)
    \/ CutOffEarly(r) \/ Wakes(r) \/ GivesUp(r)
Submit(s) ==
    \/ \E r \in Requests : SubmitReads(s, r)
    \/ SubmitClaims(s) \/ SubmitAudits(s) \/ SubmitFulfils(s) \/ SubmitFails(s)

Next ==
    \/ TurnMoves \/ DeleteTask \/ ListReads \/ ListDrops
    \/ \E r \in Requests : Wait(r) \/ ListAllDrops(r)
    \/ \E s \in Answers : Submit(s)

Spec == Init /\ [][Next]_vars
=============================================================================
