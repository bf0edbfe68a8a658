---------------------------- MODULE AskUserProps ----------------------------
(***************************************************************************)
(* What the question machinery of AskUser promises.                        *)
(***************************************************************************)
EXTENDS AskUser

(***************************************************************************)
(* Two submissions for one question never both get past the reservation:   *)
(* concurrent answers commit exactly one audit row, and a second submission*)
(* is let in only when the first one ended without success.                *)
(***************************************************************************)
Accepted == {"claimed", "audited"} \cup Fulfilled
OneCommitter ==
    \A s, u \in Answers :
      s # u /\ {sub[s], sub[u]} \subseteq Accepted => req[s] # req[u]

(***************************************************************************)
(* A reservation never outlives its submission: else nobody could answer   *)
(* the question any more, and the listings would hide it.                  *)
(***************************************************************************)
ClaimHeld ==
    \A r \in registered :
      future[r] = "open" /\ claim[r] # NoAnswer =>
        /\ sub[claim[r]] \in {"claimed", "audited"}
        /\ req[claim[r]] = r

(***************************************************************************)
(* Once a submission has set its future, whether its caller is told of     *)
(* success or of a late error, the hook is never told that the question    *)
(* was revoked, and gets no other answer.                                  *)
(***************************************************************************)
OkNeverRevoked ==
    \A s \in Answers : sub[s] \in Fulfilled =>
      /\ future[req[s]] = "done" /\ given[req[s]] = s
      /\ hook[req[s]] # "revoked"

(***************************************************************************)
(* A question of the running turn is revoked by nothing but the listing of *)
(* its Task (see ListingDropsOnlyStale) and the end of its own hook: no    *)
(* submission, concurrent or late, and no global listing takes it away.    *)
(***************************************************************************)
RevokedIsStale ==
    [][\A r \in Requests :
         /\ future[r] = "open" /\ future'[r] = "revoked"
         /\ hook'[r] = hook[r] /\ listing' = listing
         => ~Current(r)]_vars

-----------------------------------------------------------------------------
(* The inductive invariant behind the properties above. *)

\* A request_id that was never used is not in the registry.
FreshClean == \A r \in Requests : hook[r] = "idle" =>
    r \notin registered /\ future[r] = "open" /\ claim[r] = NoAnswer
\* Only a question that was asked is answered.
AnswersAsked == \A s \in Answers : sub[s] # "idle" => hook[req[s]] # "idle"
\* A submission in flight holds the reservation of its question while that is open.
InFlight(s) == sub[s] \in {"claimed", "audited"}
Reserved == \A s \in Answers : InFlight(s) =>
    \/ claim[req[s]] = s
    \/ req[s] \notin registered \/ future[req[s]] # "open"
\* The audit trail holds the submissions that got that far, and no others.
AuditKept == \A s \in Answers :
    /\ sub[s] \in {"audited"} \cup Fulfilled => s \in audited
    /\ s \in audited => sub[s] \in {"audited", "refused"} \cup Fulfilled
DoneByOk == \A r \in Requests : future[r] = "done" =>
    /\ given[r] \in Answers /\ sub[given[r]] \in Fulfilled
    /\ req[given[r]] = r
\* What was read of the Task is at most as new as the Task is.
BoundBehind == \A r \in Requests : hook[r] # "idle" =>
    bound[r] <= turn /\ (bound[r] = turn => active)
SeenBehind == \A s \in Answers : sub[s] # "idle" =>
    /\ seen[s].turn <= turn /\ bound[req[s]] <= seen[s].turn
    /\ bound[req[s]] = seen[s].turn => seen[s].active

\* An answer reaches a hook only after its audit row was committed, and only for
\* the question it was given to ("Wake the hook only for the reservation whose
\* audit committed", AskUserRegistry.fulfill_answer).
AnswerAudited == \A r \in Requests : future[r] = "done" =>
    /\ given[r] \in audited
    /\ req[given[r]] = r

\* A hook is told of a revocation only when its question was revoked.
ToldRevoked == \A r \in Requests : hook[r] = "revoked" => future[r] = "revoked"

(***************************************************************************)
(* The inductive invariant: reservations, answers and outcomes of the      *)
(* registry agree with the submissions that made them, and no question or  *)
(* submission is ahead of the Task's turn.                                 *)
(***************************************************************************)
AskInv ==
    /\ FreshClean /\ AnswersAsked /\ Reserved /\ AuditKept /\ DoneByOk
    /\ BoundBehind /\ SeenBehind /\ ToldRevoked
    /\ AnswerAudited /\ OneCommitter /\ ClaimHeld /\ OkNeverRevoked

-----------------------------------------------------------------------------
(* The contract: what the two parties see of the registry and the hooks.    *)

Fate(r) ==
    IF hook[r] = "idle" THEN "unasked"
    ELSE IF future[r] = "done" THEN "answered"
    ELSE IF future[r] = "cancelled" THEN "dropped" ELSE future[r]
Told(r) ==
    IF hook[r] \in {"answered", "revoked"} THEN hook[r]
    ELSE IF hook[r] \in {"timedOut", "gone"} THEN "gone" ELSE "nothing"
Heard(s) ==
    IF sub[s] = "idle" THEN "none"
    ELSE IF sub[s] \in Fulfilled \cup {"refused"} THEN sub[s] ELSE "pending"

Live     == {r \in Requests : hook[r] # "idle" /\ Current(r)}
Fates    == [r \in Requests |-> Fate(r)]
Tolds    == [r \in Requests |-> Told(r)]
Verdicts == [s \in Answers |-> Heard(s)]

Contract == INSTANCE QuestionContract WITH
    live <- Live, fate <- Fates, by <- given, told <- Tolds,
    on <- req, verdict <- Verdicts, log <- audited

(***************************************************************************)
(* The two-phase submission, the fences and the listings implement the     *)
(* contract: however turn changes, timeouts, listings and failed commits    *)
(* cut in, each question gets at most one answer, logged before and in its  *)
(* own turn, and neither party is told anything else.                       *)
(***************************************************************************)
ImplementsContract == Contract!QSpec

-----------------------------------------------------------------------------
(* Two statements of the code that it does not keep. *)

(***************************************************************************)
(* A registered question has a hook that waits for it (the comment of the  *)
(* CancelledError handler: a disconnected hook's question is cleared).     *)
(***************************************************************************)
QuestionHasHook ==
    \A r \in registered : hook[r] \in {"opening", "announcing", "waiting"}

(***************************************************************************)
(* The listing of a Task drops only "prompts that no longer belong to the  *)
(* current active turn" (AskUserRegistry.discard_stale_for_task).          *)
(***************************************************************************)
ListingDropsOnlyStale ==
    [][listing.on /\ ~listing'.on =>
         \A r \in registered \ registered' : ~Current(r)]_vars
=============================================================================
