-------------------------- MODULE QuestionContract --------------------------
(***************************************************************************)
(* What the question machinery promises to the two parties, without        *)
(* futures, reservations, fences or snapshots: a question gets at most one  *)
(* answer; that answer was logged before, came while the turn that asked    *)
(* was running, and is the only one reported as accepted; and whoever asked *)
(* is told what really became of the question.                              *)
(***************************************************************************)
CONSTANTS Requests, Answers, NoAnswer, NoRequest

VARIABLES
    live,     \* the questions of the running turn
    fate,     \* question |-> "unasked", "open", "answered", "revoked", "dropped"
    by,       \* question |-> the answer it got
    told,     \* question |-> "nothing", "answered", "revoked" or "gone"
    on,       \* answer |-> the question it is for
    verdict,  \* answer |-> "none", "pending", "refused", or given: "ok", "erred"
    log       \* the answers in the audit trail

Given == {"ok", "erred"}
qvars == <<live, fate, by, told, on, verdict, log>>

QInit ==
    /\ live = {} /\ log = {}
    /\ fate = [r \in Requests |-> "unasked"]
    /\ by = [r \in Requests |-> NoAnswer]
    /\ told = [r \in Requests |-> "nothing"]
    /\ on = [s \in Answers |-> NoRequest]
    /\ verdict = [s \in Answers |-> "none"]

-----------------------------------------------------------------------------
(* Asking. *)

Ask(r) ==
    /\ fate[r] = "unasked"
    /\ fate' = [fate EXCEPT ![r] = "open"] /\ live' = live \cup {r}
    /\ UNCHANGED <<by, told, on, verdict, log>>

\* A turn takes all its questions with it and never comes back.
TurnEnds ==
    /\ live' = {}
    /\ UNCHANGED <<fate, by, told, on, verdict, log>>

\* Open questions may be taken back.
Revoke(rs) ==
    /\ fate' = [r \in Requests |-> IF r \in rs /\ fate[r] = "open" THEN "revoked"
                                                                  ELSE fate[r]]
    /\ UNCHANGED <<live, by, told, on, verdict, log>>

\* The hook hears what became of its question.
Hears(r) ==
    /\ told[r] = "nothing" /\ fate[r] \in {"answered", "revoked"}
    /\ told' = [told EXCEPT ![r] = fate[r]]
    /\ UNCHANGED <<live, fate, by, on, verdict, log>>

\* The hook leaves without an outcome, and usually takes its question along.
Leaves(r) ==
    /\ told[r] = "nothing" /\ fate[r] # "unasked"
    /\ told' = [told EXCEPT ![r] = "gone"]
    /\ UNCHANGED fate \/ (fate[r] = "open" /\ \E f \in {"revoked", "dropped"} :
                                               fate' = [fate EXCEPT ![r] = f])
    /\ UNCHANGED <<live, by, on, verdict, log>>

-----------------------------------------------------------------------------
(* Answering. *)

Submit(s, r) ==
    /\ verdict[s] = "none" /\ fate[r] # "unasked"
    /\ on' = [on EXCEPT ![s] = r] /\ verdict' = [verdict EXCEPT ![s] = "pending"]
    /\ UNCHANGED <<live, fate, by, told, log>>

\* A pending answer is logged; no other logged answer to the question can still
\* be given, or was.
Log(s) ==
    /\ verdict[s] = "pending" /\ on[s] \in live
    /\ \A u \in log \ {s} : on[u] = on[s] => verdict[u] = "refused"
    /\ log' = log \cup {s}
    /\ UNCHANGED <<live, fate, by, told, on, verdict>>

\* The answer is given. Whoever sent it may see an error all the same.
Answer(s) ==
    /\ verdict[s] = "pending" /\ s \in log
    /\ on[s] \in live /\ fate[on[s]] = "open"
    /\ fate' = [fate EXCEPT ![on[s]] = "answered"] /\ by' = [by EXCEPT ![on[s]] = s]
    /\ \E v \in Given : verdict' = [verdict EXCEPT ![s] = v]
    /\ UNCHANGED <<live, told, on, log>>

\* A refusal leaves the question to others, unless its turn is over.
Refuse(s) ==
    /\ verdict[s] = "pending"
    /\ verdict' = [verdict EXCEPT ![s] = "refused"]
    /\ \/ UNCHANGED fate
       \/ /\ on[s] \notin live /\ fate[on[s]] = "open"
          /\ fate' = [fate EXCEPT ![on[s]] = "revoked"]
    /\ UNCHANGED <<live, by, told, on, log>>

-----------------------------------------------------------------------------
QNext ==
    \/ TurnEnds
    \/ \E rs \in SUBSET Requests : Revoke(rs)
    \/ \E r \in Requests : Ask(r) \/ Hears(r) \/ Leaves(r)
    \/ \E s \in Answers :
          \/ \E r \in Requests : Submit(s, r)
          \/ Log(s) \/ Answer(s) \/ Refuse(s)

QSpec == QInit /\ [][QNext]_qvars

\* What follows for the parties: an answer that was given is the one its question got,
\* and a hook that heard of an answer or of a revocation was told the truth.
Faithful ==
    /\ \A s \in Answers : verdict[s] \in Given =>
          /\ s \in log /\ on[s] \in Requests
          /\ fate[on[s]] = "answered" /\ by[on[s]] = s
    /\ \A r \in Requests : fate[r] = "answered" =>
          /\ by[r] \in Answers /\ verdict[by[r]] \in Given /\ on[by[r]] = r
    /\ \A r \in Requests : told[r] \in {"answered", "revoked"} => fate[r] = told[r]
=============================================================================
