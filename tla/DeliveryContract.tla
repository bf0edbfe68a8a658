-------------------------- MODULE DeliveryContract --------------------------
(***************************************************************************)
(* What an autonomous delivery promises its user, without controllers,      *)
(* leases, capabilities and an outbox: work moves the head one commit at a   *)
(* time; only a reviewed head is published, pushed and watched, and it does  *)
(* not move meanwhile; every new attempt is paid from the cycle budget; an   *)
(* ended run stays ended, but for the retry of one that failed before its    *)
(* pull request was watched, which goes on where it failed.                  *)
(***************************************************************************)
EXTENDS Naturals

CONSTANT MaxCycles

VARIABLES
    stage,    \* "work", "publish", "watch", "success", "failed" or "cancelled"
    back,     \* the stage that a failed run failed in
    head,     \* the commit the run stands for
    cycles,   \* cycles used
    approved, \* heads a review approved
    pushed    \* heads that left the machine

dvars == <<stage, back, head, cycles, approved, pushed>>

DInit ==
    /\ stage = "work" /\ back = "none" /\ head = 0 /\ cycles = 1
    /\ approved = {} /\ pushed = {}

-----------------------------------------------------------------------------
(* Reviews and pushes may belong to a stage that is over already.  Only a head
   that the run has had is approved, and only an approved one is pushed. *)

Approve(h) ==
    /\ approved' = approved \cup {h}
    /\ UNCHANGED <<stage, back, head, cycles, pushed>>

Push(h) ==
    /\ pushed' = pushed \cup {h}
    /\ UNCHANGED <<stage, back, head, cycles, approved>>

-----------------------------------------------------------------------------
(* The way of the run. *)

Code ==
    /\ stage = "work"
    /\ head' = head + 1
    /\ UNCHANGED <<stage, back, cycles, approved, pushed>>

Goes(from, to) ==
    /\ stage = from /\ stage' = to
    /\ UNCHANGED <<head, approved, pushed>>

Advance ==
    /\ \/ Goes("work", "publish") /\ head \in approved
       \/ Goes("publish", "watch") /\ head \in pushed
    /\ UNCHANGED <<back, cycles>>

Pay == cycles < MaxCycles /\ cycles' = cycles + 1

\* Findings of the review or of the watched pull request, or a turn without a result.
Again ==
    /\ Goes("work", "work") \/ Goes("watch", "work")
    /\ Pay /\ UNCHANGED back

\* The watched pull request is judged ready, or there was nothing to change.
Succeed ==
    /\ Goes("watch", "success") \/ Goes("work", "success")
    /\ UNCHANGED <<back, cycles>>

Cancel ==
    /\ Goes("work", "cancelled")
    /\ UNCHANGED <<back, cycles>>

Fail ==
    /\ \E from \in {"work", "publish", "watch"} : Goes(from, "failed")
    /\ back' = stage
    /\ UNCHANGED cycles

Retry ==
    /\ back \in {"work", "publish"} /\ Goes("failed", back)
    /\ Pay /\ back' = "none"

DNext ==
    \/ (\E h \in 0..head : Approve(h)) \/ (\E h \in approved : Push(h))
    \/ Code \/ Advance \/ Again \/ Succeed \/ Cancel \/ Fail \/ Retry

DSpec == DInit /\ [][DNext]_dvars
=============================================================================
