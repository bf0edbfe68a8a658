---------------------------- MODULE MergeContract ----------------------------
(***************************************************************************)
(* What the manual merge promises, without leases, reads or transactions:   *)
(* one click arms one effect; the effect reaches the base branch only while *)
(* it is armed; an armed effect is settled or withdrawn, but one that has   *)
(* merged the pull request can only be settled as merged, and a settled     *)
(* merge is for ever.                                                       *)
(***************************************************************************)
VARIABLES stage,  \* "free", "armed", "settled", "merged" or "over"
          landed, \* the base branch was fast-forwarded
          own     \* the pull request was merged by that

cvars == <<stage, landed, own>>

CInit == stage = "free" /\ landed = FALSE /\ own = FALSE

Goes(from, to) == stage \in from /\ stage' \in to /\ UNCHANGED <<landed, own>>

Click    == Goes({"free"}, {"armed"})
Withdraw == ~own /\ Goes({"armed"}, {"free"})
Settle   == Goes({"armed"}, {"merged"})
Push     == stage = "armed" /\ landed' = TRUE /\ own' \in {own, TRUE} /\ UNCHANGED stage

\* The pull request was closed, or its subject replaced, under an armed effect.
Replace  == ~own /\ Goes({"armed"}, {"settled", "over"})

\* The run ends without a merge of its own: closed, reviewed again, or merged
\* by somebody else.
End      == Goes({"free", "settled"}, {"over", "merged"})

CNext == Click \/ Push \/ Withdraw \/ Settle \/ Replace \/ End

CSpec == CInit /\ [][CNext]_cvars

\* A merge by CCM is never offered again, nor told as anything else.
Kept == own => landed /\ stage \in {"armed", "merged"}
=============================================================================
