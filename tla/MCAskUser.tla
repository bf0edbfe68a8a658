------------------------------ MODULE MCAskUser ------------------------------
(* The instances TLC checks; identities are interchangeable. *)
EXTENDS AskUserProps, TLC

Symmetry == Permutations(Requests) \cup Permutations(Answers)
=============================================================================
