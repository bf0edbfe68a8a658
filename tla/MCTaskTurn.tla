----------------------------- MODULE MCTaskTurn -----------------------------
(* The instances TLC checks; identities are interchangeable. *)
EXTENDS TaskTurnProps, TLC

Symmetry ==
    Permutations(Tasks) \cup Permutations(Instances) \cup Permutations(Procs)
=============================================================================
