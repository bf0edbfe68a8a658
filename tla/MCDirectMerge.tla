---------------------------- MODULE MCDirectMerge ----------------------------
(***************************************************************************)
(* TLC instances of DirectMerge: two reconcilers (the click's and the       *)
(* periodic one) for safety, one for liveness, a few attempts and faults.   *)
(***************************************************************************)
EXTENDS DirectMergeProps, TLC

CONSTANTS p1, p2

MCPublisher == {p1, p2}
OnePublisher == {p1}
Symmetry == Permutations(MCPublisher)
=============================================================================
