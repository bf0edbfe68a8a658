----------------------------- MODULE MCDelivery -----------------------------
(***************************************************************************)
(* TLC instances of Delivery.                                               *)
(***************************************************************************)
EXTENDS DeliveryProps, TLC

CONSTANTS c1, c2

OneController == {c1}
TwoControllers == {c1, c2}
Symmetry == Permutations(TwoControllers)
=============================================================================
