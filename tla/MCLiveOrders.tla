---------------------------- MODULE MCLiveOrders ----------------------------
(* Values of the constants of LiveOrders for model checking.                *)
EXTENDS LiveOrders, TLC

CONSTANTS c1, c2, p1, p2, p3

\* Requests run the same code.
RequestSymmetry == Permutations(Requests)
=============================================================================
