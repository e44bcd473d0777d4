--------------------------- MODULE MCOutputDelivery ---------------------------
(* OutputDelivery with one route of a router rule.                         *)
EXTENDS OutputDelivery, TLC

CONSTANTS r1, o1, o2, p1

OneRoute == {r1}
TwoOutputs == {o1, o2}
OneOperator == {p1}
Symmetry == Permutations(TwoOutputs)
=============================================================================
