---------------------------- MODULE MCAwpWrapper ----------------------------
(* Model checking of AwpWrapper on two signal groups and a short cycle.    *)
EXTENDS AwpWrapper, TLC

CONSTANTS sg1, sg2

Groups     == {sg1, sg2}
Alike      == Permutations(Groups)
OneAhead   == {0, 1}
OnOff      == BOOLEAN
\* before the pulse, within it, and beyond the next
AllOffsets == {-3, 2}
OneThree   == {1, 3}
=============================================================================
