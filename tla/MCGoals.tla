------------------------------ MODULE MCGoals ------------------------------
(* The instance of Goals that TLC checks. *)
EXTENDS Goals, TLC

CONSTANTS i1, i2, g1, g2, g3, p1, p2

TwoTips    == {i1, i2}
ThreeGoals == {g1, g2, g3}
TwoProcs   == {p1, p2}

Symmetric == Permutations(TwoTips) \cup Permutations(ThreeGoals) \cup Permutations(TwoProcs)
=============================================================================
