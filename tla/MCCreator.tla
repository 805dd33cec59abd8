----------------------------- MODULE MCCreator ------------------------------
(* The instance of Creator that TLC checks: two requests, two moderators, one of everything else. *)
EXTENDS Creator, TLC

CONSTANTS p, q, ann, bob, inv, x, y

TwoProcs  == {p, q}
TwoPeople == {ann, bob}
OneInvite == {inv}
TwoFields == {x, y}
TwoTiers  == {1, 2}
Few       == [k \in Kinds |-> IF k = "moderator" THEN 2 ELSE 1]
Alike     == Permutations(TwoProcs) \cup Permutations(TwoPeople) \cup Permutations(TwoFields)
=============================================================================
