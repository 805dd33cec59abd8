----------------------------- MODULE MCOverlay -----------------------------
(* The instances of OverlayStream that TLC checks. *)
EXTENDS OverlayStream, TLC

CONSTANTS s1, s2

TwoStreams == {s1, s2}
All        == [s \in Streams |-> Rows]
Symmetric  == Permutations(TwoStreams)
=============================================================================
