----------------------------- MODULE MCRequests -----------------------------
(* The instances of Requests that TLC checks. *)
EXTENDS Requests, TLC

CONSTANTS sent, again, other, page, key1, key2, small, large

\* A request, its retry, the same key with another body, and a form.
AllReqs  == {sent, again, other, page}
OneForm  == {page}
AllKeys  == [q \in AllReqs |-> IF q = page THEN key2 ELSE key1]
AllBody  == [q \in AllReqs |-> IF q \in {other, page} THEN large ELSE small]
Twins    == Permutations({sent, again})    \* the same request twice
Mixed    == [body \in {small, large} |-> IF body = small THEN "credit" ELSE "checkout"]
Checkout == [body \in {small, large} |-> "checkout"]
=============================================================================
