---------------------------- MODULE MCDelivery ----------------------------
(* The instances of Delivery that TLC checks. *)
EXTENDS Delivery, TLC

CONSTANTS i1, w1, w2

OneTip     == {i1}
TwoWorkers == {w1, w2}
PaidLines  == {[NoMoney EXCEPT !.kind = "paid_message", !.amount = 1,
                               !.payment = "settled", !.funding = "credit"]}

\* The processes are interchangeable.
Alike == Permutations(TwoWorkers)
=============================================================================
