---------------------------- MODULE TipLifecycle ----------------------------
(***************************************************************************)
(* What OpenVibe.Tips promises about money, whatever calls, events and     *)
(* crashes happen on the way (README, "Two state machines per interaction" *)
(* and "Exactly one logical interaction"): an interaction is paid by at    *)
(* most one payment and a payment pays at most one interaction; what is    *)
(* settled is only ever taken back, never more than was given; a refused   *)
(* payment gives nothing, and is made good if Billing moved it after all.  *)
(***************************************************************************)
EXTENDS Naturals

CONSTANTS Tips, Payments, NoPayment

VARIABLES
    status,   \* payment_state of each interaction
    source,   \* the Billing transaction or provider receipt that paid it
    given     \* the bits it counts for in the creator's totals

lifecycle == <<status, source, given>>

Init ==
    /\ status = [i \in Tips |-> "absent"]
    /\ source = [i \in Tips |-> NoPayment]
    /\ given  = [i \in Tips |-> 0]

Ask(i) ==
    /\ status[i] = "absent"
    /\ status' = [status EXCEPT ![i] = "pending"]
    /\ UNCHANGED <<source, given>>

\* Paid by p: requested before, or recorded now.  A simulation is paid by nothing.
Pay(i, p) ==
    /\ status[i] \in {"absent", "pending", "failed"}
    /\ p = NoPayment \/ \A j \in Tips : source[j] # p
    /\ status' = [status EXCEPT ![i] = "settled"]
    /\ source' = [source EXCEPT ![i] = p]
    /\ given'[i] \in Nat
    /\ \A j \in Tips \ {i} : given'[j] = given[j]

Refuse(i) ==
    /\ status[i] = "pending"
    /\ status' = [status EXCEPT ![i] = "failed"]
    /\ UNCHANGED <<source, given>>

TakeBack(i) ==
    /\ status[i] \in {"settled", "reversed"}
    /\ source[i] # NoPayment
    /\ status' = [status EXCEPT ![i] = "reversed"]
    /\ given'[i] \in 0..given[i]
    /\ \A j \in Tips \ {i} : given'[j] = given[j]
    /\ UNCHANGED source

Next ==
    \E i \in Tips :
        \/ Ask(i)
        \/ \E p \in Payments \cup {NoPayment} : Pay(i, p)
        \/ Refuse(i)
        \/ TakeBack(i)

Spec == Init /\ [][Next]_lifecycle
=============================================================================
