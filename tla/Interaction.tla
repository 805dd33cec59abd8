---------------------------- MODULE Interaction ----------------------------
(***************************************************************************)
(* One paid interaction of OpenVibe.Tips: the row of tip_interactions and  *)
(* the rows that hang on it (effects, overlay alert, paid message, goal    *)
(* contribution, durable events), and what each transaction of             *)
(* server/domain does to them.  No state lives here: every operator maps   *)
(* rows to rows, exactly as one SERIALIZABLE transaction that holds the    *)
(* row's lock does.  Settlement and Delivery say when they run.            *)
(*                                                                         *)
(* A row is two records, as the code keeps two state machines:             *)
(*   m  the money: what was asked, payment_state, references to Billing    *)
(*   s  the show: delivery_state, moderation, effects, alert, goal, events *)
(***************************************************************************)
EXTENDS Naturals, FiniteSets

CONSTANTS
    Tips,        \* interaction ids (tint_...)
    Donations,   \* donations other products start at Billing
    Receipts,    \* provider event ids of tips paid on the creator's own PowerChat
    Kinds,       \* the kinds in play, some of AllKinds
    Amounts,     \* amounts in play, in bits
    NoTxn,       \* NULL billing_txn_id / funding_txn_id
    NoRef,       \* NULL provider_ref
    ChatOn       \* TIPS_CHAT_ADAPTER is not 'none'

AllKinds == {"tip", "paid_message", "tts", "media_request", "sound"}

\* Billing's transactions.  A transfer and a purchase are made under a key derived
\* from the interaction id, so Billing has at most one of each per interaction.
TransferTxn(i) == <<"transfer", i>>
PurchaseTxn(i) == <<"purchase", i>>
DonationTxn(d) == <<"donation", d>>
MoneyTxns == {TransferTxn(i) : i \in Tips} \cup {DonationTxn(d) : d \in Donations}
TxnIds    == MoneyTxns \cup {PurchaseTxn(i) : i \in Tips}

ASSUME ConstantsOK ==
    /\ Kinds \subseteq AllKinds
    /\ Amounts \subseteq Nat \ {0}
    /\ NoTxn \notin TxnIds
    /\ NoRef \notin Receipts
    /\ Receipts \cap (TxnIds \cup {NoTxn}) = {}
    /\ ChatOn \in BOOLEAN

-----------------------------------------------------------------------------
(* Rows *)

PaymentStates    == {"absent", "pending", "settled", "failed", "reversed"}
DeliveryStates   == {"awaiting_payment", "queued", "delivered", "failed", "cancelled"}
ModerationStates == {"visible", "held", "hidden"}
EffectNames      == {"overlay_alert", "chat_line", "paid_message", "tts", "media_request"}
EffectStates     == {"none", "queued", "delivered", "failed", "cancelled"}
EventTypes       == {"ready", "cancelled", "failed"}

MoneyRows ==
    [kind        : AllKinds,
     origin      : {"tips", "billing", "external", "billing-external"},
     funding     : {"credit", "checkout", "provider", "external", "none"},
     amount      : Nat,
     test        : BOOLEAN,
     payment     : PaymentStates,
     txn         : TxnIds \cup {NoTxn},     \* billing_txn_id
     fundingTxn  : TxnIds \cup {NoTxn},     \* funding_txn_id
     intent      : BOOLEAN,                 \* billing_intent_id is set
     ref         : Receipts \cup {NoRef},   \* provider_ref
     due         : BOOLEAN,                 \* transfer_due
     waiting     : BOOLEAN,                 \* next_transfer_at is in the future
     reversed    : Nat,                     \* reversed_bits
     refunds     : SUBSET Nat]              \* reversal_txn_ids

ShowRows ==
    [delivery   : DeliveryStates,
     moderation : ModerationStates,
     effects    : [EffectNames -> EffectStates],
     alert      : {"none", "shown", "hidden"},   \* the overlay_deliveries row of kind alert
     paid       : {"none", "queued", "delivered", "failed", "cancelled"},
            \* the paid_messages / paid_media_requests row; delivered: 'accepted' for media
     counted    : Nat,               \* goal contribution: amount (0: none)
     uncounted  : Nat,               \* goal contribution: reversed_amount
     events     : [EventTypes -> Nat]]   \* tips.interaction.* written to the outbox

NoMoney ==
    [kind |-> "tip", origin |-> "tips", funding |-> "none", amount |-> 0, test |-> FALSE,
     payment |-> "absent", txn |-> NoTxn, fundingTxn |-> NoTxn, intent |-> FALSE,
     ref |-> NoRef, due |-> FALSE, waiting |-> FALSE, reversed |-> 0, refunds |-> {}]

NoShow ==
    [delivery |-> "awaiting_payment", moderation |-> "visible",
     effects |-> [e \in EffectNames |-> "none"], alert |-> "none", paid |-> "none",
     counted |-> 0, uncounted |-> 0, events |-> [ev \in EventTypes |-> 0]]

\* A tip before its payment, which a moderator may have hidden.
BeforePayment(seen) == [NoShow EXCEPT !.moderation = seen]

\* Which settled rows belong in Billing's books (settlement = 'billing').
ViaBilling(m) == m.funding \in {"credit", "checkout", "provider"}

Smaller(a, b) == IF a <= b THEN a ELSE b

\* A simulation or a Billing test payment publishes no durable event.
Publish(m, s, ev) == IF m.test THEN s ELSE [s EXCEPT !.events[ev] = @ + 1]

Queued(s) == {e \in EffectNames : s.effects[e] = "queued"}

-----------------------------------------------------------------------------
(* Settlement and what it shows *)

\* Aggregate the effects into delivery_state; tips.interaction.failed when they fail.
RecomputeDelivery(m, s) ==
    LET states == {s.effects[e] : e \in EffectNames} \ {"none"}
        next   == IF "queued" \in states THEN "queued"
                  ELSE IF "failed" \in states THEN "failed" ELSE "delivered"
    IN  IF \/ s.delivery \in {"cancelled", "awaiting_payment", next}
           \/ s.moderation = "held" /\ states = {}
        THEN s
        ELSE LET moved == [s EXCEPT !.delivery = next]
             IN  IF next = "failed" THEN Publish(m, moved, "failed") ELSE moved

\* Chat deliveries of a kind; only for tips Tips announces itself (ANNOUNCED_HERE),
\* and for a test payment on the test adapter whatever the configuration.
ChatEffects(m) ==
    IF m.origin \in {"tips", "billing-external"} /\ (m.test \/ ChatOn)
    THEN CASE m.kind = "paid_message"  -> {"paid_message"}
           [] m.kind = "tts"           -> {"chat_line", "tts"}
           [] m.kind = "media_request" -> {"media_request"}
           [] OTHER                    -> {"chat_line"}
    ELSE {}

\* Show a settled interaction: the overlay alert and the chat deliveries.  What
\* exists already, delivered or cancelled, is not created again.
Release(m, s) ==
    LET effects == [e \in EffectNames |->
                       IF s.effects[e] # "none" THEN s.effects[e]
                       ELSE IF e = "overlay_alert" THEN "delivered"
                       ELSE IF e \in ChatEffects(m) THEN "queued" ELSE "none"]
    IN  RecomputeDelivery(m, [s EXCEPT !.alert = IF @ = "none" THEN "shown" ELSE @,
                                       !.effects = effects])

\* Kinds with a row in paid_messages or paid_media_requests.  A donation of another
\* product can be a media request without a link: it has no row.
HasPaidRow(m) ==
    \/ m.kind \in {"paid_message", "tts"}
    \/ m.kind = "media_request" /\ m.origin = "tips"

SettledMoney(m) == [m EXCEPT !.payment = "settled"]

\* settle(): m is settled in the same transaction.  hold: the creator's word filter
\* matches and holds; goal: a goal of the creator is picked.
SettledShow(m, s, hold, goal) ==
    LET queued   == [s EXCEPT
                       !.delivery = IF s.moderation = "hidden" THEN "cancelled" ELSE "queued",
                       !.paid = IF HasPaidRow(m) /\ @ = "none" THEN "queued" ELSE @]
        screened == IF hold /\ queued.moderation = "visible"
                    THEN [queued EXCEPT !.moderation = "held"] ELSE queued
        counted  == IF goal /\ ~m.test /\ screened.counted = 0
                    THEN [screened EXCEPT !.counted = m.amount] ELSE screened
        released == IF counted.moderation = "visible" THEN Release(m, counted) ELSE counted
    IN  Publish(m, RecomputeDelivery(m, released), "ready")

-----------------------------------------------------------------------------
(* Failure, reversal, moderation *)

\* pending -> failed; the caller checks that the payment is pending.
FailedMoney(m) == [m EXCEPT !.payment = "failed", !.due = FALSE]
FailedShow(m, s) == Publish(m, [s EXCEPT !.delivery = "cancelled"], "cancelled")

\* Mutant: only the effects are cancelled.
PaidCancelledNever(s) == s

PaidCancelled(s) == [s EXCEPT !.paid = IF @ = "queued" THEN "cancelled" ELSE @]

EffectsCancelled(s) ==
    [s EXCEPT !.effects = [e \in EffectNames |->
                              IF s.effects[e] = "queued" THEN "cancelled" ELSE s.effects[e]]]

CancelQueued(m, s) ==
    IF Queued(s) = {} THEN PaidCancelled(s)
    ELSE Publish(m, [PaidCancelled(EffectsCancelled(s)) EXCEPT !.delivery = "cancelled"],
                 "cancelled")

\* What a refund takes off the row: never more than is left of it.
Taken(m, clawed) == Smaller(clawed, m.amount - m.reversed)

\* Mutant: the reversal is noted, what Billing took back is not.
ReversedMoneyKept(m, id, clawed) ==
    [m EXCEPT !.payment = "reversed", !.refunds = @ \cup {id}]

\* Mutant: what Billing took back is counted down.
ReversedMoneyBelow(m, id, clawed) ==
    [m EXCEPT !.payment = "reversed", !.refunds = @ \cup {id},
              !.reversed = @ - Taken(m, clawed)]

ReversedMoney(m, id, clawed) ==
    [m EXCEPT !.payment = "reversed", !.refunds = @ \cup {id},
              !.reversed = @ + Taken(m, clawed)]

\* Mutant: a reversal leaves what the filter holds waiting for a moderator.
ReversedShowHeldKept(m, s, take) ==
    LET goal == IF m.test THEN s
                ELSE [s EXCEPT !.uncounted = @ + Smaller(take, s.counted - @)]
    IN  CancelQueued(m, goal)

\* Mutant: the goal keeps what Billing took back.
ReversedShowGoalKept(m, s, take) == CancelQueued(m, s)

\* onBillingReversed after the row's money: take is what came off it.  Undelivered
\* effects are cancelled; what the filter held and was never shown is cancelled too.
ReversedShow(m, s, take) ==
    LET goal      == IF m.test THEN s
                     ELSE [s EXCEPT !.uncounted = @ + Smaller(take, s.counted - @)]
        cancelled == CancelQueued(m, goal)
    IN  IF Queued(s) = {} /\ cancelled.moderation = "held" /\ cancelled.delivery = "queued"
        THEN Publish(m, [PaidCancelled(cancelled) EXCEPT !.delivery = "cancelled"], "cancelled")
        ELSE cancelled

\* Mutant: hiding does not retract the alert.
HiddenKeepsAlert(m, s) ==
    LET cancelled == IF Queued(s) = {} THEN s ELSE PaidCancelled(EffectsCancelled(s))
    IN  IF s.moderation = "hidden" THEN s
        ELSE [cancelled EXCEPT
                !.moderation = "hidden",
                !.delivery = IF @ \in {"queued", "awaiting_payment"} THEN "cancelled" ELSE @]

\* hide(): queued effects are cancelled, the alert is retracted.
Hidden(m, s) ==
    LET undelivered == Queued(s) # {} \/ s.moderation = "held" \/ m.payment = "pending"
        cancelled   == IF Queued(s) = {} THEN s ELSE PaidCancelled(EffectsCancelled(s))
    IN  IF s.moderation = "hidden" THEN s
        ELSE [cancelled EXCEPT
                !.moderation = "hidden",
                !.delivery = IF undelivered /\ @ \in {"queued", "awaiting_payment"}
                             THEN "cancelled" ELSE @,
                !.alert = IF @ = "shown" THEN "hidden" ELSE @]

\* Mutant: restore releases what was never shown without looking at the payment.
RestoredUnpaid(m, s) ==
    IF s.moderation = "visible" THEN s
    ELSE IF s.alert = "none"
         THEN Release(m, [s EXCEPT !.moderation = "visible", !.delivery = "queued"])
         ELSE [s EXCEPT !.moderation = "visible", !.alert = "shown"]

\* Mutant: restore queues again what the hide cancelled.
RestoredRequeues(m, s) ==
    IF s.moderation = "visible" THEN s
    ELSE IF m.payment # "settled" THEN [s EXCEPT !.moderation = "visible"]
    ELSE [s EXCEPT !.moderation = "visible", !.delivery = "queued", !.alert = "shown",
                   !.effects = [e \in EffectNames |->
                                  IF s.effects[e] = "cancelled" THEN "queued" ELSE s.effects[e]]]

\* restore(): settled and never shown is released now; shown before, the alert is
\* back and what the hide cancelled stays cancelled.
Restored(m, s) ==
    LET release == m.payment = "settled" /\ s.alert = "none"
        shown   == [s EXCEPT !.moderation = "visible",
                             !.delivery = IF release THEN "queued" ELSE @,
                             !.alert = IF @ = "hidden" THEN "shown" ELSE @]
    IN  IF s.moderation = "visible" THEN s
        ELSE IF release THEN Release(m, shown) ELSE shown

-----------------------------------------------------------------------------
(* What the effects worker writes *)

CarriesPaid(e) == e \in {"paid_message", "tts", "media_request"}

WithEffect(s, e, state) ==
    [s EXCEPT !.effects[e] = state,
              !.paid = IF CarriesPaid(e) /\ @ = "queued" THEN state ELSE @]

\* Mutant: the delivery that was sent speaks for the tip, whatever became of the other.
EffectDoneAlone(m, s, e) ==
    IF s.effects[e] # "queued" THEN s
    ELSE [WithEffect(s, e, "delivered") EXCEPT !.delivery = "delivered"]

\* markDone(): nothing when the effect was cancelled meanwhile.
EffectDone(m, s, e) ==
    IF s.effects[e] # "queued" THEN s
    ELSE RecomputeDelivery(m, WithEffect(s, e, "delivered"))

\* markFailed() with no attempt left or a permanent error.  The paid message or media
\* request fails and the delivery is aggregated even if the effect was cancelled meanwhile.
EffectFailed(m, s, e) ==
    LET failed == [s EXCEPT !.effects[e] = IF @ = "queued" THEN "failed" ELSE @,
                            !.paid = IF CarriesPaid(e) /\ @ = "queued" THEN "failed" ELSE @]
    IN  RecomputeDelivery(m, failed)

-----------------------------------------------------------------------------
(* What the worker and the moderators may make of a row: Settlement takes these steps for *)
(* them, and Delivery, which has the worker's own steps, promises to take no others       *)

\* A queued effect ends, sent or given up.
Ends(m, s, t) == \E e \in Queued(s) : t \in {EffectDone(m, s, e), EffectFailed(m, s, e)}

Moderates(m, s, t) ==
    \/ s.moderation # "hidden" /\ t = Hidden(m, s)
    \/ s.moderation # "visible" /\ t = Restored(m, s)

-----------------------------------------------------------------------------
(* What is true of a row between transactions; Settlement states it of every row *)

IsPaid(m) == m.payment \in {"settled", "reversed"}

Unshown(s) ==
    /\ s.alert = "none" /\ s.paid = "none"
    /\ \A e \in EffectNames : s.effects[e] = "none"
    /\ s.counted = 0 /\ s.uncounted = 0
    /\ s.events["ready"] = 0

QueueOK(m, s) ==
    /\ Queued(s) # {} => m.payment = "settled" /\ s.moderation = "visible"
                            /\ s.delivery = "queued"
    /\ s.delivery = "queued" => Queued(s) # {} \/ s.moderation = "held"

AlertOK(s) ==
    /\ s.moderation = "held" => /\ s.alert = "none"
                                /\ \A e \in EffectNames : s.effects[e] = "none"
    /\ s.alert = "shown"  => s.moderation = "visible"
    /\ s.alert = "hidden" => s.moderation = "hidden"

\* Once nothing of it is queued, a row is recorded as failed exactly when one of its chat
\* deliveries failed; cancelled is left to moderation and reversal.
FailureTold(s) ==
    Queued(s) = {} /\ s.delivery # "cancelled" =>
        (s.delivery = "failed" <=> \E e \in EffectNames : s.effects[e] = "failed")

GoalOK(m, s) ==
    s.counted > 0 /\ ~m.test => s.counted - s.uncounted = m.amount - m.reversed

ReadyOK(m, s) ==
    /\ s.events["ready"] <= 1
    /\ IsPaid(m) /\ ~m.test => s.events["ready"] = 1

\* Before payment a row has no transaction or receipt and nothing taken back.
UnpaidOK(m, s) ==
    ~IsPaid(m) =>
        /\ Unshown(s)
        /\ s.delivery \in {"awaiting_payment", "cancelled"} /\ s.moderation # "held"
        /\ m.txn = NoTxn /\ m.ref = NoRef /\ m.reversed = 0

\* A contribution is the whole amount, and what is uncounted is what Billing took back.
CountOK(m, s) ==
    /\ m.reversed <= m.amount
    /\ s.uncounted <= s.counted
    /\ s.counted > 0 => s.counted = m.amount /\ (~m.test => s.uncounted = m.reversed)

RowOK(m, s) ==
    /\ UnpaidOK(m, s)
    /\ QueueOK(m, s)
    /\ s.delivery = "queued" => m.payment = "settled"
    /\ AlertOK(s)
    /\ CountOK(m, s)
    /\ ReadyOK(m, s)
=============================================================================
