---------------------------- MODULE PaymentProofs ----------------------------
(***************************************************************************)
(* What a step of Settlement may do to a payment and to what was           *)
(* delivered: forward only, one row at a time, and under a Billing         *)
(* transaction or receipt no other row has; so Settlement implements       *)
(* TipLifecycle.  Then the books: what rows and Billing have of the same   *)
(* transaction, and that they agree once its events are applied.  Proved   *)
(* for every value of the constants from the inductive invariant of        *)
(* SettlementProofs.                                                       *)
(***************************************************************************)
EXTENDS SettlementProofs

\* The payment m of a row may become n.
Follows(m, n) ==
    /\ m.payment = "settled"  => n.payment \in {"settled", "reversed"}
    /\ m.payment = "reversed" => n.payment = "reversed"
    /\ m.payment = "failed"   => n.payment \in {"failed", "settled"}
    /\ m.txn # NoTxn => n.txn = m.txn
    /\ m.reversed <= n.reversed

\* The effects of s that ended are in r as they were.
KeepsEnded(s, r) ==
    \A e \in EffectNames :
        s.effects[e] \in {"delivered", "failed", "cancelled"} => r.effects[e] = s.effects[e]

\* The transaction and the receipt of row i are its own: as before, or nobody else's.
Own(i) ==
    \A j \in Tips \ {i} :
        /\ money'[i].txn \in {money[i].txn, NoTxn} \/
              (money'[j].txn = money[j].txn /\ money'[i].txn # money[j].txn)
        /\ money'[i].ref \in {money[i].ref, NoRef} \/
              (money'[j].ref = money[j].ref /\ money'[i].ref # money[j].ref)

\* What a row counts for in the creator's totals.
Given(m) == IF IsPaid(m) THEN m.amount - m.reversed ELSE 0

\* n is to TipLifecycle the row m.
Alike(m, n) == n.payment = m.payment /\ Payment(n) = Payment(m) /\ Given(n) = Given(m)

\* Row i may become n in one move of TipLifecycle: asked, paid, refused, taken back.
Move(i, n) ==
    LET m == money[i]
    IN  \/ /\ m.payment = "absent" /\ n.payment = "pending"
           /\ Payment(n) = Payment(m) /\ Given(n) = Given(m)
        \/ /\ m.payment \in {"absent", "pending", "failed"} /\ n.payment = "settled"
           /\ Payment(n) \in TxnIds \cup Receipts \cup {NoTxn}
           /\ Payment(n) = NoTxn \/ \A j \in Tips : Payment(money[j]) # Payment(n)
           /\ Given(n) \in Nat
        \/ /\ m.payment = "pending" /\ n.payment = "failed"
           /\ Payment(n) = Payment(m) /\ Given(n) = Given(m)
        \/ /\ m.payment \in {"settled", "reversed"} /\ n.payment = "reversed"
           /\ Payment(n) = Payment(m) /\ Payment(m) # NoTxn /\ Given(n) \in 0..Given(m)

\* At most one row moves.
OneMoves ==
    \/ \A j \in Tips : Alike(money[j], money'[j])
    \/ \E i \in Tips : /\ Move(i, money'[i])
                       /\ \A j \in Tips \ {i} : Alike(money[j], money'[j])

\* A paid message or media request is queued while the delivery that carries it is, or
\* before anything of the tip was shown.
PaidOK(m, s) ==
    ChatOn /\ s.paid = "queued" /\ m.origin = "tips" =>
        /\ m.payment = "settled" /\ HasPaidRow(m)
        /\ \/ /\ s.moderation = "visible"
              /\ \E e \in EffectNames : CarriesPaid(e) /\ s.effects[e] = "queued"
           \/ /\ s.moderation # "visible" /\ s.alert = "none"
              /\ \A e \in EffectNames : s.effects[e] = "none"
              /\ s.moderation = "held" => s.delivery = "queued"

\* A step moves every row forward, each under a payment of its own, one at a time.
Forward ==
    /\ \A i \in Tips : Follows(money[i], money'[i]) /\ KeepsEnded(show[i], show'[i]) /\ Own(i)
    /\ \A i \in Tips : PaidOK(money[i], show[i]) => PaidOK(money'[i], show'[i])
    /\ \A i \in Tips : FailureTold(show[i]) => FailureTold(show'[i])
    /\ OneMoves

-----------------------------------------------------------------------------
(* Paid messages and media requests *)

\* Recomputing the delivery of a row that is not held changes nothing PaidOK is about.
LEMMA RecomputePaid ==
    ASSUME NEW m, NEW s \in ShowRows, PaidOK(m, s)
    PROVE  PaidOK(m, RecomputeDelivery(m, s))
<1> DEFINE states == {s.effects[e] : e \in EffectNames} \ {"none"}
           r == RecomputeDelivery(m, s)
<1>1. SameShow(s, r)
  BY RecomputeFacts
<1>2. s.moderation = "held" /\ (\A e \in EffectNames : s.effects[e] = "none") => r = s
  <2>1. (\A e \in EffectNames : s.effects[e] = "none") => states = {}
    OBVIOUS
  <2>2. QED
    BY <2>1 DEF RecomputeDelivery
<1> HIDE DEF r
<1>3. QED
  BY <1>1, <1>2 DEF PaidOK, SameShow, r

\* Releasing a tip whose paid row is queued queues the delivery that carries it.
LEMMA ReleasePaid ==
    ASSUME NEW m, NEW s \in ShowRows, s.moderation = "visible",
           \A e \in EffectNames : s.effects[e] = "none",
           s.paid = "queued" => m.payment = "settled" /\ HasPaidRow(m)
    PROVE  PaidOK(m, Release(m, s))
<1> DEFINE effects == [e \in EffectNames |->
                          IF s.effects[e] # "none" THEN s.effects[e]
                          ELSE IF e = "overlay_alert" THEN "delivered"
                          ELSE IF e \in ChatEffects(m) THEN "queued" ELSE "none"]
           shown   == [s EXCEPT !.alert = IF @ = "none" THEN "shown" ELSE @,
                                !.effects = effects]
<1>1. \A e \in EffectNames : effects[e] = IF e = "overlay_alert" THEN "delivered"
                                          ELSE IF e \in ChatEffects(m) THEN "queued" ELSE "none"
  OBVIOUS
<1>2. effects \in [EffectNames -> EffectStates]
  BY DEF ShowRows, EffectStates
<1>3. Release(m, s) = RecomputeDelivery(m, shown)
  BY DEF Release
<1> HIDE DEF effects
<1>4. /\ shown \in ShowRows /\ shown.effects = effects /\ shown.paid = s.paid
      /\ shown.moderation = "visible"
  BY <1>2 DEF ShowRows
<1> HIDE DEF shown
<1>5. ChatOn /\ m.origin = "tips" /\ HasPaidRow(m) =>
        \E e \in EffectNames : CarriesPaid(e) /\ e # "overlay_alert" /\ e \in ChatEffects(m)
  <2> SUFFICES ASSUME ChatOn, m.origin = "tips", HasPaidRow(m)
               PROVE  \E e \in EffectNames :
                         CarriesPaid(e) /\ e # "overlay_alert" /\ e \in ChatEffects(m)
    OBVIOUS
  <2>1. CASE m.kind = "paid_message"
    BY <2>1 DEF ChatEffects, CarriesPaid, EffectNames
  <2>2. CASE m.kind = "tts"
    BY <2>2 DEF ChatEffects, CarriesPaid, EffectNames
  <2>3. CASE m.kind = "media_request"
    BY <2>3 DEF ChatEffects, CarriesPaid, EffectNames
  <2>4. QED
    BY <2>1, <2>2, <2>3 DEF HasPaidRow
<1>6. PaidOK(m, shown)
  BY <1>1, <1>4, <1>5 DEF PaidOK
<1>7. QED
  BY <1>3, <1>4, <1>6, RecomputePaid

\* settle() queues the paid row with the delivery that carries it, or holds both back.
LEMMA SettledPaid ==
    ASSUME NEW m \in MoneyRows, m.payment = "settled", NEW s \in ShowRows, Unshown(s),
           s.moderation \in {"visible", "hidden"}, NEW hold \in BOOLEAN, NEW goal \in BOOLEAN
    PROVE  PaidOK(m, SettledShow(m, s, hold, goal))
<1> DEFINE queued   == [s EXCEPT
                          !.delivery = IF s.moderation = "hidden" THEN "cancelled" ELSE "queued",
                          !.paid = IF HasPaidRow(m) /\ @ = "none" THEN "queued" ELSE @]
           screened == IF hold /\ queued.moderation = "visible"
                       THEN [queued EXCEPT !.moderation = "held"] ELSE queued
           counted  == IF goal /\ ~m.test /\ screened.counted = 0
                       THEN [screened EXCEPT !.counted = m.amount] ELSE screened
           released == IF counted.moderation = "visible" THEN Release(m, counted) ELSE counted
           final    == RecomputeDelivery(m, released)
<1>1. SettledShow(m, s, hold, goal) = Publish(m, final, "ready")
  BY DEF SettledShow
<1>2. /\ queued \in ShowRows /\ queued.effects = s.effects /\ queued.alert = "none"
      /\ queued.moderation = s.moderation
      /\ s.moderation = "visible" => queued.delivery = "queued"
      /\ queued.paid = "queued" => HasPaidRow(m)
  <2> DEFINE p == HasPaidRow(m)
  <2>1. s.alert = "none" /\ s.paid = "none"
    BY DEF Unshown
  <2> HIDE DEF p
  <2>2. LET t == [s EXCEPT
                    !.delivery = IF s.moderation = "hidden" THEN "cancelled" ELSE "queued",
                    !.paid = IF p /\ @ = "none" THEN "queued" ELSE @]
        IN  /\ t \in ShowRows /\ t.effects = s.effects /\ t.alert = "none"
            /\ t.moderation = s.moderation
            /\ s.moderation = "visible" => t.delivery = "queued"
            /\ t.paid = "queued" => p
    BY <2>1 DEF ShowRows, DeliveryStates
  <2>3. QED
    BY <2>2 DEF p
<1> HIDE DEF queued
<1>3. /\ screened \in ShowRows /\ screened.effects = s.effects /\ screened.alert = "none"
      /\ screened.moderation # "hidden" => screened.delivery = "queued"
      /\ screened.paid = "queued" => HasPaidRow(m)
  BY <1>2 DEF ShowRows, ModerationStates
<1> HIDE DEF screened
<1>4. /\ counted \in ShowRows /\ counted.effects = s.effects /\ counted.alert = "none"
      /\ counted.moderation # "hidden" => counted.delivery = "queued"
      /\ counted.paid = "queued" => HasPaidRow(m)
  BY <1>3 DEF ShowRows, MoneyRows
<1> HIDE DEF counted
<1>5. \A e \in EffectNames : counted.effects[e] = "none"
  BY <1>4 DEF Unshown
<1>6. released \in ShowRows /\ PaidOK(m, released)
  <2>1. CASE counted.moderation = "visible"
    BY <1>4, <1>5, <2>1, ReleaseFacts, ReleasePaid
  <2>2. CASE counted.moderation # "visible"
    BY <1>4, <1>5, <2>2 DEF PaidOK
  <2>3. QED
    BY <2>1, <2>2
<1> HIDE DEF released
<1>7. final \in ShowRows /\ PaidOK(m, final)
  BY <1>6, RecomputeFacts, RecomputePaid
<1> HIDE DEF final
<1>8. /\ Publish(m, final, "ready").paid = final.paid
      /\ Publish(m, final, "ready").moderation = final.moderation
      /\ Publish(m, final, "ready").effects = final.effects
      /\ Publish(m, final, "ready").alert = final.alert
      /\ Publish(m, final, "ready").delivery = final.delivery
  BY <1>7 DEF Publish, ShowRows
<1>9. QED
  BY <1>1, <1>7, <1>8 DEF PaidOK

\* A row without a queued paid row says nothing.
LEMMA NoPaid ==
    ASSUME NEW m, NEW s, s.paid # "queued"
    PROVE  PaidOK(m, s)
  BY DEF PaidOK

\* A reversal leaves nothing queued.
LEMMA ReversedPaid ==
    ASSUME NEW n, NEW s \in ShowRows, NEW take \in Nat, s.uncounted <= s.counted
    PROVE  PaidOK(n, ReversedShow(n, s, take))
<1> DEFINE goal      == IF n.test THEN s
                        ELSE [s EXCEPT !.uncounted = @ + Smaller(take, s.counted - @)]
           cancelled == CancelQueued(n, goal)
           paid      == [PaidCancelled(cancelled) EXCEPT !.delivery = "cancelled"]
<1>1. goal \in ShowRows
  <2>1. s.uncounted \in Nat /\ s.counted \in Nat
    BY DEF ShowRows
  <2>2. s.uncounted + Smaller(take, s.counted - s.uncounted) \in Nat
    BY <2>1 DEF Smaller
  <2>3. QED
    BY <2>2 DEF ShowRows
<1>2. ReversedShow(n, s, take) = cancelled \/ ReversedShow(n, s, take) = Publish(n, paid, "cancelled")
  BY DEF ReversedShow
<1> HIDE DEF goal
<1>3. cancelled \in ShowRows /\ cancelled.paid # "queued"
  <2> DEFINE gone == EffectsCancelled(goal)
             down == [PaidCancelled(gone) EXCEPT !.delivery = "cancelled"]
  <2>1. cancelled \in ShowRows
    BY <1>1, CancelFacts
  <2>2. cancelled = PaidCancelled(goal) \/ cancelled = Publish(n, down, "cancelled")
    BY DEF CancelQueued
  <2>3. PaidCancelled(goal).paid # "queued"
    BY <1>1 DEF PaidCancelled, ShowRows
  <2>4. gone \in ShowRows
    <3> DEFINE effects == [e \in EffectNames |->
                              IF goal.effects[e] = "queued" THEN "cancelled" ELSE goal.effects[e]]
    <3>1. effects \in [EffectNames -> EffectStates]
      BY <1>1 DEF ShowRows, EffectStates
    <3>2. gone = [goal EXCEPT !.effects = effects]
      BY DEF EffectsCancelled
    <3> HIDE DEF effects, gone
    <3>3. QED
      BY <1>1, <3>1, <3>2 DEF ShowRows
  <2> HIDE DEF gone
  <2>5. down \in ShowRows /\ down.paid # "queued"
    BY <2>4 DEF PaidCancelled, ShowRows, DeliveryStates
  <2> HIDE DEF down
  <2>6. Publish(n, down, "cancelled").paid # "queued"
    BY <2>5, PublishFacts DEF SameShow, EventTypes
  <2>7. QED
    BY <2>1, <2>2, <2>3, <2>6
<1> HIDE DEF cancelled
<1>4. paid \in ShowRows /\ paid.paid # "queued"
  BY <1>3 DEF PaidCancelled, ShowRows, DeliveryStates
<1> HIDE DEF paid
<1>5. Publish(n, paid, "cancelled").paid # "queued"
  BY <1>4, PublishFacts DEF SameShow, EventTypes
<1>6. QED
  BY <1>2, <1>3, <1>5, NoPaid

\* Hiding cancels the paid row with the delivery that carries it, or hides what was held.
LEMMA HiddenPaid ==
    ASSUME NEW m, NEW s \in ShowRows, AlertOK(s), PaidOK(m, s)
    PROVE  PaidOK(m, Hidden(m, s))
<1> DEFINE undelivered == Queued(s) # {} \/ s.moderation = "held" \/ m.payment = "pending"
           gone == IF Queued(s) = {} THEN s ELSE PaidCancelled(EffectsCancelled(s))
           r    == Hidden(m, s)
<1>1. CASE s.moderation = "hidden"
  BY <1>1 DEF Hidden
<1>2. CASE s.moderation # "hidden"
  <2>1. r = [gone EXCEPT !.moderation = "hidden",
                         !.delivery = IF undelivered /\ @ \in {"queued", "awaiting_payment"}
                                      THEN "cancelled" ELSE @,
                         !.alert = IF @ = "shown" THEN "hidden" ELSE @]
    BY <1>2 DEF Hidden
  <2>2. /\ gone.alert = s.alert /\ "alert" \in DOMAIN gone /\ "moderation" \in DOMAIN gone
        /\ Queued(s) # {} => gone.paid # "queued"
        /\ Queued(s) = {} => gone = s
    BY DEF PaidCancelled, EffectsCancelled, ShowRows
  <2> HIDE DEF gone, undelivered
  <2>3. /\ r.paid = gone.paid /\ r.effects = gone.effects /\ r.moderation = "hidden"
        /\ r.alert = IF s.alert = "shown" THEN "hidden" ELSE s.alert
    BY <2>1, <2>2
  <2> HIDE DEF r
  <2>4. CASE Queued(s) # {}
    BY <2>2, <2>3, <2>4, NoPaid DEF r
  <2>5. CASE Queued(s) = {}
    <3>1. \A e \in EffectNames : s.effects[e] # "queued"
      BY <2>5 DEF Queued
    <3>2. QED
      BY <2>2, <2>3, <2>5, <3>1 DEF PaidOK, r
  <2>6. QED
    BY <2>4, <2>5
<1>3. QED
  BY <1>1, <1>2

\* Restoring releases what was held back with its paid row.
LEMMA RestoredPaid ==
    ASSUME NEW m, NEW s \in ShowRows, PaidOK(m, s), AlertOK(s)
    PROVE  PaidOK(m, Restored(m, s))
<1> DEFINE release == m.payment = "settled" /\ s.alert = "none"
           shown   == [s EXCEPT !.moderation = "visible",
                                !.delivery = IF release THEN "queued" ELSE @,
                                !.alert = IF @ = "hidden" THEN "shown" ELSE @]
<1>1. Restored(m, s) = IF s.moderation = "visible" THEN s
                       ELSE IF release THEN Release(m, shown) ELSE shown
  BY DEF Restored
<1>2. release <=> m.payment = "settled" /\ s.alert = "none"
  OBVIOUS
<1> HIDE DEF release
<1>3. /\ shown \in ShowRows /\ shown.effects = s.effects /\ shown.moderation = "visible"
      /\ shown.paid = s.paid /\ shown.delivery = IF release THEN "queued" ELSE s.delivery
      /\ shown.alert = IF s.alert = "hidden" THEN "shown" ELSE s.alert
  BY DEF ShowRows, ModerationStates, DeliveryStates
<1> HIDE DEF shown
<1>4. ASSUME s.moderation # "visible", ChatOn, s.paid = "queued", m.origin = "tips"
      PROVE  /\ release /\ HasPaidRow(m) /\ m.payment = "settled"
             /\ \A e \in EffectNames : shown.effects[e] = "none"
  BY <1>2, <1>3, <1>4 DEF PaidOK
<1>5. ASSUME s.moderation # "visible", ~release
      PROVE  PaidOK(m, shown)
  BY <1>3, <1>4, <1>5 DEF PaidOK
<1>6. ASSUME s.moderation # "visible", release
      PROVE  PaidOK(m, Release(m, shown))
  <2>1. CASE ChatOn /\ s.paid = "queued" /\ m.origin = "tips"
    BY <1>3, <1>4, <1>6, <2>1, ReleasePaid
  <2>2. CASE ~(ChatOn /\ s.paid = "queued" /\ m.origin = "tips")
    <3>1. Release(m, shown).paid = shown.paid
      <4>1. shown.alert # "hidden" /\ shown.delivery = "queued"
        BY <1>3, <1>6
      <4>2. QED
        BY <1>3, <4>1, ReleaseFacts
    <3>2. QED
      BY <1>3, <2>2, <3>1 DEF PaidOK
  <2>3. QED
    BY <2>1, <2>2
<1>7. QED
  BY <1>1, <1>5, <1>6

\* The end of a delivery ends the paid row it carries.
LEMMA OutcomePaid ==
    ASSUME NEW m, NEW s \in ShowRows, PaidOK(m, s), NEW e \in Queued(s),
           s.moderation = "visible", NEW state \in {"delivered", "failed"}
    PROVE  PaidOK(m, RecomputeDelivery(m, WithEffect(s, e, state)))
<1> DEFINE effects == [s.effects EXCEPT ![e] = state]
           paid == IF CarriesPaid(e) /\ s.paid = "queued" THEN state ELSE s.paid
           t == [s EXCEPT !.effects = effects, !.paid = paid]
<1>1. e \in EffectNames
  BY DEF Queued
<1>2. WithEffect(s, e, state) = t
  BY DEF WithEffect, ShowRows
<1>3. /\ effects \in [EffectNames -> EffectStates]
      /\ \A f \in EffectNames : f # e => effects[f] = s.effects[f]
  BY <1>1 DEF ShowRows, EffectStates
<1>4. paid \in {"none", "queued", "delivered", "failed", "cancelled"}
      /\ (paid = "queued" => s.paid = "queued" /\ ~CarriesPaid(e))
  BY DEF ShowRows
<1> HIDE DEF effects, paid
<1>5. /\ t \in ShowRows /\ t.effects = effects /\ t.paid = paid
      /\ t.moderation = "visible"
  BY <1>3, <1>4 DEF ShowRows
<1> HIDE DEF t
<1>6. PaidOK(m, t)
  BY <1>3, <1>4, <1>5 DEF PaidOK
<1>7. QED
  BY <1>2, <1>5, <1>6, RecomputePaid

-----------------------------------------------------------------------------
(* Steps that leave the payments alone *)

\* A step that changes no payment and shows nothing moves every row forward.
LEMMA QuietForward ==
    ASSUME IInv, UNCHANGED show,
           \A i \in Tips : /\ money'[i].payment = money[i].payment
                           /\ money'[i].txn = money[i].txn /\ money'[i].ref = money[i].ref
                           /\ money'[i].amount = money[i].amount
                           /\ money'[i].reversed = money[i].reversed
                           /\ money'[i].kind = money[i].kind
                           /\ money'[i].origin = money[i].origin
    PROVE  Forward
<1>1. \A i \in Tips : money[i].reversed \in Nat
  BY DEF IInv, TypeOK, MoneyRows
<1>2. OneMoves
  BY DEF OneMoves, Alike, Payment, Given, IsPaid
<1>3. \A i \in Tips : PaidOK(money[i], show[i]) => PaidOK(money'[i], show'[i])
  BY DEF PaidOK, HasPaidRow
<1>4. QED
  BY <1>1, <1>2, <1>3 DEF Forward, Follows, KeepsEnded, Own

\* A step that changes no row moves every row forward.
LEMMA UnchangedForward ==
    ASSUME IInv, UNCHANGED rows
    PROVE  Forward
  BY QuietForward DEF rows

\* A transaction on row i that moves it forward moves every row forward.
LEMMA PutForward ==
    ASSUME IInv, NEW i \in Tips, NEW m, NEW s, Put(i, m, s),
           Follows(money[i], m), KeepsEnded(show[i], s), Alike(money[i], m) \/ Move(i, m),
           m.txn \in {money[i].txn, NoTxn} \/ (\A j \in Tips \ {i} : money[j].txn # m.txn),
           m.ref \in {money[i].ref, NoRef} \/ (\A j \in Tips \ {i} : money[j].ref # m.ref),
           PaidOK(money[i], show[i]) => PaidOK(m, s), FailureTold(show[i]) => FailureTold(s)
    PROVE  Forward
<1>1. \A j \in Tips : /\ money'[j] = IF j = i THEN m ELSE money[j]
                      /\ show'[j] = IF j = i THEN s ELSE show[j]
  BY DEF Put, IInv, TypeOK
<1>2. \A j \in Tips : money[j].reversed \in Nat
  BY DEF IInv, TypeOK, MoneyRows
<1>3. \A j \in Tips \ {i} : Follows(money[j], money'[j]) /\ KeepsEnded(show[j], show'[j]) /\ Own(j)
  BY <1>1, <1>2 DEF Follows, KeepsEnded, Own
<1>4. Own(i)
  BY <1>1 DEF Own
<1>5. OneMoves
  <2>1. \A j \in Tips \ {i} : Alike(money[j], money'[j])
    BY <1>1 DEF Alike
  <2>2. money'[i] = m
    BY <1>1
  <2>3. QED
    BY <2>1, <2>2 DEF OneMoves
<1>6. \A j \in Tips : /\ PaidOK(money[j], show[j]) => PaidOK(money'[j], show'[j])
                      /\ FailureTold(show[j]) => FailureTold(show'[j])
  BY <1>1
<1>7. QED
  BY <1>1, <1>3, <1>4, <1>5, <1>6 DEF Forward

-----------------------------------------------------------------------------
(* Transactions on one row *)

\* What pays a row is one of Billing's transactions or a receipt, and a row has one at most.
LEMMA PaymentTypes ==
    ASSUME NEW m \in MoneyRows
    PROVE  /\ Payment(m) \in TxnIds \cup Receipts \cup {NoTxn}
           /\ m.txn # NoTxn => Payment(m) # NoTxn
           /\ \A t \in TxnIds : m.txn # t => Payment(m) # t
           /\ \A r \in Receipts : m.ref # r => Payment(m) # r
<1>1. m.txn \in TxnIds \cup {NoTxn} /\ m.ref \in Receipts \cup {NoRef}
  BY DEF MoneyRows
<1>2. Receipts \cap (TxnIds \cup {NoTxn}) = {} /\ NoTxn \notin TxnIds
  BY ConstantsOK
<1>3. QED
  BY <1>1, <1>2 DEF Payment

\* Settling an unpaid row under a payment no other row has pays it.
LEMMA PaidMove ==
    ASSUME IInv, NEW i \in Tips, NEW m \in MoneyRows, ~IsPaid(money[i]), m.reversed = 0,
           m.txn = NoTxn \/ (\A j \in Tips \ {i} : money[j].txn # m.txn),
           m.ref = NoRef \/ (\A j \in Tips \ {i} : money[j].ref # m.ref)
    PROVE  Move(i, SettledMoney(m))
<1> DEFINE n == SettledMoney(m)
<1>1. /\ n \in MoneyRows /\ n.payment = "settled" /\ n.txn = m.txn /\ n.ref = m.ref
      /\ n.amount \in Nat /\ n.reversed = 0
  BY DEF SettledMoney, MoneyRows, PaymentStates
<1> HIDE DEF n
<1>2. \A j \in Tips : money[j] \in MoneyRows
  BY DEF IInv, TypeOK
<1>3. money[i].txn = NoTxn /\ money[i].ref = NoRef
  BY DEF IInv, RowsOK, RowOK, UnpaidOK
<1>4. money[i].payment \in {"absent", "pending", "failed"}
  BY <1>2 DEF MoneyRows, PaymentStates, IsPaid
<1>5. Given(n) \in Nat
  BY <1>1 DEF Given
<1>6. Payment(n) \in TxnIds \cup Receipts \cup {NoTxn}
  BY <1>1, PaymentTypes
<1>7. ASSUME Payment(n) # NoTxn, NEW j \in Tips PROVE Payment(money[j]) # Payment(n)
  <2>1. CASE m.ref # NoRef
    <3>1. Payment(n) = m.ref /\ m.ref \in Receipts
      BY <1>1, <2>1 DEF Payment, MoneyRows
    <3>2. money[j].ref # m.ref
      BY <1>3, <2>1
    <3>3. QED
      BY <1>2, <3>1, <3>2, PaymentTypes
  <2>2. CASE m.ref = NoRef
    <3>1. Payment(n) = m.txn /\ m.txn \in TxnIds
      BY <1>1, <1>7, <2>2 DEF Payment, MoneyRows
    <3>2. money[j].txn # m.txn
      BY <1>3, <1>7, <3>1
    <3>3. QED
      BY <1>2, <3>1, <3>2, PaymentTypes
  <2>3. QED
    BY <2>1, <2>2
<1>8. QED
  BY <1>1, <1>4, <1>5, <1>6, <1>7 DEF Move, n

\* settle() of an unpaid row under a payment no other row has moves every row forward.
LEMMA SettleForward ==
    ASSUME IInv, NEW i \in Tips, NEW m \in MoneyRows, ~IsPaid(money[i]), m.reversed = 0,
           m.txn = NoTxn \/ (\A j \in Tips \ {i} : money[j].txn # m.txn),
           m.ref = NoRef \/ (\A j \in Tips \ {i} : money[j].ref # m.ref),
           Settle(i, m)
    PROVE  Forward
<1>1. PICK hold \in BOOLEAN, goal \in BOOLEAN :
         Put(i, SettledMoney(m), SettledShow(SettledMoney(m), show[i], hold, goal))
  BY DEF Settle
<1>2. RowOK(money[i], show[i])
  BY DEF IInv, RowsOK
<1>3. money[i].txn = NoTxn /\ money[i].reversed = 0 /\ Unshown(show[i])
  BY <1>2 DEF RowOK, UnpaidOK
<1>4. /\ SettledMoney(m).payment = "settled" /\ SettledMoney(m).txn = m.txn
      /\ SettledMoney(m).ref = m.ref /\ SettledMoney(m).reversed = 0
  BY DEF SettledMoney, MoneyRows
<1>5. Follows(money[i], SettledMoney(m))
  BY <1>3, <1>4 DEF Follows, IsPaid
<1> DEFINE s == SettledShow(SettledMoney(m), show[i], hold, goal)
<1>6. PaidOK(SettledMoney(m), s)
  <2>1. SettledMoney(m) \in MoneyRows
    BY DEF SettledMoney, MoneyRows, PaymentStates
  <2>2. show[i] \in ShowRows /\ show[i].moderation \in {"visible", "hidden"}
    BY <1>2 DEF IInv, TypeOK, ShowRows, ModerationStates, RowOK, UnpaidOK
  <2>3. QED
    BY <1>3, <1>4, <2>1, <2>2, SettledPaid
<1>7. FailureTold(s)
  <2>1. SettledMoney(m) \in MoneyRows
    BY DEF SettledMoney, MoneyRows, PaymentStates
  <2>2. show[i] \in ShowRows /\ show[i].moderation \in {"visible", "hidden"}
    BY <1>2 DEF IInv, TypeOK, ShowRows, ModerationStates, RowOK, UnpaidOK
  <2>3. show[i].alert = "none" /\ \A e \in EffectNames : show[i].effects[e] = "none"
    BY <1>3 DEF Unshown
  <2>4. QED
    BY <2>1, <2>2, <2>3, SettledTells
<1> HIDE DEF s
<1>8. KeepsEnded(show[i], s)
  BY <1>3 DEF KeepsEnded, Unshown
<1>9. Put(i, SettledMoney(m), s)
  BY <1>1 DEF s
<1>10. Move(i, SettledMoney(m))
  BY <1>2, <1>4, PaidMove
<1>11. QED
  BY <1>4, <1>5, <1>6, <1>7, <1>8, <1>9, <1>10, PutForward

\* settleByTransaction() moves every row forward: a transaction another row has is refused.
LEMMA SettleByTransactionForward ==
    ASSUME IInv, NEW i \in Tips, NEW t \in TxnIds, NEW test \in BOOLEAN,
           SettleByTransaction(i, t, test)
    PROVE  Forward
<1> DEFINE m == [money[i] EXCEPT !.txn = t, !.test = @ \/ test, !.due = FALSE]
<1>1. money[i] \in MoneyRows /\ RowOK(money[i], show[i])
  BY DEF IInv, TypeOK, RowsOK
<1>2. CASE UNCHANGED rows
  BY <1>2, UnchangedForward
<1>3. CASE /\ ~IsPaid(money[i]) /\ Settle(i, m)
           /\ \A j \in Tips \ {i} : money[j].txn # t
  <2>1. /\ m \in MoneyRows /\ m.reversed = money[i].reversed /\ m.txn = t
        /\ m.ref = money[i].ref
    BY <1>1 DEF MoneyRows
  <2>2. m.reversed = 0 /\ m.ref = NoRef
    BY <1>1, <1>3, <2>1 DEF RowOK, UnpaidOK
  <2> HIDE DEF m
  <2>3. QED
    BY <1>3, <2>1, <2>2, SettleForward
<1>4. QED
  BY <1>2, <1>3 DEF SettleByTransaction, IsPaid

\* failPayment() moves every row forward.
LEMMA FailPaymentForward ==
    ASSUME IInv, NEW i \in Tips, FailPayment(i)
    PROVE  Forward
<1>1. money[i] \in MoneyRows /\ show[i] \in ShowRows /\ RowOK(money[i], show[i])
  BY DEF IInv, TypeOK, RowsOK
<1>2. CASE money[i].payment = "pending"
  <2>1. Put(i, FailedMoney(money[i]), FailedShow(money[i], show[i]))
    BY <1>2 DEF FailPayment
  <2>2. /\ FailedMoney(money[i]).txn = money[i].txn /\ FailedMoney(money[i]).ref = money[i].ref
        /\ FailedMoney(money[i]).payment = "failed"
        /\ FailedMoney(money[i]).reversed = money[i].reversed
        /\ FailedShow(money[i], show[i]).effects = show[i].effects
    BY <1>1, <1>2, FailedFacts
  <2>3. Follows(money[i], FailedMoney(money[i]))
    BY <1>1, <1>2, <2>2 DEF Follows, MoneyRows
  <2>4. KeepsEnded(show[i], FailedShow(money[i], show[i]))
    BY <2>2 DEF KeepsEnded
  <2>5. Move(i, FailedMoney(money[i]))
    <3>1. Payment(FailedMoney(money[i])) = Payment(money[i])
      BY <2>2 DEF Payment
    <3>2. Given(FailedMoney(money[i])) = Given(money[i])
      BY <1>2, <2>2 DEF Given, IsPaid
    <3>3. QED
      BY <1>2, <2>2, <3>1, <3>2 DEF Move
  <2>6. PaidOK(FailedMoney(money[i]), FailedShow(money[i], show[i]))
    <3> DEFINE gone == [show[i] EXCEPT !.delivery = "cancelled"]
    <3>1. gone \in ShowRows /\ gone.paid = "none"
      BY <1>1, <1>2 DEF ShowRows, DeliveryStates, RowOK, UnpaidOK, Unshown, IsPaid
    <3>2. FailedShow(money[i], show[i]) = Publish(money[i], gone, "cancelled")
      BY DEF FailedShow
    <3> HIDE DEF gone
    <3>3. FailedShow(money[i], show[i]).paid = "none"
      BY <3>1, <3>2, PublishFacts DEF SameShow, EventTypes
    <3>4. QED
      BY <3>3, NoPaid
  <2>7. FailureTold(FailedShow(money[i], show[i]))
    <3> DEFINE gone == [show[i] EXCEPT !.delivery = "cancelled"]
    <3>1. gone \in ShowRows /\ gone.delivery = "cancelled"
      BY <1>1 DEF ShowRows, DeliveryStates
    <3>2. FailedShow(money[i], show[i]) = Publish(money[i], gone, "cancelled")
      BY DEF FailedShow
    <3> HIDE DEF gone
    <3>3. FailedShow(money[i], show[i]).delivery = "cancelled"
      BY <3>1, <3>2, PublishFacts DEF EventTypes
    <3>4. QED
      BY <3>3 DEF FailureTold
  <2>8. QED
    BY <2>1, <2>2, <2>3, <2>4, <2>5, <2>6, <2>7, PutForward
<1>3. CASE money[i].payment # "pending"
  BY <1>3, UnchangedForward DEF FailPayment
<1>4. QED
  BY <1>2, <1>3

-----------------------------------------------------------------------------
(* Requests and the transfer worker *)

\* request() inserts a row that has no payment yet.
LEMMA RequestForward ==
    ASSUME IInv, NEW w \in Procs, Asking(w)
    PROVE  Forward
<1>1. PICK i \in Tips, k \in Kinds, a \in Amounts, f \in {"credit", "checkout"} :
         Request(w, i, k, a, f)
  BY DEF Asking
<1> DEFINE m == [NoMoney EXCEPT !.kind = k, !.funding = f, !.amount = a,
                                !.payment = "pending"]
<1>2. m.payment = "pending" /\ m.txn = NoTxn /\ m.ref = NoRef /\ m.reversed = 0
  BY DEF NoMoney
<1>3. money[i].payment = "absent" /\ RowOK(money[i], show[i])
  BY <1>1 DEF Request, Fresh, IInv, RowsOK
<1>4. money[i].txn = NoTxn /\ money[i].ref = NoRef /\ money[i].reversed = 0
  BY <1>3 DEF RowOK, UnpaidOK, IsPaid
<1>5. Put(i, m, show[i])
  BY <1>1 DEF Request, Put, IInv, TypeOK
<1> HIDE DEF m
<1>6. Follows(money[i], m) /\ KeepsEnded(show[i], show[i])
  BY <1>2, <1>3, <1>4 DEF Follows, KeepsEnded
<1>7. Move(i, m)
  BY <1>2, <1>3, <1>4 DEF Move, Payment, Given, IsPaid
<1>8. PaidOK(m, show[i])
  BY <1>3, NoPaid DEF RowOK, UnpaidOK, Unshown, IsPaid
<1>9. QED
  BY <1>2, <1>5, <1>6, <1>7, <1>8, PutForward

\* Claims, backoffs and leases change no payment.
LEMMA ScheduleForward ==
    ASSUME IInv,
           \/ \E w \in Procs : ProcessDueTransfers(w)
           \/ \E i \in Tips : TimePasses(i) \/ RetryLater(i)
    PROVE  Forward
<1>1. money \in [Tips -> MoneyRows]
  BY DEF IInv, TypeOK
<1>2. \A j \in Tips, due, waiting \in BOOLEAN :
        LET n == [money[j] EXCEPT !.due = due, !.waiting = waiting]
            k == [money[j] EXCEPT !.waiting = waiting]
        IN  /\ n.payment = money[j].payment /\ n.txn = money[j].txn /\ n.ref = money[j].ref
            /\ n.amount = money[j].amount /\ n.reversed = money[j].reversed
            /\ n.kind = money[j].kind /\ n.origin = money[j].origin
            /\ k.payment = money[j].payment /\ k.txn = money[j].txn /\ k.ref = money[j].ref
            /\ k.amount = money[j].amount /\ k.reversed = money[j].reversed
            /\ k.kind = money[j].kind /\ k.origin = money[j].origin
  BY <1>1 DEF MoneyRows
<1>3. ASSUME NEW w \in Procs, ProcessDueTransfers(w)
      PROVE  Forward
  <2>1. PICK claimed \in SUBSET Due :
           money' = [j \in Tips |-> IF j \in claimed THEN [money[j] EXCEPT !.waiting = TRUE]
                                    ELSE money[j]]
    BY <1>3 DEF ProcessDueTransfers
  <2>2. QED
    BY <1>2, <1>3, <2>1, QuietForward DEF ProcessDueTransfers
<1>4. ASSUME NEW i \in Tips, TimePasses(i)
      PROVE  Forward
  <2>1. money' = [money EXCEPT ![i] = [money[i] EXCEPT !.waiting = FALSE]]
    BY <1>4 DEF TimePasses
  <2>2. QED
    BY <1>1, <1>2, <1>4, <2>1, QuietForward DEF TimePasses
<1>5. ASSUME NEW i \in Tips, RetryLater(i)
      PROVE  Forward
  <2>1. \/ money' = money
        \/ money' = [money EXCEPT ![i] = [money[i] EXCEPT !.due = TRUE, !.waiting = TRUE]]
    BY <1>5 DEF RetryLater
  <2>2. QED
    BY <1>1, <1>2, <1>5, <2>1, QuietForward DEF RetryLater
<1>6. QED
  BY <1>3, <1>4, <1>5

\* What a process does with Billing's answer moves every row forward.
LEMMA FinishForward ==
    ASSUME IInv, NEW w \in Procs, FinishTransfer(w) \/ FinishCheckout(w)
    PROVE  Forward
<1> DEFINE i == work[w].tip
           t == TransferTxn(i)
<1>1. i \in Tips
  BY DEF FinishTransfer, FinishCheckout, IInv, CallsOK
<1>2. t \in TxnIds /\ ledger[t].test \in BOOLEAN /\ money[i] \in MoneyRows
  BY <1>1, TxnTypes DEF IInv, TypeOK, Entries
<1>3. \/ SettleByTransaction(i, t, ledger[t].test)
      \/ FailPayment(i)
      \/ RetryLater(i)
      \/ money' = [money EXCEPT ![i] = [money[i] EXCEPT !.intent = TRUE]] /\ UNCHANGED show
      \/ UNCHANGED rows
  BY DEF FinishTransfer, FinishCheckout
<1> HIDE DEF i, t
<1>4. CASE money' = [money EXCEPT ![i] = [money[i] EXCEPT !.intent = TRUE]] /\ UNCHANGED show
  <2> DEFINE m == [money[i] EXCEPT !.intent = TRUE]
  <2>1. /\ m.payment = money[i].payment /\ m.txn = money[i].txn /\ m.ref = money[i].ref
        /\ m.amount = money[i].amount /\ m.reversed = money[i].reversed
        /\ m.kind = money[i].kind /\ m.origin = money[i].origin
    BY <1>2 DEF MoneyRows
  <2> HIDE DEF m
  <2>2. money' = [money EXCEPT ![i] = m]
    BY <1>4 DEF m
  <2>3. QED
    BY <1>1, <1>4, <2>1, <2>2, QuietForward DEF IInv, TypeOK
<1>5. QED
  BY <1>1, <1>2, <1>3, <1>4, SettleByTransactionForward, FailPaymentForward, ScheduleForward,
     UnchangedForward

-----------------------------------------------------------------------------
(* Events, recorded tips, moderators and the effects worker *)

\* A settled donation settles the row it names, or a new one, under its own transaction.
LEMMA DonationForward ==
    ASSUME IInv, NEW e \in bus, OnDonation(e)
    PROVE  Forward
<1> DEFINE t == e.txn
           i == ledger[t].target
           Row(k) == [NoMoney EXCEPT !.kind = k, !.origin = "billing", !.funding = "provider",
                                     !.amount = ledger[t].amount, !.test = ledger[t].test,
                                     !.txn = t]
<1>1. t \in TxnIds /\ ledger[t] \in Entries
  BY TxnTypes DEF OnDonation, IInv, TypeOK
<1>2. i \in Tips \cup {NoTip} /\ ledger[t].test \in BOOLEAN /\ ledger[t].amount \in Nat
  BY <1>1 DEF Entries
<1>3. \/ UNCHANGED rows
      \/ i # NoTip /\ SettleByTransaction(i, t, ledger[t].test)
      \/ /\ SettledBy(t) = {}
         /\ \E j \in Tips, k \in Kinds : Fresh(j) /\ Settle(j, Row(k))
  BY DEF OnDonation
<1>4. \A k \in Kinds : /\ Row(k) \in MoneyRows /\ Row(k).reversed = 0 /\ Row(k).ref = NoRef
                       /\ Row(k).txn = t
  BY <1>1, <1>2, ConstantsOK, ZenonT(60) DEF NoMoney, MoneyRows, PaymentStates
<1> HIDE DEF i, t, Row
<1>5. i # NoTip /\ SettleByTransaction(i, t, ledger[t].test) => Forward
  BY <1>1, <1>2, SettleByTransactionForward
<1>6. ASSUME SettledBy(t) = {}, NEW j \in Tips, NEW k \in Kinds, Fresh(j), Settle(j, Row(k))
      PROVE  Forward
  <2>1. \A l \in Tips \ {j} : money[l].txn # t
    BY <1>6 DEF SettledBy
  <2>2. ~IsPaid(money[j])
    BY <1>6 DEF Fresh, IsPaid
  <2>3. QED
    BY <1>4, <1>6, <2>1, <2>2, SettleForward
<1>7. QED
  BY <1>3, <1>5, <1>6, UnchangedForward

\* A settled purchase makes a transfer due and changes no payment.
LEMMA PurchaseForward ==
    ASSUME IInv, NEW e \in bus, OnPurchase(e)
    PROVE  Forward
<1> DEFINE i == ledger[e.txn].target
           m == [money[i] EXCEPT !.fundingTxn = e.txn, !.test = @ \/ ledger[e.txn].test,
                                 !.due = money[i].payment = "pending", !.waiting = FALSE]
<1>1. money' = money \/ money' = [money EXCEPT ![i] = m]
  BY DEF OnPurchase
<1>2. money \in [Tips -> MoneyRows]
  BY DEF IInv, TypeOK
<1>3. i \in Tips => /\ m.payment = money[i].payment /\ m.txn = money[i].txn
                    /\ m.ref = money[i].ref /\ m.amount = money[i].amount
                    /\ m.reversed = money[i].reversed
                    /\ m.kind = money[i].kind /\ m.origin = money[i].origin
  BY <1>2 DEF MoneyRows
<1> HIDE DEF i, m
<1>4. \A j \in Tips : /\ money'[j].payment = money[j].payment
                      /\ money'[j].txn = money[j].txn /\ money'[j].ref = money[j].ref
                      /\ money'[j].amount = money[j].amount
                      /\ money'[j].reversed = money[j].reversed
                      /\ money'[j].kind = money[j].kind
                      /\ money'[j].origin = money[j].origin
  BY <1>1, <1>2, <1>3
<1>5. QED
  BY <1>4, QuietForward DEF OnPurchase

\* A reversal reverses the one row its transaction settled, or fails a pending one.
LEMMA ReversedForward ==
    ASSUME IInv, NEW e \in bus, OnReversed(e)
    PROVE  Forward
<1>1. e.part \in Nat /\ e.bits \in Nat /\ e.txn # NoTxn
  BY TxnTypes DEF OnReversed, IInv, TypeOK, Events
<1>2. ASSUME NEW i \in Tips, i \in SettledBy(e.txn),
             Put(i, ReversedMoney(money[i], e.part, e.bits),
                    ReversedShow(ReversedMoney(money[i], e.part, e.bits), show[i],
                                 Taken(money[i], e.bits)))
      PROVE  Forward
  <2>1. money[i] \in MoneyRows /\ show[i] \in ShowRows /\ RowOK(money[i], show[i])
    BY DEF IInv, TypeOK, RowsOK
  <2>2. IsPaid(money[i])
    BY <1>1, <1>2, <2>1 DEF SettledBy, RowOK, UnpaidOK
  <2> DEFINE n == ReversedMoney(money[i], e.part, e.bits)
             q == ReversedShow(n, show[i], Taken(money[i], e.bits))
  <2>3. /\ n.payment = "reversed" /\ n.txn = money[i].txn /\ n.ref = money[i].ref
        /\ money[i].reversed <= n.reversed
        /\ \A f \in EffectNames :
              show[i].effects[f] # "queued" => q.effects[f] = show[i].effects[f]
    BY <1>1, <2>1, <2>2, ReversedFacts, SMTT(60)
  <2>4. Move(i, n)
    <3>1. /\ money[i].amount \in Nat /\ money[i].reversed \in Nat
          /\ money[i].reversed <= money[i].amount
      BY <2>1 DEF MoneyRows, RowOK, CountOK
    <3>2. /\ n.amount = money[i].amount
          /\ n.reversed = money[i].reversed + Taken(money[i], e.bits)
      BY <2>1 DEF ReversedMoney, MoneyRows
    <3>3. Taken(money[i], e.bits) \in 0..(money[i].amount - money[i].reversed)
      BY <1>1, <3>1 DEF Taken, Smaller
    <3> HIDE DEF n
    <3>4. Given(n) \in 0..Given(money[i])
      BY <2>2, <2>3, <3>1, <3>2, <3>3 DEF Given, IsPaid
    <3>5. Payment(n) = Payment(money[i])
      BY <2>3 DEF Payment
    <3>6. Payment(money[i]) # NoTxn
      BY <1>1, <1>2, <2>1, PaymentTypes DEF SettledBy
    <3>7. QED
      BY <2>2, <2>3, <3>4, <3>5, <3>6 DEF Move, IsPaid
  <2>5. PaidOK(n, q)
    <3>1. money[i].amount \in Nat /\ money[i].reversed \in Nat
          /\ money[i].reversed <= money[i].amount /\ show[i].uncounted <= show[i].counted
      BY <2>1 DEF MoneyRows, RowOK, CountOK
    <3>2. Taken(money[i], e.bits) \in Nat
      BY <1>1, <3>1 DEF Taken, Smaller
    <3>3. QED
      BY <2>1, <3>1, <3>2, ReversedPaid
  <2>6. FailureTold(show[i]) => FailureTold(q)
    <3>1. n \in MoneyRows
      BY <1>1, <2>1, <2>2, ReversedFacts
    <3>2. money[i].amount \in Nat /\ money[i].reversed \in Nat
          /\ money[i].reversed <= money[i].amount /\ show[i].uncounted <= show[i].counted
      BY <2>1 DEF MoneyRows, RowOK, CountOK
    <3>3. Taken(money[i], e.bits) \in Nat
      BY <1>1, <3>2 DEF Taken, Smaller
    <3>4. QED
      BY <2>1, <3>1, <3>2, <3>3, ReversedTells
  <2> HIDE DEF n, q
  <2>7. Follows(money[i], n) /\ KeepsEnded(show[i], q)
    BY <2>2, <2>3 DEF Follows, KeepsEnded, IsPaid
  <2>8. Put(i, n, q)
    BY <1>2 DEF n, q
  <2>9. QED
    BY <2>3, <2>4, <2>5, <2>6, <2>7, <2>8, PutForward
<1>3. \/ UNCHANGED rows
      \/ \E i \in Tips :
            /\ i \in SettledBy(e.txn)
            /\ Put(i, ReversedMoney(money[i], e.part, e.bits),
                      ReversedShow(ReversedMoney(money[i], e.part, e.bits), show[i],
                                   Taken(money[i], e.bits)))
      \/ \E i \in Tips : FailPayment(i)
  BY DEF OnReversed, SettledBy
<1>4. QED
  BY <1>2, <1>3, UnchangedForward, FailPaymentForward

\* A receipt not recorded yet settles a new row under the receipt.
LEMMA ReceiptForward ==
    ASSUME IInv, NEW i \in Tips, NEW r \in Receipts, NEW a \in Amounts, NEW test \in TestFlags,
           NEW origin \in {"tips", "external", "billing-external"},
           ~Recorded(r), Fresh(i), Settle(i, ExternalRow(r, a, test, origin))
    PROVE  Forward
<1> DEFINE m == ExternalRow(r, a, test, origin)
<1>1. m \in MoneyRows /\ m.reversed = 0
  BY ExternalRowTypes
<1>2. m.txn = NoTxn /\ m.ref = r
  BY DEF ExternalRow, NoMoney
<1> HIDE DEF m
<1>3. ~IsPaid(money[i]) /\ \A j \in Tips \ {i} : money[j].ref # m.ref
  BY <1>2 DEF Fresh, IsPaid, Recorded
<1>4. Settle(i, m)
  BY DEF m
<1>5. QED
  BY <1>1, <1>2, <1>3, <1>4, SettleForward

\* External tips, from Billing or through the API, and simulations move every row forward.
LEMMA RecordingForward ==
    ASSUME IInv, Recording \/ \E e \in bus : OnExternal(e)
    PROVE  Forward
<1>1. ASSUME NEW e \in bus, OnExternal(e)
      PROVE  Forward
  <2>1. e.ref \in Receipts
    BY <1>1 DEF OnExternal, IInv, TypeOK, Events
  <2>2. \/ UNCHANGED rows
        \/ /\ ~Recorded(e.ref)
           /\ \E i \in Tips, a \in Amounts, test \in TestFlags :
                 Fresh(i) /\ Settle(i, ExternalRow(e.ref, a, test, "billing-external"))
    BY <1>1 DEF OnExternal
  <2>3. QED
    BY <2>1, <2>2, ReceiptForward, UnchangedForward
<1>2. ASSUME NEW i \in Tips, NEW r \in Receipts, NEW a \in Amounts, NEW test \in TestFlags,
             NEW announce \in BOOLEAN, RecordExternal(i, r, a, test, announce)
      PROVE  Forward
  <2> DEFINE origin == IF announce THEN "tips" ELSE "external"
  <2>1. origin \in {"tips", "external", "billing-external"}
    OBVIOUS
  <2>2. ~Recorded(r) /\ Fresh(i) /\ Settle(i, ExternalRow(r, a, test, origin))
    BY <1>2 DEF RecordExternal
  <2> HIDE DEF origin
  <2>3. QED
    BY <2>1, <2>2, ReceiptForward
<1>3. ASSUME NEW i \in Tips, NEW k \in Kinds, NEW a \in Amounts, Simulate(i, k, a)
      PROVE  Forward
  <2> DEFINE m == [NoMoney EXCEPT !.kind = k, !.amount = a, !.test = TRUE]
  <2>1. m \in MoneyRows /\ m.reversed = 0 /\ m.txn = NoTxn /\ m.ref = NoRef
    BY ConstantsOK DEF NoMoney, MoneyRows, PaymentStates
  <2>2. ~IsPaid(money[i]) /\ Settle(i, m)
    BY <1>3 DEF Simulate, Fresh, IsPaid
  <2> HIDE DEF m
  <2>3. QED
    BY <2>1, <2>2, SettleForward
<1>4. QED
  BY <1>1, <1>2, <1>3 DEF Recording

\* Moderators and the effects worker never touch a payment nor what ended.
LEMMA ShowingForward ==
    ASSUME IInv, NEW i \in Tips, Showing(i)
    PROVE  Forward
<1>1. money[i] \in MoneyRows /\ show[i] \in ShowRows /\ RowOK(money[i], show[i])
  BY DEF IInv, TypeOK, RowsOK
<1>2. PICK s : /\ Show(i, s)
              /\ \/ s = Hidden(money[i], show[i])
                 \/ s = Restored(money[i], show[i])
                 \/ \E e \in Queued(show[i]) : \/ s = EffectDone(money[i], show[i], e)
                                              \/ s = EffectFailed(money[i], show[i], e)
  BY DEF Showing, Hide, Restore, MarkDone, MarkFailed
<1>3. KeepsEnded(show[i], s)
  <2>1. CASE s = Hidden(money[i], show[i])
    BY <1>1, <2>1, HiddenFacts DEF KeepsEnded
  <2>2. CASE s = Restored(money[i], show[i])
    BY <1>1, <2>2, RestoredFacts DEF KeepsEnded
  <2>3. ASSUME NEW e \in Queued(show[i]),
               s = EffectDone(money[i], show[i], e) \/ s = EffectFailed(money[i], show[i], e)
        PROVE  KeepsEnded(show[i], s)
    <3>1. show[i].effects[e] = "queued"
      BY DEF Queued
    <3>2. \A f \in EffectNames : f # e => s.effects[f] = show[i].effects[f]
      BY <1>1, <2>3, EffectDoneFacts, EffectFailedFacts
    <3>3. QED
      BY <3>1, <3>2 DEF KeepsEnded
  <2>4. QED
    BY <1>2, <2>1, <2>2, <2>3
<1>4. Put(i, money[i], s) /\ Follows(money[i], money[i]) /\ Alike(money[i], money[i])
  BY <1>1, <1>2 DEF Show, Put, IInv, TypeOK, Follows, MoneyRows, Alike
<1>5. ASSUME PaidOK(money[i], show[i])
      PROVE  PaidOK(money[i], s)
  <2>1. CASE s = Hidden(money[i], show[i])
    BY <1>1, <1>5, <2>1, HiddenPaid DEF RowOK
  <2>2. CASE s = Restored(money[i], show[i])
    BY <1>1, <1>5, <2>2, RestoredPaid DEF RowOK
  <2>3. ASSUME NEW e \in Queued(show[i]),
               s = EffectDone(money[i], show[i], e) \/ s = EffectFailed(money[i], show[i], e)
        PROVE  PaidOK(money[i], s)
    <3>1. show[i].effects[e] = "queued" /\ show[i].moderation = "visible"
      BY <1>1 DEF Queued, RowOK, QueueOK
    <3>2. EffectDone(money[i], show[i], e)
            = RecomputeDelivery(money[i], WithEffect(show[i], e, "delivered"))
      BY <3>1 DEF EffectDone
    <3>3. EffectFailed(money[i], show[i], e)
            = RecomputeDelivery(money[i], WithEffect(show[i], e, "failed"))
      BY <3>1 DEF EffectFailed, WithEffect
    <3>4. QED
      BY <1>1, <1>5, <2>3, <3>1, <3>2, <3>3, OutcomePaid
  <2>4. QED
    BY <1>2, <2>1, <2>2, <2>3
<1>6. ASSUME FailureTold(show[i])
      PROVE  FailureTold(s)
  <2>1. Queued(show[i]) \subseteq EffectNames
    BY DEF Queued
  <2>2. QED
    BY <1>1, <1>2, <1>6, <2>1, HiddenTells, RestoredTells, DoneTells, GivenUpTells
<1>7. QED
  BY <1>3, <1>4, <1>5, <1>6, PutForward

-----------------------------------------------------------------------------
(* The theorems *)

\* Every step moves every row forward, each under a payment of its own.
LEMMA NextForward == IInv /\ [Next]_vars => Forward
<1> SUFFICES ASSUME IInv, [Next]_vars PROVE Forward
  OBVIOUS
<1>1. CASE UNCHANGED vars
  BY <1>1, UnchangedForward DEF vars, rows
<1>2. ASSUME NEW w \in Procs, Asking(w) \/ Working(w) \/ Billing(w) \/ Crash(w)
      PROVE  Forward
  <2>1. Billing(w) \/ Crash(w) => UNCHANGED rows
    BY DEF Billing, BillingTransfers, BillingCreatesIntent, BillingRefuses,
           BillingUnreachable, Crash, rows
  <2>2. QED
    BY <1>2, <2>1, RequestForward, ScheduleForward, FinishForward, UnchangedForward DEF Working
<1>3. ASSUME NEW i \in Tips, TimePasses(i)
      PROVE  Forward
  BY <1>3, ScheduleForward
<1>4. ASSUME NEW i \in Watched, Showing(i)
      PROVE  Forward
  BY <1>4, ShowingForward, SettlementConstantsOK
<1>5. ASSUME NEW e \in bus, Deliver(e)
      PROVE  Forward
  BY <1>5, DonationForward, PurchaseForward, ReversedForward, RecordingForward DEF Deliver
<1>6. CASE BillingMoves
  <2>1. UNCHANGED rows
    BY <1>6 DEF BillingMoves, PayCheckout, Donate, Reverse, AnnounceReceipt, Republish, rows
  <2>2. QED
    BY <2>1, UnchangedForward
<1>7. QED
  BY <1>1, <1>2, <1>3, <1>4, <1>5, <1>6, RecordingForward DEF Next

\* Settled is only left for reversed and reversed never, a refusal only for a settlement;
\* the transaction a row is settled by never changes and what was taken back never shrinks.
THEOREM SettlementOnlyMovesForward == Spec => SettlementIsFinal
<1>1. Forward => \A i \in Tips :
        /\ money[i].payment = "settled"  => money'[i].payment \in {"settled", "reversed"}
        /\ money[i].payment = "reversed" => money'[i].payment = "reversed"
        /\ money[i].payment = "failed"   => money'[i].payment \in {"failed", "settled"}
        /\ money[i].txn # NoTxn => money'[i].txn = money[i].txn
        /\ money[i].reversed <= money'[i].reversed
  BY DEF Forward, Follows
<1>2. QED
  BY <1>1, SettlementInvariant, NextForward, PTL DEF Spec, SettlementIsFinal

\* A delivery that ended is never queued, sent or cancelled again.
THEOREM EndedEffectsStay == Spec => EffectsAreFinal
<1>1. Forward => \A i \in Tips, e \in EffectNames :
        show[i].effects[e] \in {"delivered", "failed", "cancelled"} =>
            show'[i].effects[e] = show[i].effects[e]
  BY DEF Forward, KeepsEnded
<1>2. QED
  BY <1>1, SettlementInvariant, NextForward, PTL DEF Spec, EffectsAreFinal

\* No two interactions are ever paid by the same Billing transaction or provider receipt,
\* however often it is answered, announced, redelivered or republished.
THEOREM OnePaymentOneRow == Spec => []OneRowPerPayment
<1>1. Init => OneRowPerPayment
  BY DEF Init, OneRowPerPayment, NoMoney
<1>2. Forward /\ OneRowPerPayment => OneRowPerPayment'
  BY DEF Forward, Follows, Own, OneRowPerPayment
<1>3. QED
  BY <1>1, <1>2, SettlementInvariant, NextForward, PTL DEF Spec

\* A paid message or media request of a tip is queued only while a delivery can still carry
\* it: never once the tip is delivered, failed or cancelled, unless it is hidden.
THEOREM PaidRowsFollow == Spec => []PaidRowFollows
<1> DEFINE Kept == \A i \in Tips : PaidOK(money[i], show[i])
<1>1. Init => Kept
  BY NoPaid DEF Init, NoShow
<1>2. Forward /\ Kept => Kept'
  BY DEF Forward
<1>3. IInv /\ Kept => PaidRowFollows
  <2> SUFFICES ASSUME IInv, Kept, ChatOn, NEW i \in Tips,
                      show[i].paid = "queued", money[i].origin = "tips"
               PROVE  show[i].delivery = "queued" \/ show[i].moderation = "hidden"
    BY DEF PaidRowFollows
  <2>1. QueueOK(money[i], show[i]) /\ show[i].moderation \in ModerationStates
    BY DEF IInv, RowsOK, RowOK, TypeOK, ShowRows
  <2>2. QED
    BY <2>1 DEF PaidOK, QueueOK, Queued, ModerationStates
<1> HIDE DEF Kept
<1>4. QED
  BY <1>1, <1>2, <1>3, SettlementInvariant, NextForward, PTL DEF Spec

\* Once nothing of a tip is queued it is recorded as failed exactly when one of its chat
\* deliveries failed, through every settlement, hold, hide, restore, reversal and mark.
THEOREM FailuresSettle == Spec => []FailureIsTold
<1>1. Init => FailureIsTold
  BY DEF Init, FailureIsTold, FailureTold, NoShow
<1>2. Forward /\ FailureIsTold => FailureIsTold'
  BY DEF Forward, FailureIsTold
<1>3. QED
  BY <1>1, <1>2, SettlementInvariant, NextForward, PTL DEF Spec

\* Settlement implements TipLifecycle: every step of a handler, a process or Billing is one
\* move of one interaction, or none.
THEOREM SettlementImplementsLifecycle == Spec => ImplementsLifecycle
<1>1. Init => Lifecycle!Init
  BY DEF Init, Lifecycle!Init, NoMoney, Payment, IsPaid
<1>2. Forward => [Lifecycle!Next]_(Lifecycle!lifecycle)
  <2> DEFINE status == [i \in Tips |-> money[i].payment]
             source == [i \in Tips |-> Payment(money[i])]
             given  == [i \in Tips |-> IF IsPaid(money[i])
                                        THEN money[i].amount - money[i].reversed ELSE 0]
  <2>1. \A i \in Tips : status[i] = money[i].payment /\ source[i] = Payment(money[i])
                          /\ given[i] = Given(money[i])
    BY DEF Given
  <2>2. \A i \in Tips : status'[i] = money'[i].payment /\ source'[i] = Payment(money'[i])
                          /\ given'[i] = Given(money'[i])
    BY DEF Given, Payment, IsPaid
  <2>3. CASE \A j \in Tips : Alike(money[j], money'[j])
    <3>1. status' = status /\ source' = source /\ given' = given
      BY <2>1, <2>2, <2>3 DEF Alike
    <3>2. QED
      BY <3>1 DEF Lifecycle!lifecycle
  <2>4. ASSUME NEW i \in Tips, Move(i, money'[i]),
               \A j \in Tips \ {i} : Alike(money[j], money'[j])
        PROVE  Lifecycle!Next
    <3>1. /\ status' = [status EXCEPT ![i] = money'[i].payment]
          /\ source' = [source EXCEPT ![i] = Payment(money'[i])]
          /\ \A j \in Tips \ {i} : given'[j] = given[j]
      <4>1. \A j \in Tips \ {i} : /\ status'[j] = status[j] /\ source'[j] = source[j]
                                  /\ given'[j] = given[j]
        BY <2>1, <2>2, <2>4 DEF Alike
      <4>2. status' = [status EXCEPT ![i] = money'[i].payment]
        BY <4>1
      <4>3. source' = [source EXCEPT ![i] = Payment(money'[i])]
        BY <2>2, <4>1
      <4>4. QED
        BY <4>1, <4>2, <4>3
    <3>2. Payment(money'[i]) = Payment(money[i]) => source' = source
      BY <2>1, <3>1
    <3>3. Payment(money'[i]) = Payment(money[i]) /\ Given(money'[i]) = Given(money[i]) =>
            source' = source /\ given' = given
      BY <2>1, <2>2, <3>1, <3>2
    <3>4. CASE /\ money[i].payment = "absent" /\ money'[i].payment = "pending"
               /\ Payment(money'[i]) = Payment(money[i]) /\ Given(money'[i]) = Given(money[i])
      <4>1. Lifecycle!Ask(i)
        BY <2>1, <3>1, <3>3, <3>4 DEF Lifecycle!Ask
      <4>2. QED
        BY <4>1 DEF Lifecycle!Next
    <3>5. CASE /\ money[i].payment \in {"absent", "pending", "failed"}
               /\ money'[i].payment = "settled"
               /\ Payment(money'[i]) \in TxnIds \cup Receipts \cup {NoTxn}
               /\ \/ Payment(money'[i]) = NoTxn
                  \/ \A j \in Tips : Payment(money[j]) # Payment(money'[i])
               /\ Given(money'[i]) \in Nat
      <4>1. PICK p \in (TxnIds \cup Receipts) \cup {NoTxn} : p = Payment(money'[i])
        BY <3>5
      <4>2. Lifecycle!Pay(i, p)
        BY <2>1, <2>2, <3>1, <3>5, <4>1 DEF Lifecycle!Pay
      <4>3. QED
        BY <4>1, <4>2 DEF Lifecycle!Next
    <3>6. CASE /\ money[i].payment = "pending" /\ money'[i].payment = "failed"
               /\ Payment(money'[i]) = Payment(money[i]) /\ Given(money'[i]) = Given(money[i])
      <4>1. Lifecycle!Refuse(i)
        BY <2>1, <3>1, <3>3, <3>6 DEF Lifecycle!Refuse
      <4>2. QED
        BY <4>1 DEF Lifecycle!Next
    <3>7. CASE /\ money[i].payment \in {"settled", "reversed"}
               /\ money'[i].payment = "reversed"
               /\ Payment(money'[i]) = Payment(money[i]) /\ Payment(money[i]) # NoTxn
               /\ Given(money'[i]) \in 0..Given(money[i])
      <4>1. Lifecycle!TakeBack(i)
        BY <2>1, <2>2, <3>1, <3>2, <3>7 DEF Lifecycle!TakeBack
      <4>2. QED
        BY <4>1 DEF Lifecycle!Next
    <3>8. QED
      BY <2>4, <3>4, <3>5, <3>6, <3>7 DEF Move
  <2>5. QED
    BY <2>3, <2>4 DEF Forward, OneMoves
<1>3. QED
  BY <1>1, <1>2, SettlementInvariant, NextForward, PTL
     DEF Spec, ImplementsLifecycle, Lifecycle!Spec

-----------------------------------------------------------------------------
(* Billing's books: what they hold of the interactions, and what was read of it *)

\* The row was asked for through Tips and is paid by a transfer.
Requested(m) ==
    /\ m.payment # "absent" /\ m.origin = "tips"
    /\ m.funding \in {"credit", "checkout"} /\ m.amount > 0

\* Payments wait, fail and are asked of Billing only for requested rows; an answer that the
\* transfer was made is Billing's.
AskedOK ==
    /\ \A i \in Tips : money[i].payment \in {"pending", "failed"} => Requested(money[i])
    /\ \A w \in Procs : work[w].pc # "idle" =>
          \A i \in work[w].batch \cup {work[w].tip} : Requested(money[i])
    /\ \A w \in Procs :
          work[w].pc = "answered" /\ work[w].op = "transfer" /\ work[w].answer = "ok" =>
              ledger[TransferTxn(work[w].tip)].amount > 0

\* Entry t takes back no more than it moved, and nothing of what it did not.
EntryOK(t) ==
    /\ ledger[t].amount = 0 => ledger[t].refunds = 0
    /\ ledger[t].clawed <= ledger[t].amount

\* The transfer of an interaction is the one that was asked for.
TransferOK(i) ==
    LET entry == ledger[TransferTxn(i)]
    IN  entry.amount > 0 => /\ Requested(money[i]) /\ entry.amount = money[i].amount
                            /\ entry.target = i /\ entry.parties

\* A donation that names its creator and supporter names an interaction of theirs, and is
\* not the transfer Tips asks for.
DonationOK(d) ==
    LET entry == ledger[DonationTxn(d)]
    IN  entry.amount > 0 /\ entry.parties =>
            /\ entry.target \in Tips /\ money[entry.target].payment # "absent"
            /\ SameTransfers \/ entry.amount # money[entry.target].amount

EntriesOK ==
    /\ \A t \in TxnIds : EntryOK(t)
    /\ \A i \in Tips : TransferOK(i)
    /\ \A d \in Donations : DonationOK(d)

\* The transaction of row i, were it m, is Billing's: of its amount and made for it, and
\* the reversals it noted are reversals of that transaction.
RowBacked(i, m) ==
    LET entry == ledger[m.txn]
    IN  /\ m.txn = NoTxn => m.refunds = {}
        /\ IsPaid(m) /\ ViaBilling(m) => m.txn # NoTxn
        /\ m.txn # NoTxn => /\ m.txn \in MoneyTxns
                            /\ entry.amount > 0 /\ entry.amount = m.amount
                            /\ m.origin = "tips" => entry.target = i /\ entry.parties
                            /\ m.refunds \subseteq 1..entry.refunds

BackedOK == \A i \in Tips : RowBacked(i, money[i])

\* The bus announces what the books hold, and all of it.
AnnouncedOK(e) ==
    /\ e.what = "settled" => e.part = 0 /\ (e.txn \in MoneyTxns => ledger[e.txn].amount > 0)
    /\ e.what = "reversed" => e.part \in 1..ledger[e.txn].refunds

BusOK ==
    /\ \A e \in bus : AnnouncedOK(e)
    /\ \A t \in TxnIds :
          /\ ledger[t].amount > 0 => \E e \in bus : e.what = "settled" /\ e.txn = t
          /\ \A n \in 1..ledger[t].refunds :
                \E e \in bus : e.what = "reversed" /\ e.txn = t /\ e.part = n

\* f gives each set of n reversals a number of bits, at most c, additively.
Additive(f, n, c) ==
    /\ f \in [SUBSET (1..n) -> 0..c]
    /\ \A S, T \in SUBSET (1..n) : S \cap T = {} => f[S \cup T] = f[S] + f[T]

\* f says how many bits each set of reversals of t takes back: what Billing took back in all,
\* the bits each was announced with, and what the row of t counted down.
Measures(f, t) ==
    /\ Additive(f, ledger[t].refunds, ledger[t].clawed)
    /\ f[1..ledger[t].refunds] = ledger[t].clawed
    /\ \A e \in bus : e.what = "reversed" /\ e.txn = t => f[{e.part}] = e.bits
    /\ \A i \in Tips : money[i].txn = t => money[i].reversed = f[money[i].refunds]

ClawsOK == \A t \in MoneyTxns : \E f : Measures(f, t)

\* What an applied event announces is on a row.
Read(e) ==
    \E i \in Tips : /\ money[i].txn = e.txn
                    /\ e.what = "reversed" => e.part \in money[i].refunds

ReadOK ==
    InOrder /\ ~SameTransfers => \A e \in inbox : e.txn \in MoneyTxns => Read(e)

\* The inductive invariant that relates the rows to Billing's books, on top of IInv.
Books == AskedOK /\ EntriesOK /\ BackedOK /\ BusOK /\ ClawsOK /\ ReadOK

\* n asks what m asked.
KeepsRequest(m, n) ==
    m.payment # "absent" =>
        /\ n.payment # "absent" /\ n.origin = m.origin
        /\ n.funding = m.funding /\ n.amount = m.amount

\* n counted down what m did, nothing yet, or one more reversal.
CountsDown(m, n) ==
    \/ n.txn = m.txn /\ n.reversed = m.reversed /\ n.refunds = m.refunds
    \/ m.txn = NoTxn /\ n.reversed = 0 /\ n.refunds = {}
    \/ \E e \in bus : /\ e.what = "reversed" /\ e.txn = m.txn /\ n.txn = m.txn
                      /\ e.part \notin m.refunds
                      /\ n.refunds = m.refunds \cup {e.part}
                      /\ n.reversed = m.reversed + Taken(m, e.bits)

\* Row i may become n as far as the books go.
GoesOn(i, n) ==
    /\ KeepsRequest(money[i], n)
    /\ n.payment \in {"pending", "failed"} =>
          money[i].payment \in {"pending", "failed"} \/ Requested(n)
    /\ RowBacked(i, n)
    /\ CountsDown(money[i], n)

\* To the books n is the row m; a pending payment may have been refused.
SameInBooks(m, n) ==
    /\ n.origin = m.origin /\ n.funding = m.funding /\ n.amount = m.amount
    /\ n.txn = m.txn /\ n.reversed = m.reversed /\ n.refunds = m.refunds
    /\ n.payment = m.payment \/ (m.payment = "pending" /\ n.payment = "failed")

\* Process w goes on with rows it had, or with requested ones.
WorkGoesOn(w) ==
    work'[w].pc # "idle" =>
        /\ \/ /\ work[w].pc # "idle"
              /\ work'[w].batch \cup {work'[w].tip} \subseteq work[w].batch \cup {work[w].tip}
           \/ \A i \in work'[w].batch \cup {work'[w].tip} : i \in Tips /\ Requested(money'[i])
        /\ work'[w].pc = "answered" /\ work'[w].op = "transfer" /\ work'[w].answer = "ok" =>
              work'[w] = work[w] \/ ledger'[TransferTxn(work'[w].tip)].amount > 0

-----------------------------------------------------------------------------
(* What keeps each part of the books *)

\* The rows a process works on are interactions.
LEMMA WorkTypes ==
    ASSUME IInv, NEW w \in Procs
    PROVE  work[w].pc # "idle" => work[w].batch \cup {work[w].tip} \subseteq Tips
  BY DEF IInv, TypeOK, CallsOK, Jobs

\* AskedOK lasts while rows keep their request and entries their amount.
LEMMA AskedKept ==
    ASSUME IInv, AskedOK, \A w \in Procs : WorkGoesOn(w),
           \A i \in Tips :
              /\ KeepsRequest(money[i], money'[i])
              /\ money'[i].payment \in {"pending", "failed"} =>
                    money[i].payment \in {"pending", "failed"} \/ Requested(money'[i]),
           \A t \in TxnIds : ledger[t].amount > 0 => ledger'[t].amount > 0
    PROVE  AskedOK'
<1>1. \A i \in Tips : Requested(money[i]) => Requested(money'[i])
  BY DEF KeepsRequest, Requested
<1>2. ASSUME NEW i \in Tips, money'[i].payment \in {"pending", "failed"}
      PROVE  Requested(money'[i])
  BY <1>1, <1>2 DEF AskedOK
<1>3. ASSUME NEW w \in Procs, work'[w].pc # "idle",
             NEW i \in work'[w].batch \cup {work'[w].tip}
      PROVE  Requested(money'[i])
  BY <1>1, <1>3, WorkTypes DEF AskedOK, WorkGoesOn
<1>4. ASSUME NEW w \in Procs, work'[w].pc = "answered", work'[w].op = "transfer",
             work'[w].answer = "ok"
      PROVE  ledger'[TransferTxn(work'[w].tip)].amount > 0
  <2>1. CASE work'[w] = work[w]
    <3>1. work[w].tip \in Tips
      BY <1>4, <2>1 DEF IInv, CallsOK
    <3>2. TransferTxn(work[w].tip) \in TxnIds
      BY <3>1, TxnTypes
    <3>3. QED
      BY <1>4, <2>1, <3>2 DEF AskedOK
  <2>2. QED
    BY <1>4, <2>1 DEF WorkGoesOn
<1>5. QED
  BY <1>2, <1>3, <1>4 DEF AskedOK, Requested

\* The measure of the empty set of reversals is zero.
LEMMA NothingMeasured ==
    ASSUME NEW n \in Nat, NEW c \in Nat, NEW f, Additive(f, n, c), NEW S, S = {}
    PROVE  f[S] = 0
<1>1. S \in SUBSET (1..n)
  OBVIOUS
<1>2. f[S] \in 0..c
  BY <1>1 DEF Additive
<1>3. \A T \in SUBSET (1..n) : S \cap T = {} => f[S \cup T] = f[S] + f[T]
  BY <1>1 DEF Additive
<1>4. \A T : T = S => f[S] = f[S] + f[T]
  <2> SUFFICES ASSUME NEW T, T = S
               PROVE  f[S] = f[S] + f[T]
    OBVIOUS
  <2>1. S \cup T = S /\ T \in SUBSET (1..n) /\ S \cap T = {}
    BY <1>1
  <2>2. QED
    BY <1>3, <2>1, Zenon
<1>5. PICK x \in 0..c : x = f[S]
  BY <1>2
<1>6. x = x + x
  BY <1>4, <1>5
<1>7. x = 0
  BY <1>6
<1>8. QED
  BY <1>5, <1>7

\* A reversal counted down takes exactly its bits: Billing never takes back more than it moved.
LEMMA CountedDown ==
    ASSUME IInv, EntriesOK, BusOK, NEW t \in MoneyTxns, NEW f, Measures(f, t),
           NEW i \in Tips, RowBacked(i, money[i]), money[i].txn = t,
           NEW e \in bus, e.what = "reversed", e.txn = t, e.part \notin money[i].refunds
    PROVE  money[i].reversed + Taken(money[i], e.bits) = f[money[i].refunds \cup {e.part}]
<1> DEFINE S == money[i].refunds
           p == e.part
           parts == 1..ledger[t].refunds
<1>1. t \in TxnIds /\ t # NoTxn
  BY TxnTypes
<1>2. ledger[t] \in Entries /\ money[i] \in MoneyRows /\ e \in Events
  BY <1>1 DEF IInv, TypeOK
<1>3. /\ ledger[t].amount \in Nat /\ ledger[t].clawed \in Nat
      /\ money[i].amount \in Nat /\ money[i].reversed \in Nat
  BY <1>2 DEF Entries, MoneyRows
<1>4. e.bits \in Nat
  BY <1>2 DEF Events
<1>5. p \in parts /\ S \subseteq parts /\ p \notin S
  BY <1>1 DEF BusOK, AnnouncedOK, RowBacked
<1>6. f[{p}] = e.bits /\ money[i].reversed = f[S]
  BY DEF Measures
<1>7. S \in SUBSET parts /\ {p} \in SUBSET parts /\ S \cup {p} \in SUBSET parts /\ S \cap {p} = {}
  BY <1>5
<1> HIDE DEF S, p, parts
<1>8. f[S \cup {p}] = f[S] + f[{p}] /\ f[S \cup {p}] \in 0..ledger[t].clawed
  <2>1. f \in [SUBSET parts -> 0..ledger[t].clawed]
    BY DEF Measures, Additive, parts
  <2>2. \A X, Y \in SUBSET parts : X \cap Y = {} => f[X \cup Y] = f[X] + f[Y]
    BY DEF Measures, Additive, parts
  <2>3. QED
    BY <1>7, <2>1, <2>2
<1>9. ledger[t].clawed <= ledger[t].amount /\ ledger[t].amount = money[i].amount
  BY <1>1 DEF EntriesOK, EntryOK, RowBacked
<1>10. e.bits <= money[i].amount - money[i].reversed
  BY <1>3, <1>4, <1>6, <1>8, <1>9
<1>11. Taken(money[i], e.bits) = e.bits
  BY <1>10 DEF Taken, Smaller
<1>12. money[i].reversed + e.bits = f[S \cup {p}]
  BY <1>6, <1>8
<1>13. QED
  BY <1>11, <1>12 DEF S, p

\* A step on the rows, the processes and the inbox keeps the books.
LEMMA RowsKeepBooks ==
    ASSUME IInv, Books, UNCHANGED <<ledger, bus>>,
           \A i \in Tips : GoesOn(i, money'[i]), \A w \in Procs : WorkGoesOn(w),
           \A e \in inbox' \ inbox : InOrder /\ ~SameTransfers /\ e.txn \in MoneyTxns => Read(e)'
    PROVE  Books'
<1>1. AskedOK'
  BY AskedKept DEF Books, GoesOn
<1>2. EntriesOK'
  <2>1. \A i \in Tips : KeepsRequest(money[i], money'[i])
    BY DEF GoesOn
  <2>2. \A i \in Tips : TransferOK(i)'
    BY <2>1 DEF Books, EntriesOK, TransferOK, KeepsRequest, Requested
  <2>3. \A d \in Donations : DonationOK(d)'
    BY <2>1 DEF Books, EntriesOK, DonationOK, KeepsRequest
  <2>4. \A t \in TxnIds : EntryOK(t)'
    BY DEF Books, EntriesOK, EntryOK
  <2>5. QED
    BY <2>2, <2>3, <2>4 DEF EntriesOK
<1>3. BackedOK'
  BY DEF GoesOn, BackedOK, RowBacked
<1>4. BusOK'
  BY DEF Books, BusOK, AnnouncedOK
<1>5. ClawsOK'
  <2> SUFFICES ASSUME NEW t \in MoneyTxns
               PROVE  \E f : Measures(f, t)'
    BY DEF ClawsOK
  <2>1. PICK f : Measures(f, t)
    BY DEF Books, ClawsOK
  <2>2. ASSUME NEW i \in Tips, money'[i].txn = t
        PROVE  money'[i].reversed = f[money'[i].refunds]
    <3>1. CountsDown(money[i], money'[i])
      BY DEF GoesOn
    <3>2. CASE /\ money'[i].txn = money[i].txn /\ money'[i].reversed = money[i].reversed
               /\ money'[i].refunds = money[i].refunds
      BY <2>1, <2>2, <3>2 DEF Measures
    <3>3. CASE money'[i].reversed = 0 /\ money'[i].refunds = {}
      <4>1. ledger[t].refunds \in Nat /\ ledger[t].clawed \in Nat
        BY TxnTypes DEF IInv, TypeOK, Entries
      <4>2. f[money'[i].refunds] = 0
        BY <2>1, <3>3, <4>1, NothingMeasured DEF Measures
      <4>3. QED
        BY <3>3, <4>2
    <3>4. ASSUME NEW e \in bus, e.what = "reversed", e.txn = money[i].txn,
                 money'[i].txn = money[i].txn, e.part \notin money[i].refunds,
                 money'[i].refunds = money[i].refunds \cup {e.part},
                 money'[i].reversed = money[i].reversed + Taken(money[i], e.bits)
          PROVE  money'[i].reversed = f[money'[i].refunds]
      <4>1. EntriesOK /\ BusOK /\ RowBacked(i, money[i])
        BY DEF Books, BackedOK
      <4>2. /\ money[i].txn = t /\ e.txn = t
            /\ e.what = "reversed" /\ e.part \notin money[i].refunds
        BY <2>2, <3>4
      <4>3. money[i].reversed + Taken(money[i], e.bits) = f[money[i].refunds \cup {e.part}]
        BY <2>1, <4>1, <4>2, CountedDown
      <4>4. QED
        BY <3>4, <4>3, Zenon
    <3>5. QED
      BY <3>1, <3>2, <3>3, <3>4 DEF CountsDown
  <2>3. Measures(f, t)'
    BY <2>1, <2>2 DEF Measures
  <2>4. QED
    BY <2>3
<1>6. ReadOK'
  <2> SUFFICES ASSUME InOrder, ~SameTransfers, NEW e \in inbox', e.txn \in MoneyTxns
               PROVE  Read(e)'
    BY DEF ReadOK
  <2>1. CASE e \in inbox
    <3>1. PICK i \in Tips : /\ money[i].txn = e.txn
                            /\ e.what = "reversed" => e.part \in money[i].refunds
      BY <2>1 DEF Books, ReadOK, Read
    <3>2. money[i].txn # NoTxn
      BY <3>1, TxnTypes
    <3>3. money'[i].txn = money[i].txn /\ money[i].refunds \subseteq money'[i].refunds
      BY <3>2 DEF GoesOn, CountsDown
    <3>4. QED
      BY <3>1, <3>3 DEF Read
  <2>2. QED
    BY <2>1
<1>7. QED
  BY <1>1, <1>2, <1>3, <1>4, <1>5, <1>6 DEF Books

-----------------------------------------------------------------------------
(* What a transaction on a row means to the books *)

\* A row that means the same to the books goes on.
LEMMA SameGoesOn ==
    ASSUME Books, NEW i \in Tips, NEW n, SameInBooks(money[i], n)
    PROVE  GoesOn(i, n)
<1>1. KeepsRequest(money[i], n)
  BY DEF SameInBooks, KeepsRequest
<1>2. RowBacked(i, money[i])
  BY DEF Books, BackedOK
<1>3. IsPaid(n) = IsPaid(money[i]) /\ ViaBilling(n) = ViaBilling(money[i])
  BY DEF SameInBooks, IsPaid, ViaBilling
<1>4. RowBacked(i, n)
  BY <1>2, <1>3 DEF RowBacked, SameInBooks
<1>5. QED
  BY <1>1, <1>4 DEF GoesOn, SameInBooks, CountsDown

\* A handler that ignores what it was given lets every row go on.
LEMMA IgnoredGoesOn ==
    ASSUME Books, UNCHANGED rows
    PROVE  \A i \in Tips : GoesOn(i, money'[i])
<1>1. \A i \in Tips : SameInBooks(money[i], money'[i])
  BY DEF rows, SameInBooks
<1>2. QED
  BY <1>1, SameGoesOn

\* A transaction on one row that goes on lets every row go on.
LEMMA PutGoesOn ==
    ASSUME IInv, Books, NEW i \in Tips, NEW m, NEW s, Put(i, m, s), GoesOn(i, m)
    PROVE  money'[i] = m /\ \A j \in Tips : GoesOn(j, money'[j])
<1>1. money \in [Tips -> MoneyRows]
  BY DEF IInv, TypeOK
<1>2. money'[i] = m /\ \A j \in Tips \ {i} : money'[j] = money[j]
  BY <1>1 DEF Put
<1>3. \A j \in Tips \ {i} : GoesOn(j, money'[j])
  BY <1>2, SameGoesOn DEF SameInBooks
<1>4. QED
  BY <1>2, <1>3

\* settle() of an unpaid row under a transaction of Billing's, or outside Billing.
LEMMA SettleGoesOn ==
    ASSUME IInv, Books, NEW i \in Tips, NEW m \in MoneyRows, ~IsPaid(money[i]),
           m.reversed = 0, m.refunds = {}, KeepsRequest(money[i], m),
           ViaBilling(m) => m.txn # NoTxn, RowBacked(i, SettledMoney(m)), Settle(i, m)
    PROVE  money'[i].txn = m.txn /\ \A j \in Tips : GoesOn(j, money'[j])
<1> DEFINE n == SettledMoney(m)
<1>1. PICK s : Put(i, n, s)
  BY DEF Settle
<1>2. /\ n.payment = "settled" /\ n.origin = m.origin /\ n.funding = m.funding
      /\ n.amount = m.amount /\ n.txn = m.txn /\ n.reversed = 0 /\ n.refunds = {}
  BY DEF SettledMoney, MoneyRows
<1>3. money[i].txn = NoTxn
  BY DEF IInv, RowsOK, RowOK, UnpaidOK
<1>4. RowBacked(i, n)
  OBVIOUS
<1> HIDE DEF n
<1>5. GoesOn(i, n)
  BY <1>2, <1>3, <1>4 DEF GoesOn, KeepsRequest, CountsDown
<1>6. QED
  BY <1>1, <1>2, <1>5, PutGoesOn

\* settleByTransaction() of a transaction that moved the amount of the row, for it.
LEMMA SettleByTransactionGoesOn ==
    ASSUME IInv, Books, NEW i \in Tips, NEW t \in MoneyTxns, NEW test \in BOOLEAN,
           ledger[t].amount > 0, ledger[t].amount = money[i].amount,
           ledger[t].target = i, ledger[t].parties, SettleByTransaction(i, t, test)
    PROVE  /\ \A j \in Tips : GoesOn(j, money'[j])
           /\ \/ money'[i].txn = t
              \/ IsPaid(money[i])
              \/ \E j \in Tips : money[j].txn = t /\ money' = money
<1> DEFINE m == [money[i] EXCEPT !.txn = t, !.test = @ \/ test, !.due = FALSE]
<1>1. money[i] \in MoneyRows /\ RowOK(money[i], show[i]) /\ RowBacked(i, money[i])
  BY DEF IInv, TypeOK, RowsOK, Books, BackedOK
<1>2. t \in TxnIds /\ t # NoTxn
  BY TxnTypes
<1>3. CASE UNCHANGED rows /\ (\/ money[i].txn = t \/ IsPaid(money[i])
                              \/ \E j \in Tips : money[j].txn = t)
  BY <1>3, IgnoredGoesOn DEF rows
<1>4. CASE ~IsPaid(money[i]) /\ Settle(i, m)
  <2>1. /\ m \in MoneyRows /\ m.reversed = money[i].reversed /\ m.txn = t
        /\ m.refunds = money[i].refunds /\ m.payment = money[i].payment
        /\ m.origin = money[i].origin /\ m.funding = money[i].funding
        /\ m.amount = money[i].amount
    BY <1>1, <1>2, ZenonT(60) DEF MoneyRows
  <2>2. m.reversed = 0 /\ m.refunds = {}
    BY <1>1, <1>4, <2>1 DEF RowOK, UnpaidOK, RowBacked
  <2>3. KeepsRequest(money[i], m)
    BY <2>1 DEF KeepsRequest
  <2> HIDE DEF m
  <2>4. /\ SettledMoney(m).txn = t /\ SettledMoney(m).refunds = {}
        /\ SettledMoney(m).amount = money[i].amount
    BY <2>1, <2>2 DEF SettledMoney, MoneyRows
  <2>5. RowBacked(i, SettledMoney(m))
    BY <1>2, <2>4 DEF RowBacked
  <2>6. QED
    BY <1>2, <1>4, <2>1, <2>2, <2>3, <2>5, SettleGoesOn
<1>5. QED
  BY <1>3, <1>4 DEF SettleByTransaction, IsPaid

\* failPayment() is nothing to the books.
LEMMA FailPaymentGoesOn ==
    ASSUME IInv, Books, NEW i \in Tips, FailPayment(i)
    PROVE  \A j \in Tips : GoesOn(j, money'[j])
<1>1. money[i] \in MoneyRows
  BY DEF IInv, TypeOK
<1>2. CASE money[i].payment = "pending"
  <2> DEFINE n == FailedMoney(money[i])
  <2>1. SameInBooks(money[i], n)
    BY <1>1, <1>2 DEF SameInBooks, FailedMoney, MoneyRows
  <2>2. Put(i, n, FailedShow(money[i], show[i]))
    BY <1>2 DEF FailPayment
  <2> HIDE DEF n
  <2>3. GoesOn(i, n)
    BY <2>1, SameGoesOn
  <2>4. QED
    BY <2>2, <2>3, PutGoesOn
<1>3. CASE money[i].payment # "pending"
  BY <1>3, IgnoredGoesOn DEF FailPayment
<1>4. QED
  BY <1>2, <1>3

-----------------------------------------------------------------------------
(* The steps on the rows, the processes and the inbox *)

\* Processes that do nothing go on.
LEMMA NoWorkGoesOn ==
    ASSUME UNCHANGED work
    PROVE  \A v \in Procs : WorkGoesOn(v)
  BY DEF WorkGoesOn

\* A process that ends its call, or takes its next row, goes on with rows it had.
LEMMA NextJobGoesOn ==
    ASSUME IInv, NEW w \in Procs, work[w].pc # "idle", NextJob(w)
    PROVE  \A v \in Procs : WorkGoesOn(v)
<1>1. work \in [Procs -> Jobs]
  BY DEF IInv, TypeOK
<1>2. \A v \in Procs \ {w} : work'[v] = work[v]
  BY <1>1 DEF NextJob
<1>3. WorkGoesOn(w)
  <2>1. CASE work[w].batch = {}
    <3>1. work'[w].pc = "idle"
      BY <1>1, <2>1 DEF NextJob, Idle
    <3>2. QED
      BY <3>1 DEF WorkGoesOn
  <2>2. CASE work[w].batch # {}
    <3>1. PICK i \in work[w].batch :
             work' = [work EXCEPT ![w] = Calling("transfer", i, work[w].batch \ {i})]
      BY <2>2 DEF NextJob
    <3>2. /\ work'[w].pc = "calling" /\ work'[w].tip = i
          /\ work'[w].batch = work[w].batch \ {i}
      BY <1>1, <3>1 DEF Calling
    <3>3. QED
      BY <3>2 DEF WorkGoesOn
  <2>3. QED
    BY <2>1, <2>2
<1>4. QED
  BY <1>2, <1>3 DEF WorkGoesOn

\* request() asks Billing for the row it inserts.
LEMMA RequestBooks ==
    ASSUME IInv, Books, NEW w \in Procs, Asking(w)
    PROVE  Books'
<1>1. PICK i \in Tips, k \in Kinds, a \in Amounts, f \in {"credit", "checkout"} :
         Request(w, i, k, a, f)
  BY DEF Asking
<1> DEFINE m == [NoMoney EXCEPT !.kind = k, !.funding = f, !.amount = a,
                                !.payment = "pending"]
           op == IF f = "credit" THEN "transfer" ELSE "intent"
<1>2. a \in Nat /\ a > 0
  BY ConstantsOK
<1>3. /\ m.payment = "pending" /\ m.origin = "tips" /\ m.funding = f /\ m.amount = a
      /\ m.txn = NoTxn /\ m.reversed = 0 /\ m.refunds = {}
  BY DEF NoMoney
<1>4. money[i].payment = "absent" /\ money[i].txn = NoTxn
  BY <1>1 DEF Request, Fresh, IInv, RowsOK, RowOK, UnpaidOK, IsPaid
<1>5. money' = [money EXCEPT ![i] = m] /\ work' = [work EXCEPT ![w] = Calling(op, i, {})]
      /\ UNCHANGED <<show, ledger, bus, inbox>>
  BY <1>1 DEF Request
<1> HIDE DEF m, op
<1>6. Requested(m)
  BY <1>2, <1>3 DEF Requested
<1>7. GoesOn(i, m)
  BY <1>3, <1>4, <1>6 DEF GoesOn, KeepsRequest, RowBacked, CountsDown, IsPaid
<1>8. Put(i, m, show[i])
  BY <1>5 DEF Put, IInv, TypeOK
<1>9. money'[i] = m /\ \A j \in Tips : GoesOn(j, money'[j])
  BY <1>7, <1>8, PutGoesOn
<1>10. \A v \in Procs : WorkGoesOn(v)
  <2>1. \A v \in Procs : work'[v] = IF v = w THEN Calling(op, i, {}) ELSE work[v]
    BY <1>5 DEF IInv, TypeOK
  <2>2. /\ Calling(op, i, {}).batch = {} /\ Calling(op, i, {}).tip = i
        /\ Calling(op, i, {}).pc = "calling"
    BY DEF Calling
  <2>3. QED
    BY <1>6, <1>9, <2>1, <2>2 DEF WorkGoesOn
<1>11. QED
  BY <1>5, <1>9, <1>10, RowsKeepBooks

\* A claim takes rows that were requested, and a claim, a backoff or a lease is nothing to
\* the books.
LEMMA ScheduleBooks ==
    ASSUME IInv, Books,
           (\E w \in Procs : ProcessDueTransfers(w)) \/ (\E i \in Tips : TimePasses(i))
    PROVE  Books'
<1>1. money \in [Tips -> MoneyRows]
  BY DEF IInv, TypeOK
<1>2. \A i \in Tips, b \in BOOLEAN : SameInBooks(money[i], [money[i] EXCEPT !.waiting = b])
  BY <1>1 DEF MoneyRows, SameInBooks
<1>3. \A i \in Tips : SameInBooks(money[i], money[i])
  BY DEF SameInBooks
<1>4. ASSUME NEW w \in Procs, ProcessDueTransfers(w)
      PROVE  Books'
  <2>1. PICK claimed \in SUBSET Due : \E i \in claimed :
           /\ money' = [j \in Tips |-> IF j \in claimed THEN [money[j] EXCEPT !.waiting = TRUE]
                                       ELSE money[j]]
           /\ work'  = [work EXCEPT ![w] = Calling("transfer", i, claimed \ {i})]
    BY <1>4 DEF ProcessDueTransfers
  <2>2. PICK i \in claimed :
           work' = [work EXCEPT ![w] = Calling("transfer", i, claimed \ {i})]
    BY <2>1
  <2>3. \A j \in Tips : money'[j] = money[j] \/ money'[j] = [money[j] EXCEPT !.waiting = TRUE]
    BY <2>1
  <2>4. \A j \in Tips : SameInBooks(money[j], money'[j])
    BY <1>2, <1>3, <2>3
  <2>5. \A j \in claimed : j \in Tips /\ Requested(money'[j])
    <3>1. \A j \in claimed : j \in Tips /\ money[j].payment = "pending"
      BY DEF Due
    <3>2. \A j \in claimed : j \in Tips /\ Requested(money[j])
      BY <3>1 DEF Books, AskedOK
    <3>3. QED
      BY <2>4, <3>1, <3>2 DEF SameInBooks, Requested
  <2>6. \A v \in Procs : WorkGoesOn(v)
    <3>1. \A v \in Procs : work'[v] = IF v = w THEN Calling("transfer", i, claimed \ {i})
                                      ELSE work[v]
      BY <2>2 DEF IInv, TypeOK
    <3>2. LET job == Calling("transfer", i, claimed \ {i})
          IN  job.batch = claimed \ {i} /\ job.tip = i /\ job.pc = "calling"
      BY DEF Calling
    <3>3. QED
      BY <2>5, <3>1, <3>2 DEF WorkGoesOn
  <2>7. QED
    BY <1>4, <2>4, <2>6, SameGoesOn, RowsKeepBooks DEF ProcessDueTransfers
<1>5. ASSUME NEW i \in Tips, TimePasses(i)
      PROVE  Books'
  <2>1. money' = [money EXCEPT ![i] = [money[i] EXCEPT !.waiting = FALSE]]
    BY <1>5 DEF TimePasses
  <2>2. \A j \in Tips : SameInBooks(money[j], money'[j])
    BY <1>1, <1>2, <1>3, <2>1
  <2>3. QED
    BY <1>5, <2>2, SameGoesOn, NoWorkGoesOn, RowsKeepBooks DEF TimePasses
<1>6. QED
  BY <1>4, <1>5

\* Only an answer Billing gave settles a row, and it gave it for that row.
LEMMA FinishBooks ==
    ASSUME IInv, Books, NEW w \in Procs, FinishTransfer(w) \/ FinishCheckout(w)
    PROVE  Books'
<1> DEFINE i == work[w].tip
           t == TransferTxn(i)
           intended == [money[i] EXCEPT !.intent = TRUE]
           late == [money[i] EXCEPT !.due = TRUE, !.waiting = TRUE]
<1>1. /\ work[w].pc = "answered" /\ NextJob(w) /\ UNCHANGED <<ledger, bus, inbox>>
  BY DEF FinishTransfer, FinishCheckout
<1>2. i \in Tips /\ money \in [Tips -> MoneyRows] /\ ledger \in [TxnIds -> Entries]
  BY <1>1 DEF IInv, TypeOK, CallsOK
<1>3. t \in MoneyTxns /\ t \in TxnIds /\ ledger[t].test \in BOOLEAN
  BY <1>2, TxnTypes DEF Entries
<1>4. \/ ledger[t].amount > 0 /\ SettleByTransaction(i, t, ledger[t].test)
      \/ FailPayment(i)
      \/ money' = money \/ money' = [money EXCEPT ![i] = intended]
      \/ money' = [money EXCEPT ![i] = late]
  BY <1>1 DEF FinishTransfer, FinishCheckout, RetryLater, Books, AskedOK, rows
<1>5. SameInBooks(money[i], intended) /\ SameInBooks(money[i], late)
  BY <1>2 DEF SameInBooks, MoneyRows
<1>6. ledger[t].amount > 0 =>
         ledger[t].amount = money[i].amount /\ ledger[t].target = i /\ ledger[t].parties
  BY <1>2 DEF Books, EntriesOK, TransferOK
<1>7. \A v \in Procs : WorkGoesOn(v)
  BY <1>1, NextJobGoesOn
<1> HIDE DEF i, t, intended, late
<1>8. \A j \in Tips : GoesOn(j, money'[j])
  <2>1. CASE ledger[t].amount > 0 /\ SettleByTransaction(i, t, ledger[t].test)
    BY <1>2, <1>3, <1>6, <2>1, SettleByTransactionGoesOn
  <2>2. CASE FailPayment(i)
    BY <1>2, <2>2, FailPaymentGoesOn
  <2>3. CASE \/ money' = money \/ money' = [money EXCEPT ![i] = intended]
             \/ money' = [money EXCEPT ![i] = late]
    <3>1. \A j \in Tips : money'[j] = money[j] \/ (j = i /\ money'[j] \in {intended, late})
      BY <1>2, <2>3
    <3>2. \A j \in Tips : SameInBooks(money[j], money'[j])
      BY <1>5, <3>1 DEF SameInBooks
    <3>3. QED
      BY <3>2, SameGoesOn
  <2>4. QED
    BY <1>4, <2>1, <2>2, <2>3
<1>9. QED
  BY <1>1, <1>7, <1>8, RowsKeepBooks

\* A process that dies leaves the books as they were.
LEMMA CrashBooks ==
    ASSUME IInv, Books, NEW w \in Procs, Crash(w)
    PROVE  Books'
<1>1. \A v \in Procs : work'[v] = IF v = w THEN Idle ELSE work[v]
  BY DEF Crash, IInv, TypeOK
<1>2. \A v \in Procs : WorkGoesOn(v)
  BY <1>1 DEF WorkGoesOn, Idle
<1>3. QED
  BY <1>2, IgnoredGoesOn, RowsKeepBooks DEF Crash, rows

\* A donation that names and matches interaction i is the transfer asked for i, if nobody else
\* starts that transfer: then i is paid by it or by nothing yet.
LEMMA MatchedTransfer ==
    ASSUME IInv, Books, ~SameTransfers, NEW t \in MoneyTxns, NEW i \in Tips,
           ledger[t].amount > 0, ledger[t].target = i, Matches(t, i), IsPaid(money[i])
    PROVE  money[i].txn = t
<1>1. ASSUME NEW u \in MoneyTxns, ledger[u].amount > 0, ledger[u].target = i, Matches(u, i)
      PROVE  u = TransferTxn(i) /\ Requested(money[i])
  <2>1. CASE u \in {TransferTxn(j) : j \in Tips}
    <3>1. PICK j \in Tips : u = TransferTxn(j)
      BY <2>1
    <3>2. ledger[u].target = j /\ Requested(money[j])
      BY <1>1, <3>1 DEF Books, EntriesOK, TransferOK
    <3>3. QED
      BY <1>1, <3>1, <3>2
  <2>2. CASE u \in {DonationTxn(d) : d \in Donations}
    BY <1>1, <2>2 DEF Books, EntriesOK, DonationOK, Matches
  <2>3. QED
    BY <2>1, <2>2 DEF MoneyTxns
<1>2. t = TransferTxn(i) /\ Requested(money[i])
  BY <1>1
<1>3. RowBacked(i, money[i]) /\ ViaBilling(money[i]) /\ money[i].origin = "tips"
  BY <1>2 DEF Books, BackedOK, Requested, ViaBilling
<1> DEFINE u == money[i].txn
<1>4. u \in MoneyTxns /\ ledger[u].amount > 0 /\ ledger[u].target = i /\ Matches(u, i)
  BY <1>3 DEF RowBacked, Matches
<1>5. u = TransferTxn(i)
  BY <1>1, <1>4
<1>6. QED
  BY <1>2, <1>5

\* A settled donation is on a row once it was applied.
LEMMA DonationBooks ==
    ASSUME IInv, Books, NEW e \in bus, OnDonation(e)
    PROVE  Books'
<1> DEFINE t == e.txn
           i == ledger[t].target
           Row(k) == [NoMoney EXCEPT !.kind = k, !.origin = "billing", !.funding = "provider",
                                     !.amount = ledger[t].amount, !.test = ledger[t].test,
                                     !.txn = t]
<1>1. /\ t \in MoneyTxns /\ e.what = "settled" /\ inbox' = inbox \cup {e}
      /\ UNCHANGED <<work, ledger, bus>>
  <2>1. t \in MoneyTxns /\ e.what = "settled" /\ Receive(e)
    BY DEF OnDonation
  <2>2. QED
    BY <2>1 DEF Receive
<1>2. t \in TxnIds /\ t # NoTxn /\ ledger[t] \in Entries
  BY <1>1, TxnTypes DEF IInv, TypeOK
<1>3. i \in Tips \cup {NoTip} /\ ledger[t].test \in BOOLEAN /\ ledger[t].amount \in Nat
  BY <1>2 DEF Entries
<1>4. ledger[t].amount > 0
  BY <1>1 DEF Books, BusOK, AnnouncedOK
<1>5. \/ SettledBy(t) # {} /\ UNCHANGED rows
      \/ i # NoTip /\ Matches(t, i) /\ SettleByTransaction(i, t, ledger[t].test)
      \/ \E j \in Tips, k \in Kinds : Fresh(j) /\ Settle(j, Row(k))
  <2>1. CASE SettledBy(t) # {}
    BY <2>1 DEF OnDonation
  <2>2. CASE SettledBy(t) = {} /\ i # NoTip /\ Matches(t, i)
    BY <2>2 DEF OnDonation
  <2>3. CASE SettledBy(t) = {} /\ ~(i # NoTip /\ Matches(t, i))
    <3>1. \E j \in Tips, k \in {"tip", "media_request"} \cap Kinds :
             Fresh(j) /\ Settle(j, Row(k))
      BY <2>3 DEF OnDonation
    <3>2. QED
      BY <3>1
  <2>4. QED
    BY <2>1, <2>2, <2>3
<1>6. \A k \in Kinds : /\ Row(k) \in MoneyRows /\ Row(k).reversed = 0 /\ Row(k).refunds = {}
                       /\ Row(k).txn = t /\ Row(k).origin = "billing"
                       /\ Row(k).amount = ledger[t].amount
  <2>1. \A k \in Kinds : Row(k) \in MoneyRows
    BY <1>2, <1>3, ConstantsOK DEF NoMoney, MoneyRows, PaymentStates
  <2>2. \A k \in Kinds : /\ Row(k).reversed = 0 /\ Row(k).refunds = {} /\ Row(k).txn = t
                         /\ Row(k).origin = "billing" /\ Row(k).amount = ledger[t].amount
    BY DEF NoMoney
  <2>3. QED
    BY <2>1, <2>2
<1>7. ledger[t].target = i
  OBVIOUS
<1> HIDE DEF i, t, Row
<1>8. CASE SettledBy(t) # {} /\ UNCHANGED rows
  <2>1. \E j \in Tips : money'[j].txn = t
    BY <1>8 DEF SettledBy, rows
  <2>2. QED
    BY <1>1, <1>8, <2>1, IgnoredGoesOn, NoWorkGoesOn, RowsKeepBooks DEF Read, t
<1>9. CASE i # NoTip /\ Matches(t, i) /\ SettleByTransaction(i, t, ledger[t].test)
  <2>1. i \in Tips /\ ledger[t].amount = money[i].amount /\ ledger[t].parties
    BY <1>3, <1>9 DEF Matches
  <2>2. /\ \A j \in Tips : GoesOn(j, money'[j])
        /\ \/ money'[i].txn = t
           \/ IsPaid(money[i])
           \/ \E j \in Tips : money[j].txn = t /\ money' = money
    BY <1>1, <1>3, <1>4, <1>7, <1>9, <2>1, SettleByTransactionGoesOn
  <2>3. ~SameTransfers /\ IsPaid(money[i]) => money[i].txn = t
    BY <1>1, <1>4, <1>7, <1>9, <2>1, MatchedTransfer
  <2>4. money[i].txn = t => money'[i].txn = t
    BY <1>2, <2>1, <2>2 DEF GoesOn, CountsDown
  <2>5. ~SameTransfers => \E j \in Tips : money'[j].txn = t
    BY <2>1, <2>2, <2>3, <2>4
  <2>6. QED
    BY <1>1, <2>2, <2>5, NoWorkGoesOn, RowsKeepBooks DEF Read, t
<1>10. ASSUME NEW j \in Tips, NEW k \in Kinds, Fresh(j), Settle(j, Row(k))
       PROVE  Books'
  <2>1. ~IsPaid(money[j]) /\ KeepsRequest(money[j], Row(k))
    BY <1>10 DEF Fresh, IsPaid, KeepsRequest
  <2>2. RowBacked(j, SettledMoney(Row(k)))
    <3>1. /\ SettledMoney(Row(k)).txn = t /\ SettledMoney(Row(k)).refunds = {}
          /\ SettledMoney(Row(k)).amount = ledger[t].amount
          /\ SettledMoney(Row(k)).origin = "billing"
      BY <1>6 DEF SettledMoney, MoneyRows
    <3>2. QED
      BY <1>1, <1>2, <1>4, <3>1 DEF RowBacked
  <2>3. money'[j].txn = t /\ \A l \in Tips : GoesOn(l, money'[l])
    BY <1>2, <1>6, <1>10, <2>1, <2>2, SettleGoesOn
  <2>4. QED
    BY <1>1, <2>3, NoWorkGoesOn, RowsKeepBooks DEF Read, t
<1>11. QED
  BY <1>5, <1>8, <1>9, <1>10

\* A settled purchase is nothing to the books of the transfers.
LEMMA PurchaseBooks ==
    ASSUME IInv, Books, NEW e \in bus, OnPurchase(e)
    PROVE  Books'
<1> DEFINE i == ledger[e.txn].target
           m == [money[i] EXCEPT !.fundingTxn = e.txn, !.test = @ \/ ledger[e.txn].test,
                                 !.due = money[i].payment = "pending", !.waiting = FALSE]
<1>1. /\ e.txn \notin MoneyTxns /\ inbox' = inbox \cup {e} /\ UNCHANGED <<work, ledger, bus>>
      /\ money' = money \/ money' = [money EXCEPT ![i] = m]
  <2>1. /\ e.txn \notin MoneyTxns /\ Receive(e)
        /\ money' = money \/ money' = [money EXCEPT ![i] = m]
    BY DEF OnPurchase
  <2>2. QED
    BY <2>1 DEF Receive
<1>2. money \in [Tips -> MoneyRows]
  BY DEF IInv, TypeOK
<1>3. i \in Tips => SameInBooks(money[i], m)
  BY <1>2 DEF SameInBooks, MoneyRows
<1> HIDE DEF i, m
<1>4. \A j \in Tips : SameInBooks(money[j], money'[j])
  <2>1. \A j \in Tips : money'[j] = money[j] \/ (j = i /\ money'[j] = m)
    BY <1>1, <1>2
  <2>2. QED
    BY <1>3, <2>1 DEF SameInBooks
<1>5. QED
  BY <1>1, <1>4, SameGoesOn, NoWorkGoesOn, RowsKeepBooks

\* A reversal counts down the row of its transaction, which is there if Events keeps the
\* order of what concerns one transaction.
LEMMA ReversedBooks ==
    ASSUME IInv, Books, NEW e \in bus, OnReversed(e)
    PROVE  Books'
<1> DEFINE t == e.txn
<1>1. e.what = "reversed" /\ inbox' = inbox \cup {e} /\ UNCHANGED <<work, ledger, bus>>
  BY DEF OnReversed, Receive
<1>2. t \in TxnIds /\ e.part \in 1..ledger[t].refunds
  BY <1>1 DEF IInv, TypeOK, Events, Books, BusOK, AnnouncedOK
<1>3. ASSUME NEW i \in SettledBy(t), e.part \notin money[i].refunds,
             Put(i, ReversedMoney(money[i], e.part, e.bits),
                    ReversedShow(ReversedMoney(money[i], e.part, e.bits), show[i],
                                 Taken(money[i], e.bits)))
      PROVE  (\A j \in Tips : GoesOn(j, money'[j])) /\ Read(e)'
  <2> DEFINE n == ReversedMoney(money[i], e.part, e.bits)
             s == ReversedShow(n, show[i], Taken(money[i], e.bits))
  <2>1. i \in Tips /\ money[i].txn = t /\ money[i] \in MoneyRows /\ t # NoTxn
    BY <1>2, TxnTypes DEF SettledBy, IInv, TypeOK
  <2>2. IsPaid(money[i]) /\ RowBacked(i, money[i])
    BY <2>1 DEF IInv, RowsOK, RowOK, UnpaidOK, Books, BackedOK
  <2>3. /\ n.payment = "reversed" /\ n.txn = t /\ n.origin = money[i].origin
        /\ n.funding = money[i].funding /\ n.amount = money[i].amount
        /\ n.refunds = money[i].refunds \cup {e.part}
        /\ n.reversed = money[i].reversed + Taken(money[i], e.bits)
    BY <2>1 DEF ReversedMoney, MoneyRows
  <2>4. Put(i, n, s)
    BY <1>3
  <2> HIDE DEF n, s
  <2>5. GoesOn(i, n)
    <3>1. KeepsRequest(money[i], n)
      BY <2>3 DEF KeepsRequest
    <3>2. RowBacked(i, n)
      BY <1>2, <2>1, <2>2, <2>3 DEF RowBacked
    <3>3. CountsDown(money[i], n)
      BY <1>1, <1>3, <2>1, <2>3 DEF CountsDown
    <3>4. QED
      BY <2>3, <3>1, <3>2, <3>3 DEF GoesOn
  <2>6. money'[i] = n /\ \A j \in Tips : GoesOn(j, money'[j])
    BY <2>1, <2>4, <2>5, PutGoesOn
  <2>7. Read(e)'
    BY <2>1, <2>3, <2>6 DEF Read
  <2>8. QED
    BY <2>6, <2>7
<1>4. ASSUME InOrder, ~SameTransfers, t \in MoneyTxns
      PROVE  SettledBy(t) # {}
  <2>1. 0 \in 0..e.part - 1
    BY <1>2 DEF IInv, TypeOK, Entries
  <2>2. PICK f \in inbox : f.txn = t
    BY <1>4, <2>1 DEF OnReversed, Receive
  <2>3. QED
    BY <1>4, <2>2 DEF Books, ReadOK, Read, SettledBy
<1>5. \/ \E i \in SettledBy(t) : e.part \in money[i].refunds /\ UNCHANGED rows
      \/ \E i \in SettledBy(t) :
            /\ e.part \notin money[i].refunds
            /\ Put(i, ReversedMoney(money[i], e.part, e.bits),
                      ReversedShow(ReversedMoney(money[i], e.part, e.bits), show[i],
                                   Taken(money[i], e.bits)))
      \/ SettledBy(t) = {} /\ UNCHANGED rows
      \/ SettledBy(t) = {} /\ \E i \in Tips : FailPayment(i)
  BY DEF OnReversed
<1>6. /\ \A j \in Tips : GoesOn(j, money'[j])
      /\ Read(e)' \/ SettledBy(t) = {}
  <2>1. ASSUME NEW i \in SettledBy(t), e.part \in money[i].refunds, UNCHANGED rows
        PROVE  Read(e)'
    BY <2>1 DEF SettledBy, Read, rows
  <2>2. QED
    BY <1>3, <1>5, <2>1, IgnoredGoesOn, FailPaymentGoesOn
<1>7. InOrder /\ ~SameTransfers /\ e.txn \in MoneyTxns => Read(e)'
  BY <1>4, <1>6
<1>8. QED
  BY <1>1, <1>6, <1>7, NoWorkGoesOn, RowsKeepBooks

\* A row settled outside Billing: by a receipt of the creator's own provider, or a simulation.
LEMMA OutsideGoesOn ==
    ASSUME IInv, Books, NEW i \in Tips, Fresh(i), NEW m \in MoneyRows, m.txn = NoTxn,
           m.reversed = 0, m.refunds = {}, ~ViaBilling(m), Settle(i, m)
    PROVE  \A j \in Tips : GoesOn(j, money'[j])
<1>1. ~IsPaid(money[i]) /\ KeepsRequest(money[i], m)
  BY DEF Fresh, IsPaid, KeepsRequest
<1>2. /\ SettledMoney(m).txn = NoTxn /\ SettledMoney(m).refunds = {}
      /\ SettledMoney(m).funding = m.funding
  BY DEF SettledMoney, MoneyRows
<1>3. RowBacked(i, SettledMoney(m))
  BY <1>2 DEF RowBacked, ViaBilling
<1>4. QED
  BY <1>1, <1>3, SettleGoesOn

\* Receipts and simulations claim nothing of Billing's books.
LEMMA RecordingBooks ==
    ASSUME IInv, Books, Recording \/ \E e \in bus : OnExternal(e)
    PROVE  Books'
<1>1. ASSUME NEW i \in Tips, NEW r \in Receipts, NEW a \in Amounts, NEW test \in TestFlags,
             NEW origin \in {"tips", "external", "billing-external"},
             Fresh(i), Settle(i, ExternalRow(r, a, test, origin))
      PROVE  \A j \in Tips : GoesOn(j, money'[j])
  <2> DEFINE m == ExternalRow(r, a, test, origin)
  <2>1. m \in MoneyRows /\ m.reversed = 0
    BY ExternalRowTypes
  <2>2. m.txn = NoTxn /\ m.refunds = {} /\ m.funding = "external"
    BY DEF ExternalRow, NoMoney
  <2>3. Settle(i, m)
    BY <1>1
  <2> HIDE DEF m
  <2>4. QED
    BY <1>1, <2>1, <2>2, <2>3, OutsideGoesOn DEF ViaBilling
<1>2. ASSUME NEW e \in bus, OnExternal(e)
      PROVE  Books'
  <2>1. e.ref \in Receipts /\ e.txn = NoTxn
    BY <1>2 DEF OnExternal, IInv, TypeOK, Events
  <2>2. inbox' = inbox \cup {e} /\ UNCHANGED <<work, ledger, bus>>
    BY <1>2 DEF OnExternal, Receive
  <2>3. \/ UNCHANGED rows
        \/ \E i \in Tips, a \in Amounts, test \in TestFlags :
              Fresh(i) /\ Settle(i, ExternalRow(e.ref, a, test, "billing-external"))
    BY <1>2 DEF OnExternal
  <2>4. \A j \in Tips : GoesOn(j, money'[j])
    BY <1>1, <2>1, <2>3, IgnoredGoesOn
  <2>5. e.txn \notin MoneyTxns
    BY <2>1, TxnTypes
  <2>6. QED
    BY <2>2, <2>4, <2>5, NoWorkGoesOn, RowsKeepBooks
<1>3. ASSUME NEW i \in Tips, NEW r \in Receipts, NEW a \in Amounts, NEW test \in TestFlags,
             NEW announce \in BOOLEAN, RecordExternal(i, r, a, test, announce)
      PROVE  Books'
  <2> DEFINE origin == IF announce THEN "tips" ELSE "external"
  <2>1. origin \in {"tips", "external", "billing-external"}
    OBVIOUS
  <2>2. /\ Fresh(i) /\ Settle(i, ExternalRow(r, a, test, origin))
        /\ UNCHANGED <<work, ledger, bus, inbox>>
    BY <1>3 DEF RecordExternal
  <2> HIDE DEF origin
  <2>3. \A j \in Tips : GoesOn(j, money'[j])
    BY <1>1, <2>1, <2>2
  <2>4. QED
    BY <2>2, <2>3, NoWorkGoesOn, RowsKeepBooks
<1>4. ASSUME NEW i \in Tips, NEW k \in Kinds, NEW a \in Amounts, Simulate(i, k, a)
      PROVE  Books'
  <2> DEFINE m == [NoMoney EXCEPT !.kind = k, !.amount = a, !.test = TRUE]
  <2>1. /\ m \in MoneyRows /\ m.reversed = 0 /\ m.txn = NoTxn /\ m.refunds = {}
        /\ m.funding = "none"
    BY ConstantsOK DEF NoMoney, MoneyRows, PaymentStates
  <2>2. Fresh(i) /\ Settle(i, m) /\ UNCHANGED <<work, ledger, bus, inbox>>
    BY <1>4 DEF Simulate
  <2> HIDE DEF m
  <2>3. \A j \in Tips : GoesOn(j, money'[j])
    BY <2>1, <2>2, OutsideGoesOn DEF ViaBilling
  <2>4. QED
    BY <2>2, <2>3, NoWorkGoesOn, RowsKeepBooks
<1>5. QED
  BY <1>2, <1>3, <1>4 DEF Recording

\* Moderators and the effects worker touch no payment.
LEMMA ShowingBooks ==
    ASSUME IInv, Books, NEW i \in Tips, Showing(i)
    PROVE  Books'
<1>1. UNCHANGED <<money, work, ledger, bus, inbox>>
  BY DEF Showing, Hide, Restore, MarkDone, MarkFailed, Show
<1>2. \A j \in Tips : GoesOn(j, money'[j])
  BY <1>1, SameGoesOn DEF SameInBooks
<1>3. QED
  BY <1>1, <1>2, NoWorkGoesOn, RowsKeepBooks

-----------------------------------------------------------------------------
(* Billing's steps *)

\* A process that hears from Billing works on what it did; that a transfer was made it hears
\* only once Billing has it.
LEMMA AnsweredGoesOn ==
    ASSUME IInv, NEW w \in Procs, NEW answer, work[w].pc = "calling", Answered(w, answer),
           work[w].op = "transfer" /\ answer = "ok" =>
               ledger'[TransferTxn(work[w].tip)].amount > 0
    PROVE  \A v \in Procs : WorkGoesOn(v)
<1>1. work \in [Procs -> Jobs]
  BY DEF IInv, TypeOK
<1>2. work' = [work EXCEPT ![w] = [work[w] EXCEPT !.pc = "answered", !.answer = answer]]
  BY <1>1 DEF Answered
<1>3. \A v \in Procs \ {w} : work'[v] = work[v]
  BY <1>1, <1>2
<1>4. /\ work'[w].pc = "answered" /\ work'[w].answer = answer /\ work'[w].op = work[w].op
      /\ work'[w].tip = work[w].tip /\ work'[w].batch = work[w].batch
  BY <1>1, <1>2 DEF Jobs
<1>5. QED
  BY <1>3, <1>4 DEF WorkGoesOn

\* What was measured lasts while the reversals in the books, and on the bus, are the same.
LEMMA ClawsKept ==
    ASSUME ClawsOK, UNCHANGED money,
           \A t \in MoneyTxns : /\ ledger'[t].refunds = ledger[t].refunds
                                /\ ledger'[t].clawed = ledger[t].clawed,
           \A e \in bus' : e.what = "reversed" =>
              \E d \in bus : /\ d.what = "reversed" /\ d.txn = e.txn
                             /\ d.part = e.part /\ d.bits = e.bits
    PROVE  ClawsOK'
<1> SUFFICES ASSUME NEW t \in MoneyTxns
             PROVE  \E f : Measures(f, t)'
  BY DEF ClawsOK
<1>1. PICK f : Measures(f, t)
  BY DEF ClawsOK
<1>2. \A e \in bus' : e.what = "reversed" /\ e.txn = t => f[{e.part}] = e.bits
  BY <1>1 DEF Measures
<1>3. Measures(f, t)'
  BY <1>1, <1>2 DEF Measures
<1>4. QED
  BY <1>3

\* What Billing records is a new entry, announced, with nothing taken back yet.
LEMMA RecordedEntry ==
    ASSUME NEW t, NEW amount, NEW target, NEW parties, NEW test,
           Record(t, amount, target, parties, test)
    PROVE  \E entry : /\ ledger' = [ledger EXCEPT ![t] = entry]
                      /\ bus' = bus \cup {SettledEvent(t)}
                      /\ entry.amount = amount /\ entry.target = target
                      /\ entry.parties = parties
                      /\ entry.clawed = 0 /\ entry.refunds = 0
<1> DEFINE entry == [NoEntry EXCEPT !.amount = amount, !.target = target,
                                    !.parties = parties, !.test = test]
<1>1. /\ entry.amount = amount /\ entry.target = target /\ entry.parties = parties
      /\ entry.clawed = 0 /\ entry.refunds = 0
  BY DEF NoEntry
<1>2. ledger' = [ledger EXCEPT ![t] = entry] /\ bus' = bus \cup {SettledEvent(t)}
  BY DEF Record
<1> HIDE DEF entry
<1>3. QED
  BY <1>1, <1>2

\* A transaction Billing records is announced, and nothing of it is taken back yet.
LEMMA RecordBooks ==
    ASSUME IInv, Books, NEW t \in TxnIds, ledger[t].amount = 0, NEW entry,
           ledger' = [ledger EXCEPT ![t] = entry], bus' = bus \cup {SettledEvent(t)},
           UNCHANGED <<money, inbox>>, \A w \in Procs : WorkGoesOn(w),
           entry.clawed = 0, entry.refunds = 0, entry.amount \in Nat,
           t \in MoneyTxns => entry.amount > 0,
           \A i \in Tips : t = TransferTxn(i) =>
              /\ Requested(money[i]) /\ entry.amount = money[i].amount
              /\ entry.target = i /\ entry.parties,
           \A d \in Donations : t = DonationTxn(d) /\ entry.parties =>
              /\ entry.target \in Tips /\ money[entry.target].payment # "absent"
              /\ SameTransfers \/ entry.amount # money[entry.target].amount
    PROVE  Books'
<1>1. ledger \in [TxnIds -> Entries]
  BY DEF IInv, TypeOK
<1>2. PICK new : new = SettledEvent(t)
  OBVIOUS
<1>3. new.what = "settled" /\ new.txn = t /\ new.part = 0
  BY <1>2 DEF SettledEvent
<1>4. bus' = bus \cup {new}
  BY <1>2
<1>5. \A u \in TxnIds : ledger'[u] = IF u = t THEN entry ELSE ledger[u]
  BY <1>1
<1>6. ledger[t].refunds = 0 /\ ledger[t].clawed = 0
  BY <1>1 DEF Books, EntriesOK, EntryOK, Entries
<1>7. \A i \in Tips : KeepsRequest(money[i], money'[i])
  BY DEF KeepsRequest
<1>8. AskedOK'
  BY <1>1, <1>5, <1>7, AskedKept DEF Books, Entries
<1>9. EntriesOK'
  <2>1. \A u \in TxnIds : EntryOK(u)'
    BY <1>5 DEF Books, EntriesOK, EntryOK
  <2>2. \A i \in Tips : TransferOK(i)'
    <3>1. \A i \in Tips : TransferTxn(i) \in TxnIds
      BY TxnTypes
    <3>2. QED
      BY <1>5, <3>1 DEF Books, EntriesOK, TransferOK
  <2>3. \A d \in Donations : DonationOK(d)'
    <3>1. \A d \in Donations : DonationTxn(d) \in TxnIds
      BY TxnTypes
    <3>2. QED
      BY <1>5, <3>1 DEF Books, EntriesOK, DonationOK
  <2>4. QED
    BY <2>1, <2>2, <2>3 DEF EntriesOK
<1>10. BackedOK'
  <2> SUFFICES ASSUME NEW i \in Tips
               PROVE  RowBacked(i, money[i])'
    BY DEF BackedOK
  <2>1. RowBacked(i, money[i])
    BY DEF Books, BackedOK
  <2>2. money[i].txn # NoTxn => money[i].txn \in TxnIds /\ money[i].txn # t
    BY <2>1, TxnTypes DEF RowBacked
  <2>3. money[i].txn # NoTxn => ledger'[money[i].txn] = ledger[money[i].txn]
    BY <1>5, <2>2
  <2>4. QED
    BY <2>1, <2>3 DEF RowBacked
<1>11. BusOK'
  <2>1. \A e \in bus : e.what \in {"settled", "reversed"} => e.txn \in TxnIds
    BY DEF IInv, TypeOK, Events
  <2>2. \A e \in bus : AnnouncedOK(e)'
    <3> SUFFICES ASSUME NEW e \in bus
                 PROVE  AnnouncedOK(e)'
      OBVIOUS
    <3>1. AnnouncedOK(e)
      BY DEF Books, BusOK
    <3>2. CASE e.txn # t
      BY <1>5, <2>1, <3>1, <3>2 DEF AnnouncedOK
    <3>3. CASE e.txn = t
      <4>1. e.what # "reversed"
        BY <1>6, <3>1, <3>3 DEF AnnouncedOK
      <4>2. QED
        BY <1>5, <3>1, <3>3, <4>1 DEF AnnouncedOK
    <3>4. QED
      BY <3>2, <3>3
  <2>3. AnnouncedOK(new)'
    BY <1>3, <1>5 DEF AnnouncedOK
  <2>4. \A u \in TxnIds :
          /\ ledger'[u].amount > 0 => \E e \in bus' : e.what = "settled" /\ e.txn = u
          /\ \A n \in 1..ledger'[u].refunds :
                \E e \in bus' : e.what = "reversed" /\ e.txn = u /\ e.part = n
    <3> SUFFICES ASSUME NEW u \in TxnIds
                 PROVE  /\ ledger'[u].amount > 0 =>
                              \E e \in bus' : e.what = "settled" /\ e.txn = u
                        /\ \A n \in 1..ledger'[u].refunds :
                              \E e \in bus' : e.what = "reversed" /\ e.txn = u /\ e.part = n
      OBVIOUS
    <3>1. CASE u = t
      BY <1>3, <1>4, <1>5, <3>1
    <3>2. CASE u # t
      BY <1>4, <1>5, <3>2 DEF Books, BusOK
    <3>3. QED
      BY <3>1, <3>2
  <2>5. QED
    BY <1>4, <2>2, <2>3, <2>4 DEF BusOK
<1>12. ClawsOK'
  <2>1. \A u \in MoneyTxns : /\ ledger'[u].refunds = ledger[u].refunds
                             /\ ledger'[u].clawed = ledger[u].clawed
    BY <1>5, <1>6, TxnTypes
  <2>2. \A e \in bus' : e.what = "reversed" => e \in bus
    BY <1>3, <1>4
  <2>3. QED
    BY <2>1, <2>2, ClawsKept DEF Books
<1>13. ReadOK'
  BY DEF Books, ReadOK, Read
<1>14. QED
  BY <1>8, <1>9, <1>10, <1>11, <1>12, <1>13 DEF Books

\* g measures one more reversal than f, the one of b bits.
Grown(g, f, n, c, b) ==
    /\ Additive(g, n + 1, c + b)
    /\ g[1..n + 1] = f[1..n] + b
    /\ \A S : S = {n + 1} => g[S] = b
    /\ \A S \in SUBSET (1..n) : g[S] = f[S]

\* One more reversal: it adds its bits to every set of reversals it is in.
LEMMA MeasureGrows ==
    ASSUME NEW n \in Nat, NEW c \in Nat, NEW b \in Nat, NEW f, Additive(f, n, c)
    PROVE  \E g : Grown(g, f, n, c, b)
<1> DEFINE k == n + 1
           g == [S \in SUBSET (1..k) |-> f[S \ {k}] + IF k \in S THEN b ELSE 0]
<1>1. /\ k \in 1..k /\ k \notin 1..n /\ (1..k) \ {k} = 1..n
      /\ \A S \in SUBSET (1..k) : S \ {k} \in SUBSET (1..n)
      /\ \A S \in SUBSET (1..n) : S \in SUBSET (1..k) /\ k \notin S /\ S \ {k} = S
  OBVIOUS
<1>2. \A S \in SUBSET (1..k) : g[S] = f[S \ {k}] + IF k \in S THEN b ELSE 0
  OBVIOUS
<1>3. \A S \in SUBSET (1..n) : f[S] \in 0..c
  BY DEF Additive
<1>4. g \in [SUBSET (1..k) -> 0..c + b]
  <2>1. \A S \in SUBSET (1..k) : f[S \ {k}] + (IF k \in S THEN b ELSE 0) \in 0..c + b
    BY <1>1, <1>3
  <2>2. QED
    BY <2>1
<1> HIDE DEF k, g
<1>5. ASSUME NEW S \in SUBSET (1..k), NEW T \in SUBSET (1..k), S \cap T = {}
      PROVE  g[S \cup T] = g[S] + g[T]
  <2>1. f[(S \ {k}) \cup (T \ {k})] = f[S \ {k}] + f[T \ {k}]
    <3>1. S \ {k} \in SUBSET (1..n) /\ T \ {k} \in SUBSET (1..n) /\ (S \ {k}) \cap (T \ {k}) = {}
      BY <1>1, <1>5
    <3>2. QED
      BY <3>1 DEF Additive
  <2>2. (S \cup T) \ {k} = (S \ {k}) \cup (T \ {k}) /\ S \cup T \in SUBSET (1..k)
    OBVIOUS
  <2>3. f[(S \cup T) \ {k}] = f[S \ {k}] + f[T \ {k}]
    BY <2>1, <2>2
  <2>4. /\ g[S \cup T] = f[(S \cup T) \ {k}] + IF k \in S \cup T THEN b ELSE 0
        /\ g[S] = f[S \ {k}] + IF k \in S THEN b ELSE 0
        /\ g[T] = f[T \ {k}] + IF k \in T THEN b ELSE 0
    BY <1>2, <2>2
  <2>5. f[S \ {k}] \in Nat /\ f[T \ {k}] \in Nat
    BY <1>1, <1>3
  <2>6. CASE k \in S
    <3>1. k \notin T /\ k \in S \cup T
      BY <1>5, <2>6
    <3>2. QED
      BY <2>3, <2>4, <2>5, <2>6, <3>1
  <2>7. CASE k \in T
    <3>1. k \notin S /\ k \in S \cup T
      BY <1>5, <2>7
    <3>2. QED
      BY <2>3, <2>4, <2>5, <2>7, <3>1
  <2>8. CASE k \notin S /\ k \notin T
    BY <2>3, <2>4, <2>5, <2>8
  <2>9. QED
    BY <2>6, <2>7, <2>8
<1>6. g[1..k] = f[1..n] + b
  BY <1>1, <1>2
<1>7. ASSUME NEW S, S = {k}
      PROVE  g[S] = b
  <2>1. S \ {k} = {} /\ k \in S /\ S \in SUBSET (1..k)
    BY <1>1, <1>7
  <2>2. f[S \ {k}] = 0
    BY <2>1, NothingMeasured
  <2>3. g[S] = f[S \ {k}] + b
    BY <1>2, <2>1
  <2>4. QED
    BY <2>2, <2>3
<1>8. \A S \in SUBSET (1..n) : g[S] = f[S]
  BY <1>1, <1>2, <1>3
<1>9. Grown(g, f, n, c, b)
  BY <1>4, <1>5, <1>6, <1>7, <1>8 DEF k, Additive, Grown
<1>10. QED
  BY <1>9

\* A refund or chargeback is announced, and takes back no more than is left.
LEMMA ReverseBooks ==
    ASSUME IInv, Books, NEW t \in TxnIds, NEW bits \in Nat,
           bits \in 0..ledger[t].amount - ledger[t].clawed, Reverse(t, bits)
    PROVE  Books'
<1>1. ledger \in [TxnIds -> Entries] /\ ledger[t] \in Entries
  BY DEF IInv, TypeOK
<1>2. PICK n \in Nat, c \in Nat : n = ledger[t].refunds /\ c = ledger[t].clawed
  BY <1>1 DEF Entries
<1>3. ledger[t].amount \in Nat /\ ledger[t].amount > 0 /\ c + bits <= ledger[t].amount
  BY <1>1, <1>2 DEF Reverse, Entries
<1>4. PICK entry : /\ entry.amount = ledger[t].amount /\ entry.target = ledger[t].target
                   /\ entry.parties = ledger[t].parties
                   /\ entry.clawed = c + bits /\ entry.refunds = n + 1
                   /\ ledger' = [ledger EXCEPT ![t] = entry]
  <2> DEFINE entry == [ledger[t] EXCEPT !.clawed = @ + bits, !.refunds = n + 1]
  <2>1. /\ entry.amount = ledger[t].amount /\ entry.target = ledger[t].target
        /\ entry.parties = ledger[t].parties
        /\ entry.clawed = c + bits /\ entry.refunds = n + 1
    BY <1>1, <1>2 DEF Entries
  <2>2. ledger' = [ledger EXCEPT ![t] = entry]
    BY <1>1, <1>2 DEF Reverse
  <2> HIDE DEF entry
  <2>3. QED
    BY <2>1, <2>2
<1>5. PICK new : /\ new.what = "reversed" /\ new.txn = t /\ new.part = n + 1 /\ new.bits = bits
                 /\ bus' = bus \cup {new} /\ UNCHANGED <<money, work, inbox>>
  <2>1. /\ bus' = bus \cup {ReversedEvent(t, n + 1, bits)} /\ UNCHANGED <<money, work, inbox>>
    BY <1>2 DEF Reverse
  <2>2. QED
    BY <2>1 DEF ReversedEvent
<1>6. \A u \in TxnIds : ledger'[u] = IF u = t THEN entry ELSE ledger[u]
  BY <1>1, <1>4
<1>7. AskedOK'
  <2>1. \A u \in TxnIds : ledger'[u].amount = ledger[u].amount
    BY <1>4, <1>6
  <2>2. QED
    BY <1>5, <2>1, NoWorkGoesOn, AskedKept DEF Books, KeepsRequest
<1>8. EntriesOK'
  <2>1. \A u \in TxnIds : EntryOK(u)'
    BY <1>3, <1>4, <1>6 DEF Books, EntriesOK, EntryOK
  <2>2. \A u \in TxnIds : /\ ledger'[u].amount = ledger[u].amount
                          /\ ledger'[u].target = ledger[u].target
                          /\ ledger'[u].parties = ledger[u].parties
    BY <1>4, <1>6
  <2>3. \A i \in Tips : TransferOK(i)'
    BY <1>5, <2>2, TxnTypes DEF Books, EntriesOK, TransferOK
  <2>4. \A d \in Donations : DonationOK(d)'
    BY <1>5, <2>2, TxnTypes DEF Books, EntriesOK, DonationOK
  <2>5. QED
    BY <2>1, <2>3, <2>4 DEF EntriesOK
<1>9. BackedOK'
  <2> SUFFICES ASSUME NEW i \in Tips
               PROVE  RowBacked(i, money[i])'
    BY DEF BackedOK
  <2>1. RowBacked(i, money[i])
    BY DEF Books, BackedOK
  <2>2. money[i].txn # NoTxn => money[i].txn \in TxnIds
    BY <2>1, TxnTypes DEF RowBacked
  <2>3. CASE money[i].txn # t
    <3>1. money[i].txn # NoTxn => ledger'[money[i].txn] = ledger[money[i].txn]
      BY <1>6, <2>2, <2>3
    <3>2. QED
      BY <1>5, <2>1, <3>1 DEF RowBacked
  <2>4. CASE money[i].txn = t
    <3>1. ledger'[t] = entry
      BY <1>6
    <3>2. t # NoTxn
      BY TxnTypes
    <3>3. money[i].refunds \subseteq 1..n + 1
      BY <1>1, <1>2, <2>1, <2>4, <3>2 DEF RowBacked
    <3>4. QED
      BY <1>4, <1>5, <2>1, <2>4, <3>1, <3>2, <3>3 DEF RowBacked
  <2>5. QED
    BY <2>3, <2>4
<1>10. BusOK'
  <2>1. \A e \in bus : e.what \in {"settled", "reversed"} => e.txn \in TxnIds
    BY DEF IInv, TypeOK, Events
  <2>2. ASSUME NEW e \in bus
        PROVE  AnnouncedOK(e)'
    <3>1. AnnouncedOK(e)
      BY DEF Books, BusOK
    <3>2. CASE e.txn # t
      BY <1>6, <2>1, <3>1, <3>2 DEF AnnouncedOK
    <3>3. CASE e.txn = t
      <4>1. e.what = "reversed" => e.part \in 1..n + 1
        BY <1>1, <1>2, <3>1, <3>3 DEF AnnouncedOK
      <4>2. QED
        BY <1>3, <1>4, <1>6, <3>1, <3>3, <4>1 DEF AnnouncedOK
    <3>4. QED
      BY <3>2, <3>3
  <2>3. AnnouncedOK(new)'
    <3>1. ledger'[new.txn].refunds = n + 1 /\ new.part \in 1..n + 1
      BY <1>4, <1>5, <1>6
    <3>2. QED
      BY <1>5, <3>1 DEF AnnouncedOK
  <2>4. ASSUME NEW u \in TxnIds
        PROVE  /\ ledger'[u].amount > 0 => \E e \in bus' : e.what = "settled" /\ e.txn = u
               /\ \A k \in 1..ledger'[u].refunds :
                     \E e \in bus' : e.what = "reversed" /\ e.txn = u /\ e.part = k
    <3>1. /\ ledger[u].amount > 0 => \E e \in bus : e.what = "settled" /\ e.txn = u
          /\ \A k \in 1..ledger[u].refunds :
                \E e \in bus : e.what = "reversed" /\ e.txn = u /\ e.part = k
      BY DEF Books, BusOK
    <3>2. CASE u = t
      <4>1. \A k \in 1..n + 1 : k \in 1..n \/ k = n + 1
        BY <1>1
      <4>2. QED
        BY <1>3, <1>4, <1>2, <1>5, <1>6, <3>1, <3>2, <4>1
    <3>3. CASE u # t
      BY <1>5, <1>6, <3>1, <3>3
    <3>4. QED
      BY <3>2, <3>3
  <2>5. QED
    BY <1>5, <2>2, <2>3, <2>4 DEF BusOK
<1>11. ClawsOK'
  <2> SUFFICES ASSUME NEW u \in MoneyTxns
               PROVE  \E f : Measures(f, u)'
    BY DEF ClawsOK
  <2>1. PICK f : Measures(f, u)
    BY DEF Books, ClawsOK
  <2>2. u \in TxnIds /\ u # NoTxn
    BY TxnTypes
  <2>3. CASE u # t
    <3>1. Measures(f, u)'
      BY <1>5, <1>6, <2>1, <2>2, <2>3 DEF Measures
    <3>2. QED
      BY <3>1
  <2>4. CASE u = t
    <3>1. Additive(f, n, c) /\ f[1..n] = c
      BY <1>2, <2>1, <2>4 DEF Measures
    <3>2. PICK g : Grown(g, f, n, c, bits)
      BY <3>1, MeasureGrows
    <3>3. ASSUME NEW e \in bus', e.what = "reversed", e.txn = u
          PROVE  g[{e.part}] = e.bits
      <4>1. CASE e = new
        BY <1>5, <3>2, <4>1 DEF Grown
      <4>2. CASE e \in bus
        <5>1. e.part \in 1..n
          BY <1>2, <2>4, <3>3, <4>2 DEF Books, BusOK, AnnouncedOK
        <5>2. f[{e.part}] = e.bits
          BY <2>1, <3>3, <4>2 DEF Measures
        <5>3. {e.part} \in SUBSET (1..n)
          BY <5>1
        <5>4. QED
          BY <3>2, <5>2, <5>3 DEF Grown
      <4>3. QED
        BY <1>5, <4>1, <4>2
    <3>4. ASSUME NEW i \in Tips, money[i].txn = u
          PROVE  money[i].reversed = g[money[i].refunds]
      <4>1. money[i].refunds \in SUBSET (1..n) /\ money[i].reversed = f[money[i].refunds]
        BY <1>2, <2>1, <2>2, <2>4, <3>4 DEF Books, BackedOK, RowBacked, Measures
      <4>2. QED
        BY <3>2, <4>1 DEF Grown
    <3>5. ledger'[u].refunds = n + 1 /\ ledger'[u].clawed = c + bits
      BY <1>4, <1>6, <2>4
    <3>6. Measures(g, u)'
      BY <1>5, <3>1, <3>2, <3>3, <3>4, <3>5 DEF Measures, Grown
    <3>7. QED
      BY <3>6
  <2>5. QED
    BY <2>3, <2>4
<1>12. ReadOK'
  BY <1>5 DEF Books, ReadOK, Read
<1>13. QED
  BY <1>7, <1>8, <1>9, <1>10, <1>11, <1>12 DEF Books

\* A receipt announced, or an event published again, is nothing new to the books.
LEMMA AnnounceBooks ==
    ASSUME IInv, Books, UNCHANGED <<money, work, ledger, inbox>>, bus \subseteq bus',
           \A e \in bus' \ bus :
              \/ e.what = "external"
              \/ \E d \in bus : /\ d.what = e.what /\ d.txn = e.txn
                                /\ d.part = e.part /\ d.bits = e.bits
    PROVE  Books'
<1>1. AskedOK' /\ EntriesOK' /\ BackedOK' /\ ReadOK'
  <2>1. AskedOK'
    BY DEF Books, AskedOK
  <2>2. EntriesOK'
    BY DEF Books, EntriesOK, EntryOK, TransferOK, DonationOK
  <2>3. BackedOK' /\ ReadOK'
    BY DEF Books, BackedOK, RowBacked, ReadOK, Read
  <2>4. QED
    BY <2>1, <2>2, <2>3
<1>2. BusOK'
  <2>1. \A e \in bus' : AnnouncedOK(e)'
    BY DEF Books, BusOK, AnnouncedOK
  <2>2. QED
    BY <2>1 DEF Books, BusOK
<1>3. ClawsOK'
  BY ClawsKept DEF Books
<1>4. QED
  BY <1>1, <1>2, <1>3 DEF Books

\* What Billing does with a call keeps the books.
LEMMA BillingBooks ==
    ASSUME IInv, Books, NEW w \in Procs, Billing(w)
    PROVE  Books'
<1> DEFINE i == work[w].tip
           t == TransferTxn(i)
<1>1. work[w].pc = "calling" /\ UNCHANGED <<money, show, inbox>>
  BY DEF Billing, BillingTransfers, BillingCreatesIntent, BillingRefuses, BillingUnreachable
<1>2. i \in Tips /\ t \in TxnIds /\ money[i] \in MoneyRows /\ ledger[t] \in Entries
  BY <1>1, TxnTypes DEF IInv, TypeOK, CallsOK
<1>3. Requested(money[i])
  BY <1>1 DEF Books, AskedOK
<1>4. CASE BillingTransfers(w)
  <2>1. PICK answer : Answered(w, answer)
    BY <1>4 DEF BillingTransfers
  <2>2. CASE ledger[t].amount = 0
    <3>1. Record(t, money[i].amount, i, TRUE, money[i].test)
      BY <1>4, <2>2 DEF BillingTransfers
    <3>2. money[i].amount \in Nat /\ money[i].amount > 0
      BY <1>2, <1>3 DEF MoneyRows, Requested
    <3>3. PICK entry : /\ ledger' = [ledger EXCEPT ![t] = entry]
                       /\ entry.amount = money[i].amount /\ entry.target = i /\ entry.parties
                       /\ entry.clawed = 0 /\ entry.refunds = 0
      <4>1. PICK named \in BOOLEAN : named
        OBVIOUS
      <4>2. Record(t, money[i].amount, i, named, money[i].test)
        <5>1. named = TRUE
          BY <4>1
        <5>2. QED
          BY <3>1, <5>1
      <4>3. PICK entry : /\ ledger' = [ledger EXCEPT ![t] = entry]
                         /\ entry.amount = money[i].amount /\ entry.target = i
                         /\ entry.parties = named
                         /\ entry.clawed = 0 /\ entry.refunds = 0
        BY <4>2, RecordedEntry
      <4>4. entry.parties
        BY <4>1, <4>3
      <4>5. QED
        BY <4>3, <4>4
    <3>4. ledger'[t].amount > 0 /\ bus' = bus \cup {SettledEvent(t)}
      BY <1>2, <3>1, <3>2, <3>3 DEF Record, IInv, TypeOK
    <3>5. \A v \in Procs : WorkGoesOn(v)
      BY <1>1, <2>1, <3>4, AnsweredGoesOn
    <3>6. \A j \in Tips : t = TransferTxn(j) => j = i
      BY DEF TransferTxn
    <3>7. \A d \in Donations : t # DonationTxn(d)
      BY DEF TransferTxn, DonationTxn
    <3> HIDE DEF i, t
    <3>8. QED
      BY <1>1, <1>2, <1>3, <2>2, <3>2, <3>3, <3>4, <3>5, <3>6, <3>7, RecordBooks
  <2>3. CASE ledger[t].amount # 0
    <3>1. UNCHANGED <<ledger, bus>>
      BY <1>4, <2>3 DEF BillingTransfers
    <3>2. ledger'[t].amount > 0
      BY <1>2, <2>3, <3>1 DEF Entries
    <3>3. \A v \in Procs : WorkGoesOn(v)
      BY <1>1, <2>1, <3>2, AnsweredGoesOn
    <3>4. QED
      BY <1>1, <3>1, <3>3, IgnoredGoesOn, RowsKeepBooks DEF rows
  <2>4. QED
    BY <2>2, <2>3
<1>5. CASE BillingCreatesIntent(w) \/ BillingRefuses(w) \/ BillingUnreachable(w)
  <2>1. UNCHANGED <<ledger, bus>>
    BY <1>5 DEF BillingCreatesIntent, BillingRefuses, BillingUnreachable
  <2>2. \E answer \in {"ok", "refused", "lost"} :
           Answered(w, answer) /\ (answer = "ok" => work[w].op = "intent")
    BY <1>5 DEF BillingCreatesIntent, BillingRefuses, BillingUnreachable
  <2>3. \A v \in Procs : WorkGoesOn(v)
    BY <1>1, <2>2, AnsweredGoesOn
  <2>4. QED
    BY <1>1, <2>1, <2>3, IgnoredGoesOn, RowsKeepBooks DEF rows
<1>6. QED
  BY <1>4, <1>5 DEF Billing

\* What Billing does on its own (payments, donations, refunds, receipts) keeps the books.
LEMMA BillingMovesBooks ==
    ASSUME IInv, Books, BillingMoves
    PROVE  Books'
<1>1. ASSUME NEW i \in Tips, NEW test \in TestFlags, PayCheckout(i, test)
      PROVE  Books'
  <2> DEFINE t == PurchaseTxn(i)
  <2>1. t \in TxnIds /\ money[i].amount \in Nat
    BY TxnTypes DEF IInv, TypeOK, MoneyRows
  <2>2. /\ t \notin MoneyTxns
        /\ \A j \in Tips : t # TransferTxn(j)
        /\ \A d \in Donations : t # DonationTxn(d)
    BY DEF MoneyTxns, PurchaseTxn, TransferTxn, DonationTxn
  <2>3. /\ ledger[t].amount = 0 /\ Record(t, money[i].amount, i, TRUE, test)
        /\ UNCHANGED <<money, work, inbox>>
    BY <1>1 DEF PayCheckout
  <2>4. PICK entry : /\ ledger' = [ledger EXCEPT ![t] = entry]
                     /\ bus' = bus \cup {SettledEvent(t)}
                     /\ entry.amount = money[i].amount
                     /\ entry.clawed = 0 /\ entry.refunds = 0
    <3>1. PICK named \in BOOLEAN : named
      OBVIOUS
    <3>2. Record(t, money[i].amount, i, named, test)
      <4>1. named = TRUE
        BY <3>1
      <4>2. QED
        BY <2>3, <4>1
    <3>3. QED
      BY <3>2, RecordedEntry
  <2> HIDE DEF t
  <2>5. QED
    BY <2>1, <2>2, <2>3, <2>4, NoWorkGoesOn, RecordBooks
<1>2. ASSUME NEW d \in Donations, NEW a \in Amounts, NEW target \in Tips \cup {NoTip},
             NEW parties \in BOOLEAN, NEW test \in TestFlags,
             Donate(d, a, target, parties, test)
      PROVE  Books'
  <2> DEFINE t == DonationTxn(d)
  <2>1. t \in TxnIds /\ a \in Nat /\ a > 0
    BY TxnTypes, ConstantsOK
  <2>2. \A j \in Tips : t # TransferTxn(j)
    BY DEF TransferTxn, DonationTxn
  <2>3. /\ ledger[t].amount = 0 /\ Record(t, a, target, parties, test)
        /\ UNCHANGED <<money, work, inbox>>
    BY <1>2 DEF Donate
  <2>4. PICK entry : /\ ledger' = [ledger EXCEPT ![t] = entry]
                     /\ bus' = bus \cup {SettledEvent(t)}
                     /\ entry.amount = a /\ entry.target = target /\ entry.parties = parties
                     /\ entry.clawed = 0 /\ entry.refunds = 0
    BY <2>3, RecordedEntry
  <2>5. entry.parties => /\ entry.target \in Tips /\ money[entry.target].payment # "absent"
                         /\ SameTransfers \/ entry.amount # money[entry.target].amount
    BY <1>2, <2>4 DEF Donate, Fresh
  <2> HIDE DEF t
  <2>6. QED
    BY <2>1, <2>2, <2>3, <2>4, <2>5, NoWorkGoesOn, RecordBooks
<1>3. ASSUME NEW r \in Receipts, AnnounceReceipt(r)
      PROVE  Books'
  <2>1. bus' = bus \cup {ReceiptEvent(r)} /\ ReceiptEvent(r).what = "external"
    BY <1>3 DEF AnnounceReceipt, ReceiptEvent
  <2>2. UNCHANGED <<money, work, ledger, inbox>>
    BY <1>3 DEF AnnounceReceipt
  <2>3. QED
    BY <2>1, <2>2, AnnounceBooks
<1>4. ASSUME NEW e \in bus, Republish(e)
      PROVE  Books'
  <2> DEFINE again == [e EXCEPT !.copy = 2]
  <2>1. e \in Events
    BY DEF IInv, TypeOK
  <2>2. again.what = e.what /\ again.txn = e.txn /\ again.part = e.part /\ again.bits = e.bits
    BY <2>1 DEF Events
  <2>3. bus' = bus \cup {again} /\ UNCHANGED <<money, work, ledger, inbox>>
    BY <1>4 DEF Republish
  <2> HIDE DEF again
  <2>4. QED
    BY <2>2, <2>3, AnnounceBooks
<1>5. QED
  BY <1>1, <1>2, <1>3, <1>4, ReverseBooks DEF BillingMoves

-----------------------------------------------------------------------------
(* The rows and Billing's books *)

\* There is nothing in the books before the first request.
LEMMA InitBooks == Init => Books
<1> SUFFICES ASSUME Init
             PROVE  Books
  OBVIOUS
<1>1. /\ \A i \in Tips : money[i] = NoMoney
      /\ \A w \in Procs : work[w] = Idle
      /\ \A t \in TxnIds : ledger[t] = NoEntry
      /\ bus = {} /\ inbox = {}
  BY DEF Init
<1>2. \A t \in TxnIds : /\ ledger[t].amount = 0 /\ ledger[t].clawed = 0
                        /\ ledger[t].refunds = 0 /\ ~ledger[t].parties
  BY <1>1 DEF NoEntry
<1>3. \A i \in Tips : /\ money[i].payment = "absent" /\ money[i].txn = NoTxn
                      /\ money[i].refunds = {}
  BY <1>1 DEF NoMoney
<1>4. AskedOK
  BY <1>1, <1>3 DEF AskedOK, Idle
<1>5. EntriesOK
  BY <1>2, TxnTypes DEF EntriesOK, EntryOK, TransferOK, DonationOK
<1>6. BackedOK
  BY <1>3 DEF BackedOK, RowBacked, IsPaid
<1>7. BusOK /\ ReadOK
  BY <1>1, <1>2 DEF BusOK, ReadOK
<1>8. ClawsOK
  <2> SUFFICES ASSUME NEW t \in MoneyTxns
               PROVE  \E f : Measures(f, t)
    BY DEF ClawsOK
  <2> DEFINE f == [S \in SUBSET (1..0) |-> 0]
  <2>1. ledger[t].refunds = 0 /\ ledger[t].clawed = 0
    BY <1>2, TxnTypes
  <2>2. f \in [SUBSET (1..0) -> 0..0] /\ \A S \in SUBSET (1..0) : f[S] = 0
    OBVIOUS
  <2> HIDE DEF f
  <2>3. \A S, T \in SUBSET (1..0) : f[S \cup T] = f[S] + f[T]
    BY <2>2
  <2>4. f[1..0] = 0
    BY <2>2
  <2>5. t # NoTxn
    BY TxnTypes
  <2>6. Measures(f, t)
    BY <1>1, <1>3, <2>1, <2>2, <2>3, <2>4, <2>5 DEF Measures, Additive
  <2>7. QED
    BY <2>6
<1>9. QED
  BY <1>4, <1>5, <1>6, <1>7, <1>8 DEF Books

\* Every step keeps the books.
LEMMA NextBooks == IInv /\ Books /\ [Next]_vars => Books'
<1> SUFFICES ASSUME IInv, Books, [Next]_vars
             PROVE  Books'
  OBVIOUS
<1>1. CASE UNCHANGED vars
  BY <1>1, IgnoredGoesOn, NoWorkGoesOn, RowsKeepBooks DEF vars, rows
<1>2. ASSUME NEW w \in Procs, Asking(w) \/ Working(w) \/ Billing(w) \/ Crash(w)
      PROVE  Books'
  BY <1>2, RequestBooks, ScheduleBooks, FinishBooks, BillingBooks, CrashBooks DEF Working
<1>3. ASSUME NEW e \in bus, Deliver(e)
      PROVE  Books'
  BY <1>3, DonationBooks, PurchaseBooks, ReversedBooks, RecordingBooks DEF Deliver
<1>4. ASSUME NEW i \in Watched, Showing(i)
      PROVE  Books'
  BY <1>4, ShowingBooks, SettlementConstantsOK
<1>5. QED
  BY <1>1, <1>2, <1>3, <1>4, ScheduleBooks, BillingMovesBooks, RecordingBooks DEF Next

\* The rows and Billing's books agree in every reachable state.
THEOREM BooksInvariant == Spec => []Books
  BY InitBooks, NextBooks, SettlementInvariant, PTL DEF Spec

\* No row claims money Billing did not move, nor takes back more than Billing took back:
\* whatever the order of events, the crashes, lost answers and donations of other products.
THEOREM PaidIsBacked == Spec => []BackedByBilling
<1>1. IInv /\ Books => BackedByBilling
  <2> SUFFICES ASSUME IInv, Books, NEW i \in Tips, IsPaid(money[i]), ViaBilling(money[i])
               PROVE  LET entry == ledger[money[i].txn]
                      IN  /\ money[i].txn \in MoneyTxns
                          /\ entry.amount = money[i].amount
                          /\ money[i].origin = "tips" => entry.target = i /\ entry.parties
                          /\ money[i].reversed <= entry.clawed
    BY DEF BackedByBilling
  <2> DEFINE t == money[i].txn
  <2>1. /\ t \in MoneyTxns /\ ledger[t].amount = money[i].amount
        /\ money[i].origin = "tips" => ledger[t].target = i /\ ledger[t].parties
        /\ money[i].refunds \subseteq 1..ledger[t].refunds
    BY DEF Books, BackedOK, RowBacked
  <2>2. PICK f : Measures(f, t)
    BY <2>1 DEF Books, ClawsOK
  <2>3. money[i].reversed \in 0..ledger[t].clawed
    BY <2>1, <2>2, SMTT(60) DEF Measures, Additive
  <2>4. ledger[t].clawed \in Nat
    BY <2>1, TxnTypes DEF IInv, TypeOK, Entries
  <2>5. QED
    BY <2>1, <2>3, <2>4
<1>2. QED
  BY <1>1, BooksInvariant, SettlementInvariant, PTL

\* Once every published event has been applied, each donation of Billing's books is one
\* interaction that counts exactly what is left of it, if Events keeps the order of what
\* concerns one transaction and no other product starts the transfer of a tip.
THEOREM BooksAgree ==
    ASSUME InOrder, ~SameTransfers
    PROVE  Spec => []BooksReconcile
<1>1. IInv /\ Books /\ OneRowPerPayment => BooksReconcile
  <2> SUFFICES ASSUME IInv, Books, OneRowPerPayment, bus \subseteq inbox,
                      NEW t \in MoneyTxns, ledger[t].amount > 0
               PROVE  \E i \in Tips : /\ money[i].txn = t /\ IsPaid(money[i])
                                     /\ money[i].amount - money[i].reversed
                                          = ledger[t].amount - ledger[t].clawed
    BY DEF BooksReconcile
  <2>1. t \in TxnIds /\ t # NoTxn
    BY TxnTypes
  <2>2. PICK e \in bus : e.what = "settled" /\ e.txn = t
    BY <2>1 DEF Books, BusOK
  <2>3. PICK i \in Tips : money[i].txn = t
    BY <2>2 DEF Books, ReadOK, Read
  <2>4. IsPaid(money[i]) /\ RowBacked(i, money[i])
    BY <2>1, <2>3 DEF IInv, RowsOK, RowOK, UnpaidOK, Books, BackedOK
  <2>5. ASSUME NEW n \in 1..ledger[t].refunds
        PROVE  n \in money[i].refunds
    <3>1. PICK d \in bus : d.what = "reversed" /\ d.txn = t /\ d.part = n
      BY <2>1, <2>5 DEF Books, BusOK
    <3>2. PICK j \in Tips : money[j].txn = t /\ n \in money[j].refunds
      BY <3>1 DEF Books, ReadOK, Read
    <3>3. j = i
      BY <2>1, <2>3, <3>2 DEF OneRowPerPayment
    <3>4. QED
      BY <3>2, <3>3
  <2>6. money[i].refunds = 1..ledger[t].refunds
    BY <2>1, <2>3, <2>4, <2>5 DEF RowBacked
  <2>7. PICK f : Measures(f, t)
    BY DEF Books, ClawsOK
  <2>8. money[i].reversed = ledger[t].clawed
    BY <2>3, <2>6, <2>7 DEF Measures
  <2>9. ledger[t].amount = money[i].amount
    BY <2>1, <2>3, <2>4 DEF RowBacked
  <2>10. QED
    BY <2>3, <2>4, <2>8, <2>9
<1>2. QED
  BY <1>1, BooksInvariant, OnePaymentOneRow, SettlementInvariant, PTL
=============================================================================
