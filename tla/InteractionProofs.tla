------------------------- MODULE InteractionProofs -------------------------
(***************************************************************************)
(* What the operators of Interaction do to a row, for every row: they stay *)
(* in the row types and preserve RowOK.  SettlementProofs cites these      *)
(* lemmas, one per transaction, in the step of each action.                *)
(***************************************************************************)
EXTENDS Interaction, TLAPS

\* r differs from s at most in its delivery state and in the events other than ready.
SameShow(s, r) ==
    /\ r.moderation = s.moderation /\ r.effects = s.effects
    /\ r.alert = s.alert /\ r.paid = s.paid
    /\ r.counted = s.counted /\ r.uncounted = s.uncounted
    /\ r.events["ready"] = s.events["ready"]

\* Publishing an event changes nothing but the count of that event.
LEMMA PublishFacts ==
    ASSUME NEW m, NEW s \in ShowRows, NEW ev \in EventTypes
    PROVE  /\ Publish(m, s, ev) \in ShowRows
           /\ Publish(m, s, ev).delivery = s.delivery
           /\ ev # "ready" => SameShow(s, Publish(m, s, ev))
  BY DEF Publish, ShowRows, EventTypes, SameShow

\* tips.interaction.ready is counted once for a real payment and not at all for a test.
LEMMA PublishReady ==
    ASSUME NEW m, NEW s \in ShowRows, s.events["ready"] = 0
    PROVE  LET r == Publish(m, s, "ready")
           IN  /\ r \in ShowRows
               /\ r.delivery = s.delivery /\ r.moderation = s.moderation
               /\ r.effects = s.effects /\ r.alert = s.alert /\ r.paid = s.paid
               /\ r.counted = s.counted /\ r.uncounted = s.uncounted
               /\ r.events["ready"] = IF m.test THEN 0 ELSE 1
  BY DEF Publish, ShowRows, EventTypes

\* Recomputing the delivery state changes nothing else of what is shown.
LEMMA RecomputeFacts ==
    ASSUME NEW m, NEW s \in ShowRows
    PROVE  /\ RecomputeDelivery(m, s) \in ShowRows
           /\ SameShow(s, RecomputeDelivery(m, s))
           /\ s.delivery \in {"cancelled", "awaiting_payment"} =>
                RecomputeDelivery(m, s).delivery = s.delivery
           /\ s.delivery \notin {"cancelled", "awaiting_payment"} =>
                RecomputeDelivery(m, s).delivery \in {"queued", "failed", "delivered"}
           /\ s.delivery \in {"queued", "failed", "delivered"} /\ s.moderation # "held" =>
                (RecomputeDelivery(m, s).delivery = "queued" <=> Queued(s) # {})
           /\ s.delivery = "queued" =>
                (RecomputeDelivery(m, s).delivery = "queued"
                    => Queued(s) # {} \/ s.moderation = "held")
<1> DEFINE states == {s.effects[e] : e \in EffectNames} \ {"none"}
           next   == IF "queued" \in states THEN "queued"
                     ELSE IF "failed" \in states THEN "failed" ELSE "delivered"
           moved  == [s EXCEPT !.delivery = next]
<1>1. "queued" \in states <=> Queued(s) # {}
  BY DEF Queued
<1>2. next \in {"queued", "failed", "delivered"} /\ (next = "queued" <=> Queued(s) # {})
  BY <1>1
<1>3. moved \in ShowRows /\ SameShow(s, moved) /\ moved.delivery = next
  BY <1>2 DEF ShowRows, DeliveryStates, SameShow
<1>4. Publish(m, moved, "failed") \in ShowRows /\ SameShow(moved, Publish(m, moved, "failed"))
      /\ Publish(m, moved, "failed").delivery = next
  BY <1>3, PublishFacts DEF EventTypes
<1>5. SameShow(s, Publish(m, moved, "failed"))
  BY <1>3, <1>4 DEF SameShow
<1>6. \/ /\ RecomputeDelivery(m, s) = s
         /\ \/ s.delivery \in {"cancelled", "awaiting_payment", next}
            \/ s.moderation = "held" /\ states = {}
      \/ /\ RecomputeDelivery(m, s) \in {moved, Publish(m, moved, "failed")}
         /\ s.delivery \notin {"cancelled", "awaiting_payment", next}
  BY DEF RecomputeDelivery
<1>7. SameShow(s, s)
  BY DEF SameShow
<1>8. s.delivery \in DeliveryStates
  BY DEF ShowRows
<1> HIDE DEF next, states, moved
<1>9. QED
  BY <1>2, <1>3, <1>4, <1>5, <1>6, <1>7, <1>8 DEF DeliveryStates

\* Releasing a visible tip: the queue and the delivery state agree, nothing is hidden,
\* and neither the paid message nor the goal is touched.
LEMMA ReleaseFacts ==
    ASSUME NEW m, NEW s \in ShowRows, s.moderation = "visible", s.delivery = "queued",
           s.alert # "hidden"
    PROVE  LET r == Release(m, s)
           IN  /\ r \in ShowRows
               /\ r.moderation = "visible" /\ r.alert = "shown"
               /\ r.paid = s.paid /\ r.counted = s.counted /\ r.uncounted = s.uncounted
               /\ r.events["ready"] = s.events["ready"]
               /\ r.delivery \in {"queued", "failed", "delivered"}
               /\ r.delivery = "queued" <=> Queued(r) # {}
<1> DEFINE effects == [e \in EffectNames |->
                          IF s.effects[e] # "none" THEN s.effects[e]
                          ELSE IF e = "overlay_alert" THEN "delivered"
                          ELSE IF e \in ChatEffects(m) THEN "queued" ELSE "none"]
           shown   == [s EXCEPT !.alert = IF @ = "none" THEN "shown" ELSE @,
                                !.effects = effects]
           r       == RecomputeDelivery(m, shown)
<1>1. effects \in [EffectNames -> EffectStates]
  BY DEF ShowRows, EffectStates
<1>2. shown \in ShowRows /\ shown.effects = effects /\ shown.alert = "shown"
      /\ shown.moderation = "visible" /\ shown.delivery = "queued" /\ shown.paid = s.paid
      /\ shown.counted = s.counted /\ shown.uncounted = s.uncounted
      /\ shown.events = s.events
  <2> HIDE DEF effects
  <2> QED
    BY <1>1 DEF ShowRows
<1>3. r = Release(m, s)
  BY DEF Release
<1> HIDE DEF shown
<1>4. /\ r \in ShowRows /\ SameShow(shown, r)
      /\ r.delivery \in {"queued", "failed", "delivered"}
      /\ r.delivery = "queued" <=> Queued(shown) # {}
  BY <1>2, RecomputeFacts
<1>5. Queued(r) = Queued(shown)
  BY <1>4 DEF Queued, SameShow
<1>6. QED
  BY <1>2, <1>3, <1>4, <1>5 DEF SameShow

\* Releasing changes no effect that exists.
LEMMA ReleaseKeeps ==
    ASSUME NEW m, NEW s \in ShowRows, NEW e \in EffectNames, s.effects[e] # "none"
    PROVE  Release(m, s).effects[e] = s.effects[e]
<1> DEFINE effects == [f \in EffectNames |->
                          IF s.effects[f] # "none" THEN s.effects[f]
                          ELSE IF f = "overlay_alert" THEN "delivered"
                          ELSE IF f \in ChatEffects(m) THEN "queued" ELSE "none"]
           shown   == [s EXCEPT !.alert = IF @ = "none" THEN "shown" ELSE @,
                                !.effects = effects]
<1>1. effects \in [EffectNames -> EffectStates] /\ effects[e] = s.effects[e]
  BY DEF ShowRows, EffectStates
<1>2. shown \in ShowRows /\ shown.effects = effects
  <2> HIDE DEF effects
  <2> QED
    BY <1>1 DEF ShowRows
<1>3. Release(m, s) = RecomputeDelivery(m, shown)
  BY DEF Release
<1> HIDE DEF shown
<1>4. QED
  BY <1>1, <1>2, <1>3, RecomputeFacts DEF SameShow

-----------------------------------------------------------------------------
(* Settlement *)

\* Settling an unpaid row gives a settled row of which everything RowOK says holds,
\* whatever the filter, the goals and an earlier hide make of it.
LEMMA SettledFacts ==
    ASSUME NEW m0 \in MoneyRows, NEW s \in ShowRows, NEW m \in MoneyRows,
           NEW hold \in BOOLEAN, NEW goal \in BOOLEAN,
           ~IsPaid(m0), RowOK(m0, s), m.reversed = 0
    PROVE  LET n == SettledMoney(m)
           IN  /\ n \in MoneyRows /\ n.payment = "settled" /\ n.txn = m.txn /\ n.ref = m.ref
               /\ SettledShow(n, s, hold, goal) \in ShowRows
               /\ RowOK(n, SettledShow(n, s, hold, goal))
<1> DEFINE n        == SettledMoney(m)
           queued   == [s EXCEPT
                          !.delivery = IF s.moderation = "hidden" THEN "cancelled" ELSE "queued",
                          !.paid = IF HasPaidRow(n) /\ @ = "none" THEN "queued" ELSE @]
           screened == IF hold /\ queued.moderation = "visible"
                       THEN [queued EXCEPT !.moderation = "held"] ELSE queued
           counted  == IF goal /\ ~n.test /\ screened.counted = 0
                       THEN [screened EXCEPT !.counted = n.amount] ELSE screened
           released == IF counted.moderation = "visible" THEN Release(n, counted) ELSE counted
           final    == RecomputeDelivery(n, released)
<1>1. /\ n \in MoneyRows /\ n.payment = "settled" /\ n.txn = m.txn /\ n.ref = m.ref
      /\ n.reversed = 0 /\ n.amount \in Nat /\ n.test \in BOOLEAN /\ n.test = m.test
  BY DEF SettledMoney, MoneyRows, PaymentStates
<1>2. /\ Unshown(s) /\ s.moderation \in {"visible", "hidden"}
  BY DEF RowOK, UnpaidOK, ShowRows, ModerationStates
<1>3. /\ queued \in ShowRows /\ queued.moderation = s.moderation
      /\ queued.delivery = (IF s.moderation = "hidden" THEN "cancelled" ELSE "queued")
      /\ queued.effects = s.effects /\ queued.alert = s.alert
      /\ queued.counted = s.counted /\ queued.uncounted = s.uncounted
      /\ queued.events = s.events
  <2> DEFINE p == HasPaidRow(n)
  <2> HIDE DEF p
  <2>1. [s EXCEPT !.delivery = IF s.moderation = "hidden" THEN "cancelled" ELSE "queued",
                  !.paid = IF p /\ @ = "none" THEN "queued" ELSE @] \in ShowRows
    BY DEF ShowRows, DeliveryStates
  <2> QED
    BY <2>1 DEF ShowRows, p
<1> HIDE DEF queued
<1>4. /\ screened \in ShowRows
      /\ screened.moderation = (IF hold /\ s.moderation = "visible" THEN "held"
                                ELSE s.moderation)
      /\ screened.delivery = queued.delivery
      /\ screened.effects = s.effects /\ screened.alert = s.alert
      /\ screened.counted = s.counted /\ screened.uncounted = s.uncounted
      /\ screened.events = s.events
  BY <1>3 DEF ShowRows, ModerationStates
<1> HIDE DEF screened
<1>5. /\ counted \in ShowRows
      /\ counted.moderation = screened.moderation /\ counted.delivery = queued.delivery
      /\ counted.effects = s.effects /\ counted.alert = s.alert
      /\ counted.counted \in {0, n.amount} /\ counted.uncounted = 0
      /\ counted.events = s.events
  BY <1>1, <1>2, <1>4 DEF ShowRows, Unshown
<1> HIDE DEF counted, n
<1>6. \A t \in ShowRows : (\A e \in EffectNames : t.effects[e] = "none") => Queued(t) = {}
  BY DEF Queued
\* What is left to show of a settled row before tips.interaction.ready is written.
<1>7. ASSUME NEW t \in ShowRows,
              t.delivery # "awaiting_payment",
              t.delivery = "queued" => Queued(t) # {} \/ t.moderation = "held",
              Queued(t) # {} => t.moderation = "visible" /\ t.delivery = "queued",
              AlertOK(t), t.counted \in {0, n.amount}, t.uncounted = 0,
              t.events["ready"] = 0
       PROVE  Publish(n, t, "ready") \in ShowRows /\ RowOK(n, Publish(n, t, "ready"))
  <2> DEFINE r == Publish(n, t, "ready")
  <2>1. /\ r \in ShowRows
        /\ r.delivery = t.delivery /\ r.moderation = t.moderation
        /\ r.effects = t.effects /\ r.alert = t.alert
        /\ r.counted = t.counted /\ r.uncounted = t.uncounted
        /\ r.events["ready"] = IF n.test THEN 0 ELSE 1
    BY <1>7, PublishReady
  <2> HIDE DEF r
  <2>2. Queued(r) = Queued(t)
    BY <2>1 DEF Queued
  <2>3. UnpaidOK(n, r)
    BY <1>1 DEF UnpaidOK, IsPaid
  <2>4. QueueOK(n, r)
    BY <1>1, <1>7, <2>1, <2>2 DEF QueueOK
  <2>5. AlertOK(r)
    BY <1>7, <2>1 DEF AlertOK
  <2>6. CountOK(n, r)
    BY <1>1, <1>7, <2>1 DEF CountOK
  <2>7. ReadyOK(n, r)
    BY <1>1, <2>1 DEF ReadyOK
  <2>8. QED
    BY <1>1, <2>1, <2>3, <2>4, <2>5, <2>6, <2>7 DEF RowOK, r
<1>8. CASE counted.moderation = "visible"
  <2>1. counted.delivery = "queued" /\ counted.alert = "none"
    BY <1>2, <1>3, <1>4, <1>5, <1>8 DEF Unshown
  <2>2. /\ released \in ShowRows
        /\ released.moderation = "visible" /\ released.alert = "shown"
        /\ released.counted = counted.counted /\ released.uncounted = counted.uncounted
        /\ released.events["ready"] = counted.events["ready"]
        /\ released.delivery \in {"queued", "failed", "delivered"}
        /\ released.delivery = "queued" <=> Queued(released) # {}
    BY <1>5, <1>8, <2>1, ReleaseFacts
  <2> HIDE DEF released
  <2>3. /\ final \in ShowRows /\ SameShow(released, final)
        /\ final.delivery \in {"queued", "failed", "delivered"}
        /\ final.delivery = "queued" <=> Queued(released) # {}
    BY <2>2, RecomputeFacts
  <2>4. Queued(final) = Queued(released)
    BY <2>3 DEF Queued, SameShow
  <2> HIDE DEF final
  <2>5. SettledShow(n, s, hold, goal) = Publish(n, final, "ready")
    BY DEF SettledShow, final, released, counted, screened, queued
  <2>6. /\ final.moderation = "visible" /\ final.alert = "shown"
        /\ final.counted \in {0, n.amount} /\ final.uncounted = 0
        /\ final.events["ready"] = 0 /\ AlertOK(final)
    BY <1>2, <1>5, <2>2, <2>3 DEF SameShow, Unshown, AlertOK
  <2>7. SettledShow(n, s, hold, goal) \in ShowRows /\ RowOK(n, SettledShow(n, s, hold, goal))
    BY <1>1, <1>7, <2>3, <2>4, <2>5, <2>6
  <2>8. QED
    BY <1>1, <2>7 DEF n
<1>9. CASE counted.moderation # "visible"
  <2>1. final = counted
    <3>1. released = counted
      BY <1>9
    <3>2. counted.delivery = "cancelled" \/ counted.moderation = "held"
      BY <1>2, <1>3, <1>4, <1>5, <1>9
    <3>3. {counted.effects[e] : e \in EffectNames} \ {"none"} = {}
      BY <1>2, <1>5 DEF Unshown
    <3>4. QED
      BY <3>1, <3>2, <3>3 DEF RecomputeDelivery
  <2>2. SettledShow(n, s, hold, goal) = Publish(n, counted, "ready")
    BY <2>1 DEF SettledShow, final, released, counted, screened, queued
  <2>3. /\ counted.delivery \in {"cancelled", "queued"}
        /\ counted.delivery = "queued" => counted.moderation = "held"
        /\ counted.alert = "none" /\ \A e \in EffectNames : counted.effects[e] = "none"
        /\ counted.events["ready"] = 0 /\ AlertOK(counted)
    BY <1>2, <1>3, <1>4, <1>5, <1>9 DEF Unshown, AlertOK
  <2>4. Queued(counted) = {}
    BY <1>5, <1>6, <2>3
  <2>5. SettledShow(n, s, hold, goal) \in ShowRows /\ RowOK(n, SettledShow(n, s, hold, goal))
    BY <1>1, <1>5, <1>7, <2>2, <2>3, <2>4
  <2>6. QED
    BY <1>1, <2>5 DEF n
<1>10. QED
  BY <1>1, <1>8, <1>9 DEF n

-----------------------------------------------------------------------------
(* Failure and reversal *)

\* A refused payment shows nothing.
LEMMA FailedFacts ==
    ASSUME NEW m \in MoneyRows, NEW s \in ShowRows, RowOK(m, s), m.payment = "pending"
    PROVE  /\ FailedMoney(m) \in MoneyRows
           /\ FailedMoney(m).txn = m.txn /\ FailedMoney(m).ref = m.ref
           /\ FailedMoney(m).payment = "failed" /\ FailedMoney(m).reversed = m.reversed
           /\ FailedShow(m, s) \in ShowRows
           /\ RowOK(FailedMoney(m), FailedShow(m, s))
           /\ FailedShow(m, s).effects = s.effects
<1> DEFINE n    == FailedMoney(m)
           down == [s EXCEPT !.delivery = "cancelled"]
           r    == Publish(m, down, "cancelled")
<1>1. /\ n \in MoneyRows /\ n.payment = "failed" /\ n.txn = m.txn /\ n.ref = m.ref
      /\ n.reversed = m.reversed /\ n.amount = m.amount /\ n.test = m.test
  BY DEF FailedMoney, MoneyRows, PaymentStates
<1>2. down \in ShowRows /\ SameShow(s, down) /\ down.delivery = "cancelled"
  BY DEF ShowRows, DeliveryStates, SameShow
<1> HIDE DEF n, down
<1>3. r \in ShowRows /\ SameShow(s, r) /\ r.delivery = "cancelled"
  BY <1>2, PublishFacts DEF SameShow, EventTypes
<1> HIDE DEF r
<1>4. Queued(r) = Queued(s)
  BY <1>3 DEF SameShow, Queued
<1>5. RowOK(n, r)
  <2>1. UnpaidOK(n, r)
    BY <1>1, <1>3 DEF RowOK, UnpaidOK, IsPaid, Unshown, SameShow
  <2>2. QueueOK(n, r) /\ AlertOK(r)
    BY <1>1, <1>3, <1>4 DEF RowOK, QueueOK, AlertOK, SameShow
  <2>3. CountOK(n, r) /\ ReadyOK(n, r)
    BY <1>1, <1>3 DEF RowOK, CountOK, ReadyOK, SameShow, IsPaid
  <2>4. QED
    BY <1>3, <2>1, <2>2, <2>3 DEF RowOK
<1>6. r = FailedShow(m, s) /\ n = FailedMoney(m)
  BY DEF r, n, down, FailedShow
<1>7. QED
  BY <1>1, <1>3, <1>5, <1>6 DEF SameShow

\* Cancelling the queue leaves nothing queued and everything else as it was.
LEMMA CancelFacts ==
    ASSUME NEW m, NEW s \in ShowRows
    PROVE  LET r == CancelQueued(m, s)
           IN  /\ r \in ShowRows /\ Queued(r) = {}
               /\ r.moderation = s.moderation /\ r.alert = s.alert
               /\ r.counted = s.counted /\ r.uncounted = s.uncounted
               /\ r.events["ready"] = s.events["ready"]
               /\ r.delivery = IF Queued(s) = {} THEN s.delivery ELSE "cancelled"
               /\ \A e \in EffectNames :
                     /\ s.effects[e] # "queued" => r.effects[e] = s.effects[e]
                     /\ s.effects[e] = "queued" => r.effects[e] = "cancelled"
<1> DEFINE effects == [e \in EffectNames |->
                          IF s.effects[e] = "queued" THEN "cancelled" ELSE s.effects[e]]
           gone    == [s EXCEPT !.effects = effects]
           down    == [PaidCancelled(gone) EXCEPT !.delivery = "cancelled"]
<1>1. effects \in [EffectNames -> EffectStates]
  BY DEF ShowRows, EffectStates
<1>2. /\ PaidCancelled(s) \in ShowRows /\ SameShow(s, [PaidCancelled(s) EXCEPT !.paid = s.paid])
      /\ PaidCancelled(s).delivery = s.delivery /\ PaidCancelled(s).effects = s.effects
      /\ PaidCancelled(s).moderation = s.moderation /\ PaidCancelled(s).alert = s.alert
      /\ PaidCancelled(s).counted = s.counted /\ PaidCancelled(s).uncounted = s.uncounted
      /\ PaidCancelled(s).events = s.events
  BY DEF PaidCancelled, ShowRows, SameShow
<1> HIDE DEF effects
<1>3. /\ down \in ShowRows /\ down.effects = effects /\ down.delivery = "cancelled"
      /\ down.moderation = s.moderation /\ down.alert = s.alert
      /\ down.counted = s.counted /\ down.uncounted = s.uncounted
      /\ down.events = s.events
  BY <1>1 DEF PaidCancelled, ShowRows, DeliveryStates
<1>4. gone = EffectsCancelled(s)
  BY DEF EffectsCancelled, effects
<1> HIDE DEF down
<1>5. CASE Queued(s) = {}
  <2>1. CancelQueued(m, s) = PaidCancelled(s)
    BY <1>5 DEF CancelQueued
  <2>2. QED
    BY <1>2, <1>5, <2>1 DEF Queued
<1>6. CASE Queued(s) # {}
  <2> DEFINE r == Publish(m, down, "cancelled")
  <2>1. CancelQueued(m, s) = r
    BY <1>4, <1>6 DEF CancelQueued, down
  <2>2. r \in ShowRows /\ SameShow(down, r) /\ r.delivery = "cancelled"
    BY <1>3, PublishFacts DEF EventTypes
  <2>3. \A e \in EffectNames :
           r.effects[e] = IF s.effects[e] = "queued" THEN "cancelled" ELSE s.effects[e]
    BY <1>3, <2>2 DEF SameShow, effects
  <2> HIDE DEF r
  <2>4. Queued(r) = {}
    BY <2>3 DEF Queued
  <2>5. QED
    BY <1>3, <1>6, <2>1, <2>2, <2>3, <2>4 DEF SameShow
<1>7. QED
  BY <1>5, <1>6

\* A reversal of a paid row takes back no more than is left, uncounts from the goal what
\* it takes, and leaves nothing queued and nothing held for delivery.
LEMMA ReversedFacts ==
    ASSUME NEW m \in MoneyRows, NEW s \in ShowRows, NEW id \in Nat, NEW clawed \in Nat,
           IsPaid(m), RowOK(m, s)
    PROVE  LET n == ReversedMoney(m, id, clawed)
               q == ReversedShow(n, s, Taken(m, clawed))
           IN  /\ n \in MoneyRows /\ n.payment = "reversed"
               /\ n.txn = m.txn /\ n.ref = m.ref
               /\ m.reversed <= n.reversed /\ n.reversed <= n.amount
               /\ n.amount = m.amount
               /\ q \in ShowRows /\ RowOK(n, q)
               /\ \A e \in EffectNames :
                     s.effects[e] # "queued" => q.effects[e] = s.effects[e]
<1> DEFINE n    == ReversedMoney(m, id, clawed)
           take == Taken(m, clawed)
           goal == IF n.test THEN s
                   ELSE [s EXCEPT !.uncounted = @ + Smaller(take, s.counted - @)]
           gone == CancelQueued(n, goal)
           held == [PaidCancelled(gone) EXCEPT !.delivery = "cancelled"]
           q    == ReversedShow(n, s, take)
<1>1. /\ m.amount \in Nat /\ m.reversed \in Nat /\ m.reversed <= m.amount
      /\ s.counted \in Nat /\ s.uncounted \in Nat /\ s.uncounted <= s.counted
  BY DEF MoneyRows, ShowRows, RowOK, CountOK
<1>2. take \in Nat /\ take <= m.amount - m.reversed
  BY <1>1 DEF Taken, Smaller
<1>3. /\ n \in MoneyRows /\ n.payment = "reversed" /\ n.txn = m.txn /\ n.ref = m.ref
      /\ n.amount = m.amount /\ n.test = m.test /\ n.test \in BOOLEAN
      /\ n.reversed = m.reversed + take
  <2> HIDE DEF take
  <2>1. [m EXCEPT !.payment = "reversed", !.refunds = @ \cup {id}, !.reversed = @ + take]
          \in MoneyRows
    <3>1. m.refunds \cup {id} \in SUBSET Nat /\ m.reversed + take \in Nat
      BY <1>1, <1>2 DEF MoneyRows
    <3>2. "reversed" \in PaymentStates
      BY DEF PaymentStates
    <3>3. QED
      BY <3>1, <3>2 DEF MoneyRows
  <2>2. n = [m EXCEPT !.payment = "reversed", !.refunds = @ \cup {id}, !.reversed = @ + take]
    BY DEF ReversedMoney, take
  <2> HIDE DEF n
  <2>3. QED
    BY <2>1, <2>2 DEF MoneyRows
<1> HIDE DEF take, n
<1>4. /\ goal \in ShowRows
      /\ goal.delivery = s.delivery /\ goal.moderation = s.moderation
      /\ goal.effects = s.effects /\ goal.alert = s.alert /\ goal.counted = s.counted
      /\ goal.events = s.events
      /\ goal.uncounted <= goal.counted
      /\ ~n.test => goal.uncounted = s.uncounted + Smaller(take, s.counted - s.uncounted)
  BY <1>1, <1>2, <1>3 DEF ShowRows, Smaller
<1>5. CountOK(n, goal)
  <2>1. s.counted > 0 => s.counted = m.amount /\ (~m.test => s.uncounted = m.reversed)
    BY DEF RowOK, CountOK
  <2>2. s.counted > 0 /\ ~n.test => goal.uncounted = n.reversed
    BY <1>1, <1>2, <1>3, <1>4, <2>1 DEF Smaller
  <2>3. QED
    BY <1>1, <1>2, <1>3, <1>4, <2>1, <2>2 DEF CountOK
<1>6. Queued(goal) = Queued(s)
  BY <1>4 DEF Queued
<1> HIDE DEF goal
<1>7. /\ gone \in ShowRows /\ Queued(gone) = {}
      /\ gone.moderation = s.moderation /\ gone.alert = s.alert
      /\ gone.counted = goal.counted /\ gone.uncounted = goal.uncounted
      /\ gone.events["ready"] = s.events["ready"]
      /\ gone.delivery = IF Queued(s) = {} THEN s.delivery ELSE "cancelled"
      /\ \A e \in EffectNames : /\ s.effects[e] # "queued" => gone.effects[e] = s.effects[e]
                                /\ s.effects[e] = "queued" => gone.effects[e] = "cancelled"
  BY <1>4, <1>6, CancelFacts
<1> HIDE DEF gone
<1>8. /\ held \in ShowRows /\ SameShow([gone EXCEPT !.paid = held.paid], held)
      /\ held.delivery = "cancelled"
      /\ held.moderation = gone.moderation /\ held.effects = gone.effects
      /\ held.alert = gone.alert /\ held.counted = gone.counted
      /\ held.uncounted = gone.uncounted /\ held.events = gone.events
  BY <1>7, ZenonT(60) DEF PaidCancelled, ShowRows, DeliveryStates, SameShow
<1> HIDE DEF held
<1>9. /\ Publish(n, held, "cancelled") \in ShowRows
      /\ SameShow(held, Publish(n, held, "cancelled"))
      /\ Publish(n, held, "cancelled").delivery = "cancelled"
  BY <1>8, PublishFacts DEF EventTypes
<1>10. q = IF Queued(s) = {} /\ gone.moderation = "held" /\ gone.delivery = "queued"
           THEN Publish(n, held, "cancelled") ELSE gone
  BY DEF ReversedShow, gone, goal, held
<1> HIDE DEF q
<1>11. /\ q \in ShowRows /\ q.delivery \in {s.delivery, "cancelled"} /\ q.delivery # "queued"
       /\ q.effects = gone.effects /\ q.moderation = s.moderation /\ q.alert = s.alert
       /\ q.counted = goal.counted /\ q.uncounted = goal.uncounted
       /\ q.events["ready"] = s.events["ready"]
  <2>1. s.delivery = "queued" => Queued(s) # {} \/ s.moderation = "held"
    BY DEF RowOK, QueueOK
  <2>2. QED
    BY <1>7, <1>8, <1>9, <1>10, <2>1 DEF SameShow
<1>12. Queued(q) = {}
  BY <1>7, <1>11 DEF Queued
<1>13. RowOK(n, q)
  <2>1. UnpaidOK(n, q) /\ QueueOK(n, q)
    BY <1>3, <1>11, <1>12 DEF UnpaidOK, IsPaid, QueueOK
  <2>2. AlertOK(q)
    BY <1>7, <1>11 DEF RowOK, AlertOK
  <2>3. CountOK(n, q)
    BY <1>5, <1>11 DEF CountOK
  <2>4. ReadyOK(n, q)
    BY <1>3, <1>11 DEF RowOK, ReadyOK, IsPaid
  <2>5. QED
    BY <1>11, <2>1, <2>2, <2>3, <2>4 DEF RowOK
<1>14. \A e \in EffectNames : s.effects[e] # "queued" => q.effects[e] = s.effects[e]
  BY <1>7, <1>11
<1>15. QED
  BY <1>1, <1>2, <1>3, <1>11, <1>13, <1>14 DEF n, take, q

-----------------------------------------------------------------------------
(* Moderators and the effects worker *)

\* Hiding takes a tip off the overlay and out of the queue.
LEMMA HiddenFacts ==
    ASSUME NEW m \in MoneyRows, NEW s \in ShowRows, RowOK(m, s)
    PROVE  LET r == Hidden(m, s)
           IN  /\ r \in ShowRows /\ RowOK(m, r)
               /\ \A e \in EffectNames :
                     s.effects[e] # "queued" => r.effects[e] = s.effects[e]
<1> DEFINE undelivered == Queued(s) # {} \/ s.moderation = "held" \/ m.payment = "pending"
           gone  == IF Queued(s) = {} THEN s ELSE PaidCancelled(EffectsCancelled(s))
           next  == IF undelivered /\ s.delivery \in {"queued", "awaiting_payment"}
                    THEN "cancelled" ELSE s.delivery
           alert == IF s.alert = "shown" THEN "hidden" ELSE s.alert
           r     == Hidden(m, s)
<1>1. /\ gone \in ShowRows /\ Queued(gone) = {}
      /\ gone.delivery = s.delivery /\ gone.alert = s.alert
      /\ gone.counted = s.counted /\ gone.uncounted = s.uncounted
      /\ gone.events = s.events /\ (Unshown(s) => gone = s)
      /\ \A e \in EffectNames : /\ s.effects[e] # "queued" => gone.effects[e] = s.effects[e]
                                /\ s.effects[e] = "queued" => gone.effects[e] = "cancelled"
  <2> DEFINE effects == [e \in EffectNames |->
                           IF s.effects[e] = "queued" THEN "cancelled" ELSE s.effects[e]]
  <2>1. effects \in [EffectNames -> EffectStates]
    BY DEF ShowRows, EffectStates
  <2>2. \A e \in EffectNames :
           effects[e] = IF s.effects[e] = "queued" THEN "cancelled" ELSE s.effects[e]
    OBVIOUS
  <2>3. EffectsCancelled(s) = [s EXCEPT !.effects = effects]
    BY DEF EffectsCancelled
  <2> HIDE DEF effects
  <2>4. Unshown(s) => Queued(s) = {}
    BY DEF Unshown, Queued
  <2> DEFINE c == PaidCancelled([s EXCEPT !.effects = effects])
  <2>5. /\ c \in ShowRows /\ c.effects = effects
        /\ c.delivery = s.delivery /\ c.alert = s.alert
        /\ c.counted = s.counted /\ c.uncounted = s.uncounted /\ c.events = s.events
    BY <2>1 DEF PaidCancelled, ShowRows
  <2>6. gone = IF Queued(s) = {} THEN s ELSE c
    BY <2>3
  <2> HIDE DEF c
  <2>7. Queued(c) = {}
    BY <2>2, <2>5 DEF Queued
  <2>8. Queued(s) = {} => \A e \in EffectNames : s.effects[e] # "queued"
    BY DEF Queued
  <2> HIDE DEF gone
  <2>9. QED
    BY <2>2, <2>4, <2>5, <2>6, <2>7, <2>8
<1> HIDE DEF gone
<1>2. CASE s.moderation = "hidden"
  <2>1. r = s
    BY <1>2 DEF Hidden
  <2>2. QED
    BY <2>1
<1>3. CASE s.moderation # "hidden"
  <2>1. r = [gone EXCEPT !.moderation = "hidden", !.delivery = next, !.alert = alert]
    BY <1>1, <1>3 DEF Hidden, gone
  <2>2. next \in DeliveryStates /\ alert \in {"none", "shown", "hidden"}
    BY DEF ShowRows, DeliveryStates
  <2> HIDE DEF next, alert
  <2>3. /\ r \in ShowRows /\ r.moderation = "hidden" /\ r.delivery = next
        /\ r.alert = alert /\ r.effects = gone.effects /\ r.paid = gone.paid
        /\ r.counted = gone.counted /\ r.uncounted = gone.uncounted
        /\ r.events = gone.events
    BY <1>1, <2>1, <2>2, ZenonT(60) DEF ShowRows, ModerationStates
  <2> HIDE DEF r
  <2>4. Queued(r) = {}
    BY <1>1, <2>3 DEF Queued
  <2>5. next # "queued" /\ (s.delivery \notin {"queued", "awaiting_payment"} => next = s.delivery)
        /\ next \in {s.delivery, "cancelled"}
    BY DEF next, RowOK, QueueOK
  <2>6. alert # "shown" /\ (s.alert = "none" => alert = "none")
    BY DEF alert
  <2>7. UnpaidOK(m, r)
    BY <1>1, <2>3, <2>5, <2>6 DEF RowOK, UnpaidOK, Unshown
  <2>8. QueueOK(m, r) /\ AlertOK(r)
    BY <2>3, <2>4, <2>5, <2>6 DEF QueueOK, AlertOK
  <2>9. CountOK(m, r) /\ ReadyOK(m, r)
    BY <1>1, <2>3 DEF RowOK, CountOK, ReadyOK
  <2>10. QED
    BY <1>1, <2>3, <2>5, <2>7, <2>8, <2>9 DEF RowOK, r
<1>4. QED
  BY <1>2, <1>3

\* Restoring brings back what was shown, releases what is settled and never was, and
\* requeues nothing that was cancelled.
LEMMA RestoredFacts ==
    ASSUME NEW m \in MoneyRows, NEW s \in ShowRows, RowOK(m, s)
    PROVE  LET r == Restored(m, s)
           IN  /\ r \in ShowRows /\ RowOK(m, r)
               /\ \A e \in EffectNames :
                     s.effects[e] \notin {"none", "queued"} => r.effects[e] = s.effects[e]
<1> DEFINE release == m.payment = "settled" /\ s.alert = "none"
           next    == IF release THEN "queued" ELSE s.delivery
           alert   == IF s.alert = "hidden" THEN "shown" ELSE s.alert
           shown   == [s EXCEPT !.moderation = "visible", !.delivery = next, !.alert = alert]
           r       == Restored(m, s)
<1>1. CASE s.moderation = "visible"
  <2>1. r = s
    BY <1>1 DEF Restored
  <2>2. QED
    BY <1>1, <2>1
<1>2. CASE s.moderation # "visible"
  <2>1. r = IF release THEN Release(m, shown) ELSE shown
    BY <1>2 DEF Restored
  <2>2. next \in DeliveryStates /\ alert \in {"none", "shown"}
    BY DEF ShowRows, DeliveryStates
  <2>3. Queued(s) = {}
    BY <1>2 DEF RowOK, QueueOK
  <2> HIDE DEF next, alert, r
  <2>4. /\ shown \in ShowRows /\ shown.moderation = "visible" /\ shown.delivery = next
        /\ shown.alert = alert /\ shown.effects = s.effects /\ shown.paid = s.paid
        /\ shown.counted = s.counted /\ shown.uncounted = s.uncounted
        /\ shown.events = s.events
    BY <2>2 DEF ShowRows, ModerationStates
  <2> HIDE DEF shown
  <2>5. CASE release
    <3>1. /\ next = "queued" /\ alert = "none" /\ m.payment = "settled"
      BY <2>5 DEF next, alert
    <3>2. /\ r \in ShowRows /\ r.moderation = "visible" /\ r.alert = "shown"
          /\ r.paid = s.paid /\ r.counted = s.counted /\ r.uncounted = s.uncounted
          /\ r.events["ready"] = s.events["ready"]
          /\ r.delivery \in {"queued", "failed", "delivered"}
          /\ r.delivery = "queued" <=> Queued(r) # {}
      BY <2>1, <2>4, <2>5, <3>1, ReleaseFacts
    <3>3. UnpaidOK(m, r) /\ QueueOK(m, r) /\ AlertOK(r)
      BY <3>1, <3>2 DEF UnpaidOK, IsPaid, QueueOK, AlertOK
    <3>4. CountOK(m, r) /\ ReadyOK(m, r)
      BY <3>2 DEF RowOK, CountOK, ReadyOK
    <3>5. RowOK(m, r)
      BY <3>1, <3>3, <3>4 DEF RowOK
    <3>6. \A e \in EffectNames :
             s.effects[e] \notin {"none", "queued"} => r.effects[e] = s.effects[e]
      BY <2>1, <2>4, <2>5, ReleaseKeeps
    <3>7. QED
      BY <3>2, <3>5, <3>6 DEF r
  <2>6. CASE ~release
    <3>1. r = shown /\ next = s.delivery
      BY <2>1, <2>6 DEF next
    <3>2. s.delivery # "queued" \/ s.moderation = "held"
      BY <2>3 DEF RowOK, QueueOK
    <3>3. s.moderation = "held" => s.alert = "none" /\ s.delivery # "queued"
      BY <2>6 DEF RowOK, AlertOK
    <3>4. Queued(r) = {}
      BY <2>3, <2>4, <3>1 DEF Queued
    <3>5. UnpaidOK(m, r)
      BY <2>4, <3>1 DEF RowOK, UnpaidOK, Unshown, alert
    <3>6. QueueOK(m, r) /\ AlertOK(r)
      BY <2>2, <2>4, <3>1, <3>2, <3>3, <3>4 DEF QueueOK, AlertOK
    <3>7. CountOK(m, r) /\ ReadyOK(m, r)
      BY <2>4, <3>1 DEF RowOK, CountOK, ReadyOK
    <3>8. RowOK(m, r)
      BY <2>4, <3>1, <3>2, <3>3, <3>5, <3>6, <3>7 DEF RowOK
    <3>9. QED
      BY <2>4, <3>1, <3>8 DEF r
  <2>7. QED
    BY <2>5, <2>6
<1>3. QED
  BY <1>1, <1>2

\* The worker's outcome of a queued effect ends that effect and moves no other, and the
\* delivery state follows the queue.
LEMMA OutcomeFacts ==
    ASSUME NEW m \in MoneyRows, NEW s \in ShowRows, RowOK(m, s),
           NEW e \in Queued(s), NEW t \in ShowRows,
           t.delivery = s.delivery, t.moderation = s.moderation, t.alert = s.alert,
           t.counted = s.counted, t.uncounted = s.uncounted, t.events = s.events,
           \A f \in EffectNames : f # e => t.effects[f] = s.effects[f]
    PROVE  LET r == RecomputeDelivery(m, t)
           IN  /\ r \in ShowRows /\ RowOK(m, r)
               /\ \A f \in EffectNames : f # e => r.effects[f] = s.effects[f]
<1> DEFINE r == RecomputeDelivery(m, t)
<1>1. m.payment = "settled" /\ s.moderation = "visible" /\ s.delivery = "queued"
  BY DEF RowOK, QueueOK
<1>2. /\ r \in ShowRows /\ SameShow(t, r)
      /\ r.delivery \in {"queued", "failed", "delivered"}
      /\ r.delivery = "queued" <=> Queued(t) # {}
  BY <1>1, RecomputeFacts
<1> HIDE DEF r
<1>3. Queued(r) = Queued(t)
  BY <1>2 DEF SameShow, Queued
<1>4. UnpaidOK(m, r) /\ QueueOK(m, r)
  BY <1>1, <1>2, <1>3 DEF UnpaidOK, IsPaid, QueueOK, SameShow
<1>5. AlertOK(r)
  BY <1>1, <1>2 DEF RowOK, AlertOK, SameShow
<1>6. CountOK(m, r) /\ ReadyOK(m, r)
  BY <1>2 DEF RowOK, CountOK, ReadyOK, SameShow
<1>7. RowOK(m, r)
  BY <1>1, <1>4, <1>5, <1>6 DEF RowOK
<1>8. \A f \in EffectNames : f # e => r.effects[f] = s.effects[f]
  BY <1>2 DEF SameShow, ShowRows
<1>9. QED
  BY <1>2, <1>7, <1>8 DEF r

\* markDone() leaves a good row good, and no other effect changes.
LEMMA EffectDoneFacts ==
    ASSUME NEW m \in MoneyRows, NEW s \in ShowRows, RowOK(m, s), NEW e \in Queued(s)
    PROVE  /\ EffectDone(m, s, e) \in ShowRows /\ RowOK(m, EffectDone(m, s, e))
           /\ \A f \in EffectNames : f # e => EffectDone(m, s, e).effects[f] = s.effects[f]
<1> DEFINE t == WithEffect(s, e, "delivered")
<1>1. e \in EffectNames /\ s.effects[e] = "queued"
  BY DEF Queued
<1>2. [s.effects EXCEPT ![e] = "delivered"] \in [EffectNames -> EffectStates]
  BY <1>1 DEF ShowRows, EffectStates
<1>3. (IF CarriesPaid(e) /\ s.paid = "queued" THEN "delivered" ELSE s.paid)
        \in {"none", "queued", "delivered", "failed", "cancelled"}
  BY DEF ShowRows
<1>4. /\ t \in ShowRows
      /\ t.delivery = s.delivery /\ t.moderation = s.moderation /\ t.alert = s.alert
      /\ t.counted = s.counted /\ t.uncounted = s.uncounted /\ t.events = s.events
      /\ t.effects = [s.effects EXCEPT ![e] = "delivered"]
  BY <1>1, <1>2, <1>3 DEF WithEffect, ShowRows
<1> HIDE DEF t
<1>5. \A f \in EffectNames : f # e => t.effects[f] = s.effects[f]
  BY <1>4 DEF ShowRows
<1>6. EffectDone(m, s, e) = RecomputeDelivery(m, t)
  BY <1>1 DEF EffectDone, t
<1>7. /\ RecomputeDelivery(m, t) \in ShowRows /\ RowOK(m, RecomputeDelivery(m, t))
      /\ \A f \in EffectNames : f # e => RecomputeDelivery(m, t).effects[f] = s.effects[f]
  <2>1. /\ t.delivery = s.delivery /\ t.moderation = s.moderation /\ t.alert = s.alert
        /\ t.counted = s.counted /\ t.uncounted = s.uncounted /\ t.events = s.events
    BY <1>4
  <2>2. t \in ShowRows
    BY <1>4
  <2>3. QED
    BY <1>5, <2>1, <2>2, OutcomeFacts
<1>8. QED
  BY <1>6, <1>7

\* markFailed() on its last attempt leaves a good row good, and no other effect changes.
LEMMA EffectFailedFacts ==
    ASSUME NEW m \in MoneyRows, NEW s \in ShowRows, RowOK(m, s), NEW e \in Queued(s)
    PROVE  /\ EffectFailed(m, s, e) \in ShowRows /\ RowOK(m, EffectFailed(m, s, e))
           /\ \A f \in EffectNames : f # e => EffectFailed(m, s, e).effects[f] = s.effects[f]
<1> DEFINE t == [s EXCEPT !.effects[e] = IF @ = "queued" THEN "failed" ELSE @,
                          !.paid = IF CarriesPaid(e) /\ @ = "queued" THEN "failed" ELSE @]
<1>1. e \in EffectNames /\ s.effects[e] = "queued"
  BY DEF Queued
<1>2. [s.effects EXCEPT ![e] = "failed"] \in [EffectNames -> EffectStates]
  BY <1>1 DEF ShowRows, EffectStates
<1>3. (IF CarriesPaid(e) /\ s.paid = "queued" THEN "failed" ELSE s.paid)
        \in {"none", "queued", "delivered", "failed", "cancelled"}
  BY DEF ShowRows
<1>4. /\ t \in ShowRows
      /\ t.delivery = s.delivery /\ t.moderation = s.moderation /\ t.alert = s.alert
      /\ t.counted = s.counted /\ t.uncounted = s.uncounted /\ t.events = s.events
      /\ t.effects = [s.effects EXCEPT ![e] = "failed"]
  BY <1>1, <1>2, <1>3 DEF ShowRows
<1> HIDE DEF t
<1>5. \A f \in EffectNames : f # e => t.effects[f] = s.effects[f]
  BY <1>4 DEF ShowRows
<1>6. EffectFailed(m, s, e) = RecomputeDelivery(m, t)
  BY DEF EffectFailed, t
<1>7. /\ RecomputeDelivery(m, t) \in ShowRows /\ RowOK(m, RecomputeDelivery(m, t))
      /\ \A f \in EffectNames : f # e => RecomputeDelivery(m, t).effects[f] = s.effects[f]
  <2>1. /\ t.delivery = s.delivery /\ t.moderation = s.moderation /\ t.alert = s.alert
        /\ t.counted = s.counted /\ t.uncounted = s.uncounted /\ t.events = s.events
    BY <1>4
  <2>2. t \in ShowRows
    BY <1>4
  <2>3. QED
    BY <1>5, <2>1, <2>2, OutcomeFacts
<1>8. QED
  BY <1>6, <1>7

-----------------------------------------------------------------------------
(* A failed delivery is told *)

\* Recomputing an undecided, visible row tells its failures.
LEMMA RecomputeTells ==
    ASSUME NEW m, NEW s \in ShowRows, s.moderation # "held" \/ FailureTold(s),
           s.delivery \in {"cancelled", "awaiting_payment"} => FailureTold(s)
    PROVE  FailureTold(RecomputeDelivery(m, s))
<1> DEFINE states == {s.effects[e] : e \in EffectNames} \ {"none"}
           next   == IF "queued" \in states THEN "queued"
                     ELSE IF "failed" \in states THEN "failed" ELSE "delivered"
           moved  == [s EXCEPT !.delivery = next]
           r      == RecomputeDelivery(m, s)
<1>1. "queued" \in states <=> Queued(s) # {}
  BY DEF Queued
<1>2. "failed" \in states <=> \E e \in EffectNames : s.effects[e] = "failed"
  OBVIOUS
<1>3. next \in DeliveryStates /\ next # "cancelled"
      /\ (Queued(s) = {} => (next = "failed" <=> "failed" \in states))
  BY <1>1 DEF DeliveryStates
<1>4. r = s \/ r = moved \/ r = Publish(m, moved, "failed")
  BY DEF RecomputeDelivery
<1>5. r = s => \/ s.delivery \in {"cancelled", "awaiting_payment", next}
               \/ s.moderation = "held"
               \/ moved.delivery = s.delivery
               \/ Publish(m, moved, "failed").delivery = s.delivery
  BY DEF RecomputeDelivery
<1> HIDE DEF states, next, r
<1>6. moved \in ShowRows /\ moved.delivery = next /\ moved.effects = s.effects
  BY <1>3 DEF ShowRows
<1> HIDE DEF moved
<1>7. /\ Publish(m, moved, "failed").delivery = next
      /\ Publish(m, moved, "failed").effects = s.effects
  BY <1>6, PublishFacts DEF EventTypes, SameShow
<1>8. CASE r.delivery = next /\ r.effects = s.effects
  <2>1. Queued(r) = Queued(s)
    BY <1>8 DEF Queued
  <2> QED BY <1>2, <1>3, <1>8, <2>1 DEF FailureTold, r
<1>9. CASE r = s
  BY <1>5, <1>6, <1>7, <1>8, <1>9 DEF r
<1> QED BY <1>4, <1>6, <1>7, <1>8, <1>9

\* The same effects and the same delivery tell the same.
LEMMA SameTells ==
    ASSUME NEW s \in ShowRows, NEW r \in ShowRows, FailureTold(s),
           r.delivery \in {s.delivery, "cancelled"},
           \A e \in EffectNames : r.effects[e] = s.effects[e]
    PROVE  FailureTold(r)
<1>1. Queued(r) = Queued(s)
  BY DEF Queued
<1> QED BY <1>1 DEF FailureTold

LEMMA CancelTells ==
    ASSUME NEW m, NEW s \in ShowRows, FailureTold(s)
    PROVE  FailureTold(CancelQueued(m, s))
<1> DEFINE r == CancelQueued(m, s)
<1>1. /\ r \in ShowRows
      /\ r.delivery = IF Queued(s) = {} THEN s.delivery ELSE "cancelled"
      /\ \A e \in EffectNames : s.effects[e] # "queued" => r.effects[e] = s.effects[e]
  BY CancelFacts
<1> HIDE DEF r
<1>2. CASE Queued(s) = {}
  <2>1. \A e \in EffectNames : r.effects[e] = s.effects[e]
    BY <1>1, <1>2 DEF Queued
  <2> QED BY <1>1, <1>2, <2>1, SameTells DEF r
<1>3. CASE Queued(s) # {}
  BY <1>1, <1>3 DEF FailureTold, r
<1> QED BY <1>2, <1>3

LEMMA HiddenTells ==
    ASSUME NEW m \in MoneyRows, NEW s \in ShowRows, RowOK(m, s), FailureTold(s)
    PROVE  FailureTold(Hidden(m, s))
<1> DEFINE undelivered == Queued(s) # {} \/ s.moderation = "held" \/ m.payment = "pending"
           gone == IF Queued(s) = {} THEN s ELSE PaidCancelled(EffectsCancelled(s))
           next == IF undelivered /\ gone.delivery \in {"queued", "awaiting_payment"}
                   THEN "cancelled" ELSE gone.delivery
           r    == Hidden(m, s)
<1>1. /\ r \in ShowRows
      /\ \A e \in EffectNames : s.effects[e] # "queued" => r.effects[e] = s.effects[e]
  BY HiddenFacts
<1>2. gone.delivery = s.delivery /\ "delivery" \in DOMAIN gone
  BY DEF PaidCancelled, EffectsCancelled, ShowRows
<1>3. s.moderation # "hidden" => r.delivery = next
  <2> HIDE DEF undelivered, gone
  <2>1. s.moderation # "hidden" =>
          r = [gone EXCEPT !.moderation = "hidden",
                           !.delivery = IF undelivered /\ @ \in {"queued", "awaiting_payment"}
                                        THEN "cancelled" ELSE @,
                           !.alert = IF @ = "shown" THEN "hidden" ELSE @]
    BY DEF Hidden, undelivered, gone
  <2> HIDE DEF r
  <2> QED BY <1>2, <2>1
<1>4. s.moderation = "hidden" => r = s
  BY DEF Hidden
<1> HIDE DEF r, gone
<1>5. CASE Queued(s) = {}
  <2>1. \A e \in EffectNames : r.effects[e] = s.effects[e]
    BY <1>1, <1>5 DEF Queued
  <2>2. r.delivery \in {s.delivery, "cancelled"}
    BY <1>2, <1>3, <1>4
  <2> QED BY <1>1, <2>1, <2>2, SameTells DEF r
<1>6. CASE Queued(s) # {}
  <2>1. s.moderation # "hidden" /\ s.delivery = "queued"
    BY <1>6 DEF RowOK, QueueOK
  <2> QED BY <1>2, <1>3, <1>6, <2>1 DEF FailureTold, r
<1> QED BY <1>5, <1>6

LEMMA ReleaseTells ==
    ASSUME NEW m, NEW s \in ShowRows, s.moderation = "visible", s.delivery = "queued"
    PROVE  FailureTold(Release(m, s))
<1> DEFINE effects == [e \in EffectNames |->
                          IF s.effects[e] # "none" THEN s.effects[e]
                          ELSE IF e = "overlay_alert" THEN "delivered"
                          ELSE IF e \in ChatEffects(m) THEN "queued" ELSE "none"]
           shown   == [s EXCEPT !.alert = IF @ = "none" THEN "shown" ELSE @,
                                !.effects = effects]
<1>1. effects \in [EffectNames -> EffectStates]
  BY DEF ShowRows, EffectStates
<1>2. shown \in ShowRows /\ shown.moderation = "visible" /\ shown.delivery = "queued"
  <2> HIDE DEF effects
  <2> QED BY <1>1 DEF ShowRows
<1>3. Release(m, s) = RecomputeDelivery(m, shown)
  BY DEF Release
<1> HIDE DEF shown
<1> QED BY <1>2, <1>3, RecomputeTells

LEMMA RestoredTells ==
    ASSUME NEW m \in MoneyRows, NEW s \in ShowRows, RowOK(m, s), FailureTold(s)
    PROVE  FailureTold(Restored(m, s))
<1> DEFINE release == m.payment = "settled" /\ s.alert = "none"
           shown   == [s EXCEPT !.moderation = "visible",
                                !.delivery = IF release THEN "queued" ELSE @,
                                !.alert = IF @ = "hidden" THEN "shown" ELSE @]
<1>1. Restored(m, s) = IF s.moderation = "visible" THEN s
                       ELSE IF release THEN Release(m, shown) ELSE shown
  BY DEF Restored
<1> HIDE DEF release
<1>2. /\ shown \in ShowRows /\ shown.effects = s.effects /\ shown.moderation = "visible"
      /\ shown.delivery = IF release THEN "queued" ELSE s.delivery
  BY DEF ShowRows, ModerationStates, DeliveryStates
<1> HIDE DEF shown
<1>3. release => FailureTold(Release(m, shown))
  BY <1>2, ReleaseTells
<1>4. ~release => FailureTold(shown)
  BY <1>2, SameTells
<1> QED BY <1>1, <1>3, <1>4

LEMMA ReversedTells ==
    ASSUME NEW m \in MoneyRows, NEW s \in ShowRows, NEW take \in Nat,
           s.uncounted <= s.counted, FailureTold(s)
    PROVE  FailureTold(ReversedShow(m, s, take))
<1> DEFINE goal      == IF m.test THEN s
                        ELSE [s EXCEPT !.uncounted = @ + Smaller(take, s.counted - @)]
           cancelled == CancelQueued(m, goal)
           paid      == [PaidCancelled(cancelled) EXCEPT !.delivery = "cancelled"]
<1>1. goal.effects = s.effects /\ goal.delivery = s.delivery
  BY DEF ShowRows
<1>2. goal \in ShowRows
  <2>1. s.uncounted \in Nat /\ s.counted \in Nat
    BY DEF ShowRows
  <2>2. s.uncounted + Smaller(take, s.counted - s.uncounted) \in Nat
    BY <2>1 DEF Smaller
  <2> QED BY <2>2 DEF ShowRows
<1>3. ReversedShow(m, s, take) = cancelled \/ ReversedShow(m, s, take) = Publish(m, paid, "cancelled")
  BY DEF ReversedShow
<1> HIDE DEF goal
<1>4. FailureTold(goal)
  BY <1>1, <1>2, SameTells
<1>5. cancelled \in ShowRows /\ FailureTold(cancelled)
  BY <1>2, <1>4, CancelFacts, CancelTells
<1> HIDE DEF cancelled
<1>6. paid \in ShowRows /\ paid.delivery = "cancelled"
  BY <1>5 DEF PaidCancelled, ShowRows, DeliveryStates
<1> HIDE DEF paid
<1>7. Publish(m, paid, "cancelled").delivery = "cancelled"
  BY <1>6, PublishFacts DEF EventTypes
<1> QED BY <1>3, <1>5, <1>7 DEF FailureTold

LEMMA DoneTells ==
    ASSUME NEW m \in MoneyRows, NEW s \in ShowRows, RowOK(m, s), FailureTold(s),
           NEW e \in EffectNames
    PROVE  FailureTold(EffectDone(m, s, e))
<1> DEFINE done == WithEffect(s, e, "delivered")
<1>1. CASE s.effects[e] # "queued"
  BY <1>1 DEF EffectDone
<1>2. CASE s.effects[e] = "queued"
  <2>1. s.moderation = "visible" /\ s.delivery = "queued"
    BY <1>2 DEF RowOK, QueueOK, Queued
  <2>2. done \in ShowRows /\ done.moderation = s.moderation /\ done.delivery = s.delivery
    BY DEF WithEffect, ShowRows, EffectStates
  <2>3. EffectDone(m, s, e) = RecomputeDelivery(m, done)
    BY <1>2 DEF EffectDone
  <2> HIDE DEF done
  <2> QED BY <2>1, <2>2, <2>3, RecomputeTells
<1> QED BY <1>1, <1>2

LEMMA GivenUpTells ==
    ASSUME NEW m \in MoneyRows, NEW s \in ShowRows, RowOK(m, s), FailureTold(s),
           NEW e \in EffectNames
    PROVE  FailureTold(EffectFailed(m, s, e))
<1> DEFINE effects == [s.effects EXCEPT ![e] = IF @ = "queued" THEN "failed" ELSE @]
           paid == IF CarriesPaid(e) /\ s.paid = "queued" THEN "failed" ELSE s.paid
           t == [s EXCEPT !.effects = effects, !.paid = paid]
<1>1. EffectFailed(m, s, e) = RecomputeDelivery(m, t)
  <2>1. t = [s EXCEPT !.effects[e] = IF @ = "queued" THEN "failed" ELSE @,
                      !.paid = IF CarriesPaid(e) /\ @ = "queued" THEN "failed" ELSE @]
    BY DEF ShowRows
  <2> QED BY <2>1 DEF EffectFailed
<1>2. /\ effects \in [EffectNames -> EffectStates]
      /\ s.effects[e] # "queued" => \A f \in EffectNames : effects[f] = s.effects[f]
  BY DEF ShowRows, EffectStates
<1>3. paid \in {"none", "queued", "delivered", "failed", "cancelled"}
  BY DEF ShowRows
<1> HIDE DEF effects, paid
<1>4. /\ t \in ShowRows /\ t.effects = effects
      /\ t.moderation = s.moderation /\ t.delivery = s.delivery
  BY <1>2, <1>3 DEF ShowRows
<1> HIDE DEF t
<1>5. CASE s.effects[e] # "queued"
  <2>1. FailureTold(t)
    BY <1>2, <1>4, <1>5, SameTells
  <2> QED BY <1>1, <1>4, <2>1, RecomputeTells
<1>6. CASE s.effects[e] = "queued"
  <2>1. s.moderation = "visible" /\ s.delivery = "queued"
    BY <1>6 DEF RowOK, QueueOK, Queued
  <2> QED BY <1>1, <1>4, <2>1, RecomputeTells
<1> QED BY <1>5, <1>6

-----------------------------------------------------------------------------
(* What a settlement shows *)

\* The effects of a tip that was just released.
Begun(m) ==
    [e \in EffectNames |-> IF e = "overlay_alert" THEN "delivered"
                           ELSE IF e \in ChatEffects(m) THEN "queued" ELSE "none"]

\* The delivery of a tip that was just released.
Begins(m) == IF \E e \in EffectNames : Begun(m)[e] = "queued" THEN "queued" ELSE "delivered"

LEMMA BegunTypes ==
    ASSUME NEW m
    PROVE  /\ Begun(m) \in [EffectNames -> EffectStates]
           /\ \A e \in EffectNames : Begun(m)[e] \in {"none", "queued", "delivered"}
           /\ Begins(m) \in {"queued", "delivered"}
BY DEF Begun, Begins, EffectStates

\* Recomputing the delivery of what was just released.
LEMMA RecomputeBegun ==
    ASSUME NEW m, NEW s \in ShowRows, s.effects = Begun(m), s.delivery \in {"queued", "delivered"}
    PROVE  RecomputeDelivery(m, s).delivery = Begins(m)
<1> DEFINE states == {s.effects[e] : e \in EffectNames} \ {"none"}
           next   == IF "queued" \in states THEN "queued"
                     ELSE IF "failed" \in states THEN "failed" ELSE "delivered"
           moved  == [s EXCEPT !.delivery = next]
<1>1. "failed" \notin states
  BY BegunTypes
<1>2. next = Begins(m)
  BY <1>1 DEF Begins
<1>3. states # {}
  <2>1. s.effects["overlay_alert"] = "delivered" /\ "overlay_alert" \in EffectNames
    BY DEF Begun, EffectNames
  <2> QED BY <2>1
<1>4. \/ RecomputeDelivery(m, s) = s /\ s.delivery = next
      \/ RecomputeDelivery(m, s) = moved
  <2>1. next # "failed"
    BY <1>1
  <2> QED BY <1>3, <2>1 DEF RecomputeDelivery
<1>5. moved.delivery = next
  BY DEF ShowRows
<1> HIDE DEF moved, next
<1> QED BY <1>2, <1>4, <1>5

\* Releasing a tip of which nothing was shown.
LEMMA ReleaseUnshown ==
    ASSUME NEW m, NEW s \in ShowRows, s.moderation = "visible", s.delivery = "queued",
           s.alert = "none", \A e \in EffectNames : s.effects[e] = "none"
    PROVE  LET r == Release(m, s)
           IN  /\ r \in ShowRows /\ r.moderation = "visible" /\ r.alert = "shown"
               /\ r.paid = s.paid /\ r.effects = Begun(m) /\ r.delivery = Begins(m)
<1> DEFINE shown == [s EXCEPT !.alert = IF @ = "none" THEN "shown" ELSE @, !.effects = Begun(m)]
<1>1. [e \in EffectNames |-> IF s.effects[e] # "none" THEN s.effects[e]
                            ELSE IF e = "overlay_alert" THEN "delivered"
                            ELSE IF e \in ChatEffects(m) THEN "queued" ELSE "none"] = Begun(m)
  BY DEF Begun
<1>2. Release(m, s) = RecomputeDelivery(m, shown)
  BY <1>1 DEF Release
<1>3. shown \in ShowRows /\ shown.effects = Begun(m) /\ shown.delivery = "queued"
  BY BegunTypes DEF ShowRows
<1> HIDE DEF shown
<1>4. Release(m, s).effects = Begun(m) /\ Release(m, s).delivery = Begins(m)
  BY <1>2, <1>3, RecomputeFacts, RecomputeBegun DEF SameShow
<1> QED BY <1>4, ReleaseFacts

\* What the worker, Chat and the moderators have of a row: s and t are the same to them.
SameInDelivery(s, t) ==
    /\ s.delivery = t.delivery /\ s.moderation = t.moderation
    /\ s.effects = t.effects /\ s.alert = t.alert /\ s.paid = t.paid

\* What a settlement shows depends on moderation alone, not on the goal or what was announced.
LEMMA SettledParts ==
    ASSUME NEW m \in MoneyRows, NEW s \in ShowRows, Unshown(s),
           s.moderation \in {"visible", "hidden"}, NEW hold \in BOOLEAN, NEW goal \in BOOLEAN
    PROVE  LET r     == SettledShow(m, s, hold, goal)
               shown == s.moderation = "visible" /\ ~hold
           IN  /\ r.moderation = IF s.moderation = "hidden" THEN "hidden"
                                 ELSE IF hold THEN "held" ELSE "visible"
               /\ r.paid = IF HasPaidRow(m) THEN "queued" ELSE "none"
               /\ r.alert = IF shown THEN "shown" ELSE "none"
               /\ r.effects = IF shown THEN Begun(m) ELSE [e \in EffectNames |-> "none"]
               /\ r.delivery = IF s.moderation = "hidden" THEN "cancelled"
                               ELSE IF hold THEN "queued" ELSE Begins(m)
<1> DEFINE none     == [e \in EffectNames |-> "none"]
           state    == IF s.moderation = "hidden" THEN "cancelled" ELSE "queued"
           seen     == IF hold /\ s.moderation = "visible" THEN "held" ELSE s.moderation
           queued   == [s EXCEPT
                          !.delivery = IF s.moderation = "hidden" THEN "cancelled" ELSE "queued",
                          !.paid = IF HasPaidRow(m) /\ @ = "none" THEN "queued" ELSE @]
           screened == IF hold /\ queued.moderation = "visible"
                       THEN [queued EXCEPT !.moderation = "held"] ELSE queued
           counted  == IF goal /\ ~m.test /\ screened.counted = 0
                       THEN [screened EXCEPT !.counted = m.amount] ELSE screened
           released == IF counted.moderation = "visible" THEN Release(m, counted) ELSE counted
           final    == RecomputeDelivery(m, released)
           paid     == IF HasPaidRow(m) THEN "queued" ELSE "none"
<1>1. s.effects = none
  BY DEF Unshown, ShowRows
<1>2. /\ queued \in ShowRows /\ queued.effects = none /\ queued.alert = "none"
      /\ queued.delivery = state /\ queued.moderation = s.moderation /\ queued.paid = paid
  BY <1>1 DEF ShowRows, DeliveryStates, Unshown
<1>3. SettledShow(m, s, hold, goal) = Publish(m, final, "ready")
  BY DEF SettledShow
<1> HIDE DEF queued, paid
<1>4. /\ screened \in ShowRows /\ screened.effects = none /\ screened.alert = "none"
      /\ screened.delivery = state /\ screened.moderation = seen /\ screened.paid = paid
  BY <1>2 DEF ShowRows, ModerationStates
<1> HIDE DEF screened
<1>5. /\ counted \in ShowRows /\ counted.effects = none /\ counted.alert = "none"
      /\ counted.delivery = state /\ counted.moderation = seen /\ counted.paid = paid
  BY <1>4 DEF ShowRows, MoneyRows
<1> HIDE DEF counted
<1>6. \A e \in EffectNames : counted.effects[e] = "none"
  BY <1>5
<1>7. /\ final \in ShowRows /\ final.moderation = seen /\ final.paid = paid
      /\ final.alert = (IF seen = "visible" THEN "shown" ELSE "none")
      /\ final.effects = (IF seen = "visible" THEN Begun(m) ELSE none)
      /\ final.delivery = (IF seen = "visible" THEN Begins(m) ELSE state)
  <2>1. CASE seen = "visible"
    <3>1. released = Release(m, counted) /\ state = "queued"
      BY <1>5, <2>1
    <3>2. /\ released \in ShowRows /\ released.moderation = "visible" /\ released.alert = "shown"
          /\ released.paid = paid /\ released.effects = Begun(m) /\ released.delivery = Begins(m)
      BY <1>5, <1>6, <2>1, <3>1, ReleaseUnshown
    <3> HIDE DEF released
    <3> QED BY <2>1, <3>2, RecomputeFacts, RecomputeBegun, BegunTypes DEF SameShow
  <2>2. CASE seen # "visible"
    <3>1. released = counted
      BY <1>5, <2>2
    <3> DEFINE states == {counted.effects[e] : e \in EffectNames} \ {"none"}
    <3>2. states = {}
      BY <1>6
    <3>3. state = "cancelled" \/ seen = "held"
      BY <2>2
    <3>4. RecomputeDelivery(m, counted) = counted
      BY <1>5, <3>2, <3>3 DEF RecomputeDelivery
    <3> QED BY <1>5, <2>2, <3>1, <3>4
  <2> QED BY <2>1, <2>2
<1> HIDE DEF final, released
<1>8. SameInDelivery(Publish(m, final, "ready"), final)
  BY <1>7 DEF Publish, ShowRows, SameInDelivery
<1> QED BY <1>3, <1>7, <1>8 DEF SameInDelivery, paid

\* Two tips that were not shown before are shown alike by a settlement.
LEMMA SettledAlike ==
    ASSUME NEW m \in MoneyRows, NEW s \in ShowRows, NEW t \in ShowRows, Unshown(s), Unshown(t),
           s.moderation \in {"visible", "hidden"}, t.moderation = s.moderation,
           NEW hold \in BOOLEAN, NEW goal \in BOOLEAN
    PROVE  SameInDelivery(SettledShow(m, s, hold, goal), SettledShow(m, t, hold, FALSE))
<1> DEFINE n  == FALSE
           p  == SettledShow(m, s, hold, goal)
           q  == SettledShow(m, t, hold, n)
<1>1. n \in BOOLEAN
  OBVIOUS
<1> HIDE DEF n
<1>2. /\ p.moderation = q.moderation /\ p.paid = q.paid /\ p.alert = q.alert
      /\ p.effects = q.effects /\ p.delivery = q.delivery
  BY <1>1, SettledParts
<1> HIDE DEF p, q
<1>3. SameInDelivery(p, q)
  BY <1>2 DEF SameInDelivery
<1> QED BY <1>3 DEF p, q, n

-----------------------------------------------------------------------------
(* What a settlement tells *)

\* Settling an unshown row, held, hidden or released, tells nothing false.
LEMMA SettledTells ==
    ASSUME NEW m \in MoneyRows, NEW s \in ShowRows, NEW hold \in BOOLEAN, NEW goal \in BOOLEAN,
           s.moderation \in {"visible", "hidden"}, s.alert = "none",
           \A e \in EffectNames : s.effects[e] = "none"
    PROVE  FailureTold(SettledShow(m, s, hold, goal))
<1> DEFINE queued   == [s EXCEPT
                          !.delivery = IF s.moderation = "hidden" THEN "cancelled" ELSE "queued",
                          !.paid = IF HasPaidRow(m) /\ @ = "none" THEN "queued" ELSE @]
           screened == IF hold /\ queued.moderation = "visible"
                       THEN [queued EXCEPT !.moderation = "held"] ELSE queued
           counted  == IF goal /\ ~m.test /\ screened.counted = 0
                       THEN [screened EXCEPT !.counted = m.amount] ELSE screened
           released == IF counted.moderation = "visible" THEN Release(m, counted) ELSE counted
           final    == RecomputeDelivery(m, released)
<1>1. /\ queued \in ShowRows /\ queued.effects = s.effects /\ queued.alert = "none"
      /\ queued.delivery \in {"queued", "cancelled"}
      /\ queued.moderation = "visible" => queued.delivery = "queued"
  BY DEF ShowRows, DeliveryStates
<1>2. SettledShow(m, s, hold, goal) = Publish(m, final, "ready")
  BY DEF SettledShow
<1> HIDE DEF queued
<1>3. /\ screened \in ShowRows /\ screened.effects = s.effects /\ screened.alert = "none"
      /\ screened.delivery \in {"queued", "cancelled"}
      /\ screened.moderation = "visible" => screened.delivery = "queued"
  BY <1>1 DEF ShowRows, ModerationStates
<1> HIDE DEF screened
<1>4. /\ counted \in ShowRows /\ counted.effects = s.effects /\ counted.alert = "none"
      /\ counted.delivery \in {"queued", "cancelled"}
      /\ counted.moderation = "visible" => counted.delivery = "queued"
  BY <1>3 DEF ShowRows, MoneyRows
<1> HIDE DEF counted
<1>5. FailureTold(counted)
  BY <1>4 DEF FailureTold
<1>6. released \in ShowRows /\ FailureTold(released)
  BY <1>4, <1>5, ReleaseFacts, ReleaseTells
<1> HIDE DEF released
<1>7. final \in ShowRows /\ FailureTold(final)
  BY <1>6, RecomputeFacts, RecomputeTells
<1> HIDE DEF final
<1>8. /\ Publish(m, final, "ready") \in ShowRows /\ Publish(m, final, "ready").delivery = final.delivery
      /\ Publish(m, final, "ready").effects = final.effects
  BY <1>7 DEF Publish, ShowRows, EventTypes
<1> QED BY <1>2, <1>7, <1>8, SameTells

=============================================================================
