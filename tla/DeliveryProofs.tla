--------------------------- MODULE DeliveryProofs ---------------------------
(***************************************************************************)
(* Proofs about Delivery, for any number of processes, tips, attempts and  *)
(* crashes and any size of a batch: a line is shown once, what is recorded *)
(* as delivered was posted, an effect is given up for a cause, the rows    *)
(* stay in order, and what the processes do to them is what Settlement has *)
(* of its effects worker, its moderators and its reversals.                *)
(***************************************************************************)
EXTENDS Delivery, InteractionProofs

-----------------------------------------------------------------------------
(* What the transactions do to an effect of the chat *)

Chat == EffectNames \ {"overlay_alert"}

\* An effect as it was, begun, or cancelled in the queue.
Forward(a, b) == a = b \/ (a = "none" /\ b = "queued") \/ (a = "queued" /\ b = "cancelled")

\* The chat deliveries are not the overlay's.
LEMMA ChatNamesOK == ChatNames \subseteq Chat
<1>1. ASSUME NEW m PROVE ChatEffects(m) \subseteq Chat
  <2>1. CASE m.kind = "paid_message"
    BY <2>1 DEF ChatEffects, Chat, EffectNames
  <2>2. CASE m.kind = "tts"
    BY <2>2 DEF ChatEffects, Chat, EffectNames
  <2>3. CASE m.kind = "media_request"
    BY <2>3 DEF ChatEffects, Chat, EffectNames
  <2>4. CASE m.kind \notin {"paid_message", "tts", "media_request"}
    BY <2>4 DEF ChatEffects, Chat, EffectNames
  <2> QED BY <2>1, <2>2, <2>3, <2>4
<1> QED BY <1>1 DEF ChatNames

LEMMA EffectParts ==
    ASSUME NEW e \in Effects
    PROVE  e[1] \in Tips /\ e[2] \in Chat /\ e[2] \in EffectNames /\ e = <<e[1], e[2]>>
BY ChatNamesOK DEF Effects, Chat

\* Cancelling the queue, when hidden, reversed or unpaid, moves the queued only.
LEMMA CancelForward ==
    ASSUME NEW m, NEW s \in ShowRows, NEW n \in Chat
    PROVE  Forward(s.effects[n], CancelQueued(m, s).effects[n])
<1>1. n \in EffectNames
  BY DEF Chat
<1> QED BY <1>1, CancelFacts DEF Forward

LEMMA HiddenForward ==
    ASSUME NEW m \in MoneyRows, NEW s \in ShowRows, RowOK(m, s), NEW n \in Chat
    PROVE  Forward(s.effects[n], Hidden(m, s).effects[n])
<1>1. n \in EffectNames
  BY DEF Chat
<1>2. CASE s.effects[n] # "queued"
  BY <1>1, <1>2, HiddenFacts DEF Forward
<1>3. CASE s.effects[n] = "queued"
  <2> DEFINE effects == [e \in EffectNames |->
                            IF s.effects[e] = "queued" THEN "cancelled" ELSE s.effects[e]]
             gone == [s EXCEPT !.effects = effects]
             cancelled == PaidCancelled(gone)
             undelivered == Queued(s) # {} \/ s.moderation = "held" \/ m.payment = "pending"
  <2>1. Queued(s) # {} /\ s.moderation = "visible"
    BY <1>1, <1>3 DEF Queued, RowOK, QueueOK
  <2>2. Hidden(m, s) = [cancelled EXCEPT
                          !.moderation = "hidden",
                          !.delivery = IF undelivered /\ @ \in {"queued", "awaiting_payment"}
                                       THEN "cancelled" ELSE @,
                          !.alert = IF @ = "shown" THEN "hidden" ELSE @]
    BY <2>1 DEF Hidden, EffectsCancelled
  <2>3. effects[n] = "cancelled"
    BY <1>1, <1>3
  <2> HIDE DEF effects, undelivered
  <2>4. gone.effects = effects
    BY DEF ShowRows
  <2>5. cancelled.effects = gone.effects
    BY DEF PaidCancelled, ShowRows
  <2> HIDE DEF cancelled
  <2>6. Hidden(m, s).effects = cancelled.effects
    <3>1. "effects" \in DOMAIN cancelled
      BY DEF cancelled, PaidCancelled, ShowRows
    <3> QED BY <2>2, <3>1
  <2> QED BY <1>3, <2>3, <2>4, <2>5, <2>6 DEF Forward
<1> QED BY <1>2, <1>3

\* What a release begins is queued.
LEMMA ReleaseForward ==
    ASSUME NEW m, NEW s \in ShowRows, NEW n \in Chat
    PROVE  Forward(s.effects[n], Release(m, s).effects[n])
<1> DEFINE effects == [f \in EffectNames |->
                          IF s.effects[f] # "none" THEN s.effects[f]
                          ELSE IF f = "overlay_alert" THEN "delivered"
                          ELSE IF f \in ChatEffects(m) THEN "queued" ELSE "none"]
           shown   == [s EXCEPT !.alert = IF @ = "none" THEN "shown" ELSE @,
                                !.effects = effects]
<1>1. n \in EffectNames /\ n # "overlay_alert"
  BY DEF Chat
<1>2. effects \in [EffectNames -> EffectStates] /\ Forward(s.effects[n], effects[n])
  BY <1>1 DEF ShowRows, EffectStates, Forward
<1>3. shown \in ShowRows /\ shown.effects = effects
  <2> HIDE DEF effects
  <2> QED BY <1>2 DEF ShowRows
<1>4. Release(m, s) = RecomputeDelivery(m, shown)
  BY DEF Release
<1> HIDE DEF shown
<1> QED BY <1>2, <1>3, <1>4, RecomputeFacts DEF SameShow

LEMMA RestoredForward ==
    ASSUME NEW m \in MoneyRows, NEW s \in ShowRows, NEW n \in Chat
    PROVE  Forward(s.effects[n], Restored(m, s).effects[n])
<1> DEFINE release == m.payment = "settled" /\ s.alert = "none"
           shown   == [s EXCEPT !.moderation = "visible",
                                !.delivery = IF release THEN "queued" ELSE @,
                                !.alert = IF @ = "hidden" THEN "shown" ELSE @]
<1>1. CASE s.moderation = "visible"
  BY <1>1 DEF Restored, Forward
<1>2. CASE s.moderation # "visible"
  <2>1. Restored(m, s) = IF release THEN Release(m, shown) ELSE shown
    BY <1>2 DEF Restored
  <2> HIDE DEF release
  <2>2. shown \in ShowRows /\ shown.effects = s.effects
    BY DEF ShowRows, ModerationStates, DeliveryStates
  <2> HIDE DEF shown
  <2>3. Forward(shown.effects[n], Release(m, shown).effects[n])
    BY <2>2, ReleaseForward
  <2> QED BY <2>1, <2>2, <2>3 DEF Forward
<1> QED BY <1>1, <1>2

LEMMA ReversedForward ==
    ASSUME NEW m \in MoneyRows, NEW s \in ShowRows, NEW take \in Nat, NEW n \in Chat,
           s.uncounted <= s.counted
    PROVE  Forward(s.effects[n], ReversedShow(m, s, take).effects[n])
<1> DEFINE goal      == IF m.test THEN s
                        ELSE [s EXCEPT !.uncounted = @ + Smaller(take, s.counted - @)]
           cancelled == CancelQueued(m, goal)
           paid      == [PaidCancelled(cancelled) EXCEPT !.delivery = "cancelled"]
<1>1. goal.effects = s.effects
  BY DEF ShowRows
<1>2. goal \in ShowRows
  <2>1. /\ s.uncounted \in Nat /\ s.counted \in Nat
    BY DEF ShowRows
  <2>2. s.uncounted + Smaller(take, s.counted - s.uncounted) \in Nat
    BY <2>1 DEF Smaller
  <2> QED BY <2>2 DEF ShowRows
<1>3. cancelled \in ShowRows /\ Forward(goal.effects[n], cancelled.effects[n])
  BY <1>2, CancelFacts, CancelForward
<1>4. ReversedShow(m, s, take) = cancelled \/ ReversedShow(m, s, take) = Publish(m, paid, "cancelled")
  BY DEF ReversedShow
<1> HIDE DEF goal, cancelled
<1>5. paid \in ShowRows /\ paid.effects = cancelled.effects
  BY <1>3 DEF PaidCancelled, ShowRows, DeliveryStates
<1> HIDE DEF paid
<1>6. Publish(m, paid, "cancelled").effects = paid.effects
  BY <1>5, PublishFacts DEF SameShow, EventTypes
<1> QED BY <1>1, <1>3, <1>4, <1>5, <1>6

\* A settlement begins the chat deliveries or leaves them to a moderator.
LEMMA SettledForward ==
    ASSUME NEW m \in MoneyRows, NEW seen \in {"visible", "hidden"}, NEW hold \in BOOLEAN,
           NEW n \in Chat
    PROVE  SettledShow(m, BeforePayment(seen), hold, FALSE).effects[n] \in {"none", "queued"}
<1>1. /\ BeforePayment(seen) \in ShowRows /\ Unshown(BeforePayment(seen))
      /\ BeforePayment(seen).moderation = seen
  BY DEF BeforePayment, NoShow, Unshown, ShowRows, DeliveryStates, ModerationStates, EffectStates,
         EventTypes
<1>2. n \in EffectNames /\ n # "overlay_alert"
  BY DEF Chat
<1>3. Begun(m)[n] \in {"none", "queued"}
  BY <1>2 DEF Begun
<1> DEFINE u == BeforePayment(seen)
           r == SettledShow(m, u, hold, FALSE)
<1>4. r.effects = IF u.moderation = "visible" /\ ~hold THEN Begun(m)
                  ELSE [e \in EffectNames |-> "none"]
  <2>1. u \in ShowRows /\ Unshown(u) /\ u.moderation \in {"visible", "hidden"}
    BY <1>1
  <2> DEFINE goal == FALSE
  <2>2. goal \in BOOLEAN
    OBVIOUS
  <2> HIDE DEF u, goal
  <2>3. SettledShow(m, u, hold, goal).effects =
          IF u.moderation = "visible" /\ ~hold THEN Begun(m) ELSE [e \in EffectNames |-> "none"]
    BY <2>1, <2>2, SettledParts
  <2> QED BY <2>3 DEF goal
<1> HIDE DEF r
<1>5. r.effects[n] \in {"none", "queued"}
  BY <1>2, <1>3, <1>4
<1> QED BY <1>5 DEF r

-----------------------------------------------------------------------------
(* What the marks do *)

\* markDone(): the effect is delivered if it was queued.
LEMMA DoneFacts ==
    ASSUME NEW m \in MoneyRows, NEW s \in ShowRows, RowOK(m, s), NEW e \in EffectNames
    PROVE  LET r == EffectDone(m, s, e)
           IN  /\ r \in ShowRows /\ RowOK(m, r)
               /\ \A f \in EffectNames : f # e => r.effects[f] = s.effects[f]
               /\ r.effects[e] = IF s.effects[e] = "queued" THEN "delivered" ELSE s.effects[e]
<1>1. CASE s.effects[e] # "queued"
  BY <1>1 DEF EffectDone
<1>2. CASE s.effects[e] = "queued"
  <2>1. e \in Queued(s)
    BY <1>2 DEF Queued
  <2> DEFINE done == WithEffect(s, e, "delivered")
  <2>2. EffectDone(m, s, e) = RecomputeDelivery(m, done)
    BY <1>2 DEF EffectDone
  <2>3. done \in ShowRows /\ done.effects[e] = "delivered"
    BY DEF WithEffect, ShowRows, EffectStates
  <2> HIDE DEF done
  <2>4. RecomputeDelivery(m, done).effects[e] = "delivered"
    BY <2>3, RecomputeFacts DEF SameShow
  <2> QED BY <1>2, <2>1, <2>2, <2>4, EffectDoneFacts
<1> QED BY <1>1, <1>2

\* markFailed(), the last: the effect fails if it was queued.
LEMMA GivenUpFacts ==
    ASSUME NEW m \in MoneyRows, NEW s \in ShowRows, RowOK(m, s), NEW e \in EffectNames, IsPaid(m)
    PROVE  LET r == EffectFailed(m, s, e)
           IN  /\ r \in ShowRows /\ RowOK(m, r)
               /\ \A f \in EffectNames : f # e => r.effects[f] = s.effects[f]
               /\ r.effects[e] = IF s.effects[e] = "queued" THEN "failed" ELSE s.effects[e]
<1> DEFINE t == [s EXCEPT !.effects[e] = IF @ = "queued" THEN "failed" ELSE @,
                          !.paid = IF CarriesPaid(e) /\ @ = "queued" THEN "failed" ELSE @]
           r == RecomputeDelivery(m, t)
<1>1. EffectFailed(m, s, e) = r
  BY DEF EffectFailed
<1>2. /\ t \in ShowRows
      /\ t.effects[e] = IF s.effects[e] = "queued" THEN "failed" ELSE s.effects[e]
      /\ \A f \in EffectNames : f # e => t.effects[f] = s.effects[f]
      /\ t.delivery = s.delivery /\ t.moderation = s.moderation /\ t.alert = s.alert
      /\ t.counted = s.counted /\ t.uncounted = s.uncounted /\ t.events = s.events
  <2> DEFINE effects == [s.effects EXCEPT ![e] = IF @ = "queued" THEN "failed" ELSE @]
             paid == IF CarriesPaid(e) /\ s.paid = "queued" THEN "failed" ELSE s.paid
  <2>1. t = [s EXCEPT !.effects = effects, !.paid = paid]
    BY DEF ShowRows
  <2>2. /\ effects \in [EffectNames -> EffectStates]
        /\ effects[e] = IF s.effects[e] = "queued" THEN "failed" ELSE s.effects[e]
        /\ \A f \in EffectNames : f # e => effects[f] = s.effects[f]
    BY DEF ShowRows, EffectStates
  <2>3. paid \in {"none", "queued", "delivered", "failed", "cancelled"}
    BY DEF ShowRows
  <2> HIDE DEF effects, paid
  <2>4. /\ [s EXCEPT !.effects = effects, !.paid = paid] \in ShowRows
        /\ [s EXCEPT !.effects = effects, !.paid = paid].effects = effects
    BY <2>2, <2>3 DEF ShowRows
  <2>5. LET q == [s EXCEPT !.effects = effects, !.paid = paid]
        IN  /\ q.delivery = s.delivery /\ q.moderation = s.moderation /\ q.alert = s.alert
            /\ q.counted = s.counted /\ q.uncounted = s.uncounted /\ q.events = s.events
    BY DEF ShowRows
  <2> HIDE DEF t
  <2> QED BY <2>1, <2>2, <2>4, <2>5
<1> HIDE DEF t
<1>3. r \in ShowRows /\ SameShow(t, r)
  BY <1>2, RecomputeFacts
<1>4. CASE s.effects[e] = "queued"
  <2>1. e \in Queued(s)
    BY <1>4 DEF Queued
  <2> QED BY <1>1, <1>2, <1>3, <2>1, OutcomeFacts DEF SameShow
<1>5. CASE s.effects[e] # "queued"
  <2>1. \A f \in EffectNames : t.effects[f] = s.effects[f]
    BY <1>2, <1>5
  <2>2. Queued(t) = Queued(s)
    BY <2>1 DEF Queued
  <2>3. /\ s.delivery \in {"cancelled", "awaiting_payment"} => r.delivery = s.delivery
        /\ s.delivery \in {"queued", "failed", "delivered"} /\ s.moderation # "held" =>
             (r.delivery = "queued" <=> Queued(s) # {})
        /\ s.moderation = "held" => r.delivery = s.delivery
    <3>1. s.moderation = "held" => r = t
      <4>1. s.moderation = "held" => {t.effects[f] : f \in EffectNames} \ {"none"} = {}
        BY <2>1 DEF RowOK, AlertOK
      <4> QED BY <1>2, <4>1 DEF RecomputeDelivery
    <3>2. /\ t.delivery \in {"cancelled", "awaiting_payment"} => r.delivery = t.delivery
          /\ t.delivery \in {"queued", "failed", "delivered"} /\ t.moderation # "held" =>
               (r.delivery = "queued" <=> Queued(t) # {})
      BY <1>2, RecomputeFacts
    <3> HIDE DEF r
    <3> QED BY <1>2, <2>2, <3>1, <3>2
  <2> HIDE DEF r
  <2>4. /\ Queued(r) = Queued(s) /\ r.moderation = s.moderation /\ r.alert = s.alert
        /\ \A f \in EffectNames : r.effects[f] = s.effects[f]
        /\ r.counted = s.counted /\ r.uncounted = s.uncounted /\ r.events["ready"] = s.events["ready"]
    BY <1>2, <1>3, <2>1, <2>2 DEF SameShow, Queued
  <2>5. s.delivery \in {"awaiting_payment", "queued", "delivered", "failed", "cancelled"}
    BY DEF ShowRows, DeliveryStates
  <2>6. QueueOK(m, r) /\ (r.delivery = "queued" => m.payment = "settled")
    BY <2>3, <2>4, <2>5 DEF RowOK, QueueOK
  <2>7. AlertOK(r) /\ CountOK(m, r) /\ ReadyOK(m, r) /\ UnpaidOK(m, r)
    BY <2>4 DEF RowOK, AlertOK, CountOK, ReadyOK, UnpaidOK
  <2>8. RowOK(m, r)
    BY <2>6, <2>7 DEF RowOK
  <2> QED BY <1>1, <1>3, <1>5, <2>4, <2>8
<1> QED BY <1>4, <1>5

\* Cancelling what is queued of a row that was paid leaves a good row.
LEMMA CancelledOK ==
    ASSUME NEW m \in MoneyRows, NEW s \in ShowRows, RowOK(m, s), IsPaid(m)
    PROVE  CancelQueued(m, s) \in ShowRows /\ RowOK(m, CancelQueued(m, s))
<1> DEFINE r == CancelQueued(m, s)
<1>1. /\ r \in ShowRows /\ Queued(r) = {}
      /\ r.moderation = s.moderation /\ r.alert = s.alert
      /\ r.counted = s.counted /\ r.uncounted = s.uncounted
      /\ r.events["ready"] = s.events["ready"]
      /\ r.delivery = IF Queued(s) = {} THEN s.delivery ELSE "cancelled"
      /\ \A e \in EffectNames :
            /\ s.effects[e] # "queued" => r.effects[e] = s.effects[e]
            /\ s.effects[e] = "queued" => r.effects[e] = "cancelled"
  BY CancelFacts
<1> HIDE DEF r
<1>2. QueueOK(m, r) /\ (r.delivery = "queued" => m.payment = "settled")
  BY <1>1 DEF RowOK, QueueOK
<1>3. AlertOK(r)
  BY <1>1 DEF RowOK, AlertOK
<1>4. CountOK(m, r) /\ ReadyOK(m, r) /\ UnpaidOK(m, r)
  BY <1>1 DEF RowOK, CountOK, ReadyOK, UnpaidOK
<1> QED BY <1>1, <1>2, <1>3, <1>4 DEF RowOK, r

-----------------------------------------------------------------------------
(* The inductive invariant *)

LineOf(e) == [effect |-> e, part |-> "line"]

\* Every tip was paid, and nothing was taken back from one that is settled.
RowsInOrder ==
    \A i \in Tips : /\ RowOK(money[i], show[i])
                    /\ IsPaid(money[i])
                    /\ money[i].payment = "settled" => money[i].reversed = 0

\* The attempts of an effect that can be claimed are failures; one that ended ended for
\* a cause; a line is there once it was applied.
EffectOK(e) ==
    /\ StateOf(e) \in {"none", "queued"} => attempts[e] <= failures[e]
    /\ StateOf(e) = "delivered" => LineOf(e) \in applied
    /\ StateOf(e) = "failed" => e \in refused \/ failures[e] = MaxAttempts
    /\ lines[e] = IF LineOf(e) \in applied THEN 1 ELSE 0

\* What a process knows of the effect in hand still holds when it acts on it.
WorkerOK(w) ==
    LET e == worker[w].effect
    IN  /\ ~At(w, "idle") /\ ~At(w, "next") => StateOf(e) # "none"
        /\ At(w, "unseen") => StateOf(e) # "queued"
        /\ At(w, "alerting") \/ At(w, "sent") => LineOf(e) \in applied
        /\ At(w, "refused") => e \in refused
        /\ \A f \in Effects : worker[w].seen[f] <= failures[f]

IInv ==
    /\ TypeOK
    /\ RowsInOrder
    /\ \A e \in Effects : EffectOK(e)
    /\ \A w \in Workers : WorkerOK(w)

\* What every step leaves true: an effect that is there stays, one that ended stays ended,
\* and failures, refusals and the keys Chat applied only grow.
Progress ==
    /\ \A e \in Effects :
          /\ StateOf(e) # "none" => StateOf(e)' # "none"
          /\ StateOf(e) \notin {"none", "queued"} => StateOf(e)' # "queued"
          /\ failures[e] <= failures'[e]
    /\ applied \subseteq applied' /\ refused \subseteq refused'

\* What a process knows holds while the others work.
LEMMA StillKnows ==
    ASSUME TypeOK, TypeOK', Progress, NEW w \in Workers, WorkerOK(w), worker'[w] = worker[w]
    PROVE  WorkerOK(w)'
<1> DEFINE e == worker[w].effect
<1>1. At(w, "idle")' = At(w, "idle") /\ At(w, "next")' = At(w, "next")
  BY DEF At
<1>2. /\ At(w, "unseen")' = At(w, "unseen") /\ At(w, "alerting")' = At(w, "alerting")
      /\ At(w, "sent")' = At(w, "sent") /\ At(w, "refused")' = At(w, "refused")
  BY DEF At
<1>3. worker'[w].effect = e /\ worker'[w].seen = worker[w].seen
  OBVIOUS
<1>4. ~At(w, "idle") /\ ~At(w, "next") => e \in Effects
  BY DEF TypeOK, At, Jobs
<1>5. \A f \in Effects : worker[w].seen[f] <= failures'[f]
  <2> TAKE f \in Effects
  <2>1. worker[w].seen[f] <= failures[f] /\ failures[f] <= failures'[f]
    BY DEF WorkerOK, Progress
  <2>2. worker[w].seen[f] \in Nat /\ failures[f] \in Nat /\ failures'[f] \in Nat
    BY DeliveryConstantsOK DEF TypeOK, Jobs
  <2> QED BY <2>1, <2>2
<1>7. /\ At(w, "unseen") => ~At(w, "idle") /\ ~At(w, "next")
      /\ At(w, "unseen") => StateOf(e) \notin {"none", "queued"}
  BY DEF At, WorkerOK
<1> QED BY <1>1, <1>2, <1>3, <1>4, <1>5, <1>7 DEF WorkerOK, Progress, StateOf

\* A transaction on a row, while what is about the queue and the chat stays as it was.
Quiet == UNCHANGED <<queue, chat, history, crashes>>

\* The rows after a transaction on the row of i that leaves m and s.
LEMMA ChangeFacts ==
    ASSUME IInv, NEW i \in Tips, NEW m \in MoneyRows, NEW s \in ShowRows,
           RowOK(m, s), IsPaid(m), m.payment = "settled" => m.reversed = 0,
           money' = [money EXCEPT ![i] = m], show' = [show EXCEPT ![i] = s],
           \A n \in Chat : Forward(show[i].effects[n], s.effects[n])
    PROVE  /\ money' \in [Tips -> MoneyRows] /\ show' \in [Tips -> ShowRows]
           /\ RowsInOrder'
           /\ \A e \in Effects : Forward(StateOf(e), StateOf(e)')
<1>1. money \in [Tips -> MoneyRows] /\ show \in [Tips -> ShowRows] /\ RowsInOrder
  BY DEF IInv, TypeOK
<1>2. money' \in [Tips -> MoneyRows] /\ show' \in [Tips -> ShowRows]
  BY <1>1
<1>3. \A j \in Tips : /\ money'[j] = IF j = i THEN m ELSE money[j]
                      /\ show'[j] = IF j = i THEN s ELSE show[j]
  BY <1>1
<1>4. RowsInOrder'
  BY <1>1, <1>3 DEF RowsInOrder
<1>5. ASSUME NEW e \in Effects PROVE Forward(StateOf(e), StateOf(e)')
  <2>1. e[1] \in Tips /\ e[2] \in Chat
    BY EffectParts
  <2>2. CASE e[1] = i
    BY <1>3, <2>1, <2>2 DEF StateOf
  <2>3. CASE e[1] # i
    <3>1. show'[e[1]] = show[e[1]]
      BY <1>3, <2>1, <2>3
    <3>2. StateOf(e)' = StateOf(e)
      BY <3>1 DEF StateOf
    <3> QED BY <3>2 DEF Forward
  <2> QED BY <2>2, <2>3
<1> QED BY <1>2, <1>4, <1>5

\* What only moves effects forward leaves every effect in order.
LEMMA ForwardKeeps ==
    ASSUME IInv, Quiet, \A e \in Effects : Forward(StateOf(e), StateOf(e)')
    PROVE  (\A e \in Effects : EffectOK(e)') /\ Progress
<1>1. attempts' = attempts /\ applied' = applied /\ lines' = lines /\ failures' = failures
      /\ refused' = refused
  BY DEF Quiet, queue, chat, history
<1>2. ASSUME NEW e \in Effects PROVE EffectOK(e)'
  <2>1. EffectOK(e) /\ Forward(StateOf(e), StateOf(e)')
    BY DEF IInv
  <2>2. StateOf(e)' \in {"none", "queued"} => StateOf(e) \in {"none", "queued"}
    BY <2>1 DEF Forward
  <2>3. StateOf(e)' \in {"delivered", "failed"} => StateOf(e) = StateOf(e)'
    BY <2>1 DEF Forward
  <2>4. LineOf(e)' = LineOf(e)
    BY DEF LineOf
  <2> QED BY <1>1, <2>1, <2>2, <2>3, <2>4 DEF EffectOK
<1>3. failures \in [Effects -> 0..MaxAttempts]
  BY DEF IInv, TypeOK
<1>4. ASSUME NEW e \in Effects
      PROVE  /\ StateOf(e) # "none" => StateOf(e)' # "none"
             /\ StateOf(e) \notin {"none", "queued"} => StateOf(e)' # "queued"
  <2>1. Forward(StateOf(e), StateOf(e)')
    OBVIOUS
  <2> QED BY <2>1 DEF Forward
<1>5. \A e \in Effects : failures[e] <= failures'[e]
  BY <1>1, <1>3, DeliveryConstantsOK
<1> QED BY <1>1, <1>2, <1>4, <1>5 DEF Progress

\* A transaction on a row, by whomever, preserves the invariant.
LEMMA TransactionStep ==
    ASSUME IInv, NEW i \in Tips, NEW m \in MoneyRows, NEW s \in ShowRows,
           RowOK(m, s), IsPaid(m), m.payment = "settled" => m.reversed = 0,
           money' = [money EXCEPT ![i] = m], show' = [show EXCEPT ![i] = s],
           \A n \in Chat : Forward(show[i].effects[n], s.effects[n]),
           Quiet, UNCHANGED worker
    PROVE  IInv'
<1>1. /\ money' \in [Tips -> MoneyRows] /\ show' \in [Tips -> ShowRows]
      /\ RowsInOrder'
      /\ \A e \in Effects : Forward(StateOf(e), StateOf(e)')
  BY ChangeFacts
<1>2. TypeOK'
  BY <1>1 DEF IInv, TypeOK, Quiet, queue, chat, history
<1>3. (\A e \in Effects : EffectOK(e)') /\ Progress
  BY <1>1, ForwardKeeps
<1>4. ASSUME NEW w \in Workers PROVE WorkerOK(w)'
  BY <1>2, <1>3, StillKnows DEF IInv
<1> QED BY <1>1, <1>2, <1>3, <1>4 DEF IInv

LEMMA RowFacts ==
    ASSUME IInv, NEW i \in Tips
    PROVE  /\ money[i] \in MoneyRows /\ show[i] \in ShowRows
           /\ RowOK(money[i], show[i]) /\ IsPaid(money[i])
           /\ money[i].payment = "settled" => money[i].reversed = 0
<1>1. money \in [Tips -> MoneyRows] /\ show \in [Tips -> ShowRows]
  BY DEF IInv, TypeOK
<1>2. RowsInOrder
  BY DEF IInv
<1>3. money[i] \in MoneyRows /\ show[i] \in ShowRows
  BY <1>1
<1>4. RowOK(money[i], show[i]) /\ IsPaid(money[i])
  BY <1>2 DEF RowsInOrder
<1>5. money[i].payment = "settled" => money[i].reversed = 0
  BY <1>2 DEF RowsInOrder
<1> QED BY <1>3, <1>4, <1>5

LEMMA HideStep ==
    ASSUME IInv, NEW i \in Tips, Hide(i)
    PROVE  IInv'
<1> DEFINE s == Hidden(money[i], show[i])
<1>1. money[i] \in MoneyRows /\ show[i] \in ShowRows /\ RowOK(money[i], show[i])
      /\ IsPaid(money[i]) /\ (money[i].payment = "settled" => money[i].reversed = 0)
  BY RowFacts
<1>2. s \in ShowRows /\ RowOK(money[i], s)
  BY <1>1, HiddenFacts
<1>3. \A n \in Chat : Forward(show[i].effects[n], s.effects[n])
  BY <1>1, HiddenForward
<1>4. show' = [show EXCEPT ![i] = s] /\ money' = [money EXCEPT ![i] = money[i]]
      /\ Quiet /\ UNCHANGED worker
  BY DEF Hide, Quiet, IInv, TypeOK
<1> HIDE DEF s
<1> QED BY <1>1, <1>2, <1>3, <1>4, TransactionStep

LEMMA RestoreStep ==
    ASSUME IInv, NEW i \in Tips, Restore(i)
    PROVE  IInv'
<1> DEFINE s == Restored(money[i], show[i])
<1>1. money[i] \in MoneyRows /\ show[i] \in ShowRows /\ RowOK(money[i], show[i])
      /\ IsPaid(money[i]) /\ (money[i].payment = "settled" => money[i].reversed = 0)
  BY RowFacts
<1>2. s \in ShowRows /\ RowOK(money[i], s)
  BY <1>1, RestoredFacts
<1>3. \A n \in Chat : Forward(show[i].effects[n], s.effects[n])
  BY <1>1, RestoredForward
<1>4. show' = [show EXCEPT ![i] = s] /\ money' = [money EXCEPT ![i] = money[i]]
      /\ Quiet /\ UNCHANGED worker
  BY DEF Restore, Quiet, IInv, TypeOK
<1> HIDE DEF s
<1> QED BY <1>1, <1>2, <1>3, <1>4, TransactionStep

LEMMA ReverseStep ==
    ASSUME IInv, NEW i \in Tips, Reverse(i)
    PROVE  IInv'
<1> DEFINE m == ReversedMoney(money[i], 1, money[i].amount)
           s == ReversedShow(m, show[i], money[i].amount)
<1>1. money[i] \in MoneyRows /\ show[i] \in ShowRows /\ RowOK(money[i], show[i])
      /\ IsPaid(money[i]) /\ money[i].reversed = 0
  <2>1. money[i].payment = "settled"
    BY DEF Reverse
  <2> QED BY <2>1, RowFacts
<1>2. money[i].amount \in Nat
  BY <1>1 DEF MoneyRows
<1>3. Taken(money[i], money[i].amount) = money[i].amount
  BY <1>1, <1>2 DEF Taken, Smaller
<1>4. m \in MoneyRows /\ s \in ShowRows /\ RowOK(m, s) /\ m.payment = "reversed"
  <2>1. 1 \in Nat
    OBVIOUS
  <2>2. LET n == ReversedMoney(money[i], 1, money[i].amount)
            q == ReversedShow(n, show[i], Taken(money[i], money[i].amount))
        IN  n \in MoneyRows /\ n.payment = "reversed" /\ q \in ShowRows /\ RowOK(n, q)
    BY <1>1, <1>2, <2>1, ReversedFacts
  <2> QED BY <1>3, <2>2
<1>5. show[i].uncounted <= show[i].counted
  BY <1>1 DEF RowOK, CountOK
<1>6. \A n \in Chat : Forward(show[i].effects[n], s.effects[n])
  <2> TAKE n \in Chat
  <2> HIDE DEF m
  <2>1. Forward(show[i].effects[n], ReversedShow(m, show[i], money[i].amount).effects[n])
    BY <1>1, <1>2, <1>4, <1>5, ReversedForward
  <2> QED BY <2>1
<1>7. money' = [money EXCEPT ![i] = m]
  BY DEF Reverse
<1>8. money'[i] = m
  BY <1>7 DEF IInv, TypeOK
<1>9. show' = [show EXCEPT ![i] = s] /\ Quiet /\ UNCHANGED worker
  BY <1>8 DEF Reverse, Quiet
<1>10. IsPaid(m) /\ m.payment # "settled"
  BY <1>4 DEF IsPaid
<1> HIDE DEF m, s
<1> QED BY <1>4, <1>6, <1>7, <1>9, <1>10, TransactionStep

-----------------------------------------------------------------------------
(* What a process does with its own state *)

\* The effect in hand is done with.
LEMMA OverFacts ==
    ASSUME IInv, NEW w \in Workers, worker[w].effect \in Effects, Over(w)
    PROVE  /\ worker' \in [Workers -> Jobs]
           /\ \A v \in Workers \ {w} : worker'[v] = worker[v]
           /\ worker'[w].pc \in {"idle", "next"}
           /\ \A f \in Effects : worker'[w].seen[f] <= worker[w].seen[f]
<1>1. worker \in [Workers -> Jobs] /\ worker[w] \in Jobs
  BY DEF IInv, TypeOK
<1> DEFINE pc   == IF worker[w].batch = {} THEN "idle" ELSE "next"
           seen == [worker[w].seen EXCEPT ![worker[w].effect] = 0]
           t    == [worker[w] EXCEPT !.effect = NoEffect, !.seen = seen, !.pc = pc]
<1>2. seen \in [Effects -> Nat] /\ \A f \in Effects : seen[f] <= worker[w].seen[f]
  <2>1. worker[w].seen \in [Effects -> Nat]
    BY <1>1 DEF Jobs
  <2> QED BY <2>1
<1>3. worker' = [worker EXCEPT ![w] = t]
  BY DEF Over
<1>4. t \in Jobs /\ t.pc \in {"idle", "next"} /\ t.seen = seen
  <2>1. pc \in {"idle", "next"}
    OBVIOUS
  <2> HIDE DEF seen, pc
  <2> QED BY <1>1, <1>2, <2>1 DEF Jobs
<1> HIDE DEF t, seen
<1> QED BY <1>1, <1>2, <1>3, <1>4

\* The next step of a process, with the same effect in hand.
LEMMA GotoFacts ==
    ASSUME IInv, NEW w \in Workers, NEW pc, Goto(w, pc),
           pc \in {"checked", "unpaid", "unseen", "sending", "alerting", "sent", "retry", "refused"}
    PROVE  /\ worker' \in [Workers -> Jobs]
           /\ \A v \in Workers \ {w} : worker'[v] = worker[v]
           /\ worker'[w].pc = pc /\ worker'[w].effect = worker[w].effect
           /\ worker'[w].seen = worker[w].seen
<1>1. worker \in [Workers -> Jobs] /\ worker[w] \in Jobs
  BY DEF IInv, TypeOK
<1> DEFINE t == [worker[w] EXCEPT !.pc = pc]
<1>2. worker' = [worker EXCEPT ![w] = t]
  BY <1>1 DEF Goto
<1>3. t \in Jobs /\ t.pc = pc /\ t.effect = worker[w].effect /\ t.seen = worker[w].seen
  BY <1>1 DEF Jobs
<1> HIDE DEF t
<1> QED BY <1>1, <1>2, <1>3

\* A process with an effect in hand knows that it is one of the effects.
LEMMA InHand ==
    ASSUME IInv, NEW w \in Workers, ~At(w, "idle"), ~At(w, "next")
    PROVE  worker[w].effect \in Effects /\ StateOf(worker[w].effect) # "none"
BY DEF IInv, TypeOK, At, WorkerOK

\* A process with nothing in hand knows nothing that could be stale.
LEMMA NothingInHand ==
    ASSUME TypeOK', NEW w \in Workers, worker'[w].pc \in {"idle", "next"},
           \A f \in Effects : worker'[w].seen[f] <= failures'[f]
    PROVE  WorkerOK(w)'
BY DEF WorkerOK, At

\* The types after a step of one process.
Alone(w) == \A v \in Workers \ {w} : worker'[v] = worker[v]

LEMMA WorkerStep ==
    ASSUME IInv, TypeOK', Progress, NEW w \in Workers, Alone(w), WorkerOK(w)',
           RowsInOrder', \A e \in Effects : EffectOK(e)'
    PROVE  IInv'
<1>1. ASSUME NEW v \in Workers, v # w PROVE WorkerOK(v)'
  BY <1>1, StillKnows DEF IInv, Alone
<1> QED BY <1>1 DEF IInv

\* The rows, the queue and the chat stay as they are.
LEMMA RowsStay ==
    ASSUME IInv, UNCHANGED rows
    PROVE  /\ money' \in [Tips -> MoneyRows] /\ show' \in [Tips -> ShowRows] /\ RowsInOrder'
           /\ \A e \in Effects : StateOf(e)' = StateOf(e)
<1>1. money' = money /\ show' = show
  BY DEF rows
<1>2. RowsInOrder'
  BY <1>1 DEF IInv, RowsInOrder
<1> QED BY <1>1, <1>2 DEF IInv, TypeOK, StateOf

LEMMA AllStays ==
    ASSUME IInv, UNCHANGED rows, UNCHANGED <<attempts, chat, history>>
    PROVE  RowsInOrder' /\ (\A e \in Effects : EffectOK(e)') /\ Progress
<1>1. RowsInOrder' /\ \A e \in Effects : StateOf(e)' = StateOf(e)
  BY RowsStay
<1>2. attempts' = attempts /\ applied' = applied /\ lines' = lines /\ failures' = failures
      /\ refused' = refused
  BY DEF chat, history
<1>3. ASSUME NEW e \in Effects PROVE EffectOK(e)'
  <2>1. EffectOK(e) /\ StateOf(e)' = StateOf(e)
    BY <1>1 DEF IInv
  <2>2. LineOf(e)' = LineOf(e)
    BY DEF LineOf
  <2> QED BY <1>2, <2>1, <2>2 DEF EffectOK
<1>4. \A e \in Effects : failures[e] <= failures'[e]
  BY <1>2, DeliveryConstantsOK DEF IInv, TypeOK
<1> QED BY <1>1, <1>2, <1>3, <1>4 DEF Progress

-----------------------------------------------------------------------------
(* The loop preserves the invariant *)

LEMMA ClaimStep ==
    ASSUME IInv, NEW w \in Workers, Claim(w)
    PROVE  IInv'
<1>1. PICK claimed \in SUBSET Due :
         /\ waiting' = [e \in Effects |-> waiting[e] \/ e \in claimed]
         /\ worker'  = [worker EXCEPT ![w] = [Nothing EXCEPT !.pc = "next", !.batch = claimed,
                                                            !.seen = SeenBy(claimed)]]
  BY DEF Claim
<1> DEFINE t == [Nothing EXCEPT !.pc = "next", !.batch = claimed, !.seen = SeenBy(claimed)]
<1>2. RowsInOrder' /\ (\A e \in Effects : EffectOK(e)') /\ Progress
  BY AllStays DEF Claim
<1>3. \A e \in claimed : e \in Effects /\ StateOf(e) = "queued"
  BY DEF Due
<1>4. SeenBy(claimed) \in [Effects -> Nat] /\ \A e \in Effects : SeenBy(claimed)[e] <= failures[e]
  <2> SUFFICES ASSUME NEW e \in Effects
               PROVE  LET n == IF e \in claimed THEN attempts[e] ELSE 0
                      IN  n \in Nat /\ n <= failures[e]
    BY DEF SeenBy
  <2>1. attempts[e] \in Nat /\ failures[e] \in Nat
    BY DeliveryConstantsOK DEF IInv, TypeOK
  <2>2. e \in claimed => attempts[e] <= failures[e]
    BY <1>3 DEF IInv, EffectOK
  <2> QED BY <2>1, <2>2
<1>5. t \in Jobs /\ t.pc = "next" /\ t.seen = SeenBy(claimed)
  <2>1. claimed \subseteq Effects
    BY <1>3
  <2> QED BY <1>4, <2>1 DEF Nothing, Jobs
<1> HIDE DEF t
<1>6. /\ worker' \in [Workers -> Jobs] /\ worker'[w] = t /\ Alone(w)
      /\ \A v \in Workers : worker'[v].pc \notin {"idle", "next"} => worker'[v].effect \in Effects
  BY <1>1, <1>5 DEF IInv, TypeOK, Alone, t
<1>7. TypeOK'
  <2>1. waiting' \in [Effects -> BOOLEAN]
    BY <1>1
  <2> QED BY <1>6, <2>1 DEF Claim, IInv, TypeOK, rows, chat, history
<1>8. failures' = failures
  BY DEF Claim, history
<1>9. WorkerOK(w)'
  BY <1>4, <1>5, <1>6, <1>7, <1>8, NothingInHand
<1> QED BY <1>2, <1>6, <1>7, <1>9, WorkerStep

LEMMA TimePassesStep ==
    ASSUME IInv, NEW e \in Effects, TimePasses(e)
    PROVE  IInv'
<1>1. RowsInOrder' /\ (\A f \in Effects : EffectOK(f)') /\ Progress
  BY AllStays DEF TimePasses
<1>2. TypeOK'
  BY DEF TimePasses, IInv, TypeOK, rows, chat, history
<1>3. ASSUME NEW w \in Workers PROVE WorkerOK(w)'
  BY <1>1, <1>2, StillKnows DEF IInv, TimePasses
<1> QED BY <1>1, <1>2, <1>3 DEF IInv

LEMMA CheckStep ==
    ASSUME IInv, NEW w \in Workers, Check(w)
    PROVE  IInv'
<1>1. PICK e \in worker[w].batch :
        LET rest == worker[w].batch \ {e}
        IN  worker' = IF StateOf(e) = "queued"
                      THEN [worker EXCEPT ![w].batch = rest, ![w].effect = e, ![w].pc = "checked"]
                      ELSE [worker EXCEPT ![w].batch = rest, ![w].seen[e] = 0,
                                          ![w].pc = IF rest = {} THEN "idle" ELSE "next"]
  BY DEF Check
<1> DEFINE rest == worker[w].batch \ {e}
           pc   == IF rest = {} THEN "idle" ELSE "next"
           seen == [worker[w].seen EXCEPT ![e] = 0]
<1>2. worker \in [Workers -> Jobs] /\ worker[w] \in Jobs
  BY DEF IInv, TypeOK
<1>3. e \in Effects /\ rest \in SUBSET Effects
  BY <1>2 DEF Jobs
<1>4. seen \in [Effects -> Nat] /\ \A f \in Effects : seen[f] <= worker[w].seen[f]
  <2>1. worker[w].seen \in [Effects -> Nat]
    BY <1>2 DEF Jobs
  <2> QED BY <1>3, <2>1
<1>5. RowsInOrder' /\ (\A f \in Effects : EffectOK(f)') /\ Progress
  BY AllStays DEF Check, queue
<1>6. failures' = failures /\ \A f \in Effects : StateOf(f)' = StateOf(f)
  BY RowsStay DEF Check, history
<1>7. \A f \in Effects : worker[w].seen[f] <= failures[f] /\ worker[w].seen[f] \in Nat
                         /\ failures[f] \in Nat
  BY <1>2, DeliveryConstantsOK DEF IInv, TypeOK, WorkerOK, Jobs
<1>8. /\ worker' \in [Workers -> Jobs] /\ Alone(w)
      /\ \/ /\ worker'[w].pc = "checked" /\ worker'[w].effect = e /\ StateOf(e) = "queued"
            /\ worker'[w].seen = worker[w].seen
         \/ worker'[w].pc \in {"idle", "next"} /\ worker'[w].seen = seen
  <2>1. CASE StateOf(e) = "queued"
    <3> DEFINE t == [worker[w] EXCEPT !.batch = rest, !.effect = e, !.pc = "checked"]
    <3>1. worker' = [worker EXCEPT ![w] = t]
      BY <1>1, <1>2, <2>1
    <3>2. t \in Jobs /\ t.pc = "checked" /\ t.effect = e /\ t.seen = worker[w].seen
      BY <1>2, <1>3 DEF Jobs
    <3> HIDE DEF t
    <3> QED BY <1>2, <2>1, <3>1, <3>2 DEF Alone
  <2>2. CASE StateOf(e) # "queued"
    <3> DEFINE t == [worker[w] EXCEPT !.batch = rest, !.seen = seen, !.pc = pc]
    <3>1. worker' = [worker EXCEPT ![w] = t]
      BY <1>1, <1>2, <2>2
    <3>2. t \in Jobs /\ t.pc \in {"idle", "next"} /\ t.seen = seen
      <4>1. pc \in {"idle", "next"}
        OBVIOUS
      <4> HIDE DEF pc, seen, rest
      <4> QED BY <1>2, <1>3, <1>4, <4>1 DEF Jobs
    <3> HIDE DEF t
    <3> QED BY <1>2, <3>1, <3>2 DEF Alone
  <2> QED BY <2>1, <2>2
<1> HIDE DEF seen
<1>9. TypeOK'
  <2>1. ASSUME NEW v \in Workers, worker'[v].pc \notin {"idle", "next"}
        PROVE  worker'[v].effect \in Effects
    BY <1>3, <1>8, <2>1 DEF Alone, IInv, TypeOK
  <2> QED BY <1>8, <2>1 DEF Check, IInv, TypeOK, rows, queue, chat, history
<1>10. WorkerOK(w)'
  <2>1. CASE worker'[w].pc \in {"idle", "next"} /\ worker'[w].seen = seen
    <3>1. \A f \in Effects : seen[f] <= failures'[f]
      BY <1>4, <1>6, <1>7
    <3> QED BY <1>9, <2>1, <3>1, NothingInHand
  <2>2. CASE /\ worker'[w].pc = "checked" /\ worker'[w].effect = e /\ StateOf(e) = "queued"
             /\ worker'[w].seen = worker[w].seen
    BY <1>3, <1>6, <1>7, <2>2 DEF WorkerOK, At, StateOf
  <2> QED BY <1>8, <2>1, <2>2
<1> QED BY <1>5, <1>8, <1>9, <1>10, WorkerStep

\* A step that moves a process on with the effect it has in hand, rows and queue as they are.
LEMMA MoveOn ==
    ASSUME IInv, NEW w \in Workers, NEW pc, Goto(w, pc),
           pc \in {"checked", "unpaid", "unseen", "sending", "alerting", "sent", "retry", "refused"},
           ~At(w, "idle"), ~At(w, "next"), UNCHANGED <<rows, queue, failures, crashes>>,
           applied' \subseteq Keys, lines' \in [Effects -> Nat], refused' \subseteq Effects,
           applied \subseteq applied', refused \subseteq refused',
           \A f \in Effects : lines'[f] = IF LineOf(f) \in applied' THEN 1 ELSE 0,
           pc = "unseen" => StateOf(worker[w].effect) # "queued",
           pc \in {"alerting", "sent"} => LineOf(worker[w].effect) \in applied',
           pc = "refused" => worker[w].effect \in refused'
    PROVE  IInv'
<1> DEFINE e == worker[w].effect
<1>1. e \in Effects /\ StateOf(e) # "none"
  BY InHand
<1>2. /\ worker' \in [Workers -> Jobs] /\ Alone(w) /\ worker'[w].pc = pc
      /\ worker'[w].effect = e /\ worker'[w].seen = worker[w].seen
  BY GotoFacts DEF Alone
<1>3. RowsInOrder' /\ \A f \in Effects : StateOf(f)' = StateOf(f)
  BY RowsStay
<1>4. attempts' = attempts /\ failures' = failures
  BY DEF queue
<1>5. ASSUME NEW f \in Effects PROVE EffectOK(f)'
  <2>1. EffectOK(f) /\ StateOf(f)' = StateOf(f) /\ LineOf(f)' = LineOf(f)
    BY <1>3 DEF IInv, LineOf
  <2> QED BY <1>4, <2>1 DEF EffectOK
<1>6. Progress
  <2>1. \A f \in Effects : failures[f] <= failures'[f]
    BY <1>4, DeliveryConstantsOK DEF IInv, TypeOK
  <2> QED BY <1>3, <2>1 DEF Progress
<1>7. TypeOK'
  <2>1. ASSUME NEW v \in Workers, worker'[v].pc \notin {"idle", "next"}
        PROVE  worker'[v].effect \in Effects
    BY <1>1, <1>2, <2>1 DEF Alone, IInv, TypeOK
  <2> QED BY <1>2, <2>1 DEF IInv, TypeOK, rows, queue
<1>8. WorkerOK(w)'
  <2>1. show' = show
    BY DEF rows
  <2>2. \A f \in Effects : worker'[w].seen[f] <= failures'[f]
    BY <1>2, <1>4 DEF IInv, WorkerOK
  <2> QED BY <1>1, <1>2, <2>1, <2>2 DEF WorkerOK, At, LineOf, StateOf
<1> QED BY <1>2, <1>3, <1>5, <1>6, <1>7, <1>8, WorkerStep

LEMMA LinesCounted ==
    ASSUME IInv
    PROVE  /\ \A f \in Effects : lines[f] = IF LineOf(f) \in applied THEN 1 ELSE 0
           /\ applied \subseteq Keys /\ lines \in [Effects -> Nat] /\ refused \subseteq Effects
BY DEF IInv, EffectOK, TypeOK

LEMMA LookStep ==
    ASSUME IInv, NEW w \in Workers, Look(w)
    PROVE  IInv'
<1> DEFINE e  == worker[w].effect
           pc == IF money[e[1]].payment # "settled" THEN "unpaid"
                 ELSE IF show[e[1]].moderation # "visible" THEN "unseen" ELSE "sending"
<1>1. At(w, "checked") /\ Goto(w, pc) /\ UNCHANGED <<rows, queue, chat, history, crashes>>
  BY DEF Look
<1>2. e \in Effects /\ ~At(w, "idle") /\ ~At(w, "next")
  BY <1>1, InHand DEF At
<1>3. ASSUME pc = "unseen" PROVE StateOf(e) # "queued"
  <2>1. e[1] \in Tips /\ e[2] \in EffectNames
    BY <1>2, EffectParts
  <2>2. RowOK(money[e[1]], show[e[1]]) /\ show[e[1]].moderation # "visible"
    BY <1>3, <2>1, RowFacts
  <2>3. Queued(show[e[1]]) = {}
    BY <2>2 DEF RowOK, QueueOK
  <2> QED BY <2>1, <2>3 DEF Queued, StateOf
<1>4. pc \in {"unpaid", "unseen", "sending"}
  OBVIOUS
<1> HIDE DEF pc
<1>5. /\ applied' = applied /\ lines' = lines /\ refused' = refused
      /\ UNCHANGED <<rows, queue, failures, crashes>>
  BY <1>1 DEF chat, history
<1> QED BY <1>1, <1>2, <1>3, <1>4, <1>5, MoveOn, LinesCounted

LEMMA PostLineStep ==
    ASSUME IInv, NEW w \in Workers, PostLine(w)
    PROVE  IInv'
<1> DEFINE e == worker[w].effect
<1>1. e \in Effects /\ ~At(w, "idle") /\ ~At(w, "next")
  BY InHand DEF PostLine, At
<1>2. LineKey(w) = LineOf(e)
  BY DEF LineKey, LineOf
<1>3. /\ applied' = applied \cup {LineOf(e)}
      /\ lines' = IF LineOf(e) \in applied THEN lines ELSE [lines EXCEPT ![e] = @ + 1]
  BY <1>2 DEF PostLine, ChatApplies
<1>4. applied' \subseteq Keys /\ lines' \in [Effects -> Nat]
  <2>1. LineOf(e) \in Keys
    BY <1>1 DEF LineOf, Keys
  <2> QED BY <1>1, <1>3, <2>1, LinesCounted
<1>5. ASSUME NEW f \in Effects PROVE lines'[f] = IF LineOf(f) \in applied' THEN 1 ELSE 0
  <2>1. LineOf(f) = LineOf(e) => f = e
    BY DEF LineOf
  <2>2. lines[f] = IF LineOf(f) \in applied THEN 1 ELSE 0
    BY LinesCounted
  <2>3. lines \in [Effects -> Nat]
    BY LinesCounted
  <2>4. CASE f = e
    BY <1>1, <1>3, <2>2, <2>3, <2>4
  <2>5. CASE f # e
    BY <1>1, <1>3, <2>1, <2>2, <2>3, <2>5
  <2> QED BY <2>4, <2>5
<1>6. refused' = refused /\ UNCHANGED <<rows, queue, failures, crashes>>
  BY DEF PostLine, history
<1>7. PICK pc \in {"sent", "alerting", "retry"} : Goto(w, pc)
  BY DEF PostLine
<1> QED BY <1>1, <1>3, <1>4, <1>5, <1>6, <1>7, MoveOn, LinesCounted

LEMMA PostUnavailableStep ==
    ASSUME IInv, NEW w \in Workers, PostUnavailable(w)
    PROVE  IInv'
<1>1. ~At(w, "idle") /\ ~At(w, "next") /\ Goto(w, "retry")
  BY DEF PostUnavailable, At
<1>2. /\ applied' = applied /\ lines' = lines /\ refused' = refused
      /\ UNCHANGED <<rows, queue, failures, crashes>>
  BY DEF PostUnavailable, chat, history
<1> QED BY <1>1, <1>2, MoveOn, LinesCounted

LEMMA PostRefusedStep ==
    ASSUME IInv, NEW w \in Workers, PostRefused(w)
    PROVE  IInv'
<1>1. ~At(w, "idle") /\ ~At(w, "next") /\ Goto(w, "refused") /\ worker[w].effect \in Effects
  BY InHand DEF PostRefused, At
<1>2. /\ applied' = applied /\ lines' = lines /\ refused' = refused \cup {worker[w].effect}
      /\ UNCHANGED <<rows, queue, failures, crashes>>
  BY DEF PostRefused, chat
<1> QED BY <1>1, <1>2, MoveOn, LinesCounted

LEMMA PostAlertStep ==
    ASSUME IInv, NEW w \in Workers, PostAlert(w)
    PROVE  IInv'
<1> DEFINE e == worker[w].effect
           key == [effect |-> e, part |-> "alert"]
<1>1. ~At(w, "idle") /\ ~At(w, "next") /\ e \in Effects /\ LineOf(e) \in applied
  <2>1. ~At(w, "idle") /\ ~At(w, "next") /\ At(w, "alerting")
    BY DEF PostAlert, At
  <2> QED BY <2>1, InHand DEF IInv, WorkerOK
<1>2. PICK pc \in {"sent", "retry"} : Goto(w, pc)
  BY DEF PostAlert
<1>3. applied' = applied \/ applied' = applied \cup {key}
  BY DEF PostAlert
<1>4. key \in Keys /\ \A f \in Effects : LineOf(f) # key
  BY <1>1 DEF Keys, LineOf
<1>5. /\ lines' = lines /\ refused' = refused
      /\ UNCHANGED <<rows, queue, failures, crashes>>
  BY DEF PostAlert, history
<1> HIDE DEF key
<1>6. applied' \subseteq Keys /\ applied \subseteq applied'
      /\ \A f \in Effects : LineOf(f) \in applied' <=> LineOf(f) \in applied
  BY <1>3, <1>4, LinesCounted
<1> QED BY <1>1, <1>2, <1>5, <1>6, MoveOn, LinesCounted

-----------------------------------------------------------------------------
(* Results, and processes that die *)

LEMMA CancelUnpaidStep ==
    ASSUME IInv, NEW w \in Workers, CancelUnpaid(w)
    PROVE  IInv'
<1> DEFINE i == worker[w].effect[1]
           s == CancelQueued(money[i], show[i])
<1>1. worker[w].effect \in Effects
  BY InHand DEF CancelUnpaid, At
<1>2. i \in Tips
  BY <1>1, EffectParts
<1>3. /\ money[i] \in MoneyRows /\ show[i] \in ShowRows /\ RowOK(money[i], show[i])
      /\ IsPaid(money[i]) /\ (money[i].payment = "settled" => money[i].reversed = 0)
  BY <1>2, RowFacts
<1>4. s \in ShowRows /\ RowOK(money[i], s)
  BY <1>3, CancelledOK
<1>5. \A n \in Chat : Forward(show[i].effects[n], s.effects[n])
  BY <1>3, CancelForward
<1>6. /\ money' = [money EXCEPT ![i] = money[i]] /\ show' = [show EXCEPT ![i] = s]
      /\ Quiet /\ Over(w)
  BY DEF CancelUnpaid, Quiet, IInv, TypeOK
<1> HIDE DEF s
<1>7. /\ money' \in [Tips -> MoneyRows] /\ show' \in [Tips -> ShowRows]
      /\ RowsInOrder'
      /\ \A e \in Effects : Forward(StateOf(e), StateOf(e)')
  BY <1>2, <1>3, <1>4, <1>5, <1>6, ChangeFacts
<1>8. (\A e \in Effects : EffectOK(e)') /\ Progress
  BY <1>6, <1>7, ForwardKeeps
<1>9. /\ worker' \in [Workers -> Jobs] /\ Alone(w) /\ worker'[w].pc \in {"idle", "next"}
      /\ \A f \in Effects : worker'[w].seen[f] <= worker[w].seen[f]
  BY <1>1, <1>6, OverFacts DEF Alone
<1>10. TypeOK'
  <2>1. ASSUME NEW v \in Workers, worker'[v].pc \notin {"idle", "next"}
        PROVE  worker'[v].effect \in Effects
    BY <1>9, <2>1 DEF Alone, IInv, TypeOK
  <2> QED BY <1>6, <1>7, <1>9, <2>1 DEF IInv, TypeOK, Quiet, queue, chat, history
<1>11. \A f \in Effects : worker'[w].seen[f] <= failures'[f]
  <2> TAKE f \in Effects
  <2>1. failures' = failures
    BY <1>6 DEF Quiet, history
  <2>2. worker[w].seen[f] <= failures[f]
    BY DEF IInv, WorkerOK
  <2>3. worker[w].seen[f] \in Nat /\ worker'[w].seen[f] \in Nat /\ failures[f] \in Nat
    BY <1>9, DeliveryConstantsOK DEF IInv, TypeOK, Jobs
  <2> QED BY <1>9, <2>1, <2>2, <2>3
<1>12. WorkerOK(w)'
  BY <1>9, <1>10, <1>11, NothingInHand
<1> QED BY <1>7, <1>8, <1>9, <1>10, <1>12, WorkerStep

\* A process that is done with its effect, whatever it wrote of it.
LEMMA DoneWith ==
    ASSUME IInv, NEW w \in Workers, worker[w].effect \in Effects, Over(w),
           money' = money, show' \in [Tips -> ShowRows], RowsInOrder',
           attempts' \in [Effects -> Nat], waiting' \in [Effects -> BOOLEAN],
           failures' \in [Effects -> 0..MaxAttempts],
           UNCHANGED <<chat, refused, crashes>>, Progress,
           \A e \in Effects : EffectOK(e)'
    PROVE  IInv'
<1>1. /\ worker' \in [Workers -> Jobs] /\ Alone(w) /\ worker'[w].pc \in {"idle", "next"}
      /\ \A f \in Effects : worker'[w].seen[f] <= worker[w].seen[f]
  BY OverFacts DEF Alone
<1>2. TypeOK'
  <2>1. ASSUME NEW v \in Workers, worker'[v].pc \notin {"idle", "next"}
        PROVE  worker'[v].effect \in Effects
    BY <1>1, <2>1 DEF Alone, IInv, TypeOK
  <2> QED BY <1>1, <2>1 DEF IInv, TypeOK, chat
<1>3. \A f \in Effects : worker'[w].seen[f] <= failures'[f]
  <2> TAKE f \in Effects
  <2>1. failures[f] <= failures'[f]
    BY DEF Progress
  <2>2. worker[w].seen[f] <= failures[f]
    BY DEF IInv, WorkerOK
  <2>3. /\ worker[w].seen[f] \in Nat /\ worker'[w].seen[f] \in Nat
        /\ failures[f] \in Nat /\ failures'[f] \in Nat
    BY <1>1, DeliveryConstantsOK DEF IInv, TypeOK, Jobs
  <2> QED BY <1>1, <2>1, <2>2, <2>3
<1>4. WorkerOK(w)'
  BY <1>1, <1>2, <1>3, NothingInHand
<1> QED BY <1>1, <1>2, <1>4, WorkerStep

LEMMA CancelUnseenStep ==
    ASSUME IInv, NEW w \in Workers, CancelUnseen(w)
    PROVE  IInv'
<1> DEFINE e == worker[w].effect
<1>1. e \in Effects /\ StateOf(e) # "queued"
  BY InHand DEF CancelUnseen, At, IInv, WorkerOK
<1>2. show' = show /\ money' = money /\ Over(w) /\ UNCHANGED <<queue, chat, history, crashes>>
  BY <1>1 DEF CancelUnseen
<1>3. RowsInOrder' /\ (\A f \in Effects : EffectOK(f)') /\ Progress
  BY <1>2, AllStays DEF rows, queue
<1>4. /\ show' \in [Tips -> ShowRows] /\ attempts' \in [Effects -> Nat]
      /\ waiting' \in [Effects -> BOOLEAN] /\ failures' \in [Effects -> 0..MaxAttempts]
      /\ UNCHANGED <<chat, refused, crashes>>
  BY <1>2 DEF IInv, TypeOK, queue, history
<1> QED BY <1>1, <1>2, <1>3, <1>4, DoneWith

LEMMA CrashStep ==
    ASSUME IInv, NEW w \in Workers, Crash(w)
    PROVE  IInv'
<1>1. RowsInOrder' /\ (\A e \in Effects : EffectOK(e)') /\ Progress
  BY AllStays DEF Crash, queue
<1>2. Nothing \in Jobs /\ Nothing.pc = "idle" /\ \A f \in Effects : Nothing.seen[f] = 0
  BY DEF Nothing, Jobs
<1>3. worker' \in [Workers -> Jobs] /\ worker'[w] = Nothing /\ Alone(w)
  BY <1>2 DEF Crash, IInv, TypeOK, Alone
<1>4. TypeOK'
  <2>1. ASSUME NEW v \in Workers, worker'[v].pc \notin {"idle", "next"}
        PROVE  worker'[v].effect \in Effects
    BY <1>2, <1>3, <2>1 DEF Alone, IInv, TypeOK
  <2> QED BY <1>3, <2>1 DEF Crash, IInv, TypeOK, rows, queue, chat, history
<1>5. \A f \in Effects : worker'[w].seen[f] <= failures'[f]
  BY <1>2, <1>3, <1>4, DeliveryConstantsOK DEF TypeOK
<1>6. WorkerOK(w)'
  BY <1>2, <1>3, <1>4, <1>5, NothingInHand
<1> QED BY <1>1, <1>3, <1>4, <1>6, WorkerStep

\* The rows after the mark of an effect.
LEMMA MarkRow ==
    ASSUME IInv, NEW e \in Effects, NEW s \in ShowRows, RowOK(money[e[1]], s),
           \A f \in EffectNames : f # e[2] => s.effects[f] = show[e[1]].effects[f],
           money' = money, show' = [show EXCEPT ![e[1]] = s]
    PROVE  /\ show' \in [Tips -> ShowRows] /\ RowsInOrder'
           /\ StateOf(e)' = s.effects[e[2]]
           /\ \A f \in Effects : f # e => StateOf(f)' = StateOf(f)
<1>1. show \in [Tips -> ShowRows] /\ RowsInOrder /\ e[1] \in Tips
  BY EffectParts DEF IInv, TypeOK
<1>2. show' \in [Tips -> ShowRows]
  BY <1>1
<1>3. \A j \in Tips : show'[j] = IF j = e[1] THEN s ELSE show[j]
  BY <1>1
<1>4. RowsInOrder'
  BY <1>1, <1>3 DEF RowsInOrder
<1>5. ASSUME NEW f \in Effects, f # e PROVE StateOf(f)' = StateOf(f)
  <2>1. f[1] \in Tips /\ f[2] \in EffectNames /\ f = <<f[1], f[2]>> /\ e = <<e[1], e[2]>>
    BY EffectParts
  <2>2. CASE f[1] = e[1]
    <3>1. f[2] # e[2]
      BY <1>5, <2>1, <2>2
    <3> QED BY <1>3, <2>1, <2>2, <3>1 DEF StateOf
  <2>3. CASE f[1] # e[1]
    BY <1>3, <2>1, <2>3 DEF StateOf
  <2> QED BY <2>2, <2>3
<1>6. StateOf(e)' = s.effects[e[2]]
  BY <1>1, <1>3 DEF StateOf
<1> QED BY <1>2, <1>4, <1>5, <1>6

LEMMA MarkDoneStep ==
    ASSUME IInv, NEW w \in Workers, MarkDone(w)
    PROVE  IInv'
<1>0. PICK e \in Effects : e = worker[w].effect
  BY InHand DEF MarkDone, At
<1> DEFINE s == EffectDone(money[e[1]], show[e[1]], e[2])
<1>1. e \in Effects /\ StateOf(e) # "none" /\ LineOf(e) \in applied
  BY <1>0, InHand DEF MarkDone, At, IInv, WorkerOK
<1>2. e[1] \in Tips /\ e[2] \in EffectNames
  BY <1>1, EffectParts
<1>3. /\ s \in ShowRows /\ RowOK(money[e[1]], s)
      /\ \A f \in EffectNames : f # e[2] => s.effects[f] = show[e[1]].effects[f]
      /\ s.effects[e[2]] = IF StateOf(e) = "queued" THEN "delivered" ELSE StateOf(e)
  BY <1>2, RowFacts, DoneFacts DEF StateOf
<1>4. /\ money' = money /\ show' = [show EXCEPT ![e[1]] = s]
      /\ Over(w) /\ waiting' = waiting /\ UNCHANGED <<chat, history, crashes>>
      /\ attempts' = IF StateOf(e) = "queued" THEN [attempts EXCEPT ![e] = @ + 1] ELSE attempts
  BY <1>0 DEF MarkDone
<1> HIDE DEF s
<1>5. /\ show' \in [Tips -> ShowRows] /\ RowsInOrder'
      /\ StateOf(e)' = s.effects[e[2]]
      /\ \A f \in Effects : f # e => StateOf(f)' = StateOf(f)
  BY <1>1, <1>3, <1>4, MarkRow
<1>6. applied' = applied /\ lines' = lines /\ failures' = failures /\ refused' = refused
  BY <1>4 DEF chat, history
<1>7. attempts' \in [Effects -> Nat] /\ \A f \in Effects : f # e => attempts'[f] = attempts[f]
  <2>1. attempts \in [Effects -> Nat]
    BY DEF IInv, TypeOK
  <2> QED BY <1>1, <1>4, <2>1
<1>8. ASSUME NEW f \in Effects PROVE EffectOK(f)'
  <2>1. EffectOK(f) /\ LineOf(f)' = LineOf(f)
    BY DEF IInv, LineOf
  <2>2. CASE f # e
    BY <1>5, <1>6, <1>7, <2>1, <2>2 DEF EffectOK
  <2>3. CASE f = e
    <3>1. StateOf(f)' \notin {"none", "queued"}
      BY <1>1, <1>3, <1>5, <2>3
    <3>2. StateOf(f)' = "failed" => StateOf(f) = "failed"
      BY <1>3, <1>5, <2>3
    <3> QED BY <1>1, <1>6, <2>1, <2>3, <3>1, <3>2 DEF EffectOK
  <2> QED BY <2>2, <2>3
<1>9. Progress
  <2>1. ASSUME NEW f \in Effects
        PROVE  /\ StateOf(f) # "none" => StateOf(f)' # "none"
               /\ StateOf(f) \notin {"none", "queued"} => StateOf(f)' # "queued"
    BY <1>3, <1>5
  <2>2. \A f \in Effects : failures[f] <= failures'[f]
    BY <1>6, DeliveryConstantsOK DEF IInv, TypeOK
  <2> QED BY <1>6, <2>1, <2>2 DEF Progress
<1>10. waiting' \in [Effects -> BOOLEAN] /\ failures' \in [Effects -> 0..MaxAttempts]
  BY <1>4, <1>6 DEF IInv, TypeOK
<1> QED BY <1>0, <1>4, <1>5, <1>6, <1>7, <1>8, <1>9, <1>10, DoneWith

LEMMA MarkFailedStep ==
    ASSUME IInv, NEW w \in Workers, MarkFailed(w)
    PROVE  IInv'
<1>0. PICK e \in Effects : e = worker[w].effect
  BY InHand DEF MarkFailed, At
<1> DEFINE n == worker[w].seen[e]
           s == IF IsFinal(w) THEN EffectFailed(money[e[1]], show[e[1]], e[2]) ELSE show[e[1]]
<1>1. e \in Effects /\ StateOf(e) # "none"
  BY <1>0, InHand DEF MarkFailed, At
<1>2. e[1] \in Tips /\ e[2] \in EffectNames
  BY <1>1, EffectParts
<1>3. n \in Nat /\ n <= failures[e] /\ failures[e] \in 0..MaxAttempts /\ attempts[e] \in Nat
  BY <1>1 DEF IInv, WorkerOK, TypeOK, Jobs
<1>4. At(w, "refused") => e \in refused
  BY <1>0 DEF IInv, WorkerOK
<1>5. /\ s \in ShowRows /\ RowOK(money[e[1]], s)
      /\ \A f \in EffectNames : f # e[2] => s.effects[f] = show[e[1]].effects[f]
      /\ s.effects[e[2]] = IF StateOf(e) = "queued" /\ IsFinal(w) THEN "failed" ELSE StateOf(e)
  <2>1. CASE IsFinal(w)
    BY <1>2, <2>1, RowFacts, GivenUpFacts DEF StateOf
  <2>2. CASE ~IsFinal(w)
    BY <1>2, <2>2, RowFacts DEF StateOf
  <2> QED BY <2>1, <2>2
<1>6. /\ money' = money /\ Over(w) /\ UNCHANGED <<chat, refused, crashes>>
      /\ failures' = [failures EXCEPT ![e] = Smaller(@ + 1, MaxAttempts)]
      /\ IF StateOf(e) = "queued"
         THEN /\ attempts' = [attempts EXCEPT ![e] = n + 1]
              /\ waiting'  = [waiting EXCEPT ![e] = TRUE]
         ELSE UNCHANGED queue
  BY <1>0 DEF MarkFailed
<1>7. show' = [show EXCEPT ![e[1]] = s]
  BY <1>0, <1>2 DEF MarkFailed, IInv, TypeOK
<1> HIDE DEF s
<1>8. /\ show' \in [Tips -> ShowRows] /\ RowsInOrder'
      /\ StateOf(e)' = s.effects[e[2]]
      /\ \A f \in Effects : f # e => StateOf(f)' = StateOf(f)
  BY <1>1, <1>5, <1>6, <1>7, MarkRow
<1>9. applied' = applied /\ lines' = lines /\ refused' = refused
  BY <1>6 DEF chat
<1>10. /\ attempts' \in [Effects -> Nat] /\ waiting' \in [Effects -> BOOLEAN]
       /\ \A f \in Effects : f # e => attempts'[f] = attempts[f]
       /\ attempts'[e] = IF StateOf(e) = "queued" THEN n + 1 ELSE attempts[e]
  <2>1. attempts \in [Effects -> Nat] /\ waiting \in [Effects -> BOOLEAN]
    BY DEF IInv, TypeOK
  <2> HIDE DEF n
  <2>2. CASE StateOf(e) = "queued"
    <3>1. attempts' = [attempts EXCEPT ![e] = n + 1] /\ waiting' = [waiting EXCEPT ![e] = TRUE]
      BY <1>6, <2>2
    <3>2. n + 1 \in Nat
      BY <1>3
    <3> QED BY <1>1, <2>1, <2>2, <3>1, <3>2
  <2>3. CASE StateOf(e) # "queued"
    BY <1>6, <2>1, <2>3 DEF queue
  <2> QED BY <2>2, <2>3
<1>11. /\ failures' \in [Effects -> 0..MaxAttempts]
       /\ \A f \in Effects : f # e => failures'[f] = failures[f]
       /\ failures'[e] = Smaller(failures[e] + 1, MaxAttempts)
       /\ \A f \in Effects : failures[f] <= failures'[f]
  <2>1. failures \in [Effects -> 0..MaxAttempts]
    BY DEF IInv, TypeOK
  <2>2. /\ Smaller(failures[e] + 1, MaxAttempts) \in 0..MaxAttempts
        /\ failures[e] <= Smaller(failures[e] + 1, MaxAttempts)
    BY <1>3, DeliveryConstantsOK DEF Smaller
  <2> QED BY <1>1, <1>6, <2>1, <2>2, DeliveryConstantsOK
<1>12. ASSUME NEW f \in Effects PROVE EffectOK(f)'
  <2>1. EffectOK(f) /\ LineOf(f)' = LineOf(f)
    BY DEF IInv, LineOf
  <2>2. CASE f # e
    BY <1>8, <1>9, <1>10, <1>11, <2>1, <2>2 DEF EffectOK
  <2>3. CASE f = e
    <3>1. ASSUME StateOf(e)' \in {"none", "queued"} PROVE attempts'[e] <= failures'[e]
      <4>1. StateOf(e) = "queued" /\ ~IsFinal(w)
        BY <1>1, <1>5, <1>8, <3>1
      <4>2. n + 1 < MaxAttempts
        BY <1>0, <1>3, <4>1, DeliveryConstantsOK DEF IsFinal
      <4> HIDE DEF n
      <4> QED BY <1>3, <1>10, <1>11, <4>1, <4>2, DeliveryConstantsOK DEF Smaller
    <3>2. ASSUME StateOf(e)' = "failed" PROVE e \in refused \/ failures'[e] = MaxAttempts
      <4>1. CASE StateOf(e) = "queued" /\ IsFinal(w)
        <5>1. At(w, "refused") \/ n + 1 >= MaxAttempts
          BY <1>0, <4>1 DEF IsFinal
        <5> HIDE DEF n
        <5>2. n + 1 >= MaxAttempts => failures'[e] = MaxAttempts
          BY <1>3, <1>11, DeliveryConstantsOK DEF Smaller
        <5> QED BY <1>4, <5>1, <5>2
      <4>2. CASE ~(StateOf(e) = "queued" /\ IsFinal(w))
        <5>1. StateOf(e) = "failed"
          BY <1>5, <1>8, <3>2, <4>2
        <5>2. failures[e] = MaxAttempts => failures'[e] = MaxAttempts
          BY <1>3, <1>11, DeliveryConstantsOK DEF Smaller
        <5> QED BY <2>1, <2>3, <5>1, <5>2 DEF EffectOK
      <4> QED BY <4>1, <4>2
    <3>3. StateOf(e)' = "delivered" => StateOf(e) = "delivered"
      BY <1>5, <1>8
    <3> QED BY <1>9, <2>1, <2>3, <3>1, <3>2, <3>3 DEF EffectOK
  <2> QED BY <2>2, <2>3
<1>13. Progress
  <2>1. ASSUME NEW f \in Effects
        PROVE  /\ StateOf(f) # "none" => StateOf(f)' # "none"
               /\ StateOf(f) \notin {"none", "queued"} => StateOf(f)' # "queued"
    BY <1>5, <1>8
  <2> QED BY <1>9, <1>11, <2>1 DEF Progress
<1> QED BY <1>0, <1>6, <1>8, <1>10, <1>11, <1>12, <1>13, DoneWith

-----------------------------------------------------------------------------
(* The theorems *)

\* What a settlement leaves is in order, and its chat effects are new.
LEMMA PaidFacts ==
    ASSUME NEW m \in Settled, NEW seen \in {"visible", "hidden"}, NEW hold \in BOOLEAN
    PROVE  LET s == SettledShow(m, BeforePayment(seen), hold, FALSE)
           IN  /\ m \in MoneyRows /\ s \in ShowRows /\ RowOK(m, s)
               /\ IsPaid(m) /\ m.payment = "settled" /\ m.reversed = 0
               /\ \A n \in Chat : s.effects[n] \in {"none", "queued"}
<1> DEFINE u == BeforePayment(seen)
<1>1. NoMoney \in MoneyRows /\ NoMoney.payment = "absent"
  BY DEF NoMoney, MoneyRows, AllKinds, PaymentStates
<1>2. /\ u \in ShowRows /\ u.moderation \in {"visible", "hidden"} /\ u.delivery = "awaiting_payment"
      /\ u.alert = "none" /\ u.paid = "none" /\ u.counted = 0 /\ u.uncounted = 0
      /\ u.events["ready"] = 0 /\ \A e \in EffectNames : u.effects[e] = "none"
  BY DEF BeforePayment, NoShow, ShowRows, DeliveryStates, ModerationStates, EffectStates, EventTypes
<1> HIDE DEF u
<1>3. RowOK(NoMoney, u)
  <2>1. Queued(u) = {}
    BY <1>2 DEF Queued
  <2>2. UnpaidOK(NoMoney, u)
    BY <1>2 DEF UnpaidOK, Unshown, NoMoney
  <2>3. QueueOK(NoMoney, u) /\ AlertOK(u)
    BY <1>2, <2>1 DEF QueueOK, AlertOK
  <2>4. CountOK(NoMoney, u) /\ ReadyOK(NoMoney, u)
    BY <1>2 DEF CountOK, ReadyOK, NoMoney, IsPaid
  <2> QED BY <1>2, <2>2, <2>3, <2>4 DEF RowOK
<1>4. m \in MoneyRows /\ m.payment = "settled" /\ m.reversed = 0
  BY DeliveryConstantsOK
<1>5. SettledMoney(m) = m
  BY <1>4 DEF SettledMoney, MoneyRows
<1>6. ~IsPaid(NoMoney) /\ IsPaid(m)
  BY <1>1, <1>4 DEF IsPaid
<1>7. LET n == SettledMoney(m)
      IN  SettledShow(n, u, hold, FALSE) \in ShowRows /\ RowOK(n, SettledShow(n, u, hold, FALSE))
  BY <1>1, <1>2, <1>3, <1>4, <1>6, SettledFacts
<1>8. \A n \in Chat : SettledShow(m, u, hold, FALSE).effects[n] \in {"none", "queued"}
  BY <1>4, SettledForward DEF u
<1> QED BY <1>4, <1>5, <1>6, <1>7, <1>8 DEF u

LEMMA InitRow ==
    ASSUME NEW i \in Tips, NEW seen \in [Tips -> {"visible", "hidden"}], NEW hold \in [Tips -> BOOLEAN],
           money \in [Tips -> Settled],
           show = [j \in Tips |-> SettledShow(money[j], BeforePayment(seen[j]), hold[j], FALSE)]
    PROVE  /\ money[i] \in MoneyRows /\ show[i] \in ShowRows /\ RowOK(money[i], show[i])
           /\ IsPaid(money[i]) /\ money[i].reversed = 0
           /\ \A n \in Chat : show[i].effects[n] \in {"none", "queued"}
<1> DEFINE h == hold[i]
           v == seen[i]
<1>1. money[i] \in Settled /\ v \in {"visible", "hidden"}
  OBVIOUS
<1>2. h \in BOOLEAN
  OBVIOUS
<1>3. show[i] = SettledShow(money[i], BeforePayment(v), h, FALSE)
  OBVIOUS
<1> DEFINE r == SettledShow(money[i], BeforePayment(v), h, FALSE)
<1> HIDE DEF h, v
<1>4. /\ money[i] \in MoneyRows /\ r \in ShowRows /\ RowOK(money[i], r)
      /\ IsPaid(money[i]) /\ money[i].reversed = 0
      /\ \A n \in Chat : r.effects[n] \in {"none", "queued"}
  BY <1>1, <1>2, PaidFacts
<1> HIDE DEF r
<1> QED BY <1>3, <1>4 DEF r

LEMMA InitOK == Init => IInv
<1> SUFFICES ASSUME Init PROVE IInv
  OBVIOUS
<1>1. PICK seen \in [Tips -> {"visible", "hidden"}], hold \in [Tips -> BOOLEAN] :
        /\ money \in [Tips -> Settled]
        /\ show = [i \in Tips |-> SettledShow(money[i], BeforePayment(seen[i]), hold[i], FALSE)]
  BY DEF Init
<1>2. ASSUME NEW i \in Tips
      PROVE  /\ money[i] \in MoneyRows /\ show[i] \in ShowRows /\ RowOK(money[i], show[i])
             /\ IsPaid(money[i]) /\ money[i].reversed = 0
             /\ \A n \in Chat : show[i].effects[n] \in {"none", "queued"}
  BY <1>1, InitRow
<1>3. money \in [Tips -> MoneyRows] /\ show \in [Tips -> ShowRows]
  BY <1>1, <1>2
<1>4. RowsInOrder
  BY <1>2 DEF RowsInOrder
<1>5. /\ attempts = [e \in Effects |-> 0] /\ waiting = [e \in Effects |-> FALSE]
      /\ worker = [w \in Workers |-> Nothing] /\ applied = {}
      /\ lines = [e \in Effects |-> 0] /\ failures = [e \in Effects |-> 0]
      /\ refused = {} /\ crashes = 0
  BY DEF Init
<1>6. Nothing \in Jobs /\ Nothing.pc = "idle" /\ \A f \in Effects : Nothing.seen[f] = 0
  BY DEF Nothing, Jobs
<1>7. TypeOK
  BY <1>3, <1>5, <1>6, DeliveryConstantsOK DEF TypeOK
<1>8. ASSUME NEW e \in Effects PROVE EffectOK(e)
  <2>1. StateOf(e) \in {"none", "queued"}
    BY <1>2, EffectParts DEF StateOf
  <2> QED BY <1>5, <2>1 DEF EffectOK
<1>9. ASSUME NEW w \in Workers PROVE WorkerOK(w)
  BY <1>5, <1>6 DEF WorkerOK, At
<1> QED BY <1>4, <1>7, <1>8, <1>9 DEF IInv

LEMMA StepOK == IInv /\ [Next]_vars => IInv'
<1> SUFFICES ASSUME IInv, [Next]_vars PROVE IInv'
  OBVIOUS
<1>1. ASSUME NEW w \in Workers, Working(w) PROVE IInv'
  BY <1>1, ClaimStep, CheckStep, LookStep, CancelUnpaidStep, CancelUnseenStep, PostLineStep,
     PostUnavailableStep, PostRefusedStep, PostAlertStep, MarkDoneStep, MarkFailedStep
     DEF Working
<1>2. ASSUME NEW w \in Workers, Crash(w) PROVE IInv'
  BY <1>2, CrashStep
<1>3. ASSUME NEW e \in Effects, TimePasses(e) PROVE IInv'
  BY <1>3, TimePassesStep
<1>4. ASSUME NEW i \in Tips, Hide(i) \/ Restore(i) \/ Reverse(i) PROVE IInv'
  BY <1>4, HideStep, RestoreStep, ReverseStep
<1>5. CASE UNCHANGED vars
  <2>1. /\ money' = money /\ show' = show /\ worker' = worker /\ UNCHANGED rows
        /\ UNCHANGED <<attempts, chat, history>>
    BY <1>5 DEF vars, rows, chat, history
  <2>2. RowsInOrder' /\ (\A e \in Effects : EffectOK(e)') /\ Progress
    BY <2>1, AllStays
  <2>3. TypeOK'
    BY <1>5 DEF IInv, TypeOK, vars
  <2>4. ASSUME NEW w \in Workers PROVE WorkerOK(w)'
    BY <2>1, <2>2, <2>3, StillKnows DEF IInv
  <2> QED BY <2>2, <2>3, <2>4 DEF IInv
<1> QED BY <1>1, <1>2, <1>3, <1>4, <1>5 DEF Next

\* The inductive invariant holds whatever the processes, crashes and moderators do.
THEOREM DeliveryInvariant == Spec => []IInv
<1>1. Init => IInv
  BY InitOK
<1>2. IInv /\ [Next]_vars => IInv'
  BY StepOK
<1> QED BY <1>1, <1>2, PTL DEF Spec

\* Every variable of the effects worker stays in its type.
THEOREM DeliveryTyped == Spec => []TypeOK
<1>1. IInv => TypeOK
  BY DEF IInv
<1> QED BY <1>1, DeliveryInvariant, PTL

\* However many processes send the same effect, viewers read its line once.
THEOREM LinesShownOnce == Spec => []LineOnce
<1>1. IInv => LineOnce
  BY DEF IInv, EffectOK, LineOnce
<1> QED BY <1>1, DeliveryInvariant, PTL

\* What any process recorded as delivered was posted.
THEOREM DeliveredIsPosted == Spec => []DeliveredWasPosted
<1>1. IInv => DeliveredWasPosted
  BY DEF IInv, EffectOK, DeliveredWasPosted
<1> QED BY <1>1, DeliveryInvariant, PTL

\* An effect fails for good only when it was refused or failed as often as is allowed.
THEOREM FailedForCause == Spec => []GivenUpForCause
<1>1. IInv => GivenUpForCause
  BY DEF IInv, EffectOK, GivenUpForCause
<1> QED BY <1>1, DeliveryInvariant, PTL

\* Late marks and cancellations leave the rows in order.
THEOREM RowsInOrderStay == Spec => []RowsStayOK
<1>1. IInv => RowsStayOK
  BY DEF IInv, RowsInOrder, RowOK, RowsStayOK
<1> QED BY <1>1, DeliveryInvariant, PTL

-----------------------------------------------------------------------------
(* A failed delivery is told *)

\* A step leaves a row as it is or tells the failures of the one it changes.
LEMMA StepTells == IInv /\ FailureIsTold /\ [Next]_vars => FailureIsTold'
<1> SUFFICES ASSUME IInv, FailureIsTold, [Next]_vars PROVE FailureIsTold'
  OBVIOUS
<1>1. ASSUME NEW i \in Tips
      PROVE  /\ money[i] \in MoneyRows /\ show[i] \in ShowRows
             /\ RowOK(money[i], show[i]) /\ FailureTold(show[i])
  BY DEF IInv, TypeOK, RowsInOrder, FailureIsTold
<1>2. ASSUME UNCHANGED show PROVE FailureIsTold'
  BY <1>2 DEF FailureIsTold
<1>3. ASSUME NEW i \in Tips, NEW s, show' = [show EXCEPT ![i] = s], FailureTold(s)
      PROVE  FailureIsTold'
  <2>1. \A j \in Tips : show'[j] = IF j = i THEN s ELSE show[j]
    BY <1>3 DEF IInv, TypeOK
  <2> QED BY <1>3, <2>1 DEF FailureIsTold
<1>4. ASSUME NEW w \in Workers, CancelUnpaid(w) PROVE FailureIsTold'
  <2> DEFINE i == worker[w].effect[1]
  <2>1. i \in Tips
    BY <1>4, InHand, EffectParts DEF CancelUnpaid, At
  <2>2. FailureTold(CancelQueued(money[i], show[i]))
    BY <1>1, <2>1, CancelTells
  <2> QED BY <1>3, <1>4, <2>1, <2>2 DEF CancelUnpaid
<1>5. ASSUME NEW w \in Workers, CancelUnseen(w) PROVE FailureIsTold'
  <2>1. StateOf(worker[w].effect) # "queued"
    BY <1>5 DEF CancelUnseen, At, IInv, WorkerOK
  <2> QED BY <1>2, <1>5, <2>1 DEF CancelUnseen
<1>6. ASSUME NEW w \in Workers, MarkDone(w) PROVE FailureIsTold'
  <2> DEFINE e == worker[w].effect
  <2>1. e[1] \in Tips /\ e[2] \in EffectNames
    BY <1>6, InHand, EffectParts DEF MarkDone, At
  <2>2. FailureTold(EffectDone(money[e[1]], show[e[1]], e[2]))
    BY <1>1, <2>1, DoneTells
  <2>3. show' = [show EXCEPT ![e[1]] = EffectDone(money[e[1]], show[e[1]], e[2])]
    BY <1>6 DEF MarkDone
  <2> QED BY <1>3, <2>1, <2>2, <2>3
<1>7. ASSUME NEW w \in Workers, MarkFailed(w) PROVE FailureIsTold'
  <2> DEFINE e == worker[w].effect
  <2>1. e[1] \in Tips /\ e[2] \in EffectNames
    BY <1>7, InHand, EffectParts DEF MarkFailed, At
  <2>2. FailureTold(EffectFailed(money[e[1]], show[e[1]], e[2]))
    BY <1>1, <2>1, GivenUpTells
  <2>3. \/ show' = [show EXCEPT ![e[1]] = EffectFailed(money[e[1]], show[e[1]], e[2])]
        \/ show' = show
    BY <1>7 DEF MarkFailed
  <2> QED BY <1>2, <1>3, <2>1, <2>2, <2>3
<1>8. ASSUME NEW i \in Tips, Hide(i) PROVE FailureIsTold'
  <2>1. FailureTold(Hidden(money[i], show[i]))
    BY <1>1, HiddenTells
  <2>2. show' = [show EXCEPT ![i] = Hidden(money[i], show[i])]
    BY <1>8 DEF Hide
  <2> QED BY <1>3, <2>1, <2>2
<1>9. ASSUME NEW i \in Tips, Restore(i) PROVE FailureIsTold'
  <2>1. FailureTold(Restored(money[i], show[i]))
    BY <1>1, RestoredTells
  <2>2. show' = [show EXCEPT ![i] = Restored(money[i], show[i])]
    BY <1>9 DEF Restore
  <2> QED BY <1>3, <2>1, <2>2
<1>10. ASSUME NEW i \in Tips, Reverse(i) PROVE FailureIsTold'
  <2> DEFINE m == ReversedMoney(money[i], 1, money[i].amount)
             s == ReversedShow(m, show[i], money[i].amount)
  <2>1. money' = [money EXCEPT ![i] = m] /\ money'[i] = m
    BY <1>10 DEF Reverse, IInv, TypeOK
  <2>2. show' = [show EXCEPT ![i] = s]
    BY <1>10, <2>1 DEF Reverse
  <2>3. m \in MoneyRows /\ money[i].amount \in Nat /\ show[i].uncounted <= show[i].counted
    <3>1. money[i].payment = "settled" /\ IsPaid(money[i])
      BY <1>10, RowFacts DEF Reverse
    <3>2. 1 \in Nat /\ money[i].amount \in Nat
      BY <1>1 DEF MoneyRows
    <3>3. m \in MoneyRows
      BY <1>1, <3>1, <3>2, ReversedFacts
    <3> QED BY <1>1, <3>2, <3>3 DEF RowOK, CountOK
  <2> HIDE DEF m
  <2>4. FailureTold(s)
    BY <1>1, <2>3, ReversedTells
  <2> QED BY <1>3, <2>2, <2>4
<1>11. CASE UNCHANGED vars
  BY <1>2, <1>11 DEF vars
<1>12. ASSUME NEW w \in Workers, Working(w) \/ Crash(w) PROVE FailureIsTold'
  BY <1>2, <1>4, <1>5, <1>6, <1>7, <1>12
     DEF Working, Crash, Claim, Check, Look, PostLine, PostUnavailable, PostRefused, PostAlert, rows
<1>13. ASSUME NEW e \in Effects, TimePasses(e) PROVE FailureIsTold'
  BY <1>2, <1>13 DEF TimePasses, rows
<1> QED BY <1>8, <1>9, <1>10, <1>11, <1>12, <1>13 DEF Next

\* A failed delivery is told in whatever order processes, moderators and reversals end the
\* deliveries of a tip.
THEOREM FailuresAreTold == Spec => []FailureIsTold
<1>1. Init => FailureIsTold
  <2> SUFFICES ASSUME Init PROVE FailureIsTold
    OBVIOUS
  <2>1. PICK seen \in [Tips -> {"visible", "hidden"}], hold \in [Tips -> BOOLEAN] :
          /\ money \in [Tips -> Settled]
          /\ show = [i \in Tips |-> SettledShow(money[i], BeforePayment(seen[i]), hold[i], FALSE)]
    BY DEF Init
  <2>2. ASSUME NEW i \in Tips PROVE FailureTold(show[i])
    <3> DEFINE u == BeforePayment(seen[i])
    <3>1. /\ u \in ShowRows /\ u.moderation \in {"visible", "hidden"} /\ u.alert = "none"
          /\ \A e \in EffectNames : u.effects[e] = "none"
      BY <2>1 DEF BeforePayment, NoShow, ShowRows, DeliveryStates, ModerationStates, EffectStates
    <3> HIDE DEF u
    <3>2. money[i] \in MoneyRows
      BY <2>1, DeliveryConstantsOK
    <3>3. show[i] = SettledShow(money[i], u, hold[i], FALSE)
      BY <2>1 DEF u
    <3> QED BY <2>1, <3>1, <3>2, <3>3, SettledTells
  <2> QED BY <2>2 DEF FailureIsTold
<1>2. IInv /\ FailureIsTold /\ [Next]_vars => FailureIsTold'
  BY StepTells
<1> QED BY <1>1, <1>2, DeliveryInvariant, PTL DEF Spec

-----------------------------------------------------------------------------
(* The rows change only as Settlement has it *)

\* A paid message waits only while its payment stands and its delivery has not ended.
PaidOK(m, s) ==
    s.paid = "queued" =>
        /\ m.payment = "settled"
        /\ \A n \in EffectNames : CarriesPaid(n) => s.effects[n] \in {"none", "queued"}

\* Settled for as long as a process that was told otherwise has the effect in hand.
UnpaidKnown ==
    \A w \in Workers : At(w, "unpaid") => money[worker[w].effect[1]].payment # "settled"

Agreed == (\A i \in Tips : PaidOK(money[i], show[i])) /\ UnpaidKnown

LEMMA Carriers == \A n \in EffectNames : CarriesPaid(n) => n \in Chat
BY DEF EffectNames, CarriesPaid, Chat

\* A row whose delivery tells its effects is left alone by the aggregation.
LEMMA Recomputed ==
    ASSUME NEW m \in MoneyRows, NEW s \in ShowRows, RowOK(m, s), FailureTold(s)
    PROVE  RecomputeDelivery(m, s) = s
<1> DEFINE states == {s.effects[e] : e \in EffectNames} \ {"none"}
           next   == IF "queued" \in states THEN "queued"
                     ELSE IF "failed" \in states THEN "failed" ELSE "delivered"
<1>1. SUFFICES ASSUME s.delivery \notin {"cancelled", "awaiting_payment"},
                      ~(s.moderation = "held" /\ states = {})
               PROVE  s.delivery = next
  BY DEF RecomputeDelivery
<1>2. ("queued" \in states <=> Queued(s) # {})
      /\ ("failed" \in states <=> \E e \in EffectNames : s.effects[e] = "failed")
  BY DEF Queued
<1>3. s.moderation # "held"
  <2>1. s.moderation = "held" => states = {}
    BY DEF RowOK, AlertOK
  <2> QED BY <1>1, <2>1
<1>4. s.delivery = "queued" <=> Queued(s) # {}
  BY <1>3 DEF RowOK, QueueOK
<1>5. s.delivery \in {"queued", "delivered", "failed"}
  BY <1>1 DEF ShowRows, DeliveryStates
<1>6. Queued(s) = {} => (s.delivery = "failed" <=> "failed" \in states)
  BY <1>1, <1>2 DEF FailureTold
<1> HIDE DEF states
<1> QED BY <1>2, <1>4, <1>5, <1>6

\* The last mark of an effect that ended meanwhile writes nothing.
LEMMA LateMark ==
    ASSUME NEW m \in MoneyRows, NEW s \in ShowRows, RowOK(m, s), FailureTold(s), PaidOK(m, s),
           NEW e \in EffectNames, s.effects[e] \notin {"none", "queued"}
    PROVE  EffectFailed(m, s, e) = s
<1> DEFINE t == [s EXCEPT !.effects[e] = IF @ = "queued" THEN "failed" ELSE @,
                          !.paid = IF CarriesPaid(e) /\ @ = "queued" THEN "failed" ELSE @]
<1>1. EffectFailed(m, s, e) = RecomputeDelivery(m, t)
  BY DEF EffectFailed
<1>2. t = s
  <2> DEFINE effects == [s.effects EXCEPT ![e] = IF @ = "queued" THEN "failed" ELSE @]
             paid == IF CarriesPaid(e) /\ s.paid = "queued" THEN "failed" ELSE s.paid
  <2>1. t = [s EXCEPT !.effects = effects, !.paid = paid]
    BY DEF ShowRows
  <2>2. effects = s.effects
    BY DEF ShowRows
  <2>3. paid = s.paid
    BY DEF PaidOK
  <2> HIDE DEF effects, paid, t
  <2>4. [s EXCEPT !.effects = s.effects, !.paid = s.paid] = s
    BY DEF ShowRows
  <2> QED BY <2>1, <2>2, <2>3, <2>4
<1> QED BY <1>1, <1>2, Recomputed

\* Nothing is left to cancel of a payment that no longer stands.
LEMMA LateCancel ==
    ASSUME NEW m, NEW s \in ShowRows, RowOK(m, s), PaidOK(m, s), m.payment # "settled"
    PROVE  CancelQueued(m, s) = s
<1>1. Queued(s) = {} /\ s.paid # "queued"
  BY DEF RowOK, QueueOK, PaidOK
<1>2. PaidCancelled(s) = s
  BY <1>1 DEF PaidCancelled, ShowRows
<1> QED BY <1>1, <1>2 DEF CancelQueued

\* What is cancelled takes the paid message with it.
LEMMA CancelledPaid ==
    ASSUME NEW m, NEW s \in ShowRows
    PROVE  CancelQueued(m, s).paid # "queued"
<1> DEFINE gone == EffectsCancelled(s)
           down == [PaidCancelled(gone) EXCEPT !.delivery = "cancelled"]
<1>1. gone \in ShowRows
  <2> DEFINE effects == [e \in EffectNames |->
                            IF s.effects[e] = "queued" THEN "cancelled" ELSE s.effects[e]]
  <2>1. effects \in [EffectNames -> EffectStates]
    BY DEF ShowRows, EffectStates
  <2>2. gone = [s EXCEPT !.effects = effects]
    BY DEF EffectsCancelled
  <2> HIDE DEF effects, gone
  <2> QED BY <2>1, <2>2 DEF ShowRows
<1> HIDE DEF gone
<1>2. PaidCancelled(s).paid # "queued"
  BY DEF PaidCancelled, ShowRows
<1>3. down \in ShowRows /\ down.paid # "queued"
  BY <1>1 DEF PaidCancelled, ShowRows, DeliveryStates
<1>4. CancelQueued(m, s) \in {PaidCancelled(s), Publish(m, down, "cancelled")}
  BY DEF CancelQueued, gone
<1> HIDE DEF down
<1>5. Publish(m, down, "cancelled").paid = down.paid
  BY <1>3, PublishFacts DEF SameShow, EventTypes
<1> QED BY <1>2, <1>3, <1>4, <1>5

LEMMA HiddenPaid ==
    ASSUME NEW m \in MoneyRows, NEW s \in ShowRows, RowOK(m, s), PaidOK(m, s)
    PROVE  PaidOK(m, Hidden(m, s))
<1> DEFINE undelivered == Queued(s) # {} \/ s.moderation = "held" \/ m.payment = "pending"
           next(g) == IF undelivered /\ g.delivery \in {"queued", "awaiting_payment"}
                      THEN "cancelled" ELSE g.delivery
           alert(g) == IF g.alert = "shown" THEN "hidden" ELSE g.alert
           hide(g) == [g EXCEPT !.moderation = "hidden", !.delivery = next(g), !.alert = alert(g)]
<1>1. CASE s.moderation = "hidden"
  BY <1>1 DEF Hidden
<1>2. CASE s.moderation # "hidden" /\ Queued(s) = {}
  <2>1. Hidden(m, s) = hide(s)
    BY <1>2 DEF Hidden
  <2>2. hide(s).paid = s.paid /\ hide(s).effects = s.effects
    BY DEF ShowRows
  <2> QED BY <2>1, <2>2 DEF PaidOK
<1>3. CASE s.moderation # "hidden" /\ Queued(s) # {}
  <2> DEFINE g == PaidCancelled(EffectsCancelled(s))
  <2>1. Hidden(m, s) = hide(g)
    BY <1>3 DEF Hidden
  <2>2. g.paid # "queued" /\ "paid" \in DOMAIN g
    BY DEF PaidCancelled, EffectsCancelled, ShowRows
  <2> HIDE DEF g
  <2>3. hide(g).paid = g.paid
    BY <2>2
  <2> QED BY <2>1, <2>2, <2>3 DEF PaidOK
<1> QED BY <1>1, <1>2, <1>3

LEMMA RestoredPaid ==
    ASSUME NEW m \in MoneyRows, NEW s \in ShowRows, PaidOK(m, s)
    PROVE  PaidOK(m, Restored(m, s))
<1> DEFINE release == m.payment = "settled" /\ s.alert = "none"
           shown   == [s EXCEPT !.moderation = "visible",
                                !.delivery = IF release THEN "queued" ELSE @,
                                !.alert = IF @ = "hidden" THEN "shown" ELSE @]
           effects == [e \in EffectNames |->
                          IF s.effects[e] # "none" THEN s.effects[e]
                          ELSE IF e = "overlay_alert" THEN "delivered"
                          ELSE IF e \in ChatEffects(m) THEN "queued" ELSE "none"]
           begun   == [shown EXCEPT !.alert = IF @ = "none" THEN "shown" ELSE @,
                                    !.effects = effects]
<1>1. Restored(m, s) = IF s.moderation = "visible" THEN s
                       ELSE IF release THEN Release(m, shown) ELSE shown
  BY DEF Restored
<1> HIDE DEF release
<1>2. /\ shown \in ShowRows /\ shown.effects = s.effects /\ shown.paid = s.paid
  BY DEF ShowRows, ModerationStates, DeliveryStates
<1>3. Release(m, shown) = RecomputeDelivery(m, begun)
  BY <1>2 DEF Release
<1> HIDE DEF shown
<1>4. /\ effects \in [EffectNames -> EffectStates]
      /\ \A n \in Chat : s.effects[n] \in {"none", "queued"} => effects[n] \in {"none", "queued"}
  BY DEF ShowRows, EffectStates, Chat
<1> HIDE DEF effects
<1>5. begun \in ShowRows /\ begun.effects = effects /\ begun.paid = s.paid
  BY <1>2, <1>4 DEF ShowRows
<1> HIDE DEF begun
<1>6. Release(m, shown).effects = effects /\ Release(m, shown).paid = s.paid
  BY <1>3, <1>5, RecomputeFacts DEF SameShow
<1>7. PaidOK(m, Release(m, shown))
  BY <1>4, <1>6, Carriers DEF PaidOK
<1>8. PaidOK(m, shown)
  BY <1>2 DEF PaidOK
<1> QED BY <1>1, <1>7, <1>8

LEMMA ReversedPaid ==
    ASSUME NEW m, NEW s \in ShowRows, NEW take \in Nat, s.uncounted <= s.counted
    PROVE  ReversedShow(m, s, take).paid # "queued"
<1> DEFINE goal      == IF m.test THEN s
                        ELSE [s EXCEPT !.uncounted = @ + Smaller(take, s.counted - @)]
           cancelled == CancelQueued(m, goal)
           paid      == [PaidCancelled(cancelled) EXCEPT !.delivery = "cancelled"]
<1>1. goal \in ShowRows
  <2>1. s.uncounted \in Nat /\ s.counted \in Nat
    BY DEF ShowRows
  <2>2. s.uncounted + Smaller(take, s.counted - s.uncounted) \in Nat
    BY <2>1 DEF Smaller
  <2> QED BY <2>2 DEF ShowRows
<1>2. ReversedShow(m, s, take) = cancelled \/ ReversedShow(m, s, take) = Publish(m, paid, "cancelled")
  BY DEF ReversedShow
<1> HIDE DEF goal
<1>3. cancelled \in ShowRows /\ cancelled.paid # "queued"
  BY <1>1, CancelFacts, CancelledPaid
<1> HIDE DEF cancelled
<1>4. paid \in ShowRows /\ paid.paid # "queued"
  BY <1>3 DEF PaidCancelled, ShowRows, DeliveryStates
<1> HIDE DEF paid
<1>5. Publish(m, paid, "cancelled").paid = paid.paid
  BY <1>4, PublishFacts DEF SameShow, EventTypes
<1> QED BY <1>2, <1>3, <1>4, <1>5

\* The mark of a queued effect ends its paid message too.
LEMMA EndedPaid ==
    ASSUME NEW m \in MoneyRows, NEW s \in ShowRows, PaidOK(m, s), NEW t, Ends(m, s, t)
    PROVE  PaidOK(m, t)
<1>1. PICK e \in Queued(s) : t \in {EffectDone(m, s, e), EffectFailed(m, s, e)}
  BY DEF Ends
<1>2. e \in EffectNames /\ s.effects[e] = "queued"
  BY DEF Queued
<1>3. PICK state \in {"delivered", "failed"} : t = RecomputeDelivery(m, WithEffect(s, e, state))
  <2>1. EffectDone(m, s, e) = RecomputeDelivery(m, WithEffect(s, e, "delivered"))
    BY <1>2 DEF EffectDone
  <2>2. EffectFailed(m, s, e) = RecomputeDelivery(m, WithEffect(s, e, "failed"))
    <3>1. [s EXCEPT !.effects[e] = IF @ = "queued" THEN "failed" ELSE @,
                    !.paid = IF CarriesPaid(e) /\ @ = "queued" THEN "failed" ELSE @]
            = WithEffect(s, e, "failed")
      BY <1>2 DEF WithEffect, ShowRows
    <3> QED BY <3>1 DEF EffectFailed
  <2> QED BY <1>1, <2>1, <2>2
<1> DEFINE effects == [s.effects EXCEPT ![e] = state]
           paid == IF CarriesPaid(e) /\ s.paid = "queued" THEN state ELSE s.paid
           r == WithEffect(s, e, state)
<1>4. /\ effects \in [EffectNames -> EffectStates]
      /\ \A n \in EffectNames : n # e => effects[n] = s.effects[n]
  BY <1>2 DEF ShowRows, EffectStates
<1>5. paid \in {"none", "queued", "delivered", "failed", "cancelled"}
  BY DEF ShowRows
<1>6. r = [s EXCEPT !.effects = effects, !.paid = paid]
  BY DEF WithEffect, ShowRows
<1>7. paid = "queued" => s.paid = "queued" /\ ~CarriesPaid(e)
  OBVIOUS
<1> HIDE DEF effects, paid, r
<1>8. r \in ShowRows /\ r.effects = effects /\ r.paid = paid
  BY <1>4, <1>5, <1>6 DEF ShowRows
<1>9. t.effects = effects /\ t.paid = paid
  BY <1>3, <1>8, RecomputeFacts DEF SameShow, r
<1> QED BY <1>4, <1>7, <1>9 DEF PaidOK

\* A step that writes one row, as it was or as agreed.
LEMMA OneRow ==
    ASSUME IInv, NEW i \in Tips, NEW s, money' = money, show' = [show EXCEPT ![i] = s],
           \/ s = show[i]
           \/ Ends(money[i], show[i], s)
           \/ Moderates(money[i], show[i], s)
    PROVE  [AsAgreed]_rows
<1>1. /\ show'[i] = s /\ money'[i] = money[i]
      /\ \A j \in Tips \ {i} : money'[j] = money[j] /\ show'[j] = show[j]
  BY DEF IInv, TypeOK
<1>2. CASE s = show[i]
  BY <1>2 DEF rows, IInv, TypeOK
<1>3. CASE Ends(money[i], show[i], s) \/ Moderates(money[i], show[i], s)
  <2>1. Ends(money[i], show[i], show'[i]) \/ Moderates(money[i], show[i], show'[i])
    BY <1>1, <1>3
  <2> QED BY <1>1, <2>1 DEF AsAgreed
<1> QED BY <1>2, <1>3

\* Every step is one that was agreed, or leaves the rows alone.
LEMMA StepAgreed ==
    ASSUME IInv, FailureIsTold, Agreed, [Next]_vars
    PROVE  [AsAgreed]_rows
<1>1. ASSUME NEW i \in Tips
      PROVE  /\ money[i] \in MoneyRows /\ show[i] \in ShowRows
             /\ RowOK(money[i], show[i]) /\ FailureTold(show[i]) /\ PaidOK(money[i], show[i])
  BY DEF IInv, TypeOK, RowsInOrder, FailureIsTold, Agreed
<1>2. ASSUME UNCHANGED rows PROVE [AsAgreed]_rows
  BY <1>2
<1>3. ASSUME NEW w \in Workers, CancelUnpaid(w) PROVE [AsAgreed]_rows
  <2> DEFINE i == worker[w].effect[1]
  <2>1. i \in Tips
    BY <1>3, InHand, EffectParts DEF CancelUnpaid, At
  <2>2. money[i].payment # "settled"
    BY <1>3 DEF CancelUnpaid, Agreed, UnpaidKnown
  <2>3. CancelQueued(money[i], show[i]) = show[i]
    BY <1>1, <2>1, <2>2, LateCancel
  <2>4. show' = [show EXCEPT ![i] = CancelQueued(money[i], show[i])] /\ money' = money
    BY <1>3 DEF CancelUnpaid
  <2> HIDE DEF i
  <2> QED BY <2>1, <2>3, <2>4, OneRow
<1>4. ASSUME NEW w \in Workers, CancelUnseen(w) PROVE [AsAgreed]_rows
  <2>1. StateOf(worker[w].effect) # "queued"
    BY <1>4 DEF CancelUnseen, At, IInv, WorkerOK
  <2> QED BY <1>2, <1>4, <2>1 DEF CancelUnseen, rows
<1>5. ASSUME NEW w \in Workers, MarkDone(w) PROVE [AsAgreed]_rows
  <2> DEFINE i == worker[w].effect[1]
             n == worker[w].effect[2]
             s == EffectDone(money[i], show[i], n)
  <2>1. i \in Tips /\ n \in EffectNames
    BY <1>5, InHand, EffectParts DEF MarkDone, At
  <2>2. show' = [show EXCEPT ![i] = s] /\ money' = money
    BY <1>5 DEF MarkDone
  <2>3. show[i].effects[n] # "queued" => s = show[i]
    BY DEF EffectDone
  <2>4. show[i].effects[n] = "queued" => Ends(money[i], show[i], s)
    BY <2>1 DEF Ends, Queued
  <2> HIDE DEF i, s
  <2> QED BY <2>1, <2>2, <2>3, <2>4, OneRow
<1>6. ASSUME NEW w \in Workers, MarkFailed(w) PROVE [AsAgreed]_rows
  <2> DEFINE i == worker[w].effect[1]
             n == worker[w].effect[2]
             s == EffectFailed(money[i], show[i], n)
  <2>1. i \in Tips /\ n \in EffectNames /\ show[i].effects[n] # "none"
    BY <1>6, InHand, EffectParts DEF MarkFailed, At, StateOf
  <2>2. (show' = [show EXCEPT ![i] = s] \/ show' = show) /\ money' = money
    BY <1>6 DEF MarkFailed
  <2>3. show[i].effects[n] # "queued" => s = show[i]
    BY <1>1, <2>1, LateMark
  <2>4. show[i].effects[n] = "queued" => Ends(money[i], show[i], s)
    BY <2>1 DEF Ends, Queued
  <2>5. show' = show => UNCHANGED rows
    BY <2>2 DEF rows
  <2> HIDE DEF i, s
  <2> QED BY <1>2, <2>1, <2>2, <2>3, <2>4, <2>5, OneRow
<1>7. ASSUME NEW i \in Tips, Hide(i) \/ Restore(i) PROVE [AsAgreed]_rows
  <2>1. \E s : /\ Moderates(money[i], show[i], s)
               /\ show' = [show EXCEPT ![i] = s] /\ money' = money
    BY <1>7 DEF Hide, Restore, Moderates
  <2> QED BY <2>1, OneRow
<1>8. ASSUME NEW i \in Tips, Reverse(i) PROVE [AsAgreed]_rows
  <2> DEFINE m == ReversedMoney(money[i], 1, money[i].amount)
             s == ReversedShow(m, show[i], money[i].amount)
  <2>1. money' = [money EXCEPT ![i] = m] /\ money'[i] = m
    BY <1>8 DEF Reverse, IInv, TypeOK
  <2>2. show' = [show EXCEPT ![i] = s]
    BY <1>8, <2>1 DEF Reverse
  <2>3. money[i].payment = "settled" /\ money[i].reversed = 0 /\ money[i].amount \in Nat
    BY <1>1, <1>8, RowFacts DEF Reverse, MoneyRows
  <2>4. Taken(money[i], money[i].amount) = money[i].amount
    BY <2>3 DEF Taken, Smaller
  <2>5. money[i].amount \in 0..money[i].amount
    BY <2>3
  <2>6. show'[i] = ReversedShow(money'[i], show[i], Taken(money[i], money[i].amount))
    BY <2>1, <2>2, <2>4 DEF IInv, TypeOK
  <2> HIDE DEF s
  <2>7. \A j \in Tips \ {i} : money'[j] = money[j] /\ show'[j] = show[j]
    BY <2>1, <2>2 DEF IInv, TypeOK
  <2> QED BY <2>1, <2>3, <2>5, <2>6, <2>7 DEF AsAgreed
<1>9. CASE UNCHANGED vars
  BY <1>2, <1>9 DEF vars, rows
<1>10. ASSUME NEW w \in Workers, Working(w) \/ Crash(w) PROVE [AsAgreed]_rows
  BY <1>2, <1>3, <1>4, <1>5, <1>6, <1>10
     DEF Working, Crash, Claim, Check, Look, PostLine, PostUnavailable, PostRefused, PostAlert
<1>11. ASSUME NEW e \in Effects, TimePasses(e) PROVE [AsAgreed]_rows
  BY <1>2, <1>11 DEF TimePasses
<1> QED BY <1>7, <1>8, <1>9, <1>10, <1>11 DEF Next

\* A paid message waits for a delivery that is still to come, and no reversed payment is settled again.
LEMMA AgreedRows ==
    ASSUME IInv, Agreed, [AsAgreed]_rows, NEW i \in Tips
    PROVE  /\ PaidOK(money'[i], show'[i])
           /\ money[i].payment # "settled" => money'[i].payment # "settled"
<1>1. \A j \in Tips : /\ money[j] \in MoneyRows /\ show[j] \in ShowRows
                      /\ RowOK(money[j], show[j]) /\ PaidOK(money[j], show[j])
  BY DEF IInv, TypeOK, RowsInOrder, Agreed
<1>2. CASE money'[i] = money[i] /\ show'[i] = show[i]
  BY <1>1, <1>2
<1>3. CASE /\ money'[i] = money[i]
           /\ Ends(money[i], show[i], show'[i]) \/ Moderates(money[i], show[i], show'[i])
  <2>1. PaidOK(money[i], show'[i])
    BY <1>1, <1>3, EndedPaid, HiddenPaid, RestoredPaid DEF Moderates
  <2> QED BY <1>3, <2>1
<1>4. ASSUME NEW bits \in 0..money[i].amount,
             money[i].payment = "settled",
             money'[i] = ReversedMoney(money[i], 1, bits),
             show'[i]  = ReversedShow(money'[i], show[i], Taken(money[i], bits))
      PROVE  PaidOK(money'[i], show'[i])
  <2>1. /\ money[i].amount \in Nat /\ money[i].reversed \in Nat /\ bits \in Nat
        /\ money[i].reversed <= money[i].amount /\ show[i].uncounted <= show[i].counted
    BY <1>1 DEF MoneyRows, RowOK, CountOK
  <2>2. Taken(money[i], bits) \in Nat
    BY <2>1 DEF Taken, Smaller
  <2>3. show'[i].paid # "queued"
    BY <1>1, <1>4, <2>1, <2>2, ReversedPaid
  <2> QED BY <2>3 DEF PaidOK
<1>5. CASE UNCHANGED rows
  BY <1>2, <1>5 DEF rows
<1>6. CASE AsAgreed
  BY <1>2, <1>3, <1>4, <1>6 DEF AsAgreed
<1> QED BY <1>5, <1>6

\* A process learns that a payment does not stand by reading the interaction.
LEMMA LearnsUnpaid ==
    ASSUME IInv, [Next]_vars, NEW w \in Workers, At(w, "unpaid")'
    PROVE  /\ worker'[w].effect = worker[w].effect /\ worker[w].effect \in Effects
           /\ At(w, "unpaid") \/ money[worker[w].effect[1]].payment # "settled"
<1> DEFINE Goal == /\ worker'[w].effect = worker[w].effect /\ worker[w].effect \in Effects
                   /\ At(w, "unpaid") \/ money[worker[w].effect[1]].payment # "settled"
<1>1. worker'[w].pc = "unpaid"
  BY DEF At
<1>2. ASSUME worker'[w] = worker[w] PROVE Goal
  BY <1>1, <1>2, InHand DEF At
<1>3. ASSUME NEW v \in Workers, Alone(v), v = w => worker'[v].pc # "unpaid" PROVE Goal
  BY <1>1, <1>2, <1>3 DEF Alone
<1>4. ASSUME NEW v \in Workers, Look(v) PROVE Goal
  <2> DEFINE i == worker[v].effect[1]
             pc == IF money[i].payment # "settled" THEN "unpaid"
                   ELSE IF show[i].moderation # "visible" THEN "unseen" ELSE "sending"
  <2>1. Goto(v, pc) /\ worker[v].effect \in Effects
    BY <1>4, InHand DEF Look, At
  <2>2. pc \in {"unpaid", "unseen", "sending"}
    OBVIOUS
  <2>3. pc = "unpaid" => money[i].payment # "settled"
    OBVIOUS
  <2> HIDE DEF pc
  <2>4. worker'[v].pc = pc /\ worker'[v].effect = worker[v].effect /\ Alone(v)
    BY <2>1, <2>2, GotoFacts DEF Alone
  <2> QED BY <1>1, <1>3, <2>1, <2>3, <2>4
<1>5. ASSUME NEW v \in Workers, NEW pc \in {"alerting", "sent", "retry", "refused"}, Goto(v, pc)
      PROVE  Goal
  <2>1. worker'[v].pc = pc /\ Alone(v)
    BY <1>5, GotoFacts DEF Alone
  <2> QED BY <1>3, <2>1
<1>6. ASSUME NEW v \in Workers, ~At(v, "idle"), ~At(v, "next"), Over(v) PROVE Goal
  <2>1. worker'[v].pc \in {"idle", "next"} /\ Alone(v)
    BY <1>6, InHand, OverFacts DEF Alone
  <2> QED BY <1>3, <2>1
<1>7. ASSUME NEW v \in Workers, Claim(v) \/ Check(v) \/ Crash(v) PROVE Goal
  <2>1. worker \in [Workers -> Jobs] /\ worker[v] \in Jobs
    BY DEF IInv, TypeOK
  <2>2. Alone(v)
    BY <1>7, <2>1 DEF Claim, Check, Crash, Alone
  <2>3. CASE Claim(v)
    <3>1. PICK claimed :
            worker' = [worker EXCEPT ![v] = [Nothing EXCEPT !.pc = "next", !.batch = claimed,
                                                            !.seen = SeenBy(claimed)]]
      BY <2>3 DEF Claim
    <3>2. worker'[v].pc = "next"
      BY <2>1, <3>1 DEF Nothing
    <3> QED BY <1>3, <2>2, <3>2
  <2>4. CASE Check(v)
    <3>1. PICK e \in worker[v].batch :
            LET rest == worker[v].batch \ {e}
            IN  worker' = IF StateOf(e) = "queued"
                          THEN [worker EXCEPT ![v].batch = rest, ![v].effect = e, ![v].pc = "checked"]
                          ELSE [worker EXCEPT ![v].batch = rest, ![v].seen[e] = 0,
                                              ![v].pc = IF rest = {} THEN "idle" ELSE "next"]
      BY <2>4 DEF Check
    <3>2. worker'[v].pc \in {"checked", "idle", "next"}
      BY <2>1, <3>1 DEF Jobs
    <3> QED BY <1>3, <2>2, <3>2
  <2>5. CASE Crash(v)
    <3>1. worker'[v].pc = "idle"
      BY <2>1, <2>5 DEF Crash, Nothing
    <3> QED BY <1>3, <2>2, <3>1
  <2> QED BY <1>7, <2>3, <2>4, <2>5
<1>8. ASSUME NEW v \in Workers, PostLine(v) \/ PostUnavailable(v) \/ PostRefused(v) \/ PostAlert(v)
      PROVE  Goal
  <2>1. \E pc \in {"alerting", "sent", "retry", "refused"} : Goto(v, pc)
    BY <1>8 DEF PostLine, PostUnavailable, PostRefused, PostAlert
  <2> QED BY <1>5, <2>1
<1>9. ASSUME NEW v \in Workers,
             CancelUnpaid(v) \/ CancelUnseen(v) \/ MarkDone(v) \/ MarkFailed(v)
      PROVE  Goal
  <2>1. Over(v) /\ ~At(v, "idle") /\ ~At(v, "next")
    BY <1>9 DEF CancelUnpaid, CancelUnseen, MarkDone, MarkFailed, At
  <2> QED BY <1>6, <2>1
<1>10. ASSUME UNCHANGED worker PROVE Goal
  BY <1>2, <1>10
<1>11. ASSUME NEW v \in Workers, Working(v) \/ Crash(v) PROVE Goal
  <2> HIDE DEF Goal
  <2> QED BY <1>4, <1>7, <1>8, <1>9, <1>11 DEF Working
<1>12. CASE UNCHANGED vars
  BY <1>10, <1>12 DEF vars
<1>13. ASSUME NEW e \in Effects, TimePasses(e) PROVE Goal
  BY <1>10, <1>13 DEF TimePasses
<1>14. ASSUME NEW i \in Tips, Hide(i) \/ Restore(i) \/ Reverse(i) PROVE Goal
  BY <1>10, <1>14 DEF Hide, Restore, Reverse
<1>15. CASE Next
  <2>1. CASE \E v \in Workers : Working(v) \/ Crash(v)
    BY <1>11, <2>1
  <2>2. CASE \E e \in Effects : TimePasses(e)
    BY <1>13, <2>2
  <2>3. CASE \E i \in Tips : Hide(i) \/ Restore(i) \/ Reverse(i)
    BY <1>14, <2>3
  <2> QED BY <1>15, <2>1, <2>2, <2>3 DEF Next
<1> QED BY <1>12, <1>15

LEMMA StaysAgreed ==
    ASSUME IInv, FailureIsTold, Agreed, [Next]_vars
    PROVE  Agreed'
<1>1. [AsAgreed]_rows
  BY StepAgreed
<1>2. \A i \in Tips : PaidOK(money[i], show[i])'
  BY <1>1, AgreedRows DEF PaidOK
<1>3. ASSUME NEW w \in Workers, At(w, "unpaid")'
      PROVE  money'[worker'[w].effect[1]].payment # "settled"
  <2>1. /\ worker'[w].effect = worker[w].effect /\ worker[w].effect[1] \in Tips
        /\ At(w, "unpaid") \/ money[worker[w].effect[1]].payment # "settled"
    BY <1>3, LearnsUnpaid, EffectParts
  <2>2. money[worker[w].effect[1]].payment # "settled"
    BY <2>1 DEF Agreed, UnpaidKnown
  <2> QED BY <1>1, <2>1, <2>2, AgreedRows
<1> QED BY <1>2, <1>3 DEF Agreed, UnpaidKnown

LEMMA InitAgreed == Init => Agreed
<1> SUFFICES ASSUME Init PROVE Agreed
  OBVIOUS
<1>1. PICK seen \in [Tips -> {"visible", "hidden"}], hold \in [Tips -> BOOLEAN] :
        /\ money \in [Tips -> Settled]
        /\ show = [i \in Tips |-> SettledShow(money[i], BeforePayment(seen[i]), hold[i], FALSE)]
  BY DEF Init
<1>2. ASSUME NEW i \in Tips PROVE PaidOK(money[i], show[i])
  <2>1. \A n \in Chat : show[i].effects[n] \in {"none", "queued"}
    BY <1>1, InitRow
  <2>2. money[i].payment = "settled"
    BY <1>1, DeliveryConstantsOK
  <2> QED BY <2>1, <2>2, Carriers DEF PaidOK
<1>3. UnpaidKnown
  BY DEF UnpaidKnown, Init, At, Nothing
<1> QED BY <1>2, <1>3 DEF Agreed

\* What the processes do to a row, however late and however often, is what Settlement has them
\* do: its theorems hold of the rows this worker writes.
THEOREM RowsChangeAsAgreed == Spec => RowsAsAgreed
<1>1. Init => Agreed
  BY InitAgreed
<1>2. IInv /\ FailureIsTold /\ Agreed /\ [Next]_vars => Agreed'
  BY StaysAgreed
<1>3. IInv /\ FailureIsTold /\ Agreed /\ [Next]_vars => [AsAgreed]_rows
  BY StepAgreed
<1> QED BY <1>1, <1>2, <1>3, DeliveryInvariant, FailuresAreTold, PTL DEF Spec, RowsAsAgreed

=============================================================================
