------------------------------ MODULE Delivery ------------------------------
(***************************************************************************)
(* The effects worker (domain/effects.js) and the chat adapter             *)
(* (delivery/chat.js).  Every process claims batches of queued effects     *)
(* under a lease and works through them: it reads the effect again, reads  *)
(* the interaction, calls OpenVibe.Chat and marks the result.  Each of     *)
(* these is a step of its own: moderators, reversals, the other processes  *)
(* and the end of a lease come between any two.                            *)
(*                                                                         *)
(* What the transactions write on a row is in Interaction.                 *)
(***************************************************************************)
EXTENDS Interaction

CONSTANTS
    Settled,      \* the tips in play: the money of rows a settlement wrote
    Workers,      \* the processes that run the jobs
    Batch,        \* BATCH
    MaxAttempts,  \* TIPS_DELIVERY_MAX_ATTEMPTS
    NoEffect,     \* no effect in hand
    MaxCrashes    \* bound: processes that die, or fail to commit, with a batch in hand

ChatNames == UNION {ChatEffects(m) : m \in Settled}
Effects   == Tips \X ChatNames     \* the rows of interaction_effects the worker may see

ASSUME DeliveryConstantsOK ==
    /\ \A m \in Settled : m \in MoneyRows /\ m.payment = "settled" /\ m.reversed = 0
    /\ Batch \in Nat \ {0} /\ MaxAttempts \in Nat \ {0} /\ MaxCrashes \in Nat
    /\ NoEffect \notin Effects

VARIABLES
    money, show,  \* the rows, as in Settlement
    attempts,     \* [Effects -> Nat]: interaction_effects.attempts
    waiting,      \* [Effects -> BOOLEAN]: next_attempt_at is in the future
    worker,       \* [Workers -> Jobs]
    applied,      \* keys Chat applied
    lines,        \* [Effects -> Nat]: chat lines a viewer sees for an effect
    failures,     \* history, [Effects -> Nat]: failed deliveries, counted up to MaxAttempts
    refused,      \* history: effects refused for good
    crashes

vars == <<money, show, attempts, waiting, worker, applied, lines, failures, refused, crashes>>

\* pc: what the process does next with the effect in hand; seen: the attempts its claim read.
Jobs == [pc     : {"idle", "next", "checked", "unpaid", "unseen", "sending", "alerting", "sent",
                   "retry", "refused"},
         batch  : SUBSET Effects,
         effect : Effects \cup {NoEffect},
         seen   : [Effects -> Nat]]

Keys == [effect : Effects, part : {"line", "alert"}]

Nothing == [pc |-> "idle", batch |-> {}, effect |-> NoEffect, seen |-> [e \in Effects |-> 0]]

StateOf(e) == show[e[1]].effects[e[2]]

\* Every tip is as its settlement left it: released with its chat deliveries queued and due,
\* held by the creator's word filter, or hidden before.
Init ==
    \E seen \in [Tips -> {"visible", "hidden"}], hold \in [Tips -> BOOLEAN] :
        /\ money \in [Tips -> Settled]
        /\ show     = [i \in Tips |-> SettledShow(money[i], BeforePayment(seen[i]), hold[i], FALSE)]
        /\ attempts = [e \in Effects |-> 0]
        /\ waiting  = [e \in Effects |-> FALSE]
        /\ worker   = [w \in Workers |-> Nothing]
        /\ applied  = {}
        /\ lines    = [e \in Effects |-> 0]
        /\ failures = [e \in Effects |-> 0]
        /\ refused  = {}
        /\ crashes  = 0

-----------------------------------------------------------------------------
(* The loop *)

rows    == <<money, show>>
queue   == <<attempts, waiting>>
chat    == <<applied, lines>>
history == <<failures, refused>>

At(w, pc) == worker[w].pc = pc

Goto(w, pc) == worker' = [worker EXCEPT ![w].pc = pc]

\* The effect in hand is done with: the next of the batch, or a new claim.
Over(w) ==
    LET job == worker[w]
    IN  worker' = [worker EXCEPT ![w] =
                     [job EXCEPT !.effect = NoEffect, !.seen = [@ EXCEPT ![job.effect] = 0],
                                 !.pc = IF job.batch = {} THEN "idle" ELSE "next"]]

\* Mutant: only first attempts are due.
DueOnce == {e \in Effects : StateOf(e) = "queued" /\ ~waiting[e] /\ attempts[e] = 0}

Due == {e \in Effects : StateOf(e) = "queued" /\ ~waiting[e]}

SeenBy(claimed) == [e \in Effects |-> IF e \in claimed THEN attempts[e] ELSE 0]

\* claim(): a batch of due effects, each under a lease.  SKIP LOCKED: what another process
\* is claiming or marking is left out, so any of the due effects may be taken.
Claim(w) ==
    /\ At(w, "idle")
    /\ \E claimed \in (SUBSET Due) \ {{}} :
        /\ Cardinality(claimed) <= Batch
        /\ waiting' = [e \in Effects |-> waiting[e] \/ e \in claimed]
        /\ worker'  = [worker EXCEPT ![w] = [Nothing EXCEPT !.pc = "next", !.batch = claimed,
                                                            !.seen = SeenBy(claimed)]]
    /\ UNCHANGED <<rows, attempts, chat, history, crashes>>

\* next_attempt_at passes: the backoff of a failure or the lease of a claim, whether the
\* process that holds it died or is still at work (a batch of 20 takes longer than a lease).
TimePasses(e) ==
    /\ waiting[e]
    /\ waiting' = [waiting EXCEPT ![e] = FALSE]
    /\ UNCHANGED <<rows, attempts, worker, chat, history, crashes>>

\* runOne(): read the effect again; what ended since the claim is skipped.
Check(w) ==
    /\ At(w, "next")
    /\ \E e \in worker[w].batch :
        LET rest == worker[w].batch \ {e}
        IN  worker' = IF StateOf(e) = "queued"
                      THEN [worker EXCEPT ![w].batch = rest, ![w].effect = e, ![w].pc = "checked"]
                      ELSE [worker EXCEPT ![w].batch = rest, ![w].seen[e] = 0,
                                          ![w].pc = IF rest = {} THEN "idle" ELSE "next"]
    /\ UNCHANGED <<rows, queue, chat, history, crashes>>

\* runOne(): read the interaction.
Look(w) ==
    LET i == worker[w].effect[1]
    IN  /\ At(w, "checked")
        /\ Goto(w, IF money[i].payment # "settled" THEN "unpaid"
                   ELSE IF show[i].moderation # "visible" THEN "unseen" ELSE "sending")
        /\ UNCHANGED <<rows, queue, chat, history, crashes>>

\* Reversed before its turn: what is queued of the interaction is cancelled.
CancelUnpaid(w) ==
    LET i == worker[w].effect[1]
    IN  /\ At(w, "unpaid")
        /\ show' = [show EXCEPT ![i] = CancelQueued(money[i], show[i])]
        /\ Over(w)
        /\ UNCHANGED <<money, queue, chat, history, crashes>>

\* Hidden before its turn: only this effect, and neither the delivery nor the paid row.
CancelUnseen(w) ==
    LET e == worker[w].effect
    IN  /\ At(w, "unseen")
        /\ show' = IF StateOf(e) = "queued"
                   THEN [show EXCEPT ![e[1]].effects[e[2]] = "cancelled"] ELSE show
        /\ Over(w)
        /\ UNCHANGED <<money, queue, chat, history, crashes>>

-----------------------------------------------------------------------------
(* The adapter and OpenVibe.Chat (external) *)

\* Mutant: the delivery id counts the attempts.
LineKeyPerAttempt(w) == [effect |-> worker[w].effect, part |-> "line",
                         try |-> worker[w].seen[worker[w].effect]]

\* jobFor(): delivery_id, the same on every attempt.
LineKey(w) == [effect |-> worker[w].effect, part |-> "line"]

\* Chat applies a key once and answers a repeat with the first result.
ChatApplies(w) ==
    LET e == worker[w].effect
    IN  /\ applied' = applied \cup {LineKey(w)}
        /\ lines'   = IF LineKey(w) \in applied THEN lines ELSE [lines EXCEPT ![e] = @ + 1]

NoChatRoute(e) == e[2] = "media_request"

\* deliver(): the line or the text to speech is posted.  The answer may be lost.
PostLine(w) ==
    LET e == worker[w].effect
    IN  /\ At(w, "sending")
        /\ ~NoChatRoute(e)
        /\ ChatApplies(w)
        /\ \/ Goto(w, IF e[2] = "tts" THEN "sent" ELSE "alerting")
           \/ Goto(w, "retry")
        /\ UNCHANGED <<rows, queue, history, crashes>>

\* Mutant: the adapter takes an answer that did not come for a delivery.
PostUnavailableSwallowed(w) ==
    /\ At(w, "sending") \/ At(w, "alerting")
    /\ Goto(w, "sent")
    /\ UNCHANGED <<rows, queue, chat, history, crashes>>

\* A 5xx, a time-out, 401, 408, 425, 429: again later.
PostUnavailable(w) ==
    /\ At(w, "sending") \/ At(w, "alerting")
    /\ Goto(w, "retry")
    /\ UNCHANGED <<rows, queue, chat, history, crashes>>

\* No adapter, no route for the effect, no room for the creator, or a 4xx: for good.
PostRefused(w) ==
    LET e == worker[w].effect
    IN  /\ At(w, "sending")
        /\ Goto(w, "refused")
        /\ refused' = refused \cup {e}
        /\ UNCHANGED <<rows, queue, chat, failures, crashes>>

\* The donation alert sound of a line, under a key of its own.  It was played, or is
\* refused and given up while the line stays, or its answer is lost.
PostAlert(w) ==
    /\ At(w, "alerting")
    /\ \/ /\ applied' = applied \cup {[effect |-> worker[w].effect, part |-> "alert"]}
          /\ Goto(w, "sent") \/ Goto(w, "retry")
       \/ Goto(w, "sent") /\ UNCHANGED applied
    /\ UNCHANGED <<rows, queue, lines, history, crashes>>

-----------------------------------------------------------------------------
(* The result *)

MarkDone(w) ==
    LET e == worker[w].effect
    IN  /\ At(w, "sent")
        /\ show' = [show EXCEPT ![e[1]] = EffectDone(money[e[1]], @, e[2])]
        /\ attempts' = IF StateOf(e) = "queued" THEN [attempts EXCEPT ![e] = @ + 1] ELSE attempts
        /\ Over(w)
        /\ UNCHANGED <<money, waiting, chat, history, crashes>>

\* Mutant: the last attempt is the one before.
IsFinalEarly(w) == At(w, "refused") \/ worker[w].seen[worker[w].effect] + 2 >= MaxAttempts

\* The failure is the last: refused for good, or no attempt left.
IsFinal(w) == At(w, "refused") \/ worker[w].seen[worker[w].effect] + 1 >= MaxAttempts

\* Mutant: a failure is written whatever the effect became meanwhile.
MarkFailedRequeues(w) ==
    LET e == worker[w].effect
    IN  /\ At(w, "retry") \/ At(w, "refused")
        /\ show' = IF IsFinal(w)
                   THEN [show EXCEPT ![e[1]] = EffectFailed(money[e[1]], @, e[2])]
                   ELSE [show EXCEPT ![e[1]].effects[e[2]] = "queued"]
        /\ attempts' = [attempts EXCEPT ![e] = worker[w].seen[e] + 1]
        /\ waiting'  = [waiting EXCEPT ![e] = TRUE]
        /\ failures' = [failures EXCEPT ![e] = Smaller(@ + 1, MaxAttempts)]
        /\ Over(w)
        /\ UNCHANGED <<money, chat, refused, crashes>>

\* markFailed(): the attempts written are those the claim read, and one.
MarkFailed(w) ==
    LET e == worker[w].effect
    IN  /\ At(w, "retry") \/ At(w, "refused")
        /\ show' = IF IsFinal(w)
                   THEN [show EXCEPT ![e[1]] = EffectFailed(money[e[1]], @, e[2])] ELSE show
        /\ IF StateOf(e) = "queued"
           THEN /\ attempts' = [attempts EXCEPT ![e] = worker[w].seen[e] + 1]
                /\ waiting'  = [waiting EXCEPT ![e] = TRUE]
           ELSE UNCHANGED queue
        /\ failures' = [failures EXCEPT ![e] = Smaller(@ + 1, MaxAttempts)]
        /\ Over(w)
        /\ UNCHANGED <<money, chat, refused, crashes>>

\* The process dies, or a mark cannot be committed and drain() ends: the rest of the
\* batch waits for its lease.
Crash(w) ==
    /\ ~At(w, "idle")
    /\ crashes < MaxCrashes
    /\ crashes' = crashes + 1
    /\ worker'  = [worker EXCEPT ![w] = Nothing]
    /\ UNCHANGED <<rows, queue, chat, history>>

-----------------------------------------------------------------------------
(* Meanwhile *)

Hide(i) ==
    /\ show[i].moderation # "hidden"
    /\ show' = [show EXCEPT ![i] = Hidden(money[i], @)]
    /\ UNCHANGED <<money, queue, worker, chat, history, crashes>>

Restore(i) ==
    /\ show[i].moderation # "visible"
    /\ show' = [show EXCEPT ![i] = Restored(money[i], @)]
    /\ UNCHANGED <<money, queue, worker, chat, history, crashes>>

Reverse(i) ==
    /\ money[i].payment = "settled"
    /\ money' = [money EXCEPT ![i] = ReversedMoney(@, 1, @.amount)]
    /\ show'  = [show EXCEPT ![i] = ReversedShow(money'[i], @, money[i].amount)]
    /\ UNCHANGED <<queue, worker, chat, history, crashes>>

Working(w) ==
    \/ Claim(w) \/ Check(w) \/ Look(w) \/ CancelUnpaid(w) \/ CancelUnseen(w)
    \/ PostLine(w) \/ PostUnavailable(w) \/ PostRefused(w) \/ PostAlert(w)
    \/ MarkDone(w) \/ MarkFailed(w)

Next ==
    \/ \E w \in Workers : Working(w) \/ Crash(w)
    \/ \E e \in Effects : TimePasses(e)
    \/ \E i \in Tips : Hide(i) \/ Restore(i) \/ Reverse(i)

Spec == Init /\ [][Next]_vars

\* Every process drains the queue on a timer (index.js) and every call to Chat ends within
\* its time-out; time passes.
Fairness ==
    /\ \A w \in Workers : WF_vars(Working(w))
    /\ \A e \in Effects : WF_vars(TimePasses(e))

FairSpec == Spec /\ Fairness

-----------------------------------------------------------------------------
(* Properties *)

\* Every variable stays in its type.
TypeOK ==
    /\ money \in [Tips -> MoneyRows] /\ show \in [Tips -> ShowRows]
    /\ attempts \in [Effects -> Nat] /\ waiting \in [Effects -> BOOLEAN]
    /\ worker \in [Workers -> Jobs]
    /\ \A w \in Workers : worker[w].pc \notin {"idle", "next"} => worker[w].effect \in Effects
    /\ applied \subseteq Keys /\ lines \in [Effects -> Nat]
    /\ failures \in [Effects -> 0..MaxAttempts] /\ refused \subseteq Effects
    /\ crashes \in Nat

\* Viewers read each line once, though leases end under a slow process, two processes then
\* send the same effect, answers are lost and crashed work is done again.
LineOnce == \A e \in Effects : lines[e] <= 1

\* What is recorded as delivered did reach Chat, whichever of the processes that had the
\* effect in hand marks it last.
DeliveredWasPosted ==
    \A e \in Effects : StateOf(e) = "delivered" => lines[e] = 1

\* An effect is given up for a refusal or after MaxAttempts failures, although the attempts
\* written are the ones a claim read, perhaps another process's failures ago.
GivenUpForCause ==
    \A e \in Effects :
        StateOf(e) = "failed" => e \in refused \/ failures[e] = MaxAttempts

\* The rows stay in order (Interaction.RowOK) under marks and cancellations that come after
\* the effect they are about was hidden, reversed, restored or ended by another process.
RowsStayOK == \A i \in Tips : QueueOK(money[i], show[i]) /\ AlertOK(show[i])

\* What the processes and the moderators do to a row is what Settlement has of them: a queued
\* effect ends, a tip is hidden or restored, a payment is reversed.  Everything else the worker
\* does - late marks, its own cancellations, work done again after crashes and ended leases -
\* leaves the rows as they are.
AsAgreed ==
    \E i \in Tips :
        /\ \A j \in Tips \ {i} : money'[j] = money[j] /\ show'[j] = show[j]
        /\ \/ /\ money'[i] = money[i]
              /\ Ends(money[i], show[i], show'[i]) \/ Moderates(money[i], show[i], show'[i])
           \/ \E bits \in 0..money[i].amount :
                 /\ money[i].payment = "settled"
                 /\ money'[i] = ReversedMoney(money[i], 1, bits)
                 /\ show'[i]  = ReversedShow(money'[i], show[i], Taken(money[i], bits))

RowsAsAgreed == [][AsAgreed]_rows

\* A failed delivery is told to the supporter, in whatever order the two deliveries of a tip
\* end, whichever process marks them, and whatever is hidden or reversed in between.
FailureIsTold == \A i \in Tips : FailureTold(show[i])

\* A queued effect ends: sent, given up or cancelled.  A stale mark may set the attempts
\* back, but not for ever.
QueuedEnds == \A e \in Effects : StateOf(e) = "queued" ~> StateOf(e) # "queued"
=============================================================================
