----------------------------- MODULE Settlement -----------------------------
(***************************************************************************)
(* How interactions are paid.  Requests and the transfer worker of every   *)
(* Tips process call Billing; Billing moves the money and publishes what   *)
(* it did on OpenVibe.Events, which delivers each event at least once; the *)
(* inbox applies each event once.  Every update of a row is one            *)
(* SERIALIZABLE transaction holding the row's lock (ctx.tx(..., MONEY)),   *)
(* so it is one step here; a Billing call and what follows its answer are  *)
(* separate steps, and a process can die between any two.                  *)
(*                                                                         *)
(* The effects worker and the moderators appear with the transactions they *)
(* run; module Delivery has the worker's own steps.                        *)
(***************************************************************************)
EXTENDS Interaction

CONSTANTS
    Procs,          \* what can be running at once: request handlers and job loops
    NoTip,          \* no interaction
    TransferBatch,  \* TRANSFER_BATCH
    InOrder,        \* Events delivers what concerns one transaction in Billing's order
    SameTransfers,  \* another product may start the very transfer Tips asks for
    TestFlags,      \* bound: whether payments may be test payments
    Watched,        \* bound: the tips the filter, goals, moderators and effects worker touch
    MaxReversals,   \* bound: reversals Billing makes
    MaxRepublished, \* bound: events published again under another event id
    MaxCrashes      \* bound: processes that die with a job in hand

ASSUME SettlementConstantsOK ==
    /\ NoTip \notin Tips
    /\ TransferBatch \in Nat \ {0}
    /\ InOrder \in BOOLEAN /\ SameTransfers \in BOOLEAN
    /\ TestFlags \subseteq BOOLEAN /\ Watched \subseteq Tips
    /\ MaxReversals \in Nat /\ MaxRepublished \in Nat /\ MaxCrashes \in Nat

VARIABLES
    money,    \* [Tips -> MoneyRows]
    show,     \* [Tips -> ShowRows]
    work,     \* [Procs -> Jobs]: a call to Billing in progress
    ledger,   \* [TxnIds -> Entries]: what Billing recorded (amount 0: nothing)
    bus,      \* events published so far; each may be delivered any number of times
    inbox,    \* events applied (tips_event_inbox)
    crashes

vars == <<money, show, work, ledger, bus, inbox, crashes>>
rows == <<money, show>>

Jobs == [pc : {"idle", "calling", "answered"}, op : {"transfer", "intent"},
         tip : Tips \cup {NoTip}, answer : {"none", "ok", "refused", "lost"},
         batch : SUBSET Tips]

Entries == [amount : Nat, target : Tips \cup {NoTip}, parties : BOOLEAN, test : BOOLEAN,
            clawed : Nat, refunds : Nat]

\* part 0 announces the transaction, part n its n-th reversal; an external receipt has
\* no Billing transaction.  copy tells the event ids of one event apart.
Events == [what : {"settled", "reversed"}, txn : TxnIds, part : Nat, bits : Nat,
           ref : {NoRef}, copy : {1, 2}]
     \cup [what : {"external"}, txn : {NoTxn}, part : {0}, bits : {0},
           ref : Receipts, copy : {1, 2}]

Idle    == [pc |-> "idle", op |-> "transfer", tip |-> NoTip, answer |-> "none", batch |-> {}]
NoEntry == [amount |-> 0, target |-> NoTip, parties |-> FALSE, test |-> FALSE,
            clawed |-> 0, refunds |-> 0]

SettledEvent(t)      == [what |-> "settled", txn |-> t, part |-> 0, bits |-> 0,
                         ref |-> NoRef, copy |-> 1]
ReversedEvent(t,n,b) == [what |-> "reversed", txn |-> t, part |-> n, bits |-> b,
                         ref |-> NoRef, copy |-> 1]
ReceiptEvent(r)      == [what |-> "external", txn |-> NoTxn, part |-> 0, bits |-> 0,
                         ref |-> r, copy |-> 1]

Init ==
    /\ money   = [i \in Tips |-> NoMoney]
    /\ show    = [i \in Tips |-> NoShow]
    /\ work    = [w \in Procs |-> Idle]
    /\ ledger  = [t \in TxnIds |-> NoEntry]
    /\ bus     = {}
    /\ inbox   = {}
    /\ crashes = 0

-----------------------------------------------------------------------------
(* Transactions on one row *)

Put(i, m, s) ==
    /\ money' = [money EXCEPT ![i] = m]
    /\ show'  = [show EXCEPT ![i] = s]

\* insert(): a fresh row.
Fresh(i) == money[i].payment = "absent"

\* hold: the creator's word filter holds the tip; goal: a goal of the creator is picked.
Settle(i, m) ==
    \E hold, goal \in BOOLEAN :
        /\ hold \/ goal => i \in Watched
        /\ Put(i, SettledMoney(m), SettledShow(SettledMoney(m), show[i], hold, goal))

\* Mutant: the row is settled again by every transaction that names it.
SettleByTransactionAgain(i, t, test) ==
    Settle(i, [money[i] EXCEPT !.txn = t, !.test = @ \/ test, !.due = FALSE])

\* Mutant: a row that was reversed can be settled again.
SettleByTransactionLate(i, t, test) ==
    IF money[i].payment = "settled" \/ \E j \in Tips \ {i} : money[j].txn = t
    THEN UNCHANGED rows
    ELSE Settle(i, [money[i] EXCEPT !.txn = t, !.test = @ \/ test, !.due = FALSE])

\* Mutant: a refused row stays refused.
SettleByTransactionPending(i, t, test) ==
    IF money[i].payment # "pending" \/ \E j \in Tips \ {i} : money[j].txn = t
    THEN UNCHANGED rows
    ELSE Settle(i, [money[i] EXCEPT !.txn = t, !.test = @ \/ test, !.due = FALSE])

SettleByTransaction(i, t, test) ==
    IF \/ money[i].txn = t
       \/ money[i].payment \in {"settled", "reversed"}
       \/ \E j \in Tips \ {i} : money[j].txn = t
    THEN UNCHANGED rows
    ELSE Settle(i, [money[i] EXCEPT !.txn = t, !.test = @ \/ test, !.due = FALSE])

\* Mutant: a late refusal fails a payment that is no longer pending.
FailPaymentAlways(i) == Put(i, FailedMoney(money[i]), FailedShow(money[i], show[i]))

FailPayment(i) ==
    IF money[i].payment = "pending"
    THEN Put(i, FailedMoney(money[i]), FailedShow(money[i], show[i]))
    ELSE UNCHANGED rows

\* A retryable failure: due again after the backoff.
RetryLater(i) ==
    /\ money' = IF money[i].payment = "pending"
                THEN [money EXCEPT ![i].due = TRUE, ![i].waiting = TRUE] ELSE money
    /\ UNCHANGED show

-----------------------------------------------------------------------------
(* Requests and the transfer worker *)

Calling(op, i, batch) ==
    [pc |-> "calling", op |-> op, tip |-> i, answer |-> "none", batch |-> batch]

\* request() commits the row, then the handler calls Billing: a transfer for credit,
\* a checkout intent otherwise.  Refused requests write nothing and are left out.
Request(w, i, k, a, f) ==
    /\ work[w].pc = "idle"
    /\ Fresh(i)
    /\ money' = [money EXCEPT ![i] = [NoMoney EXCEPT !.kind = k, !.funding = f, !.amount = a,
                                                     !.payment = "pending"]]
    /\ work'  = [work EXCEPT ![w] =
                    Calling(IF f = "credit" THEN "transfer" ELSE "intent", i, {})]
    /\ UNCHANGED <<show, ledger, bus, inbox, crashes>>

Due == {i \in Tips : money[i].payment = "pending" /\ money[i].due /\ ~money[i].waiting}

\* processDueTransfers(): claim a batch under a lease, then try its rows in turn.  Rows
\* another process is claiming are skipped, so any of the due rows may be taken.
ProcessDueTransfers(w) ==
    /\ work[w].pc = "idle"
    /\ \E claimed \in SUBSET Due : \E i \in claimed :
        /\ Cardinality(claimed) <= TransferBatch
        /\ money' = [j \in Tips |-> IF j \in claimed THEN [money[j] EXCEPT !.waiting = TRUE]
                                    ELSE money[j]]
        /\ work'  = [work EXCEPT ![w] = Calling("transfer", i, claimed \ {i})]
    /\ UNCHANGED <<show, ledger, bus, inbox, crashes>>

\* next_transfer_at passes: a backoff, or the lease of a process that may be dead or
\* merely slow.
TimePasses(i) ==
    /\ money[i].waiting
    /\ money' = [money EXCEPT ![i].waiting = FALSE]
    /\ UNCHANGED <<show, work, ledger, bus, inbox, crashes>>

Answered(w, answer) == work' = [work EXCEPT ![w].pc = "answered", ![w].answer = answer]

\* The job is over, or goes on with the next claimed row.
NextJob(w) ==
    IF work[w].batch = {} THEN work' = [work EXCEPT ![w] = Idle]
    ELSE \E i \in work[w].batch :
            work' = [work EXCEPT ![w] = Calling("transfer", i, work[w].batch \ {i})]

\* What follows createTransfer's answer.
FinishTransfer(w) ==
    LET i == work[w].tip
    IN  /\ work[w].pc = "answered" /\ work[w].op = "transfer"
        /\ CASE work[w].answer = "ok"      -> SettleByTransaction(i, TransferTxn(i),
                                                                  ledger[TransferTxn(i)].test)
             [] work[w].answer = "refused" -> FailPayment(i)
             [] OTHER                      -> RetryLater(i)
        /\ NextJob(w)
        /\ UNCHANGED <<ledger, bus, inbox, crashes>>

\* What follows createIntent's answer: a lost answer is a 502 that leaves the row as it is.
FinishCheckout(w) ==
    LET i == work[w].tip
    IN  /\ work[w].pc = "answered" /\ work[w].op = "intent"
        /\ CASE work[w].answer = "ok"      -> /\ money' = [money EXCEPT ![i].intent = TRUE]
                                              /\ UNCHANGED show
             [] work[w].answer = "refused" -> FailPayment(i)
             [] OTHER                      -> UNCHANGED rows
        /\ NextJob(w)
        /\ UNCHANGED <<ledger, bus, inbox, crashes>>

Crash(w) ==
    /\ work[w].pc # "idle"
    /\ crashes < MaxCrashes
    /\ work'    = [work EXCEPT ![w] = Idle]
    /\ crashes' = crashes + 1
    /\ UNCHANGED <<money, show, ledger, bus, inbox>>

-----------------------------------------------------------------------------
(* Billing and Events (external) *)

Record(t, amount, target, parties, test) ==
    /\ ledger' = [ledger EXCEPT ![t] = [NoEntry EXCEPT !.amount = amount, !.target = target,
                                                       !.parties = parties, !.test = test]]
    /\ bus'    = bus \cup {SettledEvent(t)}

\* Billing moves the money, once per key: a repeated call gets the first transaction.
\* The answer may be lost.
BillingTransfers(w) ==
    LET i == work[w].tip
        t == TransferTxn(i)
    IN  /\ work[w].pc = "calling" /\ work[w].op = "transfer"
        /\ \E answer \in {"ok", "lost"} : Answered(w, answer)
        /\ IF ledger[t].amount = 0
           THEN Record(t, money[i].amount, i, TRUE, money[i].test)
           ELSE UNCHANGED <<ledger, bus>>
        /\ UNCHANGED <<money, show, inbox, crashes>>

BillingCreatesIntent(w) ==
    /\ work[w].pc = "calling" /\ work[w].op = "intent"
    /\ \E answer \in {"ok", "lost"} : Answered(w, answer)
    /\ UNCHANGED <<money, show, ledger, bus, inbox, crashes>>

\* A 4xx (no funds, frozen account): nothing moves.
BillingRefuses(w) ==
    /\ work[w].pc = "calling"
    /\ ledger[TransferTxn(work[w].tip)].amount = 0
    /\ Answered(w, "refused")
    /\ UNCHANGED <<money, show, ledger, bus, inbox, crashes>>

BillingUnreachable(w) ==
    /\ work[w].pc = "calling"
    /\ Answered(w, "lost")
    /\ UNCHANGED <<money, show, ledger, bus, inbox, crashes>>

\* The supporter pays the checkout whose link they were given.
PayCheckout(i, test) ==
    /\ money[i].intent
    /\ ledger[PurchaseTxn(i)].amount = 0
    /\ Record(PurchaseTxn(i), money[i].amount, i, TRUE, test)
    /\ UNCHANGED <<money, show, work, inbox, crashes>>

\* Another product's donation; it may name a Tips interaction.
Donate(d, a, target, parties, test) ==
    /\ ledger[DonationTxn(d)].amount = 0
    /\ IF target = NoTip THEN ~parties
       ELSE ~Fresh(target) /\ (SameTransfers \/ ~parties \/ a # money[target].amount)
    /\ Record(DonationTxn(d), a, target, parties, test)
    /\ UNCHANGED <<money, show, work, inbox, crashes>>

\* A refund takes bits back from the creator; a provider chargeback takes none from
\* them, and neither does the reversal of a purchase.
Reverse(t, bits) ==
    LET n == ledger[t].refunds + 1
    IN  /\ ledger[t].amount > 0
        /\ Cardinality({e \in bus : e.what = "reversed" /\ e.copy = 1}) < MaxReversals
        /\ t \in MoneyTxns \/ bits = 0
        /\ ledger' = [ledger EXCEPT ![t].clawed = @ + bits, ![t].refunds = n]
        /\ bus'    = bus \cup {ReversedEvent(t, n, bits)}
        /\ UNCHANGED <<money, show, work, inbox, crashes>>

\* A tip on the creator's own PowerChat, announced by Billing.
AnnounceReceipt(r) ==
    /\ ReceiptEvent(r) \notin bus
    /\ bus' = bus \cup {ReceiptEvent(r)}
    /\ UNCHANGED <<money, show, work, ledger, inbox, crashes>>

\* The same event published again under another event id.
Republish(e) ==
    /\ e.copy = 1
    /\ Cardinality({f \in bus : f.copy = 2}) < MaxRepublished
    /\ bus' = bus \cup {[e EXCEPT !.copy = 2]}
    /\ UNCHANGED <<money, show, work, ledger, inbox, crashes>>

-----------------------------------------------------------------------------
(* The event endpoint: POST /internal/events *)

\* inbox.once(): the claim of the event id commits with what the event changes.
\* InOrder: nothing overtakes an earlier event about the same transaction.
Receive(e) ==
    /\ e \in bus \ inbox
    /\ InOrder => \A n \in 0..e.part - 1 :
                     \E f \in inbox : f.txn = e.txn /\ f.part = n
    /\ inbox' = inbox \cup {e}
    /\ UNCHANGED <<work, ledger, bus, crashes>>

SettledBy(t) == {i \in Tips : money[i].txn = t}

\* Mutant: whatever names an interaction settles it.
MatchesAnything(t, i) == TRUE

\* The amount, the creator and the supporter are those of the interaction it names.
Matches(t, i) == ledger[t].amount = money[i].amount /\ ledger[t].parties

\* Mutant: the dedupe by Billing transaction id is left out.
OnDonationTwice(e) ==
    LET t == e.txn
        i == ledger[t].target
    IN  /\ e.what = "settled" /\ t \in MoneyTxns
        /\ Receive(e)
        /\ IF i # NoTip /\ Matches(t, i) THEN SettleByTransaction(i, t, ledger[t].test)
           ELSE \E j \in Tips : Fresh(j) /\
                    Settle(j, [NoMoney EXCEPT !.origin = "billing", !.funding = "provider",
                                              !.amount = ledger[t].amount,
                                              !.test = ledger[t].test, !.txn = t])

\* onBillingSettled, a donation: it settles the interaction it names and matches,
\* otherwise it is recorded once as an interaction of its own.
OnDonation(e) ==
    LET t == e.txn
        i == ledger[t].target
    IN  /\ e.what = "settled" /\ t \in MoneyTxns
        /\ Receive(e)
        /\ IF SettledBy(t) # {} THEN UNCHANGED rows
           ELSE IF i # NoTip /\ Matches(t, i) THEN SettleByTransaction(i, t, ledger[t].test)
           ELSE \E j \in Tips, k \in {"tip", "media_request"} \cap Kinds : Fresh(j) /\
                    Settle(j, [NoMoney EXCEPT !.kind = k, !.origin = "billing",
                                              !.funding = "provider",
                                              !.amount = ledger[t].amount,
                                              !.test = ledger[t].test, !.txn = t])

\* Mutant: the purchase is noted and no transfer becomes due.
OnPurchaseNotDue(e) ==
    LET i == ledger[e.txn].target
    IN  /\ e.what = "settled" /\ e.txn \notin MoneyTxns
        /\ Receive(e)
        /\ money' = [money EXCEPT ![i].fundingTxn = e.txn, ![i].test = @ \/ ledger[e.txn].test]
        /\ UNCHANGED show

\* onBillingSettled, a purchase: the checkout is funded and the transfer is due.
OnPurchase(e) ==
    LET i == ledger[e.txn].target
    IN  /\ e.what = "settled" /\ e.txn \notin MoneyTxns
        /\ Receive(e)
        /\ money' = IF money[i].fundingTxn # NoTxn THEN money
                    ELSE [money EXCEPT ![i].fundingTxn = e.txn,
                                       ![i].test = @ \/ ledger[e.txn].test,
                                       ![i].due = money[i].payment = "pending",
                                       ![i].waiting = FALSE]
        /\ UNCHANGED show

\* onBillingReversed: the interaction the transaction settled is reversed; a purchase
\* reversed before its tip was given fails the payment; anything else is ignored.
OnReversed(e) ==
    /\ e.what = "reversed"
    /\ Receive(e)
    /\ IF SettledBy(e.txn) # {}
       THEN \E i \in SettledBy(e.txn) :
                IF e.part \in money[i].refunds THEN UNCHANGED rows
                ELSE LET m == ReversedMoney(money[i], e.part, e.bits)
                     IN  Put(i, m, ReversedShow(m, show[i], Taken(money[i], e.bits)))
       ELSE IF \E i \in Tips : money[i].fundingTxn = e.txn
            THEN \E i \in Tips : money[i].fundingTxn = e.txn /\ FailPayment(i)
            ELSE UNCHANGED rows

ExternalRow(r, a, test, origin) ==
    [NoMoney EXCEPT !.origin = origin, !.funding = "external", !.amount = a, !.test = test,
                    !.ref = r]

Recorded(r) == \E i \in Tips : money[i].ref = r

\* onBillingExternal: recorded once by the provider's event id, settled at once.
OnExternal(e) ==
    /\ e.what = "external"
    /\ Receive(e)
    /\ IF Recorded(e.ref) THEN UNCHANGED rows
       ELSE \E i \in Tips, a \in Amounts, test \in TestFlags :
                /\ Fresh(i)
                /\ Settle(i, ExternalRow(e.ref, a, test, "billing-external"))

\* POST /interactions/external, by the same key; announce: Tips writes the chat line.
RecordExternal(i, r, a, test, announce) ==
    /\ ~Recorded(r)
    /\ Fresh(i)
    /\ Settle(i, ExternalRow(r, a, test, IF announce THEN "tips" ELSE "external"))
    /\ UNCHANGED <<work, ledger, bus, inbox, crashes>>

\* simulate(): the whole effect path with test = TRUE and no Billing call.
Simulate(i, k, a) ==
    /\ Fresh(i)
    /\ Settle(i, [NoMoney EXCEPT !.kind = k, !.amount = a, !.test = TRUE])
    /\ UNCHANGED <<work, ledger, bus, inbox, crashes>>

-----------------------------------------------------------------------------
(* Moderators and the effects worker *)

Show(i, s) ==
    /\ show' = [show EXCEPT ![i] = s]
    /\ UNCHANGED <<money, work, ledger, bus, inbox, crashes>>

Hide(i)    == ~Fresh(i) /\ show[i].moderation # "hidden" /\ Show(i, Hidden(money[i], show[i]))
Restore(i) == show[i].moderation # "visible" /\ Show(i, Restored(money[i], show[i]))

MarkDone(i, e)   == e \in Queued(show[i]) /\ Show(i, EffectDone(money[i], show[i], e))
MarkFailed(i, e) == e \in Queued(show[i]) /\ Show(i, EffectFailed(money[i], show[i], e))

-----------------------------------------------------------------------------
(* Specification *)

Asking(w) ==
    \E i \in Tips, k \in Kinds, a \in Amounts, f \in {"credit", "checkout"} :
        Request(w, i, k, a, f)

Working(w) ==
    \/ ProcessDueTransfers(w)
    \/ FinishTransfer(w)
    \/ FinishCheckout(w)

Billing(w) ==
    \/ BillingTransfers(w)
    \/ BillingCreatesIntent(w)
    \/ BillingRefuses(w)
    \/ BillingUnreachable(w)

\* Billing reached, and its answer not lost.
BillingAnswers(w) ==
    /\ BillingTransfers(w) \/ BillingCreatesIntent(w) \/ BillingRefuses(w)
    /\ work'[w].answer # "lost"

BillingMoves ==
    \/ \E i \in Tips, test \in TestFlags : PayCheckout(i, test)
    \/ \E d \in Donations, a \in Amounts, target \in Tips \cup {NoTip}, parties \in BOOLEAN,
          test \in TestFlags : Donate(d, a, target, parties, test)
    \/ \E t \in TxnIds : \E bits \in 0..ledger[t].amount - ledger[t].clawed : Reverse(t, bits)
    \/ \E r \in Receipts : AnnounceReceipt(r)
    \/ \E e \in bus : Republish(e)

Deliver(e) ==
    \/ OnDonation(e)
    \/ OnPurchase(e)
    \/ OnReversed(e)
    \/ OnExternal(e)

Recording ==
    \/ \E i \in Tips, r \in Receipts, a \in Amounts, test \in TestFlags, announce \in BOOLEAN :
          RecordExternal(i, r, a, test, announce)
    \/ TRUE \in TestFlags /\ \E i \in Tips, k \in Kinds, a \in Amounts : Simulate(i, k, a)

Showing(i) ==
    \/ Hide(i)
    \/ Restore(i)
    \/ \E e \in EffectNames : MarkDone(i, e) \/ MarkFailed(i, e)

Next ==
    \/ \E w \in Procs : Asking(w) \/ Working(w) \/ Billing(w) \/ Crash(w)
    \/ \E i \in Tips : TimePasses(i)
    \/ \E i \in Watched : Showing(i)
    \/ \E e \in bus : Deliver(e)
    \/ BillingMoves
    \/ Recording

Spec == Init /\ [][Next]_vars

\* Weak fairness: every process runs its jobs loop (index.js), time passes, and Events
\* redelivers an event until it is accepted.  Strong fairness: Billing, asked again and
\* again, answers in the end, and an answer that arrives is handled.  Nobody owes the
\* system a request, a payment, a moderator or a crash.
Fairness ==
    /\ \A w \in Procs : WF_vars(Working(w)) /\ WF_vars(Billing(w))
    /\ \A w \in Procs : SF_vars(BillingAnswers(w))
    /\ \A i \in Tips : WF_vars(TimePasses(i))
    /\ \A t \in TxnIds \cup {NoTxn} : WF_vars(\E e \in bus : e.txn = t /\ Deliver(e))

FairSpec == Spec /\ Fairness

-----------------------------------------------------------------------------
(* Properties *)

\* Every variable stays in its type, whatever the handlers do.
TypeOK ==
    /\ money \in [Tips -> MoneyRows]
    /\ show \in [Tips -> ShowRows]
    /\ work \in [Procs -> Jobs]
    /\ ledger \in [TxnIds -> Entries]
    /\ bus \subseteq Events
    /\ inbox \subseteq bus
    /\ crashes \in Nat

\* Every call to Billing is made for an interaction.
CallsOK == \A w \in Procs : work[w].pc # "idle" => work[w].tip \in Tips

\* Nothing of an interaction exists before its payment settled: no alert, no chat
\* delivery, no paid message, no goal contribution, no tips.interaction.ready.
NothingBeforePayment ==
    \A i \in Tips : ~IsPaid(money[i]) => Unshown(show[i])

\* A delivery waits in the worker's queue only while the payment stands and the tip is
\* visible, and a tip is shown as queued only while something or someone can move it:
\* a queued delivery, or a moderator who holds it.
QueueIsLive == \A i \in Tips : QueueOK(money[i], show[i])

\* What the filter holds has never been on an overlay or in chat, and the overlay shows
\* an alert exactly while its tip is visible, through every hide, restore and reversal.
OverlayFollowsModeration == \A i \in Tips : AlertOK(show[i])

\* A paid message or media request does not stay queued once its delivery is over
\* (except hidden, when a restore can still release it).
PaidRowFollows ==
    ChatOn => \A i \in Tips :
        show[i].paid = "queued" /\ money[i].origin = "tips" =>
            show[i].delivery = "queued" \/ show[i].moderation = "hidden"

\* A goal counts for an interaction exactly what the interaction still counts for: what
\* was given minus what Billing took back, over any sequence of partial reversals.
GoalFollowsMoney == \A i \in Tips : GoalOK(money[i], show[i])

\* tips.interaction.ready is published once for a real settled interaction, however many
\* times it was answered, announced, held, hidden and restored.
ReadyOnce == \A i \in Tips : ReadyOK(money[i], show[i])

\* The inductive invariant of a row: the five properties above, and what they rest on.
RowsOK == \A i \in Tips : RowOK(money[i], show[i])

\* A failed delivery is told to the supporter, however the two chat deliveries of a tip end
\* and whatever is held, hidden, restored or partly reversed before, between and after them.
FailureIsTold == \A i \in Tips : FailureTold(show[i])

\* One payment, one interaction: redelivered, republished, answered and announced, a
\* Billing transaction settles one row, and so does a provider receipt.
OneRowPerPayment ==
    \A i, j \in Tips : i # j =>
        /\ money[i].txn = money[j].txn => money[i].txn = NoTxn
        /\ money[i].ref = money[j].ref => money[i].ref = NoRef

\* No row claims money Billing did not move: it is backed by a transaction of its own
\* amount, one its supporter made for it to its creator when Tips asked for it, and takes
\* back no more than Billing took back of that transaction.
BackedByBilling ==
    \A i \in Tips : IsPaid(money[i]) /\ ViaBilling(money[i]) =>
        LET entry == ledger[money[i].txn]
        IN  /\ money[i].txn \in MoneyTxns
            /\ entry.amount = money[i].amount
            /\ money[i].origin = "tips" => entry.target = i /\ entry.parties
            /\ money[i].reversed <= entry.clawed

\* Once every published event has been applied, each donation of Billing's books is one
\* interaction that counts exactly what is left of it: the creator's totals reconcile.
BooksReconcile ==
    bus \subseteq inbox => \A t \in MoneyTxns : ledger[t].amount > 0 =>
        \E i \in Tips : /\ money[i].txn = t /\ IsPaid(money[i])
                       /\ money[i].amount - money[i].reversed
                            = ledger[t].amount - ledger[t].clawed

\* Settled is only left for reversed, and reversed never; a refusal is only left for the
\* settlement of a transfer that did move.  No delivery failure, moderation or late
\* answer changes the payment or the transaction it is settled by.
SettlementIsFinal ==
    [][\A i \in Tips :
        /\ money[i].payment = "settled"  => money'[i].payment \in {"settled", "reversed"}
        /\ money[i].payment = "reversed" => money'[i].payment = "reversed"
        /\ money[i].payment = "failed"   => money'[i].payment \in {"failed", "settled"}
        /\ money[i].txn # NoTxn => money'[i].txn = money[i].txn
        /\ money[i].reversed <= money'[i].reversed]_vars

\* A delivery that ended stays ended: what was cancelled is never sent, what was sent or
\* given up is never queued again, by no restore, retry or second settlement.
EffectsAreFinal ==
    [][\A i \in Tips, e \in EffectNames :
        show[i].effects[e] \in {"delivered", "failed", "cancelled"} =>
            show'[i].effects[e] = show[i].effects[e]]_vars

\* A funded checkout is given or refused in the end, through lost answers, crashes of the
\* process that claimed it, and leases.
FundedIsGiven ==
    \A i \in Tips :
        money[i].fundingTxn # NoTxn /\ money[i].payment = "pending"
            ~> money[i].payment # "pending"

\* When Billing moved the bits of an interaction, the interaction is settled in the end,
\* even if the process that asked died before it heard.
MovedIsSettled ==
    \A i \in Tips : ledger[TransferTxn(i)].amount > 0 ~> IsPaid(money[i])

\* Settlement implements the promise of TipLifecycle.
Payment(m) == IF m.ref # NoRef THEN m.ref ELSE m.txn
Lifecycle == INSTANCE TipLifecycle WITH
    Payments  <- TxnIds \cup Receipts,
    NoPayment <- NoTxn,
    status    <- [i \in Tips |-> money[i].payment],
    source    <- [i \in Tips |-> Payment(money[i])],
    given     <- [i \in Tips |-> IF IsPaid(money[i]) THEN money[i].amount - money[i].reversed ELSE 0]
ImplementsLifecycle == Lifecycle!Spec

\* The comment of failPayment(): a failed payment moved nothing in Billing.
FailedMovedNothing ==
    \A i \in Tips : money[i].payment = "failed" => ledger[TransferTxn(i)].amount = 0
=============================================================================
