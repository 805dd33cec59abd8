-------------------------- MODULE SettlementProofs --------------------------
(***************************************************************************)
(* Theorems about Settlement for every value of its constants, whatever    *)
(* order Events delivers in and whatever the bounds.  The inductive        *)
(* invariant is IInv: the types, every call made for an interaction, and   *)
(* RowOK for every row.                                                    *)
(***************************************************************************)
EXTENDS Settlement, InteractionProofs

IInv == TypeOK /\ CallsOK /\ RowsOK

-----------------------------------------------------------------------------
(* Facts about the types *)

\* Every transaction a handler names is one of Billing's.
LEMMA TxnTypes ==
    /\ \A i \in Tips : TransferTxn(i) \in MoneyTxns /\ PurchaseTxn(i) \in TxnIds
    /\ \A d \in Donations : DonationTxn(d) \in MoneyTxns
    /\ MoneyTxns \subseteq TxnIds
    /\ NoTxn \notin TxnIds
  BY ConstantsOK DEF MoneyTxns, TxnIds

\* A row that does not exist yet is a good row.
LEMMA FreshTypes == NoMoney \in MoneyRows /\ NoShow \in ShowRows /\ RowOK(NoMoney, NoShow)
<1>1. NoMoney \in MoneyRows
  BY DEF NoMoney, MoneyRows, AllKinds, PaymentStates
<1>2. NoShow \in ShowRows
  BY DEF NoShow, ShowRows, DeliveryStates, ModerationStates, EffectStates
<1>3. Queued(NoShow) = {}
  BY DEF NoShow, Queued
<1>4. UnpaidOK(NoMoney, NoShow)
  BY DEF UnpaidOK, Unshown, NoMoney, NoShow, EventTypes
<1>5. QueueOK(NoMoney, NoShow) /\ AlertOK(NoShow)
  BY <1>3 DEF QueueOK, AlertOK, NoShow
<1>6. CountOK(NoMoney, NoShow) /\ ReadyOK(NoMoney, NoShow)
  BY DEF CountOK, ReadyOK, NoMoney, NoShow, IsPaid, EventTypes
<1>7. QED
  BY <1>1, <1>2, <1>4, <1>5, <1>6 DEF RowOK, NoShow

\* Every event Billing publishes is an event the inbox can receive.
LEMMA EventsTyped ==
    /\ \A t \in TxnIds : SettledEvent(t) \in Events
    /\ \A t \in TxnIds, n \in Nat, b \in Nat : ReversedEvent(t, n, b) \in Events
    /\ \A r \in Receipts : ReceiptEvent(r) \in Events
  BY DEF SettledEvent, ReversedEvent, ReceiptEvent, Events

\* The state a transaction on one row leaves: a good row put in a good table.
LEMMA PutFacts ==
    ASSUME money \in [Tips -> MoneyRows], show \in [Tips -> ShowRows], RowsOK,
           NEW i \in Tips, NEW m \in MoneyRows, NEW s \in ShowRows, RowOK(m, s),
           Put(i, m, s)
    PROVE  money' \in [Tips -> MoneyRows] /\ show' \in [Tips -> ShowRows] /\ RowsOK'
<1>1. money' \in [Tips -> MoneyRows] /\ show' \in [Tips -> ShowRows]
  BY DEF Put
<1>2. \A j \in Tips : /\ money'[j] = IF j = i THEN m ELSE money[j]
                      /\ show'[j] = IF j = i THEN s ELSE show[j]
  BY DEF Put
<1>3. RowsOK'
  BY <1>2 DEF RowsOK
<1>4. QED
  BY <1>1, <1>3

\* The rows are as good after a transaction as before it.
RowsKept == money' \in [Tips -> MoneyRows] /\ show' \in [Tips -> ShowRows] /\ RowsOK'

\* A handler that ignores what it was given keeps every row good.
LEMMA UnchangedRows ==
    ASSUME IInv, UNCHANGED rows
    PROVE  RowsKept
  BY DEF IInv, TypeOK, RowsOK, RowsKept, rows

\* settle() of an unpaid interaction, requested before or recorded now, keeps every row good.
LEMMA SettleFacts ==
    ASSUME IInv, NEW i \in Tips, NEW m \in MoneyRows, ~IsPaid(money[i]), m.reversed = 0,
           Settle(i, m)
    PROVE  RowsKept
<1>1. PICK hold \in BOOLEAN, goal \in BOOLEAN :
         Put(i, SettledMoney(m), SettledShow(SettledMoney(m), show[i], hold, goal))
  BY DEF Settle
<1>2. money[i] \in MoneyRows /\ show[i] \in ShowRows /\ RowOK(money[i], show[i])
  BY DEF IInv, TypeOK, RowsOK
<1> DEFINE s == SettledShow(SettledMoney(m), show[i], hold, goal)
<1>3. SettledMoney(m) \in MoneyRows /\ s \in ShowRows /\ RowOK(SettledMoney(m), s)
  BY <1>2, SettledFacts
<1> HIDE DEF s
<1>4. Put(i, SettledMoney(m), s)
  BY <1>1 DEF s
<1>5. QED
  BY <1>3, <1>4, PutFacts DEF IInv, TypeOK, RowsKept

\* settleByTransaction() keeps every row good, whichever transaction it is given.
LEMMA SettleByTransactionFacts ==
    ASSUME IInv, NEW i \in Tips, NEW t \in TxnIds, NEW test \in BOOLEAN,
           SettleByTransaction(i, t, test)
    PROVE  RowsKept
<1> DEFINE m == [money[i] EXCEPT !.txn = t, !.test = @ \/ test, !.due = FALSE]
<1>1. money[i] \in MoneyRows /\ RowOK(money[i], show[i])
  BY DEF IInv, TypeOK, RowsOK
<1>2. CASE UNCHANGED rows
  BY <1>2, UnchangedRows
<1>3. CASE ~IsPaid(money[i]) /\ Settle(i, m)
  <2>1. m \in MoneyRows /\ m.reversed = money[i].reversed
    BY <1>1 DEF MoneyRows
  <2>2. m.reversed = 0
    BY <1>1, <1>3, <2>1 DEF RowOK, UnpaidOK
  <2>3. QED
    BY <1>3, <2>1, <2>2, SettleFacts
<1>4. QED
  BY <1>2, <1>3 DEF SettleByTransaction, IsPaid

\* failPayment() keeps every row good, on time or late.
LEMMA FailPaymentFacts ==
    ASSUME IInv, NEW i \in Tips, FailPayment(i)
    PROVE  RowsKept
<1>1. money[i] \in MoneyRows /\ show[i] \in ShowRows /\ RowOK(money[i], show[i])
  BY DEF IInv, TypeOK, RowsOK
<1>2. CASE money[i].payment = "pending"
  <2>1. Put(i, FailedMoney(money[i]), FailedShow(money[i], show[i]))
    BY <1>2 DEF FailPayment
  <2>2. QED
    BY <1>1, <1>2, <2>1, FailedFacts, PutFacts DEF IInv, TypeOK, RowsKept
<1>3. CASE money[i].payment # "pending"
  BY <1>3, UnchangedRows DEF FailPayment
<1>4. QED
  BY <1>2, <1>3

\* A change of scheduling or of references to Billing leaves a row as good as it was.
LEMMA MoneyOnlyFacts ==
    ASSUME IInv, UNCHANGED show, money' \in [Tips -> MoneyRows],
           \A i \in Tips : /\ money'[i].payment = money[i].payment
                           /\ money'[i].txn = money[i].txn /\ money'[i].ref = money[i].ref
                           /\ money'[i].amount = money[i].amount
                           /\ money'[i].reversed = money[i].reversed
                           /\ money[i].test => money'[i].test
    PROVE  RowsKept
<1> SUFFICES ASSUME NEW i \in Tips
             PROVE  RowOK(money'[i], show[i])
  BY DEF IInv, TypeOK, RowsOK, RowsKept
<1>1. RowOK(money[i], show[i])
  BY DEF IInv, RowsOK
<1>2. UnpaidOK(money'[i], show[i]) /\ QueueOK(money'[i], show[i])
  BY <1>1 DEF RowOK, UnpaidOK, IsPaid, QueueOK
<1>3. CountOK(money'[i], show[i]) /\ ReadyOK(money'[i], show[i])
  BY <1>1 DEF RowOK, CountOK, ReadyOK, IsPaid
<1>4. QED
  BY <1>1, <1>2, <1>3 DEF RowOK

-----------------------------------------------------------------------------
(* Requests and the transfer worker *)

\* The jobs a process can go on with.
LEMMA NextJobFacts ==
    ASSUME IInv, NEW w \in Procs, NextJob(w)
    PROVE  work' \in [Procs -> Jobs] /\ CallsOK'
<1>1. work \in [Procs -> Jobs] /\ work[w].batch \subseteq Tips
  BY DEF IInv, TypeOK, Jobs
<1>2. Idle \in Jobs /\ Idle.pc = "idle"
  BY DEF Idle, Jobs
<1>3. \A i \in work[w].batch :
         LET job == Calling("transfer", i, work[w].batch \ {i})
         IN  job \in Jobs /\ job.tip \in Tips
  BY <1>1 DEF Calling, Jobs
<1>4. CASE work[w].batch = {}
  BY <1>1, <1>2, <1>4 DEF NextJob, IInv, CallsOK
<1>5. CASE work[w].batch # {}
  <2>1. PICK i \in work[w].batch :
          work' = [work EXCEPT ![w] = Calling("transfer", i, work[w].batch \ {i})]
    BY <1>5 DEF NextJob
  <2>2. QED
    BY <1>1, <1>3, <2>1 DEF IInv, CallsOK
<1>6. QED
  BY <1>4, <1>5

\* request() preserves the invariant.
LEMMA RequestStep ==
    ASSUME IInv, NEW w \in Procs, Asking(w)
    PROVE  IInv'
<1>1. PICK i \in Tips, k \in Kinds, a \in Amounts, f \in {"credit", "checkout"} :
         Request(w, i, k, a, f)
  BY DEF Asking
<1> DEFINE m   == [NoMoney EXCEPT !.kind = k, !.funding = f, !.amount = a,
                                  !.payment = "pending"]
           job == Calling(IF f = "credit" THEN "transfer" ELSE "intent", i, {})
<1>2. /\ m \in MoneyRows /\ m.payment = "pending" /\ m.txn = NoTxn /\ m.ref = NoRef
      /\ m.reversed = 0
  BY ConstantsOK DEF NoMoney, MoneyRows, AllKinds, PaymentStates
<1>3. job \in Jobs /\ job.tip = i
  BY DEF Calling, Jobs
<1>4. show[i] \in ShowRows /\ RowOK(money[i], show[i]) /\ money[i].payment = "absent"
  BY <1>1 DEF IInv, TypeOK, RowsOK, Request, Fresh
<1> HIDE DEF m, job
<1>5. RowOK(m, show[i])
  <2>1. UnpaidOK(m, show[i]) /\ QueueOK(m, show[i])
    BY <1>2, <1>4 DEF RowOK, UnpaidOK, IsPaid, QueueOK
  <2>2. CountOK(m, show[i]) /\ ReadyOK(m, show[i])
    BY <1>2, <1>4 DEF RowOK, UnpaidOK, IsPaid, CountOK, ReadyOK, Unshown, MoneyRows
  <2>3. show[i].delivery # "queued"
    BY <1>4 DEF RowOK
  <2>4. QED
    BY <1>4, <2>1, <2>2, <2>3 DEF RowOK
<1>6. money' = [money EXCEPT ![i] = m] /\ work' = [work EXCEPT ![w] = job]
      /\ UNCHANGED <<show, ledger, bus, inbox, crashes>>
  BY <1>1 DEF Request, m, job
<1>7. money' \in [Tips -> MoneyRows] /\ work' \in [Procs -> Jobs]
  BY <1>2, <1>3, <1>6 DEF IInv, TypeOK
<1>8. RowsOK'
  BY <1>5, <1>6 DEF IInv, TypeOK, RowsOK
<1>9. CallsOK'
  BY <1>3, <1>6 DEF IInv, TypeOK, CallsOK
<1>10. QED
  BY <1>6, <1>7, <1>8, <1>9 DEF IInv, TypeOK

\* Claiming a batch of due transfers preserves the invariant.
LEMMA ProcessDueStep ==
    ASSUME IInv, NEW w \in Procs, ProcessDueTransfers(w)
    PROVE  IInv'
<1>1. PICK claimed \in SUBSET Due : \E i \in claimed :
         /\ money' = [j \in Tips |-> IF j \in claimed THEN [money[j] EXCEPT !.waiting = TRUE]
                                     ELSE money[j]]
         /\ work'  = [work EXCEPT ![w] = Calling("transfer", i, claimed \ {i})]
         /\ UNCHANGED <<show, ledger, bus, inbox, crashes>>
  BY DEF ProcessDueTransfers
<1>2. PICK i \in claimed :
         /\ money' = [j \in Tips |-> IF j \in claimed THEN [money[j] EXCEPT !.waiting = TRUE]
                                     ELSE money[j]]
         /\ work'  = [work EXCEPT ![w] = Calling("transfer", i, claimed \ {i})]
         /\ UNCHANGED <<show, ledger, bus, inbox, crashes>>
  BY <1>1
<1>3. claimed \subseteq Tips /\ i \in Tips
  BY DEF Due
<1>4. Calling("transfer", i, claimed \ {i}) \in Jobs
      /\ Calling("transfer", i, claimed \ {i}).tip = i
  BY <1>3 DEF Calling, Jobs
<1>5. \A j \in Tips : money[j] \in MoneyRows
  BY DEF IInv, TypeOK
<1>6. money' \in [Tips -> MoneyRows]
  <2>1. \A j \in Tips : [money[j] EXCEPT !.waiting = TRUE] \in MoneyRows
    BY <1>5, ZenonT(60) DEF MoneyRows
  <2>2. QED
    BY <1>2, <1>5, <2>1
<1>7. \A j \in Tips : /\ money'[j].payment = money[j].payment
                      /\ money'[j].txn = money[j].txn /\ money'[j].ref = money[j].ref
                      /\ money'[j].amount = money[j].amount
                      /\ money'[j].reversed = money[j].reversed
                      /\ money[j].test => money'[j].test
  BY <1>2, <1>5 DEF MoneyRows
<1>8. RowsKept
  BY <1>2, <1>6, <1>7, MoneyOnlyFacts
<1>9. work' \in [Procs -> Jobs] /\ CallsOK'
  BY <1>2, <1>3, <1>4 DEF IInv, TypeOK, CallsOK
<1>10. QED
  BY <1>2, <1>8, <1>9 DEF IInv, TypeOK, RowsKept

\* The end of a backoff or a lease preserves the invariant.
LEMMA TimeStep ==
    ASSUME IInv, NEW i \in Tips, TimePasses(i)
    PROVE  IInv'
<1>1. money[i] \in MoneyRows /\ money \in [Tips -> MoneyRows]
  BY DEF IInv, TypeOK
<1>2. money' \in [Tips -> MoneyRows]
      /\ \A j \in Tips : /\ money'[j].payment = money[j].payment
                         /\ money'[j].txn = money[j].txn /\ money'[j].ref = money[j].ref
                         /\ money'[j].amount = money[j].amount
                         /\ money'[j].reversed = money[j].reversed
                         /\ money[j].test => money'[j].test
  BY <1>1 DEF TimePasses, MoneyRows
<1>3. RowsKept
  BY <1>2, MoneyOnlyFacts DEF TimePasses
<1>4. QED
  BY <1>3 DEF IInv, TypeOK, RowsKept, CallsOK, TimePasses

\* Putting a transfer off keeps every row good.
LEMMA RetryLaterFacts ==
    ASSUME IInv, NEW i \in Tips, RetryLater(i)
    PROVE  RowsKept
<1>1. money[i] \in MoneyRows /\ money \in [Tips -> MoneyRows]
  BY DEF IInv, TypeOK
<1>2. money' \in [Tips -> MoneyRows]
      /\ \A j \in Tips : /\ money'[j].payment = money[j].payment
                         /\ money'[j].txn = money[j].txn /\ money'[j].ref = money[j].ref
                         /\ money'[j].amount = money[j].amount
                         /\ money'[j].reversed = money[j].reversed
                         /\ money[j].test => money'[j].test
  BY <1>1 DEF RetryLater, MoneyRows
<1>3. QED
  BY <1>2, MoneyOnlyFacts DEF RetryLater

\* What transfer() does with Billing's answer preserves the invariant.
LEMMA FinishTransferStep ==
    ASSUME IInv, NEW w \in Procs, FinishTransfer(w)
    PROVE  IInv'
<1> DEFINE i == work[w].tip
           t == TransferTxn(i)
<1>1. i \in Tips /\ t \in TxnIds
  BY TxnTypes DEF FinishTransfer, IInv, CallsOK
<1>2. ledger[t].test \in BOOLEAN
  BY <1>1 DEF IInv, TypeOK, Entries
<1>3. \/ SettleByTransaction(i, t, ledger[t].test)
      \/ FailPayment(i)
      \/ RetryLater(i)
  BY DEF FinishTransfer
<1> HIDE DEF i, t
<1>4. RowsKept
  BY <1>1, <1>2, <1>3, SettleByTransactionFacts, FailPaymentFacts, RetryLaterFacts
<1>5. work' \in [Procs -> Jobs] /\ CallsOK'
  BY NextJobFacts DEF FinishTransfer
<1>6. QED
  BY <1>4, <1>5 DEF FinishTransfer, IInv, TypeOK, RowsKept

\* What startCheckout() does with Billing's answer preserves the invariant.
LEMMA FinishCheckoutStep ==
    ASSUME IInv, NEW w \in Procs, FinishCheckout(w)
    PROVE  IInv'
<1> DEFINE i == work[w].tip
<1>1. i \in Tips
  BY DEF FinishCheckout, IInv, CallsOK
<1>2. \/ money' = [money EXCEPT ![i].intent = TRUE] /\ UNCHANGED show
      \/ FailPayment(i)
      \/ UNCHANGED rows
  BY DEF FinishCheckout
<1> HIDE DEF i
<1>3. ASSUME money' = [money EXCEPT ![i].intent = TRUE], UNCHANGED show
      PROVE  RowsKept
  <2>1. money[i] \in MoneyRows /\ money \in [Tips -> MoneyRows]
    BY <1>1 DEF IInv, TypeOK
  <2>2. money' \in [Tips -> MoneyRows]
        /\ \A j \in Tips : /\ money'[j].payment = money[j].payment
                           /\ money'[j].txn = money[j].txn /\ money'[j].ref = money[j].ref
                           /\ money'[j].amount = money[j].amount
                           /\ money'[j].reversed = money[j].reversed
                           /\ money[j].test => money'[j].test
    <3> DEFINE m == [money[i] EXCEPT !.intent = TRUE]
    <3>1. /\ m \in MoneyRows /\ m.payment = money[i].payment /\ m.txn = money[i].txn
          /\ m.ref = money[i].ref /\ m.amount = money[i].amount
          /\ m.reversed = money[i].reversed /\ m.test = money[i].test
      BY <2>1 DEF MoneyRows
    <3>2. money' = [money EXCEPT ![i] = m]
      BY <1>3
    <3> HIDE DEF m
    <3>3. QED
      BY <1>1, <2>1, <3>1, <3>2
  <2>3. QED
    BY <1>3, <2>2, MoneyOnlyFacts
<1>4. RowsKept
  <2>1. FailPayment(i) => RowsKept
    BY <1>1, FailPaymentFacts
  <2>2. UNCHANGED rows => RowsKept
    BY UnchangedRows
  <2>3. QED
    BY <1>2, <1>3, <2>1, <2>2
<1>5. work' \in [Procs -> Jobs] /\ CallsOK'
  BY NextJobFacts DEF FinishCheckout
<1>6. QED
  BY <1>4, <1>5 DEF FinishCheckout, IInv, TypeOK, RowsKept

\* A process that dies with a job in hand preserves the invariant.
LEMMA CrashStep ==
    ASSUME IInv, NEW w \in Procs, Crash(w)
    PROVE  IInv'
<1>1. Idle \in Jobs /\ Idle.pc = "idle"
  BY DEF Idle, Jobs
<1>2. work' \in [Procs -> Jobs] /\ CallsOK' /\ crashes' \in Nat
  BY <1>1 DEF Crash, IInv, TypeOK, CallsOK
<1>3. RowsKept
  BY UnchangedRows DEF Crash, rows
<1>4. QED
  BY <1>2, <1>3 DEF Crash, IInv, TypeOK, RowsKept

-----------------------------------------------------------------------------
(* Billing *)

\* Billing's steps leave the rows alone.
LEMMA LedgerFacts ==
    ASSUME IInv, UNCHANGED <<money, show>>, NEW e \in Events,
           ledger' \in [TxnIds -> Entries], bus' = bus \/ bus' = bus \cup {e},
           UNCHANGED <<inbox, crashes>>, work' \in [Procs -> Jobs], CallsOK'
    PROVE  IInv'
<1>1. RowsKept
  BY UnchangedRows DEF rows
<1>2. bus' \subseteq Events /\ inbox' \subseteq bus'
  BY DEF IInv, TypeOK
<1>3. QED
  BY <1>1, <1>2 DEF IInv, TypeOK, RowsKept

\* A transaction Billing records is a well-formed entry and event.
LEMMA RecordFacts ==
    ASSUME IInv, NEW t \in TxnIds, NEW amount \in Nat, NEW target \in Tips \cup {NoTip},
           NEW parties \in BOOLEAN, NEW test \in BOOLEAN,
           Record(t, amount, target, parties, test)
    PROVE  ledger' \in [TxnIds -> Entries] /\ bus' = bus \cup {SettledEvent(t)}
<1>1. [NoEntry EXCEPT !.amount = amount, !.target = target, !.parties = parties, !.test = test]
        \in Entries
  BY DEF NoEntry, Entries
<1>2. QED
  BY <1>1 DEF Record, IInv, TypeOK

\* An answer from Billing leaves its call made for the same interaction.
LEMMA AnsweredFacts ==
    ASSUME IInv, NEW w \in Procs, NEW answer \in {"ok", "refused", "lost"},
           work[w].pc = "calling", Answered(w, answer)
    PROVE  work' \in [Procs -> Jobs] /\ CallsOK'
<1> DEFINE job == [work[w] EXCEPT !.pc = "answered", !.answer = answer]
<1>1. work[w] \in Jobs /\ work[w].tip \in Tips
  BY DEF IInv, TypeOK, CallsOK
<1>2. job \in Jobs /\ job.tip \in Tips
  BY <1>1 DEF Jobs
<1>3. work' = [work EXCEPT ![w] = job]
  BY DEF Answered, IInv, TypeOK
<1> HIDE DEF job
<1>4. QED
  BY <1>2, <1>3 DEF IInv, TypeOK, CallsOK

\* What Billing does with a call preserves the invariant.
LEMMA BillingStep ==
    ASSUME IInv, NEW w \in Procs, Billing(w)
    PROVE  IInv'
<1> DEFINE i == work[w].tip
           t == TransferTxn(i)
<1>1. work[w].pc = "calling" /\ UNCHANGED <<money, show, inbox, crashes>>
  BY DEF Billing, BillingTransfers, BillingCreatesIntent, BillingRefuses, BillingUnreachable
<1>2. i \in Tips /\ t \in TxnIds
  BY <1>1, TxnTypes DEF IInv, CallsOK
<1>3. money[i] \in MoneyRows
  BY <1>2 DEF IInv, TypeOK
<1>4. PICK answer \in {"ok", "refused", "lost"} : Answered(w, answer)
  BY DEF Billing, BillingTransfers, BillingCreatesIntent, BillingRefuses, BillingUnreachable
<1>5. work' \in [Procs -> Jobs] /\ CallsOK'
  BY <1>1, <1>4, AnsweredFacts
<1>6. \/ Record(t, money[i].amount, i, TRUE, money[i].test)
      \/ UNCHANGED <<ledger, bus>>
  BY DEF Billing, BillingTransfers, BillingCreatesIntent, BillingRefuses, BillingUnreachable
<1>7. SettledEvent(t) \in Events
  BY <1>2, EventsTyped
<1> HIDE DEF i, t
<1>8. ledger' \in [TxnIds -> Entries] /\ (bus' = bus \/ bus' = bus \cup {SettledEvent(t)})
  <2>1. money[i].amount \in Nat /\ money[i].test \in BOOLEAN
    BY <1>3 DEF MoneyRows
  <2>2. Record(t, money[i].amount, i, TRUE, money[i].test) =>
           ledger' \in [TxnIds -> Entries] /\ bus' = bus \cup {SettledEvent(t)}
    BY <1>2, <2>1, RecordFacts
  <2>3. QED
    BY <1>6, <2>2 DEF IInv, TypeOK
<1>9. QED
  BY <1>1, <1>5, <1>7, <1>8, LedgerFacts

\* What Billing does on its own (payments, donations, refunds, receipts) preserves the invariant.
LEMMA BillingMovesStep ==
    ASSUME IInv, BillingMoves
    PROVE  IInv'
<1>1. ASSUME UNCHANGED work PROVE work' \in [Procs -> Jobs] /\ CallsOK'
  BY <1>1 DEF IInv, TypeOK, CallsOK
<1>2. ASSUME NEW i \in Tips, NEW test \in TestFlags, PayCheckout(i, test)
      PROVE  IInv'
  <2>1. PurchaseTxn(i) \in TxnIds /\ money[i].amount \in Nat /\ test \in BOOLEAN
    BY TxnTypes, SettlementConstantsOK DEF IInv, TypeOK, MoneyRows
  <2>2. ledger' \in [TxnIds -> Entries] /\ bus' = bus \cup {SettledEvent(PurchaseTxn(i))}
    BY <1>2, <2>1, RecordFacts DEF PayCheckout
  <2>3. QED
    BY <1>1, <1>2, <2>1, <2>2, EventsTyped, LedgerFacts DEF PayCheckout
<1>3. ASSUME NEW d \in Donations, NEW a \in Amounts, NEW target \in Tips \cup {NoTip},
             NEW parties \in BOOLEAN, NEW test \in TestFlags,
             Donate(d, a, target, parties, test)
      PROVE  IInv'
  <2>1. DonationTxn(d) \in TxnIds /\ a \in Nat /\ test \in BOOLEAN
    BY TxnTypes, ConstantsOK, SettlementConstantsOK
  <2>2. ledger' \in [TxnIds -> Entries] /\ bus' = bus \cup {SettledEvent(DonationTxn(d))}
    BY <1>3, <2>1, RecordFacts DEF Donate
  <2>3. QED
    BY <1>1, <1>3, <2>1, <2>2, EventsTyped, LedgerFacts DEF Donate
<1>4. ASSUME NEW t \in TxnIds, NEW bits \in 0..ledger[t].amount - ledger[t].clawed,
             Reverse(t, bits)
      PROVE  IInv'
  <2> DEFINE n     == ledger[t].refunds + 1
             entry == [ledger[t] EXCEPT !.clawed = @ + bits, !.refunds = n]
  <2>1. ledger[t] \in Entries /\ ledger[t].amount \in Nat /\ ledger[t].clawed \in Nat
        /\ ledger[t].refunds \in Nat
    BY DEF IInv, TypeOK, Entries
  <2>2. bits \in Nat /\ n \in Nat
    BY <2>1
  <2>3. entry \in Entries
    <3>1. ledger[t].clawed + bits \in Nat
      BY <2>1, <2>2
    <3> DEFINE c == ledger[t].clawed + bits
    <3> HIDE DEF c, n
    <3>2. [ledger[t] EXCEPT !.clawed = c, !.refunds = n] \in Entries
      BY <2>1, <2>2, <3>1 DEF Entries, c
    <3>3. QED
      BY <3>2 DEF c
  <2>4. ledger' = [ledger EXCEPT ![t] = entry] /\ bus' = bus \cup {ReversedEvent(t, n, bits)}
    BY <1>4 DEF Reverse, IInv, TypeOK
  <2> HIDE DEF n, entry
  <2>5. ledger' \in [TxnIds -> Entries]
    BY <2>3, <2>4 DEF IInv, TypeOK
  <2>6. ReversedEvent(t, n, bits) \in Events
    BY <2>2, EventsTyped
  <2>7. QED
    BY <1>1, <1>4, <2>4, <2>5, <2>6, LedgerFacts DEF Reverse
<1>5. ASSUME NEW r \in Receipts, AnnounceReceipt(r)
      PROVE  IInv'
  BY <1>1, <1>5, EventsTyped, LedgerFacts DEF AnnounceReceipt, IInv, TypeOK
<1>6. ASSUME NEW e \in bus, Republish(e)
      PROVE  IInv'
  <2>1. [e EXCEPT !.copy = 2] \in Events
    BY DEF IInv, TypeOK, Events
  <2>2. QED
    BY <1>1, <1>6, <2>1, LedgerFacts DEF Republish, IInv, TypeOK
<1>7. QED
  BY <1>2, <1>3, <1>4, <1>5, <1>6 DEF BillingMoves

-----------------------------------------------------------------------------
(* Events applied, interactions recorded, moderators and the effects worker *)

\* The inbox only ever claims events that were published.
LEMMA ReceiveFacts ==
    ASSUME IInv, NEW e \in bus, Receive(e), RowsKept
    PROVE  IInv'
  BY DEF Receive, IInv, TypeOK, RowsKept, CallsOK

\* Recording a row that is settled at once.
LEMMA RecordedRowFacts ==
    ASSUME IInv, NEW i \in Tips, Fresh(i), NEW m \in MoneyRows, m.reversed = 0, Settle(i, m)
    PROVE  RowsKept
  BY SettleFacts DEF Fresh, IsPaid

\* The row of an external receipt is well-formed and has nothing taken back.
LEMMA ExternalRowTypes ==
    ASSUME NEW r \in Receipts, NEW a \in Amounts, NEW test \in TestFlags,
           NEW origin \in {"tips", "external", "billing-external"}
    PROVE  ExternalRow(r, a, test, origin) \in MoneyRows
           /\ ExternalRow(r, a, test, origin).reversed = 0
  BY ConstantsOK, SettlementConstantsOK
     DEF ExternalRow, NoMoney, MoneyRows, AllKinds, PaymentStates

\* Applying a settled donation preserves the invariant.
LEMMA DonationStep ==
    ASSUME IInv, NEW e \in bus, OnDonation(e)
    PROVE  IInv'
<1> DEFINE t == e.txn
           i == ledger[t].target
<1>1. t \in TxnIds /\ ledger[t] \in Entries
  BY TxnTypes DEF OnDonation, IInv, TypeOK
<1>2. i \in Tips \cup {NoTip} /\ ledger[t].test \in BOOLEAN /\ ledger[t].amount \in Nat
  BY <1>1 DEF Entries
<1> DEFINE Row(k) == [NoMoney EXCEPT !.kind = k, !.origin = "billing", !.funding = "provider",
                                     !.amount = ledger[t].amount, !.test = ledger[t].test,
                                     !.txn = t]
<1>3. \/ UNCHANGED rows
      \/ i # NoTip /\ SettleByTransaction(i, t, ledger[t].test)
      \/ \E j \in Tips, k \in Kinds : Fresh(j) /\ Settle(j, Row(k))
  BY DEF OnDonation
<1>4. \A k \in Kinds : Row(k) \in MoneyRows /\ Row(k).reversed = 0
  BY <1>1, <1>2, ConstantsOK DEF NoMoney, MoneyRows, PaymentStates
<1> HIDE DEF i, t, Row
<1>5. i # NoTip /\ SettleByTransaction(i, t, ledger[t].test) => RowsKept
  BY <1>1, <1>2, SettleByTransactionFacts
<1>6. (\E j \in Tips, k \in Kinds : Fresh(j) /\ Settle(j, Row(k))) => RowsKept
  BY <1>4, RecordedRowFacts
<1>7. RowsKept
  BY <1>3, <1>5, <1>6, UnchangedRows
<1>8. QED
  BY <1>7, ReceiveFacts DEF OnDonation

\* Applying a settled purchase preserves the invariant.
LEMMA PurchaseStep ==
    ASSUME IInv, NEW e \in bus, OnPurchase(e)
    PROVE  IInv'
<1> DEFINE i    == ledger[e.txn].target
           test == ledger[e.txn].test
           m    == [money[i] EXCEPT !.fundingTxn = e.txn, !.test = @ \/ test,
                                    !.due = money[i].payment = "pending", !.waiting = FALSE]
<1>1. e \in Events
  BY DEF IInv, TypeOK
<1>2. e.txn \in TxnIds
  BY <1>1 DEF Events, OnPurchase
<1>3. money' = money \/ money' = [money EXCEPT ![i] = m]
  BY DEF OnPurchase
<1>4. CASE money' = money
  BY <1>4, UnchangedRows, ReceiveFacts DEF OnPurchase, rows
<1>5. CASE money' = [money EXCEPT ![i] = m] /\ i \in Tips
  <2>1. test \in BOOLEAN /\ money[i] \in MoneyRows
    BY <1>2, <1>5 DEF IInv, TypeOK, Entries
  <2> DEFINE due == money[i].payment = "pending"
  <2>2. due \in BOOLEAN
    OBVIOUS
  <2> HIDE DEF test, due
  <2>3. /\ m \in MoneyRows /\ m.payment = money[i].payment /\ m.txn = money[i].txn
        /\ m.ref = money[i].ref /\ m.amount = money[i].amount
        /\ m.reversed = money[i].reversed /\ (money[i].test => m.test)
    BY <1>2, <1>5, <2>1, <2>2, ZenonT(60) DEF MoneyRows, due
  <2> HIDE DEF m, i
  <2>4. money' \in [Tips -> MoneyRows]
        /\ \A j \in Tips : /\ money'[j].payment = money[j].payment
                           /\ money'[j].txn = money[j].txn /\ money'[j].ref = money[j].ref
                           /\ money'[j].amount = money[j].amount
                           /\ money'[j].reversed = money[j].reversed
                           /\ money[j].test => money'[j].test
    BY <1>5, <2>3 DEF IInv, TypeOK
  <2>5. RowsKept
    BY <2>4, MoneyOnlyFacts DEF OnPurchase
  <2>6. QED
    BY <2>5, ReceiveFacts DEF OnPurchase
<1>6. CASE i \notin Tips
  <2>1. money' = money
    BY <1>3, <1>6 DEF IInv, TypeOK
  <2>2. QED
    BY <1>4, <2>1
<1>7. QED
  BY <1>3, <1>4, <1>5, <1>6

\* Applying a reversal preserves the invariant, however much it takes back.
LEMMA ReversedStep ==
    ASSUME IInv, NEW e \in bus, OnReversed(e)
    PROVE  IInv'
<1>1. e.part \in Nat /\ e.bits \in Nat
  BY DEF IInv, TypeOK, Events
<1>2. ASSUME NEW i \in Tips, i \in SettledBy(e.txn), e.txn # NoTxn,
             Put(i, ReversedMoney(money[i], e.part, e.bits),
                    ReversedShow(ReversedMoney(money[i], e.part, e.bits), show[i],
                                 Taken(money[i], e.bits)))
      PROVE  RowsKept
  <2>1. money[i] \in MoneyRows /\ show[i] \in ShowRows /\ RowOK(money[i], show[i])
    BY DEF IInv, TypeOK, RowsOK
  <2>2. IsPaid(money[i])
    BY <1>2, <2>1 DEF SettledBy, RowOK, UnpaidOK
  <2>3. QED
    BY <1>1, <1>2, <2>1, <2>2, ReversedFacts, PutFacts DEF IInv, TypeOK, RowsKept
<1>3. e.txn # NoTxn
  BY TxnTypes DEF OnReversed, IInv, TypeOK, Events
<1>4. \/ UNCHANGED rows
      \/ \E i \in Tips :
            /\ i \in SettledBy(e.txn)
            /\ Put(i, ReversedMoney(money[i], e.part, e.bits),
                      ReversedShow(ReversedMoney(money[i], e.part, e.bits), show[i],
                                   Taken(money[i], e.bits)))
      \/ \E i \in Tips : FailPayment(i)
  BY DEF OnReversed, SettledBy
<1>5. RowsKept
  BY <1>2, <1>3, <1>4, UnchangedRows, FailPaymentFacts
<1>6. QED
  BY <1>5, ReceiveFacts DEF OnReversed

\* Applying an external receipt preserves the invariant.
LEMMA ExternalStep ==
    ASSUME IInv, NEW e \in bus, OnExternal(e)
    PROVE  IInv'
<1>1. e.ref \in Receipts
  BY DEF OnExternal, IInv, TypeOK, Events
<1>2. \/ UNCHANGED rows
      \/ \E i \in Tips, a \in Amounts, test \in TestFlags :
            Fresh(i) /\ Settle(i, ExternalRow(e.ref, a, test, "billing-external"))
  BY DEF OnExternal
<1>3. RowsKept
  BY <1>1, <1>2, UnchangedRows, ExternalRowTypes, RecordedRowFacts
<1>4. QED
  BY <1>3, ReceiveFacts DEF OnExternal

\* A tip recorded or simulated through the API preserves the invariant.
LEMMA RecordingStep ==
    ASSUME IInv, Recording
    PROVE  IInv'
<1>1. ASSUME NEW i \in Tips, NEW r \in Receipts, NEW a \in Amounts, NEW test \in TestFlags,
             NEW announce \in BOOLEAN, RecordExternal(i, r, a, test, announce)
      PROVE  IInv'
  <2> DEFINE origin == IF announce THEN "tips" ELSE "external"
  <2>1. origin \in {"tips", "external", "billing-external"}
    OBVIOUS
  <2>2. Fresh(i) /\ Settle(i, ExternalRow(r, a, test, origin))
    BY <1>1 DEF RecordExternal
  <2> HIDE DEF origin
  <2>3. RowsKept
    BY <2>1, <2>2, ExternalRowTypes, RecordedRowFacts
  <2>4. QED
    BY <1>1, <2>3 DEF RecordExternal, IInv, TypeOK, RowsKept, CallsOK
<1>2. ASSUME NEW i \in Tips, NEW k \in Kinds, NEW a \in Amounts, Simulate(i, k, a)
      PROVE  IInv'
  <2> DEFINE m == [NoMoney EXCEPT !.kind = k, !.amount = a, !.test = TRUE]
  <2>1. m \in MoneyRows /\ m.reversed = 0
    BY ConstantsOK DEF NoMoney, MoneyRows, PaymentStates
  <2>2. Fresh(i) /\ Settle(i, m)
    BY <1>2 DEF Simulate
  <2> HIDE DEF m
  <2>3. RowsKept
    BY <2>1, <2>2, RecordedRowFacts
  <2>4. QED
    BY <1>2, <2>3 DEF Simulate, IInv, TypeOK, RowsKept, CallsOK
<1>3. QED
  BY <1>1, <1>2 DEF Recording

\* What moderators and the effects worker write preserves the invariant.
LEMMA ShowingStep ==
    ASSUME IInv, NEW i \in Tips, Showing(i)
    PROVE  IInv'
<1>1. money[i] \in MoneyRows /\ show[i] \in ShowRows /\ RowOK(money[i], show[i])
  BY DEF IInv, TypeOK, RowsOK
<1>2. ASSUME NEW s \in ShowRows, RowOK(money[i], s), Show(i, s)
      PROVE  IInv'
  <2>1. Put(i, money[i], s)
    BY <1>2 DEF Show, Put, IInv, TypeOK
  <2>2. QED
    BY <1>1, <1>2, <2>1, PutFacts DEF Show, IInv, TypeOK, CallsOK
<1>3. PICK s : /\ Show(i, s)
              /\ \/ s = Hidden(money[i], show[i])
                 \/ s = Restored(money[i], show[i])
                 \/ \E e \in Queued(show[i]) : \/ s = EffectDone(money[i], show[i], e)
                                              \/ s = EffectFailed(money[i], show[i], e)
  BY DEF Showing, Hide, Restore, MarkDone, MarkFailed
<1>4. s \in ShowRows /\ RowOK(money[i], s)
  BY <1>1, <1>3, HiddenFacts, RestoredFacts, EffectDoneFacts, EffectFailedFacts
<1>5. QED
  BY <1>2, <1>3, <1>4

-----------------------------------------------------------------------------
(* The theorems *)

\* The invariant holds before anything happened.
LEMMA InitIInv == Init => IInv
<1> SUFFICES ASSUME Init PROVE IInv
  OBVIOUS
<1>1. Idle \in Jobs /\ Idle.pc = "idle" /\ NoEntry \in Entries
  BY DEF Idle, Jobs, NoEntry, Entries
<1>2. QED
  BY <1>1, FreshTypes DEF Init, IInv, TypeOK, CallsOK, RowsOK

\* Every step of every process preserves the invariant.
LEMMA NextIInv == IInv /\ [Next]_vars => IInv'
<1> SUFFICES ASSUME IInv, [Next]_vars PROVE IInv'
  OBVIOUS
<1>1. CASE UNCHANGED vars
  BY <1>1 DEF vars, IInv, TypeOK, CallsOK, RowsOK
<1>2. ASSUME NEW w \in Procs, Asking(w) \/ Working(w) \/ Billing(w) \/ Crash(w)
      PROVE  IInv'
  BY <1>2, RequestStep, ProcessDueStep, FinishTransferStep, FinishCheckoutStep, BillingStep,
     CrashStep DEF Working
<1>3. ASSUME NEW i \in Tips, TimePasses(i)
      PROVE  IInv'
  BY <1>3, TimeStep
<1>4. ASSUME NEW i \in Watched, Showing(i)
      PROVE  IInv'
  BY <1>4, ShowingStep, SettlementConstantsOK
<1>5. ASSUME NEW e \in bus, Deliver(e)
      PROVE  IInv'
  BY <1>5, DonationStep, PurchaseStep, ReversedStep, ExternalStep DEF Deliver
<1>6. QED
  BY <1>1, <1>2, <1>3, <1>4, <1>5, BillingMovesStep, RecordingStep DEF Next

\* Every reachable state satisfies the inductive invariant.
THEOREM SettlementInvariant == Spec => []IInv
  BY InitIInv, NextIInv, PTL DEF Spec

\* Every variable stays in its type, whatever the handlers do and in whatever order.
THEOREM TypeCorrect == Spec => []TypeOK
<1>1. IInv => TypeOK
  BY DEF IInv
<1>2. QED
  BY <1>1, SettlementInvariant, PTL

\* Every row is in order between transactions: what is paid, queued, shown, counted and
\* announced of it agrees, the invariant the proofs of single properties rest on.
THEOREM RowsStayGood == Spec => []RowsOK
<1>1. IInv => RowsOK
  BY DEF IInv
<1>2. QED
  BY <1>1, SettlementInvariant, PTL

\* No alert, chat delivery, paid message, goal contribution or ready event exists of an
\* interaction whose payment has not settled.
THEOREM NothingShownBeforePayment == Spec => []NothingBeforePayment
<1>1. IInv => NothingBeforePayment
  BY DEF IInv, RowsOK, RowOK, UnpaidOK, NothingBeforePayment
<1>2. QED
  BY <1>1, SettlementInvariant, PTL

\* What is queued can be delivered, and a queued tip always has something to deliver or a
\* moderator to decide.
THEOREM QueueStaysLive == Spec => []QueueIsLive
<1>1. IInv => QueueIsLive
  BY DEF IInv, RowsOK, RowOK, QueueIsLive
<1>2. QED
  BY <1>1, SettlementInvariant, PTL

\* The overlay shows a tip's alert only while the tip is visible, and what is held has
\* never been shown.
THEOREM OverlayIsModerated == Spec => []OverlayFollowsModeration
<1>1. IInv => OverlayFollowsModeration
  BY DEF IInv, RowsOK, RowOK, OverlayFollowsModeration
<1>2. QED
  BY <1>1, SettlementInvariant, PTL

\* A goal counts for an interaction what the interaction still counts for, after any
\* sequence of partial reversals.
THEOREM GoalsFollowMoney == Spec => []GoalFollowsMoney
<1>1. ASSUME NEW m \in MoneyRows, NEW s \in ShowRows, CountOK(m, s) PROVE GoalOK(m, s)
  BY <1>1 DEF CountOK, GoalOK, MoneyRows, ShowRows
<1>2. IInv => GoalFollowsMoney
  BY <1>1 DEF IInv, TypeOK, RowsOK, RowOK, GoalFollowsMoney
<1>3. QED
  BY <1>2, SettlementInvariant, PTL

\* tips.interaction.ready is published exactly once for a real paid interaction.
THEOREM ReadyIsOnce == Spec => []ReadyOnce
<1>1. IInv => ReadyOnce
  BY DEF IInv, RowsOK, RowOK, ReadyOnce
<1>2. QED
  BY <1>1, SettlementInvariant, PTL

-----------------------------------------------------------------------------
(* What Settlement has of the moderators and the effects worker *)

\* What Settlement's moderators and effects worker do to a row is exactly what Delivery
\* promises its processes do (RowsAsAgreed): a queued effect ends, or the tip is hidden or
\* restored.
THEOREM ShowingIsAgreed ==
    ASSUME NEW i \in Tips, ~Fresh(i)
    PROVE  Showing(i) <=> \E s : /\ Show(i, s)
                                 /\ Ends(money[i], show[i], s) \/ Moderates(money[i], show[i], s)
<1>1. \A e : e \in Queued(show[i]) => e \in EffectNames
  BY DEF Queued
<1>2. ASSUME Showing(i)
      PROVE  \E s : /\ Show(i, s)
                    /\ Ends(money[i], show[i], s) \/ Moderates(money[i], show[i], s)
  <2>1. CASE Hide(i)
    BY <2>1 DEF Hide, Moderates
  <2>2. CASE Restore(i)
    BY <2>2 DEF Restore, Moderates
  <2>3. ASSUME NEW e \in EffectNames, MarkDone(i, e) \/ MarkFailed(i, e)
        PROVE  \E s : Show(i, s) /\ Ends(money[i], show[i], s)
    BY <2>3 DEF MarkDone, MarkFailed, Ends
  <2>4. QED
    BY <1>2, <2>1, <2>2, <2>3 DEF Showing
<1>3. ASSUME NEW s, Show(i, s), Ends(money[i], show[i], s)
      PROVE  Showing(i)
  <2>1. PICK e \in Queued(show[i]) :
          s \in {EffectDone(money[i], show[i], e), EffectFailed(money[i], show[i], e)}
    BY <1>3 DEF Ends
  <2>2. MarkDone(i, e) \/ MarkFailed(i, e)
    BY <1>3, <2>1 DEF MarkDone, MarkFailed
  <2>3. QED
    BY <1>1, <2>1, <2>2 DEF Showing
<1>4. ASSUME NEW s, Show(i, s), Moderates(money[i], show[i], s)
      PROVE  Showing(i)
  <2>1. Hide(i) \/ Restore(i)
    BY <1>4 DEF Moderates, Hide, Restore
  <2>2. QED
    BY <2>1 DEF Showing
<1>5. QED
  BY <1>2, <1>3, <1>4

\* Row i as Delivery begins with it: settled whole, and shown, held or hidden as a moderator
\* and the filter left it.
Enters(i) ==
    /\ money'[i].payment = "settled" /\ money'[i].reversed = 0
    /\ \E seen \in {"visible", "hidden"}, hold \in BOOLEAN :
          SameInDelivery(show'[i], SettledShow(money'[i], BeforePayment(seen), hold, FALSE))

\* Row i goes on as Delivery's rows do: an effect ends, it is moderated or reversed.
Continues(i) ==
    \/ show'[i] = show[i]
    \/ Ends(money[i], show[i], show'[i]) \/ Moderates(money[i], show[i], show'[i])
    \/ \E id, bits \in Nat :
          /\ money'[i] = ReversedMoney(money[i], id, bits)
          /\ show'[i]  = ReversedShow(money'[i], show[i], Taken(money[i], bits))

\* Before its payment Delivery has nothing of row i; with it the row enters, and goes on.
AsDeliveryHas(i) ==
    IF IsPaid(money[i]) THEN IsPaid(money'[i]) /\ Continues(i)
    ELSE IsPaid(money'[i]) => Enters(i)

\* A transaction on one row leaves the others alone.
LEMMA PutAsDelivery ==
    ASSUME IInv, NEW i \in Tips, NEW m, NEW s, Put(i, m, s), AsDeliveryHas(i)
    PROVE  \A j \in Tips : AsDeliveryHas(j)
<1>1. \A j \in Tips : j # i => money'[j] = money[j] /\ show'[j] = show[j]
  BY DEF Put, IInv, TypeOK
<1> QED BY <1>1 DEF AsDeliveryHas, Continues

\* What changes neither what is shown nor whether it is paid for.
LEMMA QuietAsDelivery ==
    ASSUME UNCHANGED show, \A i \in Tips : IsPaid(money'[i]) <=> IsPaid(money[i])
    PROVE  \A j \in Tips : AsDeliveryHas(j)
BY DEF AsDeliveryHas, Continues

\* settle() of an unpaid interaction.
LEMMA SettleAsDelivery ==
    ASSUME IInv, NEW i \in Tips, NEW m \in MoneyRows, ~IsPaid(money[i]), m.reversed = 0,
           Settle(i, m)
    PROVE  \A j \in Tips : AsDeliveryHas(j)
<1> DEFINE n == SettledMoney(m)
<1>1. PICK hold \in BOOLEAN, goal \in BOOLEAN :
         Put(i, n, SettledShow(n, show[i], hold, goal))
  BY DEF Settle
<1>2. n \in MoneyRows /\ n.payment = "settled" /\ n.reversed = 0
  BY DEF SettledMoney, MoneyRows, PaymentStates
<1>3. /\ show[i] \in ShowRows /\ Unshown(show[i]) /\ show[i].moderation \in {"visible", "hidden"}
  BY DEF IInv, TypeOK, RowsOK, RowOK, UnpaidOK, ShowRows, ModerationStates
<1> DEFINE seen == show[i].moderation
           u    == BeforePayment(seen)
<1>4. u \in ShowRows /\ Unshown(u) /\ u.moderation = seen
  BY <1>3 DEF BeforePayment, NoShow, Unshown, ShowRows, DeliveryStates, ModerationStates,
              EffectStates, EventTypes
<1> HIDE DEF n, u
<1>5. SameInDelivery(SettledShow(n, show[i], hold, goal), SettledShow(n, u, hold, FALSE))
  BY <1>2, <1>3, <1>4, SettledAlike
<1>6. money'[i] = n /\ show'[i] = SettledShow(n, show[i], hold, goal)
  BY <1>1 DEF Put, IInv, TypeOK
<1>7. Enters(i)
  BY <1>2, <1>3, <1>5, <1>6 DEF Enters, u
<1> QED BY <1>1, <1>7, PutAsDelivery DEF AsDeliveryHas

LEMMA SettleByTransactionAsDelivery ==
    ASSUME IInv, NEW i \in Tips, NEW t \in TxnIds, NEW test \in BOOLEAN,
           SettleByTransaction(i, t, test)
    PROVE  \A j \in Tips : AsDeliveryHas(j)
<1> DEFINE m == [money[i] EXCEPT !.txn = t, !.test = @ \/ test, !.due = FALSE]
<1>1. money[i] \in MoneyRows /\ RowOK(money[i], show[i])
  BY DEF IInv, TypeOK, RowsOK
<1>2. CASE UNCHANGED rows
  BY <1>2, QuietAsDelivery DEF rows
<1>3. CASE ~IsPaid(money[i]) /\ Settle(i, m)
  <2>1. m \in MoneyRows /\ m.reversed = money[i].reversed
    BY <1>1 DEF MoneyRows
  <2>2. m.reversed = 0
    BY <1>1, <1>3, <2>1 DEF RowOK, UnpaidOK
  <2> HIDE DEF m
  <2> QED BY <1>3, <2>1, <2>2, SettleAsDelivery
<1> QED BY <1>2, <1>3 DEF SettleByTransaction, IsPaid

LEMMA FailPaymentAsDelivery ==
    ASSUME IInv, NEW i \in Tips, FailPayment(i)
    PROVE  \A j \in Tips : AsDeliveryHas(j)
<1>1. money[i] \in MoneyRows
  BY DEF IInv, TypeOK
<1>2. CASE money[i].payment = "pending"
  <2>1. Put(i, FailedMoney(money[i]), FailedShow(money[i], show[i]))
    BY <1>2 DEF FailPayment
  <2>2. money'[i].payment = "failed"
    BY <1>1, <2>1 DEF Put, IInv, TypeOK, FailedMoney, MoneyRows
  <2> QED BY <1>2, <2>1, <2>2, PutAsDelivery DEF AsDeliveryHas, IsPaid
<1>3. CASE money[i].payment # "pending"
  BY <1>3, QuietAsDelivery DEF FailPayment, rows
<1> QED BY <1>2, <1>3

\* A tip recorded from outside is settled in the transaction that inserts it.
LEMMA RecordedAsDelivery ==
    ASSUME IInv, NEW i \in Tips, NEW m \in MoneyRows, m.reversed = 0, Fresh(i), Settle(i, m)
    PROVE  \A j \in Tips : AsDeliveryHas(j)
<1>1. ~IsPaid(money[i])
  BY DEF Fresh, IsPaid
<1> QED BY <1>1, SettleAsDelivery

\* Requests, the transfer worker and its answers.
LEMMA WorkAsDelivery ==
    ASSUME IInv, NEW w \in Procs, Asking(w) \/ Working(w)
    PROVE  \A j \in Tips : AsDeliveryHas(j)
<1>1. ASSUME NEW i \in Tips, NEW k, NEW a, NEW f, Request(w, i, k, a, f)
      PROVE  \A j \in Tips : AsDeliveryHas(j)
  <2>1. \A j \in Tips : money'[j] = IF j = i THEN [NoMoney EXCEPT !.kind = k, !.funding = f,
                                                                 !.amount = a, !.payment = "pending"]
                                    ELSE money[j]
    BY <1>1 DEF Request, IInv, TypeOK
  <2>2. ~IsPaid(money[i]) /\ ~IsPaid(money'[i])
    BY <1>1, <2>1 DEF Request, Fresh, IsPaid, NoMoney
  <2> QED BY <1>1, <2>1, <2>2, QuietAsDelivery DEF Request
<1>2. ASSUME ProcessDueTransfers(w)
      PROVE  \A j \in Tips : AsDeliveryHas(j)
  <2>1. PICK claimed \in SUBSET Due :
          money' = [j \in Tips |-> IF j \in claimed THEN [money[j] EXCEPT !.waiting = TRUE]
                                   ELSE money[j]]
    BY <1>2 DEF ProcessDueTransfers
  <2>2. \A j \in Tips : money'[j].payment = money[j].payment
    BY <2>1 DEF IInv, TypeOK, MoneyRows
  <2> QED BY <1>2, <2>2, QuietAsDelivery DEF ProcessDueTransfers, IsPaid
<1> DEFINE i == work[w].tip
<1>3. ASSUME FinishTransfer(w)
      PROVE  \A j \in Tips : AsDeliveryHas(j)
  <2>1. i \in Tips
    BY <1>3 DEF FinishTransfer, IInv, CallsOK
  <2>2. TransferTxn(i) \in TxnIds /\ ledger[TransferTxn(i)].test \in BOOLEAN
    BY <2>1, TxnTypes DEF IInv, TypeOK, Entries
  <2>3. CASE SettleByTransaction(i, TransferTxn(i), ledger[TransferTxn(i)].test)
    BY <2>1, <2>2, <2>3, SettleByTransactionAsDelivery
  <2>4. CASE FailPayment(i)
    BY <2>1, <2>4, FailPaymentAsDelivery
  <2>5. CASE RetryLater(i)
    <3>1. \A j \in Tips : money'[j].payment = money[j].payment
      BY <2>5 DEF RetryLater, IInv, TypeOK, MoneyRows
    <3> QED BY <2>5, <3>1, QuietAsDelivery DEF RetryLater, IsPaid
  <2> QED BY <1>3, <2>3, <2>4, <2>5 DEF FinishTransfer
<1>4. ASSUME FinishCheckout(w)
      PROVE  \A j \in Tips : AsDeliveryHas(j)
  <2>1. i \in Tips
    BY <1>4 DEF FinishCheckout, IInv, CallsOK
  <2>2. CASE FailPayment(i)
    BY <2>1, <2>2, FailPaymentAsDelivery
  <2>3. CASE UNCHANGED show /\ money' = [money EXCEPT ![i].intent = TRUE]
    <3>1. \A j \in Tips : money'[j].payment = money[j].payment
      BY <2>3 DEF IInv, TypeOK, MoneyRows
    <3> QED BY <2>3, <3>1, QuietAsDelivery DEF IsPaid
  <2>4. CASE UNCHANGED rows
    BY <2>4, QuietAsDelivery DEF rows
  <2> QED BY <1>4, <2>2, <2>3, <2>4 DEF FinishCheckout
<1> QED BY <1>1, <1>2, <1>3, <1>4 DEF Asking, Working

\* The events of Billing.
LEMMA DeliverAsDelivery ==
    ASSUME IInv, NEW e \in bus, Deliver(e)
    PROVE  \A j \in Tips : AsDeliveryHas(j)
<1> DEFINE t == e.txn
           i == ledger[t].target
<1>1. e \in Events
  BY DEF IInv, TypeOK
<1>2. ASSUME OnDonation(e)
      PROVE  \A j \in Tips : AsDeliveryHas(j)
  <2>1. t \in TxnIds /\ ledger[t] \in Entries
    BY <1>2, TxnTypes DEF OnDonation, IInv, TypeOK
  <2>2. i \in Tips \cup {NoTip} /\ ledger[t].test \in BOOLEAN /\ ledger[t].amount \in Nat
    BY <2>1 DEF Entries
  <2> DEFINE Row(k) == [NoMoney EXCEPT !.kind = k, !.origin = "billing", !.funding = "provider",
                                       !.amount = ledger[t].amount, !.test = ledger[t].test,
                                       !.txn = t]
  <2>3. \/ UNCHANGED rows
        \/ i # NoTip /\ SettleByTransaction(i, t, ledger[t].test)
        \/ \E j \in Tips, k \in Kinds : Fresh(j) /\ Settle(j, Row(k))
    BY <1>2 DEF OnDonation
  <2>4. \A k \in Kinds : Row(k) \in MoneyRows /\ Row(k).reversed = 0
    BY <2>1, <2>2, ConstantsOK DEF NoMoney, MoneyRows, PaymentStates
  <2> HIDE DEF i, t, Row
  <2> QED BY <2>1, <2>2, <2>3, <2>4, QuietAsDelivery, SettleByTransactionAsDelivery,
             RecordedAsDelivery DEF rows
<1>3. ASSUME OnPurchase(e)
      PROVE  \A j \in Tips : AsDeliveryHas(j)
  <2>1. \A j \in Tips : money'[j].payment = money[j].payment
    <3> DEFINE m == [money[i] EXCEPT !.fundingTxn = t, !.test = @ \/ ledger[t].test,
                                     !.due = money[i].payment = "pending", !.waiting = FALSE]
    <3>1. money' = money \/ money' = [money EXCEPT ![i] = m]
      BY <1>3 DEF OnPurchase
    <3>2. i \in Tips => m.payment = money[i].payment
      BY DEF IInv, TypeOK, MoneyRows
    <3> HIDE DEF m, i
    <3> QED BY <3>1, <3>2 DEF IInv, TypeOK
  <2> QED BY <1>3, <2>1, QuietAsDelivery DEF OnPurchase, IsPaid
<1>4. ASSUME OnReversed(e)
      PROVE  \A j \in Tips : AsDeliveryHas(j)
  <2>1. e.part \in Nat /\ e.bits \in Nat /\ t # NoTxn
    BY <1>1, <1>4, TxnTypes DEF Events, OnReversed
  <2>2. ASSUME NEW k \in Tips, money[k].txn = t,
               Put(k, ReversedMoney(money[k], e.part, e.bits),
                      ReversedShow(ReversedMoney(money[k], e.part, e.bits), show[k],
                                   Taken(money[k], e.bits)))
        PROVE  \A j \in Tips : AsDeliveryHas(j)
    <3>1. money[k] \in MoneyRows /\ IsPaid(money[k])
      BY <2>1, <2>2 DEF IInv, TypeOK, RowsOK, RowOK, UnpaidOK
    <3>2. /\ money'[k] = ReversedMoney(money[k], e.part, e.bits)
          /\ show'[k] = ReversedShow(money'[k], show[k], Taken(money[k], e.bits))
      BY <2>2 DEF Put, IInv, TypeOK
    <3>3. IsPaid(money'[k])
      BY <3>1, <3>2 DEF ReversedMoney, MoneyRows, IsPaid
    <3>4. Continues(k)
      BY <2>1, <3>2 DEF Continues
    <3> QED BY <2>2, <3>1, <3>3, <3>4, PutAsDelivery DEF AsDeliveryHas
  <2>3. \/ UNCHANGED rows
        \/ \E k \in Tips :
              /\ money[k].txn = t
              /\ Put(k, ReversedMoney(money[k], e.part, e.bits),
                        ReversedShow(ReversedMoney(money[k], e.part, e.bits), show[k],
                                     Taken(money[k], e.bits)))
        \/ \E k \in Tips : FailPayment(k)
    BY <1>4 DEF OnReversed, SettledBy
  <2> QED BY <2>2, <2>3, QuietAsDelivery, FailPaymentAsDelivery DEF rows
<1>5. ASSUME OnExternal(e)
      PROVE  \A j \in Tips : AsDeliveryHas(j)
  <2>1. e.ref \in Receipts
    BY <1>5 DEF OnExternal, IInv, TypeOK, Events
  <2>2. \/ UNCHANGED rows
        \/ \E k \in Tips, a \in Amounts, test \in TestFlags :
              Fresh(k) /\ Settle(k, ExternalRow(e.ref, a, test, "billing-external"))
    BY <1>5 DEF OnExternal
  <2> QED BY <2>1, <2>2, QuietAsDelivery, ExternalRowTypes, RecordedAsDelivery DEF rows
<1> QED BY <1>2, <1>3, <1>4, <1>5 DEF Deliver

\* Tips recorded and simulated through the API.
LEMMA RecordingAsDelivery ==
    ASSUME IInv, Recording
    PROVE  \A j \in Tips : AsDeliveryHas(j)
<1>1. ASSUME NEW i \in Tips, NEW r \in Receipts, NEW a \in Amounts, NEW test \in TestFlags,
             NEW announce \in BOOLEAN, RecordExternal(i, r, a, test, announce)
      PROVE  \A j \in Tips : AsDeliveryHas(j)
  <2> DEFINE origin == IF announce THEN "tips" ELSE "external"
  <2>1. origin \in {"tips", "external", "billing-external"}
    OBVIOUS
  <2>2. Fresh(i) /\ Settle(i, ExternalRow(r, a, test, origin))
    BY <1>1 DEF RecordExternal
  <2> HIDE DEF origin
  <2> QED BY <2>1, <2>2, ExternalRowTypes, RecordedAsDelivery
<1>2. ASSUME NEW i \in Tips, NEW k \in Kinds, NEW a \in Amounts, Simulate(i, k, a)
      PROVE  \A j \in Tips : AsDeliveryHas(j)
  <2> DEFINE m == [NoMoney EXCEPT !.kind = k, !.amount = a, !.test = TRUE]
  <2>1. m \in MoneyRows /\ m.reversed = 0
    BY ConstantsOK DEF NoMoney, MoneyRows, PaymentStates
  <2>2. Fresh(i) /\ Settle(i, m)
    BY <1>2 DEF Simulate
  <2> HIDE DEF m
  <2> QED BY <2>1, <2>2, RecordedAsDelivery
<1> QED BY <1>1, <1>2 DEF Recording

\* The moderators and the effects worker.
LEMMA ShowingAsDelivery ==
    ASSUME IInv, NEW i \in Tips, Showing(i)
    PROVE  \A j \in Tips : AsDeliveryHas(j)
<1>1. PICK s : /\ Show(i, s)
               /\ \/ Fresh(i)
                  \/ Ends(money[i], show[i], s) \/ Moderates(money[i], show[i], s)
  BY ShowingIsAgreed DEF Showing, Hide, Restore, MarkDone, MarkFailed
<1>2. Put(i, money[i], s) /\ money'[i] = money[i] /\ show'[i] = s
  BY <1>1 DEF Show, Put, IInv, TypeOK
<1>3. AsDeliveryHas(i)
  BY <1>1, <1>2 DEF AsDeliveryHas, Continues, Fresh, IsPaid
<1> QED BY <1>2, <1>3, PutAsDelivery

\* The rows of Settlement enter Delivery as it begins with them, on their settlement and on
\* nothing else, and go on as it has them: by ends of effects, moderation and reversals, never
\* back to unpaid.  What is proved of the rows of Delivery is of the rows the money made.
THEOREM DeliveryHasTheRows == Spec => [][\A i \in Tips : AsDeliveryHas(i)]_vars
<1>1. ASSUME IInv, Next
      PROVE  \A i \in Tips : AsDeliveryHas(i)
  <2>1. ASSUME NEW w \in Procs, Asking(w) \/ Working(w) \/ Billing(w) \/ Crash(w)
        PROVE  \A i \in Tips : AsDeliveryHas(i)
    <3>1. CASE Asking(w) \/ Working(w)
      BY <1>1, <3>1, WorkAsDelivery
    <3>2. CASE Billing(w) \/ Crash(w)
      BY <3>2, QuietAsDelivery
         DEF Billing, BillingTransfers, BillingCreatesIntent, BillingRefuses, BillingUnreachable, Crash
    <3> QED BY <2>1, <3>1, <3>2
  <2>2. ASSUME NEW i \in Tips, TimePasses(i)
        PROVE  \A j \in Tips : AsDeliveryHas(j)
    <3>1. \A j \in Tips : money'[j].payment = money[j].payment
      BY <1>1, <2>2 DEF TimePasses, IInv, TypeOK, MoneyRows
    <3> QED BY <2>2, <3>1, QuietAsDelivery DEF TimePasses, IsPaid
  <2>3. ASSUME NEW i \in Watched, Showing(i)
        PROVE  \A j \in Tips : AsDeliveryHas(j)
    BY <1>1, <2>3, ShowingAsDelivery, SettlementConstantsOK
  <2>4. ASSUME BillingMoves
        PROVE  \A j \in Tips : AsDeliveryHas(j)
    BY <2>4, QuietAsDelivery DEF BillingMoves, PayCheckout, Donate, Reverse, AnnounceReceipt, Republish
  <2> QED BY <1>1, <2>1, <2>2, <2>3, <2>4, DeliverAsDelivery, RecordingAsDelivery DEF Next
<1> QED BY <1>1, SettlementInvariant, PTL DEF Spec

=============================================================================
