--------------------------- MODULE RequestsProofs ---------------------------
(***************************************************************************)
(* Proofs about Requests, for any number of requests, keys, faults and     *)
(* erasures: a key runs one handler at a time and moves money once, a      *)
(* replay answers its own request, and what Tips keeps of an erased        *)
(* interaction names nobody.                                               *)
(***************************************************************************)
EXTENDS Requests, FiniteSetTheorems, TLAPS

-----------------------------------------------------------------------------
(* The inductive invariant *)

\* What a handler works on exists; what it is about to store is about that.
HandlerOK(q) ==
    /\ req[q].pc \in {"pay", "settle", "read", "store", "ok"} =>
          req[q].id \in Ids /\ tip[req[q].id].pay # "none"
    /\ req[q].pc = "store" => req[q].answer \in Answers

\* A stored answer is the answer of the request that is hashed with it.
ClaimOK(k) ==
    claim[k].status = "stored" => claim[k].answer \in Answers /\ claim[k].wrote = claim[k].body

\* A handler that did not lose its claim has one that nobody can take over.
OwnsOK(q) ==
    Running(q) /\ q \notin lost =>
        claim[Key[q]].status = "stored" \/ (claim[Key[q]].status = "pending" /\ ~claim[Key[q]].old)

RunsOK ==
    /\ \A q \in lost : Running(q)
    /\ \A q \in Reqs \ Forms : OwnsOK(q)
    /\ RunsOnce

\* An answer with a name of an interaction erased since was read before.
AnswerOK(q) ==
    req[q].pc = "store" /\ req[q].answer.names /\ tip[req[q].answer.id].erased => q \in racing

ErasedOK == ErasedIsGone /\ \A q \in Reqs : AnswerOK(q)

\* An interaction that was made keeps the key that made it until it is erased; none was charged
\* before it was made.
TipOK(i) ==
    /\ tip[i].pay = "none" => tip[i].key = "none" /\ ~tip[i].erased /\ i \notin charged
    /\ tip[i].pay # "none" => tip[i].made \in Keys /\ (tip[i].erased \/ tip[i].key = tip[i].made)

TipsOK ==
    /\ \A i \in Ids : TipOK(i)
    /\ \A i, j \in Ids : i < j /\ tip[j].pay # "none" => tip[i].pay # "none"
    /\ \A i, j \in Ids : i < j /\ tip[j].pay # "none" /\ tip[i].made = tip[j].made => tip[i].erased

IInv ==
    /\ TypeOK
    /\ \A q \in Reqs : HandlerOK(q)
    /\ \A k \in Keys : ClaimOK(k)
    /\ RunsOK /\ ErasedOK /\ TipsOK

-----------------------------------------------------------------------------
(* Initially *)

\* A key and a number of an interaction are there because a request is.
LEMMA SomeRequest ==
    /\ \A k \in Keys : SomeBody \in Bodies
    /\ \A i \in Ids : SomeBody \in Bodies
    /\ \A q \in Reqs : Key[q] \in Keys /\ Body[q] \in Bodies
    /\ NoId \notin Ids /\ \A i \in Ids : i \in Nat
<1>1. Cardinality(Reqs) \in Nat
  BY RequestConstantsOK, FS_CardinalityType
<1>2. \A i \in Ids : i \in Nat /\ i # 0 /\ Reqs # {}
  BY <1>1, FS_EmptySet DEF Ids
<1>3. \A k \in Keys : Reqs # {}
  BY DEF Keys
<1>4. Reqs # {} => SomeBody \in Bodies
  BY DEF SomeBody, Bodies
<1>5. \A q \in Reqs : Key[q] \in Keys /\ Body[q] \in Bodies
  BY DEF Keys, Bodies
<1> QED BY <1>2, <1>3, <1>4, <1>5 DEF NoId

LEMMA InitIInv == Init => IInv
<1> SUFFICES ASSUME Init PROVE IInv
    OBVIOUS
<1> USE RequestConstantsOK DEF Init
<1>1. TypeOK
  <2>1. claim \in [Keys -> Claims]
    BY SomeRequest DEF Claims
  <2>2. tip \in [Ids -> Tips]
    BY SomeRequest DEF Tips
  <2>3. req \in [Reqs -> Handlers]
    BY DEF Handlers
  <2> QED BY <2>1, <2>2, <2>3 DEF TypeOK
<1>2. \A q \in Reqs : HandlerOK(q)
  BY DEF HandlerOK
<1>3. \A k \in Keys : ClaimOK(k)
  BY DEF ClaimOK
<1>4. RunsOK
  BY DEF RunsOK, OwnsOK, RunsOnce, Running
<1>5. ErasedOK
  BY DEF ErasedOK, ErasedIsGone, AnswerOK
<1>6. TipsOK
  BY DEF TipsOK, TipOK
<1> QED BY <1>1, <1>2, <1>3, <1>4, <1>5, <1>6 DEF IInv

-----------------------------------------------------------------------------
(* What the parts of a step do *)

Places == {"new", "claimed", "pay", "settle", "read", "store", "refused", "ok", "replayed", "dead"}

LEMMA GotoFacts ==
    ASSUME TypeOK, NEW q \in Reqs, NEW pc \in Places, Goto(q, pc)
    PROVE  /\ req' \in [Reqs -> Handlers]
           /\ \A r \in Reqs \ {q} : req'[r] = req[r]
           /\ req'[q].pc = pc /\ req'[q].id = req[q].id /\ req'[q].answer = req[q].answer
           /\ req'[q].closed = req[q].closed
<1> DEFINE h == [req[q] EXCEPT !.pc = pc]
<1>1. req[q] \in Handlers /\ req \in [Reqs -> Handlers]
  BY DEF TypeOK
<1>2. h \in Handlers /\ h.pc = pc /\ h.id = req[q].id /\ h.answer = req[q].answer /\ h.closed = req[q].closed
  BY <1>1 DEF Handlers, Places
<1>3. req' = [req EXCEPT ![q] = h]
  BY DEF Goto
<1> HIDE DEF h
<1> QED BY <1>1, <1>2, <1>3

LEMMA EndFacts ==
    ASSUME TypeOK, NEW q \in Reqs, NEW pc \in Places, End(q, pc)
    PROVE  /\ req' \in [Reqs -> Handlers]
           /\ \A r \in Reqs \ {q} : req'[r] = req[r]
           /\ req'[q].pc = pc /\ req'[q].id = req[q].id
<1> DEFINE h == [pc |-> pc, id |-> req[q].id, answer |-> NoAnswer, closed |-> FALSE]
<1>1. req[q] \in Handlers /\ req \in [Reqs -> Handlers]
  BY DEF TypeOK
<1>2. h \in Handlers /\ h.pc = pc /\ h.id = req[q].id
  BY <1>1 DEF Handlers, Places
<1>3. req' = [req EXCEPT ![q] = h]
  BY DEF End
<1> HIDE DEF h
<1> QED BY <1>1, <1>2, <1>3

LEMMA ReleasedFacts ==
    ASSUME TypeOK, NEW q \in Reqs
    PROVE  /\ Released(q) \in [Keys -> Claims]
           /\ \A k \in Keys : \/ Released(q)[k] = claim[k]
                              \/ k = Key[q] /\ q \notin Forms /\ Released(q)[k].status = "none"
<1> DEFINE k == Key[q]
           c == [claim[k] EXCEPT !.status = "none", !.old = FALSE]
<1>1. claim \in [Keys -> Claims] /\ k \in Keys
  BY SomeRequest DEF TypeOK
<1>2. c \in Claims /\ c.status = "none"
  BY <1>1 DEF Claims
<1>3. CASE q \notin Forms /\ ~req[q].closed /\ claim[k].status = "pending" /\ claim[k].body = Body[q]
  <2>1. Released(q) = [claim EXCEPT ![k] = c]
    BY <1>3 DEF Released
  <2> HIDE DEF c
  <2> QED BY <1>1, <1>2, <1>3, <2>1
<1>4. CASE ~(q \notin Forms /\ ~req[q].closed /\ claim[k].status = "pending" /\ claim[k].body = Body[q])
  BY <1>1, <1>4 DEF Released
<1> QED BY <1>3, <1>4

\* The tips a step leaves: as made, and as erased, as before.
Same(t, u) ==
    /\ t.key = u.key /\ t.made = u.made /\ t.erased = u.erased
    /\ t.pay = "none" <=> u.pay = "none"

LEMMA FailedFacts ==
    ASSUME TypeOK, NEW i \in Ids
    PROVE  Failed(i) \in [Ids -> Tips] /\ \A j \in Ids : Same(Failed(i)[j], tip[j])
<1> DEFINE pay == IF tip[i].pay = "pending" THEN "failed" ELSE tip[i].pay
           t == [tip[i] EXCEPT !.pay = pay, !.due = FALSE]
<1>1. tip \in [Ids -> Tips] /\ tip[i] \in Tips
  BY DEF TypeOK
<1>2. pay \in {"none", "pending", "settled", "failed"} /\ (pay = "none" <=> tip[i].pay = "none")
  BY <1>1 DEF Tips
<1>3. Failed(i) = [tip EXCEPT ![i] = t]
  BY DEF Failed
<1> HIDE DEF pay
<1>4. t \in Tips /\ Same(t, tip[i])
  BY <1>1, <1>2 DEF Tips, Same
<1>5. \A j \in Ids : Same(tip[j], tip[j])
  BY DEF Same
<1> HIDE DEF t
<1> QED BY <1>1, <1>3, <1>4, <1>5

LEMMA SettleFacts ==
    ASSUME TypeOK, NEW i \in Ids, tip[i].pay # "none", SettleTip(i)
    PROVE  /\ tip' \in [Ids -> Tips] /\ \A j \in Ids : Same(tip'[j], tip[j])
           /\ alert' \in [Ids -> {"none", "named", "anonymous"}]
           /\ \A j \in Ids : alert'[j] = "named" => alert[j] = "named" \/ ~tip[j].erased
<1> DEFINE t == [tip[i] EXCEPT !.pay = "settled", !.due = FALSE]
<1>1. tip \in [Ids -> Tips] /\ tip[i] \in Tips /\ alert \in [Ids -> {"none", "named", "anonymous"}]
  BY DEF TypeOK
<1>2. \A j \in Ids : Same(tip[j], tip[j])
  BY DEF Same
<1>3. CASE tip[i].pay = "settled"
  BY <1>1, <1>2, <1>3 DEF SettleTip
<1>4. CASE tip[i].pay # "settled"
  <2>1. tip' = [tip EXCEPT ![i] = t]
    BY <1>4 DEF SettleTip
  <2>2. alert' = [alert EXCEPT ![i] = IF tip[i].erased THEN "anonymous" ELSE "named"]
    BY <1>4 DEF SettleTip
  <2>3. t \in Tips /\ Same(t, tip[i])
    BY <1>1 DEF Tips, Same
  <2>4. alert' \in [Ids -> {"none", "named", "anonymous"}]
    BY <1>1, <2>2
  <2>5. \A j \in Ids : alert'[j] = "named" => alert[j] = "named" \/ ~tip[j].erased
    BY <1>1, <2>2
  <2> HIDE DEF t
  <2> QED BY <1>1, <1>2, <2>1, <2>3, <2>4, <2>5
<1> QED BY <1>3, <1>4

-----------------------------------------------------------------------------
(* What leaves a part of the invariant as it is *)

Sames == \A j \in Ids : Same(tip'[j], tip[j])

\* Only what was made can be charged.
LEMMA TipsFrame ==
    ASSUME TipsOK, Sames, \A i \in Ids : i \in charged' => i \in charged \/ tip[i].pay # "none"
    PROVE  TipsOK'
BY DEF TipsOK, TipOK, Sames, Same

\* A handler goes on with what it works on.
LEMMA HandlersFrame ==
    ASSUME \A q \in Reqs : HandlerOK(q), Sames, NEW p \in Reqs, HandlerOK(p)',
           \A q \in Reqs \ {p} : req'[q] = req[q]
    PROVE  \A q \in Reqs : HandlerOK(q)'
<1> TAKE q \in Reqs
<1>1. CASE q = p
  BY <1>1
<1>2. CASE q # p
  BY <1>2 DEF HandlerOK, Sames, Same
<1> QED BY <1>1, <1>2

\* No answer is stored or read, and no alert gets the name of who is erased.
LEMMA ErasedFrame ==
    ASSUME TypeOK, \A q \in Reqs : HandlerOK(q), \A k \in Keys : ClaimOK(k),
           ErasedOK, Sames, racing' = racing,
           \A i \in Ids : alert'[i] = "named" => alert[i] = "named" \/ ~tip[i].erased,
           \A k \in Keys : claim'[k].status = "stored" => claim'[k] = claim[k],
           \A q \in Reqs : req'[q].pc = "store" => req[q].pc = "store" /\ req'[q].answer = req[q].answer
    PROVE  ErasedOK'
<1>1. ASSUME NEW i \in Ids, tip'[i].erased PROVE alert'[i] # "named"
  BY <1>1 DEF ErasedOK, ErasedIsGone, Sames, Same
<1>2. ASSUME NEW k \in Keys, claim'[k].status = "stored", claim'[k].answer.names,
             tip'[claim'[k].answer.id].erased
      PROVE  \E q \in racing : Key[q] = k
  <2>1. claim'[k] = claim[k] /\ claim[k].answer \in Answers
    BY <1>2 DEF ClaimOK
  <2>2. claim[k].answer.id \in Ids
    BY <2>1 DEF Answers
  <2>3. tip[claim[k].answer.id].erased
    BY <1>2, <2>1, <2>2 DEF Sames, Same
  <2> QED BY <1>2, <2>1, <2>3 DEF ErasedOK, ErasedIsGone
<1>3. ASSUME NEW q \in Reqs PROVE AnswerOK(q)'
  <2> SUFFICES ASSUME req'[q].pc = "store", req'[q].answer.names, tip'[req'[q].answer.id].erased
               PROVE  q \in racing'
    BY DEF AnswerOK
  <2>1. req[q].pc = "store" /\ req'[q].answer = req[q].answer /\ req[q].answer \in Answers
    BY DEF HandlerOK
  <2>2. req[q].answer.id \in Ids
    BY <2>1 DEF Answers
  <2>3. tip[req[q].answer.id].erased
    BY <2>1, <2>2 DEF Sames, Same
  <2> QED BY <2>1, <2>3 DEF ErasedOK, AnswerOK
<1> QED BY <1>1, <1>2, <1>3 DEF ErasedOK, ErasedIsGone

\* Handlers that ran run, with the claims they had.
LEMMA RunsFrame ==
    ASSUME RunsOK, claim' = claim, lost' = lost, \A q \in Reqs : Running(q)' <=> Running(q), lost \subseteq Reqs
    PROVE  RunsOK'
<1>1. \A q \in Reqs \ Forms : OwnsOK(q)'
  BY DEF RunsOK, OwnsOK
<1>2. RunsOnce'
  BY DEF RunsOK, RunsOnce
<1>3. \A q \in lost' : Running(q)'
  BY DEF RunsOK
<1> QED BY <1>1, <1>2, <1>3 DEF RunsOK

\* A handler leaves: at most its claim is released, or another's by one that had lost its own.
LEMMA LeaveFacts ==
    ASSUME TypeOK, RunsOK, \A k \in Keys : ClaimOK(k), NEW q \in Reqs, Running(q),
           \A r \in Reqs \ {q} : req'[r] = req[r],
           claim' = Released(q),
           \/ ~Running(q)' /\ lost' = LostBy(q) \ {q}
           \/ Running(q)' /\ lost' = LostBy(q) \cup {q}
    PROVE  /\ claim' \in [Keys -> Claims] /\ lost' \subseteq Reqs
           /\ \A k \in Keys : claim'[k].status = "stored" => claim'[k] = claim[k]
           /\ \A k \in Keys : ClaimOK(k)'
           /\ RunsOK'
<1>1. /\ claim' \in [Keys -> Claims]
      /\ \A k \in Keys : \/ claim'[k] = claim[k]
                         \/ k = Key[q] /\ q \notin Forms /\ claim'[k].status = "none"
  BY ReleasedFacts
<1>2. lost' \subseteq Reqs
  BY DEF TypeOK, LostBy
<1>3. \A r \in Reqs \ {q} : Running(r)' <=> Running(r)
  BY DEF Running
<1>4. \A r \in lost' : Running(r)'
  BY <1>3, <1>2 DEF LostBy, RunsOK
<1>5. \A r \in Reqs \ {q} : r \in lost => r \in lost'
  BY DEF LostBy
<1>6. q \in lost => \A r \in Reqs \ {q} : Running(r) /\ Key[r] = Key[q] => r \in lost'
  BY DEF LostBy
<1>7. ASSUME NEW r \in Reqs \ Forms PROVE OwnsOK(r)'
  <2> SUFFICES ASSUME Running(r)', r \notin lost'
               PROVE  claim'[Key[r]].status = "stored" \/ (claim'[Key[r]].status = "pending" /\ ~claim'[Key[r]].old)
    BY DEF OwnsOK
  <2>1. r # q
    OBVIOUS
  <2>2. Running(r) /\ r \notin lost /\ Key[r] \in Keys
    BY <1>3, <1>5, <2>1, SomeRequest
  <2>3. claim[Key[r]].status = "stored" \/ (claim[Key[r]].status = "pending" /\ ~claim[Key[r]].old)
    BY <2>2 DEF RunsOK, OwnsOK
  <2>4. CASE claim'[Key[r]] = claim[Key[r]]
    BY <2>3, <2>4
  <2>5. CASE Key[r] = Key[q] /\ q \notin Forms
    <3>1. q \in lost
      BY <2>1, <2>2, <2>5 DEF RunsOK, RunsOnce
    <3> QED BY <1>6, <2>1, <2>2, <2>5, <3>1
  <2> QED BY <1>1, <2>2, <2>4, <2>5
<1>8. RunsOnce'
  <2> SUFFICES ASSUME NEW r \in Reqs \ Forms, NEW t \in Reqs \ Forms, r # t, Key[r] = Key[t],
                      Running(r)', Running(t)'
               PROVE  lost' \cap {r, t} # {}
    BY DEF RunsOnce
  <2>1. CASE r # q /\ t # q
    BY <1>3, <1>5, <2>1 DEF RunsOK, RunsOnce
  <2>2. CASE r = q \/ t = q
    BY <2>2
  <2> QED BY <2>1, <2>2
<1>9. \A k \in Keys : claim'[k].status = "stored" => claim'[k] = claim[k]
  BY <1>1
<1>10. \A k \in Keys : ClaimOK(k)'
  BY <1>9 DEF ClaimOK
<1> QED BY <1>1, <1>2, <1>4, <1>7, <1>8, <1>9, <1>10 DEF RunsOK

\* An answer that is not 2xx.
LEMMA RefuseFacts ==
    ASSUME IInv, NEW q \in Reqs, Running(q), Refuse(q)
    PROVE  /\ claim' \in [Keys -> Claims] /\ lost' \subseteq Reqs /\ req' \in [Reqs -> Handlers]
           /\ \A k \in Keys : claim'[k].status = "stored" => claim'[k] = claim[k]
           /\ \A k \in Keys : ClaimOK(k)'
           /\ RunsOK'
           /\ \A r \in Reqs \ {q} : req'[r] = req[r]
           /\ req'[q].pc = "refused"
<1>1. End(q, "refused") /\ claim' = Released(q) /\ lost' = LostBy(q) \ {q}
  BY DEF Refuse
<1>2. /\ req' \in [Reqs -> Handlers]
      /\ \A r \in Reqs \ {q} : req'[r] = req[r]
      /\ req'[q].pc = "refused"
  BY <1>1, EndFacts DEF IInv, Places
<1>3. ~Running(q)'
  BY <1>2 DEF Running
<1> QED BY <1>1, <1>2, <1>3, LeaveFacts DEF IInv

-----------------------------------------------------------------------------
(* The steps of a handler *)

\* A step after which the handler runs on, is refused or is done, and no key is claimed or stored.
LEMMA GoesOn ==
    ASSUME IInv, NEW q \in Reqs, Running(q), HandlerOK(q)',
           tip' \in [Ids -> Tips], Sames,
           charged' \subseteq Ids, \A i \in Ids : i \in charged' => i \in charged \/ tip[i].pay # "none",
           alert' \in [Ids -> {"none", "named", "anonymous"}],
           \A i \in Ids : alert'[i] = "named" => alert[i] = "named" \/ ~tip[i].erased,
           UNCHANGED <<racing, faults, erases>>,
           \/ Refuse(q)
           \/ /\ req' \in [Reqs -> Handlers] /\ \A r \in Reqs \ {q} : req'[r] = req[r]
              /\ req'[q].pc \in {"pay", "settle", "read"} /\ UNCHANGED <<claim, lost>>
    PROVE  IInv'
<1> USE DEF IInv
<1>1. TipsOK'
  BY TipsFrame
<1>2. CASE Refuse(q)
  <2>1. /\ claim' \in [Keys -> Claims] /\ lost' \subseteq Reqs /\ req' \in [Reqs -> Handlers]
        /\ \A k \in Keys : claim'[k].status = "stored" => claim'[k] = claim[k]
        /\ \A k \in Keys : ClaimOK(k)'
        /\ RunsOK'
        /\ \A r \in Reqs \ {q} : req'[r] = req[r]
        /\ req'[q].pc = "refused"
    BY <1>2, RefuseFacts
  <2>2. TypeOK'
    BY <2>1 DEF TypeOK
  <2>3. \A r \in Reqs : HandlerOK(r)'
    BY <2>1, HandlersFrame
  <2>4. \A r \in Reqs : req'[r].pc = "store" => req[r].pc = "store" /\ req'[r].answer = req[r].answer
    BY <2>1
  <2>5. ErasedOK'
    BY <2>1, <2>4, ErasedFrame
  <2> QED BY <1>1, <2>1, <2>2, <2>3, <2>5
<1>3. CASE /\ req' \in [Reqs -> Handlers] /\ \A r \in Reqs \ {q} : req'[r] = req[r]
           /\ req'[q].pc \in {"pay", "settle", "read"} /\ UNCHANGED <<claim, lost>>
  <2>1. TypeOK'
    BY <1>3 DEF TypeOK
  <2>2. \A r \in Reqs : HandlerOK(r)'
    BY <1>3, HandlersFrame
  <2>3. \A r \in Reqs : req'[r].pc = "store" => req[r].pc = "store" /\ req'[r].answer = req[r].answer
    BY <1>3
  <2>4. ErasedOK'
    BY <1>3, <2>3, ErasedFrame
  <2>5. \A r \in Reqs : Running(r)' <=> Running(r)
    BY <1>3 DEF Running
  <2>6. RunsOK'
    BY <1>3, <2>5, RunsFrame DEF TypeOK
  <2>7. \A k \in Keys : ClaimOK(k)'
    BY <1>3 DEF ClaimOK
  <2> QED BY <1>1, <2>1, <2>2, <2>4, <2>6, <2>7
<1> QED BY <1>2, <1>3

\* A step of a request that changes it only, and starts or ends no handler but a form's.
LEMMA NothingDone ==
    ASSUME IInv, NEW q \in Reqs, NEW pc \in {"refused", "replayed", "claimed"},
           End(q, pc) \/ Goto(q, pc), ~Running(q), pc = "claimed" => q \in Forms,
           UNCHANGED <<claim, tip, alert, charged, lost, racing, faults, erases>>
    PROVE  IInv'
<1> USE DEF IInv
<1>1. /\ req' \in [Reqs -> Handlers] /\ \A r \in Reqs \ {q} : req'[r] = req[r]
      /\ req'[q].pc = pc
  BY EndFacts, GotoFacts DEF Places
<1>2. TypeOK'
  BY <1>1 DEF TypeOK
<1>3. Sames
  BY DEF Sames, Same
<1>4. HandlerOK(q)'
  BY <1>1 DEF HandlerOK
<1>5. \A r \in Reqs : HandlerOK(r)'
  BY <1>1, <1>3, <1>4, HandlersFrame
<1>6. \A r \in Reqs : req'[r].pc = "store" => req[r].pc = "store" /\ req'[r].answer = req[r].answer
  BY <1>1
<1>7. ErasedOK'
  BY <1>3, <1>6, ErasedFrame
<1>8. TipsOK'
  BY <1>3, TipsFrame
<1>9. \A r \in Reqs \ Forms : Running(r)' <=> Running(r)
  BY <1>1 DEF Running
<1>10. \A r \in lost' : Running(r)'
  BY <1>1 DEF RunsOK, Running, TypeOK
<1>11. RunsOK'
  BY <1>9, <1>10 DEF RunsOK, OwnsOK, RunsOnce
<1>12. \A k \in Keys : ClaimOK(k)'
  BY DEF ClaimOK
<1> QED BY <1>2, <1>5, <1>7, <1>8, <1>11, <1>12

LEMMA ClaimStep ==
    ASSUME IInv, NEW q \in Reqs, Claim(q)
    PROVE  IInv'
<1> USE DEF IInv
<1> DEFINE k == Key[q]
           c == [claim[k] EXCEPT !.status = "pending", !.body = Body[q], !.old = FALSE]
<1>1. /\ req[q].pc = "new" /\ q \notin Forms /\ Claimable(k) /\ Goto(q, "claimed")
      /\ UNCHANGED <<tip, alert, charged, lost, racing, faults, erases>>
      /\ k \in Keys /\ Body[q] \in Bodies /\ ~Running(q)
  BY SomeRequest DEF Claim, Running
<1>2. claim' = [claim EXCEPT ![k] = c]
  BY DEF Claim
<1>3. claim[k] \in Claims /\ claim \in [Keys -> Claims]
  BY <1>1 DEF TypeOK
<1>4. c \in Claims /\ c.status = "pending" /\ ~c.old
  BY <1>1, <1>3 DEF Claims
<1> HIDE DEF c
<1>5. claim' \in [Keys -> Claims] /\ claim'[k] = c /\ \A l \in Keys \ {k} : claim'[l] = claim[l]
  BY <1>1, <1>2, <1>3, <1>4
<1>6. /\ req' \in [Reqs -> Handlers] /\ \A r \in Reqs \ {q} : req'[r] = req[r]
      /\ req'[q].pc = "claimed"
  BY <1>1, GotoFacts DEF Places
<1>7. TypeOK'
  BY <1>1, <1>5, <1>6 DEF TypeOK
<1>8. Sames
  BY <1>1 DEF Sames, Same
<1>9. HandlerOK(q)'
  BY <1>6 DEF HandlerOK
<1>10. \A r \in Reqs : HandlerOK(r)'
  BY <1>6, <1>8, <1>9, HandlersFrame
<1>11. TipsOK'
  BY <1>1, <1>8, TipsFrame
<1>12. /\ \A l \in Keys : claim'[l].status = "stored" => claim'[l] = claim[l]
       /\ \A r \in Reqs : req'[r].pc = "store" => req[r].pc = "store" /\ req'[r].answer = req[r].answer
  BY <1>4, <1>5, <1>6
<1>13. ErasedOK'
  BY <1>1, <1>8, <1>12, ErasedFrame
<1>14. \A l \in Keys : ClaimOK(l)'
  BY <1>12 DEF ClaimOK
<1>15. \A r \in Reqs \ {q} : Running(r)' <=> Running(r)
  BY <1>6 DEF Running
<1>16. \A r \in (Reqs \ Forms) \ {q} : Running(r) /\ Key[r] = k => r \in lost
  BY <1>1 DEF RunsOK, OwnsOK, Claimable
<1>17. RunsOK'
  <2>1. \A r \in lost' : Running(r)'
    BY <1>1, <1>6, <1>15 DEF RunsOK, Running, TypeOK
  <2>2. ASSUME NEW r \in Reqs \ Forms PROVE OwnsOK(r)'
    <3>1. CASE Key[r] = k
      BY <1>4, <1>5, <3>1 DEF OwnsOK
    <3>2. CASE Key[r] # k
      <4>1. claim'[Key[r]] = claim[Key[r]] /\ r # q
        BY <1>5, <3>2, SomeRequest
      <4> QED BY <1>1, <1>15, <4>1 DEF RunsOK, OwnsOK
    <3> QED BY <3>1, <3>2
  <2>3. RunsOnce'
    BY <1>1, <1>15, <1>16 DEF RunsOK, RunsOnce
  <2> QED BY <2>1, <2>2, <2>3 DEF RunsOK
<1> QED BY <1>7, <1>10, <1>11, <1>13, <1>14, <1>17

LEMMA StoreStep ==
    ASSUME IInv, NEW q \in Reqs, Store(q)
    PROVE  IInv'
<1> USE DEF IInv
<1> DEFINE k == Key[q]
           body == IF claim[k].status = "none" THEN Body[q] ELSE claim[k].body
           c == [claim[k] EXCEPT !.status = "stored", !.answer = req[q].answer, !.wrote = Body[q],
                                 !.old = FALSE, !.body = body]
           kept == ~(q \in Forms \/ req[q].closed \/ ~Keeps(q))
<1>1. /\ req[q].pc = "store" /\ End(q, "ok") /\ lost' = lost \ {q}
      /\ UNCHANGED <<tip, alert, charged, racing, faults, erases>>
      /\ k \in Keys /\ Body[q] \in Bodies /\ Running(q) /\ req[q].answer \in Answers
      /\ req[q].id \in Ids /\ tip[req[q].id].pay # "none"
  BY SomeRequest DEF Store, Running, HandlerOK
<1>2. /\ ~kept => claim' = claim
      /\ kept => claim' = [claim EXCEPT ![k] = c]
  <2>1. ~kept => claim' = claim
    BY DEF Store
  <2>2. kept => claim' = [claim EXCEPT ![k] = c]
    BY DEF Store
  <2> QED BY <2>1, <2>2
<1>3. claim[k] \in Claims /\ claim \in [Keys -> Claims]
  BY <1>1 DEF TypeOK
<1>4. kept => body = Body[q]
  BY DEF Keeps
<1> HIDE DEF body
<1>5. kept => c \in Claims /\ c.status = "stored" /\ c.answer = req[q].answer /\ c.wrote = Body[q] /\ c.body = Body[q]
  BY <1>1, <1>3, <1>4 DEF Claims
<1> HIDE DEF c, kept
<1>6. /\ claim' \in [Keys -> Claims] /\ \A l \in Keys \ {k} : claim'[l] = claim[l]
      /\ claim'[k] = IF kept THEN c ELSE claim[k]
  BY <1>1, <1>2, <1>3, <1>5
<1>7. /\ req' \in [Reqs -> Handlers] /\ \A r \in Reqs \ {q} : req'[r] = req[r]
      /\ req'[q].pc = "ok" /\ req'[q].id = req[q].id
  BY <1>1, EndFacts DEF Places
<1>8. TypeOK'
  BY <1>1, <1>6, <1>7 DEF TypeOK
<1>9. Sames
  BY <1>1 DEF Sames, Same
<1>10. HandlerOK(q)'
  BY <1>1, <1>7 DEF HandlerOK
<1>11. \A r \in Reqs : HandlerOK(r)'
  BY <1>7, <1>9, <1>10, HandlersFrame
<1>12. TipsOK'
  BY <1>1, <1>9, TipsFrame
<1>13. \A l \in Keys : ClaimOK(l)'
  BY <1>1, <1>5, <1>6 DEF ClaimOK
<1>14. ErasedOK'
  <2>1. \A i \in Ids : tip'[i].erased => alert'[i] # "named"
    BY <1>1 DEF ErasedOK, ErasedIsGone
  <2>2. ASSUME NEW l \in Keys, claim'[l].status = "stored", claim'[l].answer.names,
               tip'[claim'[l].answer.id].erased
        PROVE  \E r \in racing' : Key[r] = l
    <3>1. CASE l = k /\ kept
      BY <1>1, <1>5, <1>6, <2>2, <3>1 DEF ErasedOK, AnswerOK
    <3>2. CASE ~(l = k /\ kept)
      BY <1>1, <1>6, <2>2, <3>2 DEF ErasedOK, ErasedIsGone
    <3> QED BY <3>1, <3>2
  <2>3. \A r \in Reqs : AnswerOK(r)'
    BY <1>1, <1>7 DEF ErasedOK, AnswerOK
  <2> QED BY <2>1, <2>2, <2>3 DEF ErasedOK, ErasedIsGone
<1>15. RunsOK'
  <2>1. \A r \in Reqs \ {q} : Running(r)' <=> Running(r)
    BY <1>7 DEF Running
  <2>2. ~Running(q)'
    BY <1>7 DEF Running
  <2>3. \A r \in lost' : Running(r)'
    BY <1>1, <2>1 DEF RunsOK, TypeOK
  <2>4. ASSUME NEW r \in Reqs \ Forms PROVE OwnsOK(r)'
    <3>1. CASE r = q
      BY <2>2, <3>1 DEF OwnsOK
    <3>2. CASE r # q
      <4>1. claim'[Key[r]] = claim[Key[r]] \/ claim'[Key[r]].status = "stored"
        BY <1>5, <1>6, SomeRequest
      <4> QED BY <1>1, <2>1, <3>2, <4>1 DEF RunsOK, OwnsOK
    <3> QED BY <3>1, <3>2
  <2>5. RunsOnce'
    BY <1>1, <2>1, <2>2 DEF RunsOK, RunsOnce
  <2> QED BY <2>3, <2>4, <2>5 DEF RunsOK
<1> QED BY <1>8, <1>11, <1>12, <1>13, <1>14, <1>15

LEMMA RequestStep ==
    ASSUME IInv, NEW q \in Reqs, Request(q)
    PROVE  IInv'
<1> USE DEF IInv
<1> DEFINE k == Key[q]
           before == Previous(k)
<1>1. /\ req[q].pc = "claimed" /\ Running(q) /\ k \in Keys /\ Body[q] \in Bodies
      /\ UNCHANGED <<alert, charged, racing, faults, erases>>
  BY SomeRequest DEF Request, Running
<1>2. tip \in [Ids -> Tips] /\ charged \subseteq Ids /\ alert \in [Ids -> {"none", "named", "anonymous"}]
  BY DEF TypeOK
<1>3. ASSUME Refuse(q), UNCHANGED tip PROVE IInv'
  <2>1. Sames
    BY <1>3 DEF Sames, Same
  <2>2. HandlerOK(q)'
    BY <1>1, <1>3, RefuseFacts DEF HandlerOK
  <2> QED BY <1>1, <1>2, <1>3, <2>1, <2>2, GoesOn
<1>4. ASSUME NEW n \in before, UNCHANGED <<tip, claim, lost>>,
             req' = [req EXCEPT ![q].id = n, ![q].pc = "read"]
      PROVE  IInv'
  <2> DEFINE h == [req[q] EXCEPT !.id = n, !.pc = "read"]
  <2>1. n \in Ids /\ tip[n].key = k /\ req[q] \in Handlers /\ req \in [Reqs -> Handlers]
    BY DEF Previous, TypeOK
  <2>2. tip[n].pay # "none"
    BY <1>1, <2>1, RequestConstantsOK DEF TipsOK, TipOK
  <2>3. h \in Handlers /\ h.id = n /\ h.pc = "read"
    BY <2>1 DEF Handlers
  <2>4. req' = [req EXCEPT ![q] = h]
    BY <1>4
  <2> HIDE DEF h
  <2>5. /\ req' \in [Reqs -> Handlers] /\ \A r \in Reqs \ {q} : req'[r] = req[r]
        /\ req'[q].pc = "read" /\ req'[q].id = n
    BY <2>1, <2>3, <2>4
  <2>6. Sames
    BY <1>4 DEF Sames, Same
  <2>7. HandlerOK(q)'
    BY <1>4, <2>1, <2>2, <2>5 DEF HandlerOK
  <2> QED BY <1>1, <1>2, <1>4, <2>5, <2>6, <2>7, GoesOn
<1>5. ASSUME before = {}, NEW i \in Unused, \A n \in Unused : i <= n,
             tip' = [tip EXCEPT ![i].key = k, ![i].made = k, ![i].body = Body[q], ![i].pay = "pending"],
             req' = [req EXCEPT ![q].id = i, ![q].pc = "pay"],
             UNCHANGED <<claim, lost>>
      PROVE  IInv'
  <2> DEFINE t == [tip[i] EXCEPT !.key = k, !.made = k, !.body = Body[q], !.pay = "pending"]
             h == [req[q] EXCEPT !.id = i, !.pc = "pay"]
  <2>1. i \in Ids /\ tip[i].pay = "none" /\ tip[i] \in Tips /\ req[q] \in Handlers /\ req \in [Reqs -> Handlers]
    BY DEF Unused, TypeOK
  <2>2. t \in Tips /\ t.key = k /\ t.made = k /\ t.pay = "pending" /\ t.erased = tip[i].erased
    BY <1>1, <2>1 DEF Tips
  <2>3. h \in Handlers /\ h.id = i /\ h.pc = "pay"
    BY <2>1 DEF Handlers
  <2>4. tip' = [tip EXCEPT ![i] = t] /\ req' = [req EXCEPT ![q] = h]
    BY <1>5
  <2> HIDE DEF t, h
  <2>5. /\ req' \in [Reqs -> Handlers] /\ \A r \in Reqs \ {q} : req'[r] = req[r]
        /\ req'[q].pc = "pay" /\ req'[q].id = i
    BY <2>1, <2>3, <2>4
  <2>6. tip' \in [Ids -> Tips] /\ tip'[i] = t /\ \A j \in Ids \ {i} : tip'[j] = tip[j]
    BY <1>2, <2>1, <2>2, <2>4
  <2>7. \A j \in Ids : tip'[j].erased = tip[j].erased
    BY <2>2, <2>6
  <2>8. TypeOK'
    BY <1>1, <1>2, <1>5, <2>5, <2>6 DEF TypeOK
  <2>9. \A r \in Reqs : HandlerOK(r)'
    BY <2>1, <2>2, <2>5, <2>6 DEF HandlerOK
  <2>10. \A l \in Keys : ClaimOK(l)'
    BY <1>5 DEF ClaimOK
  <2>11. RunsOK'
    BY <1>1, <1>5, <2>5, RunsFrame DEF Running, TypeOK
  <2>12. ErasedOK'
    <3>1. \A j \in Ids : tip'[j].erased => alert'[j] # "named"
      BY <1>1, <2>7 DEF ErasedOK, ErasedIsGone
    <3>2. ASSUME NEW l \in Keys, claim'[l].status = "stored", claim'[l].answer.names,
                 tip'[claim'[l].answer.id].erased
          PROVE  \E r \in racing' : Key[r] = l
      <4>1. claim[l].answer.id \in Ids
        BY <1>5, <3>2 DEF ClaimOK, Answers
      <4> QED BY <1>1, <1>5, <2>7, <3>2, <4>1 DEF ErasedOK, ErasedIsGone
    <3>3. ASSUME NEW r \in Reqs PROVE AnswerOK(r)'
      <4>1. req'[r].pc = "store" => req'[r] = req[r] /\ req[r].answer.id \in Ids
        BY <2>5 DEF HandlerOK, Answers
      <4> QED BY <1>1, <2>7, <4>1 DEF ErasedOK, AnswerOK
    <3> QED BY <3>1, <3>2, <3>3 DEF ErasedOK, ErasedIsGone
  <2>13. \A j \in Ids : j \in Nat
    BY SomeRequest
  <2>14. TipsOK'
    <3>1. \A j \in Ids : TipOK(j)'
      BY <1>1, <2>1, <2>2, <2>6 DEF TipsOK, TipOK
    <3>2. \A j \in Ids : j < i => tip[j].pay # "none"
      BY <1>5, <2>13 DEF Unused
    <3>3. \A j \in Ids : i < j => tip[j].pay = "none"
      BY <2>1 DEF TipsOK
    <3>4. \A j, l \in Ids : j < l /\ tip'[l].pay # "none" => tip'[j].pay # "none"
      BY <2>2, <2>6, <3>2, <3>3 DEF TipsOK
    <3>5. ASSUME NEW j \in Ids, j < i, tip[j].made = k PROVE tip[j].erased
      BY <1>5, <3>2, <3>5 DEF TipsOK, TipOK, Previous
    <3>6. ASSUME NEW j \in Ids, NEW l \in Ids, j < l, tip'[l].pay # "none", tip'[j].made = tip'[l].made
          PROVE  tip'[j].erased
      <4>1. CASE l = i
        BY <2>2, <2>6, <2>7, <2>13, <3>5, <3>6, <4>1
      <4>2. CASE j = i
        BY <2>6, <2>13, <3>3, <3>6, <4>2
      <4>3. CASE l # i /\ j # i
        BY <2>6, <3>6, <4>3 DEF TipsOK
      <4> QED BY <4>1, <4>2, <4>3
    <3> QED BY <3>1, <3>4, <3>6 DEF TipsOK
  <2> QED BY <2>8, <2>9, <2>10, <2>11, <2>12, <2>14
<1>6. \/ Refuse(q) /\ UNCHANGED tip
      \/ \E n \in before : UNCHANGED <<tip, claim, lost>> /\ req' = [req EXCEPT ![q].id = n, ![q].pc = "read"]
      \/ /\ before = {}
         /\ \E i \in Unused :
              /\ \A n \in Unused : i <= n
              /\ tip' = [tip EXCEPT ![i].key = k, ![i].made = k, ![i].body = Body[q], ![i].pay = "pending"]
              /\ req' = [req EXCEPT ![q].id = i, ![q].pc = "pay"]
         /\ UNCHANGED <<claim, lost>>
  BY DEF Request
<1> QED BY <1>3, <1>4, <1>5, <1>6

\* The steps that pay for an interaction, read it and begin its answer.
LEMMA TransferStep ==
    ASSUME IInv, NEW q \in Reqs, Transfer(q)
    PROVE  IInv'
<1> USE DEF IInv
<1> DEFINE i == req[q].id
<1>1. /\ req[q].pc = "pay" /\ Running(q) /\ i \in Ids /\ tip[i].pay # "none" /\ req[q] \in Handlers
      /\ UNCHANGED <<alert, racing, faults, erases>>
  BY DEF Transfer, Running, HandlerOK, TypeOK
<1>2. tip \in [Ids -> Tips] /\ charged \subseteq Ids /\ alert \in [Ids -> {"none", "named", "anonymous"}]
  BY DEF TypeOK
<1>3. charged' \subseteq charged \cup {i}
  BY DEF Transfer
<1>4. charged' \subseteq Ids /\ \A j \in Ids : j \in charged' => j \in charged \/ tip[j].pay # "none"
  BY <1>1, <1>2, <1>3
<1>5. CASE Goto(q, "settle") /\ UNCHANGED <<claim, lost, tip>>
  <2>1. Sames
    BY <1>5 DEF Sames, Same
  <2>2. /\ req' \in [Reqs -> Handlers] /\ \A r \in Reqs \ {q} : req'[r] = req[r]
        /\ req'[q].pc = "settle" /\ req'[q].id = i
    BY <1>5, GotoFacts DEF Places
  <2>3. HandlerOK(q)'
    BY <1>1, <1>5, <2>2 DEF HandlerOK
  <2> QED BY <1>1, <1>2, <1>4, <1>5, <2>1, <2>2, <2>3, GoesOn
<1>6. CASE tip' = Failed(i) /\ Refuse(q)
  <2>1. tip' \in [Ids -> Tips] /\ Sames
    BY <1>1, <1>6, FailedFacts DEF Sames
  <2>2. HandlerOK(q)'
    BY <1>6, RefuseFacts, <1>1 DEF HandlerOK
  <2> QED BY <1>1, <1>2, <1>4, <1>6, <2>1, <2>2, GoesOn
<1>7. CASE /\ tip' = [tip EXCEPT ![i].due = @ \/ tip[i].pay = "pending"]
           /\ Goto(q, "read") /\ UNCHANGED <<claim, lost>>
  <2> DEFINE t == [tip[i] EXCEPT !.due = @ \/ tip[i].pay = "pending"]
  <2>1. tip[i] \in Tips
    BY <1>1, <1>2
  <2>2. t \in Tips
    BY <2>1, Zenon DEF Tips
  <2>3. Same(t, tip[i])
    BY <2>1 DEF Tips, Same
  <2>4. tip' = [tip EXCEPT ![i] = t]
    BY <1>7
  <2> HIDE DEF t
  <2>5. tip' \in [Ids -> Tips] /\ tip'[i] = t /\ \A j \in Ids \ {i} : tip'[j] = tip[j]
    BY <1>1, <1>2, <2>2, <2>4
  <2>6. Sames
    BY <2>3, <2>5 DEF Sames, Same
  <2>7. /\ req' \in [Reqs -> Handlers] /\ \A r \in Reqs \ {q} : req'[r] = req[r]
        /\ req'[q].pc = "read" /\ req'[q].id = i
    BY <1>7, GotoFacts DEF Places
  <2>8. HandlerOK(q)'
    BY <1>1, <2>3, <2>5, <2>7 DEF HandlerOK, Same
  <2> QED BY <1>1, <1>2, <1>4, <1>7, <2>5, <2>6, <2>7, <2>8, GoesOn
<1> QED BY <1>5, <1>6, <1>7 DEF Transfer

LEMMA StartCheckoutStep ==
    ASSUME IInv, NEW q \in Reqs, StartCheckout(q)
    PROVE  IInv'
<1> USE DEF IInv
<1> DEFINE i == req[q].id
<1>1. /\ req[q].pc = "pay" /\ Running(q) /\ i \in Ids /\ tip[i].pay # "none"
      /\ UNCHANGED <<alert, charged, racing, faults, erases>>
  BY DEF StartCheckout, Running, HandlerOK
<1>2. tip \in [Ids -> Tips] /\ charged \subseteq Ids /\ alert \in [Ids -> {"none", "named", "anonymous"}]
  BY DEF TypeOK
<1>3. CASE tip' = [tip EXCEPT ![i].checkout = TRUE] /\ Goto(q, "read") /\ UNCHANGED <<claim, lost>>
  <2> DEFINE t == [tip[i] EXCEPT !.checkout = TRUE]
  <2>1. tip[i] \in Tips
    BY <1>1, <1>2
  <2>2. t \in Tips /\ Same(t, tip[i])
    BY <2>1 DEF Tips, Same
  <2>3. tip' = [tip EXCEPT ![i] = t]
    BY <1>3
  <2> HIDE DEF t
  <2>4. tip' \in [Ids -> Tips] /\ tip'[i] = t /\ \A j \in Ids \ {i} : tip'[j] = tip[j]
    BY <1>1, <1>2, <2>2, <2>3
  <2>5. Sames
    BY <2>2, <2>4 DEF Sames, Same
  <2>6. /\ req' \in [Reqs -> Handlers] /\ \A r \in Reqs \ {q} : req'[r] = req[r]
        /\ req'[q].pc = "read" /\ req'[q].id = i
    BY <1>3, GotoFacts DEF Places
  <2>7. HandlerOK(q)'
    BY <1>1, <2>2, <2>4, <2>6 DEF HandlerOK, Same
  <2> QED BY <1>1, <1>2, <1>3, <2>4, <2>5, <2>6, <2>7, GoesOn
<1>4. CASE Refuse(q) /\ (tip' = Failed(i) \/ UNCHANGED tip)
  <2>1. tip' \in [Ids -> Tips] /\ Sames
    BY <1>1, <1>2, <1>4, FailedFacts DEF Sames, Same
  <2>2. HandlerOK(q)'
    BY <1>1, <1>4, RefuseFacts DEF HandlerOK
  <2> QED BY <1>1, <1>2, <1>4, <2>1, <2>2, GoesOn
<1> QED BY <1>3, <1>4 DEF StartCheckout

LEMMA SettleStep ==
    ASSUME IInv, NEW q \in Reqs, Settle(q)
    PROVE  IInv'
<1> USE DEF IInv
<1> DEFINE i == req[q].id
<1>1. /\ req[q].pc = "settle" /\ Running(q) /\ i \in Ids /\ tip[i].pay # "none"
      /\ SettleTip(i) /\ Goto(q, "read")
      /\ UNCHANGED <<claim, charged, lost, racing, faults, erases>>
  BY DEF Settle, Running, HandlerOK
<1>2. /\ tip' \in [Ids -> Tips] /\ Sames
      /\ alert' \in [Ids -> {"none", "named", "anonymous"}]
      /\ \A j \in Ids : alert'[j] = "named" => alert[j] = "named" \/ ~tip[j].erased
  BY <1>1, SettleFacts DEF Sames
<1>3. /\ req' \in [Reqs -> Handlers] /\ \A r \in Reqs \ {q} : req'[r] = req[r]
      /\ req'[q].pc = "read" /\ req'[q].id = i
  BY <1>1, GotoFacts DEF Places
<1>4. HandlerOK(q)'
  BY <1>1, <1>2, <1>3 DEF HandlerOK, Sames, Same
<1>5. charged \subseteq Ids
  BY DEF TypeOK
<1> QED BY <1>1, <1>2, <1>3, <1>4, <1>5, GoesOn

LEMMA ReadStep ==
    ASSUME IInv, NEW q \in Reqs, ReadAnswer(q)
    PROVE  IInv'
<1> USE DEF IInv
<1> DEFINE i == req[q].id
           h == [req[q] EXCEPT !.answer = Shown(i), !.pc = "store"]
<1>1. /\ req[q].pc = "read" /\ Running(q) /\ i \in Ids /\ tip[i].pay # "none"
      /\ req[q] \in Handlers /\ req \in [Reqs -> Handlers] /\ tip[i] \in Tips
      /\ UNCHANGED <<claim, tip, alert, charged, lost, racing, faults, erases>>
  BY DEF ReadAnswer, Running, HandlerOK, TypeOK
<1>2. Shown(i) \in Answers /\ Shown(i).id = i /\ Shown(i).names = ~tip[i].erased
  BY <1>1 DEF Shown, Answers, Tips
<1>3. h \in Handlers /\ h.id = i /\ h.pc = "store" /\ h.answer = Shown(i)
  BY <1>1, <1>2 DEF Handlers
<1>4. req' = [req EXCEPT ![q] = h]
  BY DEF ReadAnswer
<1> HIDE DEF h
<1>5. /\ req' \in [Reqs -> Handlers] /\ \A r \in Reqs \ {q} : req'[r] = req[r]
      /\ req'[q].pc = "store" /\ req'[q].id = i /\ req'[q].answer = Shown(i)
  BY <1>1, <1>3, <1>4
<1>6. TypeOK'
  BY <1>1, <1>5 DEF TypeOK
<1>7. Sames
  BY <1>1 DEF Sames, Same
<1>8. HandlerOK(q)'
  BY <1>1, <1>2, <1>5 DEF HandlerOK
<1>9. \A r \in Reqs : HandlerOK(r)'
  BY <1>5, <1>7, <1>8, HandlersFrame
<1>10. TipsOK'
  BY <1>1, <1>7, TipsFrame
<1>11. \A l \in Keys : ClaimOK(l)'
  BY <1>1 DEF ClaimOK
<1>12. \A r \in Reqs : Running(r)' <=> Running(r)
  BY <1>1, <1>5 DEF Running
<1>13. RunsOK'
  BY <1>1, <1>12, RunsFrame DEF TypeOK
<1>14. ErasedOK'
  <2>1. AnswerOK(q)'
    BY <1>1, <1>2, <1>5 DEF AnswerOK
  <2>2. \A r \in Reqs \ {q} : AnswerOK(r)'
    BY <1>1, <1>5 DEF ErasedOK, AnswerOK
  <2>3. ErasedIsGone'
    BY <1>1 DEF ErasedOK, ErasedIsGone
  <2> QED BY <2>1, <2>2, <2>3 DEF ErasedOK
<1> QED BY <1>6, <1>9, <1>10, <1>11, <1>13, <1>14

-----------------------------------------------------------------------------
(* The steps meanwhile *)

\* Billing's events and the due transfers are about interactions that were made.
LEMMA BackgroundStep ==
    ASSUME IInv, NEW i \in Ids, Background(i) \/ BackgroundRefused(i)
    PROVE  IInv'
<1> USE DEF IInv
<1>1. /\ tip[i].pay # "none" /\ charged' \subseteq charged \cup {i}
      /\ UNCHANGED <<claim, req, lost, racing, faults, erases>>
  BY DEF Background, BackgroundRefused, TipsOK, TipOK
<1>2. /\ tip' \in [Ids -> Tips] /\ Sames
      /\ alert' \in [Ids -> {"none", "named", "anonymous"}]
      /\ \A j \in Ids : alert'[j] = "named" => alert[j] = "named" \/ ~tip[j].erased
  <2>1. CASE Background(i)
    BY <1>1, <2>1, SettleFacts DEF Background, Sames
  <2>2. CASE BackgroundRefused(i)
    BY <2>2, FailedFacts DEF BackgroundRefused, Sames, TypeOK
  <2> QED BY <2>1, <2>2
<1>3. charged' \subseteq Ids /\ \A j \in Ids : j \in charged' => j \in charged \/ tip[j].pay # "none"
  BY <1>1 DEF TypeOK
<1>4. TypeOK'
  BY <1>1, <1>2, <1>3 DEF TypeOK
<1>5. \A r \in Reqs : HandlerOK(r)'
  BY <1>1, <1>2 DEF HandlerOK, Sames, Same
<1>6. TipsOK'
  BY <1>2, <1>3, TipsFrame
<1>7. \A l \in Keys : ClaimOK(l)'
  BY <1>1 DEF ClaimOK
<1>8. RunsOK'
  BY <1>1 DEF RunsOK, OwnsOK, RunsOnce, Running
<1>9. ErasedOK'
  BY <1>1, <1>2, ErasedFrame
<1> QED BY <1>4, <1>5, <1>6, <1>7, <1>8, <1>9

\* A connection that closes leaves the handler running without its claim.
LEMMA CloseStep ==
    ASSUME IInv, NEW q \in Reqs, Close(q)
    PROVE  IInv'
<1> USE DEF IInv
<1> DEFINE h == [req[q] EXCEPT !.closed = TRUE]
<1>1. /\ Running(q) /\ claim' = Released(q) /\ lost' = LostBy(q) \cup {q} /\ faults' = faults + 1
      /\ req[q] \in Handlers /\ req \in [Reqs -> Handlers]
      /\ UNCHANGED <<tip, alert, charged, racing, erases>>
  BY DEF Close, TypeOK
<1>2. h \in Handlers /\ h.id = req[q].id /\ h.pc = req[q].pc /\ h.answer = req[q].answer
  BY <1>1 DEF Handlers
<1>3. req' = [req EXCEPT ![q] = h]
  BY DEF Close
<1> HIDE DEF h
<1>4. /\ req' \in [Reqs -> Handlers] /\ \A r \in Reqs \ {q} : req'[r] = req[r]
      /\ req'[q].pc = req[q].pc /\ req'[q].id = req[q].id /\ req'[q].answer = req[q].answer
  BY <1>1, <1>2, <1>3
<1>5. Running(q)'
  BY <1>1, <1>4 DEF Running
<1>6. /\ claim' \in [Keys -> Claims] /\ lost' \subseteq Reqs
      /\ \A k \in Keys : claim'[k].status = "stored" => claim'[k] = claim[k]
      /\ \A k \in Keys : ClaimOK(k)'
      /\ RunsOK'
  BY <1>1, <1>4, <1>5, LeaveFacts
<1>7. TypeOK'
  BY <1>1, <1>4, <1>6 DEF TypeOK
<1>8. Sames
  BY <1>1 DEF Sames, Same
<1>9. HandlerOK(q)'
  BY <1>1, <1>4 DEF HandlerOK
<1>10. \A r \in Reqs : HandlerOK(r)'
  BY <1>4, <1>8, <1>9, HandlersFrame
<1>11. TipsOK'
  BY <1>1, <1>8, TipsFrame
<1>12. \A r \in Reqs : req'[r].pc = "store" => req[r].pc = "store" /\ req'[r].answer = req[r].answer
  BY <1>4
<1>13. ErasedOK'
  BY <1>1, <1>6, <1>8, <1>12, ErasedFrame
<1> QED BY <1>6, <1>7, <1>10, <1>11, <1>13

LEMMA CrashStep ==
    ASSUME IInv, NEW q \in Reqs, Crash(q)
    PROVE  IInv'
<1> USE DEF IInv
<1>1. /\ Running(q) /\ End(q, "dead") /\ lost' = lost \ {q} /\ faults' = faults + 1
      /\ UNCHANGED <<claim, tip, alert, charged, racing, erases>>
  BY DEF Crash
<1>2. /\ req' \in [Reqs -> Handlers] /\ \A r \in Reqs \ {q} : req'[r] = req[r]
      /\ req'[q].pc = "dead"
  BY <1>1, EndFacts DEF Places
<1>3. TypeOK'
  BY <1>1, <1>2 DEF TypeOK
<1>4. Sames
  BY <1>1 DEF Sames, Same
<1>5. HandlerOK(q)'
  BY <1>2 DEF HandlerOK
<1>6. \A r \in Reqs : HandlerOK(r)'
  BY <1>2, <1>4, <1>5, HandlersFrame
<1>7. TipsOK'
  BY <1>1, <1>4, TipsFrame
<1>8. \A k \in Keys : ClaimOK(k)'
  BY <1>1 DEF ClaimOK
<1>9. \A r \in Reqs : req'[r].pc = "store" => req[r].pc = "store" /\ req'[r].answer = req[r].answer
  BY <1>2
<1>10. ErasedOK'
  BY <1>1, <1>4, <1>9, ErasedFrame
<1>11. ~Running(q)' /\ \A r \in Reqs \ {q} : Running(r)' <=> Running(r)
  BY <1>2 DEF Running
<1>12. RunsOK'
  <2>1. \A r \in lost' : Running(r)'
    BY <1>1, <1>11 DEF RunsOK, TypeOK
  <2>2. \A r \in Reqs \ Forms : OwnsOK(r)'
    BY <1>1, <1>11 DEF RunsOK, OwnsOK
  <2>3. RunsOnce'
    BY <1>1, <1>11 DEF RunsOK, RunsOnce
  <2> QED BY <2>1, <2>2, <2>3 DEF RunsOK
<1> QED BY <1>3, <1>6, <1>7, <1>8, <1>10, <1>12

LEMMA AgeStep ==
    ASSUME IInv, NEW k \in Keys, Age(k)
    PROVE  IInv'
<1> USE DEF IInv
<1> DEFINE c == [claim[k] EXCEPT !.old = TRUE]
<1>1. /\ claim[k].status = "pending" /\ lost' = lost \cup {q \in Reqs : Running(q) /\ Key[q] = k}
      /\ faults' = faults + 1 /\ claim \in [Keys -> Claims]
      /\ UNCHANGED <<tip, alert, charged, req, racing, erases>>
  BY DEF Age, TypeOK
<1>2. c \in Claims /\ c.status = "pending"
  BY <1>1 DEF Claims
<1>3. claim' = [claim EXCEPT ![k] = c]
  BY DEF Age
<1> HIDE DEF c
<1>4. claim' \in [Keys -> Claims] /\ claim'[k].status = "pending" /\ \A l \in Keys \ {k} : claim'[l] = claim[l]
  BY <1>1, <1>2, <1>3
<1>5. TypeOK'
  BY <1>1, <1>4 DEF TypeOK
<1>6. Sames
  BY <1>1 DEF Sames, Same
<1>7. \A r \in Reqs : HandlerOK(r)'
  BY <1>1 DEF HandlerOK
<1>8. TipsOK'
  BY <1>1, <1>6, TipsFrame
<1>9. \A l \in Keys : claim'[l].status = "stored" => claim'[l] = claim[l]
  BY <1>4
<1>10. \A l \in Keys : ClaimOK(l)'
  BY <1>9 DEF ClaimOK
<1>11. ErasedOK'
  BY <1>1, <1>6, <1>9, ErasedFrame
<1>12. \A r \in Reqs : Running(r)' <=> Running(r)
  BY <1>1 DEF Running
<1>13. RunsOK'
  <2>1. \A r \in lost' : Running(r)'
    BY <1>1, <1>12 DEF RunsOK, TypeOK
  <2>2. ASSUME NEW r \in Reqs \ Forms PROVE OwnsOK(r)'
    <3>1. CASE Key[r] = k
      BY <1>1, <1>12, <3>1 DEF OwnsOK
    <3>2. CASE Key[r] # k
      <4>1. claim'[Key[r]] = claim[Key[r]]
        BY <1>4, <3>2, SomeRequest
      <4> QED BY <1>1, <1>12, <4>1 DEF RunsOK, OwnsOK
    <3> QED BY <3>1, <3>2
  <2>3. RunsOnce'
    BY <1>1, <1>12 DEF RunsOK, RunsOnce
  <2> QED BY <2>1, <2>2, <2>3 DEF RunsOK
<1> QED BY <1>5, <1>7, <1>8, <1>10, <1>11, <1>13

\* An erasure takes the name from what is kept, and every claim.
LEMMA EraseStep ==
    ASSUME IInv, Erase
    PROVE  IInv'
<1> USE DEF IInv
<1> DEFINE done == {i \in Ids : tip[i].pay \in {"settled", "failed"} /\ ~tip[i].erased}
<1>1. /\ UNCHANGED <<charged, req, faults>> /\ erases' = erases + 1
      /\ lost' = lost \cup {q \in Reqs : Running(q)}
      /\ racing' = racing \cup {q \in Reqs : req[q].pc = "store"}
      /\ tip \in [Ids -> Tips] /\ claim \in [Keys -> Claims]
      /\ alert \in [Ids -> {"none", "named", "anonymous"}]
  BY DEF Erase, TypeOK
<1>2. ASSUME NEW i \in Ids
      PROVE  /\ tip'[i] \in Tips /\ tip'[i].made = tip[i].made /\ tip'[i].pay = tip[i].pay
             /\ i \in done => tip'[i].erased
             /\ i \notin done => tip'[i] = tip[i]
  <2> DEFINE t == [tip[i] EXCEPT !.key = "none", !.checkout = FALSE, !.erased = TRUE]
  <2>1. tip'[i] = IF i \in done THEN t ELSE tip[i]
    BY DEF Erase
  <2>2. t \in Tips /\ t.made = tip[i].made /\ t.pay = tip[i].pay /\ t.erased
    BY <1>1, ZenonT(60) DEF Tips
  <2> HIDE DEF t, done
  <2> QED BY <1>1, <2>1, <2>2
<1>3. ASSUME NEW i \in Ids
      PROVE  /\ alert'[i] \in {"none", "named", "anonymous"}
             /\ i \in done => alert'[i] # "named"
             /\ i \notin done => alert'[i] = alert[i]
  <2>1. alert'[i] = IF i \in done THEN Rewritten(i) ELSE alert[i]
    BY DEF Erase
  <2> QED BY <1>1, <2>1 DEF Rewritten
<1>4. ASSUME NEW k \in Keys PROVE claim'[k] \in Claims /\ claim'[k].status = "none"
  <2> DEFINE c == [claim[k] EXCEPT !.status = "none", !.old = FALSE]
  <2>1. claim'[k] = c
    BY DEF Erase
  <2>2. c \in Claims /\ c.status = "none"
    BY <1>1 DEF Claims
  <2> QED BY <2>1, <2>2
<1>5. /\ tip' = [i \in Ids |-> tip'[i]] /\ alert' = [i \in Ids |-> alert'[i]]
      /\ claim' = [k \in Keys |-> claim'[k]]
  BY DEF Erase
<1>6. TypeOK'
  <2>1. tip' \in [Ids -> Tips]
    BY <1>2, <1>5
  <2>2. alert' \in [Ids -> {"none", "named", "anonymous"}]
    BY <1>3, <1>5
  <2>3. claim' \in [Keys -> Claims]
    BY <1>4, <1>5
  <2> QED BY <1>1, <2>1, <2>2, <2>3 DEF TypeOK
<1>7. \A r \in Reqs : HandlerOK(r)'
  BY <1>1, <1>2 DEF HandlerOK
<1>8. \A k \in Keys : ClaimOK(k)'
  BY <1>4 DEF ClaimOK
<1>9. \A r \in Reqs : Running(r)' <=> Running(r)
  BY <1>1 DEF Running
<1>10. RunsOK'
  <2>1. \A r \in lost' : Running(r)'
    BY <1>1, <1>9 DEF RunsOK, TypeOK
  <2>2. \A r \in Reqs \ Forms : OwnsOK(r)'
    BY <1>1, <1>9 DEF OwnsOK
  <2>3. RunsOnce'
    BY <1>1, <1>9 DEF RunsOnce
  <2> QED BY <2>1, <2>2, <2>3 DEF RunsOK
<1>11. ErasedOK'
  <2>1. \A i \in Ids : tip'[i].erased => alert'[i] # "named"
    BY <1>2, <1>3 DEF ErasedOK, ErasedIsGone
  <2>2. ErasedIsGone'
    BY <1>4, <2>1 DEF ErasedIsGone
  <2>3. \A r \in Reqs : AnswerOK(r)'
    BY <1>1 DEF AnswerOK
  <2> QED BY <2>2, <2>3 DEF ErasedOK
<1>12. TipsOK'
  <2> HIDE DEF done
  <2>1. \A i \in done : tip[i].pay # "none"
    BY DEF done
  <2>2. \A i \in Ids : TipOK(i)'
    BY <1>1, <1>2, <2>1 DEF TipsOK, TipOK
  <2>3. \A i \in Ids : tip[i].erased => tip'[i].erased
    BY <1>2
  <2> QED BY <1>2, <2>2, <2>3 DEF TipsOK
<1> QED BY <1>6, <1>7, <1>8, <1>10, <1>11, <1>12

-----------------------------------------------------------------------------
(* The theorems *)

LEMMA IInvStep == IInv /\ [Next]_vars => IInv'
<1> SUFFICES ASSUME IInv, [Next]_vars PROVE IInv'
    OBVIOUS
<1>1. ASSUME NEW q \in Reqs, Turned(q) \/ Replay(q) \/ Submit(q) PROVE IInv'
  <2>1. ~Running(q)
    BY <1>1 DEF Turned, Replay, Submit, Running
  <2>2. CASE Turned(q)
    BY <2>1, <2>2, NothingDone DEF Turned
  <2>3. CASE Replay(q)
    BY <2>1, <2>3, NothingDone DEF Replay
  <2>4. CASE Submit(q)
    BY <2>1, <2>4, NothingDone DEF Submit
  <2> QED BY <1>1, <2>2, <2>3, <2>4
<1>2. CASE UNCHANGED vars
  <2>1. Sames
    BY <1>2 DEF Sames, Same, vars
  <2> QED BY <1>2 DEF vars, IInv, TypeOK, HandlerOK, ClaimOK, RunsOK, OwnsOK, RunsOnce, Running, ErasedOK,
              ErasedIsGone, AnswerOK, TipsOK, TipOK
<1> QED BY <1>1, <1>2, ClaimStep, StoreStep, RequestStep, TransferStep, StartCheckoutStep, SettleStep,
           ReadStep, BackgroundStep, CloseStep, CrashStep, AgeStep, EraseStep DEF Next, Handle

\* The inductive invariant holds however requests, faults and erasures interleave.
THEOREM RequestsInvariant == Spec => []IInv
BY InitIInv, IInvStep, PTL DEF Spec

\* Every variable stays in its type.
THEOREM RequestsTyped == Spec => []TypeOK
<1>1. IInv => TypeOK
  BY DEF IInv
<1> QED BY <1>1, RequestsInvariant, PTL

\* idempotencyKey() lets one handler run for a key, but for those that lost their claim.
THEOREM KeysRunOnce == Spec => []RunsOnce
<1>1. IInv => RunsOnce
  BY DEF IInv, RunsOK
<1> QED BY <1>1, RequestsInvariant, PTL

\* The hash the stored answer is written under keeps a replay from answering another request.
THEOREM ReplaysAreOwn == Spec => []ReplayIsOwn
<1>1. IInv => ReplayIsOwn
  BY SomeRequest DEF IInv, ClaimOK, ReplayIsOwn
<1> QED BY <1>1, RequestsInvariant, PTL

\* The UNIQUE idempotency_key charges a key once, whatever becomes of the claims, until its
\* interaction is erased.
THEOREM KeysChargedOnce == Spec => []OnceCharged
<1>1. IInv => OnceCharged
  <2> SUFFICES ASSUME IInv, NEW i \in charged, NEW j \in charged, i < j, tip[i].made = tip[j].made
               PROVE  tip[i].erased
    BY DEF OnceCharged
  <2>1. i \in Ids /\ j \in Ids /\ tip[j].pay # "none"
    BY DEF IInv, TypeOK, TipsOK, TipOK
  <2> QED BY <2>1 DEF IInv, TipsOK
<1> QED BY <1>1, RequestsInvariant, PTL

\* erase() takes the supporter's name from everything Tips keeps of what it erases, but an
\* answer that was being written.
THEOREM ErasedStaysGone == Spec => []ErasedIsGone
<1>1. IInv => ErasedIsGone
  BY DEF IInv, ErasedOK
<1> QED BY <1>1, RequestsInvariant, PTL

=============================================================================
