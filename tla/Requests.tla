------------------------------ MODULE Requests ------------------------------
(***************************************************************************)
(* Paid requests of one supporter, from the HTTP request to the answer:    *)
(* the claim of an Idempotency-Key (api/idempotency.js), the handler       *)
(* (api/v1.js paid(), web/routes.js for the form), the interaction it      *)
(* makes and pays for (domain/interactions.js), and the erasure of the     *)
(* supporter's data meanwhile.                                             *)
(*                                                                         *)
(* A retry is another request with the same key.  Every await of a handler *)
(* is a step, and between two steps its connection may close, its process  *)
(* may die, and a minute may pass.                                         *)
(***************************************************************************)
EXTENDS Naturals, FiniteSets

CONSTANTS
    Reqs,        \* HTTP requests, each sent once
    Forms,       \* those of the page's form, which claim nothing (their nonce is the key)
    Key,         \* [Reqs -> Keys]: the scoped key
    Body,        \* [Reqs -> Bodies]: the request, as hashed
    Funding,     \* [Bodies -> {"credit", "checkout"}]
    MaxUnpaid,   \* unpaid checkouts a supporter may have (TIPS_MAX_PENDING_CHECKOUTS)
    MaxFaults,   \* bound: connections closed, processes that die, claims that grow old
    MaxErases    \* bound: erasures

Keys   == {Key[q] : q \in Reqs}
Bodies == {Body[q] : q \in Reqs}
Ids    == 1..Cardinality(Reqs)      \* a request makes one interaction at most

ASSUME RequestConstantsOK ==
    /\ IsFiniteSet(Reqs) /\ Forms \subseteq Reqs
    /\ DOMAIN Key = Reqs /\ DOMAIN Body = Reqs /\ "none" \notin Keys
    /\ Funding \in [Bodies -> {"credit", "checkout"}]
    /\ MaxUnpaid \in Nat /\ MaxFaults \in Nat /\ MaxErases \in Nat

VARIABLES
    claim,    \* [Keys -> Claims]: api_idempotency
    tip,      \* [Ids -> Tips]: tip_interactions, in the order they are made
    alert,    \* [Ids -> {"none", "named", "anonymous"}]: the overlay payload and the unsent events
    charged,  \* SUBSET Ids: Billing moved the money (once per tips:transfer:<id>)
    req,      \* [Reqs -> Handlers]
    lost,     \* SUBSET Reqs: running handlers whose claim was released, let go or removed under them
    racing,   \* SUBSET Reqs: handlers that had read their answer when an erasure ran
    faults, erases

vars == <<claim, tip, alert, charged, req, lost, racing, faults, erases>>

NoId == 0

Answers == [id : Ids, names : BOOLEAN]
NoAnswer == [id |-> NoId, names |-> FALSE]

Claims == [status : {"none", "pending", "stored"}, body : Bodies, answer : Answers \cup {NoAnswer},
           wrote : Bodies, old : BOOLEAN]      \* wrote: whose answer it is
Tips   == [key : Keys \cup {"none"}, made : Keys \cup {"none"}, body : Bodies,
           pay : {"none", "pending", "settled", "failed"}, due : BOOLEAN,
           checkout : BOOLEAN, erased : BOOLEAN]
Handlers == [pc : {"new", "claimed", "pay", "settle", "read", "store", "refused", "ok", "replayed",
                   "dead"},
             id : Ids \cup {NoId}, answer : Answers \cup {NoAnswer}, closed : BOOLEAN]

SomeBody == CHOOSE b \in Bodies : TRUE

Init ==
    /\ claim   = [k \in Keys |-> [status |-> "none", body |-> SomeBody, answer |-> NoAnswer,
                                  wrote |-> SomeBody, old |-> FALSE]]
    /\ tip     = [i \in Ids |-> [key |-> "none", made |-> "none", body |-> SomeBody, pay |-> "none",
                                 due |-> FALSE, checkout |-> FALSE, erased |-> FALSE]]
    /\ alert   = [i \in Ids |-> "none"]
    /\ charged = {}
    /\ req     = [q \in Reqs |-> [pc |-> "new", id |-> NoId, answer |-> NoAnswer, closed |-> FALSE]]
    /\ lost    = {} /\ racing = {}
    /\ faults  = 0 /\ erases = 0

Goto(q, pc) == req' = [req EXCEPT ![q].pc = pc]

\* The handler is over; of what it answered, the interaction is kept.
End(q, pc) == req' = [req EXCEPT ![q] = [pc |-> pc, id |-> @.id, answer |-> NoAnswer, closed |-> FALSE]]

Running(q) == req[q].pc \in {"claimed", "pay", "settle", "read", "store"}

-----------------------------------------------------------------------------
(* The Idempotency-Key *)

\* Mutant: a claim in progress does not stop a second handler.
ClaimableAlways(k) == claim[k].status # "stored"

\* INSERT ... ON CONFLICT: no row, or a claim older than a minute.
Claimable(k) == claim[k].status = "none" \/ (claim[k].status = "pending" /\ claim[k].old)

\* idempotencyKey(): the key is claimed and the handler starts.
Claim(q) ==
    LET k == Key[q]
    IN  /\ req[q].pc = "new" /\ q \notin Forms /\ Claimable(k)
        /\ claim' = [claim EXCEPT ![k].status = "pending", ![k].body = Body[q], ![k].old = FALSE]
        /\ Goto(q, "claimed")
        /\ UNCHANGED <<tip, alert, charged, lost, racing, faults, erases>>

\* 422 key_reused, 409 in_progress: nothing is done.
Turned(q) ==
    LET c == claim[Key[q]]
    IN  /\ req[q].pc = "new" /\ q \notin Forms /\ ~Claimable(Key[q])
        /\ c.body # Body[q] \/ c.status = "pending"
        /\ End(q, "refused")
        /\ UNCHANGED <<claim, tip, alert, charged, lost, racing, faults, erases>>

\* The stored answer, as first sent.
Replay(q) ==
    LET c == claim[Key[q]]
    IN  /\ req[q].pc = "new" /\ q \notin Forms /\ c.status = "stored" /\ c.body = Body[q]
        /\ End(q, "replayed")
        /\ UNCHANGED <<claim, tip, alert, charged, lost, racing, faults, erases>>

\* release(): the claim of an answer that is not 2xx, or of a connection that closed, goes.
Released(q) ==
    LET k == Key[q]
    IN  IF q \notin Forms /\ ~req[q].closed /\ claim[k].status = "pending" /\ claim[k].body = Body[q]
        THEN [claim EXCEPT ![k].status = "none", ![k].old = FALSE] ELSE claim

\* A handler that lost its claim may release the claim of the one that took over.
LostBy(q) == IF q \in lost THEN lost \cup {r \in Reqs : Running(r) /\ Key[r] = Key[q]} ELSE lost

\* An answer that is not 2xx.
Refuse(q) ==
    /\ End(q, "refused")
    /\ claim' = Released(q)
    /\ lost'  = LostBy(q) \ {q}

\* Mutant: the answer is written over whatever claim is there.
KeepsAnyHash(q) == TRUE

\* The upsert writes its own claim or none: WHERE request_hash = excluded.request_hash.
Keeps(q) == claim[Key[q]].status = "none" \/ claim[Key[q]].body = Body[q]

\* res.json of a 2xx answer: stored, then sent.  A closed connection stores nothing.
Store(q) ==
    LET k == Key[q]
    IN  /\ req[q].pc = "store"
        /\ claim' = IF q \in Forms \/ req[q].closed \/ ~Keeps(q) THEN claim
                    ELSE [claim EXCEPT ![k].status = "stored", ![k].answer = req[q].answer,
                                       ![k].wrote = Body[q], ![k].old = FALSE,
                                       ![k].body = IF claim[k].status = "none" THEN Body[q] ELSE @]
        /\ End(q, "ok")
        /\ lost' = lost \ {q}
        /\ UNCHANGED <<tip, alert, charged, racing, faults, erases>>

-----------------------------------------------------------------------------
(* The handler *)

\* The form has no claim: its handler starts at once.
Submit(q) ==
    /\ req[q].pc = "new" /\ q \in Forms
    /\ Goto(q, "claimed")
    /\ UNCHANGED <<claim, tip, alert, charged, lost, racing, faults, erases>>

\* Mutant: only interactions that can still be paid are looked up.
PreviousPending(k) == {i \in Ids : tip[i].key = k /\ tip[i].pay = "pending"}

\* The interaction this key made (idempotency_key is UNIQUE).
Previous(k) == {i \in Ids : tip[i].key = k}

Unpaid == {i \in Ids : tip[i].pay = "pending" /\ Funding[tip[i].body] = "checkout"}
Unused == {i \in Ids : tip[i].pay = "none"}

\* request(), one SERIALIZABLE transaction: what the key made before, or a new interaction.
Request(q) ==
    LET before == Previous(Key[q])
    IN  /\ req[q].pc = "claimed"
        /\ \/ /\ before # {}
              /\ \E n \in before :
                    IF tip[n].pay = "failed" /\ q \notin Forms
                    THEN Refuse(q)
                    ELSE req' = [req EXCEPT ![q].id = n, ![q].pc = "read"] /\ UNCHANGED <<claim, lost>>
              /\ UNCHANGED tip
           \/ /\ before = {} /\ Funding[Body[q]] = "checkout" /\ Cardinality(Unpaid) >= MaxUnpaid
              /\ Refuse(q)
              /\ UNCHANGED tip
           \/ /\ before = {} /\ (Funding[Body[q]] = "checkout" => Cardinality(Unpaid) < MaxUnpaid)
              /\ \E i \in Unused :
                    /\ \A n \in Unused : i <= n
                    /\ tip' = [tip EXCEPT ![i].key = Key[q], ![i].made = Key[q],
                                          ![i].body = Body[q], ![i].pay = "pending"]
                    /\ req' = [req EXCEPT ![q].id = i, ![q].pc = "pay"]
              /\ UNCHANGED <<claim, lost>>
        /\ UNCHANGED <<alert, charged, racing, faults, erases>>

\* failPayment(): a pending payment fails.
Failed(i) == [tip EXCEPT ![i].pay = IF @ = "pending" THEN "failed" ELSE @, ![i].due = FALSE]

\* transfer(): Billing moves the money, refuses, or does not answer (having moved it or not);
\* then the transfer is due again.
Transfer(q) ==
    LET i == req[q].id
    IN  /\ req[q].pc = "pay" /\ Funding[tip[i].body] = "credit"
        /\ \/ charged' = charged \cup {i} /\ Goto(q, "settle") /\ UNCHANGED <<claim, lost, tip>>
           \/ /\ tip' = Failed(i) /\ i \notin charged
              /\ Refuse(q) /\ UNCHANGED charged
           \/ /\ charged' \in {charged, charged \cup {i}}
              /\ tip' = [tip EXCEPT ![i].due = @ \/ tip[i].pay = "pending"]
              /\ Goto(q, "read") /\ UNCHANGED <<claim, lost>>
        /\ UNCHANGED <<alert, racing, faults, erases>>

\* startCheckout(): the intent is there, is refused, or Billing is down (502, nothing charged).
StartCheckout(q) ==
    LET i == req[q].id
    IN  /\ req[q].pc = "pay" /\ Funding[tip[i].body] = "checkout"
        /\ \/ tip' = [tip EXCEPT ![i].checkout = TRUE] /\ Goto(q, "read") /\ UNCHANGED <<claim, lost>>
           \/ tip' = Failed(i) /\ Refuse(q)
           \/ Refuse(q) /\ UNCHANGED tip
        /\ UNCHANGED <<alert, charged, racing, faults, erases>>

\* settleByTransaction(): settled, announced with the name the row has.
SettleTip(i) ==
    IF tip[i].pay = "settled" THEN UNCHANGED <<tip, alert>>
    ELSE /\ tip'   = [tip EXCEPT ![i].pay = "settled", ![i].due = FALSE]
         /\ alert' = [alert EXCEPT ![i] = IF tip[i].erased THEN "anonymous" ELSE "named"]

Settle(q) ==
    /\ req[q].pc = "settle" /\ SettleTip(req[q].id)
    /\ Goto(q, "read")
    /\ UNCHANGED <<claim, charged, lost, racing, faults, erases>>

\* Mutant: the answer shows the interaction as the request made it.
ShownAsMade(i) == [id |-> i, names |-> TRUE]

\* present(): the supporter's view of the row, read again.
Shown(i) == [id |-> i, names |-> ~tip[i].erased]

ReadAnswer(q) ==
    /\ req[q].pc = "read"
    /\ req' = [req EXCEPT ![q].answer = Shown(req[q].id), ![q].pc = "store"]
    /\ UNCHANGED <<claim, tip, alert, charged, lost, racing, faults, erases>>

-----------------------------------------------------------------------------
(* Meanwhile *)

\* processDueTransfers() tries again what is due, and Billing's events settle what it moved
\* (Settlement has both in steps).
Background(i) ==
    /\ \/ tip[i].due /\ tip[i].pay = "pending" /\ charged' = charged \cup {i}
       \/ i \in charged /\ tip[i].pay # "settled" /\ UNCHANGED charged
       \/ tip[i].checkout /\ tip[i].pay = "pending" /\ charged' = charged \cup {i}
    /\ SettleTip(i)
    /\ UNCHANGED <<claim, req, lost, racing, faults, erases>>

\* A due transfer is refused after all.
BackgroundRefused(i) ==
    /\ tip[i].due /\ tip[i].pay = "pending" /\ i \notin charged
    /\ tip' = Failed(i)
    /\ UNCHANGED <<claim, alert, charged, req, lost, racing, faults, erases>>

\* The client goes away before its answer: res 'close' releases the claim, the handler runs on.
Close(q) ==
    /\ Running(q) /\ ~req[q].closed /\ faults < MaxFaults
    /\ claim'  = Released(q)
    /\ req'    = [req EXCEPT ![q].closed = TRUE]
    /\ lost'   = LostBy(q) \cup {q}
    /\ faults' = faults + 1
    /\ UNCHANGED <<tip, alert, charged, racing, erases>>

\* The process dies: the claim stays.
Crash(q) ==
    /\ Running(q) /\ faults < MaxFaults
    /\ End(q, "dead")
    /\ lost'   = lost \ {q}
    /\ faults' = faults + 1
    /\ UNCHANGED <<claim, tip, alert, charged, racing, erases>>

\* A minute passes over a claim whose answer is not in.
Age(k) ==
    /\ claim[k].status = "pending" /\ ~claim[k].old /\ faults < MaxFaults
    /\ claim'  = [claim EXCEPT ![k].old = TRUE]
    /\ lost'   = lost \cup {q \in Reqs : Running(q) /\ Key[q] = k}
    /\ faults' = faults + 1
    /\ UNCHANGED <<tip, alert, charged, req, racing, erases>>

\* refreshInteractions() and the outbox update: the name goes from what was written about it.
Rewritten(i) == IF alert[i] = "named" THEN "anonymous" ELSE alert[i]

\* erase(), one transaction: every interaction but the pending, its answers and their claims.
Erase ==
    LET done == {i \in Ids : tip[i].pay \in {"settled", "failed"} /\ ~tip[i].erased}
    IN  /\ erases < MaxErases
        /\ erases' = erases + 1
        /\ tip'    = [i \in Ids |-> IF i \in done
                                    THEN [tip[i] EXCEPT !.key = "none", !.checkout = FALSE, !.erased = TRUE]
                                    ELSE tip[i]]
        /\ alert'  = [i \in Ids |-> IF i \in done THEN Rewritten(i) ELSE alert[i]]
        /\ claim'  = [k \in Keys |-> [claim[k] EXCEPT !.status = "none", !.old = FALSE]]
        /\ lost'   = lost \cup {q \in Reqs : Running(q)}
        /\ racing' = racing \cup {q \in Reqs : req[q].pc = "store"}
        /\ UNCHANGED <<charged, req, faults>>

-----------------------------------------------------------------------------
(* Specification *)

Handle(q) ==
    \/ Claim(q) \/ Turned(q) \/ Replay(q) \/ Submit(q) \/ Request(q) \/ Transfer(q)
    \/ StartCheckout(q) \/ Settle(q) \/ ReadAnswer(q) \/ Store(q)

Next ==
    \/ \E q \in Reqs : Handle(q) \/ Close(q) \/ Crash(q)
    \/ \E i \in Ids : Background(i) \/ BackgroundRefused(i)
    \/ \E k \in Keys : Age(k)
    \/ Erase

Spec == Init /\ [][Next]_vars

-----------------------------------------------------------------------------
(* Properties *)

\* Every variable stays in its type.
TypeOK ==
    /\ claim \in [Keys -> Claims] /\ tip \in [Ids -> Tips]
    /\ alert \in [Ids -> {"none", "named", "anonymous"}]
    /\ charged \subseteq Ids /\ req \in [Reqs -> Handlers]
    /\ lost \subseteq Reqs /\ racing \subseteq Reqs /\ faults \in Nat /\ erases \in Nat

\* A key moves money once, however often it is sent, closed, taken over or replayed: two
\* interactions of one key have an erasure between them.
OnceCharged ==
    \A i, j \in charged : i < j /\ tip[i].made = tip[j].made => tip[i].erased

\* A replayed answer is the answer of a request with the same content, also when a claim
\* was taken over by another one before the first answered.
ReplayIsOwn ==
    \A q \in Reqs \ Forms :
        req[q].pc = "new" /\ claim[Key[q]].status = "stored" /\ claim[Key[q]].body = Body[q]
            => claim[Key[q]].wrote = Body[q]

\* A key runs one handler at a time, but for handlers that lost their claim: their client
\* left, a minute passed, an erasure took it, or a handler that had lost its own released it.
RunsOnce ==
    \A q, r \in Reqs \ Forms :
        q # r /\ Key[q] = Key[r] /\ Running(q) /\ Running(r) => lost \cap {q, r} # {}

\* Once a supporter erased an interaction, nothing Tips keeps of it names them; a stored
\* answer may, only if it was being written at that moment.
ErasedIsGone ==
    /\ \A i \in Ids : tip[i].erased => alert[i] # "named"
    /\ \A k \in Keys :
          LET a == claim[k].answer
          IN  claim[k].status = "stored" /\ a.names /\ tip[a.id].erased =>
                  \E q \in racing : Key[q] = k

\* The 502 of startCheckout() ("nothing was charged - try again shortly") and the takeover
\* of a dead handler's claim: a tip that was answered is on its way - paid, due, at a
\* checkout, or refused.
AnsweredIsBegun ==
    \A q \in Reqs : req[q].pc = "ok" =>
        LET i == req[q].id
        IN  \/ tip[i].pay \in {"settled", "failed"} \/ tip[i].due \/ tip[i].checkout
            \/ i \in charged
            \/ \E r \in Reqs : req[r].id = i /\ Running(r)
=============================================================================
