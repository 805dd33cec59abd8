--------------------------- MODULE CreatorProofs ----------------------------
(***************************************************************************)
(* Proofs about Creator, for any number of requests, moderators,           *)
(* invitations, settings and tiers, and any limits: the limits hold, an    *)
(* invitation makes one moderator, no save that carries a revision undoes  *)
(* another, and a post's text goes to who held its tier.                   *)
(***************************************************************************)
EXTENDS Creator, FiniteSetTheorems, TLAPS

-----------------------------------------------------------------------------
(* The inductive invariant *)

Handles == [op    : {"idle", "visit", "save", "read", "accept"} \cup Kinds,
            step  : {"idle", "config", "lock", "write", "take", "count", "insert", "ask"},
            arg   : Docs \cup People \cup Invites \cup {Nobody},
            field : Fields \cup People \cup {Nobody},
            sent : SUBSET Fields, plans : BOOLEAN, rev : Nat, form : [Fields -> BOOLEAN]]

\* What each request is about.
ArgsOK(p) ==
    /\ req[p].op = "save" =>
          req[p].arg \in Docs /\ req[p].field \in Fields /\ req[p].field \in req[p].sent
    /\ req[p].op = "accept" => req[p].arg \in Invites /\ req[p].field \in People
    /\ req[p].op = "moderator" => req[p].arg \in People
    /\ req[p].op = "invite" => req[p].arg \in Invites

DocRows   == [there : BOOLEAN, rev : Nat, set : [Fields -> BOOLEAN]]

RowTypes  == /\ row \in [Docs -> DocRows]
             /\ saved \in [Docs -> [Fields -> BOOLEAN]]
ListTypes == /\ lock \in [Docs \cup Invites -> Procs \cup {Free}]
             /\ count \in [{"token", "sound"} -> Nat]
             /\ mods \in SUBSET People
             /\ invite \in [Invites -> {"none", "open", "expired", "used", "revoked"}]
             /\ joined \in [Invites -> SUBSET People]
CachedTiers == [there : BOOLEAN, tier : Tiers \cup {0}, age : Nat]

VipTypes  == /\ tiers \in SUBSET Tiers /\ tier \in Tiers \cup {0}
             /\ cache \in CachedTiers
             /\ recent \in [0..Ttl -> Tiers \cup {0}]

Types ==
    /\ RowTypes /\ ListTypes /\ VipTypes
    /\ req \in [Procs -> Handles]
    /\ \A p \in Procs : ArgsOK(p)

\* The revision a form carries is not newer than the row's; while the row is at that revision,
\* the form differs from it in the edited setting only.
FormOK(p) ==
    LET d == req[p].arg
    IN  req[p].op = "save" =>
            /\ req[p].rev <= row[d].rev
            /\ req[p].rev # 0 /\ req[p].rev = row[d].rev =>
                  \A f \in Fields \ {req[p].field} : req[p].form[f] = row[d].set[f]

SavesOK == SavesStay /\ \A p \in Procs : FormOK(p)

\* An invitation being made is new, and made by one request.
FreshOK(p) ==
    req[p].op = "invite" =>
        /\ invite[req[p].arg] = "none"
        /\ \A q \in Procs \ {p} : req[q].op = "invite" => req[q].arg # req[p].arg

\* Who took an invitation holds its lock, and nobody joined by it.
TakenOK(p) ==
    req[p].op = "accept" /\ req[p].step \in {"lock", "count", "insert"} =>
        /\ lock[req[p].arg] = p
        /\ Takeable(req[p].arg)

InvitesOK == InviteOnce /\ \A p \in Procs : FreshOK(p) /\ TakenOK(p)

\* Who counts or inserts holds the creator's row, and there is room for what it inserts.
RoomOK(p) ==
    Adds(p) =>
        /\ req[p].step \in {"count", "insert"} => lock["profile"] = p
        /\ req[p].step = "insert" =>
              IF Kind(p) = "moderator" THEN Cardinality(mods \cup {Person(p)}) <= MaxOf["moderator"]
              ELSE Counted(Kind(p)) < MaxOf[Kind(p)]

LimitsOK ==
    /\ IsFiniteSet(mods) /\ IsFiniteSet(OpenInvites)
    /\ Limits
    /\ \A p \in Procs : RoomOK(p)

\* What is cached was held when it was asked for, as recently as its age says.
CacheOK ==
    /\ tier <= recent[0]
    /\ cache.there => cache.age <= Ttl /\ cache.tier <= recent[cache.age]

IInv == Types /\ SavesOK /\ InvitesOK /\ LimitsOK /\ CacheOK

-----------------------------------------------------------------------------
(* Initially *)

LEMMA InitIInv == Init => IInv
<1> SUFFICES ASSUME Init PROVE IInv
    OBVIOUS
<1> USE CreatorConstantsOK DEF Init
<1>1. Types
  <2>1. Defaults \in [Fields -> BOOLEAN]
    BY DEF Defaults
  <2>2. Idle \in Handles
    BY <2>1 DEF Idle, Handles
  <2>3. RowTypes
    BY <2>1 DEF RowTypes, DocRows, Docs
  <2>4. ListTypes /\ VipTypes
    BY DEF ListTypes, VipTypes, CachedTiers, Docs
  <2> QED BY <2>2, <2>3, <2>4 DEF Types, ArgsOK, Idle, Kinds
<1>2. SavesOK
  BY DEF SavesOK, SavesStay, FormOK, Idle, Docs
<1>3. InvitesOK
  BY DEF InvitesOK, InviteOnce, FreshOK, TakenOK, Idle
<1>4. LimitsOK
  <2>1. OpenInvites = {}
    BY DEF OpenInvites
  <2>2. IsFiniteSet({}) /\ Cardinality({}) = 0
    BY FS_EmptySet
  <2>3. Limits
    BY <2>1, <2>2 DEF Limits, Counted, Kinds
  <2> QED BY <2>1, <2>2, <2>3 DEF LimitsOK, RoomOK, Adds, Idle, Kinds
<1>5. CacheOK
  BY DEF CacheOK
<1> QED BY <1>1, <1>2, <1>3, <1>4, <1>5 DEF IInv

-----------------------------------------------------------------------------
(* Types *)

\* Releasing locks leaves the locks of others.
LEMMA UnlockedFacts ==
    ASSUME ListTypes, NEW p \in Procs
    PROVE  /\ Unlocked(p) \in [Docs \cup Invites -> Procs \cup {Free}]
           /\ \A r \in Docs \cup Invites : lock[r] # p => Unlocked(p)[r] = lock[r]
BY DEF ListTypes, Unlocked

\* A save that starts: what it sends differs from what it was shown in the setting it changes.
LEMMA StartedSave ==
    ASSUME Types, NEW p \in Procs, StartSave(p)
    PROVE  \E r \in Handles :
              /\ req' = [req EXCEPT ![p] = r]
              /\ r.op = "save" /\ r.step = "lock" /\ r.arg \in Docs
              /\ r.field \in Fields /\ r.field \in r.sent
              /\ r.rev \in {0, row[r.arg].rev}
              /\ r.form = [row[r.arg].set EXCEPT ![r.field] = ~@]
<1> DEFINE Sent(d, f, others, rev) ==
              [Idle EXCEPT !.op = "save", !.step = "lock", !.arg = d, !.field = f,
                           !.sent = others \cup {f}, !.rev = rev,
                           !.form = [row[d].set EXCEPT ![f] = ~@]]
<1>1. PICK d \in Docs, f \in Fields, others \in SUBSET Fields :
          \E rev \in {0, row[d].rev} : Begin(p, Sent(d, f, others, rev))
  BY ZenonT(60) DEF StartSave
<1>2. row[d].rev \in Nat /\ row[d].set \in [Fields -> BOOLEAN]
  BY DEF Types, RowTypes, DocRows
<1>3. PICK rev \in {0, row[d].rev} : req' = [req EXCEPT ![p] = Sent(d, f, others, rev)]
  BY <1>1 DEF Begin
<1> DEFINE sent == others \cup {f}
           form == [row[d].set EXCEPT ![f] = ~@]
           r    == [Idle EXCEPT !.op = "save", !.step = "lock", !.arg = d, !.field = f,
                                !.sent = sent, !.rev = rev, !.form = form]
<1>4. sent \in SUBSET Fields /\ f \in sent /\ form \in [Fields -> BOOLEAN] /\ rev \in Nat
  BY <1>2
<1>5. req' = [req EXCEPT ![p] = r] /\ form = [row[d].set EXCEPT ![f] = ~@]
  BY <1>3
<1> HIDE DEF sent, form
<1>6. /\ r \in Handles /\ r.op = "save" /\ r.step = "lock" /\ r.arg = d /\ r.field = f
      /\ r.sent = sent /\ r.rev = rev /\ r.form = form
  BY <1>4 DEF Idle, Handles
<1> HIDE DEF r
<1> QED BY <1>4, <1>5, <1>6

\* A new state of a request that is well typed keeps the requests well typed.
LEMMA RequestTypes ==
    ASSUME req \in [Procs -> Handles], NEW p \in Procs, NEW r \in Handles,
           \A q \in Procs : ArgsOK(q),
           req' = [req EXCEPT ![p] = r],
           r.op = "save" => r.arg \in Docs /\ r.field \in Fields /\ r.field \in r.sent,
           r.op = "accept" => r.arg \in Invites /\ r.field \in People,
           r.op = "moderator" => r.arg \in People,
           r.op = "invite" => r.arg \in Invites
    PROVE  /\ req' \in [Procs -> Handles]
           /\ \A q \in Procs : ArgsOK(q)'
<1>1. req'[p] = r /\ \A q \in Procs \ {p} : req'[q] = req[q]
  OBVIOUS
<1> QED BY <1>1 DEF ArgsOK

\* A request that ends, or goes on to its next step, stays well typed.
LEMMA StepTypes ==
    ASSUME Types, NEW p \in Procs,
           NEW s \in {"idle", "config", "lock", "write", "take", "count", "insert", "ask"},
           Done(p) \/ Step(p, s)
    PROVE  /\ req' \in [Procs -> Handles]
           /\ \A q \in Procs : ArgsOK(q)'
<1>1. Idle \in Handles
  BY DEF Idle, Handles, Defaults
<1>2. [req[p] EXCEPT !.step = s] \in Handles
  BY DEF Types, Handles
<1>3. CASE Done(p)
  BY <1>1, <1>3, RequestTypes DEF Done, Types, Idle
<1>4. CASE Step(p, s)
  <2>1. req' = [req EXCEPT ![p] = [req[p] EXCEPT !.step = s]]
    BY <1>4 DEF Step, Types
  <2>2. ArgsOK(p)
    BY DEF Types
  <2>3. req[p] \in Handles
    BY DEF Types
  <2> DEFINE r == [req[p] EXCEPT !.step = s]
  <2>4. /\ r.op = req[p].op /\ r.arg = req[p].arg /\ r.field = req[p].field
        /\ r.sent = req[p].sent
    BY <2>3 DEF Handles
  <2>5. req' = [req EXCEPT ![p] = r] /\ r \in Handles
    BY <1>2, <2>1
  <2> HIDE DEF r
  <2> QED BY <2>2, <2>4, <2>5, RequestTypes DEF Types, ArgsOK
<1> QED BY <1>3, <1>4

LEMMA TypesStep == Types /\ [Next]_vars => Types'
<1> SUFFICES ASSUME Types, [Next]_vars PROVE Types'
    OBVIOUS
<1> USE CreatorConstantsOK
<1>1. Idle \in Handles /\ Defaults \in [Fields -> BOOLEAN]
  BY DEF Idle, Handles, Defaults
<1>2. ASSUME NEW p \in Procs, Request(p)
      PROVE  Types'
  <2>1. CASE Visit(p)
    <3>1. [Idle EXCEPT !.op = "visit", !.step = "config"] \in Handles
      BY <1>1 DEF Handles, Idle
    <3>2. req' \in [Procs -> Handles] /\ \A q \in Procs : ArgsOK(q)'
      BY <2>1, <3>1, RequestTypes DEF Visit, Types, Idle
    <3>3. ListTypes' /\ VipTypes'
      BY <2>1 DEF Visit, Types, ListTypes, VipTypes, lists, vip
    <3>4. [row["profile"] EXCEPT !.there = TRUE] \in DocRows
      BY DEF Types, RowTypes, DocRows, Docs
    <3>5. row' = [row EXCEPT !["profile"] = [row["profile"] EXCEPT !.there = TRUE]]
      BY <2>1 DEF Visit
    <3>6. RowTypes'
      BY <2>1, <3>4, <3>5 DEF Visit, Types, RowTypes
    <3> QED BY <3>2, <3>3, <3>6 DEF Types
  <2>2. CASE FirstConfig(p)
    <3>1. ListTypes' /\ VipTypes'
      BY <2>2 DEF FirstConfig, Types, ListTypes, VipTypes, lists, vip
    <3>2. [row["config"] EXCEPT !.there = TRUE] \in DocRows
      BY DEF Types, RowTypes, DocRows, Docs
    <3>3. row' = [row EXCEPT !["config"] = [row["config"] EXCEPT !.there = TRUE]]
      BY <2>2 DEF FirstConfig
    <3>4. RowTypes'
      BY <2>2, <3>2, <3>3 DEF FirstConfig, Types, RowTypes
    <3> QED BY <2>2, <3>1, <3>4, StepTypes DEF Types, FirstConfig
  <2>3. CASE StartSave(p)
    <3>1. PICK r \in Handles :
             /\ req' = [req EXCEPT ![p] = r] /\ r.op = "save" /\ r.arg \in Docs
             /\ r.field \in Fields /\ r.field \in r.sent
      BY <2>3, StartedSave
    <3>3. req' \in [Procs -> Handles] /\ \A q \in Procs : ArgsOK(q)'
      BY <3>1, RequestTypes DEF Types, Kinds
    <3>4. RowTypes' /\ ListTypes' /\ VipTypes'
      BY <2>3 DEF StartSave, Types, RowTypes, ListTypes, VipTypes, rows, lists, vip
    <3> QED BY <3>3, <3>4 DEF Types
  <2>4. CASE LockRow(p)
    <3>1. req[p].arg \in Docs
      BY <2>4 DEF LockRow, At, Types, ArgsOK
    <3>2. RowTypes' /\ ListTypes' /\ VipTypes'
      BY <2>4, <3>1 DEF LockRow, Types, RowTypes, ListTypes, VipTypes, lists, vip
    <3> QED BY <2>4, <3>2, StepTypes DEF Types, LockRow
  <2>5. CASE Save(p)
    <3>1. req[p].arg \in Docs /\ req[p].field \in Fields /\ req[p].form \in [Fields -> BOOLEAN]
      BY <2>5 DEF Save, At, Types, ArgsOK, Handles
    <3>2. RowTypes'
      <4> DEFINE d    == req[p].arg
                 set  == Over(row[d].set, req[p].sent, req[p].form)
                 kept == Over(saved[d], Meant(p), req[p].form)
                 r    == [row[d] EXCEPT !.rev = @ + 1, !.set = set]
      <4>1. CASE Conflict(p)
        BY <2>5, <4>1 DEF Save, Types, RowTypes
      <4>2. CASE ~Conflict(p)
        <5>1. row[d] \in DocRows /\ saved[d] \in [Fields -> BOOLEAN]
          BY <3>1 DEF Types, RowTypes
        <5>2. set \in [Fields -> BOOLEAN] /\ kept \in [Fields -> BOOLEAN]
          BY <3>1, <5>1 DEF DocRows, Over
        <5>3. row' = [row EXCEPT ![d] = r] /\ saved' = [saved EXCEPT ![d] = kept]
          BY <2>5, <3>1, <4>2 DEF Save, Types, RowTypes
        <5> HIDE DEF set, kept
        <5>4. r \in DocRows
          <6>1. row[d].rev + 1 \in Nat
            BY <5>1 DEF DocRows
          <6> QED BY <5>1, <5>2, <6>1 DEF DocRows
        <5> HIDE DEF r
        <5> QED BY <3>1, <5>2, <5>3, <5>4 DEF Types, RowTypes
      <4> QED BY <4>1, <4>2
    <3>3. ListTypes' /\ VipTypes'
      BY <2>5, UnlockedFacts DEF Save, Types, ListTypes, VipTypes, lists, vip
    <3> QED BY <2>5, <3>2, <3>3, StepTypes DEF Types, Save
  <2>6. CASE StartAdd(p)
    <3>1. PICK k \in Kinds, x \in People \cup Invites \cup {Nobody} :
            /\ k = "moderator" => x \in People
            /\ k = "invite" => x \in Invites
            /\ req' = [req EXCEPT ![p] = [Idle EXCEPT !.op = k, !.step = "lock", !.arg = x]]
      BY <2>6 DEF StartAdd, Begin
    <3>2. [Idle EXCEPT !.op = k, !.step = "lock", !.arg = x] \in Handles
      BY <1>1 DEF Handles, Idle
    <3>3. req' \in [Procs -> Handles] /\ \A q \in Procs : ArgsOK(q)'
      BY <3>1, <3>2, RequestTypes DEF Types, Idle, Kinds
    <3>4. RowTypes' /\ ListTypes' /\ VipTypes'
      BY <2>6 DEF StartAdd, Types, RowTypes, ListTypes, VipTypes, rows, lists, vip
    <3> QED BY <3>3, <3>4 DEF Types
  <2>7. CASE StartAccept(p)
    <3>1. PICK i \in OpenInvites, x \in People :
            req' = [req EXCEPT ![p] = [Idle EXCEPT !.op = "accept", !.step = "take", !.arg = i, !.field = x]]
      BY <2>7 DEF StartAccept, Begin
    <3>2. [Idle EXCEPT !.op = "accept", !.step = "take", !.arg = i, !.field = x] \in Handles
      BY <1>1 DEF Handles, Idle, OpenInvites
    <3>3. req' \in [Procs -> Handles] /\ \A q \in Procs : ArgsOK(q)'
      BY <3>1, <3>2, RequestTypes DEF Types, Idle, OpenInvites
    <3>4. RowTypes' /\ ListTypes' /\ VipTypes'
      BY <2>7 DEF StartAccept, Types, RowTypes, ListTypes, VipTypes, rows, lists, vip
    <3> QED BY <3>3, <3>4 DEF Types
  <2>8. CASE Take(p)
    <3>1. RowTypes' /\ VipTypes' /\ <<count, mods, invite, joined>>' = <<count, mods, invite, joined>>
      BY <2>8 DEF Take, Types, RowTypes, VipTypes, lists, vip
    <3>3. req[p].arg \in Invites
      BY <2>8 DEF Take, At, Types, ArgsOK
    <3>4. lock' \in [Docs \cup Invites -> Procs \cup {Free}]
      BY <2>8, <3>3 DEF Take, Types, ListTypes
    <3>2. Done(p) \/ Step(p, "lock")
      BY <2>8 DEF Take
    <3> QED BY <3>1, <3>2, <3>4, StepTypes DEF Types, ListTypes
  <2>9. CASE LockCreator(p)
    <3>1. RowTypes' /\ ListTypes' /\ VipTypes'
      BY <2>9 DEF LockCreator, Types, RowTypes, ListTypes, VipTypes, lists, vip
    <3> QED BY <2>9, <3>1, StepTypes DEF Types, LockCreator
  <2>10. CASE Count(p)
    <3>1. RowTypes' /\ ListTypes' /\ VipTypes'
      <4>1. lock' \in [Docs \cup Invites -> Procs \cup {Free}]
        BY <2>10, UnlockedFacts DEF Count, Types, ListTypes
      <4> QED BY <2>10, <4>1 DEF Count, Types, RowTypes, ListTypes, VipTypes, lists, vip
    <3>2. Done(p) \/ Step(p, "insert")
      BY <2>10 DEF Count
    <3> QED BY <3>1, <3>2, StepTypes DEF Types
  <2>11. CASE Insert(p)
    <3>1. /\ Kind(p) = "moderator" => Person(p) \in People
          /\ Kind(p) = "invite" => req[p].arg \in Invites
          /\ req[p].op = "accept" => req[p].arg \in Invites
      BY <2>11 DEF Types, ArgsOK, Kind, Person
    <3>2. count' \in [{"token", "sound"} -> Nat] /\ mods' \in SUBSET People
      BY <2>11, <3>1 DEF Insert, Types, ListTypes
    <3>3. joined' \in [Invites -> SUBSET People]
      BY <2>11, <3>1 DEF Insert, Types, ListTypes, Kind
    <3>4. invite' \in [Invites -> {"none", "open", "expired", "used", "revoked"}]
      <4>1. CASE Kind(p) = "invite"
        BY <2>11, <3>1, <4>1 DEF Insert, Types, ListTypes
      <4>2. CASE Kind(p) # "invite" /\ req[p].op = "accept"
        BY <2>11, <3>1, <4>2 DEF Insert, Types, ListTypes
      <4>3. CASE Kind(p) # "invite" /\ req[p].op # "accept"
        BY <2>11, <3>1, <4>3 DEF Insert, Types, ListTypes
      <4> QED BY <4>1, <4>2, <4>3
    <3>5. RowTypes' /\ VipTypes' /\ lock' = Unlocked(p)
      BY <2>11 DEF Insert, Types, RowTypes, VipTypes, vip
    <3> QED BY <2>11, <3>2, <3>3, <3>4, <3>5, UnlockedFacts, StepTypes DEF Types, ListTypes, Insert
  <2>12. CASE StartRead(p)
    <3>1. PICK plans \in BOOLEAN :
            req' = [req EXCEPT ![p] = [Idle EXCEPT !.op = "read", !.step = "ask", !.plans = plans]]
      BY <2>12 DEF StartRead, Begin
    <3>2. [Idle EXCEPT !.op = "read", !.step = "ask", !.plans = plans] \in Handles
      BY <1>1 DEF Handles, Idle
    <3>3. req' \in [Procs -> Handles] /\ \A q \in Procs : ArgsOK(q)'
      BY <3>1, <3>2, RequestTypes DEF Types, Idle
    <3>4. RowTypes' /\ ListTypes' /\ VipTypes'
      BY <2>12 DEF StartRead, Types, RowTypes, ListTypes, VipTypes, rows, lists, vip
    <3> QED BY <3>3, <3>4 DEF Types
  <2>13. CASE Read(p)
    <3>1. RowTypes' /\ ListTypes' /\ VipTypes'
      BY <2>13 DEF Read, Types, RowTypes, ListTypes, VipTypes, CachedTiers, rows, lists
    <3> QED BY <2>13, <3>1, StepTypes DEF Types, Read
  <2>14. CASE ReadUnanswered(p)
    <3>1. RowTypes' /\ ListTypes' /\ VipTypes'
      BY <2>14 DEF ReadUnanswered, Types, RowTypes, ListTypes, VipTypes, rows, lists, vip
    <3> QED BY <2>14, <3>1, StepTypes DEF Types, ReadUnanswered
  <2> QED BY <1>2, <2>1, <2>2, <2>3, <2>4, <2>5, <2>6, <2>7, <2>8, <2>9, <2>10, <2>11, <2>12, <2>13,
             <2>14 DEF Request
<1>3. CASE Drop \/ RemoveModerator \/ EndInvite
  <2>1. RowTypes' /\ VipTypes' /\ req' = req
    BY <1>3 DEF Drop, RemoveModerator, EndInvite, Types, RowTypes, VipTypes, rows, vip
  <2>2. ListTypes'
    BY <1>3 DEF Drop, RemoveModerator, EndInvite, Types, ListTypes, rows
  <2> QED BY <2>1, <2>2 DEF Types, ArgsOK
<1>4. CASE CreatePost \/ HidePost \/ Membership \/ Invalidate
  <2>1. RowTypes' /\ ListTypes' /\ req' = req
    BY <1>4 DEF CreatePost, HidePost, Membership, Invalidate, Types, RowTypes, ListTypes, rows, lists
  <2>2. [cache EXCEPT !.there = FALSE, !.tier = 0, !.age = 0]
            \in CachedTiers
    BY DEF Types, VipTypes, CachedTiers
  <2>3. VipTypes'
    <3>1. CASE CreatePost \/ HidePost
      BY <3>1 DEF CreatePost, HidePost, Types, VipTypes
    <3>2. CASE Membership
      BY <3>2 DEF Membership, Types, VipTypes
    <3>3. CASE Invalidate
      BY <2>2, <3>3 DEF Invalidate, Types, VipTypes
    <3> QED BY <1>4, <3>1, <3>2, <3>3
  <2> QED BY <2>1, <2>3 DEF Types, ArgsOK
<1>5. CASE Tick
  <2>1. RowTypes' /\ ListTypes' /\ req' = req
    BY <1>5 DEF Tick, Types, RowTypes, ListTypes, rows, lists
  <2>2. cache' \in CachedTiers
    <3>1. [there |-> FALSE, tier |-> 0, age |-> 0] \in CachedTiers
      BY DEF CachedTiers
    <3>2. cache.age + 1 \in Nat /\ cache \in CachedTiers
      BY DEF Types, VipTypes, CachedTiers
    <3>3. [cache EXCEPT !.age = @ + 1] \in CachedTiers
      BY <3>2 DEF CachedTiers
    <3> QED BY <1>5, <3>1, <3>3 DEF Tick
  <2>3. recent' \in [0..Ttl -> Tiers \cup {0}]
    BY <1>5 DEF Tick, Types, VipTypes
  <2>4. tiers' = tiers /\ tier' = tier
    BY <1>5 DEF Tick
  <2> QED BY <2>1, <2>2, <2>3, <2>4 DEF Types, VipTypes, ArgsOK
<1>6. CASE UNCHANGED vars
  BY <1>6 DEF vars, Types, RowTypes, ListTypes, VipTypes, ArgsOK
<1> QED BY <1>2, <1>3, <1>4, <1>5, <1>6 DEF Next

-----------------------------------------------------------------------------
(* How requests move *)

\* A request that does not start to change something ends, reads, or goes on as it is.
LEMMA Moves ==
    ASSUME Types, NEW p \in Procs, Request(p), ~StartSave(p), ~StartAdd(p), ~StartAccept(p)
    PROVE  \E r \in Handles :
              /\ req' = [req EXCEPT ![p] = r]
              /\ \/ r.op \in {"idle", "visit", "read"}
                 \/ r = [req[p] EXCEPT !.step = r.step]
<1>1. Idle \in Handles /\ Idle.op = "idle"
  BY CreatorConstantsOK DEF Idle, Handles, Defaults
<1>2. CASE Visit(p)
  <2>1. [Idle EXCEPT !.op = "visit", !.step = "config"] \in Handles
    BY <1>1 DEF Handles, Idle
  <2> QED BY <1>2, <2>1 DEF Visit, Idle
<1>3. CASE StartRead(p)
  <2>1. PICK plans \in BOOLEAN :
          req' = [req EXCEPT ![p] = [Idle EXCEPT !.op = "read", !.step = "ask", !.plans = plans]]
    BY <1>3 DEF StartRead, Begin
  <2>2. [Idle EXCEPT !.op = "read", !.step = "ask", !.plans = plans] \in Handles
    BY <1>1 DEF Handles, Idle
  <2> QED BY <2>1, <2>2 DEF Idle
<1>4. CASE Done(p)
  BY <1>1, <1>4 DEF Done
<1>5. ASSUME NEW s \in {"write", "lock", "count", "insert"}, Step(p, s)
      PROVE  \E r \in Handles : req' = [req EXCEPT ![p] = r] /\ r = [req[p] EXCEPT !.step = r.step]
  <2> DEFINE r == [req[p] EXCEPT !.step = s]
  <2>1. r \in Handles /\ r.step = s
    BY DEF Types, Handles
  <2>2. req' = [req EXCEPT ![p] = r]
    BY <1>5 DEF Step, Types
  <2> QED BY <2>1, <2>2
<1>6. \/ Visit(p) \/ StartRead(p) \/ Done(p)
      \/ \E s \in {"write", "lock", "count", "insert"} : Step(p, s)
  BY DEF Request, FirstConfig, LockRow, Save, Take, LockCreator, Count, Insert, Read, ReadUnanswered
<1> QED BY <1>2, <1>3, <1>4, <1>5, <1>6

-----------------------------------------------------------------------------
(* Settings *)

\* What does not save leaves the settings as they are.
LEMMA SavesFrame ==
    ASSUME Types, SavesOK, NEW p \in Procs, NEW r,
           \A d \in Docs : row'[d].rev = row[d].rev /\ row'[d].set = row[d].set,
           saved' = saved, req' = [req EXCEPT ![p] = r],
           r.op # "save" \/ r = [req[p] EXCEPT !.step = r.step]
    PROVE  SavesOK'
<1>1. SavesStay'
  BY DEF SavesOK, SavesStay
<1>2. ASSUME NEW q \in Procs PROVE FormOK(q)'
  <2>1. CASE q # p
    <3>1. req'[q] = req[q] /\ FormOK(q) /\ ArgsOK(q)
      BY <2>1 DEF Types, SavesOK
    <3> QED BY <3>1 DEF FormOK, ArgsOK
  <2>2. CASE q = p /\ r.op # "save"
    BY <2>2 DEF FormOK, Types
  <2>3. CASE q = p /\ r.op = "save"
    <3>1. /\ req'[q] = r /\ FormOK(q) /\ ArgsOK(q) /\ req[q] \in Handles
          /\ r = [req[q] EXCEPT !.step = r.step]
      BY <2>3 DEF Types, SavesOK
    <3>2. /\ r.op = req[q].op /\ r.arg = req[q].arg /\ r.field = req[q].field
          /\ r.sent = req[q].sent /\ r.rev = req[q].rev /\ r.form = req[q].form
      BY <3>1 DEF Handles
    <3> QED BY <3>1, <3>2 DEF FormOK, ArgsOK
  <2> QED BY <2>1, <2>2, <2>3
<1> QED BY <1>1, <1>2 DEF SavesOK

LEMMA SavesStep == Types /\ SavesOK /\ [Next]_vars => SavesOK'
<1> SUFFICES ASSUME Types, SavesOK, [Next]_vars PROVE SavesOK'
    OBVIOUS
<1>1. ASSUME NEW p \in Procs, Save(p)
      PROVE  SavesOK'
  <2> DEFINE d == req[p].arg
             f == req[p].field
  <2>1. /\ d \in Docs /\ f \in Fields /\ req[p] \in Handles /\ req[p].op = "save"
        /\ row[d] \in DocRows /\ saved[d] \in [Fields -> BOOLEAN] /\ row[d].set = saved[d]
        /\ FormOK(p)
    BY <1>1 DEF Save, At, Types, ArgsOK, RowTypes, SavesOK, SavesStay
  <2>2. \A q \in Procs : req'[q] = IF q = p THEN Idle ELSE req[q]
    BY <1>1 DEF Save, Done, Types
  <2>3. CASE Conflict(p)
    <3>1. row' = row /\ saved' = saved
      BY <1>1, <2>3 DEF Save
    <3>2. req' = [req EXCEPT ![p] = Idle] /\ Idle.op = "idle"
      BY <1>1 DEF Save, Done, Idle
    <3> QED BY <3>1, <3>2, SavesFrame
  <2>4. CASE ~Conflict(p)
    <3> DEFINE set  == Over(row[d].set, req[p].sent, req[p].form)
               kept == Over(saved[d], Meant(p), req[p].form)
               r    == [row[d] EXCEPT !.rev = @ + 1, !.set = set]
    <3>1. /\ \A e \in Docs \ {d} : row'[e] = row[e] /\ saved'[e] = saved[e]
          /\ row'[d].rev = row[d].rev + 1
          /\ row'[d].set = set /\ saved'[d] = kept
      <4>1. row' = [row EXCEPT ![d] = r] /\ saved' = [saved EXCEPT ![d] = kept]
        BY <1>1, <2>1, <2>4 DEF Save, Types, RowTypes
      <4> HIDE DEF set, kept
      <4>2. r.rev = row[d].rev + 1 /\ r.set = set
        BY <2>1 DEF DocRows
      <4> HIDE DEF r
      <4> QED BY <2>1, <4>1, <4>2 DEF Types, RowTypes
    <3>2. set = kept
      <4>1. req[p].rev # 0 => \A g \in Fields \ {f} : req[p].form[g] = row[d].set[g]
        BY <2>1, <2>4 DEF Conflict, FormOK
      <4>2. f \in req[p].sent
        BY <2>1 DEF Types, ArgsOK
      <4> QED BY <2>1, <4>1, <4>2 DEF Over, Meant
    <3> HIDE DEF set, kept
    <3>3. SavesStay'
      BY <2>1, <3>1, <3>2 DEF SavesOK, SavesStay
    <3>4. ASSUME NEW q \in Procs PROVE FormOK(q)'
      <4>1. CASE q = p
        BY <2>2, <4>1 DEF FormOK, Idle
      <4>2. CASE q # p
        <5>1. req'[q] = req[q] /\ FormOK(q) /\ ArgsOK(q) /\ req[q] \in Handles
          BY <2>2, <4>2 DEF Types, SavesOK
        <5>2. \A e \in Docs : row[e].rev \in Nat
          BY DEF Types, RowTypes, DocRows
        <5>3. CASE req[q].op = "save" /\ req[q].arg = d
          <6>1. req[q].rev <= row[d].rev /\ req[q].rev \in Nat /\ row[d].rev \in Nat
            BY <2>1, <5>1, <5>2, <5>3 DEF FormOK, Handles
          <6>2. req[q].rev <= row'[d].rev /\ req[q].rev # row'[d].rev
            BY <3>1, <6>1
          <6> QED BY <5>1, <5>3, <6>2 DEF FormOK
        <5>4. CASE req[q].op = "save" /\ req[q].arg # d
          BY <3>1, <5>1, <5>4 DEF FormOK, ArgsOK
        <5>5. CASE req[q].op # "save"
          BY <5>1, <5>5 DEF FormOK
        <5> QED BY <5>3, <5>4, <5>5
      <4> QED BY <4>1, <4>2
    <3> QED BY <3>3, <3>4 DEF SavesOK
  <2> QED BY <2>3, <2>4
<1>2. ASSUME NEW p \in Procs, StartSave(p)
      PROVE  SavesOK'
  <2>1. PICK r \in Handles :
           /\ req' = [req EXCEPT ![p] = r] /\ r.arg \in Docs /\ r.field \in Fields
           /\ r.rev \in {0, row[r.arg].rev}
           /\ r.form = [row[r.arg].set EXCEPT ![r.field] = ~@]
    BY <1>2, StartedSave
  <2>2. row' = row /\ saved' = saved
    BY <1>2 DEF StartSave, rows
  <2>3. ASSUME NEW q \in Procs PROVE FormOK(q)'
    <3>1. CASE q = p
      <4>1. row[r.arg].rev \in Nat /\ row[r.arg].set \in [Fields -> BOOLEAN]
        BY <2>1 DEF Types, RowTypes, DocRows
      <4>2. req'[q] = r
        BY <2>1, <3>1 DEF Types
      <4>3. r.rev <= row[r.arg].rev
        BY <2>1, <4>1
      <4>4. \A g \in Fields \ {r.field} : r.form[g] = row[r.arg].set[g]
        BY <2>1, <4>1
      <4> QED BY <2>2, <4>2, <4>3, <4>4 DEF FormOK
    <3>2. CASE q # p
      <4>1. req'[q] = req[q] /\ FormOK(q)
        BY <2>1, <3>2 DEF Types, SavesOK
      <4> QED BY <2>2, <4>1 DEF FormOK
    <3> QED BY <3>1, <3>2
  <2> QED BY <2>2, <2>3 DEF SavesOK, SavesStay
<1>3. ASSUME NEW p \in Procs, Request(p), ~Save(p), ~StartSave(p)
      PROVE  SavesOK'
  <2>1. /\ saved' = saved
        /\ \A d \in Docs : row'[d].rev = row[d].rev /\ row'[d].set = row[d].set
    <3>1. CASE Visit(p) \/ FirstConfig(p)
      <4>1. PICK e \in Docs : row' = [row EXCEPT ![e] = [row[e] EXCEPT !.there = TRUE]]
        <5>1. CASE Visit(p)
          <6>1. row' = [row EXCEPT !["profile"] = [row["profile"] EXCEPT !.there = TRUE]]
            BY <5>1 DEF Visit
          <6> QED BY <6>1 DEF Docs
        <5>2. CASE FirstConfig(p)
          <6>1. row' = [row EXCEPT !["config"] = [row["config"] EXCEPT !.there = TRUE]]
            BY <5>2 DEF FirstConfig
          <6> QED BY <6>1 DEF Docs
        <5> QED BY <3>1, <5>1, <5>2
      <4>2. \A d \in Docs : row[d] \in DocRows
        BY DEF Types, RowTypes
      <4>3. \A d \in Docs : row'[d] = IF d = e THEN [row[e] EXCEPT !.there = TRUE] ELSE row[d]
        BY <4>1 DEF Types, RowTypes
      <4>4. saved' = saved
        BY <3>1 DEF Visit, FirstConfig
      <4> QED BY <4>2, <4>3, <4>4 DEF DocRows
    <3>2. CASE ~Visit(p) /\ ~FirstConfig(p)
      BY <1>3, <3>2 DEF Request, LockRow, StartAdd, StartAccept, Take, LockCreator, Count, Insert,
                        StartRead, Read, ReadUnanswered, rows
    <3> QED BY <3>1, <3>2
  <2>2. CASE StartAdd(p)
    <3>1. PICK k \in Kinds, x \in People \cup Invites \cup {Nobody} :
            req' = [req EXCEPT ![p] = [Idle EXCEPT !.op = k, !.step = "lock", !.arg = x]]
      BY <2>2 DEF StartAdd, Begin
    <3>2. [Idle EXCEPT !.op = k, !.step = "lock", !.arg = x].op # "save"
      BY DEF Idle, Kinds
    <3> QED BY <2>1, <3>1, <3>2, SavesFrame
  <2>3. CASE StartAccept(p)
    <3>1. PICK i \in OpenInvites, x \in People :
            req' = [req EXCEPT ![p] = [Idle EXCEPT !.op = "accept", !.step = "take", !.arg = i, !.field = x]]
      BY <2>3 DEF StartAccept, Begin
    <3>2. [Idle EXCEPT !.op = "accept", !.step = "take", !.arg = i, !.field = x].op # "save"
      BY DEF Idle
    <3> QED BY <2>1, <3>1, <3>2, SavesFrame
  <2>4. CASE ~StartAdd(p) /\ ~StartAccept(p)
    <3>1. PICK r \in Handles :
            /\ req' = [req EXCEPT ![p] = r]
            /\ r.op \in {"idle", "visit", "read"} \/ r = [req[p] EXCEPT !.step = r.step]
      BY <1>3, <2>4, Moves
    <3> QED BY <2>1, <3>1, SavesFrame
  <2> QED BY <2>2, <2>3, <2>4
<1>4. CASE \/ Drop \/ RemoveModerator \/ EndInvite \/ CreatePost \/ HidePost
           \/ Membership \/ Invalidate \/ Tick \/ UNCHANGED vars
  <2>1. row' = row /\ saved' = saved /\ req' = req
    BY <1>4 DEF Drop, RemoveModerator, EndInvite, CreatePost, HidePost, Membership, Invalidate, Tick,
                vars, rows
  <2> QED BY <2>1 DEF SavesOK, SavesStay, FormOK
<1> QED BY <1>1, <1>2, <1>3, <1>4 DEF Next

-----------------------------------------------------------------------------
(* Invitations *)

\* What leaves the invitations and the locks alone, and starts no request about them.
LEMMA InvitesFrame ==
    ASSUME Types, InvitesOK, NEW p \in Procs, NEW r,
           invite' = invite, joined' = joined, req' = [req EXCEPT ![p] = r],
           \A l \in Invites, q \in Procs : lock[l] = q /\ req'[q].op = "accept" => lock'[l] = q,
           \/ r.op \notin {"invite", "accept"}
           \/ r.op = "accept" /\ r.step = "take"
           \/ r.op = req[p].op /\ r.arg = req[p].arg
              /\ (r.step \in {"lock", "count", "insert"} => req[p].step \in {"lock", "count", "insert"})
    PROVE  InvitesOK'
<1>1. InviteOnce'
  BY DEF InvitesOK, InviteOnce
<1>2. \A q \in Procs : req'[q] = IF q = p THEN r ELSE req[q]
  BY DEF Types
<1>3. ASSUME NEW q \in Procs PROVE FreshOK(q)'
  BY <1>2 DEF FreshOK, InvitesOK
<1>4. ASSUME NEW q \in Procs PROVE TakenOK(q)'
  <2>1. TakenOK(q) /\ ArgsOK(q)
    BY DEF InvitesOK, Types
  <2> QED BY <1>2, <2>1 DEF TakenOK, ArgsOK, Takeable
<1> QED BY <1>1, <1>3, <1>4 DEF InvitesOK

LEMMA InvitesStep == Types /\ InvitesOK /\ [Next]_vars => InvitesOK'
<1> SUFFICES ASSUME Types, InvitesOK, [Next]_vars PROVE InvitesOK'
    OBVIOUS
<1> USE CreatorConstantsOK
<1>0. /\ \A q \in Procs : q # Free
      /\ \A q \in Procs : FreshOK(q) /\ TakenOK(q) /\ ArgsOK(q)
      /\ InviteOnce
      /\ Idle.op = "idle"
  BY DEF InvitesOK, Types, Idle
<1>1. ASSUME NEW p \in Procs, Insert(p)
      PROVE  InvitesOK'
  <2> DEFINE i == req[p].arg
  <2>1. \A q \in Procs : req'[q] = IF q = p THEN Idle ELSE req[q]
    BY <1>1 DEF Insert, Done, Types
  <2>2. \A l \in Docs \cup Invites : lock[l] # p => lock'[l] = lock[l]
    BY <1>1, UnlockedFacts DEF Insert, Types
  <2>3. CASE req[p].op = "accept"
    <3>1. /\ i \in Invites /\ lock[i] = p /\ Takeable(i) /\ joined[i] = {}
          /\ Person(p) = req[p].field
      BY <1>0, <1>1, <2>3 DEF Insert, TakenOK, ArgsOK, Takeable, InviteOnce, Person
    <3>2. /\ invite' = [invite EXCEPT ![i] = "used"]
          /\ joined' = [joined EXCEPT ![i] = @ \cup {Person(p)}]
      BY <1>1, <2>3 DEF Insert, Kind
    <3>3. joined'[i] = {Person(p)} /\ \A j \in Invites \ {i} : joined'[j] = joined[j] /\ invite'[j] = invite[j]
      BY <3>1, <3>2 DEF Types, ListTypes
    <3>4. invite'[i] = "used"
      BY <3>1, <3>2 DEF Types, ListTypes
    <3>5. Cardinality({Person(p)}) = 1
      BY FS_Singleton
    <3>6. InviteOnce'
      BY <1>0, <3>3, <3>4, <3>5 DEF InviteOnce
    <3>7. ASSUME NEW q \in Procs PROVE FreshOK(q)' /\ TakenOK(q)'
      <4>1. CASE q = p
        BY <2>1, <4>1 DEF FreshOK, TakenOK, Idle
      <4>2. CASE q # p /\ req[q].op = "invite"
        <5>1. req[q].arg # i /\ req[q].arg \in Invites
          BY <1>0, <3>1, <4>2 DEF FreshOK, ArgsOK, Takeable
        <5> QED BY <1>0, <2>1, <3>3, <4>2, <5>1 DEF FreshOK, TakenOK, Idle
      <4>3. CASE q # p /\ req[q].op = "accept" /\ req[q].step \in {"lock", "count", "insert"}
        <5>1. req[q].arg # i /\ req[q].arg \in Invites /\ lock'[req[q].arg] = q
          BY <1>0, <2>2, <3>1, <4>3 DEF TakenOK, ArgsOK
        <5> QED BY <1>0, <2>1, <3>3, <4>3, <5>1 DEF FreshOK, TakenOK, Takeable
      <4>4. CASE q # p /\ req[q].op # "invite"
                 /\ ~(req[q].op = "accept" /\ req[q].step \in {"lock", "count", "insert"})
        BY <2>1, <4>4 DEF FreshOK, TakenOK
      <4> QED BY <4>1, <4>2, <4>3, <4>4
    <3> QED BY <3>6, <3>7 DEF InvitesOK
  <2>4. CASE req[p].op = "invite"
    <3>1. i \in Invites /\ invite[i] = "none"
      BY <1>0, <2>4 DEF FreshOK, ArgsOK
    <3>2. invite' = [invite EXCEPT ![i] = "open"] /\ joined' = joined
      BY <1>1, <2>4 DEF Insert, Kind
    <3>3. invite'[i] = "open" /\ \A j \in Invites \ {i} : invite'[j] = invite[j]
      BY <3>1, <3>2 DEF Types, ListTypes
    <3>4. InviteOnce'
      BY <1>0, <3>1, <3>2, <3>3 DEF InviteOnce
    <3>5. ASSUME NEW q \in Procs PROVE FreshOK(q)' /\ TakenOK(q)'
      <4>1. CASE q = p
        BY <2>1, <4>1 DEF FreshOK, TakenOK, Idle
      <4>2. CASE q # p /\ req[q].op = "invite"
        <5>1. req[q].arg # i /\ req[q].arg \in Invites
          BY <1>0, <2>4, <4>2 DEF FreshOK, ArgsOK
        <5> QED BY <1>0, <2>1, <3>3, <4>2, <5>1 DEF FreshOK, TakenOK, Idle
      <4>3. CASE q # p /\ req[q].op = "accept" /\ req[q].step \in {"lock", "count", "insert"}
        <5>1. req[q].arg # i /\ req[q].arg \in Invites /\ lock'[req[q].arg] = q
          BY <1>0, <2>2, <3>1, <4>3 DEF TakenOK, ArgsOK, Takeable
        <5> QED BY <1>0, <2>1, <3>3, <4>3, <5>1 DEF FreshOK, TakenOK, Takeable
      <4>4. CASE q # p /\ req[q].op # "invite"
                 /\ ~(req[q].op = "accept" /\ req[q].step \in {"lock", "count", "insert"})
        BY <2>1, <4>4 DEF FreshOK, TakenOK
      <4> QED BY <4>1, <4>2, <4>3, <4>4
    <3> QED BY <3>4, <3>5 DEF InvitesOK
  <2>5. CASE req[p].op \notin {"accept", "invite"}
    <3>1. invite' = invite /\ joined' = joined
      BY <1>1, <2>5 DEF Insert, Kind
    <3>2. req' = [req EXCEPT ![p] = Idle] /\ Idle.op = "idle"
      BY <1>1 DEF Insert, Done, Idle
    <3>3. \A l \in Invites, q \in Procs : lock[l] = q /\ req'[q].op = "accept" => lock'[l] = q
      BY <2>1, <2>2 DEF Idle
    <3> QED BY <3>1, <3>2, <3>3, InvitesFrame
  <2> QED BY <2>3, <2>4, <2>5
<1>2. ASSUME NEW p \in Procs, StartAdd(p)
      PROVE  InvitesOK'
  <2>1. PICK k \in Kinds, x \in People \cup Invites \cup {Nobody} :
          /\ k = "invite" => x \in Invites /\ invite[x] = "none" /\ \A q \in Procs : req[q].arg # x
          /\ req' = [req EXCEPT ![p] = [Idle EXCEPT !.op = k, !.step = "lock", !.arg = x]]
    BY <1>2 DEF StartAdd, Begin
  <2>2. invite' = invite /\ joined' = joined /\ lock' = lock
    BY <1>2 DEF StartAdd, rows, lists
  <2>3. \A q \in Procs : q # p => req'[q] = req[q]
    BY <2>1 DEF Types
  <2>4. req'[p].op = k /\ req'[p].arg = x
    BY <2>1 DEF Types, Idle
  <2>5. k # "accept"
    BY DEF Kinds
  <2>6. ASSUME NEW q \in Procs PROVE FreshOK(q)' /\ TakenOK(q)'
    BY <1>0, <2>1, <2>2, <2>3, <2>4, <2>5 DEF FreshOK, TakenOK, Takeable
  <2> QED BY <1>0, <2>2, <2>6 DEF InvitesOK, InviteOnce
<1>3. ASSUME NEW p \in Procs, Take(p)
      PROVE  InvitesOK'
  <2> DEFINE i == req[p].arg
  <2>1. i \in Invites /\ req[p].op = "accept" /\ lock[i] = Free /\ invite' = invite /\ joined' = joined
    BY <1>0, <1>3 DEF Take, At, ArgsOK, lists
  <2>2. CASE Takeable(i)
    <3>1. /\ lock' = [lock EXCEPT ![i] = p]
          /\ req' = [req EXCEPT ![p].step = "lock"]
      BY <1>3, <2>2 DEF Take, Step
    <3>2. /\ req'[p].op = "accept" /\ req'[p].arg = i
          /\ \A q \in Procs : q # p => req'[q] = req[q]
      BY <2>1, <3>1 DEF Types, Handles
    <3>3. /\ lock'[i] = p
          /\ \A l \in Invites : l # i => lock'[l] = lock[l]
      BY <2>1, <3>1 DEF Types, ListTypes
    <3>4. ASSUME NEW q \in Procs PROVE FreshOK(q)' /\ TakenOK(q)'
      <4>1. CASE q = p
        BY <2>1, <2>2, <3>2, <3>3, <4>1 DEF FreshOK, TakenOK, Takeable
      <4>2. CASE q # p
        <5>1. FreshOK(q)'
          BY <1>0, <2>1, <3>2, <4>2 DEF FreshOK
        <5>2. TakenOK(q)'
          BY <1>0, <2>1, <3>2, <3>3, <4>2 DEF TakenOK, ArgsOK, Takeable
        <5> QED BY <5>1, <5>2
      <4> QED BY <4>1, <4>2
    <3> QED BY <1>0, <2>1, <3>4 DEF InvitesOK, InviteOnce
  <2>3. CASE ~Takeable(i)
    <3>1. req' = [req EXCEPT ![p] = Idle] /\ Idle.op = "idle" /\ lock' = lock
      BY <1>3, <2>3 DEF Take, Done, Idle
    <3> QED BY <2>1, <3>1, InvitesFrame
  <2> QED BY <2>2, <2>3
<1>4. ASSUME NEW p \in Procs, StartAccept(p) \/ StartSave(p)
      PROVE  InvitesOK'
  <2>1. invite' = invite /\ joined' = joined /\ lock' = lock
    BY <1>4 DEF StartAccept, StartSave, rows, lists
  <2>2. PICK r : /\ req' = [req EXCEPT ![p] = r]
                 /\ r.op = "save" \/ (r.op = "accept" /\ r.step = "take")
    <3>1. CASE StartAccept(p)
      <4>1. PICK i \in OpenInvites, x \in People :
              req' = [req EXCEPT ![p] = [Idle EXCEPT !.op = "accept", !.step = "take", !.arg = i, !.field = x]]
        BY <3>1 DEF StartAccept, Begin
      <4> DEFINE r == [Idle EXCEPT !.op = "accept", !.step = "take", !.arg = i, !.field = x]
      <4>2. r.op = "accept" /\ r.step = "take" /\ req' = [req EXCEPT ![p] = r]
        BY <4>1 DEF Idle
      <4> HIDE DEF r
      <4> QED BY <4>2
    <3>2. CASE StartSave(p)
      <4>1. PICK r \in Handles : req' = [req EXCEPT ![p] = r] /\ r.op = "save"
        BY <3>2, StartedSave
      <4> QED BY <4>1
    <3> QED BY <1>4, <3>1, <3>2
  <2> QED BY <2>1, <2>2, InvitesFrame
<1>5. ASSUME NEW p \in Procs, LockCreator(p) \/ Count(p) \/ LockRow(p) \/ Save(p)
      PROVE  InvitesOK'
  <2>1. invite' = invite /\ joined' = joined
    BY <1>5 DEF LockCreator, Count, LockRow, Save, lists
  <2>2. PICK r : /\ req' = [req EXCEPT ![p] = r]
                 /\ \/ r.op = "idle"
                    \/ /\ r.op = req[p].op /\ r.arg = req[p].arg
                       /\ \/ r.op = "save"
                          \/ req[p].step \in {"lock", "count"}
    <3>1. CASE Save(p)
      BY <1>0, <3>1 DEF Save, Done
    <3>2. CASE Count(p)
      <4>1. CASE Done(p)
        BY <1>0, <4>1 DEF Done
      <4>2. CASE Step(p, "insert")
        <5>1. req' = [req EXCEPT ![p] = [req[p] EXCEPT !.step = "insert"]]
          BY <4>2 DEF Step
        <5>2. /\ [req[p] EXCEPT !.step = "insert"].op = req[p].op
              /\ [req[p] EXCEPT !.step = "insert"].arg = req[p].arg
          BY DEF Types, Handles
        <5> QED BY <3>2, <5>1, <5>2 DEF Count
      <4> QED BY <3>2, <4>1, <4>2 DEF Count
    <3>3. CASE LockCreator(p)
      <4>1. req' = [req EXCEPT ![p] = [req[p] EXCEPT !.step = "count"]]
        BY <3>3 DEF LockCreator, Step
      <4>2. /\ [req[p] EXCEPT !.step = "count"].op = req[p].op
            /\ [req[p] EXCEPT !.step = "count"].arg = req[p].arg
        BY DEF Types, Handles
      <4> QED BY <3>3, <4>1, <4>2 DEF LockCreator
    <3>4. CASE LockRow(p)
      <4>1. req' = [req EXCEPT ![p] = [req[p] EXCEPT !.step = "write"]]
        BY <3>4 DEF LockRow, Step
      <4>2. /\ [req[p] EXCEPT !.step = "write"].op = req[p].op
            /\ [req[p] EXCEPT !.step = "write"].arg = req[p].arg
        BY DEF Types, Handles
      <4> QED BY <3>4, <4>1, <4>2 DEF LockRow, At
    <3> QED BY <1>5, <3>1, <3>2, <3>3, <3>4
  <2>3. \A q \in Procs : q # p => req'[q] = req[q]
    BY <2>2 DEF Types
  <2>4. req'[p] = r
    BY <2>2 DEF Types
  <2>5. \A l \in Invites, q \in Procs : lock[l] = q /\ req'[q].op = "accept" => lock'[l] = q
    <3>1. CASE LockCreator(p) \/ LockRow(p)
      BY <1>0, <3>1 DEF LockCreator, CreatorFree, LockRow, At, Types, ListTypes, ArgsOK
    <3>2. CASE lock' = Unlocked(p) /\ req' = [req EXCEPT ![p] = Idle]
      BY <2>3, <3>2, UnlockedFacts DEF Types, Idle
    <3>3. CASE lock' = lock
      BY <3>3
    <3> QED BY <1>5, <3>1, <3>2, <3>3 DEF Count, Save, Done
  <2> QED BY <2>1, <2>2, <2>5, InvitesFrame
<1>6. ASSUME NEW p \in Procs, Visit(p) \/ FirstConfig(p) \/ StartRead(p) \/ Read(p) \/ ReadUnanswered(p)
      PROVE  InvitesOK'
  <2>1. invite' = invite /\ joined' = joined /\ lock' = lock
    BY <1>6 DEF Visit, FirstConfig, StartRead, Read, ReadUnanswered, rows, lists
  <2>2. PICK r : req' = [req EXCEPT ![p] = r] /\ r.op \in {"idle", "visit", "read"}
    <3>1. CASE Visit(p)
      <4> DEFINE r == [Idle EXCEPT !.op = "visit", !.step = "config"]
      <4>1. r.op = "visit" /\ req' = [req EXCEPT ![p] = r]
        BY <3>1 DEF Visit, Idle
      <4> HIDE DEF r
      <4> QED BY <4>1
    <3>2. CASE StartRead(p)
      <4>1. PICK plans \in BOOLEAN :
              req' = [req EXCEPT ![p] = [Idle EXCEPT !.op = "read", !.step = "ask", !.plans = plans]]
        BY <3>2 DEF StartRead, Begin
      <4> DEFINE r == [Idle EXCEPT !.op = "read", !.step = "ask", !.plans = plans]
      <4>2. r.op = "read" /\ req' = [req EXCEPT ![p] = r]
        BY <4>1 DEF Idle
      <4> HIDE DEF r
      <4> QED BY <4>2
    <3>3. CASE Done(p)
      BY <1>0, <3>3 DEF Done
    <3> QED BY <1>6, <3>1, <3>2, <3>3 DEF FirstConfig, Read, ReadUnanswered
  <2> QED BY <2>1, <2>2, InvitesFrame
<1>7. CASE EndInvite
  <2>1. PICK i \in Invites, how \in {"revoked", "expired"} :
          /\ IF how = "revoked" THEN invite[i] \in {"open", "expired"} /\ lock[i] = Free
             ELSE invite[i] = "open"
          /\ invite' = [invite EXCEPT ![i] = how]
    BY <1>7 DEF EndInvite
  <2>2. joined' = joined /\ req' = req /\ lock' = lock
    BY <1>7 DEF EndInvite, rows
  <2>3. invite'[i] = how /\ \A j \in Invites \ {i} : invite'[j] = invite[j]
    BY <2>1 DEF Types, ListTypes
  <2>4. InviteOnce'
    BY <1>0, <2>1, <2>2, <2>3 DEF InviteOnce
  <2>5. ASSUME NEW q \in Procs PROVE FreshOK(q)' /\ TakenOK(q)'
    BY <1>0, <2>1, <2>2, <2>3 DEF FreshOK, TakenOK, Takeable, ArgsOK
  <2> QED BY <2>4, <2>5 DEF InvitesOK
<1>8. CASE \/ Drop \/ RemoveModerator \/ CreatePost \/ HidePost \/ Membership \/ Invalidate \/ Tick
           \/ UNCHANGED vars
  <2>1. invite' = invite /\ joined' = joined /\ req' = req /\ lock' = lock
    BY <1>8 DEF Drop, RemoveModerator, CreatePost, HidePost, Membership, Invalidate, Tick, vars, rows, lists
  <2> QED BY <2>1 DEF InvitesOK, InviteOnce, FreshOK, TakenOK, Takeable
<1> QED BY <1>1, <1>2, <1>3, <1>4, <1>5, <1>6, <1>7, <1>8 DEF Next, Request

-----------------------------------------------------------------------------
(* Limits *)

\* What is counted, kind by kind.
LEMMA CountedIs ==
    /\ Counted("moderator") = Cardinality(mods)
    /\ Counted("invite") = Cardinality(OpenInvites)
    /\ Counted("token") = count["token"] /\ Counted("sound") = count["sound"]
BY DEF Counted

\* The same of the next state.
LEMMA CountedNext ==
    /\ Counted("moderator")' = Cardinality(mods')
    /\ Counted("invite")' = Cardinality(OpenInvites')
    /\ Counted("token")' = count'["token"] /\ Counted("sound")' = count'["sound"]
BY DEF Counted

\* A step after which nothing is more, and which moves a request on only with room for it.
LEMMA LimitsFrame ==
    ASSUME Types, Types', LimitsOK,
           mods' \subseteq mods, OpenInvites' \subseteq OpenInvites,
           \A k \in {"token", "sound"} : count'[k] <= count[k],
           \A q \in Procs :
              \/ /\ req'[q] = req[q]
                 /\ lock["profile"] = q => lock'["profile"] = q
              \/ RoomOK(q)'
    PROVE  LimitsOK'
<1> USE CreatorConstantsOK
<1>1. /\ IsFiniteSet(mods') /\ Cardinality(mods') <= Cardinality(mods)
      /\ IsFiniteSet(OpenInvites') /\ Cardinality(OpenInvites') <= Cardinality(OpenInvites)
  BY FS_Subset DEF LimitsOK
<1>2. /\ Cardinality(mods) \in Nat /\ Cardinality(OpenInvites) \in Nat
      /\ Cardinality(mods') \in Nat /\ Cardinality(OpenInvites') \in Nat
      /\ count \in [{"token", "sound"} -> Nat] /\ count' \in [{"token", "sound"} -> Nat]
  BY <1>1, FS_CardinalityType DEF LimitsOK, Types, ListTypes
<1>3. \A k \in Kinds : Counted(k)' <= Counted(k) /\ Counted(k) \in Nat /\ Counted(k)' \in Nat
  BY <1>1, <1>2, CountedIs, CountedNext DEF Kinds
<1>4. Limits'
  BY <1>3 DEF LimitsOK, Limits
<1>5. ASSUME NEW q \in Procs PROVE RoomOK(q)'
  <2>1. CASE RoomOK(q)'
    BY <2>1
  <2>2. CASE /\ req'[q] = req[q]
             /\ lock["profile"] = q => lock'["profile"] = q
    <3>1. RoomOK(q)
      BY DEF LimitsOK
    <3>2. Adds(q)' = Adds(q) /\ Kind(q)' = Kind(q) /\ Person(q)' = Person(q)
      BY <2>2 DEF Adds, Kind, Person
    <3>3. Adds(q) => Kind(q) \in Kinds
      BY DEF Adds, Kind, Kinds
    <3>4. /\ IsFiniteSet(mods \cup {Person(q)})
          /\ mods' \cup {Person(q)} \subseteq mods \cup {Person(q)}
      BY FS_AddElement DEF LimitsOK
    <3>5. /\ Cardinality(mods' \cup {Person(q)}) <= Cardinality(mods \cup {Person(q)})
          /\ Cardinality(mods' \cup {Person(q)}) \in Nat /\ Cardinality(mods \cup {Person(q)}) \in Nat
      BY <3>4, FS_Subset, FS_CardinalityType
    <3>6. ASSUME Adds(q) PROVE req'[q].step \in {"count", "insert"} => lock'["profile"] = q
      BY <2>2, <3>1, <3>6 DEF RoomOK
    <3>7. ASSUME Adds(q), req'[q].step = "insert", Kind(q) = "moderator"
          PROVE  Cardinality(mods' \cup {Person(q)}) <= MaxOf["moderator"]
      <4>1. Cardinality(mods \cup {Person(q)}) <= MaxOf["moderator"] /\ MaxOf["moderator"] \in Nat
        BY <2>2, <3>1, <3>7 DEF RoomOK, Kinds
      <4> QED BY <3>5, <4>1
    <3>8. ASSUME Adds(q), req'[q].step = "insert", Kind(q) # "moderator"
          PROVE  Counted(Kind(q))' < MaxOf[Kind(q)]
      <4> DEFINE k == Kind(q)
      <4>1. Counted(k) < MaxOf[k]
        BY <2>2, <3>1, <3>8 DEF RoomOK
      <4>2. k \in Kinds /\ k = Kind(q)' /\ MaxOf[k] \in Nat
        BY <3>2, <3>3, <3>8
      <4>3. Counted(k)' <= Counted(k) /\ Counted(k) \in Nat /\ Counted(k)' \in Nat
        BY <1>3, <4>2
      <4> HIDE DEF k
      <4>4. Counted(k)' < MaxOf[k]
        BY <4>1, <4>2, <4>3
      <4> QED BY <4>4 DEF k
    <3>9. ASSUME Adds(q), req'[q].step = "insert"
          PROVE  IF Kind(q)' = "moderator" THEN Cardinality(mods' \cup {Person(q)'}) <= MaxOf["moderator"]
                 ELSE Counted(Kind(q))' < MaxOf[Kind(q)']
      <4>1. CASE Kind(q) = "moderator"
        BY <3>2, <3>7, <3>9, <4>1
      <4>2. CASE Kind(q) # "moderator"
        <5>1. Counted(Kind(q))' < MaxOf[Kind(q)']
          BY <3>2, <3>8, <3>9, <4>2
        <5> QED BY <3>2, <4>2, <5>1
      <4> QED BY <4>1, <4>2
    <3> QED BY <3>2, <3>6, <3>9 DEF RoomOK
  <2> QED BY <2>1, <2>2
<1> QED BY <1>1, <1>4, <1>5 DEF LimitsOK

\* Starting a request is a change of the request only, and it has counted nothing yet.
LEMMA Starts ==
    ASSUME Types, NEW p \in Procs
    PROVE  StartSave(p) \/ StartAdd(p) \/ StartAccept(p) \/ StartRead(p) =>
              /\ UNCHANGED <<count, mods, invite, joined, lock>>
              /\ \E r : req' = [req EXCEPT ![p] = r] /\ r.step \notin {"count", "insert"}
<1> DEFINE Moved == /\ UNCHANGED <<count, mods, invite, joined, lock>>
                    /\ \E r : req' = [req EXCEPT ![p] = r] /\ r.step \notin {"count", "insert"}
<1>1. ASSUME StartSave(p) PROVE Moved
  <2>2. PICK r \in Handles : req' = [req EXCEPT ![p] = r] /\ r.step = "lock"
    BY <1>1, StartedSave
  <2>3. UNCHANGED <<count, mods, invite, joined, lock>>
    BY <1>1 DEF StartSave, rows, lists
  <2> QED BY <2>2, <2>3
<1>2. ASSUME StartAdd(p) PROVE Moved
  <2>1. PICK t \in Kinds, x \in People \cup Invites \cup {Nobody} :
          req' = [req EXCEPT ![p] = [Idle EXCEPT !.op = t, !.step = "lock", !.arg = x]]
    BY <1>2 DEF StartAdd, Begin
  <2> DEFINE r == [Idle EXCEPT !.op = t, !.step = "lock", !.arg = x]
  <2>2. r.step = "lock" /\ req' = [req EXCEPT ![p] = r]
    BY <2>1 DEF Idle
  <2> HIDE DEF r
  <2>3. UNCHANGED <<count, mods, invite, joined, lock>>
    BY <1>2 DEF StartAdd, rows, lists
  <2> QED BY <2>2, <2>3
<1>3. ASSUME StartAccept(p) PROVE Moved
  <2>1. PICK i \in OpenInvites, x \in People :
          req' = [req EXCEPT ![p] = [Idle EXCEPT !.op = "accept", !.step = "take", !.arg = i, !.field = x]]
    BY <1>3 DEF StartAccept, Begin
  <2> DEFINE r == [Idle EXCEPT !.op = "accept", !.step = "take", !.arg = i, !.field = x]
  <2>2. r.step = "take" /\ req' = [req EXCEPT ![p] = r]
    BY <2>1 DEF Idle
  <2> HIDE DEF r
  <2>3. UNCHANGED <<count, mods, invite, joined, lock>>
    BY <1>3 DEF StartAccept, rows, lists
  <2> QED BY <2>2, <2>3
<1>4. ASSUME StartRead(p) PROVE Moved
  <2>1. PICK plans \in BOOLEAN :
          req' = [req EXCEPT ![p] = [Idle EXCEPT !.op = "read", !.step = "ask", !.plans = plans]]
    BY <1>4 DEF StartRead, Begin
  <2> DEFINE r == [Idle EXCEPT !.op = "read", !.step = "ask", !.plans = plans]
  <2>2. r.step = "ask" /\ req' = [req EXCEPT ![p] = r]
    BY <2>1 DEF Idle
  <2> HIDE DEF r
  <2>3. UNCHANGED <<count, mods, invite, joined, lock>>
    BY <1>4 DEF StartRead, rows, lists
  <2> QED BY <2>2, <2>3
<1> QED BY <1>1, <1>2, <1>3, <1>4

LEMMA LimitsStep ==
    ASSUME Types, Types', LimitsOK, [Next]_vars
    PROVE  LimitsOK'
<1> USE CreatorConstantsOK
<1>0. /\ \A q \in Procs : q # Free
      /\ \A q \in Procs : RoomOK(q) /\ ArgsOK(q)
      /\ Idle.step = "idle"
      /\ count \in [{"token", "sound"} -> Nat]
  BY DEF LimitsOK, Types, ListTypes, Idle
<1>1. ASSUME NEW p \in Procs, Insert(p)
      PROVE  LimitsOK'
  <2> DEFINE i == req[p].arg
             k == Kind(p)
  <2>1. \A q \in Procs : req'[q] = IF q = p THEN Idle ELSE req[q]
    BY <1>1 DEF Insert, Done, Types
  <2>2. lock["profile"] = p /\ Adds(p) /\ req[p].step = "insert"
    BY <1>0, <1>1 DEF Insert, RoomOK
  <2>3. ASSUME NEW q \in Procs PROVE RoomOK(q)'
    <3>1. CASE q = p
      BY <1>0, <2>1, <3>1 DEF RoomOK
    <3>2. CASE q # p
      <4>1. Adds(q) => req[q].step \notin {"count", "insert"}
        BY <1>0, <2>2, <3>2 DEF RoomOK
      <4> QED BY <2>1, <3>2, <4>1 DEF RoomOK, Adds
    <3> QED BY <3>1, <3>2
  <2>4. k \in Kinds
    BY <2>2 DEF Adds, Kind, Kinds
  <2>5. MaxOf["moderator"] \in Nat /\ MaxOf["invite"] \in Nat /\ MaxOf["token"] \in Nat /\ MaxOf["sound"] \in Nat
    BY DEF Kinds
  <2>6. /\ Cardinality(mods) <= MaxOf["moderator"] /\ Cardinality(OpenInvites) <= MaxOf["invite"]
        /\ count["token"] <= MaxOf["token"] /\ count["sound"] <= MaxOf["sound"]
    BY CountedIs DEF LimitsOK, Limits, Kinds
  <2>7. Cardinality(mods) \in Nat /\ Cardinality(OpenInvites) \in Nat
    BY FS_CardinalityType DEF LimitsOK
  <2>8. IsFiniteSet(mods') /\ Cardinality(mods') <= MaxOf["moderator"]
    <3>1. CASE k = "moderator"
      <4>1. mods' = mods \cup {Person(p)}
        BY <1>1, <3>1 DEF Insert
      <4>2. Cardinality(mods \cup {Person(p)}) <= MaxOf["moderator"]
        BY <1>0, <2>2, <3>1 DEF RoomOK
      <4>3. IsFiniteSet(mods \cup {Person(p)})
        BY FS_AddElement DEF LimitsOK
      <4> QED BY <4>1, <4>2, <4>3
    <3>2. CASE k # "moderator"
      <4>1. mods' = mods
        BY <1>1, <3>2 DEF Insert
      <4> QED BY <2>6, <4>1 DEF LimitsOK
    <3> QED BY <3>1, <3>2
  <2>9. IsFiniteSet(OpenInvites') /\ Cardinality(OpenInvites') <= MaxOf["invite"]
    <3>1. CASE k = "invite"
      <4>0. req[p].op = "invite"
        BY <3>1 DEF Kind
      <4>1. invite' = [invite EXCEPT ![i] = "open"]
        BY <1>1, <4>0 DEF Insert, Kind
      <4>2. OpenInvites' \subseteq OpenInvites \cup {i}
        BY <4>1 DEF OpenInvites, Types, ListTypes
      <4>3. /\ IsFiniteSet(OpenInvites \cup {i})
            /\ Cardinality(OpenInvites \cup {i}) <= Cardinality(OpenInvites) + 1
            /\ Cardinality(OpenInvites \cup {i}) \in Nat
        <5>1. /\ IsFiniteSet(OpenInvites \cup {i})
              /\ \/ Cardinality(OpenInvites \cup {i}) = Cardinality(OpenInvites)
                 \/ Cardinality(OpenInvites \cup {i}) = Cardinality(OpenInvites) + 1
          BY FS_AddElement DEF LimitsOK
        <5> QED BY <2>7, <5>1
      <4>4. Cardinality(OpenInvites) < MaxOf["invite"]
        BY <1>0, <2>2, <3>1, CountedIs DEF RoomOK
      <4>5. IsFiniteSet(OpenInvites') /\ Cardinality(OpenInvites') <= Cardinality(OpenInvites \cup {i})
        BY <4>2, <4>3, FS_Subset
      <4>6. Cardinality(OpenInvites') \in Nat
        BY <4>5, FS_CardinalityType
      <4> QED BY <2>5, <2>7, <4>3, <4>4, <4>5, <4>6
    <3>2. CASE k # "invite"
      <4>1. OpenInvites' \subseteq OpenInvites
        <5>1. CASE req[p].op = "accept"
          <6>1. invite' = [invite EXCEPT ![i] = "used"]
            BY <1>1, <3>2, <5>1 DEF Insert
          <6> QED BY <6>1 DEF OpenInvites, Types, ListTypes
        <5>2. CASE req[p].op # "accept"
          <6>1. invite' = invite
            BY <1>1, <3>2, <5>2 DEF Insert
          <6> QED BY <6>1 DEF OpenInvites
        <5> QED BY <5>1, <5>2
      <4>2. IsFiniteSet(OpenInvites') /\ Cardinality(OpenInvites') <= Cardinality(OpenInvites)
        BY <4>1, FS_Subset DEF LimitsOK
      <4>3. Cardinality(OpenInvites') \in Nat
        BY <4>2, FS_CardinalityType
      <4> QED BY <2>5, <2>6, <2>7, <4>2, <4>3
    <3> QED BY <3>1, <3>2
  <2>10. ASSUME NEW t \in {"token", "sound"} PROVE count'[t] <= MaxOf[t]
    <3>1. CASE k = t
      <4>1. count'[t] = count[t] + 1
        BY <1>0, <1>1, <3>1 DEF Insert
      <4>2. count[t] < MaxOf[t]
        BY <1>0, <2>2, <3>1, CountedIs DEF RoomOK
      <4> QED BY <1>0, <2>5, <4>1, <4>2
    <3>2. CASE k # t
      <4>1. count'[t] = count[t]
        BY <1>0, <1>1, <3>2 DEF Insert
      <4> QED BY <2>6, <4>1
    <3> QED BY <3>1, <3>2
  <2>11. Limits'
    BY <2>8, <2>9, <2>10, CountedNext DEF Limits, Kinds
  <2> QED BY <2>3, <2>8, <2>9, <2>11 DEF LimitsOK
<1>2. ASSUME NEW p \in Procs, Request(p), ~Insert(p)
      PROVE  LimitsOK'
  <2>1. mods' = mods /\ invite' = invite /\ count' = count
    <3>1. CASE StartSave(p) \/ StartAdd(p) \/ StartAccept(p) \/ StartRead(p)
      BY <3>1, Starts
    <3>2. CASE Visit(p) \/ FirstConfig(p) \/ LockRow(p) \/ Save(p) \/ Read(p) \/ ReadUnanswered(p)
      BY <3>2 DEF Visit, FirstConfig, LockRow, Save, Read, ReadUnanswered, lists
    <3>3. CASE Take(p) \/ LockCreator(p) \/ Count(p)
      BY <3>3 DEF Take, LockCreator, Count, lists
    <3> QED BY <1>2, <3>1, <3>2, <3>3 DEF Request
  <2>2. OpenInvites' = OpenInvites
    BY <2>1 DEF OpenInvites
  <2>3. \A q \in Procs : q # p => req'[q] = req[q]
    <3>1. CASE Visit(p) \/ FirstConfig(p) \/ LockRow(p) \/ Save(p)
      BY <3>1 DEF Visit, FirstConfig, LockRow, Save, Step, Done, Types
    <3>2. CASE StartSave(p) \/ StartAdd(p) \/ StartAccept(p) \/ StartRead(p)
      <4>1. PICK r : req' = [req EXCEPT ![p] = r]
        BY <3>2, Starts
      <4> QED BY <4>1 DEF Types
    <3>4. CASE Take(p) \/ LockCreator(p) \/ Count(p) \/ Read(p) \/ ReadUnanswered(p)
      <4>1. Done(p) \/ Step(p, "lock") \/ Step(p, "count") \/ Step(p, "insert")
        BY <3>4 DEF Take, LockCreator, Count, Read, ReadUnanswered
      <4> QED BY <4>1 DEF Step, Done, Types
    <3> QED BY <1>2, <3>1, <3>2, <3>4 DEF Request
  <2>4. ASSUME NEW q \in Procs, q # p, lock["profile"] = q PROVE lock'["profile"] = q
    <3>1. CASE lock' = lock
      BY <2>4, <3>1
    <3>2. CASE LockCreator(p)
      BY <1>0, <2>4, <3>2 DEF LockCreator, CreatorFree
    <3>3. CASE LockRow(p) \/ Take(p)
      BY <1>0, <2>4, <3>3 DEF LockRow, Take, At, Types, ListTypes, Docs, ArgsOK
    <3>4. CASE lock' = Unlocked(p)
      BY <2>4, <3>4, UnlockedFacts DEF Types, Docs
    <3>5. CASE Visit(p) \/ FirstConfig(p)
      BY <2>4, <3>5 DEF Visit, FirstConfig
    <3>6. CASE StartSave(p) \/ StartAdd(p) \/ StartAccept(p) \/ StartRead(p)
      BY <2>4, <3>6, Starts
    <3>8. CASE Read(p) \/ ReadUnanswered(p)
      BY <2>4, <3>8 DEF Read, ReadUnanswered, rows
    <3>7. CASE Save(p) \/ Count(p)
      BY <3>1, <3>4, <3>7 DEF Save, Count
    <3> QED BY <1>2, <3>2, <3>3, <3>5, <3>6, <3>7, <3>8 DEF Request
  <2>5. RoomOK(p)'
    <3>1. CASE LockCreator(p)
      <4>1. req'[p].step = "count"
        BY <3>1 DEF LockCreator, Step, Types, Handles
      <4>2. lock'["profile"] = p
        BY <3>1 DEF LockCreator, Types, ListTypes, Docs
      <4> QED BY <4>1, <4>2 DEF RoomOK
    <3>2. CASE Count(p)
      <4>1. CASE Done(p)
        BY <1>0, <4>1 DEF Done, RoomOK, Types
      <4>2. CASE ~Done(p)
        <5>1. /\ Step(p, "insert") /\ lock' = lock
              /\ Counted(Kind(p)) < MaxOf[Kind(p)] \/ (Kind(p) = "moderator" /\ Person(p) \in mods)
          <6>1. Step(p, "insert") /\ lock' = lock
            BY <3>2, <4>2 DEF Count
          <6>2. ~(Counted(Kind(p)) >= MaxOf[Kind(p)]) \/ (Kind(p) = "moderator" /\ Person(p) \in mods)
            BY <3>2, <4>2 DEF Count
          <6>3. Kind(p) \in Kinds
            BY <3>2 DEF Count, Adds, Kind, Kinds
          <6>4. Counted(Kind(p)) \in Nat /\ MaxOf[Kind(p)] \in Nat
            BY <1>0, <6>3, CountedIs, FS_CardinalityType DEF LimitsOK, Kinds
          <6> QED BY <6>1, <6>2, <6>4
        <5>2. Adds(p) /\ lock["profile"] = p
          BY <1>0, <3>2 DEF Count, RoomOK
        <5>3. req' = [req EXCEPT ![p] = [req[p] EXCEPT !.step = "insert"]]
          BY <5>1 DEF Step
        <5>4. /\ req'[p].op = req[p].op /\ req'[p].arg = req[p].arg /\ req'[p].field = req[p].field
          BY <5>3 DEF Types, Handles
        <5>5. Kind(p)' = Kind(p) /\ Person(p)' = Person(p) /\ Kind(p) \in Kinds
          BY <5>2, <5>4 DEF Kind, Person, Adds, Kinds
        <5>6. CASE Kind(p) = "moderator"
          <6>1. Cardinality(mods \cup {Person(p)}) <= MaxOf["moderator"]
            <7>1. CASE Person(p) \in mods
              <8>1. mods \cup {Person(p)} = mods
                BY <7>1
              <8>2. Cardinality(mods) <= MaxOf["moderator"]
                BY CountedIs DEF LimitsOK, Limits, Kinds
              <8> QED BY <8>1, <8>2
            <7>2. CASE Person(p) \notin mods
              <8>1. Cardinality(mods \cup {Person(p)}) = Cardinality(mods) + 1
                BY <7>2, FS_AddElement DEF LimitsOK
              <8>2. Cardinality(mods) < MaxOf["moderator"]
                BY <5>1, <5>6, <7>2, CountedIs
              <8>3. Cardinality(mods) \in Nat /\ MaxOf["moderator"] \in Nat
                BY FS_CardinalityType DEF LimitsOK, Kinds
              <8> QED BY <8>1, <8>2, <8>3
            <7> QED BY <7>1, <7>2
          <6> QED BY <2>1, <5>1, <5>2, <5>5, <5>6, <6>1 DEF RoomOK
        <5>7. CASE Kind(p) # "moderator"
          <6>1. Kind(p) = "invite" \/ Kind(p) = "token" \/ Kind(p) = "sound"
            BY <5>5, <5>7 DEF Kinds
          <6>2. Counted(Kind(p))' = Counted(Kind(p))
            BY <2>1, <2>2, <5>5, <6>1, CountedIs, CountedNext
          <6>3. Counted(Kind(p))' < MaxOf[Kind(p)']
            BY <5>1, <5>5, <5>7, <6>2
          <6> QED BY <5>1, <5>2, <5>5, <5>7, <6>3 DEF RoomOK
        <5> QED BY <5>6, <5>7
      <4> QED BY <4>1, <4>2
    <3>3. CASE ~LockCreator(p) /\ ~Count(p)
      <4>1. req'[p].step \notin {"count", "insert"}
        <5>1. CASE Done(p)
          BY <1>0, <5>1 DEF Done, Types
        <5>2. CASE StartSave(p) \/ StartAdd(p) \/ StartAccept(p) \/ StartRead(p)
          <6>1. PICK r : req' = [req EXCEPT ![p] = r] /\ r.step \notin {"count", "insert"}
            BY <5>2, Starts
          <6> QED BY <6>1 DEF Types
        <5>4. CASE Visit(p)
          <6> DEFINE r == [Idle EXCEPT !.op = "visit", !.step = "config"]
          <6>1. r.step = "config" /\ req' = [req EXCEPT ![p] = r]
            BY <5>4 DEF Visit, Idle
          <6> HIDE DEF r
          <6> QED BY <6>1 DEF Types
        <5>5. CASE LockRow(p)
          BY <5>5 DEF LockRow, Step, Types, Handles
        <5>6. CASE Take(p) /\ Step(p, "lock")
          BY <5>6 DEF Step, Types, Handles
        <5> QED BY <1>2, <3>3, <5>1, <5>2, <5>4, <5>5, <5>6
                DEF Request, FirstConfig, Save, Take, Read, ReadUnanswered
      <4> QED BY <4>1 DEF RoomOK
    <3> QED BY <3>1, <3>2, <3>3
  <2>6. \A t \in {"token", "sound"} : count'[t] <= count[t]
    BY <1>0, <2>1
  <2> QED BY <2>1, <2>2, <2>3, <2>4, <2>5, <2>6, LimitsFrame
<1>3. CASE \/ Drop \/ RemoveModerator \/ EndInvite \/ CreatePost \/ HidePost
           \/ Membership \/ Invalidate \/ Tick \/ UNCHANGED vars
  <2>1. req' = req /\ lock' = lock
    BY <1>3 DEF Drop, RemoveModerator, EndInvite, CreatePost, HidePost, Membership, Invalidate, Tick,
                vars, rows
  <2>2. mods' \subseteq mods
    BY <1>3 DEF Drop, RemoveModerator, EndInvite, CreatePost, HidePost, Membership, Invalidate, Tick,
                vars, lists
  <2>3. OpenInvites' \subseteq OpenInvites
    <3>1. CASE invite' = invite
      BY <3>1 DEF OpenInvites
    <3>2. CASE EndInvite
      BY <3>2 DEF EndInvite, OpenInvites, Types, ListTypes
    <3> QED BY <1>3, <3>1, <3>2 DEF Drop, RemoveModerator, CreatePost, HidePost, Membership, Invalidate,
              Tick, vars, lists
  <2>4. \A t \in {"token", "sound"} : count'[t] <= count[t]
    <3>1. CASE count' = count
      BY <1>0, <3>1
    <3>2. CASE Drop
      <4>1. PICK t \in {"token", "sound"} : count' = [count EXCEPT ![t] = @ - 1]
        BY <3>2 DEF Drop
      <4> QED BY <1>0, <4>1
    <3> QED BY <1>3, <3>1, <3>2 DEF RemoveModerator, EndInvite, CreatePost, HidePost, Membership,
              Invalidate, Tick, vars, lists
  <2> QED BY <2>1, <2>2, <2>3, <2>4, LimitsFrame
<1> QED BY <1>1, <1>2, <1>3 DEF Next

-----------------------------------------------------------------------------
(* Members-only posts *)

\* Tiers, cached and held, are numbers.
LEMMA TierTypes ==
    ASSUME Types
    PROVE  /\ 0 \in 0..Ttl /\ recent \in [0..Ttl -> Tiers \cup {0}] /\ tiers \subseteq Nat \ {0}
           /\ tier \in Nat /\ \A n \in 0..Ttl : recent[n] \in Nat
           /\ cache \in CachedTiers /\ cache.age \in Nat /\ cache.tier \in Nat
<1>1. Ttl \in Nat /\ Tiers \cup {0} \subseteq Nat /\ Tiers \subseteq Nat \ {0}
  BY CreatorConstantsOK
<1>2. cache \in CachedTiers /\ recent \in [0..Ttl -> Tiers \cup {0}] /\ tiers \subseteq Tiers /\ tier \in Tiers \cup {0}
  BY DEF Types, VipTypes
<1>3. cache.age \in Nat /\ cache.tier \in Tiers \cup {0}
  BY <1>2 DEF CachedTiers
<1>4. 0 \in 0..Ttl
  BY <1>1
<1>5. \A n \in 0..Ttl : recent[n] \in Tiers \cup {0}
  BY <1>2
<1>6. \A n \in 0..Ttl : recent[n] \in Nat
  BY <1>1, <1>5
<1>7. tier \in Nat /\ cache.tier \in Nat /\ tiers \subseteq Nat \ {0}
  BY <1>1, <1>2, <1>3
<1> QED BY <1>2, <1>3, <1>4, <1>6, <1>7

LEMMA CacheStep ==
    ASSUME Types, CacheOK, [Next]_vars
    PROVE  CacheOK'
<1> USE CreatorConstantsOK
<1>0. /\ 0 \in 0..Ttl /\ recent \in [0..Ttl -> Tiers \cup {0}] /\ tier \in Nat /\ recent[0] \in Nat
      /\ \A n \in 0..Ttl : recent[n] \in Nat
      /\ cache \in CachedTiers /\ cache.age \in Nat /\ cache.tier \in Nat
  BY TierTypes
<1>1. ASSUME NEW p \in Procs, Read(p)
      PROVE  CacheOK'
  <2>1. tier' = tier /\ recent' = recent
    BY <1>1 DEF Read
  <2>2. CASE cache.there
    <3>1. cache' = cache
      BY <1>1, <2>2 DEF Read
    <3> QED BY <2>1, <3>1 DEF CacheOK
  <2>3. CASE ~cache.there
    <3>1. cache' = [there |-> TRUE, tier |-> tier, age |-> 0]
      BY <1>1, <2>3 DEF Read
    <3> QED BY <1>0, <2>1, <3>1 DEF CacheOK
  <2> QED BY <2>2, <2>3
<1>2. CASE Membership
  <2>1. PICK t \in Tiers \cup {0} :
          tier' = t /\ recent' = [recent EXCEPT ![0] = IF t > @ THEN t ELSE @]
    BY <1>2 DEF Membership
  <2>2. t \in Nat
    BY <2>1
  <2>3. cache' = cache
    BY <1>2 DEF Membership
  <2>4. recent'[0] = IF t > recent[0] THEN t ELSE recent[0]
    BY <1>0, <2>1
  <2>5. \A n \in 0..Ttl : recent[n] <= recent'[n]
    BY <1>0, <2>1, <2>2
  <2>6. \A n \in 0..Ttl : recent'[n] \in Nat
    BY <1>0, <2>1, <2>2
  <2>7. tier' <= recent'[0]
    BY <1>0, <2>1, <2>2, <2>4
  <2>8. cache.there => cache.age \in 0..Ttl
    BY <1>0 DEF CacheOK
  <2>9. cache.there => cache.tier <= recent'[cache.age]
    BY <1>0, <2>5, <2>6, <2>8 DEF CacheOK
  <2> QED BY <2>3, <2>7, <2>9 DEF CacheOK
<1>3. CASE Invalidate
  BY <1>0, <1>3 DEF Invalidate, CacheOK, CachedTiers
<1>4. CASE Tick
  <2>1. /\ tier' = tier
        /\ recent' = [n \in 0..Ttl |-> IF n = 0 THEN tier ELSE recent[n - 1]]
    BY <1>4 DEF Tick
  <2>2. tier' <= recent'[0]
    BY <1>0, <2>1
  <2>3. CASE cache.there /\ cache.age < Ttl
    <3>1. cache' = [cache EXCEPT !.age = @ + 1]
      BY <1>4, <2>3 DEF Tick
    <3>2. cache'.age = cache.age + 1 /\ cache'.tier = cache.tier
      BY <1>0, <3>1 DEF CachedTiers
    <3>3. cache.age + 1 \in 0..Ttl /\ (cache.age + 1) - 1 = cache.age /\ cache.age + 1 # 0
      BY <1>0, <2>3
    <3>4. recent'[cache.age + 1] = recent[cache.age]
      BY <2>1, <3>3
    <3>5. cache.tier <= recent[cache.age]
      BY <2>3 DEF CacheOK
    <3> QED BY <2>2, <3>2, <3>3, <3>4, <3>5 DEF CacheOK
  <2>4. CASE ~(cache.there /\ cache.age < Ttl)
    <3>1. cache' = [there |-> FALSE, tier |-> 0, age |-> 0]
      BY <1>4, <2>4 DEF Tick
    <3> QED BY <2>2, <3>1 DEF CacheOK
  <2> QED BY <2>3, <2>4
<1>5. ASSUME NEW p \in Procs, Request(p), ~Read(p)
      PROVE  CacheOK'
  <2>1. tier' = tier /\ recent' = recent /\ cache' = cache
    <3>1. CASE Visit(p) \/ FirstConfig(p) \/ LockRow(p) \/ Save(p) \/ ReadUnanswered(p)
      BY <3>1 DEF Visit, FirstConfig, LockRow, Save, ReadUnanswered, vip
    <3>2. CASE Take(p) \/ LockCreator(p) \/ Count(p) \/ Insert(p)
      BY <3>2 DEF Take, LockCreator, Count, Insert, vip
    <3>3. CASE StartSave(p)
      BY <3>3 DEF StartSave, vip
    <3>4. CASE StartAdd(p)
      BY <3>4 DEF StartAdd, vip
    <3>5. CASE StartAccept(p)
      BY <3>5 DEF StartAccept, vip
    <3>6. CASE StartRead(p)
      BY <3>6 DEF StartRead, vip
    <3> QED BY <1>5, <3>1, <3>2, <3>3, <3>4, <3>5, <3>6 DEF Request
  <2> QED BY <2>1 DEF CacheOK
<1>6. CASE Drop \/ RemoveModerator \/ EndInvite \/ CreatePost \/ HidePost \/ UNCHANGED vars
  <2>1. tier' = tier /\ recent' = recent /\ cache' = cache
    BY <1>6 DEF Drop, RemoveModerator, EndInvite, CreatePost, HidePost, vars, vip
  <2> QED BY <2>1 DEF CacheOK
<1> QED BY <1>1, <1>2, <1>3, <1>4, <1>5, <1>6 DEF Next

\* Who is served the text held a tier that reads it, as recently as the answer is old.
LEMMA ServedHeldIt ==
    ASSUME Types, CacheOK, NEW p \in Procs, Opens(p)
    PROVE  \E n \in 0..Ttl : recent[n] # 0 /\ Reaches(recent[n])
<1> USE CreatorConstantsOK
<1>0. /\ \A n \in 0..Ttl : recent[n] \in Nat
      /\ tier \in Nat /\ cache.tier \in Nat /\ cache.age \in Nat /\ tiers \subseteq Nat \ {0}
  BY TierTypes
<1>1. PICK n \in 0..Ttl : Entitled <= recent[n]
  <2>1. CASE cache.there
    BY <1>0, <2>1 DEF Entitled, CacheOK
  <2>2. CASE ~cache.there
    BY <1>0, <2>2 DEF Entitled, CacheOK
  <2> QED BY <2>1, <2>2
<1>2. Entitled \in Nat /\ Entitled # 0
  BY <1>0 DEF Entitled, Opens
<1>3. MemberTier(req[p].plans) \in Nat /\ MemberTier(req[p].plans) <= Entitled
  BY <1>2 DEF MemberTier
<1>4. PICK k \in tiers : MemberTier(req[p].plans) >= k
  BY DEF Opens, Reaches
<1>5. k \in Nat /\ recent[n] \in Nat
  BY <1>0, <1>4
<1>6. recent[n] >= k /\ recent[n] # 0
  BY <1>1, <1>2, <1>3, <1>4, <1>5
<1> QED BY <1>4, <1>6 DEF Reaches

-----------------------------------------------------------------------------
(* The theorems *)

\* The inductive invariant holds whatever requests run, and in whatever order their statements
\* reach the database.
THEOREM CreatorInvariant == Spec => []IInv
<1>1. Init => IInv
  BY InitIInv
<1>2. IInv /\ [Next]_vars => IInv'
  BY TypesStep, SavesStep, InvitesStep, LimitsStep, CacheStep DEF IInv
<1> QED BY <1>1, <1>2, PTL DEF Spec

\* lockCreator() makes each count and insert one step: no number of requests at once brings a
\* creator over a limit.
THEOREM LimitsHold == Spec => []Limits
<1>1. IInv => Limits
  BY DEF IInv, LimitsOK
<1> QED BY <1>1, CreatorInvariant, PTL

\* The conditional update of acceptInvite() gives an invitation to one person, whoever else
\* found it open, and revoking it cannot come between.
THEOREM InvitedOnce == Spec => []InviteOnce
<1>1. IInv => InviteOnce
  BY DEF IInv, InvitesOK
<1> QED BY <1>1, CreatorInvariant, PTL

\* The row lock and the expected revision of update() and updateConfig() keep every setting as it
\* was last changed on purpose, or sent without a revision.
THEOREM SavesAreKept == Spec => []SavesStay
<1>1. IInv => SavesStay
  BY DEF IInv, SavesOK
<1> QED BY <1>1, CreatorInvariant, PTL

\* access() serves the text of a post for members only to who held a tier that reads it while
\* an answer may be kept, for any tiers and any life of an answer.
THEOREM BodiesForMembers == Spec => BodyForMembers
<1>1. IInv /\ [Next]_vars =>
        [\A p \in Procs : Read(p) /\ Opens(p) => \E n \in 0..Ttl : recent[n] # 0 /\ Reaches(recent[n])]_vars
  BY ServedHeldIt DEF IInv
<1> QED BY <1>1, CreatorInvariant, PTL DEF Spec, BodyForMembers

=============================================================================
