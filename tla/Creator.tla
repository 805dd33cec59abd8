------------------------------ MODULE Creator -------------------------------
(***************************************************************************)
(* What one creator keeps: settings, overlay tokens and configs,           *)
(* moderators and invitations, sounds, members-only posts.  The dashboard  *)
(* (web/routes.js) and the API (api/v1.js) change them from several        *)
(* requests at once; each statement on the database is a step, and a row   *)
(* read FOR UPDATE, or written by a transaction, is locked until it ends.  *)
(* A member of the creator reads the post meanwhile, with OpenVibe.VIP's   *)
(* answers cached (vip/client.js).                                         *)
(***************************************************************************)
EXTENDS Naturals, FiniteSets

CONSTANTS
    Procs,        \* requests in flight
    People,       \* who may moderate
    Invites,      \* invitation ids
    Fields,       \* the settings of a form
    Tiers,        \* the membership tiers (1, 2, ...)
    MaxOf,        \* [Kinds -> Nat]: what a creator may have of each kind
    Ttl,          \* ticks a cached "yes" of OpenVibe.VIP lives (config.vip.ttlMs)
    Free, Nobody,
    MaxOps,       \* bound: requests
    MaxChanges    \* bound: changes of the membership, and ticks

Kinds == {"token", "sound", "moderator", "invite"}
Docs  == {"profile", "config"}      \* the rows with a revision

ASSUME CreatorConstantsOK ==
    /\ Free \notin Procs /\ Nobody \notin People \cup Invites
    /\ Tiers \subseteq Nat \ {0} /\ 1 \in Tiers /\ IsFiniteSet(Tiers)
    /\ MaxOf \in [Kinds -> Nat] /\ Ttl \in Nat /\ MaxOps \in Nat /\ MaxChanges \in Nat

VARIABLES
    row,        \* [Docs -> Rows]: creator_tip_profiles, and the first of overlay_configs
    lock,       \* [Docs \cup Invites -> Procs \cup {Free}]: row locks
    configs,    \* Nat: alert configs the creator has
    count,      \* [{"token", "sound"} -> Nat]: active overlay_tokens, creator_sounds
    mods,       \* SUBSET People: tip_moderators not removed
    invite,     \* [Invites -> {"none", "open", "expired", "used", "revoked"}]
    joined,     \* [Invites -> SUBSET People]: who became a moderator by it (added_by)
    post,       \* {"none", "published", "hidden"}: the creator's post
    tiers,      \* SUBSET Tiers: the tiers it is for
    tier,       \* the reader's membership at OpenVibe.VIP (0: none)
    cache,      \* the cached answer: its tier, and its age in ticks
    recent,     \* [0..Ttl -> 0 and Tiers]: the best tier held, this many ticks ago
    req,        \* [Procs -> Requests]
    saved,      \* [Docs -> [Fields -> BOOLEAN]]: history, what each setting was last changed to
                \* on purpose, or sent as without a revision
    ops, changes

rows  == <<row, lock, configs, saved>>
lists == <<count, mods, invite, joined>>
vip   == <<post, tiers, tier, cache, recent>>
vars  == <<row, lock, configs, count, mods, invite, joined, post, tiers, tier, cache, recent, req,
           saved, ops, changes>>

Defaults == [f \in Fields |-> FALSE]
Idle     == [op |-> "idle", step |-> "idle", arg |-> Nobody, field |-> Nobody, sent |-> {},
             plans |-> FALSE, rev |-> 0, form |-> Defaults]

Init ==
    /\ row    = [d \in Docs |-> [there |-> FALSE, rev |-> 1, set |-> Defaults]]
    /\ lock   = [r \in Docs \cup Invites |-> Free]
    /\ configs = 0
    /\ count  = [k \in {"token", "sound"} |-> 0]
    /\ mods   = {} /\ invite = [i \in Invites |-> "none"] /\ joined = [i \in Invites |-> {}]
    /\ post   = "none" /\ tiers = {} /\ tier = 0
    /\ cache  = [there |-> FALSE, tier |-> 0, age |-> 0]
    /\ recent = [n \in 0..Ttl |-> 0]
    /\ req    = [p \in Procs |-> Idle]
    /\ saved  = [d \in Docs |-> Defaults]
    /\ ops    = 0 /\ changes = 0

At(p, op, step) == req[p].op = op /\ req[p].step = step
Step(p, step)   == req' = [req EXCEPT ![p].step = step]
Done(p)         == req' = [req EXCEPT ![p] = Idle]
Unlocked(p)     == [r \in DOMAIN lock |-> IF lock[r] = p THEN Free ELSE lock[r]]

\* A request on a creator's page needs its profile (creatorOf(), ensureProfile()).
Begin(p, r) ==
    /\ req[p].op = "idle" /\ ops < MaxOps /\ row["profile"].there
    /\ req' = [req EXCEPT ![p] = r]
    /\ ops' = ops + 1

-----------------------------------------------------------------------------
(* The first visit *)

\* ensure(): the profile is made once (ON CONFLICT DO NOTHING); then the configs are read.
Visit(p) ==
    /\ req[p].op = "idle" /\ configs = 0
    /\ row' = [row EXCEPT !["profile"].there = TRUE]
    /\ req' = [req EXCEPT ![p] = [Idle EXCEPT !.op = "visit", !.step = "config"]]
    /\ UNCHANGED <<lock, configs, saved, ops, changes>> /\ UNCHANGED lists /\ UNCHANGED vip

\* The dashboard makes the first alerts config (two first visits at once make two).
FirstConfig(p) ==
    /\ At(p, "visit", "config")
    /\ configs' = configs + 1
    /\ row' = [row EXCEPT !["config"].there = TRUE]
    /\ Done(p)
    /\ UNCHANGED <<lock, saved, ops, changes>> /\ UNCHANGED lists /\ UNCHANGED vip

-----------------------------------------------------------------------------
(* Settings *)

\* A form shows settings and sends all it shows, with one of them changed.  The page's and the
\* alerts' forms show every setting and carry the revision they were shown at; the forms of the
\* word filter and the support links show a few and carry none (0); a client of the API sends
\* what it likes, with a revision or without.
StartSave(p) ==
    \E d \in Docs, f \in Fields, others \in SUBSET Fields :
    \E rev \in {0, row[d].rev} :
        /\ row[d].there
        /\ Begin(p, [Idle EXCEPT !.op = "save", !.step = "lock", !.arg = d, !.field = f,
                                 !.sent = others \cup {f}, !.rev = rev,
                                 !.form = [row[d].set EXCEPT ![f] = ~@]])
        /\ UNCHANGED <<changes>> /\ UNCHANGED rows /\ UNCHANGED lists /\ UNCHANGED vip

\* SELECT ... FOR UPDATE.
LockRow(p) ==
    LET d == req[p].arg
    IN  /\ At(p, "save", "lock") /\ lock[d] = Free
        /\ lock' = [lock EXCEPT ![d] = p]
        /\ Step(p, "write")
        /\ UNCHANGED <<row, configs, saved, ops, changes>> /\ UNCHANGED lists /\ UNCHANGED vip

\* Mutant: the revision the form was shown at is not compared.
ConflictNever(p) == FALSE

\* expectedRevision, if one was sent: 409 when the row has moved on.
Conflict(p) == req[p].rev # 0 /\ req[p].rev # row[req[p].arg].rev

\* Some settings of a form over what there was.
Over(set, fields, form) == [f \in Fields |-> IF f \in fields THEN form[f] ELSE set[f]]

\* What a save answers for: what it changed, and all it sent if it carries no revision.
Meant(p) == IF req[p].rev = 0 THEN req[p].sent ELSE {req[p].field}

\* change(), changeConfig(): what was sent over what the locked row has; then the commit.
Save(p) ==
    LET d == req[p].arg
    IN  /\ At(p, "save", "write")
        /\ IF Conflict(p) THEN UNCHANGED <<row, saved>>
           ELSE /\ row'   = [row EXCEPT ![d].rev = @ + 1,
                                        ![d].set = Over(@, req[p].sent, req[p].form)]
                /\ saved' = [saved EXCEPT ![d] = Over(@, Meant(p), req[p].form)]
        /\ lock' = Unlocked(p)
        /\ Done(p)
        /\ UNCHANGED <<configs, ops, changes>> /\ UNCHANGED lists /\ UNCHANGED vip

-----------------------------------------------------------------------------
(* Lists with a limit *)

OpenInvites == {i \in Invites : invite[i] = "open"}

\* count(*) of what is committed.
Counted(k) ==
    CASE k = "moderator" -> Cardinality(mods)
      [] k = "invite"    -> Cardinality(OpenInvites)
      [] OTHER           -> count[k]

\* createToken(), sounds.add(), addModerator(), createInvite().
StartAdd(p) ==
    \E k \in Kinds, x \in People \cup Invites \cup {Nobody} :
        /\ k = "moderator" => x \in People
        /\ k = "invite" => x \in Invites /\ invite[x] = "none" /\ \A q \in Procs : req[q].arg # x
        /\ k \in {"token", "sound"} => x = Nobody
        /\ Begin(p, [Idle EXCEPT !.op = k, !.step = "lock", !.arg = x])
        /\ UNCHANGED <<changes>> /\ UNCHANGED rows /\ UNCHANGED lists /\ UNCHANGED vip

\* findInvite() in acceptInvite().
StartAccept(p) ==
    \E i \in OpenInvites, x \in People :
        /\ Begin(p, [Idle EXCEPT !.op = "accept", !.step = "take", !.arg = i, !.field = x])
        /\ UNCHANGED <<changes>> /\ UNCHANGED rows /\ UNCHANGED lists /\ UNCHANGED vip

\* Mutant: whoever found the invitation open takes it.
TakeableAlways(i) == TRUE

\* WHERE used_at IS NULL AND revoked_at IS NULL, once the row is not locked.
Takeable(i) == invite[i] \in {"open", "expired"}

\* The conditional UPDATE that takes the invitation (seen by others at the commit), or 404.
Take(p) ==
    LET i == req[p].arg
    IN  /\ At(p, "accept", "take") /\ lock[i] = Free
        /\ IF Takeable(i) THEN lock' = [lock EXCEPT ![i] = p] /\ Step(p, "lock")
                          ELSE UNCHANGED lock /\ Done(p)
        /\ UNCHANGED <<row, configs, saved, ops, changes>> /\ UNCHANGED lists /\ UNCHANGED vip

Adds(p) == req[p].op \in Kinds \cup {"accept"}

\* Mutant: the creator's row is not waited for.
CreatorFreeAlways == TRUE

\* lockCreator() waits for the creator's row.
CreatorFree == lock["profile"] = Free

LockCreator(p) ==
    /\ Adds(p) /\ req[p].step = "lock" /\ CreatorFree
    /\ lock' = [lock EXCEPT !["profile"] = p]
    /\ Step(p, "count")
    /\ UNCHANGED <<row, configs, saved, ops, changes>> /\ UNCHANGED lists /\ UNCHANGED vip

Kind(p)   == IF req[p].op = "accept" THEN "moderator" ELSE req[p].op
Person(p) == IF req[p].op = "accept" THEN req[p].field ELSE req[p].arg

\* A full list is refused, and the transaction rolls back (a moderator already there is none more).
Count(p) ==
    /\ Adds(p) /\ req[p].step = "count"
    /\ IF Counted(Kind(p)) >= MaxOf[Kind(p)] /\ ~(Kind(p) = "moderator" /\ Person(p) \in mods)
       THEN Done(p) /\ lock' = Unlocked(p)
       ELSE Step(p, "insert") /\ UNCHANGED lock
    /\ UNCHANGED <<row, configs, saved, ops, changes>> /\ UNCHANGED lists /\ UNCHANGED vip

\* INSERT and commit; an accepted invitation is used with it.
Insert(p) ==
    LET k == Kind(p)
        i == req[p].arg
    IN  /\ Adds(p) /\ req[p].step = "insert"
        /\ count'  = IF k \in {"token", "sound"} THEN [count EXCEPT ![k] = @ + 1] ELSE count
        /\ mods'   = IF k = "moderator" THEN mods \cup {Person(p)} ELSE mods
        /\ invite' = CASE k = "invite" -> [invite EXCEPT ![i] = "open"]
                       [] req[p].op = "accept" -> [invite EXCEPT ![i] = "used"]
                       [] OTHER -> invite
        /\ joined' = IF req[p].op = "accept" THEN [joined EXCEPT ![i] = @ \cup {Person(p)}] ELSE joined
        /\ lock'   = Unlocked(p)
        /\ Done(p)
        /\ UNCHANGED <<row, configs, saved, ops, changes>> /\ UNCHANGED vip

\* revokeToken(), sounds.remove(): one statement.
Drop ==
    \E k \in {"token", "sound"} :
        /\ count[k] > 0 /\ ops < MaxOps
        /\ count' = [count EXCEPT ![k] = @ - 1] /\ ops' = ops + 1
        /\ UNCHANGED <<mods, invite, joined, req, changes>> /\ UNCHANGED rows /\ UNCHANGED vip

\* removeModerator().
RemoveModerator ==
    \E x \in mods :
        /\ ops < MaxOps
        /\ mods' = mods \ {x} /\ ops' = ops + 1
        /\ UNCHANGED <<count, invite, joined, req, changes>> /\ UNCHANGED rows /\ UNCHANGED vip

\* revokeInvite() waits for a transaction that takes the invitation; a week makes it expire.
EndInvite ==
    \E i \in Invites, how \in {"revoked", "expired"} :
        /\ ops < MaxOps
        /\ IF how = "revoked" THEN invite[i] \in {"open", "expired"} /\ lock[i] = Free ELSE invite[i] = "open"
        /\ invite' = [invite EXCEPT ![i] = how] /\ ops' = ops + 1
        /\ UNCHANGED <<count, mods, joined, req, changes>> /\ UNCHANGED rows /\ UNCHANGED vip

-----------------------------------------------------------------------------
(* Members-only posts *)

\* create(): for tiers the creator sells (vip.tiers).
CreatePost ==
    /\ post = "none" /\ row["profile"].there /\ ops < MaxOps
    /\ post' = "published" /\ tiers' \in (SUBSET Tiers) \ {{}} /\ ops' = ops + 1
    /\ UNCHANGED <<tier, cache, recent, req, changes>> /\ UNCHANGED rows /\ UNCHANGED lists

\* hide() and unhide().
HidePost ==
    /\ post # "none" /\ ops < MaxOps
    /\ post' = IF post = "hidden" THEN "published" ELSE "hidden"
    /\ ops' = ops + 1
    /\ UNCHANGED <<tiers, tier, cache, recent, req, changes>> /\ UNCHANGED rows /\ UNCHANGED lists

\* onePost(): a hidden post is not found; then the plans of the creator, or none (VIP is down).
StartRead(p) ==
    \E plans \in BOOLEAN :
        /\ post = "published"
        /\ Begin(p, [Idle EXCEPT !.op = "read", !.step = "ask", !.plans = plans])
        /\ UNCHANGED <<changes>> /\ UNCHANGED rows /\ UNCHANGED lists /\ UNCHANGED vip

\* entitlement(): the cached answer, or VIP's answer now, kept.
Entitled == IF cache.there THEN cache.tier ELSE tier

\* memberTier(): the tier of the plan, 1 when the plan is not known.
MemberTier(plans) == IF plans THEN Entitled ELSE 1

\* Mutant: a post is opened to the members of its tiers and below.
ReachesUpward(t) == \E n \in tiers : t <= n

\* A member reads a post written for their tier or a lower one.
Reaches(t) == \E n \in tiers : t >= n

Opens(p) == Entitled # 0 /\ Reaches(MemberTier(req[p].plans))

\* access(): the body is served, or the post stays locked.
Read(p) ==
    /\ At(p, "read", "ask")
    /\ cache' = IF cache.there THEN cache ELSE [there |-> TRUE, tier |-> tier, age |-> 0]
    /\ Done(p)
    /\ UNCHANGED <<post, tiers, tier, recent, ops, changes>> /\ UNCHANGED rows /\ UNCHANGED lists

\* VIP is down: nothing is opened, and nothing that opens is kept.
ReadUnanswered(p) ==
    /\ At(p, "read", "ask") /\ ~cache.there
    /\ Done(p)
    /\ UNCHANGED <<ops, changes>> /\ UNCHANGED rows /\ UNCHANGED lists /\ UNCHANGED vip

\* A membership starts, changes or ends at VIP.
Membership ==
    \E t \in Tiers \cup {0} :
        /\ t # tier /\ changes < MaxChanges
        /\ tier' = t /\ changes' = changes + 1
        /\ recent' = [recent EXCEPT ![0] = IF t > @ THEN t ELSE @]
        /\ UNCHANGED <<post, tiers, cache, req, ops>> /\ UNCHANGED rows /\ UNCHANGED lists

\* vip.membership.changed reached this process: invalidate().
Invalidate ==
    /\ cache.there
    /\ cache' = [cache EXCEPT !.there = FALSE, !.tier = 0, !.age = 0]
    /\ UNCHANGED <<post, tiers, tier, recent, req, ops, changes>> /\ UNCHANGED rows /\ UNCHANGED lists

\* Time passes: an answer older than Ttl is asked again.
Tick ==
    /\ changes < MaxChanges /\ changes' = changes + 1
    /\ recent' = [n \in 0..Ttl |-> IF n = 0 THEN tier ELSE recent[n - 1]]
    /\ cache' = IF cache.there /\ cache.age < Ttl THEN [cache EXCEPT !.age = @ + 1]
                ELSE [there |-> FALSE, tier |-> 0, age |-> 0]
    /\ UNCHANGED <<post, tiers, tier, req, ops>> /\ UNCHANGED rows /\ UNCHANGED lists

-----------------------------------------------------------------------------
(* Specification *)

Request(p) ==
    \/ Visit(p) \/ FirstConfig(p)
    \/ StartSave(p) \/ LockRow(p) \/ Save(p)
    \/ StartAdd(p) \/ StartAccept(p) \/ Take(p) \/ LockCreator(p) \/ Count(p) \/ Insert(p)
    \/ StartRead(p) \/ Read(p) \/ ReadUnanswered(p)

Next ==
    \/ \E p \in Procs : Request(p)
    \/ Drop \/ RemoveModerator \/ EndInvite \/ CreatePost \/ HidePost
    \/ Membership \/ Invalidate \/ Tick

Spec == Init /\ [][Next]_vars

-----------------------------------------------------------------------------
(* Properties *)

\* However many requests add at once, a creator never has more than the limits allow: 25
\* tokens, 12 sounds, 50 moderators, 10 open invitations.
Limits == \A k \in Kinds : Counted(k) <= MaxOf[k]

\* An invitation makes one person a moderator, or none: it is used by exactly the one who
\* joined by it, and none joins by one that was revoked.
InviteOnce ==
    \A i \in Invites :
        /\ invite[i] = "used" => Cardinality(joined[i]) = 1
        /\ invite[i] # "used" => joined[i] = {}

\* A save that carries the revision of what it was shown undoes no other: each setting is what
\* it was last changed to on purpose, also by the form that shows and sends every setting.  (A
\* save without a revision writes back all it sends: a word filter or support links shown before
\* another save of the same.)
SavesStay == \A d \in Docs : row[d].set = saved[d]

\* The text of a post is served only to a reader who held a tier that reads it at most Ttl
\* ago, whatever answers are cached and whichever plans are known.
BodyForMembers ==
    [][\A p \in Procs : Read(p) /\ Opens(p) => \E n \in 0..Ttl : recent[n] # 0 /\ Reaches(recent[n])]_vars
=============================================================================
