--------------------------- MODULE OverlayStream ---------------------------
(***************************************************************************)
(* The overlay streams of one creator: overlay_deliveries                  *)
(* (domain/overlays.js), the live streams of every process                 *)
(* (domain/overlay-hub.js) and the page that shows them                    *)
(* (public/js/overlay.js).                                                 *)
(*                                                                         *)
(* Rows get their sequence number when they are inserted and are read when *)
(* they are committed.  What a stream must hear (new rows, a retraction, a *)
(* revoked token) is published after the commit and read by each process   *)
(* when it gets to it, in any order, if it reaches it at all: publishing   *)
(* and subscribing may fail.  Within a stream, one thing is done at a      *)
(* time, and each await is a step.                                         *)
(***************************************************************************)
EXTENDS Naturals, FiniteSets, Sequences, SequencesExt, FiniteSetsExt

CONSTANTS
    Streams,      \* pages with the overlay open, each streaming from a process of its own
    Wants,        \* [Streams -> SUBSET Rows]: what scopes and minimum amount let through
    MaxRows,      \* bound: deliveries inserted
    PushLimit,    \* rows a push reads at once (200)
    FirstLimit,   \* rows a first connection reads (100)
    ReplayLimit,  \* rows a reconnection replays
    MaxStreams,   \* TIPS_OVERLAY_MAX_STREAMS of the token
    MaxDrops,     \* bound: connections and processes that die
    MaxHides,     \* bound: alerts hidden
    MaxFailures   \* bound: messages and subscriptions that fail

Rows == 1..MaxRows

ASSUME OverlayConstantsOK ==
    /\ IsFiniteSet(Streams) /\ Wants \in [Streams -> SUBSET Rows]
    /\ MaxRows \in Nat /\ PushLimit \in Nat \ {0} /\ FirstLimit \in Nat \ {0}
    /\ ReplayLimit \in Nat \ {0} /\ MaxStreams \in Nat /\ MaxDrops \in Nat /\ MaxHides \in Nat
    /\ MaxFailures \in Nat

VARIABLES
    row,      \* [Rows -> RowStates]: overlay_deliveries
    next,     \* the sequence: the next row's number
    events,   \* [Rows -> SUBSET {"delivered", "failed"}]: tips.overlay.* events written
    stream,   \* [Streams -> StreamStates]: the server's side
    mail,     \* [Streams -> [Messages -> Nat]]: published, not yet read by the stream's process
    missed,   \* [Streams -> Misses]: history, of what did not reach the stream
    page,     \* [Streams -> Pages]: the browser's side
    slots,    \* stream places taken in the shared count by processes that died
    revoked,  \* the token was revoked
    drops, failures,
    hides     \* [Rows -> Nat]: times the alert was hidden

vars == <<row, next, events, stream, mail, missed, page, slots, revoked, drops, hides, failures>>
db   == <<row, next, events>>

RowStates == [status : {"none", "open", "pending", "delivered", "failed"},
              hidden : BOOLEAN, old : BOOLEAN]     \* old: past the delivery window

Tasks    == {<<"start">>, <<"push">>} \cup {<<"retract", r>> : r \in Rows}
Messages == {<<"new">>, <<"revoke">>} \cup {<<"retract", r>> : r \in Rows}

\* sub: the subscription is asked for, failed (it is tried again) or in place; at: the await the
\* stream's task is in; top, since: the newest row when its start began and when it read what
\* to show; batch: what it is about to write, fresh: those it read as pending; wrote: written
\* on this connection.
StreamStates ==
    [pc : {"none", "reserved", "open"}, sub : {"asked", "failed", "heard"},
     at : {"idle", "fetch", "deliver", "write"},
     chain : Seq(Tasks), queued : BOOLEAN, last : Nat, top : Nat, since : Nat,
     batch : SUBSET Rows, fresh : SUBSET Rows, wrote : SUBSET Rows]

Pages == [shown : SUBSET Rows, retracted : SUBSET Rows, lastId : Nat]

\* late: rows that wait for another's notification, theirs was lost or a full push left them;
\* unaware: rows whose last retraction was lost.
Misses == [late : SUBSET Rows, unaware : SUBSET Rows]

NoMail      == [m \in Messages |-> 0]
NothingLost == [late |-> {}, unaware |-> {}]

NoStream == [pc |-> "none", sub |-> "asked", at |-> "idle", chain |-> <<>>, queued |-> FALSE,
             last |-> 0, top |-> 0, since |-> MaxRows + 1, batch |-> {}, fresh |-> {},
             wrote |-> {}]

Init ==
    /\ row     = [r \in Rows |-> [status |-> "none", hidden |-> FALSE, old |-> FALSE]]
    /\ next    = 1
    /\ events  = [r \in Rows |-> {}]
    /\ stream  = [s \in Streams |-> NoStream]
    /\ mail    = [s \in Streams |-> NoMail]
    /\ missed  = [s \in Streams |-> NothingLost]
    /\ page    = [s \in Streams |-> [shown |-> {}, retracted |-> {}, lastId |-> 0]]
    /\ slots   = 0
    /\ revoked = FALSE
    /\ hides   = [r \in Rows |-> 0]
    /\ drops   = 0 /\ failures = 0

-----------------------------------------------------------------------------
(* Deliveries *)

Committed == {r \in Rows : row[r].status \notin {"none", "open"}}
Sendable  == {r \in Committed : row[r].status # "failed" /\ ~row[r].hidden}
Newest    == Max(Committed \cup {0})

Open    == {s \in Streams : stream[s].pc = "open"}
Hearing == {s \in Open : stream[s].sub = "heard"}

\* Streams a message to some does not reach, of those that may have read already.
Deaf(to) == {s \in Open \ to : stream[s].sub # "asked"}

\* A message on overlay:<creator> reaches the processes that are subscribed.  When publishing
\* fails, the streams of the publisher's own process hear it, subscribed or not; and Valkey
\* keeps no message for a process that is away.
Publish(m, to) ==
    /\ \/ to = Hearing /\ UNCHANGED failures
       \/ failures < MaxFailures /\ failures' = failures + 1
    /\ mail' = [s \in Streams |-> IF s \in to THEN [mail[s] EXCEPT ![m] = @ + 1] ELSE mail[s]]

\* Mutant: no advisory lock, transactions of one creator insert side by side.
StreamLockNever == TRUE

\* pg_advisory_xact_lock: the creator's previous insert has committed.
StreamLock == \A r \in Rows : row[r].status # "open"

\* insertDelivery(): the row takes its number; others see it at the commit.
Insert ==
    /\ next \in Rows /\ StreamLock
    /\ row'  = [row EXCEPT ![next].status = "open"]
    /\ next' = next + 1
    /\ UNCHANGED <<events, stream, mail, missed, page, slots, revoked, drops, hides, failures>>

Commit(r) ==
    /\ row[r].status = "open"
    /\ row' = [row EXCEPT ![r].status = "pending"]
    /\ \E to \in SUBSET Open :
          /\ Publish(<<"new">>, to)
          /\ missed' = [s \in Streams |-> [missed[s] EXCEPT !.late =
                           IF s \in to THEN {} ELSE IF s \in Deaf(to) THEN @ \cup {r} ELSE @]]
    /\ UNCHANGED <<next, events, stream, page, slots, revoked, drops, hides>>

AllHides == FoldFunction(+, 0, hides)

\* retract(): hidden in the moderator's transaction, published after it.
Retract(r) ==
    /\ r \in Committed /\ ~row[r].hidden /\ AllHides < MaxHides
    /\ row'   = [row EXCEPT ![r].hidden = TRUE]
    /\ hides' = [hides EXCEPT ![r] = @ + 1]
    /\ \E to \in SUBSET Open :
          /\ Publish(<<"retract", r>>, to)
          /\ missed' = [s \in Streams |-> [missed[s] EXCEPT !.unaware =
                           IF s \in to THEN @ \ {r} ELSE IF s \in Deaf(to) THEN @ \cup {r} ELSE @]]
    /\ UNCHANGED <<next, events, stream, page, slots, revoked, drops>>

\* unretract(): nothing is published.
Unretract(r) ==
    /\ row[r].hidden
    /\ row' = [row EXCEPT ![r].hidden = FALSE]
    /\ UNCHANGED <<next, events, stream, mail, missed, page, slots, revoked, drops, hides,
                   failures>>

WindowEnds(r) ==
    /\ r \in Committed /\ ~row[r].old
    /\ row' = [row EXCEPT ![r].old = TRUE]
    /\ UNCHANGED <<next, events, stream, mail, missed, page, slots, revoked, drops, hides,
                   failures>>

\* sweepFailed(): no overlay showed it within the window.
SweepFailed(r) ==
    /\ row[r].status = "pending" /\ ~row[r].hidden /\ row[r].old
    /\ row'    = [row EXCEPT ![r].status = "failed"]
    /\ events' = [events EXCEPT ![r] = @ \cup {"failed"}]
    /\ UNCHANGED <<next, stream, mail, missed, page, slots, revoked, drops, hides, failures>>

-----------------------------------------------------------------------------
(* Streams: connect, close *)

\* Mutant: open streams are counted, not the places taken.
PlacesOpen == Cardinality({s \in Streams : stream[s].pc = "open"}) + slots

\* hub.reserve(): places of this token, those of dead processes until they lapse.
Places == Cardinality({s \in Streams : stream[s].pc # "none"}) + slots

\* GET /overlay/:token/events: the token is checked and a place taken; later, attached.
Reserve(s) ==
    /\ stream[s].pc = "none" /\ ~revoked /\ Places < MaxStreams
    /\ stream' = [stream EXCEPT ![s].pc = "reserved"]
    /\ UNCHANGED <<db, mail, missed, page, slots, revoked, drops, hides, failures>>

Attach(s) ==
    /\ stream[s].pc = "reserved"
    /\ stream' = [stream EXCEPT ![s] = [NoStream EXCEPT !.pc = "open", !.queued = TRUE,
                                           !.chain = <<<<"start">>, <<"push">>>>]]
    /\ mail'   = [mail EXCEPT ![s] = NoMail]
    /\ missed' = [missed EXCEPT ![s] = NothingLost]
    /\ UNCHANGED <<db, page, slots, revoked, drops, hides, failures>>

\* The subscription is in place, at the first try or after it is tried again.
Subscribed(s) ==
    /\ stream[s].pc = "open" /\ stream[s].sub # "heard"
    /\ stream' = [stream EXCEPT ![s].sub = "heard"]
    /\ UNCHANGED <<db, mail, missed, page, slots, revoked, drops, hides, failures>>

\* The first try failed: nobody waits for the next.
SubscribeFails(s) ==
    /\ stream[s].pc = "open" /\ stream[s].sub = "asked" /\ failures < MaxFailures
    /\ stream'   = [stream EXCEPT ![s].sub = "failed"]
    /\ failures' = failures + 1
    /\ UNCHANGED <<db, mail, missed, page, slots, revoked, drops, hides>>

Detached(s) ==
    /\ stream' = [stream EXCEPT ![s] = NoStream]
    /\ mail'   = [mail EXCEPT ![s] = NoMail]
    /\ missed' = [missed EXCEPT ![s] = NothingLost]

\* The connection ends (its place is given back), or its process dies (the place lapses
\* after three missed heartbeats).  The page connects again with the last id it got.
Drop(s) ==
    /\ stream[s].pc # "none" /\ drops < MaxDrops
    /\ Detached(s)
    /\ drops' = drops + 1
    /\ slots' \in {slots, slots + 1}
    /\ UNCHANGED <<db, page, revoked, hides, failures>>

Lapse ==
    /\ slots > 0
    /\ slots' = slots - 1
    /\ UNCHANGED <<db, stream, mail, missed, page, revoked, drops, hides, failures>>

Revoke ==
    /\ ~revoked
    /\ revoked' = TRUE
    /\ \E to \in SUBSET Open : Publish(<<"revoke">>, to)
    /\ UNCHANGED <<db, stream, missed, page, slots, drops, hides>>

-----------------------------------------------------------------------------
(* Streams: what they do, one task of the chain after the other *)

\* onMessage(): a push is queued once; a retraction waits for what the stream is doing;
\* a revocation does not wait.
Hear(s) ==
    /\ \E m \in Messages :
          /\ mail[s][m] > 0
          /\ IF m = <<"revoke">> THEN Detached(s)
             ELSE /\ mail' = [mail EXCEPT ![s][m] = @ - 1]
                  /\ stream' =
                       IF m = <<"new">>
                       THEN IF stream[s].queued THEN stream
                            ELSE [stream EXCEPT ![s].queued = TRUE,
                                                ![s].chain = Append(@, <<"push">>)]
                       ELSE [stream EXCEPT ![s].chain = Append(@, m)]
                  /\ UNCHANGED missed
    /\ UNCHANGED <<db, page, slots, revoked, drops, hides, failures>>

Task(s) == IF stream[s].chain = <<>> THEN <<"none">> ELSE Head(stream[s].chain)

\* The newest, or the oldest, n of a set of rows.
NewestOf(n, S) == {r \in S : Cardinality({q \in S : q > r}) < n}
OldestOf(n, S) == {r \in S : Cardinality({q \in S : q < r}) < n}

\* Mutant: the stream reads before its subscription was answered.
StartSeesEarly(s) == TRUE

\* start() waits for the first subscription, whether it is in place or failed.
StartSees(s) == stream[s].sub # "asked"

\* start(): the newest row at the connection.
Start(s) ==
    /\ Task(s) = <<"start">> /\ stream[s].at = "idle" /\ StartSees(s)
    /\ stream' = [stream EXCEPT ![s].top = Newest, ![s].at = "fetch"]
    /\ UNCHANGED <<db, mail, missed, page, slots, revoked, drops, hides, failures>>

\* deliver(), up to its first await: what was read is passed, what the overlay shows kept.
Deliver(s, rows, last) ==
    stream' = [stream EXCEPT ![s].last  = Max(rows \cup {last}),
                             ![s].batch = rows \cap Wants[s],
                             ![s].fresh = {r \in rows : row[r].status = "pending"},
                             ![s].since = Newest,
                             ![s].at    = IF rows \cap Wants[s] = {} THEN "write" ELSE "deliver"]

\* A first connection shows what is pending; a reconnection replays after the last id.
Fetch(s) ==
    LET after  == page[s].lastId
        replay == NewestOf(ReplayLimit, {r \in Sendable : r > after})
        first  == OldestOf(FirstLimit, {r \in Sendable : row[r].status = "pending" /\ ~row[r].old})
    IN  /\ Task(s) = <<"start">> /\ stream[s].at = "fetch"
        /\ IF after = 0 THEN Deliver(s, first, stream[s].last)
           ELSE Deliver(s, replay, IF replay = {} THEN stream[s].top ELSE Min(replay) - 1)
        /\ UNCHANGED <<db, mail, missed, page, slots, revoked, drops, hides, failures>>

\* Mutant: a push reads what nobody showed yet.
UnseenPending(s) == {r \in Sendable : row[r].status = "pending"}

\* What is newer than the last row read.
Unseen(s) == {r \in Sendable : r > stream[s].last}

\* pushNew()
Push(s) ==
    /\ Task(s) = <<"push">> /\ stream[s].at = "idle"
    /\ LET rows == OldestOf(PushLimit, Unseen(s))
       IN  /\ stream' = [stream EXCEPT
                 ![s].queued = FALSE,
                 ![s].last   = Max(rows \cup {@}),
                 ![s].batch  = rows \cap Wants[s],
                 ![s].fresh  = {r \in rows : row[r].status = "pending"},
                 ![s].at     = IF rows \cap Wants[s] = {} THEN "write" ELSE "deliver"]
           /\ missed' = [missed EXCEPT ![s].late = Unseen(s) \ rows]
    /\ UNCHANGED <<db, mail, page, slots, revoked, drops, hides, failures>>

\* Mutant: what was read as pending is recorded whatever it became meanwhile.
FirstSendsAll(s) == stream[s].batch \cap stream[s].fresh

\* Read as pending, and pending still.
FirstSends(s) == {r \in stream[s].batch \cap stream[s].fresh : row[r].status = "pending"}

\* recordSends(): just before the bytes are written.
RecordSends(s) ==
    /\ stream[s].at = "deliver"
    /\ row'    = [r \in Rows |-> IF r \in FirstSends(s) THEN [row[r] EXCEPT !.status = "delivered"]
                                 ELSE row[r]]
    /\ events' = [r \in Rows |-> IF r \in FirstSends(s) THEN events[r] \cup {"delivered"}
                                 ELSE events[r]]
    /\ stream' = [stream EXCEPT ![s].at = "write"]
    /\ UNCHANGED <<next, mail, missed, page, slots, revoked, drops, hides, failures>>

\* A start passes everything it saw, shown or not.
Passed(s) == IF Task(s) = <<"start">> THEN Max({stream[s].last, stream[s].top})
             ELSE stream[s].last

\* The bytes are written; the page shows what it has not shown and nobody took back.
Write(s) ==
    LET batch == stream[s].batch
    IN  /\ stream[s].at = "write"
        /\ stream' = [stream EXCEPT ![s].at = "idle", ![s].chain = Tail(@), ![s].batch = {},
                                    ![s].fresh = {}, ![s].wrote = @ \cup batch,
                                    ![s].last = Passed(s)]
        /\ page'   = [page EXCEPT ![s].shown = @ \cup (batch \ page[s].retracted),
                                  ![s].lastId = Max(batch \cup {@})]
        /\ UNCHANGED <<db, mail, missed, slots, revoked, drops, hides, failures>>

RetractTurn(s) == stream[s].at = "idle" /\ stream[s].chain # <<>>

\* The page drops the alert from its queue or its screen.
WriteRetract(s) ==
    LET r == Head(stream[s].chain)[2]
    IN  /\ RetractTurn(s) /\ Head(stream[s].chain)[1] = "retract"
        /\ stream' = [stream EXCEPT ![s].chain = Tail(@)]
        /\ page'   = [page EXCEPT ![s].shown = @ \ {r}, ![s].retracted = @ \cup {r}]
        /\ UNCHANGED <<db, mail, missed, slots, revoked, drops, hides, failures>>

-----------------------------------------------------------------------------
(* Specification *)

Streaming(s) ==
    \/ Subscribed(s) \/ SubscribeFails(s) \/ Hear(s) \/ Start(s) \/ Fetch(s) \/ Push(s)
    \/ RecordSends(s) \/ Write(s) \/ WriteRetract(s)

Next ==
    \/ Insert
    \/ \E r \in Rows : Commit(r) \/ Retract(r) \/ Unretract(r) \/ WindowEnds(r) \/ SweepFailed(r)
    \/ \E s \in Streams : Reserve(s) \/ Attach(s) \/ Drop(s) \/ Streaming(s)
    \/ Lapse
    \/ Revoke

Spec == Init /\ [][Next]_vars

-----------------------------------------------------------------------------
(* Properties *)

\* Every variable stays in its type.
TypeOK ==
    /\ row \in [Rows -> RowStates] /\ next \in 1..MaxRows + 1
    /\ events \in [Rows -> SUBSET {"delivered", "failed"}]
    /\ stream \in [Streams -> StreamStates] /\ mail \in [Streams -> [Messages -> Nat]]
    /\ missed \in [Streams -> Misses]
    /\ page \in [Streams -> Pages]
    /\ slots \in Nat /\ revoked \in BOOLEAN /\ drops \in Nat
    /\ hides \in [Rows -> Nat] /\ failures \in Nat

\* A delivery has one outcome: its first write and the end of its window race, and one of
\* the two events is published.
OneOutcome ==
    \A r \in Rows :
        /\ Cardinality(events[r]) <= 1
        /\ row[r].status \in {"delivered", "failed"} <=> events[r] = {row[r].status}

\* A stream sees a row once and in order: what is written on a connection is newer than
\* everything written on it before, though rows are hidden and shown again.
OnceInOrder ==
    [][\A s \in Streams :
          stream[s].at = "write" /\ stream'[s].at = "idle" /\ stream'[s].pc = "open" =>
              \A r \in stream[s].batch, q \in stream[s].wrote : q < r]_vars

\* The comment at the head of overlay-hub.js: a lost message costs a push that the next one
\* makes up.  A stream with nothing left to do or to hear has written every row it shows that
\* was committed since it read what to begin with, but those whose notification was lost or
\* whose push was full, as long as it heard no notification since; and that though rows are
\* numbered before they are committed, notifications are joined, and a stream may begin
\* without its subscription.  (A row that was hidden once or is too old is left out.)
Quiet(s) ==
    stream[s].pc = "open" /\ stream[s].chain = <<>> /\ mail[s] = NoMail

Shows(s) == {r \in Sendable \cap Wants[s] : hides[r] = 0 /\ ~row[r].old}

NothingSkipped ==
    \A s \in Streams : Quiet(s) =>
        \A r \in Shows(s) : r > stream[s].since => r \in stream[s].wrote \cup missed[s].late

\* A stream passes no row it shows that was committed since it read what to begin with, though
\* a push reads only so many: it wrote the row, is writing it, or reads on from before it.
NothingPassed ==
    \A s \in Streams : stream[s].pc = "open" =>
        \A r \in Shows(s) : r > stream[s].since =>
            r \in stream[s].wrote \cup stream[s].batch \/ r > stream[s].last

\* The comment of hub.attach(): nothing committed after the subscription is missed.
NothingMissed ==
    \A s \in Streams : Quiet(s) =>
        \A r \in Shows(s) : r > stream[s].top => r \in stream[s].wrote

\* A hidden alert written on a connection is taken back on it: the retraction was written
\* after it or is on its way, whatever the stream was doing when the moderator hid it.  Only a
\* retraction that did not reach the stream's process is never made up.
HiddenIsTakenBack ==
    \A s \in Streams : stream[s].pc = "open" =>
        \A r \in stream[s].wrote : row[r].hidden /\ r \in page[s].shown =>
            \/ mail[s][<<"retract", r>>] > 0 \/ mail[s][<<"revoke">>] > 0
            \/ \E n \in 1..Len(stream[s].chain) : stream[s].chain[n] = <<"retract", r>>
            \/ r \in missed[s].unaware

\* A token never has more streams than it may, in all processes together.
StreamCap == Cardinality({s \in Streams : stream[s].pc = "open"}) <= MaxStreams
=============================================================================
