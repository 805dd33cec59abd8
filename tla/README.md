# OpenVibe.Tips: TLA+ specifications, model checking and proofs

OpenVibe.Tips is a Node.js service on PostgreSQL. Viewers tip creators in Vibes (bits), by credit or
by a checkout; OpenVibe.Billing moves the money, OpenVibe.Events announces what Billing did, and Tips
records, shows, counts and sends each tip. This directory specifies the part that is hard to get
right: what happens to a tip, a goal, an overlay or a creator's settings when requests, job loops,
Billing's answers, redelivered events, moderators and crashing processes meet. Paths below are
relative to the repository root, `server/` is `src/server/`.

## 1. The system

### Components, state and operations

| Component | State it keeps | Operations | Modelled in |
|---|---|---|---|
| Interactions and settlement (`server/domain/interactions.js`) | `tip_interactions` (payment_state, delivery_state, moderation, transaction ids, transfer lease), `paid_messages`, `paid_media_requests` | request, transfer, startCheckout, processDueTransfers, settle, release, failPayment, onBillingSettled, onBillingReversed, onBillingExternal, recordExternal, simulate, cancelQueued, recomputeDelivery, erase | `Interaction`, `Settlement`; `Requests` (request, erase) |
| Event inbox (`server/events/consumer.js`) | `tips_event_inbox` | apply: claim an event id and apply the event in one transaction | `Settlement`, `Creator` (vip.membership.changed) |
| Billing client (`server/billing-client.js`) | none | createIntent, createTransfer, each under a key derived from the interaction | `Settlement` |
| Moderation (`server/domain/moderation.js`, `filter.js`) | moderation columns, moderators, invitations | screen, hide, restore; addModerator, createInvite, acceptInvite, revoke | `Settlement`, `Delivery`; `Creator` |
| Effects worker (`server/domain/effects.js`, `server/delivery/`) | `interaction_effects` (state, attempts, lease) | claim, runOne, the chat adapter, markDone, markFailed, drain | `Delivery` |
| Goals (`server/domain/goals.js`) | `tip_goals`, `tip_goal_contributions` | create, update, close, pick, contribute, reverse, markReached, changed | `Goals` |
| Overlay streams (`server/domain/overlays.js`, `overlay-hub.js`, `public/js/overlay.js`) | `overlay_deliveries`, open streams of each process, what a page shows | insertDelivery, reserve, attach, push, recordSends, sweepFailed, retract, unretract, revoke, reconnect | `OverlayStream` |
| Idempotency keys (`server/api/idempotency.js`) | `api_idempotency` | claim, take over, store, replay, release | `Requests` |
| API and pages (`server/api/v1.js`, `server/web/`) | sessions, rate counters | the endpoints that call the above | with what they call |
| Profiles, settings, sounds, tokens (`profiles.js`, `sounds.js`, `overlays.js`) | their rows | saves by form and by patch, additions under limits | `Creator` |
| Posts and memberships (`posts.js`, `server/vip/client.js`) | `creator_posts`; a cache of entitlements per process | create, hide, read; invalidate | `Creator` |
| Privacy (`account-data.js`, `privacy.js`) | none of its own | erase, export | `Requests` (erase) |
| Jobs (`server/index.js`) | timers | effects.drain, processDueTransfers, sweepFailed, prunes | with what they run |
| Outbox (`server/events/outbox.js`) | `tips_event_outbox` | emitIn, the relay (openvibe-sdk) | what is written, with its transaction |

### How they interact

* A request handler claims its key, commits the row (`request`), calls Billing outside any transaction
  (`transfer` or `startCheckout`), commits what the answer means, and stores its own answer under the
  key. A process can die, a connection close, or an answer be lost or late, between any two of these.
* Billing's events come through `POST /internal/events`, at least once, in an order Tips does not
  control (a delivery answered 500 is retried later). The inbox claim and the change are one
  transaction; the change calls `settle`, which calls goals, overlays and the outbox in the same
  transaction.
* A funded checkout makes a transfer due. Every process runs `processDueTransfers`, which claims a
  batch under a lease of five minutes and calls Billing for each row in turn.
* `release` queues chat effects, which every process's effects worker claims and sends; moderators
  hide and restore; a reversal cancels what was not sent.
* A settlement, a reversal or an edit changes a goal under its row lock and announces it under a new
  revision to overlays and Events. An alert gets its number in the creator's stream under an advisory
  lock and is published after the commit; each process that hears of it reads the rows and writes them to
  its streams. Publishing and subscribing may fail (`server/domain/overlay-hub.js:138-151`): then some do not hear.
* Locks of several tables are taken in one order (`server/domain/index.js`): creator, interactions,
  goals, the stream.

### What makes it correct

* **Settlement**: one payment reaches Tips as an answer, as events under several ids and from several
  processes; it must count once, for its own amount, and only move forward. What Billing moved must be
  settled in the end. Totals must equal Billing's books.
* **What is shown**: nothing before the payment; nothing held was ever shown; what ended is never sent
  again; viewers read a line once; every queued effect ends.
* **Goals**: reached exactly while it is, the last announcement is true, an edit that carries a revision
  overwrites nothing its editor did not see, nobody waits for ever.
* **Overlay streams**: each alert once and in order, delivered or failed, taken back when hidden,
  none skipped, but for what a lost message leaves.
* **Requests**: a key moves money once, one handler at a time, the right replay; an erasure leaves
  nothing that names its supporter.
* **A creator's rows**: limits under concurrent additions, an invitation makes one moderator, a save that
  carries a revision undoes no other, members-only text goes to members.

`PROJECT.json` lists every hazard with its line (`hazards`) and the properties that would catch it
going wrong; the few without a property say why.

## 2. Modules

| Module | What it is |
|---|---|
| `Interaction` | One interaction's rows and what each transaction of the code makes of them, as operators from rows to rows. No state. |
| `Settlement` | The actors around the money: handlers, job loops, Billing, Events, the inbox, moderators. Extends `Interaction`. |
| `TipLifecycle` | The abstract promise: an interaction is paid by at most one payment, a payment pays at most one interaction, settled is only ever taken back. `Settlement` implements it (`ImplementsLifecycle`), which is checked and proved. |
| `Delivery` | The effects workers and the chat adapter, step by step. Extends `Interaction`. |
| `Goals` | The goals of one creator: transactions with snapshots and row locks. |
| `OverlayStream` | The overlay streams of one creator, from the inserted row to the page. |
| `Requests` | Paid requests of one supporter from the HTTP request to the stored answer, and the erasure. |
| `Creator` | What one creator keeps: settings, limits, invitations, and a member's view of a post. |
| `MCSettlement`, `MCDelivery`, `MCGoals`, `MCOverlay`, `MCRequests`, `MCCreator` | The instances TLC checks, with their `.cfg` files. |
| `...Proofs` | TLAPS proofs (section 5). |

Each detailed module is about one shared resource (a row's money, an effect's lease, a goal's lock, a
stream, a key, a creator's row) with every actor that touches it. They meet in `Interaction`, whose
operators `Settlement` and `Delivery` both use, and in the facts one module promises another: `Settlement`
says a settlement commits once (`RowsOK`, `ReadyOnce`), so `Goals` lets a tip settle once; `Settlement`
queues effects only when paid and visible (`QueueIsLive`), which is where `Delivery` starts; and `Delivery`
says that all its processes do to a row is what `Settlement` has them do (`RowsAsAgreed`, checked and proved), while
`Settlement` says that its rows are those of `Delivery` (`DeliveryHasTheRows`, proved).

### Interaction

A row is two records, as the code keeps two state machines. `MoneyRows` is the money: kind, origin,
funding, amount, the test flag, `payment_state`, `billing_txn_id`, `funding_txn_id`, whether a checkout
intent exists, `provider_ref`, whether a transfer is due and whether it waits (backoff or lease), the
bits and the transactions taken back. `ShowRows` is what hangs on it: `delivery_state`, moderation, the
five effects, the overlay alert's row, the paid message or media row, the goal contribution and its
reversed part, and how often each `tips.interaction.*` event was written.

| Operator | Code |
|---|---|
| `SettledMoney`, `SettledShow`, `Release`, `ChatEffects`, `RecomputeDelivery` | `settle`, `release`, `recomputeDelivery` |
| `FailedMoney`, `FailedShow` | `failPayment` |
| `ReversedMoney`, `ReversedShow`, `Taken`, `CancelQueued` | `onBillingReversed`, `goals.reverse`, `cancelQueued` |
| `Hidden`, `Restored` | `moderation.hide`, `moderation.restore` with `overlays.retract`, `unretract` |
| `EffectDone`, `EffectFailed` | `effects.markDone`, `effects.markFailed` on its last attempt |

Data is abstracted to what the properties tell apart: text, names, media links, voices, creators and
supporters are gone. "Same amount, creator and supporter" is one Boolean of a Billing entry
(`parties`) and the amount. Whether the word filter matches and whether a goal is picked are free
choices. The `mask` action of the filter only changes what is written and is the choice "not held".

### Settlement

| Variable | Code |
|---|---|
| `money`, `show` | the rows above; payment `absent` is "no row yet" |
| `work` | what each process is doing with Billing: calling, answered, and the rest of its claimed batch |
| `ledger` | Billing: transfers and purchases of Tips (one of each per interaction, by key), donations of other products, what refunds took back |
| `bus`, `inbox` | events published, and applied (`tips_event_inbox`) |
| `crashes` | counts deaths, only for the bound |

`Request` commits a row and begins the call; `Billing...` actions are what Billing may do with a call
(move the bits, refuse, be unreachable, lose the answer); `FinishTransfer` and `FinishCheckout` are what
follows the answer. `Crash` forgets a call at any point. `ProcessDueTransfers` claims any due rows up to
the batch size (SKIP LOCKED) and works through them; `TimePasses` ends a backoff or a lease, even while
the process that holds it is still at work. `OnDonation`, `OnPurchase`, `OnReversed`, `OnExternal` are the
event handlers with the inbox claim; `RecordExternal`, `Simulate`, `Hide`, `Restore`, `MarkDone`,
`MarkFailed` are the other transactions on a row. Money transactions are SERIALIZABLE and take the row's
lock first, so each is one step.

* A settling transaction that fails after Billing answered takes the same `catch` as a lost answer, so
  it is the answer `lost`. A refusal's own transaction that fails is a `Crash`.
* The link of a checkout reaches the supporter only after `billing_intent_id` is stored, so a purchase
  event always finds its row.
* A donation of another product has funding `provider` or `credit`; both belong in Billing's books, and
  the model writes `provider`.
* Events about unknown interactions, without amount or recipient, are answered and change nothing, as
  does an unknown event type; they are left out. So are imports from Live (history, origin `import`).
* `MarkDone` and `MarkFailed` run here for queued effects in one step; how a worker comes to them is
  `Delivery`. Both modules share `Interaction.Ends` and `Moderates`, so that each can be held to the other
  (section 5, *Two modules of one row*).
* A purchase in Billing's test mode can mark a row as a test payment after its transfer settled it; this
  is why `GoalFollowsMoney` and `ReadyOnce` speak of rows that are not test payments.

### Delivery

| Variable | Code |
|---|---|
| `money`, `show` | as in `Settlement`, from the settlement of each tip: released, held by the filter, or hidden before |
| `attempts`, `waiting` | `interaction_effects.attempts`, and `next_attempt_at` in the future (backoff or lease) |
| `worker` | each process's batch, the effect in hand, what it does next, and the attempts its claim read |
| `applied`, `lines` | Chat: the keys it applied, the lines a viewer sees |
| `failures`, `refused` | history the properties compare with |

`Claim` takes any due effects up to the batch (SKIP LOCKED) under a lease. `Check` reads the effect again and
gives up what another process ended, `Look` reads the interaction, `CancelUnpaid` and `CancelUnseen` commit
what it found; `PostLine` and `PostAlert` are the adapter's calls (a line, then for an alert a second call),
`PostUnavailable` a failure or a lost answer after Chat applied the key, `PostRefused` a permanent one, which may
also come on a later attempt, after a line whose answer was lost (the room is looked up again each time);
`MarkDone`, `MarkFailed` commit with `state = 'queued'` as their condition. `TimePasses` ends a lease or a
backoff, also under a worker that still has the effect in hand: that is the batch of 20 calls of up to 20 s
against a lease of 300 s. `Crash`, `Hide`, `Restore` and `Reverse` come between any two steps.

Between `Look` and the call a tip can be hidden; its line is then sent, although `effects.js:15` says what was
hidden meanwhile is never delivered. The properties state what the code does guarantee.

`Settled` is the money of the tips in play, rows as a settlement writes them. A test payment goes to the test
adapter instead of Chat; the model has it go to Chat, whose answers include that adapter's.

### Goals

`tx[p]` is the transaction a process runs: its operation, the locks it has still to take, in order, and for
the SERIALIZABLE ones the goals and contributions their first statement saw. `Begin...` starts one, `Lock`
takes the next lock, or starts over a SERIALIZABLE transaction whose goal changed since its snapshot,
`CountActive` is the count of `create()`, and `Commit...` does everything of the operation at once: the rows
it locked cannot change before. `contrib` is `tip_goal_contributions`, `told` what `changed()` announced
last of each goal, with the total its transaction read. `paid` keeps the tips' settlements apart. A `create`
takes an id of its own, which is why two of them never create the same goal.

`update()` compares revisions only when the request carries one (`goals.js:155`, `161`); the dashboard's form
does, a `PATCH /goals/:id` need not (`server/api/v1.js:325`). `BeginEdit` keeps the row the editor saw and picks its
revision or none (0); `Conflict` is the refusal. An edit without a revision overwrites what it finds, so
`NoLostEdit` speaks of the edits that carry one: such an edit commits only over the goal exactly as it was seen.
A tip can be reversed several times, also for more than is left (`CommitReverse` takes what is left).
What `simulate()` shows of a goal, an overlay delivery marked as a test with the total as it would be
(`interactions.js:560-568`), changes no goal and no contribution and is not of `changed()`; it is left out here as in
`Settlement.Simulate`, and `LastWordIsTrue` is about `changed()`: after a simulation the last total an overlay
was sent is the would-be one, until the next change.

### OverlayStream

`row[r]` is the delivery with number `r`: `open` until its transaction commits, then `pending`, `delivered` or
`failed`; `stream[s]` is the server's side of one connection (its task queue, the await it is in, its subscription,
`lastSeq`, the rows it is about to write), `mail[s]` what was published and not read yet by its process, in any
order, `page[s]` what the browser shows. `Insert` and `Commit` are the two ends of a transaction that holds the
advisory lock; `Retract`, `Unretract`, `WindowEnds`, `SweepFailed` change rows. `Reserve`, `Attach`, `Subscribed`,
`SubscribeFails`, `Detached`, `Drop` and `Lapse` are a connection's life, with its place in the shared count. `Hear` reads
a message; `Start`, `Fetch`, `Push`, `RecordSends`, `Write` and `WriteRetract` are the steps of the stream's tasks, one
await each, and the stream runs one task at a time. A revocation detaches when it is heard.

The fan-out loses messages. `Publish` reaches the streams that are subscribed, or, when it fails, any set of open
streams: those of the publisher's own process, which hear it without Valkey, subscribed or not (the sets in
between are what Valkey does not carry to a process that is away). `SubscribeFails` is the first attempt failing: `start()` waits for
the attempt, not for its success (`overlay-hub.js:147-151`, `184`), so the stream reads and writes unsubscribed until
`Subscribed`, the retry, puts it in place. `missed[s]` is history: `late`, the rows whose notification
did not reach the stream, or that a full push left, and that no other notification has come for since; `unaware`, the rows
whose last retraction did not reach it. `NothingSkipped` and `HiddenIsTakenBack` hold up to these two sets and no
further. They are about a stream that had begun to wait or read: what is lost before that, the start reads.

`Shows` leaves out the rows past the delivery window and those hidden at some time, row by row: a row that was hidden
while a stream passed it and restored later is not pushed again (`unretract` publishes nothing).

### Requests

`claim[k]` is the row of `api_idempotency`, `tip` the interactions in the order they are made, `alert` what of an
interaction names its supporter elsewhere, `charged` what Billing moved. A request goes through `Claim`
(or `Turned` away, `Replay`ed, or `Submit`ted by the form, whose nonce is the key), `Request` (with the previous
interaction of the key and the limit of unpaid checkouts, SERIALIZABLE), `Transfer` or `StartCheckout`, `Settle`,
`ReadAnswer`, `Store`, or `Refuse`. `Close` is a client that leaves, which releases the claim while the handler runs
on; `Age` makes a claim older than a minute; `Crash` ends a handler; `Erase` is the account's erasure;
`Background` settles by event or job what a dead handler left. `lost` and `racing` are history: handlers
whose claim was taken from under them, and answers being written when an erasure ran.

### Creator

Each statement is a step. `row` has the profile and the first overlay config, with a revision and two fields;
`lock` their row locks and those of invitations. `StartSave`, `LockRow`, `Save` are a save: it sends any of the
settings it was shown, one of them changed, with the revision it was shown at or with none. The page's and
the alerts' forms send all settings and the revision (`server/web/routes.js:311-320`, `362-368`) and are refused on a
conflict; the forms of the word filter and of the support links send the few they show without one
(`369-372`, `323-327`), and a client of the API does either. `saved` is what `SavesStay` holds the row to: a setting's
last change on purpose, or what a save without a revision sent. `Visit` and
`FirstConfig` are the dashboard's first visit. `StartAdd`, `LockCreator`, `Count`, `Insert` add a token, a sound, a
moderator or an invitation under the creator's lock; `StartAccept`, `Take` an invitation first; `Drop`,
`RemoveModerator`, `EndInvite` are the single statements that take away. `CreatePost`, `HidePost`, `StartRead`, `Read`,
`ReadUnanswered`, `Membership`, `Invalidate`, `Tick` are the post, its reader and the cached entitlement, which lives
`Ttl` ticks; plans may be unknown, and then only the lowest tier is trusted.

### Bounds

Constants that only bound TLC are named in the guards that use them: `MaxReversals`, `MaxRepublished`,
`MaxCrashes`, `MaxEdits`, `MaxRows`, `MaxDrops`, `MaxHides`, `MaxFailures`, `MaxFaults`, `MaxErases`, `MaxOps`, `MaxChanges`, and in
`Settlement` also `TestFlags` and `Watched` (the tips moderators, filter, goals and effects touch). Two are
assumptions on the environment: `InOrder` (Events delivers what concerns one transaction in Billing's
order) and `SameTransfers` (another product may make the very transfer Tips asks for). The theorems
hold for all of their values.

## 3. What the runs check

| Run | Instance | Properties | Shows |
|---|---|---|---|
| `settlement` | one text-to-speech tip (two effects, a paid row), one receipt, real and test payments, amount 2, two reversals, one process, all moderators and effects; 98 thousand states | `NothingBeforePayment`, `QueueIsLive`, `OverlayFollowsModeration`, `PaidRowFollows`, `GoalFollowsMoney`, `ReadyOnce`, `FailureIsTold`, `EffectsAreFinal`, `ImplementsLifecycle` | what is shown, sent and counted follows the money and the moderation, of two deliveries that end in any order a failure is told, and the payment implements `TipLifecycle` |
| `payments` | two tips, one donation of another product that may name a tip, one republished event, one reversal, batches of two; 514 thousand states up to symmetry | `TypeOK`, `OneRowPerPayment`, `BackedByBilling`, `BooksReconcile` | one transaction is one interaction, of its own amount, and the totals reconcile |
| `races` | one tip, two processes, one crash, lost answers, expiring leases, events in any order; fairness | `SettlementIsFinal`, `FundedIsGiven`, `MovedIsSettled` | payments move forward only; a funded checkout is given or refused; what Billing moved is settled |
| `delivery` | one paid message, whose delivery is a line and the sound of its alert, two processes, three attempts, one crash, hide, restore and reversal at any point; fairness | `LineOnce`, `DeliveredWasPosted`, `GivenUpForCause`, `RowsAsAgreed`, `QueuedEnds` | viewers read a line once over ended leases and lost answers; delivered was sent; given up had cause; the rows change as `Settlement` has them change; every queued effect ends |
| `goals` | two tips, three goals, two transactions at once, two active goals allowed, one edit or close, with a revision or without, tips reversed any number of times; 1.7 million states up to symmetry | `ReachedIsTrue`, `LastWordIsTrue`, `ActiveLimit`, `NoDeadlock`, `NoLostEdit` | goals and their announcements agree with the contributions, whatever transactions overlap, and an edit that carries a revision overwrites nothing unseen |
| `overlay` | two overlays with room for one, two alerts, one hide, one dropped connection or dead process, a revocation, two messages or subscriptions that fail, pushes, first connections and replays that read one row; 1.9 million states up to symmetry | `OneOutcome`, `NothingSkipped`, `NothingPassed`, `HiddenIsTakenBack`, `StreamCap`, `OnceInOrder` | each alert once, in order, delivered or failed; none is passed, and none is skipped or left shown when hidden but for a lost message or, until the next notification, a full push |
| `requests` | a request and its retry, the same key with another body, a form of the same supporter, one fault, one erasure; 1.9 million states up to symmetry | `OnceCharged`, `ReplayIsOwn`, `RunsOnce`, `ErasedIsGone` | one charge per key, one handler at a time, the right replay, nothing left of who was erased |
| `creator` | two requests at once, three in all, two people, one invitation, two settings, two tiers, saves with and without a revision, entitlements cached for one tick; 661 thousand states up to symmetry | `Limits`, `InviteOnce`, `SavesStay`, `BodyForMembers` | limits, invitations, saves and members-only text over concurrent requests and cached answers |
| `failed_moved` | one tip, two processes, one reversal, events in order | `FailedMovedNothing` (violated) | a finding, section 4 |
| `reordered` | one tip, one process, one reversal, events in any order | `BooksReconcile` (violated) | a finding, section 4 |
| `missed` | two overlays with room for both, two alerts | `NothingMissed` (violated) | a finding, section 4 |
| `retry` | as `requests`, checkouts only, without faults or erasures | `AnsweredIsBegun` (violated) | a finding, section 4 |

Why the instances are enough to be interesting: two reversals of an amount of 2 give every partial
refund and a refund above the rest; text-to-speech is the kind with two chat effects and a paid row,
a paid message the kind whose one effect takes two calls to Chat, between which everything can happen; two
tips and a donation suffice for one transaction to reach two rows; two processes for an answer, a claim or a mark to
arrive after another process's; three attempts for a failure to be written over another's. Three goals
with room for two let two creations race for the last place; two targets let an edit reach or unreach a
goal; amounts of 1 keep `goals` small: a reversal there is whole or, repeated, of what is gone; partial ones
are in `settlement`, and in the theorems of `GoalsProofs`, which are of every amount. One stream's place for two
overlays makes them race for it, and a drop or a dead process gives it back or not. In `overlay` every read is of
one of the two rows, so a push leaves a backlog; two failures are a lost retraction after a lost subscription, or
two lost notifications. Of the four requests
the first two are twins, the third collides on the key only and the fourth on the limit only. Symmetry is
used where there is no liveness property.

`CHECK_DEADLOCK FALSE` is set where the bounds end every behaviour: with all ids used and every event
applied nothing is left to do. `settlement` and `delivery` check for deadlock.

`PROJECT.json` has a mutant for every property: a plausible bug in one operator, under which TLC finds
that property violated with the same configuration.

### Fairness

`Settlement`'s `FairSpec` assumes of Tips only what `server/index.js` provides: every process's jobs loop keeps
running (weak fairness of `Working`), time passes. Of the outside: a call ends somehow (`Billing`), Billing
asked again and again answers in the end and the answer arrives (strong fairness of `BillingAnswers`), and
Events redelivers until it is accepted (weak fairness per transaction). Requests, payments,
reversals, moderators and crashes are owed by nobody. `FundedIsGiven` speaks of funded checkouts only: a
credit tip whose process dies before the call leaves a pending row no job takes up.

`Delivery`'s `FairSpec` is weak fairness of each process's `Working`, which `effects.drain` on a timer provides
(a call ends within its time-out, with an answer or without), and of `TimePasses` for each effect. Chat owes
nothing: with every call failing, `QueuedEnds` holds by the attempts, and a process that dies with an
effect leaves it to its lease.

## 4. Findings

* **`failed_moved`**: the comment of `failPayment` (`server/domain/interactions.js:353`) says of
  `pending → failed`: "nothing moved in Billing". A purchase reversed while its transfer is already at
  Billing fails the row although the bits moved, and `tips.interaction.cancelled` is published. The
  transfer's answer or event settles the row afterwards, which `races` checks; the state is a window.
* **`reordered`**: a reversal that is applied before the settlement it reverses finds no row, is
  answered `ignored`, and keeps its inbox claim (`server/domain/interactions.js:416`). The settlement then
  counts the full amount for good, and `settled_via_billing`, "the number that must equal Billing's books"
  (`README.md:143`), does not. With events in order (`payments`) the totals reconcile.
* **`missed`**: "The subscription is in place before start reads, so nothing committed meanwhile is missed"
  (`server/domain/overlay-hub.js:163`). A first connection reads `MAX(seq)` and later what is pending
  (`server/domain/overlays.js:331`, `347`). An alert committed in between, which the creator's other overlay
  shows and records as delivered, is in neither: when the first then reads a newer one, it passes the
  missed one for good. `NothingSkipped` holds for what is committed after the connection read what to begin with.
  The run has no lost message and no failed subscription (`MaxFailures = 0`): with them the sentence is false
  at once.
* **`retry`**: a checkout refused with 502 asks the supporter to "try again shortly"
  (`server/domain/interactions.js:252`). Under the same key the retry finds the interaction, and
  `server/api/v1.js:219` starts a payment only for a new one: it is answered 200 without a checkout, and
  nothing ever starts it.

Observed on the way, and part of the models rather than findings of a run: the head of `overlay-hub.js` says
that "a lost message costs a push that the next one (or a reconnect's replay from the database) makes up"
(line 16), which is true of a notification (`NothingSkipped`), but a lost retraction is made up by nothing and
the hidden alert stays until its time on the page ends, and a lost revocation leaves the stream open
(`HiddenIsTakenBack` names the first, `missed[s].unaware`); an edit of a goal without a
revision overwrites an edit its editor never saw; a stale tab of the word filter or of the support links writes
back what it showed over a later save; a tip hidden between `Look` and
the call is still posted (`effects.js:15`); a batch of 20 effects can outlast its lease (`effects.js:29`),
which `LineOnce` shows to be harmless for lines because the key is the same on every attempt; a client that
leaves releases its claim while the handler runs on; an erasure frees the key, so a retry after it charges
again; a crash between a credit tip's commit and its transfer leaves a pending row no job takes up; an
invalidation reaches only the process that received the event; two first visits of the dashboard can make
two alert configs; a connection attached after its token was revoked stays open until it ends; a failed
text-to-speech tip whose supporter was erased has no `request.tts`, and a late settlement of it throws
(`interactions.js:307`); a push reads 200 rows (`overlays.js:314`) and does not go on by itself, so an overlay with
more unread waits for the next notification (`missed[s].late`).

## 5. What is proved

TLAPS checks the following for every value of the constants: any number of interactions, processes,
requests, goals, tips, people, any amounts, any order of events, any bounds.

| Module | Theorems | State |
|---|---|---|
| `SettlementProofs` | `SettlementInvariant`, `TypeCorrect`, `NothingShownBeforePayment`, `QueueStaysLive`, `OverlayIsModerated`, `GoalsFollowMoney`, `ReadyIsOnce`, `RowsStayGood`, `ShowingIsAgreed`, `DeliveryHasTheRows` | `IInv`, `TypeOK`, five invariants of `settlement`, and `RowsOK`, of which they are parts; and that `Settlement` and `Delivery` have the same of a row |
| `PaymentProofs` | `SettlementOnlyMovesForward`, `EndedEffectsStay`, `OnePaymentOneRow`, `PaidRowsFollow`, `FailuresSettle`, `SettlementImplementsLifecycle`; `BooksInvariant`, `PaidIsBacked`, `BooksAgree` | `SettlementIsFinal`, `EffectsAreFinal`, `OneRowPerPayment`, `PaidRowFollows`, `FailureIsTold`, and the refinement of `TipLifecycle`; `BackedByBilling`, and `BooksReconcile` under two assumptions |
| `DeliveryProofs` | `DeliveryInvariant`, `DeliveryTyped`, `LinesShownOnce`, `DeliveredIsPosted`, `FailedForCause`, `RowsChangeAsAgreed`, `RowsInOrderStay`, `FailuresAreTold` | every safety property of `delivery`; `RowsStayOK`, which no run needs beside `RowsAsAgreed`; and `FailureIsTold` of it, which `settlement` checks |
| `GoalsProofs` | `GoalsInvariant`, `GoalsReached`, `LastWord`, `ActiveLimited`, `NobodyWaitsForEver`, `EditsAreKept` | every property of `goals` |
| `OverlayProofs` | `OverlayInvariant`, `OneOutcomeEach`, `CapHolds`, `HiddenTakenBack`, `NonePassed`, `NoneSkipped`, `SeenOnceInOrder` | every property of `overlay` |
| `RequestsProofs` | `RequestsInvariant`, `RequestsTyped`, `KeysRunOnce`, `ReplaysAreOwn`, `KeysChargedOnce`, `ErasedStaysGone` | every property of `requests` |
| `CreatorProofs` | `CreatorInvariant`, `LimitsHold`, `InvitedOnce`, `SavesAreKept`, `BodiesForMembers` | every property of `creator` |

`InteractionProofs` holds the lemmas about the operators of `Interaction` (`SettledFacts`, `ReversedFacts`,
`HiddenFacts`, ...): each takes a good row to a good row, and which effects it leaves; and that each tells a
failed delivery (`SettledTells`, `HiddenTells`, ...), on which `FailuresSettle` and `FailuresAreTold` both rest.

**Assumptions**: the named ASSUMEs of the modules (kinds and amounts are kinds and positive numbers, NULL
values are not values, constants of different kinds differ, bounds are numbers, `Delivery`'s tips are settled and
not reversed, which `DeliveryHasTheRows` gives). TLC evaluates them in
every run.

**Arguments.** None of the invariants is inductive alone.

* *Settlement.* `QueueIsLive` needs to know that a held tip has no effects and that an unpaid one has
  nothing at all; `GoalFollowsMoney` that a contribution was the whole amount and that refunds took the
  same from both; `OverlayFollowsModeration` that `RecomputeDelivery` leaves alone what is held. `RowOK`
  carries them: `UnpaidOK`, `QueueOK`, `AlertOK`, `CountOK`, `ReadyOK`, and a queued delivery is settled.
  `IInv` adds the types and that a call belongs to an interaction; `NextIInv` combines one lemma per action.
  `PaymentProofs` shows that every step satisfies `Forward`: each row's payment follows its state machine,
  what ended stays, and a row's new transaction or receipt is one no other row has. `OneMoves` in it says that
  a step changes the payment of one interaction at most, as a move of `TipLifecycle` and under a payment no row
  has: that is the step of the refinement. `PaidOK` says that a paid row is queued with a delivery that
  carries it, or before anything of the tip was shown.
* *The books.* `Books` relates the rows to Billing beside `IInv`: `AskedOK`, that a call and a recorded transfer
  are of what a row asked, `EntriesOK`, that Billing's entries are consistent in themselves, `BackedOK`, that a
  row settled by a transaction is the one Billing recorded it for, `BusOK`, that every entry and every refund was
  announced and every event is of an entry, and `ReadOK`, that an applied event is on a row. What is difficult is
  the sum: a row counts down each reversal once, in any order, and Billing took back the sum of all. Instead of
  summing, `ClawsOK` says that there is a measure: a function from the sets of a transaction's reversals to bits
  that is additive, gives each announced reversal its bits, all of them what Billing took back, and those the
  row applied what the row counted down. A new reversal extends the measure by one element, an applied one uses
  that it is additive, so no step needs an induction over data. That a row takes back no more than Billing did is
  then that a measure is at most the whole. `BooksAgree` assumes `InOrder` and `~SameTransfers`, and needs both: without the
  first `reordered` is the counterexample, and with `SameTransfers` TLC finds `BooksReconcile` violated in the
  instance of `payments`, since another product's identical transfer for a settled tip is taken for a redelivery.
* *Two modules of one row.* `Settlement` does in one step what `Delivery` does in many, with processes that know
  less than the row says. `RowsChangeAsAgreed` is that every step of `Delivery` that changes rows is one of
  three steps, on one interaction: `Ends` (a queued effect is done or failed), `Moderates` (hide or restore), or
  the reversal. `ShowingIsAgreed` is that `Settlement`'s `Showing` is the first two, and `DeliveryHasTheRows` is
  the other direction: a row of `Settlement` becomes paid only by a step that leaves it as `Delivery`'s `Init`
  begins with it (`SettledAlike`: goals and earlier announcements do not matter to what is shown), and afterwards
  changes only by those three. So the step `Settlement` takes for the worker stands for any number of workers, and
  a worker's late marks, `CancelUnpaid` and `CancelUnseen` change nothing: by the time they commit, whoever ended
  the tip has cancelled its effects. The invariant behind it
  (`Agreed`) says of each row that its paid row follows its deliveries (`PaidOK`), and of each worker that what
  it saw unpaid is not settled again (`UnpaidKnown`).
* *Delivery.* `EffectOK` relates an effect to what was done about it: queued, its attempts are at most the
  failures; delivered, Chat applied its line; failed, it was refused or failed `MaxAttempts` times; a line
  is seen as often as its key is applied. `WorkerOK` is what a process still knows of the effect in hand when
  another process, a moderator or a reversal changed it: the attempts its claim read are at most the
  failures, and what it is about to mark delivered was applied. `Progress` says what no other step takes
  back: keys and failures only grow, and effects move forward. `FailureIsTold` is inductive beside it: every
  recomputation tells the failures of the row it is given, and hiding cancels what was still queued.
* *Goals.* `Holds` says which locks a transaction has, by what is left of its list; `Past` that a snapshot
  is of the past and that a goal whose row (with its revision) is the same has the same contributions, so a
  SERIALIZABLE transaction that holds its goal computes the true total from what it read. With `Told`,
  `Contributed` and `ReachedIsTrue` every commit marks and announces the truth (`CommitStep`). `Saw` says that
  a goal still of the revision an editor saw is in every respect what they saw, from which `EditsAreKept` follows. A creation that
  counted holds the creator's row, so nobody else adds before it commits (`OthersKnow`). For `NoDeadlock`:
  in a set of transactions that wait for each other nobody waits for the stream, whose holder waits for
  nothing, so nobody for a goal, nobody for a tip, nobody for the creator.
* *Overlays.* `RowsOK` says that rows are numbered one after the other and that the advisory lock leaves the last
  one open at most, so what is not committed is newer than everything that is (`RowOrder`). `StreamOK` says of an
  open stream: `ChainOK`, that its start is at the head of its tasks and that `queued` means a push waits;
  `OrderOK`, that what it wrote is not newer than `last`, and what it is about to write newer than what it wrote;
  `SeenOK`, that it read nothing that was not committed; `SkipOK`, that every row it shows is written, about to be
  written, or still ahead, and in that case a push waits, a notification is on its way, or it is one of the
  `late`; `TakenOK`, that of what is hidden and shown a retraction or a revocation is on its way, or it is one of
  the `unaware`. A stream whose subscription was not answered has read nothing (`OrderOK`), which is why what it
  does not hear before then is nothing missed. A step is of one stream (`StreamSteps`), the others being where
  they were (`SameStream`), or of the deliveries (`RowSteps`), and then what was published reaches who hears it
  (`MoreMail`) and is written down as missed for the others. Neither theorem has a premise on failures or limits.
* *Requests.* `HandlerOK`, `ClaimOK` and `OwnsOK` say which handler a claim belongs to and what is stored under
  it; `RunsOK` that two handlers of a key means one lost its claim; `AnswerOK` which running handlers can
  still write a name; `TipsOK` that a key's interactions come one after an erasure of the other. Interactions
  fill an initial segment of `Ids`.
* *Creator.* `RoomOK` says that who counted holds the creator's lock and has room; `FreshOK` and `TakenOK` what an
  accepting request knows of its invitation; `FormOK` that a form that carries the current
  revision shows the current settings but for the one it changes; `CacheOK` that a cached tier was held as long ago as its age.

**Only model-checked**: the liveness properties under fairness (`FundedIsGiven`, `MovedIsSettled`, `QueuedEnds`),
which with ENABLED are outside the prover's reach. So is induction over data: the proofs use of a goal's total
only that equal contributions give equal totals and none give 0, and of reversals only a measure of them. Every
other property of a passing run is a theorem; `BooksReconcile` is one for the environment its run assumes. No module
declares a RECURSIVE operator.

## 6. Not modelled, and why

* Validation and text (`validate`, `filter.js`'s matching, `privacy.js`'s views, `markdown.js`), pages and
  rendering: pure functions of their input. What the filter decides is a free choice.
* Authentication, sessions, signatures and rate limits: decided per request from what OpenVibe.Login signed,
  or kept by openvibe-sdk.
* Configuration, telemetry and the read-only clients: read once, or caches without consequence for what
  is kept.
* `importReplay()`: history brought in from Live once, by hand, before the service runs.
* The prune jobs, which delete day-old keys and old streams' rows: no retry comes that late.
* The outbox's relay, which is openvibe-sdk code: the models say which events a transaction writes and,
  for goals and deliveries, with what content.
* `db.js`'s pool, migrations, and its retries of serialization failures (a transaction that starts over).
* Edits of post texts and handles, and sound files: one statement on one row without a limit or a
  revision, or storage outside the database.
* The goal delivery of a simulated tip (`interactions.js:560-568`): one more overlay delivery, a preview
  that no contribution and no goal row keeps.
* The rows an account's deletion leaves to other creators.

Assumptions that are not in a module's text: `StreamCap` is about the shared count of streams while Valkey is
reachable (the code falls back to a count per process) and live streams refresh their places in time (a
stream whose refreshes all fail loses its place to another while it is still open); Chat applies a delivery key once; the limit of unpaid
checkouts is read and used in one SERIALIZABLE transaction, one step here. The page's timers are left out
of `OverlayStream`: what it shows fades after a time, and a retraction during the fade only removes it earlier.
