# Verification of simple-rss-notifications

TLA+ models of this repository, the TLC runs that check them on small
instances, and TLAPS proofs of the properties that matter most. `PROJECT.json`
lists the components, runs, mutants, findings, hazards and theorems, and maps
every definition to the lines it models.

    tlc -workers 2 -config MCDispatcher_faults.cfg MCDispatcher.tla
    tlapm DispatcherProofs.tla

## 1. The system

Two processes share a PostgreSQL database. The *web* container serves the API,
the public webhook endpoint and an SSE stream. The *worker* container polls the
RSS feeds and delivers notifications. They interact only through tables and
`NOTIFY`.

| Component | State it keeps | Operations | What is hard | What makes it correct |
|---|---|---|---|---|
| RSS poller, fan-out (`rssPoller.ts`, `hooks/ingest.ts`) | `feeds`, `feed_items`, `dispatches` | poll a batch, one transaction per feed | edits and failures between its statements; hot loops | no item without its dispatches; the first poll alone is silent; every feed is polled |
| dispatcher (`worker/dispatcher.ts`) | rows of `dispatches`; a claimed batch in memory | claim, load sinks, send per destination, record, catch | a claim is not visible in the row; faults between a send and its record | a claimed row is owned; accepted messages are accounted for; order; every row is settled |
| dispatch retry API | flips `failed` to `pending` | retry | races with the catch block | only a failed row starts over |
| retry policy, senders, URL guard (`lib/retry.ts`, the senders, `lib/ssrf.ts`) | none; a request under way | back off, resolve, pin, connect, follow redirects | boundaries of headers and networks; DNS that changes; redirects | a provider gets its time; no private address is connected to; a message is given up for cause |
| SMTP transport pool (`lib/email/smtpPool.ts`) | cached transports | get, set, drop, sweep | sends share a transport that is closed or replaced under them | no leak; the settings that were validated; no broken transport is reused |
| main loop, wake-up (`worker/index.ts`, `notify.ts`, `lib/db/notify.ts`) | the current kick promise | poll, dispatch, sleep, kick | kicks before the commit, lost kicks | work waits no longer than the idle sleep |
| config API (feeds, routes, destinations, sinks) | the configuration tables | CRUD | cascades during a poll or a send | what is deleted stays consistent |
| webhook ingest and limiter (`lib/hooks`) | buckets in memory | hit, refund, evict | refunds across an await, a roll-over, an eviction | limits hold for concurrent requests |
| items hub and SSE stream (`lib/itemsListener.ts`, `items/stream/route.ts`) | subscribers, LISTEN client, cursor, seen set, slots | listen, replay, emit, close | silent connection loss, commit order, slow readers | no item is missed by a client that can say where it was, or sent twice in a row |
| Postgres limiter, maintenance | `rate_limit_buckets` | upsert, sweep | roll-over | less than twice the limit in any window |
| auth and sessions (`lib/auth`, `api/auth`) | `users`, `web_sessions` | login, logout, password change, check | a login or a check that overlaps a change | a dead session stays dead |
| user administration (`api/users`) | `users` | create, promote, demote, delete | snapshot and row locks | one admin remains |
| bootstrap (`worker/bootstrap.ts`) | `app_meta` markers | seed user and sink | death between steps | seeded at most once, nothing comes back |
| migrations, text formatting and parsing, encryption, audit, UI, deployment | – | – | data only or I/O | not modelled, see section 7 |

## 2. The modules

| Module | Models | Proofs in |
|---|---|---|
| `RssPoller` | the poller, its transaction, the edits that meet it | `RssPollerProofs` |
| `Dispatcher` | the dispatcher and all that touches `dispatches` beside it | `DispatcherProofs` |
| `DispatchLedger` | the abstract promise about one row: what its status may do, and when it may be sent | |
| `Retry`, `Address` | `lib/retry.ts` and the address classification of `lib/ssrf.ts`, as operators | `WorkerProofs` |
| `Delivery` (on both) | the attempts at one notification over HTTP, hop by hop | `WorkerProofs` |
| `SmtpPool` | mail over SMTP on shared transports | `SmtpPoolProofs` |
| `WakeUp` | the worker's main loop, its sleeps, and the NOTIFYs that end them | `WorkerProofs` |
| `HookLimiter`, `Hooks` (on it) | the limiter in memory, and `handleHook` | `HooksProofs` |
| `ItemsHub`, `ItemStream` (on it) | the shared LISTEN connection, and the streams and their clients | `ItemStreamProofs` |
| `RateLimit`, `Sessions` (on it) | the limiter in the database, and the sessions of a user | `SessionsProofs` |
| `UserAdmin` | user administration and the seeders | `UserAdminProofs` |
| `MC...` | the finite instances TLC checks | |

The modules meet at tables: `RssPoller.CommitItems` produces what
`Dispatcher.Enqueue` takes in, `Dispatcher.SendOk` and its siblings stand for a
whole attempt of `Delivery` or `SmtpPool`, and a round of `WakeUp` for a batch of
either. In every module an action runs from one `await` to the next, most often
one SQL statement: these are the points at which something else may run.
Variables and fields marked *history* in the comments are no part of the program;
properties read them, guards do not, with one exception: `IntervalPasses` of
`RssPoller` is enabled by `rested`, too, which keeps time going.

### Dispatcher

`row` is the `dispatches` table, one record per pair of item and destination
(the unique index). `dest` and `sinks` are the configuration it joins with.
`job[w]` is the memory of a worker: the batch `dispatchPending` awaits, each job
at a `stage` of `deliverOne`. `now` is the database clock.

One action is one SQL statement or one call to a provider, because these are
the points at which `await` lets something else run.

| Action | Code |
|---|---|
| `Enqueue` | the transaction of `pollFeed` (or `ingestItem`), committed |
| `Claim` | the `WITH picked … UPDATE … RETURNING` statement |
| `LoadSinks`, `LoadSinksFails` | `loadSinksForBatch`, and its rejection, which the work loop catches |
| `Reject`, `SendOk`, `SendFails`, `SendThrows` | `deliverOne` up to the result of the sender |
| `Record`, `RecordThrows` | the UPDATE of the try block, and its failure: either it did nothing or it committed and only the answer was lost |
| `Catch`, `CatchThrows` | the catch block, likewise |
| `Crash`, `Restart` | a signal or an uncaught error; `restart: unless-stopped` |
| `RetryDispatch`, `PatchDestination`, `DeleteDestination`, `DeleteSink` | the API routes |
| `Tick` | the clock moves on to the next moment at which a row falls due |

`hist` is no part of the program. It records what the outside world saw: how
often a provider accepted a dispatch (`acked`), how many of these answers never
reached the table (`unrecorded`), whether a permanent failure was seen, how many
claims ended without an outcome (`lost`), and until when a provider wants to be
left alone (`notBefore`).

### WakeUp

`phase` is where `workLoop` stands between two awaits and `did` is
`didPoll || didDispatch`. A piece of work is a feed to poll or a dispatch to
deliver, in one spell of being due: it is `absent`, then possibly `open` (its
transaction has not committed), `due` and `done`. `note` is its NOTIFY.

| Action | Code |
|---|---|
| `PollDueFeeds`, `DispatchPending` | one batch each; what not even a failure can be recorded of stays due |
| `GoOn`, `Sleep` | the decision of `workLoop`; `Sleep` takes the current kick promise |
| `Timeout`, `RoundFails` | the two sleeps of the loop |
| `Kick` | `kick()` of `worker/notify.ts`: only a loop asleep holds the promise that is resolved |
| `FallDue` | `poll_interval_s` or a backoff elapses |
| `CommitWithNote` | `ingestItem`: the NOTIFY belongs to the transaction |
| `Open`, `Notify`, `Commit` | an API handler inside `withUser`: `void notifyDispatchesChanged()` runs on another connection, in any order with the commit |
| `NoteIsLost` | the NOTIFY fails and is swallowed, or the listener is not connected |

`waits` counts the idle sleeps begun while a piece of work was due; the program
does not know it. WakeUp treats a batch as one step; what happens within one is
the subject of `Dispatcher`. A transaction of the API may stay open for ever.

### Abstractions of Dispatcher

- A message is no more than its dispatch. Texts, formatters and the columns
  `dispatched_at`, `error` and `provider_message_id` are left out; nothing in
  the dispatcher reads them.
- A sender is its set of outcomes: accepted, refused with a code and a hint, or
  thrown. Every send may have any of them.
- The queries of `loadSinksForBatch`, one per sink type, are one step.
- Items are numbered in the order of their transactions and, within one, by
  publication date. Each transaction has a `now()` of its own: `Enqueue`
  advances the clock.
- All items belong to one feed. Only its first poll may be paced.
- The clock moves only as far as the program can tell the difference, and time
  does not have to pass while a batch is under way.
- Destinations and sinks exist from the start; a deleted one does not come back
  (its id is a fresh UUID).

### RssPoller

`feed` is the `feeds` table as far as the poller reads it, `order` stands for
the ORDER BY on `last_polled_at`, `job[f]` is `pollFeed` of a feed in the batch.

| Action | Code |
|---|---|
| `Pick` | the SELECT of due feeds, up to the batch size |
| `Fetch` | `fetchFeed` and `parseFeedBody`: error or 304, a body, a body that does not parse |
| `Record` | the UPDATE after an error or a 304 |
| `InsertItems`, `JoinRoutes`, `CommitItems`, `RollBack` | the transaction: INSERT … ON CONFLICT, the join of routes and destinations, then dispatches, UPDATE and COMMIT |
| `RecordRejected`, `Return` | what follows `Promise.allSettled` |
| `SetEnabled`, `SetUrl`, `DeleteFeed`, `AddDest`, `SetDest`, `DeleteDest` | the API, with the cascades and foreign keys of the schema |
| `WorkerDies`, `Publish`, `IntervalPasses`, `DayPasses` | the environment |

`ToDispatch` is `selectBackfillItems`. Items are numbered by `published_at`, those
without a date first, as the code sorts them. A feed in `Days` has `backfill_mode`
`days`, the others `count`, which with a value of 0 is `none`. `cutoff` is the last
item of the feed that is undated or older than `backfill_value` days; `DayPasses`
moves it on at any time, so that items age between two tries of a first poll. An
origin shows its items in this order, none older than one it has shown before.

A feed is never edited back to an earlier URL. Time stands still for a feed
within its transaction, which has one `now()`.

### Retry, Address, Delivery

`Retry` has the functions of `lib/retry.ts`. A header value is a record that
says what its parser can tell of it. `Address` has those of `lib/ssrf.ts` that
classify an address: IPv4 by its octets, IPv6 by the hextets around `::` and a
dotted tail, expanded as `ipv6ToBytes` does. Its second half restates, as
prefixes, the networks that the comments of the file name (`Reserved`); the runs
compare the two.

| Action of `Delivery` | Code |
|---|---|
| `Start`, `NotReady` | the claim; a sink without secret or address |
| `Lookup`, `Recheck` | `resolveAndValidate` of a hop, and of a redirect's target |
| `Connect` | the pinned `lookup` given to node, which validates once more |
| `Send`, `Receive`, `Redirect` | `singleRequest` and the loop of `safeFetch` |
| `RequestFails` | the connection, TLS, the body cap or the deadline |

Every lookup may return another set of addresses. The request to Resend has no guard
(its host is fixed). Discord's response body and ntfy's answer are not read further
than the status.

### SmtpPool

`entries` is the Map of `KeyedTransportCache`, `transport` the nodemailer pools
that exist, each with its queue. `Begin` reads the sink, `Validated` is
`getTransport` after the guard's `await`; `TakeUp`, `Answered`,
`ConnectionFails` and `PoolWasClosed` are what nodemailer does with the mail,
with the catch block of `sendViaSmtp`. `Sweep` is the idle sweep; since it looks at
`lastUsedAt` only, it may close a transport that still has mails. A fingerprint is
the number of edits of the sink. Settings never return to earlier ones: then a
cached transport would be right as well.

### HookLimiter, Hooks

A store is a JavaScript Map as the sequence of its buckets in insertion order.
`Arrive` is `handleHook` up to the lookup, `LookupMisses` and `LookupFinds` what
follows it, `ReadBody` and `Ingest` the rest; `SetFeed` and `RegenerateToken`
are the API. `held` and `foreign` are history: who holds a slot of a bucket, and
how many slots it got back that another bucket had counted. One window length serves
all four limits, as in the code.

### ItemsHub, ItemStream

`ItemsHub` is `createItemsHub` as operators on a record; `ItemStream` composes
it with the streams, the transactions that insert items (`Begin` sets
`fetched_at`, `Commit` makes the item visible and notifies) and the browsers.

| Action | Code |
|---|---|
| `Connect`, `End` | the GET with its slot, subscription and replay; every way in which a stream may end |
| `ReadRows`, `EmitRows` | the head of the promise chain: its query, then `emit` for each row |
| `Read` | the browser takes an item off the queue |
| `ListenSucceeds`, `ListenFails`, `Drop`, `RelistenFails` | `listen()` and postgres-js behind it |
| `Deliver`, `WatchdogFires` | `onNotify`; the pong timeout and `restart()` |

The items are those that are announced. What a first poll stores silently
(`rssPoller.ts:193`) no stream is told of; a replay sends it if it lies after
the cursor, which adds sends that no property speaks of and that are left out. `from` is history: the
last item that had begun when the client last connected without a Last-Event-ID.

### RateLimit, Sessions

`RateLimit` is the upsert and the sweep; every login hits all its keys. In
`Sessions` a password change is three steps, because others run between them:
UPDATE (takes the row lock), DELETE of the sessions, commit. A session has a JWT
with `iat` in whole seconds and a row. `CheckUser` and `CheckRow` are the two
queries of `checkSessionLive`. A tick is a second; `now` is one clock for both
processes.

### UserAdmin

`SelectAdmins` takes the snapshot of `SELECT … WHERE is_admin FOR UPDATE`,
`LockAdmin` locks one row after the other and looks at each again, as PostgreSQL
does at READ COMMITTED; `Refuse` and `Apply` end the transaction. `Abort` is
everything that rolls it back, a deadlock among them. `StartWorker` to
`InsertSink` are the steps of `bootstrap()`. Row locks taken by the UPDATE or
DELETE itself are held for that step only, which is the transaction's last.
`boot` is the user who is called `BOOTSTRAP_USERNAME`. The name is free again once
that user is deleted, and an administrator may give it to a new one, which the
seeder of the sink then finds; `found` is the id it goes on with.

## 3. Runs

Constants named `Max...` that are marked as bounds limit the environment (faults, edits,
the clock), never the code.

| Run | Checks | Bounds and why they suffice |
|---|---|---|
| `delivery` | `ProviderIsGivenItsTime`, `ConnectedIsPublic`, `GivesUpOnlyForCause`, `EveryDispatchEnds` | the real five attempts and five redirects; statuses, header values and addresses at either side of every boundary of the code, each address alone and beside a routable one |
| `dispatcher_faults` | `TypeOK`, `AttemptCeiling`, `FailedIsJustified`, `SendsInDueOrder`, `OldestGoesOutFirst`, `ProviderHintHonoured`, `EventuallySettled` | two items for one destination (the smallest group), paced or not, batches of two, a hint longer than the first rung, one fault, one retry, under `FairSpec` |
| `dispatcher_edits` | `JobOwnsRow`, `EveryAckIsAccountedFor`, `ImplementsLedger` | two destinations of different kinds (their jobs interleave), one edit, retry, fault and lost acknowledgement |
| `wake_up` | `AtMostOneIdleSleep`, `EventuallyDone` | batches of one; two feeds (a backlog), a webhook's dispatch and a retried one, so that work falls due in each of the three ways; one fault, which may be a lost NOTIFY, a failed round, an unrecorded failure or a crash |
| `poller` | `NoneLost`, `HintsBelongToUrl`, `NoHotLoop`, `EveryFeedIsPolled` | two feeds in batches of one, so that one can starve the other; two items, of which the backfill takes one; one edit and one fault, each at any point |
| `poller_backfill` | `SilentIsOld` | two feeds of three items each, one with a backfill of one item and one of one day; a day may pass and a poll fail at any point of the first polls; a death of the worker; edits, which this property does not depend on, are left to the proof |
| `hooks` | `LookupsAreBounded`, `OnlyDebtsAreCounted`, `OldestFirst`, `LessThanTwiceThrough` | three requests from two addresses to two feeds, limits of one, room for one address (the second evicts the first), a clock that passes the window |
| `stream` | `OneListener`, `NothingMissed`, `TwiceOnlyFarApart`, `EveryItemArrives` | two clients, two items, replay, seen set and queue of one, so that each overflows; two connections, so that a replaced `listen()` is still under way; one fault |
| `sessions` | `LessThanTwiceTheLimit`, `SurvivorsOverlapped`, `DeadStaysDead`, `ChecksAreSound`, `SweepIsInvisible` | two logins and two changes that may all overlap; sessions, windows and sweep age short enough that the clock passes each |
| `user_admin` | `AdminRemainsUnlessLate`, `SinkSeededOnce`, `SeedsOnlyTheFirst` | three users and two requests: an actor, a target and a late admin, or a new user with the name of the deleted one |
| `smtp_pool` | `OpenIffCached`, `SentAsRead`, `FreshAfterFailure` | three sends over two sinks and one connection per transport, so that one sends, one waits and one comes new; one edit of each sink |
| `delivery_dns` | expects a violation of `BlockedIsPrivate` | one answer of each kind |

In the Dispatcher runs the delays are those of `Retry`, the failure codes one permanent
(`EAUTH`) and one transient (429) one, and `MaxAttempts` is 2 instead of 5, so
that the ceiling is reached. In `stream` the fault budget does not pay for the
silence of a dropped connection, nor for the cut of a slow client: both are free
to happen. Symmetry is used only in runs without liveness properties.

The passing runs have from 4 thousand to 5 million distinct states; the largest are
`user_admin` (5.3 million), `poller_backfill` (3.7), `sessions` (3.1) and `smtp_pool`
(2.9). Each takes about two and a half minutes at most.

Deadlock is checked in `wake_up`, `user_admin` and `smtp_pool`, which never stop.
The others do at the end of what the bounds grant: a dispatch is final
(`delivery`), a finite set of items is settled (`dispatcher_*`, `stream`), feeds
are deleted or at rest (`poller`, `poller_backfill`), requests are answered and the clock stands at its bound
(`hooks`, `sessions`). They say `CHECK_DEADLOCK FALSE`.

### Fairness

- `Dispatcher.FairSpec`: weak fairness of `WorkerStep(w)` (an endless loop
  claims whenever rows are due, and every sender has a timeout), `Restart(w)`
  (compose restarts the worker) and `Tick`.
- `WakeUp.FairSpec`: `Loop`, the work loop with its timers and the restart.
  Nothing is assumed of transactions, notifications and kicks.
- `Delivery`: `Attempt`. The deadline of `safeFetch` ends each request.
- `RssPoller`: `Poller`, each fetch having a timeout, and each
  `IntervalPasses(f)`. Failed transactions may repeat.
- `ItemStream.Fairness`: transactions commit, clients reconnect (`EventSource`
  does) and read, the chain of a stream and `listen()` settle, announced events
  arrive, and the watchdog of a silent connection fires. Faults are never forced.

Faults and edits are never forced to happen or to stop. A fault that repeats for
ever would defeat any retry; the bounds exclude it.

### Finding

`delivery_dns`: `lib/ssrf.ts:211` reports a lookup that failed the way it
reports a private address. The senders turn both into `ssrf-blocked`, which
`isPermanentFailure` takes as final, so a passing outage of DNS fails a dispatch
at its first attempt. `lib/retry.ts:72` describes the code as "sink points at a
private address", and line 81 says that everything else, network errors
included, is transient.

### Behaviours that the properties except

Met while modelling; each is an exception a property names, or a property that
was weakened to what the code does.

- *Late promotion* (`AdminRemainsUnlessLate` and `SeedsOnlyTheFirst`, exception
  `late`). `FOR UPDATE` locks and returns the admins of its snapshot. Of two
  requests one takes its snapshot before its target is made an admin, and waits for
  the one admin of that snapshot, whom the other demotes or deletes; it then counts none,
  does not find its target among them, and removes the last admin.
  `users/[id]/route.ts:164` says that concurrent deletes can't "race the last admin
  away"; TLC finds this behaviour when the exception is left out of the invariant.
- *A client that has read nothing* (`NothingMissed`, `EveryItemArrives`, by `from`).
  A connection without a Last-Event-ID replays from its own start
  (`items/stream/route.ts:62` and `:105`), and a browser sends that id only once it has read
  an item. If its stream ends before (a failed query, the thirty minutes, a lost connection), it
  starts anew, and what was announced to it before, or began before and commits later, is
  lost on it. The comment at line 92 and `src/README.md:161` count on the Last-Event-ID
  here. The two properties speak of the items that began after the client last connected without one.
- *A second worker* could claim the rows of the first, which stay pending and due
  (`dispatcher.ts:52` expects otherwise). The theorems assume one worker, as
  compose runs.
- *At least once.* A fault between the provider's answer and the UPDATE sends a
  message again; `EveryAckIsAccountedFor` counts it as `unrecorded`.
- *Order without pacing.* Rows of one later poll share `scheduled_at` and
  `created_at`; the claim's ORDER BY cannot keep their order.
- *Hints in the catch block.* It falls back on `backoffSec`;
  `ProviderHintHonoured` speaks of runs without faults.
- *A stale catch block* that follows a lost acknowledgement may take a row that the
  user has retried since for its own and fail it without an attempt.
- *NOTIFY before commit.* It may come too early, which costs one idle sleep.
- *A poll that overlaps a PATCH of the URL* writes back the hints of the old URL
  (`HintsBelongToUrl`, exception `overtaken`).
- *Webhook requests with a valid token* stay counted against their IP if they
  are turned away at that limit, or if the lookup throws.
- *Sinks as they were.* A batch uses the sinks it has read at its start; one that is
  deleted or edited meanwhile still gets its messages.
- *Replays* stop at `REPLAY_LIMIT`, and their cursor passes over items that
  commit after one with a later `fetched_at` (exceptions `short` and `late`).
- *A mail casualty* evicts the transport of its sink by key, which may be a fresh
  one by now. Its queued mails fail and are retried.
- *Redirects.* A 301, 302 or 303 turns the POST into a GET, whose 200 is recorded
  as a delivery.
- *Bracketed IPv6 literals* are not recognised as addresses and fail to resolve.
- *`password_changed_at` moves back* if two changes commit in the other order than
  they began; a JWT that the later one had killed then counts again if its row
  survived (`DeadStaysDead`, exception `rewound`).

## 4. Properties

- `JobOwnsRow`: a claimed row waits for exactly the attempt its job makes.
- `EveryAckIsAccountedFor`: provider successes = rows `sent` + those on their
  way + those lost to a fault. It excludes a second send of a recorded message
  as well as a `sent` that nobody accepted.
- `AttemptCeiling`, `FailedIsJustified`: attempts pass `MAX_ATTEMPTS` only by
  lost claims; a message fails only for its reason.
- `SendsInDueOrder`, `OldestGoesOutFirst`: the order within a destination.
- `ProviderHintHonoured`, `ProviderIsGivenItsTime`: a rate limit is respected,
  across the table and by the arithmetic of the policy.
- `EventuallySettled`, `EveryDispatchEnds` (liveness): nothing is pending for ever.
- `ImplementsLedger` (refinement): `Dispatcher` implements `DispatchLedger`
  with `status = row.status`, `accepted = hist.acked`.
- `ConnectedIsPublic`, `GivesUpOnlyForCause`: the guard, against DNS that changes
  between its steps; and what may end a message before its last attempt.
- `AtMostOneIdleSleep`, `EventuallyDone` (liveness): due work waits for one idle
  sleep at most, without any kick.
- `NoneLost`: an item that is stored and to be dispatched has a dispatch for each
  destination that was on throughout its transaction. `SilentIsOld`: only the
  first poll keeps items silent, and only old ones: older than the newest
  `backfill_value` with mode `count`, undated or older than that many days with `days`.
- `HintsBelongToUrl`, `NoHotLoop`, `EveryFeedIsPolled` (liveness): cache hints,
  pace, and no starvation in the batch.
- `LookupsAreBounded`, `OnlyDebtsAreCounted`: slots reserved before an await and
  refunded after it neither let more lookups through than the budget (but for
  refunds that crossed a window, which `foreign` counts) nor charge good requests.
- `OldestFirst`, `LessThanTwiceThrough`, `LessThanTwiceTheLimit`: eviction order
  and the bound of a fixed window over any stretch of its length.
- `OneListener`: one connection listens while there are subscribers, they are
  the open streams, and slots are neither leaked nor given back twice.
- `NothingMissed`, `TwiceOnlyFarApart`, `EveryItemArrives` (liveness): what a
  client has seen against what was committed, from its last connection without a
  Last-Event-ID on; at rest, nothing is missing but what section 3 excepts.
- `SurvivorsOverlapped`, `DeadStaysDead`, `ChecksAreSound`, `SweepIsInvisible`:
  which sessions outlive a password change, and that nothing else does.
- `AdminRemainsUnlessLate`: an admin remains. `SinkSeededOnce`, `SeedsOnlyTheFirst`: a
  boot that died between two steps seeds nothing twice, and no user where there has been one.
- `OpenIffCached`, `SentAsRead`, `FreshAfterFailure`: transports.

Each property of a passing run has a mutant, a plausible slip in the code that
breaks it. They stand in front of the definitions they change and are not used
by any specification.

## 5. Proofs

Every theorem holds for all values of the constants that meet the assumptions
named in the modules. Hardly any of the invariants is inductive by itself; the strengthened ones
were checked by TLC on the instances of section 3 before they were proved.

**`DispatcherProofs`** (from `ConstantsAssumption`, `RetryDelayAssumption`):
`TypeCorrect` for any number of workers; `ClaimsOwnTheirRows`,
`NoAckGetsLostUnnoticed`, `AttemptsAreBounded` and `WorkerImplementsLedger` for
one worker, which is the hypothesis `Worker = {w}`. `IInv(w)` conjoins
`TypeOK`, `UnseenHaveNoRow` (so that `Enqueue` never meets an existing row) and,
for each dispatch, `Sound(w, d)`:

- `Owns`: the row of a job that has not thrown is pending with the job's
  attempts, or gone. It is what makes the unguarded UPDATEs harmless.
- `NotAhead`: the attempts of a row still pending though its job threw are not
  ahead of the job's; the catch block may run after an UPDATE that committed.
- `Accounted`: the equation of `EveryAckIsAccountedFor`.
- `WithinCeiling`: attempts are at most `MAX_ATTEMPTS` plus the lost claims,
  and fewer by one while the row is pending and unclaimed.

Each conjunct speaks of one dispatch, so that a step needs a proof for its own
dispatch and a frame argument for the others. The refinement maps each action
to `Create`, `Accept`, `Settle`, `Retry` or `Remove`, or to a stutter, with
`Owns` supplying the guard of `Settle` that the code does not have.

Four more theorems of the same module rest on invariants of their own:

- `DestinationsAreServedInOrder`, for any number of workers. `InOrder(w)` says of
  each batch that it was due when claimed (`Overdue`), that a pending row which was due before one
  of its jobs is in the batch too (`Complete`), and that of a destination one
  job at a time has the turn, the first that waits (`InTurns`).
- `GivenUpForCause`, for one worker and no lost acknowledgement (as in the run
  that checks it: a lost one lets the catch block fail a row that the user has
  retried since, see above). `Just` carries the reason from the verdict of the
  sender to the row; it needs that a job which threw still owns its row.
- `ProvidersAreGivenTheirTime`, likewise, for every policy whose delays are no
  shorter than the hint. `Patient` relates `notBefore` to `scheduled` until the
  first fault. The real policy is one of these for hints up to its cap of an hour,
  as `DelaysOfThePolicy` of `WorkerProofs` says.
- `BackfillGoesOutFromOldToNew`, for one worker, a feed whose one poll was paced
  (`0 \notin Pace`) and a user who retries nothing (`MaxRetries = 0`); a retry
  does put an old item behind younger ones. `OldestFirst` says that an older
  item which has had no attempt is due before every younger one of its destination, at
  whatever date either is known by, the row's or the job's.

**`WorkerProofs`** (from `DeliveryAssumption`, `WakeUpAssumption`) is about `Delivery`, `Retry` and
`Address`, and about `WakeUp`; both are extended, for which the specification of the
former is called `DeliverySpec`.

- `GuardIsExact`: for every IPv4 address and every notation of an IPv6 address,
  `IsPrivateAddress` is `Reserved`. `EightGroups` says that a notation which stands for an
  address has eight groups, wherever `::` and the dotted tail are; `GuardKnowsV4` and
  `GuardKnowsGroups` compare the tests of the code with the prefixes, by the first
  bits of a group. This is what TLC checked on the boundaries of the networks.
- `OnlyPublicIsConnected`: `Guarded` (what is connected to has passed the guard) is
  inductive, because `Connect` validates once more what was pinned; `GuardIsExact`
  gives the rest. Only `Records`, the answers of the lookups, must be addresses.
- `GivenUpOnlyForCause`: `Framed` adds to the types that a dispatch with an attempt
  still to come has not used them up, and that a redirect under validation is within
  the limit. `FailKeeps` is the argument for every step that ends an attempt.
  `AttemptsAreTyped` comes with it.
- `DelaysOfThePolicy` is about `lib/retry.ts`: the ladder of the five attempts against
  any hint. The delays meet `RetryDelayAssumption` of `Dispatcher` and, for hints up
  to an hour, the hypothesis of `ProvidersAreGivenTheirTime`.
- `RateLimitsAreRespected` joins it with `HintIsEnough` (the hint of a 429 is at least
  what either header asks for), for at most the five attempts of the code: the prover
  knows of `5 ^ n` only for numbers, so that the ladder is computed rung by rung.
- `OneIdleSleepAtMost`, from `WakeUpAssumption`. `SleepInv` says what the loop has learned when: after a
  poll that found nothing every due feed is new, after a round that found nothing all
  due work is new, and new work has not been slept over.

**`RssPollerProofs`** (from `RssPollerAssumption`): `NoNotificationIsLost`,
`TheHintsAreThoseOfTheUrl`, `NoFeedIsPolledInAHotLoop`. Per feed, `IInv` adds to the types `Clean` (nothing
is stored before the first poll that goes well, so that the one which may keep
items silent meets none), `Watched` (the destinations that are on throughout the
transaction are among those the join has found), `Kept` and `Hinted` (a poll
that nobody overtook has read the URL the feed still has). The hot loop needs an
invariant of its own, `Paced`: a feed that is due and not being polled has rested
for its interval, or its last poll was cut short and left no trace.

`OnlyOldItemsAreSilent`, in the same module, is for any
number of items and any backfill, by count or in days. For days it is enough that
`cutoff` only grows (`DayAges`): what was too old at the poll stays so. For a count, `NewestAreEnough` is the argument about the
items alone: one that has as many newer items as the backfill sends is not among those
sent, for the newest of a finite set can be named as often as need be. The invariant
`Aged` adds that what a first poll found is finite and that the silent items
were chosen from it.

**`SmtpPoolProofs`** (from `SmtpPoolAssumption`): `TransportsAreOpenIffCached`,
`MailGoesOutAsRead`, `NoBrokenTransportIsReused`. The three hold together, with `Queued`
(a mail that waits is in the queue of its transport) and `OwnSink` (a cached
transport in use belongs to the sink of its sends: what a casualty drops by key
is the broken transport, if anybody could still be given it). `SomeUnused` shows
by counting that the model never runs out of transports.

**`SessionsProofs`** (from `RateLimitAssumption`, `SessionsAssumption`):
`TypeCorrect`, `OnlyOverlappingLoginsSurvive`, `TheDeadStayDead`,
`TheChecksAreSound`, `TheSweepIsInvisible`. `IInv` adds to the types
`Stamped`, `Counted` and `Spared` (a row that is there was inserted after the
last change deleted the others) and, per session, `Sound`: if the first query of
a check found a session that was not live, its row is not in order and never
will be. Each step is also shown to lead `Onward`: time grows and rows are only
deleted; that is what the action properties rest on.

`LessThanTwiceIsLetThrough`, in the same module, is about `RateLimit`,
for every limit and window. The invariant per key, `Steady`, speaks of the times at
which hits were let through: they are in order (`Ordered`), the last of any `2 * Limit`
in a row is more than a window later than the first (`Spaced`), and the bucket's window
began with its first hit, more than a window after the hits that precede it by `Limit`
or more (`Apart`). `Spaced` is the bound, by counting.

**`HooksProofs`** (from `HooksAssumption`, `HookLimiterAssumption`):
`TheOldestGoesFirst`, `OnlyDebtsCount`, `TheBudgetBoundsTheLookups`,
`LessThanTwiceIsLetThrough`. `HitEffect` and `RefundGivesBack` state once, bucket by bucket, what
a hit and a refund do to a store: the bucket of the key is counted up or begins
anew, others stay or were evicted. Each property has its invariant over
that.

- `Stores`: every store is in order of start, has one bucket per key and is
  within its cap.
- `Debts`: an open bucket counts no more than those of its holders who owe their
  slot, and a request being looked up is held by the bucket of its own address,
  so that its refund finds its own slot or none.
- `Budgeted`: the bucket of the budget accounts exactly for its holders and the
  slots given back from outside, and the lookups of its window are among its holders.
- `FairToAll`: for each feed and user, how many have passed since its bucket
  began, since the instant after, and in the stretch of a window that ends there
  (`Fair`). A window begins with a hit, which is where the strict bound comes from;
  `TwoWindowsAtMost` is the counting. This theorem has the hypothesis `RoomForAll`:
  no eviction from the trusted store, whose keys are the feeds and users, told
  apart by the prefixes `feed:` and `user:`. `rateLimit.ts:17` relies on the same; with more
  than `MAX_KEYS` of them an open window could be evicted and begin again.

**`UserAdminProofs`** (from `UserAdminAssumption`): `TypeCorrect`,
`AnAdminRemains`, `OnlyTheFirstIsSeeded`, `TheSinkIsSeededOnce`. The invariant is `TypeOK` and, unless
`late`, `Safe`: there is an admin or there never was a user, the seeder inserts only
then, and each request that locks is `Sound`: what it has counted is an admin and locked
by itself, so that nobody else can demote or delete it before the commit. For the sink,
`Seeded`: it comes into being with its marker, and the marker keeps every later
boot from the seeder.

**`ItemStreamProofs`** (from `HubAssumption`, `StreamAssumption`):
`OneListenerOfTheHub`, `StreamsAreTyped`, `SendsTwiceOnlyFarApart`,
`NothingIsMissed`. The lemmas called `...Keeps` say of each operation of the hub that it
preserves `HubInv` and, with `NothingNewIn`, that none but a `listen()` makes the
hub live. What `emit` does to all rows of a step is shown row by row
(`EmittedIsIn`): a set of states for each row, and `emit` leads from one to the next.

- `HubStreamInv`: the subscribers of the hub are the open streams, one slot each,
  and only a stream that reads has rows in hand, for the work at the head of its chain.
- `SentInv`: `seen` is the end of `sent`, `SeenMax` items of it. The checks of `seen`
  before the query would not do: `emit` checks again, after the await.
- `FedInv`: what is announced, queued or in a cursor is committed, and items still to
  be committed are later than all of these unless they are `late`.
- `ServedInv` is why `NothingIsMissed`, which speaks of the items that began after the
  client last connected without a Last-Event-ID. `Served` follows an item on its way to a client:
  from the inbox of the connection to the chain, from the chain to rows, from the rows to
  the queue, and to the client. At each place the items stand `InLine`: no later one comes
  before an earlier one that is not had by then, so that a cursor or a Last-Event-ID
  never skips any; a replay in the chain makes up for all that follows it. Where
  the connection is live and no replay is to come, each item is at one of these places.
  Where it is not, nothing is claimed but that the cursor is safe: the next
  `listen()` enqueues a replay. `RowsOfAReplay` adds that a replay within its limit reads
  every item after the cursor.

## 6. Only model-checked

Liveness, which is outside the prover's reach: `EventuallySettled`,
`EveryDispatchEnds`, `EventuallyDone`, `EveryFeedIsPolled`, `EveryItemArrives`. Every
invariant and every other action property of the passing runs is a theorem, some with
the hypotheses named in section 5.

## 7. Not modelled, and what is left

Pure data or I/O without a protocol of its own: HTML and markdown formatting
(`rss/format.ts`), the decoding of feeds and of webhook bodies (only whether they
are accepted), URL parsing, encryption, the audit log, environment variables,
the dashboard. Row security is PostgreSQL's; the migrations are run by a
library. The heartbeat of the worker is read by the health check alone.
`GET /api/dispatches` and `GET /api/items` only read.

Partly modelled, as the notes in `PROJECT.json` say: validation in the CRUD
routes, counters of consecutive failures, the feed filter of a stream.
