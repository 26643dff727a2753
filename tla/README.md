# Pixlinks in TLA+

Pixlinks stores the events of Facebook pixels, forwards them to the Conversions
API, *replays* stored events to another pixel for customers who bought replay
credits, and serves the sale pages that carry the pixels. This directory holds
its formal models: modules checked with TLC on small instances, and theorems
about them proved with TLAPS.

1. [The system](#1-the-system): its parts, their state, what is hard
2. [What is modelled](#2-what-is-modelled): module by module
3. [The runs](#3-the-runs): what each one asks, bounds, fairness, properties
4. [Where the code surprises](#4-where-the-code-surprises)
5. [What is proved](#5-what-is-proved)
6. [What is not modelled](#6-what-is-not-modelled)
7. [What is left](#7-what-is-left)

Paths below are relative to the repository; `service/`, `repository/` ... are
short for `backend/internal/service/` and so on, `pages/`, `hooks/` and
`components/` for `frontend/src/pages/` and so on.

## 1. The system

One Go process (`backend/cmd/server/main.go`, `max_instances` 1) behind a
Cloudflare worker, a Postgres database, a React dashboard, a second worker for
customers' own domains, and two external services: Facebook's Conversions API
and Stripe. Handlers decode a request, call one service method, and encode the
answer. A repository method is one SQL statement that commits on its own, except
where it opens a transaction; there is no lock across statements, so **whatever
two requests can interleave, they interleave between SQL statements**. Some
services keep state in memory (goroutines, a semaphore, caches, token buckets),
which a restart loses. The dashboard keeps what it read in a query cache
(TanStack Query) and hears of its own changes only by invalidating it: **whatever
the user does between a request and its answer, the answer finds it done**.

| Component | State | Operations | Interacts with | What is hard | Correct when |
|---|---|---|---|---|---|
| Replay engine (`service/replay_service.go`) | `replay_sessions` rows; one goroutine per session; a semaphore; `shutdownCtx` | Create, Retry, Cancel, executeReplay, startup recovery | credits, events, Conversions API, main | status writes of goroutine, cancel, shutdown and recovery race; a dozen ways out of the loop | sessions settle, once; counters tell the truth; tokens are never leaked |
| Replay credits (`repository/postgres/replay_credit_repo.go`) | `used_replays`, `total_replays` | ConsumeOneCredit, RefundCredit | engine, billing, admin | concurrent consumption; refunds decided on stale reads | never overspent; every unit has a cause |
| Replay event selection (`event_repo.go`) | `failed_batch_ranges` | GetEventsForReplay, Retry | ingest, retention | positions applied to a list that is loaded again | a retry sends what failed |
| Server process (`main.go`) | up, stopping, down | recovery, SIGTERM, drain | engine | order of cancel, drain and wait | shutdown ends, nothing is orphaned |
| Billing (`service/billing_service.go`) | purchases, credits, subscriptions, `stripe_webhook_events`, plan, retention | checkouts, webhooks | Stripe, credits, quotas | redelivery, reordering, a crash between claim and effect | a payment is credited once; the plan follows the slots |
| Ingest and forwarding (`service/event_service.go`) | `pixel_events`, `event_usage`, goroutines | Ingest, forwardToCAPI, forwardToBackupPixel | quotas, pixels, Conversions API | quota taken before the work, untracked goroutines | usage counts what was stored; an event is sent once |
| Pixels (`pixel_service.go`) | `pixels` | Create, Update, Delete, SetPixelActive | ingest, admin | whole-row writes | a switched-off pixel takes nothing |
| Sale pages (`sale_page_service.go`, `sale_page_cache.go`, `workers/custom-domain`) | pages, the server's cache, the edge's | Create, Update, Delete, GetPublishData | admin, visitors | a stale page put back after an invalidation; two lifetimes add up | what is served was current, not long ago |
| Live feed (`hooks/use-realtime-events.ts`, `pages/EventsPage.tsx`) | cursor, buffer, seen set | load, poll, filter, clear, refresh | ListRecent | strict cursor with a limit; resets under a running poll | ordered, filtered, nothing skipped |
| Replay page (`pages/ReplayPage.tsx`) | form, preview, followed session | preview, confirm, cancel, retry | engine, query cache | a confirmation built of two snapshots; polling | it confirms what it showed; settling is seen |
| Sale page editors (`BlockEditorPage.tsx`, `SalePageEditorPage.tsx`) | form, draft, prompt, upload | edit, save, publish, leave | query cache, localStorage | edits during a save, a fetch or an upload | no edit is lost unasked |
| Admin console (`pages/admin/`) | filters, page, dialogs | search, page, act | query cache | debounce, placeholder data, concurrent actions | what succeeded shows |
| Provisioning (`auth_service.go`) | customers | ProvisionCustomer | billing | writes back a row read earlier | a plan is never lost |
| Rate limits, API keys (`middleware/`) | maps in memory | Allow, lookup | every request | - | - |
| Retention cleanup (`cleanup_service.go`) | - | delete expired events | replays, ingest | deletes what a retry will index, and what makes a repeated event a repeat | - |

### The life of a session, as the code has it

1. **Create** reads the customer's sessions (a pending or running one for the
   same source pixel is an error), counts the events, loads them, consumes a
   credit if the count was not zero, inserts the row as `pending`, starts a
   goroutine. **Retry** loads the session and its events, always consumes a
   credit, and has no check for an active session. An insert that fails is
   compensated by a refund; its error is only logged.
2. The goroutine waits for a token of the semaphore or for the shutdown. With
   a token it writes `running`, whatever the row says, then sends the batches:
   before each one it looks at the shutdown, sometimes at the target pixel, and
   at the row (has it been cancelled?); after each one it writes the counters.
3. It leaves the loop at the end or through a shutdown, a cancellation, a lost
   pixel or an authentication error. Ranges, counters and status are separate
   writes, some on a detached context, some on the shutdown context.
4. **Cancel** reads the row, decides about a refund, and changes the row if it
   is still pending or running; the administrator's cancel does not refund.
5. **SIGTERM** cancels `shutdownCtx`, drains the requests and waits for the
   goroutines. After a crash, the next start marks pending and running sessions
   as failed before it listens.

## 2. What is modelled

| Module | Models |
|---|---|
| `Replay` | engine, sessions table, credits, admin cancel, server process: one customer |
| `ReplayLifecycle` | abstract specification: the moves of a session's status |
| `ReplayRetry` | which events a session, its retry and the retry of that send |
| `Billing` | checkouts, Stripe, the webhook handler and what its events do to credits, subscriptions, plan and retention |
| `Intake` | quota, storing and forwarding of events; the pixels' rows they depend on |
| `Storefront` | a sale page from its row through the server's cache and the edge's to the visitor |
| `QueryCache` | one entry of the dashboard's query cache, as operators; extended by the next three |
| `ReplayScreen` | the replay page and its hooks |
| `Editor` | the two sale page editors, the list they start from and their drafts |
| `Console` | the paged lists of the admin console, their dialogs and actions |
| `Feed` | the live events page with its two queries, and `ListRecent` |
| `MCReplay`, `MCReplayRetry`, `MCIntake`, `MCStorefront`, `MCReplayScreen` | values for TLC, symmetry sets |
| `ReplayProofs`, `BillingProofs`, `IntakeProofs`, `StorefrontProofs` | theorems about the module they are named for; the last part of `ReplayProofs` is about `ReplayRetry`, that of `IntakeProofs` about `Feed` |
| `ReplayScreenProofs`, `ConsoleProofs`, `EditorProofs` | the same for the dashboard; they share three lemmas about a cache entry, which stand in `QueryCache` |

`Replay` says which status writes there are and that sessions settle; `ReplayScreen`
has the same writes without the goroutine behind them (`Begin`, `Finish`, of which
the last is fair) and asks what the page makes of them. `Billing` makes credits,
`Replay` spends them: a credit is there from the start in `Replay`.

### Replay

**Steps.** One SQL statement, one call to Facebook, or one decision of a
`select` per step. `ConsumeOneCredit` is two: the `SELECT ... FOR UPDATE SKIP
LOCKED` and the `UPDATE` with its commit, because other requests see the row
lock between them. A refund waits for that lock (`CanRefund`).

**State.** `status`, `source`, `credit`, `total`, `progress`, `ranges` are
columns of `replay_sessions`; `upTo` stands for `created_at` (the events older
than the session, which is what a retry loads); `used` is `used_replays`;
`sem` is the number of elements in the semaphore channel; `req` and `can` are
the local variables of requests; `pc`, `next`, `good`, `bad`, `exit` those of
`executeReplay`. `delivered`, `late`, `refunded`, `returned` and `lost` are
history that only the properties read.

**A batch is a unit.** Which events are in it matters only to a retry of a
retry, which is what `ReplayRetry` is about. A failed batch may have been
delivered all the same (a timeout after Facebook accepted it); with a done
context no request is sent.

**Faults.** With `DbMayFail` any write (or the read of a poll, or one between
check and charge) of a live process may fail where the code handles or ignores
the error. `Crash` ends the process at any moment. `Sigterm`, `Exit` and
`Restart` are a graceful stop and start; a drain that overruns its 30 seconds
leaves requests to die with the process, which is a `Crash`.

| Code | Actions |
|---|---|
| `ReplayService.Create` | `CreateCheck` `CreateCount` `CreateLoad` `ReadFails` `ConsumeSelect` `ConsumeCommit` `NoCharge` `InsertSession` `InsertFails` `Compensate` |
| `ReplayService.Retry` | `Retry`, then as above from `ConsumeSelect` |
| `ReplayService.Cancel` | `CancelRead` `CancelWrite` `CancelRefund` |
| `AdminService.CancelReplay` | `AdminCancel` |
| the `go func` and its `select` | `Acquire` `SkipOnShutdown` |
| `executeReplay` | `Start` `Check` `Poll` `SendOk` `SendFails` `SendUnauthorized` `Record` `Delay` `SaveRanges` `SaveProgress` `Settle` |
| `main` | `Sigterm` `Exit` `Restart` (with `RecoverOrphanedSessions`) |
| external | `Ingest` (other requests store events), `Crash` |

The exits differ in what they still write, and in the context they use:
shutdown and end on a detached context (`dbCtx`), cancellation, lost pixel and
authentication error on `shutdownCtx`, which fails once the server is stopping.
That is `CanWrite` and `MustWrite`.

### ReplayLifecycle

What a reader of the `status` column may rely on: `pending`, `running`, one of
three ends, recovery to `failed` only when no goroutine is alive. It keeps what
the code does and not what one would wish: as long as a goroutine is *engaged*
with a session, a cancelled session can become running, completed or failed.
The refinement mapping takes `engaged` to the sessions whose goroutine has not
ended.

### ReplayRetry

A lineage of up to three sessions over individual events, with their
`event_time` (set by the sender, so ties and late arrivals happen), their order
of arrival, the `LIMIT`, retention, and half-open index ranges as the code
builds and cuts them. Ordering inside a tie is a choice at every load.

### Billing

A customer subscribes to pixel slots or to monthly replays, or buys a replay
once. `Begin`, `Make`, `Save` are the three steps of `EnsureStripeCustomer`
(read the row, create at Stripe, write the id). Stripe is the environment:
`Pay`, `Subscribe`, `Renew`, `End` change a subscription and *report* an event;
`Deliver` hands any event that was not answered with 200 to a free worker, in
any order and as often as it likes, to several workers at once.

A worker takes one statement a step: `Claim` (insert into
`stripe_webhook_events`, a duplicate is answered at once), then the statements
of the event's kind, then `Reply`. `Checkout` is a transaction and so one step;
`CommitUnheard` is its commit with the answer lost. `StepFails` leads to
`Rollback`, which deletes the claim unless that fails too. `Crash` empties all
workers and keeps the tables. `seen` is the local variable `existing`.
`dropped`, `latest`, `reordered` and `raced` are history for the properties.

| Code | Actions |
|---|---|
| `EnsureStripeCustomer` | `Begin` `Make` `Save` `SaveFails` |
| `ProcessWebhookEvent` | `Deliver` `Claim` `StepFails` `Rollback` `RollbackFails` |
| `HandleCheckoutCompleted` | `Checkout` `CommitUnheard` |
| `upsertSubscription` | `Find` `Write` `Upgrade` `KeepLong` `Granted` `Grant` |
| `cancelSubscription` | `Seek` `Cancel` `LookForOthers` `Revert` `KeepShort` |
| `BillingHandler.Webhook` | `Reply` `ReplyLost` |

### Intake

A request takes its whole batch from the month's quota in one conditional
statement (`Accept`), reads the pixels (`ReadPixels`), inserts event after event
(the unique index on pixel and event id makes a repeated one a skip), starts
goroutines, and gives back what it did not store to the month that runs *then*.
A goroutine waits for a token of `capiSem`, reads the backup pixel if it is the
backup's, sends, and writes the code. The customer's update is read and write
apart (`UpdateRead`, `UpdateWrite`, whole row); the administrator's switch is one
statement. A restart loses goroutines and requests and keeps tables. `Expire` is
retention: it deletes an event that is through, and the unique index has forgotten
it. `again` is set by a second goroutine for an event since then.

### Storefront

Ages instead of times: `read`, the age of the read behind an entry, and `kept`,
the age of the entry; `Tick` lets all of them grow and requests take at most
`Delay`, which the code leaves open but a property of ages has to name. `late`
marks an entry the invalidation cannot reach: read before the change and put
into the cache after it, or changed by somebody who does not invalidate. The
worker's `EdgeTtl` is `max-age`, which it starts from its own put.

### The dashboard

`QueryCache` says what an entry does: a fetch is two steps, one at a time; an
invalidation drops the fetch under way and begins it anew if the entry has data
and a page observes it, and otherwise lets it run on, so that its answer lands
late and passes for current for five minutes (`late`). A fetch that fails has had
its one retry (`main.tsx:14`), and nothing begins another by itself: a mount, a focus
of the window or an invalidation may, and the pages of the model may ask, but only
what has not failed (`Due`, or `gaveUp` of the console) has to be asked.

`ReplayScreen`, `Editor` and `Console` model whole pages: what is mounted, what
the form holds, which mutation is under way and who hears of its success (a page
that was left does not), which queries an answer invalidates. The content of a
sale page is the set of edits it includes, so a lost edit shows as a missing
element. The engine writes over a cancellation without asking: `Begin` makes a
cancelled session live once more, `Finish` ends it (`overrun`, bounded by
`MaxOverruns`), as `ReplayLifecycle` allows; which goroutine is in the queue is left
open. `Console` writes down every screen as a record (does it search,
filter, keep placeholder data, page from data; which states its dialog can set)
and has one behaviour for all of them; the run starts in each.

`Feed` keeps the server's log, a clock, both queries by key, and the refs and
state of the hook; `FollowFilter`, `AutoPause` are the page's effects. An insert is
two steps: `Stamp` gives the row its `created_at`, the start of its transaction, and
`Store` commits it, in any order; queries see only what is committed.

### Slips

A definition named `...Slip` stands before its namesake and is what that code
would be after a plausible mistake; nothing uses it. It documents what the
properties are able to notice:

| Slip in | would be | noticed by |
|---|---|---|
| `BatchesLeft` | `<=` in the loop condition | `TypeOK` |
| `Release` | a return path that forgets the token | `SemaphoreExact`, `EverySessionSettles` |
| `Recovered` | startup recovery of running sessions only | `ActiveIsWorked` |
| `Recovered` | startup recovery that also takes cancelled ones | `FollowsLifecycle` |
| `SeesCancel` | polling before the first batch only | `LateBound` |
| `Verdict` | completed although every batch failed | `CompletedIsAccounted` |
| `Cancellable` | cancelling without the `status IN` condition | `SettledIsStable` |
| `HasReplaysLeft` | `<=` in the condition on `used_replays` | `NoOverspend` |
| `Locked` | selecting without `FOR UPDATE SKIP LOCKED` | `CreditLedger` |
| `Tally` | counting the batches tried as replayed | `NotOverstated` |
| `MustWrite` | a way out that waits until its write succeeds | `ShutdownEnds` |
| `Eligible` | a retry without `created_at < session` | `FirstRetryExact` |
| `Slice` | an end bound taken as inclusive | `NoDuplicates` |
| `FailedRange` | a start bound counted from one | `RangesAreFailures` |
| `Missing` | a deletion that goes on without a row | `BillingTypeOK` |
| `Fits` | no unique index on purchases and periods | `GrantedOnce` |
| `Others` | a plan reverted while other slots are active | `PlanFollowsSlots` |
| `Written` | an update that keeps the status it found | `RowsFollowStripe` |
| `Released` | a failed attempt that keeps its claim | `AnsweredIsApplied` |
| `Skipped` | a refund of the whole batch | `UsageLedger` |
| `Fresh` | no unique index on pixel and event id | `ForwardedOnce` |
| `Merged` | an update that writes `is_active` when not asked to | `SwitchedOffTakesNothing` |
| `Finish` | a way out of the goroutine that keeps the token | `EveryForwardEnds` |
| `Tells` | invalidating the new slug only | `OwnChangesShow` of `Storefront` |
| `Aged` | an entry that never expires | `OldPagesGoAway` |
| `FollowFilter` | a filter the hook is not told of | `FilterRespected` |
| `FeedEvents` | the initial load not reversed | `NewestFirst` |
| `ListRecent` | the last of the limit instead of the first | `NothingSkipped` |
| `BucketOf` | an interval past the last one | `RateMatchesChart` |
| `FormShown` | a form that can be edited under the preview | `ConfirmsThePreview` |
| `Invalidates` | invalidating the history only | `OwnChangesShow` of `ReplayScreen` |
| `Polls` | no polling of the open session | `SettlingIsSeen` |
| `Prompts` | a prompt that looks at half of the edits | `NothingLostUnasked` |
| `Captures` | a draft that misses the fields | `DraftIsCurrent` |
| `Invalidate` | a save that drops the list's fetch and marks nothing | `ListCatchesUp`, `NothingOverwritten` |
| `Invalidated` | an action that tells only the list on show | `OwnActionsShow`, `ListSettles` |
| `FirstPage` | a filter that keeps the page number | `NotStranded` |

## 3. The runs

`tlc -config <module>_<run>.cfg <module>.tla`; every run ends within three minutes
on two workers.

| Run | Module | Bounds | Shows |
|---|---|---|---|
| `engine` | `MCReplay` | 2 sessions, 2 batches, 1 token, 1 request, 1 cancel, 1 stop | tokens, orphans, late sends, completed sessions and settled rows, with writes that succeed |
| `faults` | `MCReplay` | 2 requests, a pack of one, 1 batch, failing writes, 1 stop | no overspending, balanced books, counters that never overstate, the lifecycle implemented |
| `liveness` | `MCReplay` | 2 sessions, 1 batch, 1 token, 1 stop, fair | sessions settle, shutdowns end |
| `refund` | `MCReplay` | as `engine` | a counterexample: see section 4 |
| `retry` | `MCReplayRetry` | lineage of 3, 5 events with a tie, expiry, late stores, `LIMIT` 3 | no duplicates, exact ranges, an exact first retry |
| `billing` | `Billing` | 2 slots (one of an earlier subscription), 1 monthly, 1 purchase, 2 workers, 2 events, 2 periods, 1 trouble | credits once, plan and table follow, answered is applied |
| `intake` | `MCIntake` | a pixel with a backup, 1 event id, batches of 2, 2 requests, 1 token, 2 months, 2 upsets | the usage ledger, one forward per event, switched-off pixels, ends of forwards |
| `storefront` | `MCStorefront` | 2 pages, 2 slugs, 2 owners, 1 visitor, 1 host, lifetimes and delay of 1, 1 new text | the owner's changes show, old pages go away |
| `feed` | `Feed` | 3 events of 2 pixels, 3 ticks, buffer 2, initial limit 2, poll limit 1, 1 reset, 2 visits, events and visits together 4 | order, filter, no gaps, the chart |
| `screen` | `MCReplayScreen` | 1 pixel with 1 type, 1 credit, 1 session, 1 cancellation written over, 1 visit | what is confirmed, what shows, what settles |
| `editor` | `Editor` | 2 edits, 2 saves, of both 3 before the last, both editors | nothing lost, nothing overwritten, drafts and list current |
| `console` | `Console` | 2 rows on pages of 1, 1 hit, 3 steps, 1 visit, every screen | actions show, nobody stranded, the list settles |

**Why these bounds suffice.** Two sessions and one token are the least that make
a goroutine wait while another works, and two batches the least with a "between
batches". One stop is one crash or one graceful shutdown followed by a restart;
after a restart only rows survive, so a second stop meets nothing a first one
does not. In `faults` two requests and a pack of one are the race for the last
replay. In `retry` three sessions are a retry of a retry, and five events of
which a load takes three make lists that shrink and shift.

In `billing` two workers make a redelivery meet its first attempt, two events
make an old one come after a new one, and one trouble (a failed step, a failed
rollback, a lost answer or a crash) is what separates them; the proofs lift all
of these bounds. In `intake` a batch of two out of three allowed makes the
second request fail the quota or fit after a refund; two upsets are, for
example, a switch and a month's end, or a crash and a lost answer. In
`storefront` two pages and two slugs make a page move onto another's slug; a
lifetime of 1 has an age below, at and above it. In `feed` the buffer and a poll
are smaller than the log, so that lists are cut and polls leave events to the next;
three of them need one visit (`NothingSkipped` is about an empty cache), and a second
visit has two to begin with: `MaxInputs` bounds both together. In `editor` it does so
for edits and saves: an edit during a save, or a second save without the first one's
edit. In `screen` one session is made, cancelled, perhaps written over, and ends; a
second one, and with it a retry that is accepted, is left to the proofs of
`OwnChangesShow` and `ConfirmsThePreview`, which hold for any number of them;
`SettlingIsSeen` speaks of one session, whoever else there is. `console` has two rows,
one to look at and another to come back to.

Deadlock is checked in the runs of `Replay`, and there is none. The others come
to an end when a bound is reached, so it is not checked there.

Counters for the bounds: `Sessions` (rows ever inserted), `MaxBatches`,
`MaxStops`; `MaxEvents`, `MaxPeriod`, `MaxTroubles`; `MaxRequests`, `MaxMonth`,
`MaxUpsets`; `MaxEdits`, `MaxSaves`, `MaxInputs`; `MaxNow`, `MaxGen`, `MaxVisits`;
`MaxSessions`, `MaxOverruns`; `MaxSteps`; `MaxPage`, the pages `Console` keeps an entry for.
Each occurs in guards only, or bounds a set of keys.

**Fairness.** `FairSpec` of `Replay`: weak fairness of a request's, a cancel's
and a goroutine's next step (the Go scheduler runs what can run, calls have
timeouts, timers fire), strong fairness of `Acquire` (a goroutine blocked in a
channel send waits in a queue), weak fairness of `Exit` and of `Restart` (the
container platform). `IntakeSpec`: weak fairness of every forwarding goroutine,
whose call of Facebook has a timeout; a single token is enough to ask whether it
comes back. `ScreenSpec`, `EditorSpec`, `ConsoleSpec`: what a mount, a new key or an
invalidation makes due is asked, and an answer comes or the fetch fails; nothing has
to ask again after a failure, and the properties of the lists except one that gave
up. Only the poll of a live session goes on for ever (`refetchInterval`,
`use-replays.ts:23`), failures or not. What is asked again and again does not fail
every time (strong fairness of the landing; an invalidation may also drop a fetch).
The debounce fires, sessions settle (`EverySessionSettles`). Nothing is assumed of
users, customers, visitors or Stripe: no click, no request, no delivery has to
happen.

**The properties, and the hazards they are for.**

*Replay.* `SemaphoreExact`: the tokens are the goroutines at work, on every
return path. `ActiveIsWorked`: no pending or running row without a goroutine, so
no source pixel is blocked for ever. `LateBound`: at most one batch goes out
while the row says cancelled; a session cancelled in the queue is written over with
running and sends everything (run `refund`). `CompletedIsAccounted`: counters,
ranges and what Facebook has agree, although three statements write them.
`SettledIsStable`: no late write changes a completed or failed row. `NoOverspend`, `CreditLedger`: a unit
of `used_replays` is a charged session, a request on its way, or a known loss;
what cancellations gave back is counted too, a double refund included.
`NotOverstated`: under any fault the counters never claim more than was
delivered. `RangesAreFailures`, `NoDuplicates`, `FirstRetryExact`: what positions
still guarantee about a list that is loaded again.

*Billing.* `GrantedOnce`: however often an event is processed. `PlanFollowsSlots`:
plan and retention are written apart from the subscriptions and by several
events. `RowsFollowStripe`: the table for events applied in order.
`AnsweredIsApplied`: what Stripe will not send again has taken effect, unless an
attempt gave it up.

*Intake.* `UsageLedger`: the counter is what was stored, what requests still hold
and what failures left. `ForwardedOnce`, `SwitchedOffTakesNothing`,
`EveryForwardEnds`.

*Storefront.* `OwnChangesShow` with its four exceptions, `OldPagesGoAway` without
any.

*Feed.* `FilterRespected`, `NewestFirst`, `NothingSkipped`, `RateMatchesChart`.

*The pages.* `ConfirmsThePreview`; `OwnChangesShow`, `OwnActionsShow`: what the
user was told has succeeded shows wherever data passes for current;
`NothingLostUnasked` (what an editor lets go without the prompt is on the server;
a draft does not count), `NothingOverwritten`, `DraftIsCurrent`; `NotStranded`;
`SettlingIsSeen`, `ListCatchesUp`, `ListSettles`: the page comes to rest on the
truth.

Exceptions in a property are real behaviours of the code, not of the model; they
are listed in section 4. Every module also defines its type invariant
(`TypeOK`, `IntakeTypeOK`, ...), which documents the shape of its state. Those of
`Replay` and `Billing` are checked and proved, those of the other modules are
proved.

## 4. Where the code surprises

One run ends in a counterexample, against a sentence of the repository.

* `refund`: a session cancelled and refunded while it waits for the semaphore is
  started all the same (`UPDATE ... SET status = 'running'` has no condition)
  and sends its events; the comments say that a refund means nothing was sent.

More behaviours met while modelling, which the models contain and the
properties state their exceptions for.

*Replay.*

* The refund is decided on the row read before the cancelling write. The session
  may have started meanwhile; and a second cancel that also read `pending`
  refunds the same session again (`CreditLedger` counts it).
* "Prevent concurrent replay sessions on the same source pixel" is a check
  several statements before the insert, and Retry has none.
* The final status after an authentication error or a lost pixel is written with
  the shutdown context and lost during a graceful shutdown; the session shows
  `running` until the next start.
* The test plan says that a retry sends only failed events; after an
  authentication error, a lost pixel or a crash there are no saved ranges and it
  sends all of them. Saved ranges are positions, and retention, ties and retries
  of retries change the list they refer to.

*Billing.*

* A crash between claim and effect, or a redelivery acknowledged while the first
  attempt fails, leaves a payment without its credit; the claim is rolled back on
  the request's context (`dropped`).
* A commit whose answer is lost makes every redelivery fail on the unique
  purchase; the credit is there once.
* A subscription event that arrives late overwrites a newer one (`reordered`); a
  deletion that arrives before the creation is acknowledged and has no effect.
* A plan granted while another request reverts it may be lost (`raced`). Two
  checkouts at once make two customers at Stripe, and the events of the one whose
  id was overwritten find nobody (`OneAccount`). A slot that is past due keeps
  the plan.

*Intake.*

* A refund after the month's end goes to the new month (`loose`); an error while
  the pixels are read leaves the whole batch counted (`leaked`).
* An event and its backup write the same response columns, the last one stays.
  A failed forward also sets `forwarded_to_capi`, which the live page counts as a
  success (`hooks/use-realtime-stats.ts:43`).
* An update by the customer that read the pixel before the administrator's
  switch turns it on again.
* The unique index knows stored events only. Once retention has deleted one, the
  same event id is stored, counted and forwarded again (`Expire`); `ForwardedOnce`
  holds until then.

*Storefront.*

* A visitor's request that read the page before an update sets the old entry
  after the invalidation; overlapping updates move a page by whole rows; the
  administrator's takedown does not reach the cache, and an owner's update that
  read the row before undoes it. The server's and the edge's lifetime add up.

*The dashboard.*

* A first fetch under way when a mutation invalidates is not dropped: old data
  passes for current for five minutes (`late`). The quota is not invalidated by
  a replay.
* A list whose query failed, its one retry included, stays stale or in error until
  a mount, a focus of the window or an invalidation (`gaveUp`).
* A page that has read a cancellation stops polling (`hooks/use-replays.ts:23-29`);
  if the engine writes it over (`overrun`) the session runs and ends unseen, and the
  history shows other than what the user was told.
* The live feed reads on from a cursor in the order of `created_at`, which is the
  start of the inserting transaction (`db/migrations/000001_init_schema.up.sql:37`). Of
  two inserts that overlap, the later may commit first and move the cursor past the
  earlier, which is then never shown (`smooth`).
* The live feed skips events that share the time of the last one of a full page,
  starts from the client's clock when its first load is empty, starts from an old
  cache entry when the page is opened again, and can show an event twice after a
  reset under a running poll. The hook counts its resets from zero in each visit
  while the cache keeps a load under that number for five minutes: a refresh may
  take up the load of an earlier visit, and later visits then show polled events
  under newer loaded ones. It takes three visits (`crossed`), and the proof of
  `NewestFirst` found it, not the run. The manual describes a pause button
  (`docs/user-guide-th.md:138`); an effect of the page (`EventsPage.tsx:322`)
  undoes a pause at once.
* The button that removes the hero image sets the field without marking the form
  (`SalePageEditorPage.tsx:629`): who leaves then is not asked, and the removal is
  lost (`silent`).
* A draft of before the pixels were switched in the list is restored on a current
  list (`BlockEditorPage.tsx:103-118`), and saving it takes the pixels back: an
  editor that restored an older draft is not `fresh`, and `NothingOverwritten` is about
  the others.
* A draft the browser has no room for is not stored, and nobody is told
  (`hooks/use-auto-save-draft.ts:14-18`; `refused`).
* An upload that ends puts back the blocks, or the style, of the render it began
  in. The classic editor's draft misses the fields typed last. A published page
  stays open with its draft written again, and the prompt stays switched off
  after a navigation that was allowed once.
* Paging on by the totals of another filter, or a last row that goes away, leaves
  the administrator on an empty page without buttons. To go *back* from a page
  reached that way can end on another one that is not there (`hurried`).
* In the classic editor an upload may begin before the form is filled from the
  page; when it lands, it puts back the style of the empty form, over the page's
  (`fragile`).
* A form edited while its preview loads is confirmed with the event types
  selected then.

## 5. What is proved

| Theorem | Property | Argument |
|---|---|---|
| `ReplayProofs!TypeCorrect` | `TypeOK` | `TypeInv` is inductive |
| `ReplayProofs!CreditsNotOverspent` | `NoOverspend` | `TypeInv` and what a step can do to `used` |
| `ReplayProofs!SemaphoreIsExact` | `SemaphoreExact` | cardinality of `Holders`, one lemma per kind of step |
| `ReplayProofs!LedgerBalances` | `CreditLedger` | `LedgerInv` |
| `ReplayProofs!ImplementsLifecycle` | `FollowsLifecycle` | `Inv`, each step is a step of the lifecycle or a stutter |
| `ReplayProofs!SettledForEver` | `SettledIsStable` | from the lifecycle step and `Inv` |
| `ReplayProofs!NoOrphans` | `ActiveIsWorked` | `WorkInv`; assumes `~DbMayFail` |
| `ReplayProofs!NeverOverstated` | `NotOverstated` | `SentInv` |
| `ReplayProofs!CompletedTellsTheTruth` | `CompletedIsAccounted` | `SentInv`, `ReportedInv`; assumes `~DbMayFail` |
| `ReplayProofs!OneLateBatch` | `LateBound` | `LateInv`; assumes `~DbMayFail`; about rows that say cancelled |
| `ReplayProofs!RetryTypeCorrect` | `RetryTypeOK` | `RetryInv` is inductive |
| `ReplayProofs!RangesTellTheFailures` | `RangesAreFailures` | `RangesInv`, a part of `RetryInv` |
| `ReplayProofs!NothingIsSentTwice` | `NoDuplicates` | `RangesInv`; `CutPicks` by induction over the ranges |
| `ReplayProofs!FirstRetrySendsTheFailures` | `FirstRetryExact` | `FirstInv`; `ListingIsUnique` by induction over positions |
| `BillingProofs!NeverCreditedTwice` | `GrantedOnce` | `OnceInv`: a credit is 0 or 1 |
| `BillingProofs!BillingTypeCorrect` | `BillingTypeOK` | `BillingInv` is inductive |
| `BillingProofs!AnsweredEventsApplied` | `AnsweredIsApplied` | `AnswerInv` on top of `BillingInv` |
| `BillingProofs!TableFollowsStripe` | `RowsFollowStripe` | `RowsInv` on top of both |
| `BillingProofs!PlanIsOwned` | `PlanFollowsSlots` | `AccountsInv`, `ApartInv`, `OwedInv` on top of both |
| `IntakeProofs!IntakeTypeCorrect` | `IntakeTypeOK` | `TypeInv` is inductive |
| `IntakeProofs!QuotaLedgerBalances` | `UsageLedger` | `QuotaInv` |
| `IntakeProofs!OneForwardEach` | `ForwardedOnce` | `OnceInv` |
| `IntakeProofs!SwitchedOffStays` | `SwitchedOffTakesNothing` | `OffInv` |
| `IntakeProofs!FeedTypeCorrect` | `FeedTypeOK` | `ShapeInv` is inductive |
| `IntakeProofs!TheFilterIsRespected` | `FilterRespected` | `ShapeInv` |
| `IntakeProofs!TheNewestIsFirst` | `NewestFirst` | `OInv` on top of `ShapeInv` |
| `IntakeProofs!NothingIsSkipped` | `NothingSkipped` | `GapInv` on top of both |
| `IntakeProofs!TheRateMatchesTheChart` | `RateMatchesChart` | `SumIs`, by induction over the intervals |
| `StorefrontProofs!OwnChangesAlwaysShow` | `OwnChangesShow` | `Current` on top of `StoreInv` |
| `StorefrontProofs!OldPagesExpire` | `OldPagesGoAway` | `StoreInv` bounds every age |
| `StorefrontProofs!StoreTypeCorrect` | `StoreTypeOK` | `StoreInv` is inductive |
| `ReplayScreenProofs!PreviewIsConfirmed` | `ConfirmsThePreview` | `FormInv` |
| `ReplayScreenProofs!HeardChangesShow` | `OwnChangesShow` | `CacheInv` |
| `ReplayScreenProofs!ScreenTypeCorrect` | `ScreenTypeOK` | `FormInv`, `CacheInv`, `QuotaInv` |
| `ConsoleProofs!OwnActionsAreShown` | `OwnActionsShow` | `ActionInv` |
| `ConsoleProofs!NobodyStranded` | `NotStranded` | `StandsInv` on top of `ActionInv` |
| `ConsoleProofs!ConsoleTypeCorrect` | `ConsoleTypeOK` | `ActionInv`, `TimerInv`, `DialogInv`, `KeyedInv` |
| `EditorProofs!EditsAreKept` | `NothingLostUnasked` | `EditorInv` |
| `EditorProofs!SavesAddUp` | `NothingOverwritten` | `EditorInv` |
| `EditorProofs!DraftsKeepUp` | `DraftIsCurrent` | `EditorInv` |
| `EditorProofs!EditorTypeCorrect` | `EditorTypeOK` | `CountInv`, `ClosedInv` on top of `EditorInv` |

**Replay**: for every number of sessions, pixels, credits, requests, batches,
stops and every semaphore capacity, under `ConstantsAssumption` (finitely many
sessions and concurrent requests, sizes are natural numbers, `NULL` is not a
key). `TypeOK` alone is not inductive: `next` must stay within `0 .. MaxBatches`,
which needs that a goroutine about to send has a batch left. So `TypeInv` adds
`LoopInv` (inside the loop, `next < total`; before it, `next = 0`) and
`BindingInv` (a request at work names its pixel and the credit it locked; every
goroutine has a row).

`LedgerInv` is the interesting one. The `UPDATE` in `ConsumeOneCredit` is
conditional, and the code does not look at the number of rows it changed: that
every charge counts rests on the row lock, so `LockInv` says that a locked
credit has a replay left and is locked by one request only. That a refund finds
the credit its session was charged with rests on rows that never lose theirs
(`RowInv`). Unlike the run `faults` the theorem covers any number of cancels and
packs of any size.

`Inv` adds `LifeInv` (a settled row has no goroutine, a queued goroutine's row
is pending or cancelled, a stopped server has neither goroutine nor request),
and `WorkInv` that the exit "cancelled" is only taken by a cancelled session.
`NoOrphans` assumes that writes succeed: a status write that fails leaves an
orphan until the next start.

What a session says about its batches needs three more. `SentInv` parts the
batches before the loop counter into accepted and failed ones, and says that no
row claims more than was accepted; it holds under every fault. `ReportedInv` says
what is already written at each point of the way out (the ranges after
`SaveRanges`, the counters after `SaveProgress`, both in a completed row): three
statements write what `CompletedIsAccounted` compares, so it can only hold if
none of them fails. `LateInv` says that a goroutine that has sent a batch of a
cancelled session has not polled since, or polls in vain because the server is
stopping, and then its context is done and nothing goes out.

**ReplayRetry**: for every set of events and times, every size of batches, `LIMIT`
and length of the lineage, under `RetryAssumption` (finitely many events, sizes
are not zero). `RangesInv` says that ranges are in order and end before the loop
counter, so that they neither overlap nor leave the list, and that the list has no
event twice. That a cut list has none either is about what `Retry` computes with
`slice` and `append`: `Picks(c, all, P)` says that `c` is what `all` has at the
positions `P`, in their order, and `CutPicks` that the cut is such a list, of the
positions the ranges cover *in the list that was loaded*. Ranges may count in
another list and reach beyond this one; as they do not overlap, the positions stay
distinct. `FirstInv` carries the exactness: as long as events stay and have times
of their own, a session that was no retry works through *the* listing of the old
events, and its retry loads the same one (`ListingIsUnique`), so that ranges of the
one are ranges of the other.

`CutPicks`, `JoinExists` and `ListingIsUnique` are proved by induction. The
library's induction theorems take an operator and cannot be instantiated, so
`SetInduction` states induction with a set for the predicate; it follows from
`NatLessThanWellFounded` and the least element of the complement.

**Billing**: for every set of goods, every number of workers, events, periods and
troubles, under `BillingAssumption` (the kinds of goods are disjoint, periods are
numbers from 1). `BillingInv` says in `WorkersOK` which kind of event a worker at
a step has, and that a cancel found its row. `AnsweredIsApplied` is about
acknowledged events, but what lasts is about *claimed* ones: `ClaimedIsApplied`
says that a claimed event that was not given up has had its effect or is being
served. A worker that acknowledges a duplicate relies on it. `HalfWay` adds that
a worker past its write of the subscription is past it (`latest`), so that the
end of its steps is the effect.

`RowsFollowStripe` and `PlanFollowsSlots` speak of the moments when everything is
answered, and there are no such moments in the middle of a proof. So the
invariants say what is *still to come* wherever two things disagree. For the rows:
`ReportsInv` (Stripe has what its last report says), `WrittenInv` (a subscription
with a claimed event has a row, or a request is about to write one) and
`FollowsInv` (a row is what the last event applied to it says, unless an older one
came late). For the plan: `OwedInv` says that where plan, retention and slots
disagree, an event that settles it is being served at a step before the one that
does, is not claimed yet, or was given up. It rests on `ApartInv`: as long as no plan
was granted in the middle of a revert (`raced`), a request that grants and one that
reverts are never at work together, and none acts on a table that has moved on
since it looked. `AccountsInv` says that an id made at Stripe is saved by the checkout
that made it and no other, so that a customer whose one account is the only one
now never had another.

**Intake**: for every number of pixels, events, requests, months, every quota and
every capacity of `capiSem`. `QuotaInv` is the ledger and, with it, that every
request's place is in the month that runs (unless one has ended in a request,
`loose`); what requests hold is the size of the set `Held` of the places still
reserved, so that each step moves one place from one column to another.
`ForwardedOnce` counts goroutines; `OnceInv` says that an event that had one is
still stored, so that the unique index refuses it, or its pixel is gone, and no
update brings a pixel back; retention takes event and forwards off the books
together. `OffInv` says of a request that began after the switch
that it has read, or will read, the pixel as off.

**Feed**: for every set of pixels, any number of events, ticks, resets and visits,
every buffer, limit, look-back and chart, under `FeedAssumption` (`All` is no
pixel, sizes are not zero, an initial load fits into the dedup set, a minute
into the chart). The feed is made of selections, cuts and reversals of the log,
so the proof begins with what each of them returns (`Keeping`, `Beginning`,
`Ending`, `Reversing`, `Joining`): a strictly increasing list of what is in a
set. `Kept` is a recursive function, and that there is such a function at all is
`KeepingExists`, by `SetInduction`; so is the sum of the chart's intervals.

Three invariants stand on each other. `ShapeInv`: a load under a key and a poll
under a pixel are increasing lists of events of that pixel, whoever is shown
meanwhile; the rest of it are types. `OInv` is about order, and what it needs is
more than what is shown: `Known` is all the hook has shown, counted as seen or
may still find in the cache, the cursor is behind none of it, and what a running
poll will bring is later than all of it (`LoadedOrder`); before the load lands
there is nothing yet for it to be out of order with (`LoadingOrder`); and the
entries of the first key, which the next visit opens with, stay in order while
the page shows another (`CacheOrder`). `GapInv` says that the feed holds every
event of its filter between its oldest and the cursor (`Filled`), and that a
running poll holds all that come next (`Continued`): a poll that returned the
last of its limit would break the second, and then, when it lands, the first.

**Storefront**: for every number of pages, slugs, hosts, owners and visitors and
every lifetime, under `StorefrontAssumption` (`EdgeTtl` is not zero, `None` is no
value of the program). `OldPagesGoAway` speaks of reads only; `StoreInv` says how
old a read can be at each stage: no older than the request while it reads, than
`Delay` and the entry's age in the cache, than that and another request on its way
to the edge. `OwnChangesShow` speaks of the cache; `Current` says the same of each
request that has read the row, for its `Set` makes an entry of it. A step that
changes a page keeps `Current` for one reason, `UntoldStaysCurrent`: the slug the
page is taken off is either among those marked late or among those an owner's
request is going to invalidate.

**The dashboard**: for every number of rows, sessions, pages of a list, edits and
saves, and any number of fetches under way. The three proofs lean on `EntryMoves` and
`OutdatedMoves` of `QueryCache`, which say for each move of an entry what it
does to the data that passes for current (`Vouched`): an invalidation leaves
nothing vouched for and no answer under way that will be. What shows is therefore
an invariant of entries *and* of answers that have not landed: `ToldInv` of the
replay page and `OwedInv` of the console say that both agree with what was heard
(and, of the replay page, that a cancelled row is still so unless it is in `overrun`).
On the server's side, `DoneInv` says that what a call did stays done, and `OwedInv`
that a row that is owed is as the action left it, with no other call under way.

The type invariants of the three follow from the same invariants and little more.
Two of them say something: that no page of the console holds more than `PerPage`
rows rests on `PlacesDiffer` (no two rows have one place in a list) and
`PagesAreShort`; that the list of sale pages counts no more than was saved rests
on `CountInv` (a create that is under way is a save already counted).

`ConfirmsThePreview` needs that the form behind a preview on show has not changed
since it was asked for (`FormInv`). `NotStranded` needs that every list held, and every answer
under way, has the totals of its own filter (`StandsInv`): then whoever turns
pages by a list of his own filter stays within them.

`EditorInv` has a part for each way an edit travels. `SaveInv`: a save of the open
editor is of what it shows, and a save of an earlier editor makes this one no base
to build on. `FormInv`: an editor without fragile edits holds all that was
done in it, is dirty if that is not saved, and lets its user go only when it is.
`ListInv`, `PageInv`, `OldInv`: a list that passes for current is the page, and what
starts from it, or from a draft that is not marked old, takes no edit off it.
`DraftInv`: the draft's source is what the editor shows. It was checked on a larger instance
(1.7 million states) before it was proved, and two of its parts were false as first
stated; section 4 has what came of that.

**Only model-checked.** The liveness properties (`EverySessionSettles`,
`ShutdownEnds`, `EveryForwardEnds`, `SettlingIsSeen`, `ListCatchesUp`,
`ListSettles`): liveness under fairness is out of the proof system's reach.
Every invariant and every action property a passing run checks is proved.

## 6. What is not modelled

* Of the replay engine: the expiry of credits and the administrator's grants, the
  attempts and backoff inside `SendEventsWithRetry` (one step, with all its
  outcomes), the validation of a target pixel, Preview and the listings.
* Of billing: `UpdatePixelSlotQuantity` and `CreateCustomerPortalSession`, which
  call Stripe and write nothing; the administrator's plan change.
* Of pixels and sale pages: creation under a quota (a check and an insert in two
  statements, so two requests may exceed a plan by one), test events, tokens,
  rendering, the lookup of a domain.
* Of the dashboard: deleting a page from the list, validation, the statistics of
  the console, credit grants and plan changes there; the pixels page, billing
  page, settings, charts, guide and home page, which are texts and single
  requests.
* Customer provisioning, which may write back a customer row read before a plan
  change: it would have to be composed with `Billing`.
* Authentication, rate limits, upload storage, analytics queries, templates,
  handlers and router, the main edge worker: they keep no state of their own, or
  one map under one lock.

## 7. What is left

1. Provisioning and the administrator's plan change, composed with `Billing` on
   the plan column.
2. The quotas of pixels and pages, in `Intake` and `Storefront`.
