# A TLA+ model of the Last Chance platform

Last Chance sells last-minute stays: guests put a payment hold on a rental unit,
pay it through an external provider, and the money waits in escrow until the stay
is completed and the host is paid, or until it goes back to the guest. This
directory holds TLA+ modules of the parts of the platform where concurrency,
failure and ordering decide about double bookings and about money, the TLC
configurations that model-check them on small instances, and theorems checked by
TLAPS for every instance.

Contents: [inventory](#inventory) · [modules](#modules-and-how-they-read) ·
[runs](#what-the-runs-check) · [divergences](#where-the-code-and-its-comments-disagree) ·
[proofs](#what-is-proved) · [limits](#what-is-not-shown)

## Inventory

Paths are relative to `src/`; `B` stands for `backend/src` and `M` for
`backend/src/modules`.

| Component | State | Operations | Interacts with |
|---|---|---|---|
| Booking calendar and holds: `M/booking`, `db/migrations/0003, 0005, 0006, 0013, 0015` | `bookings` (status, window, block range, hold deadline), `unit_availability_blocks` | createHold, confirm, cancel, checkIn, complete, markRefunded, expiry job, sweeper, host blocks | Redis lock, expiry queue, payments queue (refund and payout triggers), deals (claim inside the hold transaction), pricing |
| Redis lock: `B/infrastructure/redis` | one key per unit with a token and a TTL | acquire, release (compare and delete) | wraps the critical section of createHold |
| Database service: `B/infrastructure/database` | connections | withTransaction | everything |
| Queues: `B/infrastructure/queue` | BullMQ queues in Redis: expiry, payments, deals | add, retry with backoff, stalled-job recovery | services add, workers consume |
| Payments and webhooks: `M/payment` | `payments`, `payment_webhook_events` | initiate, ingest, process (capture, failure, refund) | provider, payments queue, booking service, ledger |
| Refunds | `refunds` | create-refund job, settlement by webhook | provider, ledger, booking |
| Payouts | `payouts` | create-payout, execute-payout jobs | provider, ledger, booking |
| Escrow ledger | `ledger_entries` (append only) | postGroup | called in the transactions of the three above |
| Escrow administration | `payouts` | hold, release, retry, adjust | payouts, queue |
| Payment worker | running jobs, concurrency 10 | dispatch by job name | all payment services |
| Providers: `M/payment/providers` | intents, refunds and transfers outside the platform | createIntent, refund, createTransfer, webhooks | external |
| Flash deals: `M/deals` | `flash_deals` (claimed, quantity, window, status) | create, claim, lifecycle sweep, events | hold transaction, deals queue, the strip of the site |
| Moderation: `M/moderation`, `web/src/app/admin/moderation` | listing status, compliance columns, the page an operator has open | submit, withdraw, approve, reject, suspend, reinstate | search index, host notifications |
| Search and indexing: `M/search` | OpenSearch index versions and their alias | index or evict a unit, rebuild, promote, two-stage query | moderation, bookings |
| Pricing: `M/booking/application/pricing.service.ts` | none (pure) | quote | createHold, CHECK constraints |
| Inventory and map search: `M/inventory` | properties, units | CRUD, search of an area | calendar, both maps |
| Authentication: `M/auth`, `B/common/auth` | codes, counters and cooldowns in Redis; claims in tokens | request, verify, login, register; rate, token and role guards | every route |
| Media: `M/media` | files on disk, `units.photos` | upload, remove | - |
| Realtime gateway, events | socket subscriptions | broadcast | bookings, deals, both clients |
| Web client: `web/src` | session cookie, pages, the map, the consoles of guests, hosts and administrators | middleware, server actions, search | API |
| Mobile client: `mobile/lib` | the state of its notifiers | hold, claim, pay, watch, search | API, payment provider |
| Reporting: `M/reporting` | none (queries) | the lists the consoles render | Web client |
| Reviews, notifications, settings, health, API docs, migrations, deployment | tables, configuration | read-only queries, mail, generated documents | - |

What makes each of these correct:

- *Calendar.* No two holding bookings of a unit overlap, cleaning buffers
  included; no booking lies under a host block; a lapsed hold gives its inventory
  back; a confirmation that was refused as too late is never confirmed afterwards;
  a booking triggers a refund or a payout, never both.
- *Lock.* A request never frees another request's lock.
- *Payments, refunds, payouts, ledger.* The ledger and the tables tell the same
  story however often a webhook or job is delivered; money enters escrow once and
  leaves it once, in one direction; every capture reaches the books; every refund
  that was triggered is made; every completed stay is paid out.
- *Deals.* Every piece counted as sold was one hold; no piece is sold twice; a unit is
  never offered by two deals at once; a page never understates what is left.
- *Moderation and search.* A listing is approved only with its compliance columns;
  nothing enters the index that was never cleared; a rebuild hides nothing.
- *Pricing.* Every quote satisfies the CHECK constraints of its row, and splits later
  into balanced ledger legs if it leaves its host anything.
- *Authentication.* A counter that limits a phone or an address is given an end; the
  site's guards agree with the API's on every role and do not chase a reader round.
- *Clients.* "Confirmed" is shown for confirmed bookings only; answers that arrive out
  of order do not paint over later ones; a spinner ends. What a console says was done is
  done, however old its page and whichever answers got lost.
- *Media.* A listed photo keeps its file through every upload, removal and failure of its
  own unit, and no file is left without reason.

The behaviours that are hard to test, each at the line where it bites, are listed
under `hazards` in `PROJECT.json` together with the properties that would catch
them going wrong.

## Modules and how they read

```
ExclusiveCalendar   what the calendar promises
      ^ implemented by
BookingCalendar     the layers that keep it     <- MCBookingCalendar   (TLC instances)
      ^                                         <- BookingCalendarProofs (theorems)
EscrowAccount       what escrow promises
      ^ implemented by
EscrowPayments      services, tables, queue, provider  <- MCEscrowPayments (TLC instances)
                                                <- EscrowPaymentsProofs
CountedSale         what a flash deal promises
      ^ implemented by
FlashDeals          rows, claims, locks, sweep, strip  <- MCFlashDeals
   extends Pricing                                     <- FlashDealsProofs
ListingModeration   listings, decisions, pages         <- MCListingModeration
   extends SearchIndex                                 <- ListingModerationProofs
GuestApp            composes MapScreen, GuestCheckout, <- MCGuestApp
                    SignIn, WebSession, UnitPhotos,    <- GuestAppProofs
                    Consoles                              (extends ConsolesProofs)
```

### BookingCalendar

A hold request is a process named by the booking it will insert. Its program
counter walks through `createHold`: `RequestHold` (validation and the bookable
unit), `AcquireLock` / `LockNotAcquired` (Redis), `HasConflict` (the conflict
read), `InsertHold` (the row, its trigger's advisory lock, the host-block check
and the exclusion constraint), `CommitHold` or `CommitFails`, `ReleaseLock` (the
`finally`), `ScheduleExpiry` (best effort). `LockExpires` takes the Redis lock away at
any moment; `RedisRestart` takes the locks and whatever the queue held, delayed jobs and
the repeatable job of the sweeper alike, and only `AppStarts` (the next bootstrap) adds
the latter again; `CrashRequest` ends the process at any step.

A call on an existing booking (`StartCall`) first reads the row and asserts the
transition, then writes with a compare-and-swap, and the two are separate steps.
The confirmation's UPDATE keeps the clock of its *start* (`call.at`): PostgreSQL's
`now()` does not move while the statement waits for the row lock (`WaitForRow`,
`ConfirmAfterWait`) or for the advisory lock its trigger takes
(`UpdateUnderCalendarLock`). A lost compare-and-swap is read again and answered
(`CallLost`) with the *application* clock, which may run ahead of the database's
by `AppSkew`. Cancellations and completions end by enqueueing money
(`EnqueueMoneyJob`); `CallDies` is the crash or queue failure in between.

`ExpiryJob` and `Sweep` are the two expiry layers (`FOR UPDATE SKIP LOCKED` and the batch
limit included), each while the queue has its job. Host blocks are the four statements
their table allows, with the trigger's lock and checks. `Transitions` is the transition
table after migration 0015. Statement-by-statement effects of the inserted row (pricing,
guest, status history) are left out: no property tells them apart.

`ExclusiveCalendar` knows only who occupies which instant of which unit.
`Occupied` maps the committed, holding rows and the active blocks to it.

`Shown` is the map's own query for availability (the two `NOT EXISTS` of
`map-search.repository.ts`), and `MapAgrees` compares it, at every insertion, with
what the constraint and the triggers decide.

### EscrowPayments

A handler of the payments worker is a process `worker[w] = [job, step, payment,
refund]`. Every database statement or transaction, every provider call and every
`queue.add` is a step of its own; what the handler read earlier is kept in its
record, so it can be stale when it is used.

| Code | Actions |
|---|---|
| `PaymentService.initiate` | `CreateIdempotent`, `CreateIntent`, `AttachProviderIntent` |
| provider and guest | `GuestPays`, `PaymentFails`, `RefundEnds` |
| `WebhookService.intake` | `RecordEvent`, `EnqueueEvent` |
| `PaymentWorker` and BullMQ | `TakeJob`, `WorkerCrash`, `StepThrows` |
| `WebhookService.process` | `ClaimEvent`, `ApplyCapture`, `ApplyFailure`, `ApplyRefund`, `ApplyRefundFailure`, `ReadBooking`, `AssertConfirm`, `ConfirmCas`, `AnswerConfirm`, `MarkRefunded`, `MarkProcessed`, `FailEvent` |
| `RefundService.createForBooking` | `FindCaptured`, `CheckExisting`, `InsertRefund`, `AskProvider`, `AttachRefund` |
| `PayoutService` | `ReadCompleted`, `FindPaid`, `SplitEscrow`, `EnqueueTransfer`, `ReadPayout`, `Transfer`, `MarkInTransit`, `Settle`, `TransferFailed` |
| `EscrowAdminService` | `HoldPayout`, `ReleasePayout`, `RetryPayout` |
| `BookingService` as seen from money | `HoldLapses`, `ConfirmCall`, `ExpireHold`, `Cancel`, `Complete` |

The queue counts the jobs of each kind. Delivery is at least once and in no
order: `TakeJob` may take any job, a failing attempt leaves its job in the queue,
`"stalled"` hands a running job to a second handler, `"exhausted"` drops it after
its last attempt. `Faults` says which failures an instance contains; the actions
themselves do not change.

Simplifications: the booking's compare-and-swap is atomic here and has one clock
(`BookingCalendar` has the details); `CHECKED_IN` is part of `CONFIRMED`, since no money
moves at check-in; amounts, currencies, signatures and the legs of a ledger group are left
out, because a group is balanced (`Pricing` has the split's) and posted whole, so only
*how often* each group is posted can go wrong, and stays that leave their host nothing,
whose split never commits, are not among these bookings; events the services ignore or
skip are not emitted; `EscrowAdminService.adjust` posts an arbitrary balanced pair and
touches nothing else.

`EscrowAccount` knows only where the money of each payment is: with the guest, in
escrow, returned, or with the host. `Stage` reads that from the ledger, and is
`"broken"` for any other combination of groups.

### FlashDeals, Pricing

A claim is a hold request with a hook, and a process named by the hold it will insert:
one guest may have made several. `StartRequest` (the fast checks on a row read
beforehand, on the application clock, and the bookable unit), `AcquireLock`,
`ConflictFound`, `TryClaim` (the UPDATE that waits for the row), `InsertHold` or
`ExclusionViolated`, `Commit` or `CommitFails`, `Answer` (the event after the commit).
What an uncommitted transaction did is kept in its request, so a rollback is
`Abandon`. `LockExpires` takes the Redis lock away at any time. The sweep is three
kinds of steps: `ActivateDue`, `EndExpired`, and one `SweepTells` per row; it may fail
between any two. `wire` holds events on the way to an open page, and `Deliver` takes any
of them. `CountedSale` knows only which holds a deal counts.

`Pricing` has no state: the quote, the row it becomes and the ledger legs the payout
derives from that row are operators on integers, rounding included. `SplitPosts` is the
whole transaction of the split: the payout row, whose amount must be above zero, and the
balanced group. `MoneyAddsUp` evaluates them for every base the instance's units can be
made to quote.

### ListingModeration, SearchIndex

A browser opens a page (`OpenPage`), and the buttons it offers later are those of that
moment (`Buttons`). A call then is `CheckBlockers`, `ReadStatus`, and one guarded UPDATE
(`Transition`, with the transition trigger and the CHECK constraint in its guard), each
on what the database holds by then; the index follows with a load and a write that may
be separated by anything (`LoadDocument`, `IndexDocument`), or fail. `SearchIndex` keeps
two index versions behind an alias, the rebuild (`SweepLoad`, `SweepFill`,
`SweepPromote`), and a query with its two stages.

### GuestApp and its six parts

Six protocols that share no state, each a module of its own; `GuestApp` picks one of
them per behaviour.

- `MapScreen`: the phone's controller and the site's effect, with debounce, cancelled
  requests, answers in any order, and the server's span cap (`Served`).
- `GuestCheckout`: the phone's notifier with handlers that write the screen when their
  await returns, and the watcher (`WatchReads` ... `WatchFails`); on the site the chain of
  pages. The webhook and the expiry are `WebhookConfirms` and `HoldLapses`. `LeaveScreen`
  disposes of the phone's flow in any state.
- `SignIn`: the rate limiter and the one-time code service over Redis, one command a
  step, for one number. A counter's INCR and EXPIRE are two commands.
- `WebSession`: cookie, middleware, page, and the API's token and role guards behind the
  fetches of the page; the token may expire in between. A page is itself or its error
  boundary, because the API `"refused"` the reader or because a fetch `"failed"` for any
  other reason (`api()` throws on every answer that is not OK); the overview of a host
  always fails (`OverviewThrows`).
- `UnitPhotos`: files and the lists that name them, several units and editors, and a crash
  between the two halves of each call. A removal is asked of one unit under any URL that
  was ever on a page; `crossed` remembers the names asked of a unit they are not of.
- `Consoles`: "My bookings" of a guest, the bookings of a host, and the escrow console. A
  page keeps the statuses it was rendered with (`OpensPage`) and offers `Buttons` for
  them; a press (`Presses`) is a server action under whatever account the cookie names by
  then. The API resolves the caller's part in the booking and reads the row
  (`ReadsBooking`), compares and swaps (`WritesBooking`, or `MovesPayout` in one
  statement), and queues the money (`QueuesMoney`); it may fail at any of these steps, or
  its answer may be lost (`CallFails`), which the server action cannot tell apart.
  `HearsSuccess` renders anew and announces, `HearsFailure` reports on the old page, and
  the reader may have left (`WalksOff`, `EndsUnheard`). Adjustments are a form with three
  judges: the action, the controller's schema and the service (`ActionAccepts`,
  `SchemaAccepts`, `AdjustAccepts`). Captures, expiries, refunds and the payout worker move
  the rows meanwhile; `EscrowPayments` has the same rows from the worker's side.

## What the runs check

| Run | Instance | Shows |
|---|---|---|
| `calendar_layers` | 2 bookings, 1 host block, 1 caller, 2 adjacent windows, buffer of 1 | `NoDoubleBooking`, `NoStayOverHostBlock`, `OnlyOwnerReleases`, `MapAgrees`, `ImplementsCalendar` |
| `calendar_races` | 1 booking, 3 concurrent calls (confirm, cancel, complete, mark refunded), application clock 1 tick ahead | `OneMoneyTrigger`, `HoldExpiredIsFinal`, `DeadlineDecides` |
| `calendar_liveness` | 1 booking, 2 calls, clock skew, fairness | `LapsedHoldReleased`, `EverybodyAnswered` |
| `escrow_faults` | 1 payment, 2 handlers, every fault but a retried intent | `LedgerTellsTables`, `ImplementsEscrow` |
| `escrow_crossing` | 2 payments of one booking, 2 handlers, retried intents, direct confirmations | `OneWayOut`, `HostPaidFromEscrow` |
| `escrow_liveness` | 1 payment, 2 refund rows, 2 handlers, no faults, fairness | `CaptureReconciled`, `RefundJobRefunds`, `CompletedStayPaid` |
| `flash_deals` | 2 deals of a unit, 2 holds, 2 stays, clock of 2, totals of 1 and 2, ~90 bases at 7 percentages each for discount and commission | `ClaimsAreBookings`, `StockNeverOversold`, `OneOfferPerUnit`, `StripNeverUnderstates`, `MoneyAddsUp`, `ImplementsSale` |
| `listing` | 1 listing, 2 browsers, a rebuild, a query | `OnlyClearedIndexed`, `ApprovedHasPapers`, `PromotionKeepsSteady` |
| `guest_app` | 4 views (one too wide), 2 queries, 4 searches; 2 holds, 2 presses of the button; 2 requests, limits of 2; 7 paths; 3 photos of 2 units, 2 editors, a cap of 1; 2 browsers, 3 accounts, a booking, a payout, 1 adjustment | `SpinnerEnds`, `SiteShowsItsView`, `AnswersInOrder`, `ConfirmedIsBooked`, `WindowsOpenAgain`, `RedirectsSettle`, `AdmittedIsNotRefused`, `FilesMatchList`, `ConsolesKeepTheirWord` |

The first run of each module also checks its `TypeOK`. Three more runs each refute a
sentence of the repository (next section).

*Bounds.* The calendar's windows `[1,2)` and `[2,3)` collide exactly because of the
cleaning buffer, while a host block of the first leaves the second free, so both sides of
every overlap test occur. Two bookings and a block are every pair that can conflict
(booking/booking, booking/block). One hold tick and a clock of two or three ticks let
statements start before, at and after the deadline. `calendar_races` has a third caller so
that a call is refused while one holds the row lock and another waits for it; `checkIn`
runs in the other two instances and in the theorems. In `EscrowPayments`, two handlers
give every pair of interleaved handlers; a crash, retry or stall makes any number of
attempts follow one another with one handler slot. Two payments of one booking make a
refund and a payout of different payments possible. `Copies = 2` tells one outstanding
copy of a job from several; the count saturates there. `Refund` bounds the number of
refund rows: an insertion waits when they run out. Units of different rental units never
share a lock or a row, and bookings of different guests never share a payment, so one unit
and one booking per run lose nothing. In `flash_deals` the second deal may overlap the
first or follow it, so a sold-out row and its successor meet; two holds and a total of one
are the last piece, and a total of two is the last but one, with its events out of order.
A refused request is made again, for either deal. Amounts stay below 10^5 because TLC
computes in 32 bits. `listing` needs two browsers for a stale page and a decision between
two reads; two listings share no row and no document, so one shows every history of
either, and the theorems are for any number. There is one rebuild at a time: nothing in
the code keeps operators from starting two, and what they would do to each other is not
shown. In `guest_app`, behaviours of different parts commute and no property speaks of two
parts, so choosing one part per behaviour loses nothing; four searches are an answered
one, one in flight and two that overtake it; limits of two put counters below, at and
above their limit; two photos of a unit fill a cap of one and overflow it, and the third
is another unit's. Two browsers are a stale page and the one that made it stale, and two
presses of one step between a read and its write; each has one server action at a time, as
its buttons are dead while one is pending. The consoles are looked at with a booking or
with a payout and the form (`area`), which share nothing; a second adjustment would only
add one to `entries` (`MaxEntries`). A connection that breaks while the API is at work is
felt by the server action once the work has ended in `failed`, since nothing it tells the
reader depends on the moment. `MaxTime` stops the calendar's clock; since the instances
then come to rest (all bookings ended, all jobs done) the configurations switch deadlock
checking off, and liveness properties stand in for it.

*Symmetry* is used for bookings, callers, holds, requests, refund rows and handlers in
the runs without liveness properties only. Payments are numbered and not symmetric, since
the services take the latest captured one.

*Fairness.* `BookingCalendar`: a live request or call takes its next step, the clock goes
on, transactions end, and the sweeper runs as long as the queue has its job. That job is
in Redis like the others: a restart may take it and nothing owes its return before the
next start of the application (`AppStarts`, without fairness), so `LapsedHoldReleased`
promises the release of a lapsed hold or the loss of the sweeper. Where PostgreSQL queues
waiters of a row lock or an advisory lock, the waiter is strongly fair. Nothing is assumed
of the delayed job, which may be lost, nor of users, crashes, restarts or Redis.
`EscrowPayments`: handlers run on, waiting jobs are eventually taken (strongly fair per
job, as BullMQ takes them in order and the model in any), the provider delivers its
webhooks (at least once, as their contracts say) and ends refunds, and the sweeper runs
(its queue is not lost in the liveness run). Guests, hosts, operators and faults owe
nothing. The liveness run has no faults on purpose: with them the code does lose triggers,
see the hazards without a property. `FlashDeals`, `ListingModeration` and `GuestApp` are
checked for safety only and state no fairness.

## Where the code and its comments disagree

Each is a shortest trace of TLC, found in a run that checks one property only.

- `escrow_retried_intent` / `ConfirmedIsPaid`: an intent fails and the guest pays it on
  a second try. The failure event makes the payment FAILED, `markCaptured` then changes
  no row, which `process` takes for a redelivery, and the booking is confirmed with
  no capture in the tables or the ledger (`ledger.service.ts:10` rules that out).
- `escrow_double_refund` / `RefundedOnce`: no fault is needed. The job queued for an
  expired hold and the one of a cancellation run at once, both see no refund, and
  both insert one with an idempotency key of its own. `payment.worker.ts:20` calls
  every handler idempotent.
- `guest_hold_hiccup` / `HiccupsAreNonFatal`: one failed poll throws out of the watcher's
  generator, the stream ends, and the hold on the phone's screen is watched by nobody
  until the countdown calls it expired, also when it was paid and confirmed meanwhile.
  `hold_flow_controller.dart:149` calls such hiccups non-fatal.

Others are visible in the models and have no run of their own:

- `booking-expiry.processor.ts:27` has the sweeper catch what a Redis restart loses. The
  sweeper is a repeatable job of the same Redis, added at bootstrap only (`:61`): a restart
  that empties the queue takes both layers, and lapsed holds keep their inventory until
  the application starts again.
- A removal is authorized for the unit in its path and deletes the file its URL names,
  without comparing the two (`unit-photo.service.ts:126`, `local-disk.storage.ts:56`).
  Under the URL of another unit's photo nothing is unlisted and the file is gone, while
  the other unit still lists it. `FilesMatchList` excepts just these names.
- The overview of a host maps over `bookings` (`host/page.tsx:83`), which the API answers
  as an object with `items` (`reporting.repository.ts:297`): a host whose session works
  always lands on the error boundary there. More generally `api()` throws on every answer
  that is not OK (`api.ts:16`), so a 429 or a 5xx ends where a refusal does;
  `AdmittedIsNotRefused` speaks of refusals only.
- A stay that leaves its host half a minor unit or less (a commission of 100 %, a tiny
  base) is quoted, accepted and perhaps paid, but its split inserts a payout of zero, which
  `payouts` refuses (`0007_payments.sql:102`), and rolls back on every attempt. A free
  stay cannot be charged (`:27`), and its hold lapses.
- A counter whose EXPIRE is lost between two commands (`otp.service.ts:117`,
  `rate-limit.guard.ts:42`) has no end. `WindowsOpenAgain` excepts exactly these, and only
  for as long as the key lasts.

- A capture processed after the booking expired is recorded and kept; only a hold that
  lapses between the read and the compare-and-swap is refunded
  (`webhook.service.ts:238`, `:244`).
- A refund reported before its reference is attached matches no row: the booking is
  REFUNDED, the refund row stays PENDING (`refund.service.ts:53`).
- An event left in PROCESSING by a crash is not claimed by any later attempt, although
  `webhook.repository.ts:21` says a crashed worker resumes.
- A listing suspended while its document is still in the index is found and offered:
  the second stage of a search looks at bookings and blocks only
  (`search.service.ts:163`), although `search.service.ts:64` promises that a search never
  shows as free a slot the booking engine would reject.
- Reinstating asks for no blockers and, from a stale page, approves a listing that was
  rejected and resubmitted (`moderation.service.ts:143`); the CHECK constraint is all that
  stands behind it.
- The phone's map returns early on a pan back into the fetched margin without cancelling
  the debounce, and then shows another area's pins (`map_search_controller.dart:151`).

`PROJECT.json` quotes the lines under `findings`.

## What is proved

Six modules hold theorems, for all values of the constants: any sets of bookings,
payments, handlers, deals, guests, listings, browsers, views, holds, requests, photos,
payouts and accounts, and every bound. Every invariant, action property and refinement
that a run expects to hold is stated by one; the liveness properties are not. `theorems`
in `PROJECT.json` lists them.

| Module | Theorem | Says |
|---|---|---|
| `BookingCalendarProofs` | `CalendarInvariantHolds`, `TypeCorrect` | `Spec => []CalendarInvariant`, and the types |
| | `NeverDoubleBooked`, `NeverOverHostBlock` | holding bookings and active blocks never overlap |
| | `RefusalIsFinal` | a booking answered `HoldExpiredError` is never confirmed |
| | `MoneyGoesOneWay` | a booking never queues both a refund and a payout |
| | `DeadlineSeparates` | confirmation starts before, expiry happens after the deadline |
| | `LocksAreReleasedByOwners` | no other request's step frees a lock in its critical section |
| | `MapAndCalendarAgree` | what the map shows as free and what an insert is refused for agree |
| | `CalendarIsExclusive` | `BookingCalendar` implements `ExclusiveCalendar` |
| | `OneOccupantAtATime` | so no instant of a unit has two occupants, bookings and host blocks alike |
| `EscrowPaymentsProofs` | `EscrowInvariantHolds`, `EscrowTypes` | the inductive invariant, and the types |
| | `BooksTellTables` | the ledger tells what payments, refunds and payouts tell |
| | `NeverBothWays` | never a transfer to the host and an accepted refund of one booking |
| | `HostsArePaidFromEscrow` | transfers are for completed stays, out of captured, split money |
| | `LedgerIsAnEscrowAccount` | `EscrowPayments` implements `EscrowAccount` |
| | `AccountGoesOneWay` | so with one payment of a booking at the host, the ledger moves no other out |
| `FlashDealsProofs` | `DealInvariantHolds`, `DealTypes` | the inductive invariant, and the types |
| | `EveryClaimIsABooking`, `NeverOversold` | a counted piece is one booking, and no deal sells more than it has |
| | `OneDealAtATime` | a unit is never offered twice at one moment |
| | `PagesNeverUnderstate` | a page shows at least what is left |
| | `DealsAreCountedSales` | `FlashDeals` implements `CountedSale` |
| | `SalesKeepCount` | so the holds of a deal are at most its pieces, and no hold counts for two deals |
| | `QuotesAreAccepted` | every quote, for any base and percentages up to 100, satisfies the CHECK constraints |
| | `AcceptedRowsSplit` | every row those constraints accept balances, and splits exactly when its host is left something |
| | `QuotesThatSettle` | a quote settles exactly when the host's unrounded share exceeds half a minor unit |
| | `MoneyAlwaysAddsUp` | so whatever is quoted in a reachable state adds up |
| `ListingModerationProofs` | `ListingInvariantHolds`, `ListingTypes` | the inductive invariant, and the types |
| | `ApprovalNeedsPapers` | an approved listing has its compliance columns |
| | `SearchOffersOnlyCleared` | nothing never cleared is indexed or answered |
| | `SwapKeepsSteady` | promotion loses no listing that was published all along |
| `GuestAppProofs` | `MapInvariantHolds`, `PinsNeverGoBack`, `SpinnersEnd`, `SiteSettlesOnItsView` | both maps |
| | `CheckoutInvariantHolds`, `ConfirmedHoldsAreBooked` | the checkout |
| | `SignInvariantHolds`, `CountersAreForgotten` | rate windows and one-time codes |
| | `SignLimitsHold` | counters pass their limits by less than the requests under way |
| | `WebInvariantHolds`, `RedirectsAlwaysSettle`, `AdmittedAreNotRefused` | guards of the site and of the API |
| | `PhotosInvariantHolds`, `PhotosHaveFiles` | uploads and removals |
| | `ConsoleInvariantHolds`, `ConsolesAlwaysKeepTheirWord` | the consoles (`ConsolesProofs` has the steps) |
| | `RowsNeverGoBack` | a booking only moves on along its course; what was paid or queued stays so |
| | `GuestAppTypes` | the types of all six parts |

The only assumptions are the named `ASSUME`s of the modules, which TLC evaluates on every
run: the identifiers differ, windows are not empty, numbers are numbers, and sets that are
counted or searched for their last member are finite, the parties of a booking are
accounts, and no booking is a payout (`EscrowAssumption` says of payments
that every nonempty set of them has a last one, which `Latest` needs). No assumption is
made on the Redis lock, the queue or the faults.

*The calendar.* `NoDoubleBooking` is not inductive: it speaks of committed rows, and a
transaction that has inserted but not committed would break it at its commit. The
inductive invariant therefore has `DisjointClaims`: rows *claimed*, committed or
not, by bookings and blocks are pairwise disjoint. It needs the advisory lock
(`CalendarLocked`) for the pairs of uncommitted rows that cannot see each other,
the constraint and the triggers for the committed ones, and `RowAfterCommit` to
tell them apart. `CallsOK` and `RowLockExclusive` say what a call that read the row
earlier still knows. `RefusalIsRight` is what makes a refusal final: when
`HoldExpiredError` has been or may be answered, no confirmation that started before
the deadline is still on its way. `MoneyGoesOneWay` rests on a second inductive
invariant, `MoneyDecided`: a call that is about to queue money has already fixed the
status, and no later transition lets the other direction begin.

*Escrow.* `LedgerTellsTables` and `OneWayOut` depend on what a handler read several steps
ago. The invariant separates the two directions by the booking: one that is *doomed*
(cancelled, refunded, expired, or pending with a lapsed hold) never completes, a completed
one stays so (`BookingMoves`). Refund jobs, refund handlers and rows of refunds are about
doomed bookings (`QueueSound`, `HandlersSound`, `RefundsSound`); payouts, splits and
transfers are about completed ones (`SplitBooks`, `PayoutBooks`). A stalled, repeated or
crashed job only repeats a step whose ground still holds. Every step is then one of ten
moves of money (`MoneyGoesOn`), and the books and the refinement are shown move by move.

*Deals.* A claim in an open transaction is not a booking yet, so the invariant says what
the transaction has in hand: its row still in stock, at the count it read, and no other
claim inside (`RowsHeld`). Events in flight overstate what is left (`NewsOverstates`), and
the windows of unsold deals stand apart (`WindowsApart`).

*Money.* The rounding of the code is integer division, of which the provers know little:
`QuotesAreAccepted`, `AcceptedRowsSplit` and `QuotesThatSettle` rest on lemmas that bound
one rounded percentage between 0 and its base, and the rest is linear. TLC computes the
same formulas for the amounts of the instance; the theorems are for every amount.

*Listings.* Whatever is approved, indexed, loaded for the index or about to be answered
was cleared (`EverythingCleared`), and a rebuild carries along what was published since it
began (`RebuildCarriesSteady`).

*Guest app.* Each part has an invariant of its own and stutters when another part moves.
The map has one request in flight, numbered last (`OneInFlight`), and the site asks for
what is on its screen (`SiteAsksForItsView`); the checkout's watcher and handlers are
about holds that exist (`AboutAHold`, `WatcherTellsTheTruth`); an upload owns its file
until it is listed, and a removal unlists before it deletes, or its name has been
remembered as asked of another unit (`UploadsOwnTheirFile`, `UnlistedIsGone`).
`WindowsOpenAgain` is about counters that exist; how far they can run is `SignLimits`: the
requests between the check of the send counter and its INCR are finitely many, and the
counter together with them stays below the limit plus their number, so that the check that
lets one more through is what bounds all. For the site, a cookie is never revived and a
page that fetches was let through for a session of the right role (`NeverRevived`,
`PageAdmitted`), and two hops exhaust the redirects (`HopsLead`).

*Consoles.* What a reader is told at the end rests on what the call knew at each step: a
read row is one the caller may move, from a status the step starts from
(`CallIsAuthorized`); a step that was done stays done because a booking only goes on along
its course (`GoesOn`, `SinceLasts`); a promised refund is of a payment because a page, old
as it may be, calls confirmed only what was paid (`PageShows`). `MoneySetGoingOnce` is not
inductive by itself: between the compare-and-swap and `queue.add` nothing is queued yet.
`OwedOrQueued` says that a booking's money is owed by one call, or queued, or neither, and
that in the first two cases the booking is settled, so that no further step of it reads a
status it may start from. Every step is first shown to be one of the moves in `AllGoOn`,
and the parts of the invariant outlive those.

Each module has a lemma per action or group of actions; the theorems about steps and the
refinements are read off the invariant and the actions.

*The promises of the abstract specifications.* `OneOccupantAtATime`, `AccountGoesOneWay`
and `SalesKeepCount` are proved of the abstract steps alone and reach the detailed
specifications through the refinements. They are what makes `ExclusiveCalendar`,
`EscrowAccount` and `CountedSale` worth implementing: each is checked to promise what its
header says.

## What is not shown

- *Model-checked only:* the liveness properties (`LapsedHoldReleased`,
  `EverybodyAnswered`, `CaptureReconciled`, `RefundJobRefunds`, `CompletedStayPaid`),
  since liveness under fairness and ENABLED are outside what the prover can do, and the
  three runs that refute a sentence of the repository.
- *Not promised by the code and not claimed:* a process that dies after a commit and
  before `queue.add` loses a refund, a payout, a transfer or an event; a provider error
  after a refund row is inserted leaves it PENDING; a payout put on hold while its
  transfer is under way still leaves; real providers settle through an event nobody
  handles; an adjustment whose answer is lost and that is posted again is in the ledger
  twice, since nothing identifies the first; a page that says there is nothing to refund
  may be older than the payment (the refund is queued all the same), and an old page can
  cancel a stay that has begun. The steps are in the model; the hazards in `PROJECT.json`
  name the lines.
- *Left out of a modelled part:* an answer of 200 whose body does not parse, which
  escapes the phone's `ApiException` handlers (`api_exception.dart:36`) and leaves its
  spinner on; a second rebuild of the index under way; the payout states SCHEDULED and
  DRAFT, which nothing sets; a cancellation after the screen of the checkout has confirmed.
- *Not modelled:* rooms and reconnections of the realtime gateway, notifications,
  settings, health, API documents, reviews, audit tables, migrations and deployment, and
  the figures of reporting, keep no state that another component's step depends on.
  Creating and editing properties and units is single-row SQL. Widgets, themes and static
  pages render. Token signing, hashing, webhook signatures, provider request formats,
  ranking, facets and geometry of the search are data, not control.
