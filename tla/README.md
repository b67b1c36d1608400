# TicketOps: a verification project

TicketOps sells seats for events. Customers pick seats on a map and book them through
`events-api`; `bookings-worker` confirms bookings in the background; organizers and
administrators manage events, bookings and users through `admin-api`; `dashboard` is the React
application in front of all of them. Postgres (through Prisma) holds the rows, Redis holds the
seat locks and a list of messages for the worker.

This directory holds TLA+ modules translated from that code, the configurations that check them
with TLC, theorems proved with TLAPS about every part that is modelled, and `PROJECT.json`, which
maps every definition to the lines it models.

## Inventory

### Components, their state and their operations

| Component | State it keeps | Operations that change it | Modelled in |
|---|---|---|---|
| store of the booking path (Postgres, Redis) | `Seat`, `Booking`, `BookingSeat`, `BookingJob`, `Notification` rows; `seat-lock` keys with expiry; list `bookings:queue` | one per call of a service | `TicketStore` |
| events-api bookings | none between calls; the local variables of `createBooking` | `createBooking`, `acquireLocks`, `releaseLocks`, `cancelBooking` | `BookingApi`, `BookingCancel` |
| admin-api bookings | none | `cancel` | `BookingCancel` |
| bookings-worker | the message or batch in hand | queue consumer, reconciliation sweep, `processJob` | `BookingsWorker` |
| admin-api auth and users | `User.isActive`, `RefreshToken` rows | `register`, `login`, `refresh`, `logout`, `logoutAllDevices`, `adminUpdate` | `AuthTokens` |
| dashboard session | token store, auth store, `refreshPromise` | interceptors, session restore, login, logout | `DashboardSession` |
| admin-api events | `Event` and `Seat` rows | `create`, `update`, `publish`, `unpublish`, `remove` | `EventCatalogue` |
| dashboard events page | cached table, two dialogs, mutations in flight | clicks, submits, answers, refetches | `EventsAdminPage` |
| dashboard event page | seat selection store, cached seat maps, checkout dialog, booking mutation | clicks, navigation, polls, answers | `EventPage` |
| events-api catalogue | none: it reads | `getSeatMap` (as polled) | `EventPage` |
| reading routes of bookings | none | `getMyBookings`, `getByRef`, `findAll` | `BookingRecords` |
| dashboard bookings pages | query cache with lists of bookings, filter and page number, cancels in flight | navigation, filter, pages, cancel; fetches, answers, staleness, collection | `BookingRecords`, `BookingPages` |
| roles, statistics, layout, logging, deployment | nothing that a property is about | | not modelled |

### How they interact

- `events-api` and `bookings-worker` share the rows and the Redis keys. The message that
  `createBooking` pushes carries only identifiers; the worker reads the job anew.
- The worker is triggered twice: by the message, and by a cron sweep every 30 s over jobs older
  than a threshold. Both run `processJob`, and nothing keeps two runs apart.
- Two services cancel bookings, each with a handler of its own. Only one deletes locks.
- `admin-api` issues the access tokens that `events-api` verifies by signature only: an access
  token stays good until it expires, whatever became of the account or the session.
- The dashboard keeps one refresh in flight (`refreshPromise`) for all clients of a tab. Session
  restore goes around it.
- Deletion of an event meets customers' bookings only in the database's foreign keys.
- The event page polls the seat map every 15 s. The server decides what a stale map cannot.
- The bookings pages learn of what others do by fetching only: nothing polls them. A cancel
  invalidates the lists whose key begins like its own, and no other page's. A booking made on the
  event page invalidates no list.
- `OptionalJwtAuthGuard` turns a request with an expired token into a guest's, so whose list a
  booking gets into is decided by the clock.

### What is hard about it

- *Interleaving and atomicity.* `createBooking` reads, locks, writes and pushes in separate calls,
  and its transaction looks at none of what it read. `cancel`, `remove`, `update` and `refresh`
  read in one call and write in the next.
- *Expiry.* Locks expire while their holders still run; jobs become stuck while their requests may
  still run; tokens expire at any moment.
- *Failures.* Processes die between two calls; calls take effect and lose their replies; ioredis
  sends commands again; Redis restarts empty; pages are reloaded in the middle of a rotation.
- *Retries.* A job may be processed several times and by several workers at once. A request that
  got 401 is sent again once.
- *Staleness.* Cached tables, lists and seat maps; a page that changes under a pending request;
  an answer on its way that is older than what it is shown for; rows and page count read apart.

`PROJECT.json` lists each hazard at its line, with the properties that would catch it.

### What makes the components correct

- Booking path: no seat in two active bookings; locks held when they are relied on; all seats or
  none; no seat and no pending booking stranded; a finished job did everything; jobs, requests
  and locks all come to an end.
- Session: no request of the page hangs or is repeated for ever; the tab never keeps a token it
  has itself spent; the spinner ends; a deactivated account loses access.
- Catalogue: bookings keep their events; `totalSeats` is true; deleted events stay deleted; the
  table shows what the server holds once nothing is in flight.
- Event page: what is booked was chosen on this event's map; the map catches up; who booked
  gets to the confirmation.
- Bookings pages: a cancelled booking is not offered for cancelling again, on whatever cached page;
  a list catches up; a confirmation opens for guests as well; no page of the table is empty.

## Modules

    TicketStore <- BookingApi      \
                <- BookingCancel    >  TicketOps  <- MCTicketOps
                <- BookingsWorker  /      |  \
                                          |   SeatSales (abstract, by INSTANCE)
                                TicketOps_types <- _rows <- _booking, _jobs   (proofs)

    AuthTokens     <- DashboardSession <- MCDashboardSession, DashboardSession_proofs
    EventCatalogue <- EventsAdminPage  <- MCEventsAdminPage, EventsAdminPage_proofs
                      EventPage        <- MCEventPage, EventPage_proofs
    BookingRecords <- BookingPages     <- MCBookingPages, BookingPages_proofs

**The step.** A handler, or a task of the browser, runs from one `await` to the next as one
action. What it does before the next `await`, every assignment and branch, is in the action;
between two of them anything may happen elsewhere. Each handler has a `pc` whose values are named
after the call that comes next; the module comments draw the paths. A Prisma `$transaction` is one
step: Postgres commits or rolls it back as a whole, and none of these transactions reads anything
that another could have changed.

**TicketStore.** One operator per call to a store, with the whole effect of the call. One event:
nothing relates the seats of two events on this path. A booking has the name of the request that
makes it, and `JobId(b)` is a different name, as in the schema. `jobAge` counts ticks since
`createdAt` up to the first value beyond the threshold, where the sweep's query stops telling ages
apart. Failures draw on one budget, `MaxFaults`, and `FaultKinds` says which may happen, so that a
run can be about chosen failures.

**BookingApi.** `createBooking` with `acquireLocks` and `releaseLocks`. The seats' order is the
client's, so the next seat to lock is any one not yet locked. Failures are placed where the
`try` block does and does not reach: a call outside it leaves everything as it is
(`RequestStops`, `LockReplyLost`), a call inside leads to `Release`. `FailsAfterCommit` is the
committed transaction whose request fails all the same. `redis.module.ts:23` sets
`maxRetriesPerRequest: 3`, so ioredis sends a command again after a reconnect, also one that took
effect: a `SET NX` then meets the key it set itself (`LockResent`), and a `DEL` or `LPUSH` is carried
out twice (`CommandResent` in `TicketOps`, for the locks of requests, cancels and workers alike).

**BookingCancel.** The two handlers, one of which deletes the locks. **BookingsWorker.** The
consumer, sweeps that overlap, `processJob`. The QR code is not state: its failure is swallowed.
`WorkerCallFails` is a rejection inside the `try` block, `WorkerStops` the process dying or an
exception outside it, which also ends the sweep's loop. **TicketOps** composes the four and adds
time: `Tick` ages locks, jobs and requests, and no request stays in flight longer than
`RequestTime` ticks.

**SeatSales** is the promise: a sale takes all of its free seats or none, a seat is sold at most
once, a sale is confirmed or given up and never undone. `TicketOps` implements it with
`soldTo[s]` = the booking that `s` is in and `sale` = the booking's status, under the conditions
below.

**AuthTokens.** One user. A token is a name for a refresh token with the access token issued with
it; names are used again when nothing refers to them, so behaviours have no end while the state
space has. `tokenRow[t] = "none"` stands for no row, an expired one, and one that logout-all
revoked; `"revoked"` for rotation and logout. `DashboardSession` can tell by that whether the tab
itself spent the token.

**DashboardSession.** One tab. Each activity (restore, each login, logout and query) is a thread that
waits for one call. `Settled` gives continuations of promises priority over new tasks, as the
browser's microtasks have it. `Slots` connections per activity: a page that was reloaded leaves its
requests running at the server, and the new page starts others. `Init` may find a token in
`sessionStorage`. A login or register form can be submitted at any time, also during a restore or
after one that showed a user: the pages of the forms look at neither. Several logins may be in
flight, since a form disables only its own button and can be left for another, and several logouts,
whose buttons are never disabled (`Logins`, `Logouts`; idle ones are interchangeable, and `Spare`
picks which starts).

**EventCatalogue.** `EventsService` call by call. `buildSeatRows` makes a row for each section,
letter and number (`SeatRows`), whose code has no more of the section than its initial (`SeatCode`);
`totalSeats` counts the rows, and the table's unique index, which looks at codes only, refuses a
plan two of whose rows have one code (`CodesUnique`). Deleting an event deletes
its seats and is refused while a booking of any status refers to it. **EventsAdminPage.** The cached table and its refetch after each mutation,
where a new refetch makes react-query ignore the one in flight; two modal dialogs; saving, deleting
and toggles in flight together. The table has been loaded, nobody else manages events, and every
answer arrives.

**EventPage.** A customer who moves between events while his booking is in flight. The same
component serves one event after the other, so dialog and pending mutation survive the change.
`selection` remembers with each code the map on which it was chosen, which the code does not; it
is what `SelectionOfThisEvent` is about. A booking is decided in one step (its handler is
`BookingApi`), and a failure may hide a booking that was made. How long a cached map counts as
fresh is left out: whenever it would be fetched, the poll may fetch it.

**BookingRecords.** The `Booking` rows as their lists see them. A booking is its place in the order
of `createdAt`; creating it, a run of `processJob` and a cancel are one step each on its row, because
the lists see no more of them. `runs` bounds the runs of `processJob`; several may reach one booking
(retries, sweeps that overlap), and each sets the status without looking at it. Whether a booking
sent by the user becomes his own is open: his token may have expired on the way. `Selected` is what
the three reading routes find, named by the key of the query that asks.

**BookingPages.** One tab, one query cache. A query's key is a tuple that begins with its kind, so
that invalidation by prefix is a comparison of the first element. A fetch is sent, reads the rows,
for `findAll` also the count, in either order, and arrives; it goes on when its page is left. What
react-query does is modelled from how the pages use it (v5, `main.tsx:7-15`): a page that opens
fetches what is missing or stale unless it is being fetched; an invalidated query of the open page
is fetched again, dropping the request in flight unless it is the query's first; an answer that
arrives counts as fresh whatever was invalidated meanwhile; a failed refetch leaves the old answer
and an error. `here` says whether the component that sent a cancel is still there: a new one has its
buttons enabled. `onSuccess` of a cancel returns the promise of `invalidateQueries`, so the mutation
is pending, and the buttons disabled, until the refetch it started has been answered, has failed or
was dropped for another (`refetching`, `awaits`). A cancel whose answer is lost was carried out, or
will be by its handler, which is then one of `CancelElsewhere`, or never. `known` is a history
variable for `CancelsOutlastCache`. Left out: sessions and redirects (`DashboardSession` has them),
refetches on reconnecting, which are fetches like others, and the browser's history.

## Checks

`tlc -config <run>.cfg <module>` for each run of `PROJECT.json`. Each property also has a mutant:
a plausible bug in a mapped definition (those beginning "As ...") that makes TLC find the property
violated under the same configuration.

| Run | States | What it shows |
|---|---|---|
| `Core` | 420 338 | Three requests for subsets of two seats, a sweep, a consumer, two failures before the commit, of any kind but commands sent again: no double booking, locks held when relied on, rejected requests clean up, `SeatSales` is implemented. |
| `Full` | 2 775 033 | Two requests for a seat, one cancel of each kind, two sweeps that overlap, any one failure of any kind, a Redis restart included: types; no seat stranded; `DONE` and `FAILED` mean what they should; attempts and confirmations are bounded; no step but one failure, which is listed under the divergences, loses a pending booking. |
| `Live` | 39 119 | Two requests in opposite lock orders, one death or failure, under fairness: every lock is freed, every job settled, every request answered. |
| `Session` | 63 774 | One tab with a query, expiry at any moment, (de)activation, one login, registration or logout, also during the restore, under fairness: requests and the spinner end, a deactivated account loses access. |
| `Reloads` | 3 331 773 | Two connections per activity; a login and a logout, or two logouts, that may overlap; one reload, timeout, failed call or logout elsewhere: the tab keeps no token it spent. |
| `Catalogue` | 3 355 163 | Saving, deleting, a toggle, refetches and a booking on two events from two plans, one of which collides. |
| `EventPage` | 320 566 | Two events that share a seat code; one request in flight; one seat contested by others. |
| `MyBookings` | 48 776 | One booking, the customer's list and the confirmation, two cancels, two runs of the job, one failed fetch or lost answer, under fairness: cancels are shown, the list catches up with visits, the confirmation opens. |
| `BackOffice` | 1 684 157 | Two bookings on pages of one, two filters, one choice of filter or page, a cancel, with others booking, processing and cancelling: unfiltered pages are filled, and no fresh list offers what the tab cancelled. |

Three runs show the code doing what the repository says it does not:

| Run | What TLC finds |
|---|---|
| `TwoCancels` | Two cancels of one booking read it before either writes. The first frees the seat, it is sold again, and the second frees it under the new booking; a third customer buys it. No sweep runs. README.md:11 promises "zero double-bookings". |
| `CancelLost` | A booking is cancelled before the sweep processes its job, and the worker sets it to `CONFIRMED`. The comment at `bookings.service.ts:229` takes it that cancellation comes after the job. |
| `FastPath` | The message carries the booking's id as `jobId`. No job has that id, and the consumer drops every message, which the comment at `bookings.service.ts:130` says the worker picks up "immediately". |

### Bounds, and why they are enough

- *Three requests in `Core`*: one commits, one read the seat before that and waits, a third takes
  or deletes locks in between. *Two seats*: a conflict half-way through an acquisition needs a
  first seat to give back. `LockTtl = 3`, `RequestTime = 1`, `StuckThreshold = 1` is the smallest
  choice with `2 * RequestTime < LockTtl` and `RequestTime <= StuckThreshold`, the proportions of the
  defaults (600 s, 120 s) for requests of up to two minutes; the theorems cover all others.
- *One or two failures* per behaviour, at any point. *Two sweeps in `Full`* are enough for a job to
  use up its attempts in the hands of one while the other still holds it, and for the bound on attempts
  to be reached. Its one seat suffices for what it checks of seats, which is proved for all numbers;
  its consumers are none, since `Core` and `Live` have one and it reaches no job. `MaxJobAttempts`
  is 1 or 2 instead of 5: the runs need a second attempt and the limit to be reached, not to be large.
- *`Live`* has no symmetry. `BatchSize = 1` with two jobs makes the sweep choose.
- *`Session`* has one connection per activity because without reloads and timeouts none has two.
  `MaxForms` bounds logins and logouts, `MaxFaults` reloads and losses; when both are used up and
  nobody is logged in, nothing is left to do. `Session` and `Reloads` therefore do not check for
  deadlock; the other runs do.
- *Tokens*: three in `Session`: the one stored, the one being issued, and one that a request of the
  page's earlier life is about to get. `Reloads` has two, which are used again as they become free:
  the request that finds none waits until one is. *Logins and logouts*: `Session` admits one of
  them, `Reloads` two, of which two logouts or a login and a logout overlap. `StoreIsNeverSpent` covers
  any number of each.
- *`Catalogue`*: two events, so that a mutation of one meets a dialog or a deletion of the other;
  two plans, one of two sections of one initial, whose codes collide, and one without.
- *`EventPage`*: the seat that only the first event has is what a carried-over selection could
  name. `Contested` names the one seat that others book and cancel, without end.

- *`MyBookings`* has one booking, which others, the worker and two cancels of the tab change: what
  its properties relate is one row and its copies. *`BackOffice`* has two on pages of one row, the
  least that has a second page, and one cached query besides the one that opens (`MaxCached`).
  `MaxChoices` bounds the filters and pages chosen; leaving and coming back to the first
  page is not bounded.

### Fairness

- `Live` (`TicketOps!FairSpec`): weak fairness of each request, cancel and worker, and of time. A
  Node process runs the continuation of a promise that settled; cron fires again after a run died;
  `BRPOP` returns when there is a message. Requests, failures and restarts need not happen.
- `Session`: weak fairness of handlers, of leaving answers unheard and of expiry; strong fairness
  of each activity of the page and of the end of a refresh, because `Settled` makes these steps
  ready only between tasks, and the event loop takes tasks in the order they came. `performRefresh`
  has no timeout (`apiClient.ts:16`), so this also assumes that the server answers or the connection
  breaks.
- `EventPage`: weak fairness of the interval and of the booking's handler and answers. Strong
  fairness of a poll's reading and arrival: a poll may fail, not all of them do.
- `MyBookings`: weak fairness of ageing and of the cancel handlers, strong fairness of reading and
  arriving, since a refetch may drop a request that was about to arrive. That the user visits his
  list again and again, and that bookings stop changing, are premises of `MyListCatchesUp`, not
  fairness.

## Proofs

Every safety property that a passing run checks, invariant or action property, is also a theorem,
the refinement of `SeatSales` included; some need a condition, which the tables name. They hold for every
value of the constants that satisfies the named assumptions of the modules: any number of seats,
requests, workers, tokens, events, bookings, pages, and of reloads and failures. The assumptions say
that names are distinct, that bounds are numbers, that there is a token, that finitely many sweeps
overlap, and that a plan is a list of sections; each run evaluates those of its modules.

### The booking path

| Theorem | Says |
|---|---|
| `TypeCorrect` | `Spec => []TypeOK` |
| `RowsExistAlways` | what a handler or worker has in hand refers to rows that exist |
| `NoSeatStranded` | `Spec => []BookedSeatHasBooking` |
| `FailedAfterAllAttempts` | `Spec => []FailedMeansExhausted` |
| `DoneJobsAreComplete` | `Spec => []DoneIsComplete` |
| `NoDoubleBookingHolds` | `BookingPath` implies `Spec => []NoDoubleBooking` |
| `LocksHeldAtTransaction` | `BookingPath` implies `Spec => []TransactionHoldsItsLocks` |
| `LocksKeptInFlight` | `BookingPath` implies `Spec => LockKeptInFlight` |
| `ServicesImplementSeatSales` | `BookingPath` implies `Spec => ImplementsSeatSales` |
| `AttemptsAreBounded` | `Spec => []AttemptsBounded` |
| `ConfirmationsAreBounded` | `Spec => []ConfirmationsBounded` |
| `PendingKeepsItsJob` | `Spec => PendingHasOpenJob` |
| `PendingNeverLost` | without `workerStops`, every pending booking has an open job or a worker about to give it up |
| `RejectedCleansUp` | without `lockResent`, `Spec => []RejectedLeavesNoLock` |

The first five need no condition: cancellations, restarts and every failure are allowed.
`RowsExist` is the strengthening they share. It says that a booking exists exactly when its job
does, that a request before its transaction has no booking, and that cancels and workers hold
existing bookings. `FailedMeansExhausted` and `DoneIsComplete` need more. A job is closed by one
worker while others may be anywhere in it, so `JobInv` says for each worker what is behind it at
each call of `processJob` (`WorkerProgress`), and that a booking's locks are on the booking's own seats
(`LocksOnOwnSeats`): deleting the locks of those seats, which is what the code does, deletes all that
the booking can hold, and nobody takes a lock in its name again.

`BookingPath` is the condition under which the code keeps its promise. TLC finds a double booking in
instances as small as that of `Core` when any one conjunct is dropped:

- nothing is cancelled (`TwoCancels` is what happens otherwise, and a customer's cancel deletes
  others' locks);
- a request that committed does not fail (its `catch` block deletes locks and reports an error
  for a booking that exists);
- Redis keeps its keys, and no `DEL` is sent again (`commandResent`);
- `2 * RequestTime < LockTtl` and `RequestTime <= StuckThreshold`.

The argument (`BookingInv` in `TicketOps_booking`): a request reads its seats `AVAILABLE`, and only
later locks and writes them without looking again. What protects it is not its own read but the
other's lock. If a seat that `r` read `AVAILABLE` became `BOOKED`, then by a booking `b` whose
transaction came after `r`'s read, so `b`'s job is no older than `r` (`jobAge[b] <= reqAge[r]`). Hence
the job cannot be stuck while `r` is in flight, and no worker deletes `b`'s lock. And the lock was
set at most `RequestTime` before the commit, so that it has more than the rest of `r`'s life left
(`lockTtl[s] + reqAge[r] > RequestTime`). So `r` finds the seat locked (`StaleReadsLocked`). The other
conjuncts say that a request holds the locks it counts on and since when (`HeldLocks`), that workers
touch stuck jobs only (`JobsAreOld`), and that a seat is in one booking (`OneBookingPerSeat`). None of
them is inductive without the others. `JobsAreOld` rests on the bug of `FastPath` too: the consumer
reaches no job. If only the message were repaired, the worker would delete a booking's locks right
after the commit, and a request that read the seats before it could book them again. A repair of
the message needs a check of the seats' status in the transaction as well.

The limit of attempts is read in one call and counted in another, and so is the confirmation. What
bounds both is not the rows alone but the rows with the workers that are about to write them
(`CountInv` in `TicketOps_jobs`): attempts made plus sweeps that have decided to make one stay below
`MaxJobAttempts + Cardinality(Sweeps)`, since who decides sees fewer than `MaxJobAttempts`; and
notifications sent plus workers between counting an attempt and sending stay at most the attempts
(`ConfirmationsCounted`). That the consumer reaches no job (`ConsumersFindNothing`) is part of it:
with the message repaired, consumers count like sweeps.

`PendingKeepsItsJob` follows from `JobInv`: a job becomes `DONE` only in the hands of a worker that has
confirmed the booking, and `FAILED` only in those of one that gives the booking up next. Losing a
pending booking takes the death of that worker, or a failure of its next call, and nothing else; so
where neither happens none is lost (`PendingNeverLost`). `RejectedCleansUp` rests on `LocksAreKnown`:
a request that may still be rejected has every lock of its name in `held`. `LockResent` breaks just
that, which is why it is excluded: a divergence listed below. `LockReplyLost` does not, because its
request is not rejected but ends with an error, as a caller without an answer.

### The dashboard and its services

| Theorem | Says |
|---|---|
| `SessionTypesHold` | `Spec => []SessionTypeOK` |
| `StoreIsNeverSpent` | `Spec => []StoreNotSpent` |
| `CatalogueTypesHold` | `Spec => []CatalogueTypeOK` |
| `EventsOutliveBookings` | `Spec => []BookingsHaveEvents` |
| `TotalsAreRight` | `Spec => []TotalSeatsCounted` |
| `DeletionIsFinal` | `Spec => DeletedStaysDeleted` |
| `TableCatchesUp` | `Spec => []TableMatchesServer` |
| `EventPageTypesHold` | `Spec => []EventPageTypeOK` |
| `SelectionsStayWithTheirEvent` | `Spec => []SelectionOfThisEvent` |
| `BookingPagesTypesHold` | `Spec => []BookingPagesTypeOK` |
| `PagesStayFilled` | `Spec => []UnfilteredPagesFilled` |
| `CacheRespectsCancels` | `Spec => []CancelsOutlastCache` |

None of them needs a condition on failures, reloads or fairness.

*Session* (`SessionInv` in `DashboardSession_proofs`). `StoreNotSpent` speaks of a tab at rest; the
invariant speaks of every instant. A token counts as spent (`Spent`) when its row is revoked or when a
request under way carries it, and a spent token may be in the store only while something is in
progress that replaces or forgets it (`Replacing`: the shared refresh, a logout, a restore that has
not begun or whose refresh is not answered). A reload keeps this true, although it forgets the refresh: the
page starts with a restore. What makes a new token good is that the answer which brings it is the only
thing that knows it (`IssuedInv`): no request of the page's earlier life can spend it first. Server
steps and page steps are each reduced to what they do to tokens (`ServerMove`, `PageMove`), and the
invariant is proved once for each kind.

*Catalogue* (`CatalogueInv` in `EventsAdminPage_proofs`). `remove` counts the bookings and deletes
in another call. `BookedEvents` says what stands between: an event with a booking, also one being
made, was there and has seats, and the foreign key refuses to delete under a booking that is stored.
`DeletionIsFinal` needs `RequestShapes`: the event that a creation in progress will make is absent,
never deleted. `TotalsAreRight` rests on `CodesUnique`: where no two rows have one code, the map
from rows to codes is one to one, so that the rows counted in `totalSeats` are as many as the seats
stored (`RowsAreCounted`). For the table, `TableFollows` says that the only time it may differ from
the rows with no refetch in flight is while an answer to a mutation is still to arrive; a refetch
that was dropped by a newer one cannot break it because the newer one reads later.

*Event page* (`PageInv` in `EventPage_proofs`). The store outlives the page; `StoreFollowsPage` says that
its event is that of the open page, and that a selection is of the store's event on other pages too,
so a page that opens finds its own selection or drops it.

*Bookings pages* (`PagesInv` in `BookingPages_proofs`). Rows and count of an answer are read apart.
`CountsInv` says that the count of the unfiltered list never exceeds the bookings made, so a page
offered once is filled at every later instant, when its rows are read; `PagesFilled` is the
arithmetic of pages it rests on, for any page size. `KnownInv` says that what the tab knows to be
cancelled is cancelled, and that no answer in flight or fresh says otherwise.

### Not proved, only checked

Liveness, which is out of the prover's reach, as is anything with `ENABLED`: `LockEventuallyFreed`,
`JobEventuallySettled`, `RequestEventuallyAnswered`, `InitializingEnds`, `RequestsEnd`,
`DeactivatedLosesAccess`, `SeatMapCatchesUp`, `SuccessIsConfirmed`, `CancelIsShown`, `MyListCatchesUp`,
`ConfirmationOpens`. No definition is recursive, so nothing is left to induction over data.

## What is not modelled, and why

- Roles and ownership of events: comparisons of strings at the head of the handlers. The models
  contain the requests that pass.
- Prices: one multiplication, the same on both sides. Validation of fields, except the one a
  finding is about. Dates of an update of which only one is sent (`events.service.ts:70`).
- Statistics: `getDashboardStats` counts and shows, and nothing is decided by what it shows.
- The catalogue's browsing page, themes, logging, health checks, the seed script, containers.
- More than one event on the booking path, more than one tab or user in a session, answers lost on
  the admin page.

## Known divergences without a run of their own

The modules show those about what they model; the last four are about code beside it.

- `bookings.service.ts:134,162`: if `LPUSH` fails after the commit, the customer is told that the
  booking failed and its locks are deleted; another request that read the seats before can book them
  too (add `failsAfterCommit` to `Core`'s failures).
- `bookings.service.ts:232`: a customer's cancel deletes locks that by then belong to another
  request, as `releaseIfOwnedBy`, which nothing calls, was written to prevent.
- `bookings-processor.service.ts:110`: a job whose attempt failed after the notification sends it
  again, and a job that failed for good may have confirmed first. Runs that overlap may give a booking
  up and confirm it in either order, whatever the customer was told.
- `bookings-processor.service.ts:81-88`: a worker that dies between the two updates leaves a booking
  `PENDING` with a `FAILED` job, which no sweep looks at.
- `seat-lock.service.ts:42`: a `SET NX` that is sent again after a reconnect meets its own key, and
  the customer is told that somebody else holds the seat, for as long as the key lives.
- `seat-lock.service.ts:65`: a `DEL` that is sent again after a reconnect may delete a lock that
  somebody else took in between; its holder and a third request can then both book the seat (add
  `commandResent` to `Core`'s failures).
- `authStore.ts:36-48`, `apiClient.ts:52-56`: a logout refused with 401 is sent again after a refresh
  with the old refresh token in its body; the new one is not revoked.
- `events.service.ts:95-104`: an event whose bookings were all cancelled, as the message asks,
  cannot be deleted either: the foreign key refuses it and the answer is 500.
- `EventFormDialog.tsx:117`, `AdminEventsPage.tsx:78`: the edit form sends `sections`, which
  `UpdateEventDto` lacks and `forbidNonWhitelisted` (`admin-api/src/main.ts:24`) refuses: no event can be
  edited from the dashboard (`Whitelisted` in `EventCatalogue`).
- `MyBookingsPage.tsx:10`: the list is fresh for 30 s, and a booking does not invalidate it. A page
  left open is never refreshed, so a booking stays "Pending" on it.
- `optional-jwt-auth.guard.ts:39`: a booking sent with an expired token becomes a guest's, and is
  missing from "Everything you've booked, in one place" (`MyBookingsPage.tsx:25`).
- `AdminBookingsPage.tsx:38`, `MyBookingsPage.tsx:16`: a cancel does not restart the first fetch of a
  list, nor a fetch of a page that was left. Its answer may be older than the cancel, counts as fresh
  for 30 s and offers the booking again (the exception in `CancelsOutlastCache`).
- `AdminBookingsPage.tsx:29,72`: under a filter, rows leave the page when their status changes. The
  refetched page 2 may be empty: "No bookings match this filter" although some do, and when one page
  is left there is no pagination to reach it with. The browsing page has the same.
- `AdminBookingsPage.tsx:36`, `MyBookingsPage.tsx:14`: cancels have no `onError`. One that is refused
  because somebody else cancelled leaves the list as it is, with its button.
- `MyBookingsPage.tsx:48`: the button is disabled by the component's own mutation. Who leaves the page
  and returns while a cancel is pending may cancel again (`TwoCancels` is what that can lead to).
- `MyBookingsPage.tsx:43`: a booking that the worker confirmed after its cancel is offered again, and
  cancelling it frees seats that others may have bought.
- `BookingConfirmationPage.tsx:38`: "Booking confirmed" is shown for any status.
- `authStore.ts:46`: logging out leaves the query cache, and `['bookings', 'me']` does not name the
  user: the next one to log in in this tab sees the previous one's bookings at first.
- `AdminDashboardPage.tsx:11`: a cancel does not invalidate the statistics, and "Tickets sold" counts
  the seats of cancelled and failed bookings (admin-api's `bookings.service.ts:119`).
- `seed.js:128-149`: a seeding that stops between an event and its seats leaves a published event
  without seats, which the next seeding skips.

## Plan

1. Done: the booking path, its proofs; session, catalogue and event page checked.
2. Done: the bookings pages; overlapping sweeps, cancels and restarts in one instance; a bound on
   confirmations.
3. Done: every safety property of the runs proved, with one inductive invariant per component.
4. Next: the two hazards without a property (a logout sent again with the old token; the query cache
   after a logout), which need a token's successor in `AuthTokens`, and the session and the bookings
   pages in one module; a condition weaker than `BookingPath`, if TLC finds one that admits cancels.
