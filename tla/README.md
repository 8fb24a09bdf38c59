# Travelo, modelled in TLA+

Travelo is a hotel platform: a NestJS backend on PostgreSQL (`src/src`), a web
portal (`src/portal`) and two Flutter apps, for owners (`src/owner_app`) and for
hotel staff (`src/staff_app`). This directory holds TLA+ modules for the
services of the backend that keep state, TLC configurations that check them on
small instances, and proofs, checked by TLAPS, that hold for instances of any
size. Paths below are relative to `src/src/modules/` unless they start with
`src/`.

## 1. Inventory

| Component | State | Operations | Talks to |
|---|---|---|---|
| Booking engine `reservations/` | `reservations`, `reservation_events`, `rooms.status` | create, update, extend, move, confirm, assign, autoAllocate, swap, lock, check-in, check-out, cancel, no-show; the desk's boards | rates grid, rooms; calls housekeeping at check-out; called by the public page, the channel, groups |
| Rates and revenue engine `rates/`, `rate-plans/revenue-engine.service.ts` | price and restrictions by night, overrides, rules | bulk edit, copy, override, engine run, revert | probed by bookings, pushed to the channel |
| Rate plans, fees, quotes `rate-plans/` | plans, fees | create, update, delete, default; quote | public page |
| Rooms, types, photos, amenities `rooms/` | rooms, types, the cached room count, beds, galleries | create, bulk create, move, delete, restore, upload, reorder | `rooms.status` has four writers |
| Housekeeping, work orders `housekeeping/` | tasks, orders | create, assign, start, complete, inspect; accept, pause, resume, complete, cancel | `rooms.status`; hook of check-out |
| Folio, cash, company accounts `folio/`, `cash/`, `direct-billing/` | lines, payments, cached `paid_paise`, drawer, shifts | charge, discount, void, pay, refund, gate of check-out; open and close a shift | reservations, restaurant, spa, guest page |
| Restaurant `restaurant/` | orders, lines, tables, recipes | create, add, send, bill, settle, cancel | folio, drawer, stock |
| Spa `spa/` | appointments, bills | book, assign, start, finish, bill, settle, refund | folio |
| Travel desk `travel-desk/`, `driver/` | trips, vehicles | assign, take back, cancel, complete; steps of a driver | folio |
| Inventory `inventory/` | stock, ledger, purchase orders | move, consume, send, receive, cancel | restaurant, approvals |
| Public page, configuration `booking-engine/`, `property-config/` | settings, policies, add-ons, coupons, throttle | search, quote, book; edit | `create`, folio |
| Guest page `guest-journey/` | links, stay's online state | issue, open, pre-check-in, request, check-out | folio, reservations |
| Key cards `key-cards/` | cards and their numbers | issue, replace, deactivate | reservations |
| Registers `accounts/`, `events/`, `sales/`, `management/` | expenses, events, leads, approvals | status machines, verdicts | inventory |
| Workers `workers/workers.module.ts` | the guard's set of running names | eleven cron methods, the night audit by hand | every table they sweep |
| Subscriptions `subscriptions/`, `plans/`, `owners/` | status, period, archived owner and properties | lifecycle, renewal, extension, change of plan, cancellation | gates every hotel route |
| Billing `billing/` | payments, invoices, refunds, webhook events, number sequence | order, verify, webhook, settle, refund, retry | gateways, subscriptions |
| Notifications `notifications/`, `announcements/` | deliveries, tokens, announcements | notify, notify once, drain, publish | gateways |
| Channel manager `integrations/` | connection, external references, webhook rows | poll, webhook, push, acknowledge | `create`, Channex |
| Sessions `auth/`, `owner-auth/`, `staff-auth/`, the apps' API clients | sessions, one-time codes, recovery codes | sign in, refresh, revoke, MFA | every route |
| Staff and impersonation `staff-auth/staff-team.service.ts`, `staff/`, `impersonation/` | accounts, sessions | take on, approve, block, move, remove; stand in, end | sessions |
| Conversations, support `conversations/`, `support/` | threads, messages, marks of automation; tickets | send, receive, read; reply, assign, resolve | notifications |
| Groups, security, reviews, guests, analytics, export, audit, storage, realtime | registers, logs, files | single-row writes, reads | - |

`PROJECT.json` lists every component with its sources and its status.

What is hard here:

* **Reads before writes.** Handlers read a row, check its status, and then
  write by id. PostgreSQL runs at READ COMMITTED, a transaction around the two
  changes nothing, and only four places lock rows: the two probes of the
  booking engine, refunds, and stock.
* **Locks on rows, not on their absence.** `assertRoomFree` locks the bookings
  that clash. Two bookings about to clash are not yet among them.
* **Cached sums**: the paid amount of a stay, the count of rooms, stock on hand,
  uses of a coupon, unread messages.
* **One of a kind by convention**: the default policy, the live guest link, the
  cover of a gallery, kept by two statements rather than by an index.
* **Claims and crashes**: webhook events, external references, deliveries,
  messages of a stay, refunds at a gateway that answers late.
* **Sweeps** that change rows behind the handlers, and workers whose effect
  depends on the days on which they ran.
* **Retries**: numbers of bookings, cards and orders, refunds, deliveries,
  refreshes of a token whose answer was lost.

What makes the parts correct is stated as properties (section 4); each line of
`hazards` in `PROJECT.json` names the place where it could go wrong.

## 2. Modules

The booking core:

| Module | Role |
|---|---|
| `ReservationPlans` | constants, tables and operators; for every handler its guard `CanX` and its plan `XPlan`: which probes it makes, which columns of which rows it writes, which room statuses it sets, which event it records |
| `Reservations` | every handler in one step: `Execute` runs a plan; autoAllocate, the sweeps, the outside world |
| `RoomCalendar` | abstract specification: who holds each night of each room, and how a night may change hands |
| `ReservationsConcurrent` | the same plans statement by statement: first read, probes with row locks, writes, commit, deadlock, the retry of numbers |
| `DeskBoards`, `NightAudit` | extend `Reservations`: what the desk is shown, what the night closes |
| `WorkerScheduler` | the guard around the workers, over `Reservations` |
| `Housekeeping` | tasks and work orders of rooms beside the desk |

The services of a hotel, a module each: `Folio` (extended by `Restaurant` and
`Spa`, which post on it), `Transport`, `Inventory`, `RatePlans`,
`RevenueEngine`, `Rooms`, `RoomPhotos`, `PropertyConfig` (extended by
`BookingEngine`), `GuestJourney`, `KeyCards`, `Registers`. The platform:
`Billing`, `Tenancy`, `Sessions`, `StaffTeam`, `Impersonation`,
`Notifications`, `Channels`, `Conversations`, `Support`. Each begins with the
classes it stands for and what one of its steps is. `Absent` declares the
constant `Null` for the modules that one root extends together.

Proofs: `ReservationPlanProofs` holds what the plans promise, for the proofs of
both forms of the booking core, `ReservationsProofs`, `ReservationRowsProofs` and
`ReservationsConcurrentProofs`; `HotelProofs` is about `Folio`, `Restaurant`,
`Housekeeping`, `Transport`, `Registers`, `Inventory` and `RatePlans`; `AccessProofs`
about `Tenancy`, `Sessions` and `Impersonation`; `BillingProofs` about `Billing`;
`PlatformProofs` about `StaffTeam`, `Channels`, `RevenueEngine`, `Notifications` and
`Conversations`.

**Composition for TLC.** Components that share rows share a module: a request
of one acts on the variables of the other (`Restaurant` and `Spa` on `Folio`,
`BookingEngine` on `PropertyConfig`, `Housekeeping`, `DeskBoards`,
`WorkerScheduler` and `ReservationsConcurrent` on the bookings). Components that
share none cannot disturb each other, so their interleavings would only multiply.
`MCHotel`, `MCPlatform` and `MCWorkers` therefore play the components in small
*scenes*: the initial state chooses a scene, the scene never changes, and the
variables of the others rest, at `Null` or at their initial values. A property of
these roots says of each scene what its component promises. `MCPlatform` extends
`Billing`, `StaffTeam`, `RevenueEngine`, `Channels`, `Tenancy`, `Impersonation` (and
`Sessions` through it), `Notifications`, `Conversations` and `Support`; `MCHotel` extends
`Restaurant` (and `Folio` through it), `Transport`, `Housekeeping`, `Registers`,
`Inventory` and `RatePlans`; so that the properties their runs check are, word for
word, those the theorems are about. Other sizes of the same components are instances.
A quote changes nothing, so that its scene is a set of initial states.

### Abstractions

* A date is a number, a stay is half-open, money is in small units. In the
  booking core a total is the number of nights it was computed over; in `Folio`,
  `RatePlans` and `RevenueEngine` amounts are computed as the code does, halves
  rounded up.
* A step of a request is what it does between two statements that others can
  come between. Where the code reads, decides and writes by id, the model reads,
  keeps what it read and decided, and writes later, from the patch alone. A
  transaction whose statements are only read-then-write is those two steps, since
  at READ COMMITTED it sees what others committed in between.
* In `ReservationsConcurrent` a plan is fixed at the first read; `FOR UPDATE`
  takes its rows one at a time, waits, and looks again at a row it waited for.
  `Inventory` keeps the locks of item rows to the end of the transaction.
* A unique index is a test at the insert. A crash drops what a request has in
  memory, and leaves its rows.
* History variables (`disturbed`, `changed`, `raced`, `crossed`, `drifted`,
  `tangled`, `contested`, `crowded`, `disputed`, `interleaved`, `overtaken`, `rewritten`, `owed`,
  `untouched`, `typed`, `sent`, `cut`, `verdicts`, ...) record that two requests
  overlapped, or what has been done.
  No guard reads them. They are there because the code takes few locks: a
  property that demanded more than the code can keep under a race would only
  fail, so it says what holds *unless* such a race was under way, and thereby
  that nothing else can break it. What fails in the race itself is in
  section 5.
* Texts, addresses, files, feature lists and templates are left out; what is
  sent, or who, is a member of a small set.

## 3. Runs

| Run | Root and configuration | Shows |
|---|---|---|
| `desk` | `MCReservations`, `desk` | one request at a time, while the grid tightens and eases, rooms are cleaned and enquiries lapse: `NoDoubleBooking`, `TotalAgreesWithDates`, `OnOneList`, `StatusFollowsMap`, `PinnedRoomKept`, and `CalendarKept`, the refinement of `RoomCalendar` |
| `overlap` | `MCReservationsConcurrent`, `overlap` | two overlapping requests of seven handlers from every legal table of two bookings: `SerialWhenIsolated`, `ClashOnlyWithChangedRow` |
| `progress` | `MCReservationsConcurrent`, `progress` | `EveryRequestEnds`, through row locks, deadlocks and retries, while grid, rooms, day and workers move; overlapping creates among them: `NumbersUnique`, `RefusedForCause` |
| `office` | `MCReservations`, `market` | two types, changing grids, rooms out of order: `RoomsKnown`, `CommitsWithinCapacity`, `AvailabilityNeverFlatters` |
| `hotel` | `MCHotel`, `house` | 33 scenes of the house services: `GuestAccountsAddUp`, `OrdersSettleOnce`, `StartedTripHasDriver`, `OnHandIsTheLedger`, `RowsAgree`, `TermsAgree`, `BooksFollowTheQueue`, `OwedWorkIsShown`, `NoRoomStranded` |
| `platform` | `MCPlatform`, `tenants` | 26 scenes of the platform: `SettlementsAreWhole`, `RefundsAddUp`, `SubscriptionsHold`, `AccessEndsForCause`, `SentOnceUnlessCut`, `GuestsAreAnswered`, `BookedOnceUnlessRaced`, `PricesStand`, `ServedByApproval` |
| `workers` | `MCWorkers`, `due` | what must be done in the end: `StaleClaimsReleased`, `LapsedLosesAccess`, `EveryDeliverySettles`, `UnmatchedReverts` |
| `race` | `MCReservationsConcurrent` | `NoDoubleBooking` violated by two confirms |
| `revival` | `MCReservationsConcurrent` | `TerminalStatesFinal` violated by check-in and cancel |
| `wired` | `MCWorkers`, `wired` | `HoldsLapse` violated: no worker is injected |
| `unmade` | `MCHotel` | `UnmadeRoomNotSellable` violated by two guests in turn |
| `cancelled` | `MCPlatform` | `CancelledOnChannelIsFreed` violated by a cancellation on the channel |

The type invariants are checked by `desk`, `overlap`, `hotel` and
`platform`; `office` and `progress` play the modules of `desk` and `overlap`. Each
property has a mutant in `PROJECT.json`: a definition changed as a bug would change it,
under which the run finds the property violated.

**What the composite properties say.** Their definitions in the roots name the
properties of the components, or are the components' own. The deeper ones:

* `SettlementsAreWhole`: an order renews the subscription once, a payment that
  succeeded has its invoice and its month, months add up, invoice numbers differ:
  with events that come twice, checkout beside webhook, manual payments, and a
  process that may stop between any two statements.
* `RefundsAddUp`: refunds stay within the payment, and the gateway pays a refund
  once unless two attempts overlap; the retry worker finds what a crash left.
* `SubscriptionsHold`: the calendar never cuts off a period that still runs,
  whatever was renewed, extended or changed while the worker stood between two of
  its statements; an idempotency key extends once.
* `AccessEndsForCause`: no session ends but by sign-out, revocation, an account
  that was stopped, or a token used twice; a recovery code opens once; an
  impersonation sees no more than was granted, and no longer.
* `GuestAccountsAddUp`: the cached paid amount is the net of the payments unless
  two overlapped, nobody leaves owing but by an override, a source of charges
  is charged once.
* `OrdersSettleOnce`: a restaurant order that no two requests worked on at once is PAID
  when what was taken covers its bill, and takes its stock out once; a table has one
  open order whoever works on it, and shows it (OCCUPIED) unless somebody set the table
  by hand, an earlier party's bill was still unpaid when the order was opened, or two
  requests met on an order of that table.
* `OnHandIsTheLedger`: stock on hand is the sum of its movements, and not below nothing,
  through locks, aborted transactions and deadlocks.
* `TermsAgree`: a rate plan's limits and a fee's percentage pass their own check unless two
  updates of the row overlapped.
* `RowsAgree`: the room count is the rooms unless two recounts overlapped; coupons, card
  numbers, covers, default policies, guest links and slugs are as many as there may be,
  a quote is the sum of its lines, a spa bill follows its treatments.
* `BooksFollowTheQueue`: an entry has one verdict unless it was written inside a decision,
  the payables follow the verdicts, and an event has the stamps of its status.
* `SentOnceUnlessCut`: a delivery is handed to its channel once, through retries,
  overlapping drains and crashes, unless one of these came upon that very row.
* `GuestsAreAnswered`: the worker writes about a stay once unless it died while writing, and
  what the desk was not shown of a thread is counted as unread.
* `PricesStand`: a rule never multiplies its own output; a price typed by a person
  stands unless a run was under way.
* `OwedWorkIsShown`, `NoRoomStranded`: a room a guest left has a task that some
  attendant is shown until it passes inspection; a room off the board has an order
  that took it off.

**Bounds.** Two bookings clash, swap, and exhaust a type of one room; two nights
give stays that are equal, overlap, meet or miss each other. Two requests at a
time reach each order of two reads and two writes, which is what a race between
two clerks is. `overlap` begins from every table that could have been left
before (`LegalStarts`), `progress` from those in which a booking has the room of
its own number (`OwnRoomStarts`), the others being the same with rooms renamed.
In the scenes one row of each kind is the rule, two where one could take another's
place (rooms, bookings, orders at one table, links, policies, items of one purchase order); two to four requests, one crash, two
attempts, and a calendar scaled down so that each interval of the code (notice,
grace, suspension, expiry of a link) is at least one day long. Counters that
the code does not bound are cut off in guards by constants that say so
(`MaxRequests`, `MaxTasks`, `MaxOrders`, `MaxDay`, `MaxEnd`, `MaxRows`,
`MaxStays`, `MaxNow`, `MaxNumber`, `MaxCrashes`, ...). Where no more requests, days
or rows are left a run stops, so the configurations do not check deadlock; that
no request gets stuck is a property, `EveryRequestEnds`. A component whose dimensions
would multiply has several scenes, each of those that meet: the staff two callers at once
on two accounts (one a founder's) with roles, statuses and deletions, and one caller who
moves addresses too; the guest's link two desks beside a guest, and one desk beside a
guest who uses all of the page; rooms two guests in turn with moves and swaps, one guest
while rooms are set READY by hand, and work orders with check-outs or with tasks by hand;
the channel webhooks that come twice with crashes, and once beside a sync; prices two
runs with prices typed, and one run with changes in proportion. `overlap` uses symmetry of
clerks; runs with liveness use none.

**Fairness.** `progress`: a request whose next statement can run runs it, since
the server awaits every promise and the database ends every wait by a commit, a
rollback or its deadlock detector; nothing is assumed of clerks. `workers` and
`wired`: cron ticks again and again and a run returns (`guard` awaits it and
deletes its name in `finally`). Strong fairness of the `UPDATE` of a sweep says
that a worker started again and again gets through once in the end; the same of
the lifecycle's statements, under the condition that its run reaches the last of them
again and again. A delivery is drained every minute; a price run is made every
hour. Requests of people, crashes, lost answers and refusals of a provider are
never assumed to stop other than by the named bounds.

**What the violations say** (`findings` quotes the sentences):

* `race`: a confirm locks only bookings that already occupy the room.
  `ClashOnlyWithChangedRow` says what the locks do achieve: every clash goes
  back to a row changed by somebody else after the first read.
* `revival`: a status checked before the transaction, and an `UPDATE` by id.
* `wired`: `WorkerSchedulerService` carries no class decorator, so its
  constructor's types are not recorded and Nest has nothing to inject; the unit
  test constructs it by hand.
* `unmade`: a task that waits for inspection suppresses the clean of the next
  check-out.
* `cancelled`: a booking that is known by its reference is a duplicate before its
  status is read, in the poll and in the webhook alike.

## 4. Which properties cover what

`hazards` in `PROJECT.json` is the list; per component: bookings `desk`,
`overlap`, `progress`, `office`, `race`, `revival`; housekeeping and work orders
`OwedWorkIsShown`, `NoRoomStranded`, `unmade`; money of the stay
`GuestAccountsAddUp`, `OrdersSettleOnce`; the house `StartedTripHasDriver`,
`OnHandIsTheLedger`, `RowsAgree`, `TermsAgree`, `BooksFollowTheQueue`; the platform's
money `SettlementsAreWhole`, `RefundsAddUp`, `SubscriptionsHold`; people
`AccessEndsForCause`, `ServedByApproval`; messages `SentOnceUnlessCut`,
`EveryDeliverySettles`, `GuestsAreAnswered`; channel and prices `BookedOnceUnlessRaced`, `cancelled`,
`PricesStand`, `UnmatchedReverts`; workers `StaleClaimsReleased`,
`LapsedLosesAccess`, `wired`.

## 5. Sentences of the code that fail

The modules state more of the code's own comments than the runs check. Each
definition below is refuted by TLC on an instance of the size of its scene, and is
kept next to the property that does hold:

| Definition | Module | The sentence, and why it fails |
|---|---|---|
| `GuestPaysTheBillOnce`, `NoOpenOrderOnFreeTable` | `Restaurant` | `restaurant/orders.service.ts:494`, `:57`: two waiters settle from one read; settling frees a table where the next order sits |
| `EveryRupeeIsARow` | `Folio` | `cash/cash.service.ts:14`: two desks open a shift for one cashier |
| `ReceivedOnce` | `Inventory` | `inventory/inventory-rules.ts:43`: two receipts of one order both read SENT |
| `CapturedIsSettled`, `RefundedOnce` | `Billing` | `billing/billing.service.ts:399-400`, `:674`: a crash after the claim of an event; a refund and its retry that overlap |
| `OwnerWarned` | `Tenancy` | `workers/workers.module.ts:43`: a worker that did not run on the day of the warning |
| `CaughtUpAfterCrash` | `Notifications` | `workers/workers.module.ts:109-112`: rows of some channels were queued, and once means never again |
| `FlakyNetworkKeepsSession` | `Sessions` | `src/staff_app/lib/core/networking/api_client.dart:163-167`: the server rotated, the answer was lost |
| `NothingMissed` | `Channels` | `integrations/channex-sync.service.ts:496-497`: a failed run moves `lastSyncAt` on |
| `HandPriceStands`, `SwitchedOffReverts` | `RevenueEngine` | `rate-plans/revenue-engine.service.ts:44-46`, `workers/workers.module.ts:566-567`: a run under way; the last rule switched off |
| `LiveRoomHasLiveType`, `CountNeverDrifts`, `NoOrphanType`, `AttachedIsAttachable` | `Rooms` | `rooms/room-types.service.ts:602-605`, `rooms/rooms.service.ts:43-45`, `:344-345`, `rooms/amenities.service.ts:139`: check and write are two statements; a room moved away leaves its private type |
| `AlwaysACover`, `OneDefaultPerKind` | `RoomPhotos`, `PropertyConfig` | `property-config/property-config.service.ts:182-183`: two requests at once |
| `BurstStaysWithinLimit` | `BookingEngine` | `property-config/property-config.service.ts:447`: the throttle reads and then counts |
| `RefusedIsNotBooked` | `BookingEngine` | `booking-engine/booking-engine.service.ts:304-306`: the coupon is looked at after the booking was made |
| `AvailabilityIsCreates` | `DeskBoards` | `reservations/desk.service.ts:344-346`: the board and `create` count different rooms, always to the safe side (`AvailabilityNeverFlatters`) |
| `RerunIsSafe` | `NightAudit` | `workers/workers.module.ts:418-419`: a date closed again counts guests who left by then as revenue but not as rooms |
| `DepartedOwesNothing`, `OneLiveLink` | `GuestJourney` | `guest-journey/guest-journey.service.ts:368`, `:75-76` |
| `OneThreadPerGuest`, `AutomationOnce`, `UnseenIsUnread` | `Conversations` | `conversations/conversations.service.ts:20`, `:239-241`: look-up and insert, send and mark |
| `FirstResponseIsAReply`, `NoEmptyThread` | `Support` | `support/support.service.ts:277-279`, `owner-auth/owner-support.service.ts:231-234` |
| `PaidIsHistory`, `FunnelStaysHonest` | `Registers` | `accounts/accounts-rules.ts:10-12`, `sales/sales-rules.ts:13-14`: a status written from a stale read |
| `CardDiesWithStay`, `LostStaysLost` | `KeyCards` | `key-cards/key-cards.service.ts:79-80`, `:101-105` |
| `StoppedStaysStopped` | `StaffTeam` | `staff-auth/staff-team.service.ts:131-132`: an approval undoes a block |

Seen while modelling, without a sentence to hold them against: an attachment to a
group checks neither row's `deletedAt`; a corporate payment without an account is
recorded before it throws; a discount on an untaxed folio gets a negative tax; a
BILLED order cannot be cancelled and a bill of zero cannot be settled in cash; the
refund of a spa bill leaves its line on the folio; `assign` of a trip that is
ASSIGNED always refuses; a trip the desk put IN_PROGRESS leaves its driver without
a first step; a purchase order number retries inside an aborted transaction; a move marks the room
that was left DIRTY and raises no task for it, and a swap or a no-show does neither; the
owner app signs out on any failure of a refresh; a scheduled announcement is
published and nobody told; an ERROR connection is never polled again; a failed
webhook is answered as a replay for ever; moving a room leaves its private type;
guests who overstay are on neither list of the desk; settlement after the deletion
of an owner reactivates the subscription; nothing ends the row of an expired
impersonation.

## 6. Proofs

TLAPS checks these theorems for every value of the constants, where TLC has seen
the same properties on the instances of section 3.

| Theorem | Module | Establishes |
|---|---|---|
| `TypeCorrect`, `NoRoomDoubleBooked` | `ReservationsProofs` | `TypeOK`, `NoDoubleBooking` of `Reservations` |
| `EngineKeepsCalendar`, `OneHolderAlways` | `ReservationsProofs` | `CalendarKept`: `Reservations` implements `RoomCalendar`, whose nights have one holder each |
| `TotalsAgree`, `RoomsAreKnown`, `StatusesFollowMap`, `PinnedRoomsKept`, `CommitsAreWithinCapacity` | `ReservationRowsProofs` | the other properties of the serial bookings that `desk` and `office` check |
| `GuestsOnOneList`, `NeverFlattered` | `ReservationRowsProofs` | `OnOneList`, `AvailabilityNeverFlatters` of the boards |
| `TablesTyped`, `NumbersAreUnique`, `ClashesNeedAChange`, `RefusalsAreForCause`, `UndisturbedIsAtomic` | `ReservationsConcurrentProofs` | `TypeOK`, `NumbersUnique`, `ClashOnlyWithChangedRow`, `RefusedForCause`, `SerialWhenIsolated`, with requests statement by statement |
| `SettledWhole`, `RefundsWhole` | `BillingProofs` | `SettlementsAreWhole`, `RefundsAddUp` |
| `MoneyHasItsInvoice`, `OneRenewalForAnOrder`, `NumbersGivenOnce` | `BillingProofs` | the first three parts of `SettlementsAreWhole`, each alone |
| `NobodyServesUnapproved`, `ChannelBooksOnce`, `PricesHold` | `PlatformProofs` | `ServedByApproval`, `BookedOnceUnlessRaced`, `PricesStand` |
| `SentOnce`, `NotificationsTyped` | `PlatformProofs` | `SentOnceUnlessCut`, `NotificationsTypeOK` |
| `GuestsAnswered`, `TalkTyped` | `PlatformProofs` | `GuestsAreAnswered`, `TalkTypeOK` |
| `SubscriptionsKept`, `TenancyTyped` | `AccessProofs` | `SubscriptionsHold`, `TenancyTypeOK` |
| `AccessKept`, `AccessTyped` | `AccessProofs` | `AccessEndsForCause`, `SessionsTypeOK` and `ImpersonationTypeOK` |
| `AccountsAddUp` | `HotelProofs` | `GuestAccountsAddUp` |
| `RoomsComeBack`, `OwedWorkShown`, `OwedRoomsStayOnBoard` | `HotelProofs` | `NoRoomStranded`, `OwedWorkIsShown`, and its first part, `OwedRoomHasTask` |
| `StartedTripsDriven` | `HotelProofs` | `StartedTripHasDriver` |
| `OrdersSettled`, `RestaurantTyped` | `HotelProofs` | `OrdersSettleOnce`, `RestaurantTypeOK` |
| `BooksKept`, `StockIsItsLedger`, `TermsStand` | `HotelProofs` | `BooksFollowTheQueue`, `OnHandIsTheLedger`, `TermsAgree` |

**From what.** The named assumptions of the modules. `ReservationPlans`: counts and
the horizon are natural numbers, every room has a type, grids are tables of rules by
type and day, `Null` is no room, type, day or room status. `ReservationsConcurrent`:
`Null` is no clerk, and a run starts from tables. `Billing`: orders and cash payments
are told apart, the worker is one of the handlers, every order is at one of the two
gateways; refunds are finitely many numbered rows, amounts and the limit of attempts
are positive. `Channels`: a booking on the channel has a type that is sold.
`RevenueEngine`: overrides are finitely many and have a first night and a rate.
`Tenancy`: days, prices and the extension are natural numbers, and a plan lasts a day at
least. `Sessions`: the slots of sessions are numbered, tokens and guesses have a bound.
`Impersonation`: time has a bound. `Registers`: an entry is of one of four kinds.
`Inventory`: recipes and purchase orders list items of the stock. `RatePlans`: a plan is
not a fee. `Restaurant`: lines are finitely many, the surcharge and the stock are natural
numbers. `Notifications`: a delivery is tried at least once, the table has a bound, a fact
is told on a list of channels. `Conversations`: a stay has a number or none; messages,
staff and webhook calls are finitely many, and the worker is none of them. Each of these
also has it that `Null` is none of the rows or keys it stands in for. TLC
evaluates them in every run. Some theorems have hypotheses of their own: that model
values are distinct (`Null` is no driver, no trip, no stay, no payment, no account of
the staff), that lines are numbered and the keys of a run finitely many, that the
tables a run starts from are tables, that there is somebody on the staff to be shown
what is owed, and that the desk does not set a room off the
board by hand (`StaffSets \cap OffTheBoard = {}`: what it sets by hand has no order,
and `NoRoomStranded` is about what orders do).

**Bookings, one request at a time.** `NoDoubleBooking` is inductive once rows are typed
(`Inv == TypeOK /\ NoDoubleBooking`), but a step is any of a dozen plans with all
their values. So the proof is by what a plan promises: it is *sound* if every row
it writes that occupies a room either keeps the room and nights it had, or is covered by
a probe of that room and those nights which skips only rows the plan writes itself. One lemma says that
executing a sound plan keeps `Inv`; one lemma for each handler says that its plan is
sound; autoAllocate, the sweeps and the outside world have their own.
`ReservationRowsProofs` goes the same way with *fair* plans: the rows a plan writes
have dates in order and a total over them, a room of their type wherever one is due,
a status that is an edge away, and, if they come to occupy, a type probe over
every night written. Its invariant `RowsInv` conjoins to `TypeOK` what a good
row is. From a type probe that passes follows the bound of
`CommitsWithinCapacity`, by cardinality of the bookings found; the two theorems on
boards compare what a board counts with what `create` counts, row by row.

**Bookings, statement by statement.** What a plan promises was proved of the table its
request read first. Others have written since, so the invariant of
`ReservationsConcurrentProofs` speaks of the rows that nobody has changed since that read
(`changed` remembers the others): on those rows the plan of a request under way is still
the one read, and once a probe was answered no clash is among them. A commit can then
double a room only with a row that was changed, which is `ClashOnlyWithChangedRow`. Of a request
nobody disturbed all rows are such rows, so its commit does what `Execute` of the
serial module would do (`SerialWhenIsolated`): the serial theorems are about it. A
refusal goes back to a probe that found what it was looking for (`RefusedForCause`);
numbers differ because each that is held is either in the table or taken under the
unique index (`NumbersHeld`).

**The calendar.** `NightBook` maps the bookings to who holds each night of each room. A
request that writes one row redraws one claim, and `Inv`, before and after the step,
says that nobody else had the nights claimed; an exchange redraws two and an
allocation several claims, under the same invariant. Together with `OneHolderAlways` it is a second road to rule 2 of the
booking service, which does not mention probes.

**Accounts.** A payment is found, inserted, summed and cached in four statements with
no lock, and check-out looks at the balance before it closes the stay. `FolioInv` says
of a stay that no two requests were on at once (`disturbed` remembers the others) that
one request is on it at most; that `paid_paise` is the sum of the payments unless that request
is between its insert and its write; and that what it has read, the sum or the
balance, is what the rows still say. The sums stay closed throughout: they are equal
where the rows are, and of the first one, over no payments, `NoughtsSumToNought` shows
that it is nothing. `ChargedOncePerSource` needs no such proviso, since the unique index
makes the look and the insert one step.

**Rooms.** `HouseInv` adds to the two properties that requests under way name
tasks and orders that exist with the room they had, and that a move is one of the
map: an order's row is written by its id from an old read, and what saves the
room is that the row never changes its room nor whether it takes the room out, and
that a move which ends an order puts its room on the board again. What the board shows
of an owed room is its newest open task, the greatest of finitely many numbers
(`NewestIsOpen`).

**Staff and trips.** A request read its row before it writes. The invariants
(`DrivenInv`, `TeamInv`) say of the patch in hand what makes it harmless
later: a patch that starts a trip leaves its driver alone, a write that puts
somebody into service was decided by one who may approve.

**Orders, stock, terms, registers.** `OrdersInv` says of an order that no two requests met
on (`crowded` has the others) that the row its one request carries is the row that is
there, that what was taken is what the row says, and that the stock is out just when the
row is PAID. That a table has one open order needs no such proviso, the insert being
behind an index. That the table shows it rests on `FloorInv`: while an open order is at
ease (`AtEase`), every other order of its table is PAID or CANCELLED, so that no request
is left, its row being the row that is there, that would set that table; an order opened
beside an unpaid bill, or whose table a hand touches, is among the `disputed`. `StockInv` says of a transaction what it holds: an item that it has seen to
is locked by it, and the balance it will write is the stock with its own movements; of
every other item it has moved nothing. So whichever of commit, rollback and deadlock ends
it, stock and ledger move together. `PlansInv` says of a patch in hand that the row it would
make passes the check: the check reads the limits, or the value and the calculation, and a
row that nobody else updates keeps these, though other columns of it may change.
`RegistersInv` rests on the maps of moves: no move leads back to a status that awaits a
verdict and nothing withdrawn returns, so a second verdict was decided on a row that had
changed since, which is what `overtaken` remembers.

**Settlements.** No lock orders webhooks, checkout and the owner's manual payment. The
argument of `BillInv` is that nobody needs one: the gateway captures an order once,
so at most one event of capture exists; the unique row of an event admits one
request; whoever else could move a payment away from PENDING is shown to be
elsewhere (`Apart`, between any two requests). `GatewayInv` keeps the first part,
`HandlersInv` the second, `MoneyInv` what follows for the tables. For the months,
`MonthsInv` bounds the end of the period, and the end a request is about to write, by the
invoices of payments; unless two settlements were under way at once, the one that is
goes on from the end that stands.

**Refunds.** `PayInv` says of every row on which no two attempts overlapped that one
request works on it at most, and that one about to ask a gateway without idempotent
refunds has just looked and found nothing paid. `SumInv` bounds the refunds of a
payment. The sum is stated as the number of units, pairs of a row and one of its units
(`Units`), so that a new row adds disjoint units (`RowAdds`) and no fold over rows has
to be unrolled.

**Tenants.** The lifecycle's sweeps are statements that look at the period themselves, so
that what was read before them does not matter: `TenancyInv` needs only that whoever writes
a period writes ACTIVE with it, and that the period a request carries is a period (`Asked`).
That a change of plan ends no earlier than it begins is arithmetic over all prices and days
(`ProrationIsLater`).

**Sessions.** A token twice used is a stolen one or a retry whose first answer was lost. To tell
that only the second kind happens here, `SignedInv` ties four tables together: a device that
is signed in has a session of its own (`Held`), a refresh that somebody waits for is that of a device
as it stands and the only one of it (`UnderWay`), and a device has the token on record unless a
refresh of its session was abandoned (`UpToDate`). So a token that is not on record comes from
such a session. Without `UnderWay` a late refresh could take the token from the device that has it.
`CodesInv` says of a recovery code that is unused that it opened nothing.

**Support in an owner's place.** `ShoesInv` says of a request that was let past the first read
that the session had not ended when it came (`late` records the others) and was for
the owner it will be served as; a session never changes whom it is for, though it may
end before the request is served.

**Deliveries.** Rows are sent before they are marked, and nothing claims them. `OnceInv` says of a
row that neither a second drain nor a crash met that one drain has it at most; that before it is
sent it is PENDING and was not sent; that while it waits for its mark it was sent just if its
channel took it; and that a PENDING row nobody has was not sent. `QueueInv`
adds what the counts need: a drain keeps the attempts it read, and a row that is PENDING has one left.

**Conversations.** Of a stay whose message the worker was not cut off in, there is one message at
most, it is in the sent-table or under way, and the worker is not about to insert another
(`WrittenOnce`). `Counted` says of a thread that what is unseen is no more than its unread
count and what requests are about to add, and, between the two statements of a
reader, no more than the latter alone: he has seen everything that is counted, and may reset the count.
Both sides are cardinalities, of which a step moves one element.

**The channel.** `Once` says of a booking whose handlers never met that one run handles
it at most, that it has one stay at most, and that the stay bears its reference
unless that run is about to stamp it; `raced` remembers the bookings of which two met.

**Prices.** `EngineInv`: a price that bears the mark of a rule is a rule applied to a
*base*, the standing rate or an override's, so never to a rule's output; and where no run crossed a
hand, the price typed is there, and every run still to come to that night has read
it as typed. That a rate chosen among overrides is the rate of one of them (`BaseIsBase`) needs a
maximum over a finite set, which is proved from well-founded subsets
(`Highest`), since the induction rule of the library takes an operator.

**What the theorems do not say.** Those on `Reservations` speak of requests that
do not overlap; `race` shows that this is needed, and those on
`ReservationsConcurrent` say what remains true. Only model-checked are:
liveness (`EveryRequestEnds`, the four of `workers`), since the prover does not
reason about fairness and ENABLED; `RowsAgree`, that is rooms and beds, the spa, coupons,
cards, quotes, guest links, galleries and settings; `Support`; what a fold over rows
would need induction for, such as the lines of a quote and the figures of a night; the night
audit; and the type invariants not named in the table (of `Billing`, `StaffTeam`,
`Channels`, `RevenueEngine`, `Folio`, `Transport`, `Housekeeping`, `Registers`, `Inventory`
and `RatePlans`), of which the inductive invariants hold the part that they need.
The theorems on the modules with history
variables say what holds unless the named race was under way, as the properties do;
section 5 has the sentences that fail in the race.

## 7. Not modelled, and why

* **Groups, security, guests, reviews, suppliers, menu categories, taxes and
  sources, roles, permissions and entitlements**: registers whose handlers write one row, which
  nothing modelled reads. What suspending an admin or an owner does elsewhere is in
  `Sessions` and `Tenancy`.
* **Analytics, reports of money, export, search, health, alerts**: reads.
  **Audit, metrics, the daily aggregate, pruning**: logs that no handler reads.
  **Realtime**: pushes without state or acknowledgement.
* **Storage, the PDF of an invoice, properties, framework glue**: I/O and
  configuration. PostgreSQL, the gateways, Channex and the message providers are
  modelled from how the code uses them, as actions without mapped lines or marked
  external.
* **Screens of the portal and the apps**: interfaces over the API. Of the apps only the
  client that refreshes tokens is modelled. The staff app's offline queue has no
  handler registered in this build, so nothing enters it.
* **Inside modelled components**: prices in the booking core (a total is the nights it
  was computed over), tasks of areas in housekeeping, texts, passwords.

Three simplifications hold everywhere: dates are numbers, so that
daylight saving and the hotel's time zone do not exist; PostgreSQL's visibility is
that of statements, not of snapshots within one; a process stops only where
`MaxCrashes` lets it.

## 8. Plan

Done in this order: booking core, its concurrent form, housekeeping, scheduler, then
the services by what they move (money, keys and accounts, messages, stock,
registers), and the proofs from the core outwards: bookings in one step and statement
by statement, the calendar, boards, rooms, trips, accounts, orders, stock, terms,
registers, billing, tenants, sessions, staff, support access, channel, prices,
deliveries, conversations. What is left, in order:

1. Proofs for `KeyCards`, `GuestJourney`, `PropertyConfig` and `Support`, whose
   invariants need no sums.
2. Room counts and the spa, with a lemma for what one more row does to a count.
3. Groups beside the bookings they collect, and the tasks of areas.
