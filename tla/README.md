# serve-os backend: TLA+ models and proofs

serve-os is a NestJS backend for restaurants: guests scan a table's QR code, order and
tip from their phones; waiters, kitchen and cashiers work the same orders from theirs;
payment providers call back over HTTP. All state is in Postgres, reached through TypeORM.
There is one Node.js process, so nothing runs in parallel inside a handler, but every
`await` is a point where any other request, timer or callback may run, and almost
everything interesting happens between two awaits.

Paths are relative to the repository (`src/modules/...` is the repository's own `src`).

## 1. Inventory

| Part | State it keeps | Operations | Hard behaviours |
|---|---|---|---|
| Orders (`src/modules/orders`) | `orders` rows: status, paymentStatus, tipAmount | place (QR, guest, staff), status changes, cancel, cash/POS, confirm, record payment, retry, refund | two ways of writing a row: under `FOR UPDATE`, and saving a copy read earlier |
| Transition graph (`order-transition.service.ts`) | none | which status follows which, who may do it | checked twice, before and under the lock |
| Payments (`src/modules/payments`) | `payments` rows | create, confirm, fail; provider callback, poller | duplicates, late answers, callback against poller against cashier |
| Guest tips (`table-sessions.service.ts`, createTip) | a payment row and `orders.tipAmount` | tip once per idempotency key | replay, cap, sum of tips shared with staff |
| Table sessions (`src/modules/table-sessions`) | `table_sessions` rows, `tables.isReserved` | scan, default session, close, refresh, join, split, waiter call | session closing while an order is placed; joins racing joins |
| Kitchen gateway (`src/modules/kitchen`) | rooms, expiry timers, waiter-call cooldowns, all in memory | emit, join and leave rooms, call waiter | order of events against commits, stale session rows, timers against the awaits of a join |
| Payment poller (`payment-reconcile.service.ts`) | none but the rows | a round over a batch of stuck payments | overlapping rounds, callbacks, staff; crash and restart |
| Auth and users (`src/modules/auth`, `src/modules/users`) | `users` rows: password, verification link, refresh token, hasBusiness | register and reclaim, verify, login, refresh, logout, profile, password | whole copies saved after a password was hashed |
| Staff (`src/modules/staff`) | `staff` rows: PIN lockout, password, invite | create, invite, three logins, unlock, remove | parallel attempts on one counter, saves of whole copies |
| Business (`src/modules/business`) | `businesses` rows; `users.hasBusiness` caches whether there is one | create, remove, features | three statements without a transaction |
| Menu and modifiers (`src/modules/menu`, `modifiers`) | categories, products, groups, modifiers | CRUD, availability, attach groups | checks on rows read earlier; pages that follow by events |
| Images (`src/modules/images`) | an object in S3 and a row | upload, remove | two stores, no transaction over both |
| Displays (`src/modules/display`) | `displays` rows: token hash, revoked | create, regenerate, revoke, public list, join | two savers of whole copies |
| Guards (`src/common/guards`, tenant access) | none | resolve the business, judge role, permission, feature | several reads per request, a token that outlives the row it was signed from |
| Tables, health, database scripts | rows | CRUD | mostly single statements |

How they interact: controllers call a service; `OrdersService` calls `PaymentsService` (and
the reverse), `TableSessionsService.refreshLifecycle`, and the gateway. The only
synchronisation is Postgres row locks: the order row in `transitionOrder` and `writeTip`,
the session row in `lockAndReactivateSession` and `refreshLifecycle`, the payment row in
`confirmPayment` and `failPayment`.

What makes them correct:

* *Orders and payments*: an order is settled at most once and only by the step that closes
  it; money confirmed is never lost; PAID is backed by money; the tip shown is the sum of
  the tips paid.
* *Table sessions*: a closed session holds no open order; a table is reserved exactly while
  one of its sessions is active; joins form no chain; each settled session closes.
* *Gateway*: clients end up showing the committed status; a timer never ends a session that
  was extended.
* *Payment poller*: a payment is settled once, whoever comes first, and exactly one of those
  who tried goes on with the order; what the provider has decided is settled in the end.
* *Accounts*: a verified account keeps its password; hasBusiness says what is there; a lock
  is not lifted by answers that come late, and the number of guesses is bounded; removed staff
  stay removed; a temporary password opens only short sessions.
* *Catalog*: a fixed price is alone in its choice; no page offers what is not available; no
  image row points nowhere.
* *Access*: a request acts only at the business of its caller and is judged by the rows; a feed
  ends with its token; a token that was replaced or revoked stays dead.

Several of these the code keeps only as long as certain requests do not overlap; §3 says which.

`PROJECT.json` lists the components, with what is modelled of each, and the hazards of the
code at their lines.

## 2. The modules

| Module | Models |
|---|---|
| `OrderTransitions` | `order-transition.service.ts`: graph, roles, cancellation rules, as pure operators |
| `OrderLifecycle` | the abstract life of an order: place, advance along the graph, settle once |
| `OrderPayments` | orders, payments, tips and the session flag, every handler cut at its awaits |
| `TableSessions` | table sessions, the reserved flag and waiter calls, statement by statement |
| `SessionOccupancy` | the abstract promise of a session: it outlives its open orders |
| `OrderBroadcast` | what guests and the venue's TV are told of orders, event by event |
| `PaymentReconcile` | rounds, callbacks and staff settling payments, with crash and restart |
| `LiveFeed` | owners and staff in the rooms of a business, and the timers that end their sockets |
| `OwnerAccounts` | accounts of owners and the flag that caches whether they have a business |
| `StaffAccounts` | accounts of staff: creation, logins, PIN lockout, unlock, removal |
| `ModifierGroups` | groups, modifiers, and the rule on fixed prices |
| `Menu` | categories, products, and the open menu pages |
| `Images` | objects, rows and addresses of uploaded images |
| `DisplayPairing` | tokens of the venue's TVs |
| `RequestGuards` | what a request passes before its handler runs |
| `MCOrderPayments`, `MCTableSessions`, `MCOrderBroadcast` | the instances TLC checks |
| `MCBackOffice` | the nine parts above, side by side, and their instance |
| `OrderPaymentsProofs` | proofs for all entry points: types, taken money stays, PAID is covered |
| `OrderSettlementProofs` | proofs for the locked entry points: settled once, counted once, exact tips, `OrderLifecycle` implemented |
| `TableSessionsProofs` | proofs: types, joins at one table; guests not ejected, `SessionOccupancy` implemented |
| `OrderBroadcastProofs` | proofs: types, guests are shown committed statuses, what the TV and the guests in the room have followed is what the rows say |
| `StaffProofs`, `OwnerProofs` | proofs: types, locks, guesses, short sessions, removal; the flag and the passwords of owners |
| `CatalogProofs` | proofs: images, modifier groups, menu |
| `BackOfficeProofs` | proofs: displays, staff rooms, guards, settlement of payments; the nine parts side by side |

### OrderPayments

*State.* `orders`, `payments` and `sessions` are tables; `sold[o]` is how often the items of
`o` were added to `products.totalOrderCount`. `pc[r]` is the await at which handler `r` is
suspended and `job[r]` its local variables: what it was asked, the copy of the order row it
has read (`row`), the payment object it holds, amounts.

*Steps.* A step is one SQL statement, or one transaction that begins by locking its row.
The locked transactions are one step because everything they read afterwards is protected
by the lock or written by themselves. What runs after a commit is a step of its own.
`Arrive(r)` starts a handler with its first read and the checks on it; `Run(r)` is its next
step; `Die(r)` ends it at any await (a failed statement, a crash of the process).

| Code | Actions |
|---|---|
| `createFromQr`, `createGuestOrder` | `PlaceAsGuest`, `InsertOrder`, `ReadOrder`, `InitiateManually / InitiateRedirect / InitiateInstant`, `Save` |
| `createFromStaff` | `CreateFromStaff`, `InsertOrder`, then `transitionOrder` |
| `updateStatus`, `confirmOrder`, `cancelBySession` | the action of that name, then `transitionOrder` |
| `transitionOrder` | `TransitionOrder / TransitionWithNewPayment / TransitionWithPayment / RejectTransition`, then `RefreshLifecycle`, `OpenPaymentForCashier`, `CountSold` |
| `processStaffPayment` (cash, POS) | `ProcessStaffPayment`, `TransitionWithNewPayment` |
| `confirmOrderPayment`, `closeWithPayment` | `ConfirmOrderPayment`, `FindPending`, `TransitionWithPayment` |
| `recordStaffPayment`, `recomputeAndAdvance` | `RecordStaffPayment`, `InsertPayment`, `SumTips`, `SumPayments`, `SaveAndAdvance` |
| `PaymentsService.create / confirmPayment / failPayment` | `CreatePayment`, `CreateOnlinePayment`, `ConfirmRow`, `ConfirmPayment`, `FailPayment`, `ReadOrder` |
| `retryPayment`, `refundOrder`, `markPaymentFailed` | `RetryPayment`, `RefundOrder`, `ReadOrder`, `Save` |
| `createTip`, `writeTip` | `CreateTip`, `WriteTip`, `RefuseTip` |

*Abstractions.*

* `repository.save(copy)` writes back every column in which the copy differs from the row.
  TypeORM does this as a SELECT followed by an UPDATE of the differing columns; the model
  makes it one step. A write that lands between the two survives in the columns the
  comparison found equal, a mixture the model does not produce.
* Items, prices and modifiers are one constant `Total`; timestamps, notes, events and logs
  are left out. `paymentStatus` PENDING exists in the enum and is never written.
* The registered providers answer `manual` or throw; `redirect` and `instant` follow the
  interface in `payment-provider.interface.ts` and the code that handles them.
* Callbacks and poller are the actions `ConfirmPayment` and `FailPayment`, enabled for
  every PENDING payment (`FailPayment` for those with a `providerRef`); a duplicate on a
  decided payment changes nothing and is a stutter.
* `POST /payments` accepts any number; the amounts tried are `ClientAmounts`. An instance
  with only the total is used, so `PaidMeansCovered` says nothing of partial client payments.
* A replayed idempotency key of a tip returns without writing: a stutter. The cap of a guest's tip is
  the smaller of an absolute amount (`GuestTipMax`) and twice the total.
* Both checks of a status change judge the role in the token, which the tenant guard copies into the
  request's context (`tenant-access.service.ts`, 104-108): `UpdateStatus` has one actor for both.
* A session is here only a flag that guest inserts and `refreshLifecycle` write under its
  lock; everything else that is done to a session is in `TableSessions`, where an order is
  only open or not.

### TableSessions

*State.* `sessions` holds the columns of `table_sessions` that change: `status` (isActive and
closedAt), `mergedInto`, `waiterCall` (waiterCallActive and waiterCallAt). `reserved` is
`tables.isReserved`; an order is absent, open, failed (PAYMENT_FAILED, which a retry reopens)
or done, and belongs to a session.
`lock[s]` is the transaction that holds the session row `FOR UPDATE`; `pc` and `job` are as above.

*Steps.* Here one step is one SQL statement. `repository.save(copy)` is two: `Save`, the SELECT
after which TypeORM knows which columns of the copy differ, and `Update`, which writes
them. An UPDATE of a locked row waits, and so does the insert of an order, whose foreign key
refers to it.

| Code | Actions |
|---|---|
| `scan` without a valid token | `Scan`, `CreateSession`, `SyncCount`, `SyncUpdate` |
| `createFromQr` (guard, then `lockAndReactivateSession`) | `CreateFromQr`, `InsertOrder` |
| `createFromStaff`, `getOrCreateDefaultSessionForTable` | `CreateFromStaff`, or `CreateFromStaffAtFreeTable`, `CreateSession`, `SyncCount`, `SyncUpdate`; then `InsertStaffOrder` |
| `transitionOrder`, then `refreshLifecycle` | `TransitionOrder`, `RefreshKeeps`, or `RefreshCloses`, `SyncCount`, `SyncUpdate` |
| `closeSession` | `CloseSession`, `CountOrders`, `CountChildren`, `Save`, `Update`, `SyncCount`, `SyncUpdate` |
| `joinSessions` | `JoinSessions`, `ReadSource`, `CountChildren`, `Save`, `Update` |
| `splitSession`, `handleCallWaiter`, `acknowledgeWaiterCall` | the action of that name, `Save`, `Update` |
| `retryPayment` | `RetryPayment` |
| `TablesService.setReservation` | `SetReservation` |

*Abstractions.* The expiry of a session (`expiresAt`) is left out, and with it the refusal
of a scan or an order after it: the model may keep a session in use longer than the code. Who
may call what is left out; a refusal changes nothing. A session's table never changes
after the insert, so `TableOf` is a constant; the number of session ids bounds the scans.
`joinSessions` reads its target and its source in two statements, in this order.

### OrderBroadcast

*State.* The committed rows (`status`, the order updated last, the session's isActive), the
handlers between their read or commit and their last event, and what each screen shows:
`guestView[g]` is what guest `g` was told last of each order, `board` the TV. A guest's socket is
out of the session room, joining it (with what `handleJoinSession` has read in `snapshot`), in it,
or was refused; the TV is in its room or not, with a snapshot on its way to it (`loaded`) or none.
`reached`, `witnessed`, `followed` and `fresh` are history, read by the properties only.

*Steps.* A commit, an event and a database read are one step each. An event reaches every
socket of its room in one step and in order, because all rooms live in this one process.

| Code | Actions |
|---|---|
| `recomputeAndAdvance`, `markPaymentFailed`, `retryPayment`, `refundOrder` up to their call of `transitionOrder` | `ReadOrder`, `SaveOrder` (the copy, with the status it was read with) |
| `transitionOrder`'s transaction, for each caller and the statuses it asks for | `TransitionOrder`, or `RefuseTransition` |
| `dispatchOrderEvent` and the five `emitOrder...` it calls | `DispatchOrderEvent`, or `DispatchNothing` for statuses without an event |
| `closeWithPayment`, `recomputeAndAdvance` (`onDispatched`) | `EmitOrderPaid` |
| `refreshLifecycle` | `RefreshLifecycle` |
| `markPaymentFailed`, `refundOrder` after `transitionOrder` | `EmitLate` |
| `lockAndReactivateSession` and the insert | `PlaceOrder`, `InsertOrder` |
| `handleJoinSession` | `JoinSession`, `SyncGuest` |
| `handleJoinDisplay`; leave-display or a lost connection | `JoinDisplay`; `LeaveDisplay` |
| `getPublicSnapshot`, and the TV that shows it | `GetPublicSnapshot`, `ShowSnapshot` |

*Abstractions.* A screen shows the status of the last payload it was sent for an order; the
clients themselves are not in the repository. The staff and kitchen rooms, session-closed and the
tip events are left out, and so is the expiry of a guest's token (the menu room is in `Menu`, the
staff rooms are in `LiveFeed`). A stale save is one step, as in `OrderPayments`; what it does to money
is that module's subject, what it leaves the screens with is this one's. `closeWithPayment`
stands for `processStaffPayment` too, which closes an order in the same way. A snapshot the TV
loads replaces all it shows; one is on its way at a time.

### The back office

The nine modules below are of one make. A request is a record in a `...Job` (in `RequestGuards`
a `call`, in `PaymentReconcile` a `worker`): the operation, what it is about, and the copy of the
row it has read. The method of the service is the action that reads and starts it; the action
or actions named after its writes end it; what may run in between is everything else. A
`repository.save(copy)` is one step that makes the row the copy. The code keeps no two requests
apart, and neither do the modules: every overlap is in the specification. Where some overlaps break
a claim, a history variable says on which rows they have happened (`ownerRaced`, `staffRaced`,
`groupRaced`; for the menu pages `followed` and `latest`), no action reads it, and the property speaks
of the other rows. §3 says which overlaps these are.

| Module | Code | Actions |
|---|---|---|
| `PaymentReconcile` | `reconcile` | `Reconcile` takes a batch, `Skip` or `Verify` each of it |
| | `handleCallback`, `confirm`, `create` | `HandleCallback`, `Confirm`, `Create` |
| | `confirmOrderPayment`, `openPaymentForCashier`, then `closeWithPayment` | `ConfirmOrderPayment`, then `CloseWithPayment` or `CloseRefused` |
| | `confirmPayment`, `failPayment` | `ConfirmPayment`, `FailPayment` (one transaction), then `Follow` (`recomputeAndAdvance`, `markPaymentFailed`) |
| | a failed statement, a crash | `Fails`, `CrashAndRestart` |
| `LiveFeed` | `handleConnection`, `handleDisconnect` | the actions of that name |
| | `handleJoinKitchen`, `handleJoinBusiness` | `HandleJoin`, `CanAccessBusiness`, `Join` (with `scheduleExpiryDisconnect`) |
| | the timer; time | `TimerFires`; `TokenNearsEnd`, `TokenExpires` |
| `OwnerAccounts` | `register` | `Register`, then `SaveReclaim` or `InsertUser`, then `GenerateTokensForOwner` |
| | `verifyEmail`, `login`, `refreshTokens`, `logout` | `VerifyEmail`, `MarkVerified`; `Login`; `RefreshTokens`, `ClearSessions`; `Logout` |
| | `updateProfile`, `changePassword` | `UpdateProfile`, `SaveProfile`; `ChangeUserPassword`, `SaveUserPassword` |
| | business `create`, `remove` | `CreateBusiness`, `CommitBusiness`; `RemoveBusiness`, `CountRemaining`, `ClearHasBusiness` |
| `StaffAccounts` | `create` (three kinds), `acceptInvite` | `CreateWithPin`, `CreateWithPassword`, `CreateWithInvite`; `AcceptInvite`, `SaveAccepted` |
| | `verifyPinOrThrow`, `loginWithPassword`, `loginStaffBySlug` | `VerifyPin`, `WrongPin`, `RightPin`; `LoginWithPassword`, `SignPasswordToken`; `LoginStaffBySlug` |
| | `unlockStaff`, `changePassword`, `update`, `remove` | `UnlockStaff`, `SaveUnlocked`; `ChangePassword`, `SaveChanged`; `UpdateStaff`; `RemoveStaff` |
| `ModifierGroups` | create, update, delete of groups and modifiers | `CreateModifierGroup`; `UpdateModifierGroup`, `CommitGroup`; `AddModifierToGroup`, `InsertModifier`; `UpdateModifier`, `SaveModifier`; `Delete...` |
| `Menu` | CRUD of categories and products | the actions of that name; `SyncModifierGroups`, `SaveGroups` |
| | `updateProductAvailability` | `UpdateProductAvailability`, `WriteAvailability`, `EmitMenuAvailabilityChanged` |
| | a guest's page | `LoadMenu`, `HandleJoinMenu`, `HandleLeaveMenu` |
| `Images` | `upload`, `uploadImage` of a table, `remove` | `Upload`, `SaveImage`, `UpdateTableImage`; `Remove`, `RemoveRow`, `DeleteObject` |
| `DisplayPairing` | `create`, `regenerate`, `revoke` | `CreateDisplay`; `FindOwnedDisplay`, then `Regenerate` or `Revoke` |
| | the TV | `GetPublicSnapshot`, `HandleJoinDisplay`, `HandleLeaveDisplay` |
| `RequestGuards` | middleware, `RolesGuard`, `TenantAccessService` | `OwnerBegins`, `MemberBegins`; `Resolve` |
| | `PermissionGuard`, `FeatureGuard` | `ReadStaff`, `CheckPermission`; `CheckFeatures`; `OwnerPasses` |
| | what changes meanwhile | `UpdateMember`, `RemoveMember`, `SignsIn`, `UpdateFeatures`, `RemoveVenue` |

*Abstractions.*

* bcrypt, JWT and the hash of a display token are external: a password is a number, a token its
  holder, a display's token a number whose hash is one to one. Whether a refresh token matches
  is left open; a login with a wrong password changes nothing, a wrong PIN does.
* Time is what has passed, not a clock: a lock is running or over, an invite or a link valid or
  not, a payment stuck or not, a token fresh, ending or expired.
* `guesses`, `sessions`, `spent` and, in `RequestGuards`, `earned` and `offered` are history: how
  many wrong PINs a count stands for, which secret opened a session of which length, what the
  rows said at some moment since the request began.
* Names, prices, roles of staff (but in the guards), sort order, settings and e-mail are left
  out, and the lists of the public menu but for what they contain.
* Four routes stand for the combinations of guards in use: with permission and feature, with
  feature only, for all roles and for some.
* In `PaymentReconcile` all that follows a settled payment is one step; `OrderPayments` has it in
  full. A provider decides once and answers or throws. The poller finds no `providerName` on a payment,
  for it is no column, and asks `bank_redirect` for all: the payments of the module are that provider's.
* `EmailVerifiedGuard` is left out of `CreateBusiness`: its check is commented out
  (`src/modules/auth/guards/email-verified.guard.ts`, 29-34), though its doc, 7-11, says it
  blocks.

### OrderLifecycle

`OrderPayments` implements it (`ImplementsLifecycle`) with `status` the status column and
`settled` the orders with a confirmed payment that is not a guest's tip. The refinement holds
for the entry points that write orders only under the row lock (`LockedEntryPoints`); the
others (recorded staff payments, provider payments, retry, refund) save copies, and the runs
below show what that costs.

## 3. What TLC checks

Bounds common to all runs: one dine-in order of one session unless said otherwise, two
handlers in flight, two payments (three where said), amounts 1 or 2. Every race in this code
is between two handlers on one order or one session; a third handler is only a second
chance for one that has returned, since a handler id is reused. Two payments
allow a meal paid twice, or a queue payment beside a cash payment; three add a tip.
Handlers and payments are symmetric where no liveness is checked. Deadlock is not checked:
a closed order with no payment left is an end state of an instance.

| Run | Entry points | Properties | Shows |
|---|---|---|---|
| `all_entry_points` | all sixteen, handlers may die | `PaidMeansCovered`, `ConfirmedPaymentsAreFinal` | what survives every race, stale save and crash |
| `locked_entry_points` | those under the row lock, three payments, a money column of 0..2 so that sums overflow | `TypeOK`, `SettledOnce`, `TipCacheExact`, `SoldOnce`, `ImplementsLifecycle` | the lock is enough: settled once, counted once, cache exact, abstract life refined, transactions roll back whole on overflow |
| `served_is_settled` | guest and staff steps, payments accepted at once, no handler dies | `ServedReachesCashier`, `SettledSessionCloses` | nothing is forgotten after a commit |
| `double_close` | | `SoldOnce` violated | a duplicate confirmation's stale save reopens a closed order |
| `guest_sessions` | scans, guest orders, departures, manual reservations; two sessions of one table, two orders | `ClosedSessionHasNoOpenOrder`, `ImplementsOccupancy`, `SettledSessionCloses` | a session's promise, and that it closes, when only locked code writes it |
| `one_request_at_a_time` | all but manual reservation, one handler, three sessions, two orders | `JoinsFormNoChain`, `ReservedWhileOccupied`, `WaiterCallsAreAnswered` | the code keeps these claims as long as nothing races |
| `racing_joins` | joins, splits, waiter calls, acknowledgements, which may die; three sessions of two tables | `TypeOK`, `JoinedSessionsShareTheirTable` | no bill spans two tables, whatever races |
| `screens` | every status change and stale save of a dine-in order, a guest or the TV, handlers may die | `TypeOK`, `OnlyCommittedIsShown`, `DisplayShowsCommitted`, `WitnessesAreInStep` | screens follow the rows although events follow the commits, until one of the things below happens |
| `takeaway_stays` | one takeaway order | `DisplayShowsDisplayable` violated | a takeaway order closed from READY stays on the TV |
| `reload_refused` | one dine-in order, one guest | `ReloadResyncs` violated | whoever reloads after the last order has left the floor is refused |
| `back_office` | the nine modules of the back office, one or two requests of each | see below | copies, caches and checks of the smaller services hold whatever overlaps, but on the rows that history has marked |
| `feed_outlives_token` | one socket, one join, a token that may expire within it | `FeedsEnd` violated | a join that outlasts its token leaves the socket in the room, with no timer |

In the session runs three sessions are the fewest that can form a chain, and two that can
disagree about one table; the races are again between two handlers. That the three claims of
`one_request_at_a_time` hold with one handler and fall with two is the point of that run: each
of them is a read before an await that is used after it.

`screens` uses one order, one guest and one TV. The screens of two orders depend on each other only
through which order `join-session` picks (`latest`), whether the session closes, and the snapshot, which
takes each order as it is; what a guest sees depends on no other guest. Two orders or two guests exceed
the time a run may take, and so do guest and TV together: the constraint `OneScreen` has a behaviour
turn on one or the other, since neither changes anything the other or a handler reads. `View` leaves
`reached` out of the states with the TV on: only what guests are shown is judged by it. The proofs
have no such bounds. Handlers are symmetric.

`DisplayShowsCommitted` and `WitnessesAreInStep` speak of what a screen has followed. The code gives
up on the rest: a screen keeps a status that is not the committed one

* when another transition commits while an event of the order is unsent (the two may arrive in
  either order), or an event dies with its handler;
* when one of the four stale saves (`orders.service.ts`, 517, 701, 727, 743) rewrites the status: nobody
  is told of that;
* when the screen was not in its room at the commit, or the TV's snapshot was read before a commit
  and shown after its event.

A guest is corrected by the next event or a reload, the TV by the next event or the next snapshot: then
it has followed the order again.

The violations are disagreements between what a comment of the repository says and what the
code does; `PROJECT.json` quotes each under `findings`. More claims fall in two ways, by a save of a
stale copy or by a check that is not repeated under the lock. Each is among the hazards of `PROJECT.json`,
with what goes wrong: a staff payment overwrites a guest's tip, a guest cancels an order just
confirmed, a waiter cancels one the kitchen has started (a stale save has put it back), a failed
payment is confirmed, staff close a session while a guest orders, two joins form a chain, a join
erases a waiter call, a waiter call revives a closed session, a retried payment puts an order back
into a closed session.

*The back office.* The nine parts share no state. A behaviour of `MCBackOffice` therefore chooses
a desk at the start and works at it, so the run explores the sum of their state spaces and not
the product. PIN accounts and password accounts have a desk each for the same reason:
`StaffAccounts` never relates two rows.

| Property | Says |
|---|---|
| `TypeOK` | the types of all nine |
| `VerifiedKeepsPassword` | a verified account stays verified, and its password changes only by a request that gave the old one (`ownerRaced`) |
| `BusinessFlagExact` | between requests hasBusiness says whether there is a business, however removals race (`ownerRaced`) |
| `PinGuessesBounded` | two attempts at once never get more than `MaxGuesses` wrong PINs before a lock |
| `LateAnswersKeepTheLock` | an attempt that was answered late does not lift the lock of another |
| `LongTokenNeedsOwnSecret` | no temporary password opens a session of a day |
| `RemovedStaysRemoved` | a removed member, and an own password, are not undone by a request that writes late (`staffRaced`) |
| `FixedOnlyInSingle` | a fixed price is only in a group of which one is chosen (`groupRaced`) |
| `PagesOfferWhatIsAvailable` | a page offers nothing unavailable of what it has followed, but until the event under way |
| `RowHasObject` | whatever fails, a row has its object |
| `OneFollowsThePayment` | of all who tried to settle a payment one goes on with the order |
| `DecidedPaymentsAreSettled` | what the provider has decided is settled, through crashes |
| `FollowersAreTimed`, `FeedsEnd` | a socket in a staff room has its timer, and leaves with its token |
| `DeadTokensStayDead` | no order of regenerations and revocations revives a token |
| `CallsStayAtTheirVenue`, `JudgedByTheRows` | a request acts at its caller's business, on a permission and a feature the rows gave while it ran |

*Bounds.* Two requests at once on one row: each of these races is between two. `RequestGuards` has one
call, for calls share nothing but the rows, and the rows change at any time. With a
threshold of K two attempts at once allow up to K(K+1)/2 + 1 wrong PINs (`MaxGuesses`), seven for the
three of the run: one that is answered late writes back the count it has read, or answers when the
lock is set already. TLC finds one less violated for K from 1 to 5. Two
passwords allow an account and one reclaim or change; two businesses a
removal that leaves one; two modifiers a group with a fixed price and another; two images and two requests a removal
that meets an upload; three tokens a display that is regenerated twice. `BatchSize` is the number of payments,
one crash or failed statement meets every other step. One round and one handler may settle one
payment between them.

*What overlaps, and what that costs.* Everything overlaps in the run. Some overlaps do break a claim;
the property then speaks of the rows on which none of them has happened, so that it says exactly what
breaks it and what does not. Each is a hazard in `PROJECT.json`, at its line.

* `ownerRaced`, flag: profile, password and reclaim save whole accounts, hasBusiness included, over what
  creation or removal of a business has written; and a removal's last statement clears the flag that a
  creation has just set. Removals race with each other, and with everything else, without harm.
* `ownerRaced`, account: a save of the whole account that overlaps with `verifyEmail` writes
  the copy's emailVerified back. A reclaim among them also writes a password: it takes over an account
  that has just been verified, though `auth.service.ts` 174 says that a verified account owns its
  e-mail. A profile or a second password saved during a change of the password brings the old one back.
* `staffRaced`: accepting an invite, changing a password and unlocking save the whole row. Two of them, or
  one and a removal, that overlap undo a removal or a new password. Logins and PIN attempts write
  single columns and undo nothing, however late.
* `groupRaced`: an update of the group and the addition or change of one of its modifiers, where each
  passes the check on rows the other is about to replace.
* `followed` and `latest`: `updateProduct` writes isAvailable and tells no page; attaching groups saves the
  availability of its copy and tells none; and of two announcements the later may leave first.
* `ExpiryMeetsJoin = FALSE` leaves out of this run that a token expires within a join;
  `feed_outlives_token` has it TRUE. `FollowersAreTimed` is proved for both.

Two things keep the run within its time. `SomethingIsClaimed` does not go on from a state in which both
kinds of overlap have marked the only account: both properties of accounts have given it up by then.
The ids of requests are symmetric but at the desks `payments` and `feeds`, which have ids of their own: those
are the desks of the fairness conditions and the liveness properties, so symmetry touches neither.

*Fairness.* `FairSpec` assumes weak fairness of `Run(r)`: a handler suspended at an await is
resumed by the event loop once Postgres has answered, and no lock is held across steps, so
an enabled step stays enabled until taken. In `TableSessions` a lock is held across steps, but
its holder is never blocked, so that weak fairness of the waiting handler is enough:
the lock is released for good once the session is closed. Nothing is assumed of arrivals or of `Die`; the
liveness run has `MayFail = FALSE` because a process that dies between the commit and the
detached `openPaymentForCashier` does forget the order (the code has no recovery for it).

`ReconcileFairness` assumes that time passes, the cron fires (a round that can start does), and
that what has begun goes on. `Verify` has strong fairness: a payment comes up in one
round after another, and a provider asked again and again answers some time; that it may throw
each time for ever is the one thing excluded. Rounds choose their batch as they like; with no more payments than a
batch takes, which is the bound, that cannot starve one. Nothing is assumed of callbacks, staff or providers'
decisions. `FeedFairness`: time passes, an armed timer fires, and the queries of a join return.
Nothing is assumed of clients: no socket has to leave.

## 4. What is proved

For any sets of orders, payments, sessions and handlers and any amounts that satisfy
`ConstantsAssumption`:

* `TypeCorrect`: `Spec => []TypeOK`. The inductive invariant `TypeInv` adds that a handler in
  flight has an order in hand, that a payment it is going to insert fits its column, and that
  a PENDING payment belongs to an order; without them a handler might write a row for no
  order. One lemma per group of steps, one step per action.
* `ConfirmedIsFinal`: `Spec => ConfirmedPaymentsAreFinal`, from `TypeInv` and one lemma per way a
  payment row is written (inserted under an unused id, decided while PENDING, settled).
* `SettledAtMostOnce`: if `Enabled \subseteq LockedEntryPoints` then `Spec => []SettledOnce`.
  `SettledOnce` is not inductive: a second settlement is prevented by what each handler in
  flight knows, so the invariant `Inv` adds it. `LockedControl`: no handler is at an await
  of the unlocked methods. `AsksSafely`: a handler that settles an order asks for CLOSED,
  and none asks for REFUNDED in the name of the server, which skips the role check.
  `HoldsPayment`: the payment a closing handler holds belongs to its order and is no tip.
  `OneInsert`: an order being placed has one inserter. `PaymentsSound`: a payment belongs to
  an order, and a pending one is no tip. A settling step is then a step to
  CLOSED from an open status, hence of an unsettled order, and CLOSED is left only by the
  refund, which settles nothing. `double_close` shows that the assumption is needed.
* `PaidIsCovered`: if what clients post is for the order's total (`ClientsPayInFull`) then
  `Spec => []PaidMeansCovered`, for every entry point. An order row is often a stale copy saved
  back, so `PaidInv` speaks of the copies too: one that says PAID is of a covered order, a handler
  that closes an order holds a payment of its total (`HoldsEnough`), and so is every PENDING
  payment. Coverage is never lost, since confirmed payments are final. The assumption is needed: `POST /payments`
  takes any amount, and `closeWithPayment` says PAID whatever the PENDING payment it finds amounts to.
* `TipCacheIsExact`, `SoldAtMostOnce`, `LifecycleIsImplemented`: under the same
  `OnlyLockedEntryPoints`, `TipCacheExact`, `SoldOnce` and `ImplementsLifecycle`. One lemma says of
  every step what it does to the orders (`OrderEffect`): nothing, it inserts one, moves one along the
  graph, closes one with the payment that settles it, or counts what was sold. Each of these is a step
  of `OrderLifecycle` or a stutter. `SoldInv` adds that a handler with something left to count is the only one
  for its order, which is closed and uncounted; `TipInv` that payments are made for orders that exist,
  and each step either recomputes the tip under the lock or changes no confirmed tip.

`SumConfirmed`, the sum over an order's confirmed payments, is the number of its `Units`, pairs of a
payment and a unit of its amount. A recursive sum would need an induction over data; of a cardinality
the library's theorems say what is needed: more confirmed payments never sum to less, and a payment
is no more than the sum it is part of. The assumption `UnitsAreASum` of `MCOrderPayments` has TLC
check it against the fold that adds up the column.

For any sets of sessions, tables, orders and handlers that satisfy `SessionsAssumption`:

* `TableSessionsProofs!TypeCorrect`: `Spec => []TypeOK`; the invariant adds that a handler in flight has
  the table, session and root in hand that its next step uses.
* `JoinsStayAtOneTable`: `Spec => []JoinedSessionsShareTheirTable`, for every entry point and
  every crash. `JoinInv` adds what the handlers carry: the root a join has resolved to and
  the `mergedInto` of any copy waiting to be saved are at the table of their session. The
  code checks the table of the target only; that the root it resolves to is at the same table is
  this invariant.
* `GuestsAreNotEjected`: if `Enabled \subseteq GuestEntryPoints` then
  `Spec => []ClosedSessionHasNoOpenOrder`. `GuestInv` adds that no handler is at a step that saves
  a copy (`GuestControl`) and that while a transaction holds a session's lock it is closing
  it and no order of it is open (`LockMeansClosing`). The assumption is needed:
  `closeSession` does not take the lock, and `retryPayment` reopens an order, not its session.
* `OccupancyIsImplemented`: under the same assumption `Spec => ImplementsOccupancy`. The life of a
  session is its status column, so each statement is one step of `SessionOccupancy` or none;
  `OccupancyInv` adds that a locked session is active and that a guest's insert meets a
  session that was opened once.

The three claims of `one_request_at_a_time` are model-checked only: they fall with two handlers, and what
one handler at a time keeps is no theorem about the server.

For any sets of orders, guests and handlers that satisfy `BroadcastAssumption`:

* `OrderBroadcastProofs!TypeCorrect`: `Spec => []TypeOK`, and `OnlyCommittedShown`:
  `Spec => []OnlyCommittedIsShown`. One inductive invariant serves both: a row's status, what a
  handler is about to announce and what a joining guest has read were all committed
  (`RowsReached`, `JobsReached`, `SnapshotsReached`), and a handler in flight has an order.
* `DisplayIsRight`: `Spec => []DisplayShowsCommitted`. `BoardInv` strengthens it with what holds
  while an event is unsent: of an order the TV has followed it is the only one and carries the committed
  status, and one that closes a dine-in order finds it off the TV already, for it comes from DELIVERED.
  That is why order:paid may leave the TV alone; `takeaway_stays` shows that it may not when
  the order comes from READY. A snapshot on its way is right for the orders in `fresh`. `Callers` says which
  caller asks for which status, `Inserters` that an order being inserted has no row yet and one inserter.
* `WitnessesStayInStep`: `Spec => []WitnessesAreInStep`, on top of that invariant. `WitnessInv` adds that
  a witness is still in the room and shows the committed status unless an event of the order is
  unsent; a close by hand sends none, and needs none, as guests are shown DELIVERED and CLOSED alike.
  Both are about `Spec` as it is, stale saves, snapshots and deaths included: the conditions are in the
  properties, as history, and no theorem assumes them.

Of the back office, for any sets of rows, requests and actors that satisfy the assumption of the
module and, but for `GuessesAreBounded`, nothing else. Each theorem is from one inductive invariant that says what a
request in flight still knows of the row it has read, unless history says that it may have been
overtaken.

| Theorem | States | Beyond the module's assumption | The invariant adds |
|---|---|---|---|
| `StaffTypeCorrect`, `LockHolds`, `TemporaryIsShort` | types, `LateAnswersKeepTheLock`, `LongTokenNeedsOwnSecret` | | `StaffInv`: every row and every copy is `Consistent` (only PIN accounts lock, a temporary password must be changed), and a copy is of the kind its row is (`JobSound`) |
| `GuessesAreBounded` | `PinGuessesBounded` | `TwoRequests` | `PinSound`: the guesses so far are bounded by the lowest count in play, the row's or a copy's, and by how far the others are from it (`Leeway`) |
| `RemovalLasts` | `RemovedStaysRemoved` | | `RemovalInv`: of a row that is not raced one request at most will save a copy (`MetIsKnown`); that row is live, and a copy `unlockStaff` will save has its password (`Fresh`) |
| `FlagIsExact`, `PasswordIsKept` | `BusinessFlagExact`, `VerifiedKeepsPassword` | | `OwnerInv`: no pair of races is under way on an account that is not marked (`Separate`), so what will be saved whole has the flag the row has (`Knows`); a flag without a business has a removal under way, and a removal that counted none finds none (`FlagSound`) |
| `OwnerTypeCorrect`, `GroupTypeCorrect`, `MenuTypeCorrect` | types | | the invariants of these modules |
| `NoDanglingRow` | `RowHasObject` | | `ImageInv`: an uploaded key without a row is one request's only; a key whose row is deleted never gets one again (`KeySound`) |
| `FixedPriceIsAlone` | `FixedOnlyInSingle` | | `GroupInv`: what a request has checked of a group that is not raced still holds (`StillAllowed`) |
| `PagesAreRight` | `PagesOfferWhatIsAvailable` | | `MenuInv`: an announcement in `latest` carries the availability of the row (`CopyIsFresh`), and a page has followed products only while in its room (`ShowsRows`) |
| `PairingTypeCorrect`, `TokensStayDead` | types, `DeadTokensStayDead` | | types alone: the copy that `revoke` saves is a revoked one |
| `EveryFollowerIsTimed` | `FollowersAreTimed` | | `FeedInv`: a join under way has a token that lives, or one that may expire within it |
| `CallsAreAtHome`, `RowsDecide` | `CallsStayAtTheirVenue`, `JudgedByTheRows` | | `GuardInv`: a call past the tenant check is at its venue, and what it has read or has been offered the rows did say while it ran (`UpToDate`, `ReadEarned`) |
| `OneStepIsOwed` | `OneFollowsThePayment` | | `ReconcileInv`: who follows an unsettled, followed or lost payment: nobody (`OneOwes`) |

`GuessesAreBounded` holds for every threshold. Two attempts that overlap share the count, and the one
answered late sets it back to what it has read plus one. The lowest count in play grows by one with every
such pair, and until it does the other copy is worth its distance from it: hence the triangular
number. `TwoRequests` is needed: a third request can hold an old copy while the other two go on.

Each of these theorems is about a part's own specification (`StaffSpec`, `MenuSpec` and so on).
`PartsAreImplemented` carries them over to the whole: the `Spec` of `MCBackOffice` implements all nine,
their fairness included, since a step at any desk is a step of one part and leaves the variables of
the others alone. From it and the type theorems follows `BackOfficeTypeCorrect`: `Spec => []TypeOK`,
with the assumptions on the constants and no other.

Every invariant and every action property that a passing run checks is stated by a theorem, as are both
refinements, except the three of `one_request_at_a_time`. Only model-checked besides these is liveness
(`ServedReachesCashier`, `SettledSessionCloses`, `DecidedPaymentsAreSettled`, `FeedsEnd`): it rests on
fairness, and so on ENABLED, which the prover does not handle. That `SumConfirmed` is the sum of a
column is checked on the bounded tables of `UnitsAreASum`: it is an induction over data.

## Not modelled

* Prices: the order total from products and modifiers is one constant; what the rule on fixed prices
  protects, that a total has one meaning, is not computed.
* The idempotency key of a tip across orders, and what the loser of a race for it reads in an aborted
  transaction: that is Postgres' behaviour.
* Which refresh token matches, and the grace window after a rotation.
* `business-access` and `business-owner` guards, which repeat the checks of `RequestGuards` for single
  routes, `TenantInterceptor` and the rate limits.
* The cooldown of waiter calls (one synchronous step) and tip events. Payment methods of a
  business and the order of a product's images, which are single-row CRUD.
* A change of an owner's address, e-mail, cookies, the settings of a business, employee ids.
* Health, configuration, migrations and seeds: no state of their own at run time.

## 5. What is left

1. Prices: the total as folds over products, modifiers and groups, checked against a reference
   definition.
2. The rotation of refresh tokens with its grace window. bcrypt reads 72 bytes of a token, so a
   model has to compare what bcrypt compares, not the tokens.
3. The idempotency key of tips across orders.
4. Proofs: what is left is liveness. `TipCacheIsExact` could be stated for a larger set of entry points:
   those that only leave the columns in question alone.
5. The expiry of a table session (`expiresAt`) and of the guest token that carries it.
