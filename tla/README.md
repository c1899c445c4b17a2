# Homestay booking management: a TLA+ development

This directory models the NestJS/MySQL backend under `src/src` in TLA+. TLC checks the models on small
instances and TLAPS proves the most important properties for all instances. Paths below are relative to
`src/src` of the repository unless they name a file of this directory.

## 1. The system

One Node process (or several behind a load balancer) serves REST, two cron jobs and a WebSocket namespace,
and keeps everything that matters in one MySQL schema. VNPay, the payment gateway, is outside: customers pay
on its pages, it reports by IPN, and the server sends it refund and query commands.

| component | state | operations | why it is hard |
|---|---|---|---|
| booking lifecycle (`module/booking/booking-lifecycle`, `booking-payment-lifecycle`, `booking-expiration`) | `bookings`, rows of `room_calendar`, `rooms.status` | status changes by staff, cancellation by the customer, expiry cron, check-in and check-out | five ways to end a booking, each has to fix payments and nights too |
| payment collection (`module/payment/payment-collection`, `payment-manual`, `payment-expiration`) | `payments` | start a VNPay attempt, manual payment, IPN, expiry cron | IPNs come late, twice or never; two attempts may both be paid |
| refunds (`payment-refund`) | `payment_refunds`, `payments` | manual refund, VNPay refund, duplicate-charge refund, reconciliation | the gateway is called between two transactions; crash and timeout leave the outcome unknown |
| booking creation (`booking-creation`) | `bookings`, `customers`, row locks, read views | create for a customer, for a known or a new customer at the counter | REPEATABLE READ snapshots against limits; retries with one Idempotency-Key; lock order |
| room calendar and room status (`room-availability`, `room-mutation`) | `room_calendar`, `rooms` | block, unblock, set status; create, update, delete a room | races with bookings and check-ins |
| room images (`room-image`, `room-image-storage`) | `room_images`, files | upload, delete, set cover; delete the room | cover choice under snapshots; file and row can part |
| chat (`module/chat`) | conversations, messages, read states; sockets and timers in memory | send, mark read, poll, inbox; connect, revalidate, disconnect | creation race, resends, numbering; "unread" is written three times; asynchronous handshakes |
| accounts (`module/auth`, `module/customer`, `module/user`, `common/authorization`) | `customers`, `users`, `customer_auth_identities`, token versions, `audit_logs` | log in, register, log in with Google, change profile or password, lock, unlock, edit staff; the phone script | a token is signed after an await on a row read before; uniqueness across tables, spellings and old forms |
| catalog (`module/room-type`, `module/amenity`, `room-mutation`) | rooms, room types, amenities and their links | add, move and remove a room; delete, restore and link types and amenities | soft deletion against references that no foreign key guards |
| lists (`room-query`, `booking-query`, `payment-query`, the admin services) | none | search for rooms; page through bookings, payments, accounts, types, amenities, conversations | several statements without a transaction; SQL and TypeScript decide the same thing |
| guards (`common/http/rate-limit.guard`, `common/health`) | counters and one probe in memory | admit a request; probe, time out, shut down | callbacks that arrive late |
| controllers, DTOs, normalisation, configuration, OpenAPI, migrations, seeds | none that a decision reads | read or format | not modelled |

The components meet in the database. Booking, payment and refund services lock the booking row first, so that
their transactions on one booking are serial; the calendar is kept consistent by the unique key
`(room_id, stay_date)`; `npm run data:audit` (`database/data-audit.ts`) states in SQL what the tables must
satisfy, and most invariants here are those checks, stated of every reachable state.

What makes each component correct:

* bookings own exactly their nights; no room is occupied by nobody, and no guest who is checked in loses the room;
* a booking's payment status agrees with its payments, the accepted payment is chosen once, money the gateway
  took is on record or can still be recorded, and a payment is refunded only if the gateway gave it back;
* a customer's limits hold at every commit, a retry gets its booking, a locked account books nothing, and
  every request is answered;
* unpaid bookings and open attempts end;
* a key stands for one request: a payment or refund comes into being once, a retry is answered with it, and
  VNPay is told "confirmed" only of what is on record;
* a token the API takes proves a credential that is valid now; no two customers have one phone; the audit log
  tells the status of an account; a Google login adopts no account;
* a room with images has one cover, no image row lacks its file; nothing in use refers to something deleted;
* what a search offers can be booked, its pages hold all of it, and no list loses a row between two pages;
* messages of a booking are numbered without gaps, stored once however often they are resent, and read markers
  only go forward, the three ways to count the unread ones agree; an actor's sockets stay within the limit, give their
  slots back and end when its tokens do;
* a health probe ends and gives its connection back once; a rate limit admits no more than it says.

## 2. Modules

| module | what it is |
|---|---|
| `BookingPolicies` | the enumerations and the pure decisions (transition policy, refund policy, duplicate detector, room transition policy, reading of VNPay answers) |
| `BookingPayment` | bookings, payments, refunds, calendar, rooms, the wire to VNPay, VNPay itself and the clock; one action per service transaction |
| `StayContract` | abstract specification: what a booking promises to its guest and to the owner |
| `BookingPaymentProperties` | type invariant, invariants, action and liveness properties, the refinement of `StayContract` and the inductive `MoneyInvariant` |
| `MCBookingPayment` + `calendar.cfg`, `money.cfg`, `progress.cfg`, `lineage.cfg`, `occupancy.cfg` | instances for TLC |
| `BookingPaymentProofs` | types, the calendar, the money and the accepted payment, manual changes of a room's status, the data audit |
| `BookingGatewayProofs` | what VNPay captured and refunded, open attempts, the refinement of `StayContract` |
| `BookingCreation` | `createBooking()` statement by statement, with row locks and read views |
| `BookingCreationProperties` | its properties and the inductive `CreationInvariant` |
| `MCBookingCreation` + `limits.cfg`, `answers.cfg` | instances for TLC |
| `BookingCreationProofs` | all safety properties of booking creation |
| `BookingChat`, `BookingChatProperties` | the conversation of a booking: locks, messages, read markers, readers; and its properties |
| `MCBookingChat` + `chat.cfg`, `first_messages.cfg` | instances for TLC |
| `BookingChatProofs` | numbering, resends, read markers, pages and the creation race |
| `ChatGateway`, `ChatGatewayProperties` | sockets, slots, timers and transports of the gateway; and its properties |
| `MCChatGateway` + `sockets.cfg` | instance for TLC |
| `ChatGatewayProofs` | the connection limit and the return of slots |
| `Accounts`, `AccountsProperties` | accounts, credentials, tokens, audit records and the phone script; and their properties |
| `MCAccounts` + `accounts.cfg` | instance for TLC |
| `AccountsProofs` | tokens, audit records, phone numbers and Google identities |
| `RoomImages` | image rows and files |
| `HealthProbe`, `RateLimiter` | the readiness probe with its pool; the buckets of the rate limit |
| `Catalog` | rooms, types and amenities under row locks |
| `RoomSearch` | the four lists of rooms against bookings, blocks and edits |
| `Listings` | every other list, read page by page |
| `VnpayNotifications` | IPNs statement by statement, and what VNPay does with the answer |
| `PaymentRequests` | requests for payments and refunds with their Idempotency-Keys |
| `ChatInbox` | the list of conversations with its counts and filters |
| `MCBackoffice` + `backoffice.cfg` | the nine modules above, from `RoomImages` on, in one run |
| `RoomProofs` | `RoomImages`, `Catalog`, `RoomSearch` and `Listings` |
| `BackofficeProofs` | `VnpayNotifications`, `HealthProbe`, `PaymentRequests`, `RateLimiter` and `ChatInbox` |

### BookingPayment and the code

`booking`, `payment`, `refund`, `calendar` and `room` are the tables, one record per row, with the columns the
decisions read. A payment is named by its idempotency key, because `uq_payments_idempotency` makes a second
row with the key impossible and a replay returns the first one. `deadline` is `payment_expires_at` /
`expires_at`; the legacy rule (NULL deadline: creation time plus timeout) is the same deadline. `call` and
`queries` are what is in flight between a refund's two transactions; `charge` and `gwRefund` are VNPay's own
state, external, and VNPay is assumed to report truthfully what it did.

Each service method that changes state is one action: `CreateBooking`, `CancelForCustomer`,
`UpdateBookingStatus`, `ExpireUnpaidBookings`, `CreateVnPayPayment`, `RecordManualPayment`,
`ExpirePendingOnlinePayments`, `VnPayIpn`, `RefundManual`, `PrepareVnPayRefund`, `ApplyVnPayRefundResult`,
`ApplyVnPayReconciliation`, `BlockDates`, `UnblockDates`. They are atomic because the code runs each in one
transaction that starts with `SELECT ... FOR UPDATE` on what it decides about. What the code does not do
atomically is several actions: `PrepareVnPayRefund`, `SendRefund`, the gateway's answer and
`ApplyVnPayRefundResult` are four steps between which anything may happen, `LoseRefundCall` is a crash, a broken
connection or `withVnPayDeadline()`, and `QueryRefund` / `ApplyVnPayReconciliation` are separate because
`reconcileVnPayRefund()` reads the status without a lock and applies the answer later. The manual change of a
room's status (`RoomMutationService.updateStatus()`) decides about rows it locks in two statements, at READ
COMMITTED, and is three actions: `LockStayBookings` locks the bookings of the room that are CONFIRMED or
CHECKED_IN now and remembers whether a guest is checked in, `UpdateRoomStatus` locks the room, decides by its
newest status and that memory, and commits, or `EndStatusChange` gives up. `statusChange[r]` is what is in
between; `Unlocked(b)` is the guard of every action that locks a booking. A booking that was not locked may be
paid and checked in meanwhile. Requests the code rejects, and replays that write nothing, are stutters. A cron
run takes any batch of the allowed size instead of the rows with the lowest ids, which allows more than the code
does.

### BookingCreation and the code

One record of `stage` per request: the lookup before the transaction, the customer (locked for customers, read
for staff, inserted for a new one at the counter), the second lookup and the limits, the room lock, the insert,
the calendar and the commit, and the lookup in the catch block. `view` is InnoDB's read view: the first
consistent read of a transaction fixes it, locking reads see the newest rows. `WaitsFor` is the lock table:
customer row (exclusive, or shared through `bookings_ibfk_1`), phone key, room row, intent key. `Fail` is a
refusal by a check that is not modelled, a database error or being chosen as deadlock victim. `LeaveUnpaid` is
the rest of the system (payments, cancellations, crons), which never locks the customer.
`BookingPayment!CreateBooking` is the atomic view of the same method.

### BookingChat and the code

`conversation`, `messages` and `marker` are the committed rows of one booking's conversation. A request takes
one step to its locking read (`LockConversation`), one for the insert of a missing row and one for the rest of
its transaction with the commit, because that rest runs under the row lock; `StoreMessage`, `FindMessage` and
`RefuseMessage` are the outcomes of `persistMessage()`, `AnswerSend` is what `sendMessage()` does after the
commit. `LoseSend` is a crash or lost connection at any point; the client's resend is another request with the
same `clientMessageId`. `seen` is the code's local `conversation`. `gapLocks` is the isolation level: at
REPEATABLE READ a locking read that finds nothing locks the gap, at READ COMMITTED it does not. A reader's fetch
is two steps since `listMessages()` runs two statements outside a transaction; that a client asks for what lies
before its oldest or after its newest message is an assumption about clients. Access checks read rows that
these requests do not change; Socket.IO signals carry no data (`chat-realtime.service.ts:8-11`).

### ChatGateway and the code

`actorSockets`, `watched` (`pendingHandshakeCloseListeners`) and `ticking` (`revalidationTimers`) are the maps of
the gateway, `reserved` the sockets with a `chatReservation`. An action is what runs between two awaits or
events. `ResolvePrincipal` and `CheckPrincipal` read the account; `Revoke` is any change that makes its tokens
useless. Engine.IO and Socket.IO are external: a transport goes from open to closing to closed and emits
`close` once; a socket in middleware gets no disconnect of its own; `handleConnection()` may or may not be called
for a transport that has just closed. One revalidation per socket is under way at a time.

### Accounts and the code

`row` holds both tables, customers and users, with e-mail, phone (number and stored form), password (a name for its
hash), `tokenVersion`, status and role; `identity` is `customer_auth_identities`, `audit` the records of status
changes, `tokens` every token handed out with the credential it was obtained by. A request is a step per statement or
transaction: `FindAccounts` reads, `AnswerLogin` verifies the hash and signs from what was read;
`AssertContactAvailable` reads, `UpdateMe` saves and meets the unique keys; `LockAccount` locks a row, then
`ChangeOwnPassword`, `SetInitialPassword`, `SaveStatus` or `UpdateUser` is the rest of the transaction with its
commit. `GoogleTransaction` to `GoogleCreate` are the transaction of `loginCustomerWithGoogle()`, whose locking read
compares `LOWER(email)`, which has no index; at REPEATABLE READ it holds the whole table (`scanHolder`) and two of
them deadlock (`GoogleDeadlock`). `Preflight`, `LockTable` and `ApplyPlan` are `normalize-phone-data.ts`. `Resolves`
is the actor guard: exists, active, same version, role allowed.

### PaymentRequests, VnpayNotifications and the code

`BookingPayment` lets a request happen in one step, because transactions on one booking are serial. What that hides is
in these two. `PaymentRequests`: a key that is free at its lookup and taken at the insert, across bookings
(`LookUpKey`, `LookUpKeyLast`, `CreatePayment`, `ResolveIdempotencyConflict`), and a refund whose process dies between
its two transactions and is retried with its own key (`PrepareVnPayRefund`, `ApplyRefundResult`, `Reconcile`,
`ApplyReconciliation`). A request to resolve a duplicate charge must find the payment it duplicates in SUCCESS before
its key is looked at (`MayResolve`), and is `denied` otherwise. `VnpayNotifications`: the snapshot before the
transaction, the locks, the commit and the answer of an IPN, several handlings of one notification at a time, failures
and crashes at each point; `told` is what VNPay believes to be settled. Booking and money have in both only the
columns these decisions read.

### The other modules and the code

* `RoomImages`: a file is written before its row (`Store`, `CreateImage`) and unlinked after the commit of a delete
  (`DeleteManaged`). A write that fails may leave a part of the file, which nobody removes: `store()` is called
  outside the `try` that cleans up, and such a request ends as `broken`; `snapshot` is the read view fixed by the
  first lookup, `roomHolder` the lock of the room row. `Commit` may lose its answer, `Crash` forgets all requests.
* `Catalog`: `Wanted` is the rows a request locks and `LockedBefore` the code's order among them (table by table,
  amenities by id); `listed` is what it read before it locked (the links of a type to be restored). The rest of each
  transaction is one action.
* `RoomSearch`: `Ask` is the statement that finds the numbers of a page, `FetchRooms` the one that reads their rows
  with the same filter, `GetCalendarSummaries` the third of the management list. `CanBeBooked` is what
  `createBooking()` checks, translated from that code and not from the search. The lists of rooms are ordered by
  columns of the joined images too, and TypeORM takes the ids of a page from the DISTINCT ids and ordering columns:
  a room has a place in the order per image (`Places`), and `Page` is the rooms of the places on it.
* `Listings`: `Members` and `Precedes` per list are the WHERE and ORDER BY of each service; a walk reads one page per
  step, and rows are added, changed, deleted, restored and moved between the steps. Room types are ordered by joined
  amenities and beds as well, so a type has a place per pair of them (`width`), which edits change.
* `ChatInbox`: the two statements of `listConversations()` and the three SQL texts for "unread".
* `HealthProbe`: one action per callback; `GiveBack` is what the pool does with a connection, external, and a probe's
  `Finally` comes some turns after it has finished. `RateLimiter`: `CanActivate` with its sweep, and the clock.

## 3. Runs

| run | instance | shows |
|---|---|---|
| `calendar` | two bookings of one room sharing a night, two payments, blocked dates, both roles | `CalendarMatchesBookings`, `GuestsKeepTheirRooms`; every step is a step of `StayContract` or changes nothing it sees |
| `money` | one booking, two payments, two refund keys, one query under way (1,160,545 states) | `BookingAgreesWithPayments`, `CapturedMoneyIsNotLost`, `OpenAttempts`, `RefundMatchesGateway`, `PaidStayIsHonoured` |
| `progress` | two bookings that may both be overdue, an attempt, batch limit 1, fairness of the clock and the crons | `OverdueIsClosed`: unpaid bookings and open attempts end |
| `lineage` | one booking, two payments | the audit's payment-lineage check is violated (section 6) |
| `occupancy` | one booking, one payment, one room | the audit's room-occupancy check is violated: `RoomOccupancyAgrees` (section 6) |
| `limits` | five requests by customers and staff, for known and new customers; a retry, a key reused, the account locked and unlocked | `LimitsHoldAtCommit`, `RetryFindsItsBooking`, `LockedAccountBooksNothing`, `AnswersAgree` |
| `answers` | customer and staff requests with opposite lock orders | `RequestsAreAnswered` |
| `chat` | four sends (a resend, another text, a support user with the same `clientMessageId`) and two read markers of one actor, at both isolation levels; or a reader with pages of two, in both directions, while three messages are stored | `ConversationMatchesMessages`, `ResendsFindTheirMessage`, `CreationRaceSparesOne`, `MarkersFollowMessages`, `PagesAreComplete`, `EveryRequestEnds` |
| `first_messages` | two sends, no conversation yet, REPEATABLE READ | `CreationRaceIsResolved` is violated (section 6) |
| `sockets` | three sockets of one actor, two slots | `ConnectionsWithinLimit`, `SlotsAreHeldByLiveSockets`, `RevokedActorsAreDisconnected` |
| `accounts` | any three of twenty-four requests arrive together, with and without gap locks; one customer with a password, one of the counter whose phone has an old form, one deleted, an administrator, room for one more of each | `UsableTokensProveCredentials`, `OnePersonPerPhone`, `AuditTellsStatus`, `GoogleNeverAdoptsAccount` |
| `backoffice` | nine components that share no state; a behaviour follows one of them (`focus`) | per component, see below |

| component of `backoffice` | instance | shows |
|---|---|---|
| images (116,000 states) | a room with two images; two uploads, a delete, a new cover and the deletion of the room, crashes and failures | `CoverIsUnique`, `FilesMatchRows` |
| probe (4,000) | three checks, three connections, shutdown | `LeaseEndsWithProbe`, `ProbesEnd` |
| limiter (10,000) | two handlers, limits 2 and 1, windows 2 and 4 | `AdmissionsBounded` |
| catalog (20,000) | any three of eleven requests, or the five that restoring a type twice needs | `ReferencesHold` |
| search (26,000) | three rooms, one with two images and one with none, two types, eight queries, two changes, midnight | `OffersCanBeBooked`, `PagesHoldWhatCanBeBooked` |
| notices (78,000) | two attempts, two handlings at a time, odd notifications | `ToldMeansRecorded` |
| requests (72,000) | seven groups of two to five requests out of sixteen, among them two to resolve a duplicate charge whose accepted payment is refunded | `KeysAnswerOnce`, `RefusalsAreTrue` |
| lists (16,000) | thirteen walks over nine lists, three rows, one that comes, two changes | `WalksMissNothing` |
| inbox (14,000) | two customers and a support user, two messages | `InboxAgrees` |

`backoffice` is a sum, not a product: no module of it reads what another writes, so a joint behaviour is an
interleaving that shows nothing more. What is interesting in each is its own interleavings, which are complete.

Bounds. `MaxTime` stops the clock and nothing that times out starts too late to time out within it; `Timeout` and
`TicksPerDay` are small but leave room for "before", "at" and "after" a deadline and for days inside and outside a
stay. Two bookings are enough for a conflict over nights, two payments for a duplicate charge and for a late success
next to an accepted one, two refund keys for a foreign key; a booking's payments interact only through their booking.
One manual change of a room's status is under way at a time. `BatchLimit = 1` makes a cron leave rows behind.
`MaxQueries` bounds reconciliations under way; the second one only repeats the first. In `BookingCreation` three
requests suffice for any pair of racing requests plus a bystander that uses up a limit. Payments and refund keys are
interchangeable (`SYMMETRY` in runs without liveness). The creation runs end when every request is answered, so their
cfgs say `CHECK_DEADLOCK FALSE`; so does `progress`, where the clock stops at its bound, and so do the chat runs,
`sockets`, `accounts` and `backoffice`, where every request is answered or every transport closed in the end. A fifth
send or a third marker repeats what four and two do; readers take no locks, so they need not be in one behaviour with
resends (the two scenarios of `MCBookingChat`); pages of two leave a part of three messages on either side; three
sockets compete for two slots, and slots of different actors are independent. In `accounts` three requests are one
that reads, one that overtakes it and a bystander that takes a name or a number; `MCArrivals` adds the triples with a
request that only reads. In `backoffice` the bounds are two of everything that competes: two images for one cover, or
for two places of one room in a search, two handlings of one notification, two amenities and types, a page of one or
two rows out of three, room types of one to three places; `MaxChanges` and `MaxEvents` are two, so that one change can
undo or hide another; `LastTick` is 6, one window of the slow handler and a half.

Fairness. Both crons are `EVERY_MINUTE` with `waitForCompletion`, and enabled unless
`EXPIRATION_SCHEDULERS_ENABLED` is false: weak fairness of the two cron actions and of `Tick`, and of nothing
else (no IPN, no operator, no answer needs to come). In `BookingCreation` every request handler is weakly
fair, a Node process continues what the database answers; and InnoDB's deadlock detection rolls some member of
a waiting cycle back. Other failures are possible but not assumed. In `BookingChat` some request whose
statement can run does so, which is weaker than fairness of each; in `ChatGateway` timers fire and lookups end,
but no transport has to close and no handshake has to finish. In `HealthProbe` timers
fire and the `finally` of a check comes; neither the pool nor the database has to answer.

Every property has a mutant in `PROJECT.json`: a plausible slip in one definition (a dropped guard, a missing
release, a lookup at the wrong place) under which its run fails.

## 4. Proofs

All for arbitrary constants that satisfy the named assumptions, which TLC evaluates in every run. These say that
identifiers of different things differ, that bounds are natural numbers, that the tables and the initial rows are
finite and well typed, and what a request must contain, as the input checks of the handlers enforce it. Two of them
are more than typing: a request for a refund names a payment and no other request does (`PaymentRequestsAssumption`),
and amenities have different ids (`AmenityId`, injective: a primary key).

No safety invariant is inductive as the runs check it. For each the module has one that is, most often because a
property of two rows needs to know what a request that holds a lock has read, and that it still holds.

* `BookingPaymentProofs`, in five parts.
  Types: one lemma per group of actions (`TypeCorrect`).
  Calendar: `CalendarMatchesBookings` is inductive given types; every action either leaves status and calendar of each
  booking alone, takes all its nights, or ends it and releases them (`CalendarAlwaysMatches`).
  Money: `BookingAgreesWithPayments` is not inductive: that a reviewed payment cannot become the booking's money needs
  its reason, that a restored payment is the accepted one needs the refund's `previous` status. `MoneyInvariant` adds
  these, per booking and per payment (`MoneyInOrder`; from it `BookingsAgreeWithPayments`,
  `PendingRefundAlwaysFreezes`, `AcceptedPaymentIsFixed`).
  Rooms: `ChangeInvariant` says that a manual change knows of each booking it has locked whether its guest is in the
  room, because nobody else moves a locked booking (`ChangesKnowWhatTheyLocked`). With the calendar, which keeps two
  guests out of one room, that gives `GuestsAlwaysKeepTheirRooms`: no room is OCCUPIED by nobody, and one stops being
  OCCUPIED only because a guest of it checks out, or by a change that locked before any of its guests was confirmed.
  Audit: five checks of `data-audit.ts` and the first half of room-occupancy never report a row
  (`AuditNeverFindsAnything`), for which a refunded payment and a second charge need a booking that was paid for
  (`PaidOnce`), a fact that is not in the tables. With `lineage` and `occupancy` this says which checks of the audit
  can be trusted.
* `BookingGatewayProofs`. `GatewayInvariant` says of each payment what the rows must be for what VNPay has done and
  for each answer that is still under way: only a VNPay payment is charged, a recorded one was captured, a failed one
  was closed by us or declined; nothing is asked of VNPay before the refund is on record, its request leaves at most
  once, and no answer under way contradicts what VNPay decided. From it, with `MoneyInvariant`:
  `RefundsAlwaysMatchGateway` and `CapturedMoneyIsNeverLost`. `OpenAttempts` is inductive given types
  (`AttemptsStayExclusive`): whoever ends an unpaid booking closes its attempts. `PaidStayIsAlwaysHonoured` goes
  through the actions that end a booking. `StayContractIsKept` is the refinement of `StayContract`, action by action:
  the initial states map to initial states, and each action is a step of the contract or leaves its view unchanged;
  that a booking is only confirmed when its money is kept, and only ends with its refund, comes from the calendar and
  money invariants.
* `BookingCreationProofs`. `CreationInvariant`: while a customer's transaction holds the customer row, the unpaid
  bookings it has read are a superset of the real ones (others may only leave), so a limit that held for the
  read view holds at the commit; and holders of one customer, phone or intent exclude each other.
  From it: `LimitsAlwaysHold`, `LockedAccountsBookNothing`, `RetriesFindTheirBooking`, `AnswersAlwaysAgree`.
* `BookingChatProofs`. `ChatInv`: only the holder of the row is past its locking read, and what it has seen of the
  conversation is what is committed; so the next number is free. From it, at either isolation level:
  `ChatTypeCorrect`, `ConversationAlwaysMatches`, `ResendsAlwaysFindTheirMessage`, `MarkersOnlyGoForward`.
  `CreationRaceAlwaysSparesOne`: a send that tries again finds the row that made it do so, since it is never deleted,
  and so never tries a third time; and a deadlock of inserts fails one send for another that still holds its lock.
  `PagesAreAlwaysComplete`: what a reader holds is a stretch of the numbering, which has no gaps, and the
  `lastSequence` it was told is one that existed.
* `ChatGatewayProofs`. `GatewayInv`: a socket in a handshake is watched until its transport closes, a reservation
  belongs to a socket that is watched or connected, and the slots of an actor never exceed the limit. From it:
  `GatewayTypeCorrect`, `LimitAlwaysHolds`, `SlotsAlwaysComeBack`.
* `AccountsProofs`. What a request has read of an account, or a token says of it, is what the account still has, or
  the account's version is higher by now: every change of password or status raises it, under the lock of the row
  (`UsableTokensAlwaysProveCredentials`). Records of the audit log are written with the status they tell of, under
  that lock (`AuditAlwaysTellsStatus`). For phones: old forms only vanish, and who stores a number has seen that no
  old form of it is there (`OnePersonPerPhoneAlways`). `GoogleAdoptsNoAccount` and `AccountsTypeCorrect` besides.
* `BackofficeProofs`. Notifications: what VNPay decided is on record when it is told so, and stays
  (`NotificationsAlwaysRecorded`). Probe: each connection is pooled, wanted or leased to the probe that runs, which
  gives it back in every order of callbacks (`LeaseAlwaysEndsWithProbe`). Payment requests: whoever has written a key
  and not yet committed keeps others from writing it, the lock of the booking keeps a payment about to be refunded as
  it was found, an accepted payment and one reviewed as its duplicate stay what they are (`CanonicalInv`), and whoever
  is answered with a payment has asked for it (`KeysAlwaysAnswerOnce`, `RefusalsAreAlwaysTrue`). Rate limit: the
  admissions of a key fall into windows of at most `Limit`, each of which ends before the next begins, whoever sweeps;
  any `2 * Limit + 1` of them span a whole one (`AdmissionsAlwaysBounded`). Inbox: between the two statements of an
  answer messages only come, and a marker its reader moves is noted (`InboxAlwaysAgrees`). The badge is a count and
  the list a sum over conversations; that they agree is `SumOfCounts`. The induction theorems of the library cannot be
  applied to the fold behind the sum; but the function that counts the messages of each set of conversations solves
  its recursive equation, and a smallest set on which two solutions differ does not exist.
* `RoomProofs`. Images: a file whose creation may still commit has no row, what a transaction will delete it has seen,
  and every file is a row's or some request's business; the next cover exists because places are well-ordered
  (`FilesAlwaysMatchRows`, `CoverIsAlwaysUnique`). Catalog: a row that was locked and found not deleted stays so while
  it is locked, since a deletion locks what it deletes (`ReferencesAlwaysHold`). Search and lists rest on one lemma,
  `PlacesFill`: in a total order of finitely many rows the ranks are 0, 1, ... without gaps, by the pigeonhole
  principle. `PagesAlwaysHoldWhatCanBeBooked` applies it to the places of a search, whose order ends with the unique
  number of the room and the image, `OffersCanAlwaysBeBooked` to nothing but the filters. `WalksAlwaysMissNothing`:
  the first place of what a walk has not seen stands behind the pages it has read, because rows that come or move to
  the front only push it back, and a page that is not full (for room types: empty) is the last.

`TypeOK` of each of these models is a theorem and not part of a run, and so are `PendingRefundFreezesBooking` and
`AcceptedPaymentFixed`, whose statements are in `BookingPaymentProperties`.

`AuditTellsStatus` had to be restated for the proof: as it was, it took the first status of an account that does not
exist yet from `Existing`, which is right in the instance only, and left the last status of such accounts unchecked.
Now `StatusBefore` says that accounts are created ACTIVE, and the last status is checked of every account.

Only model-checked are the liveness properties, `OverdueIsClosed`, `RequestsAreAnswered`, `EveryRequestEnds`,
`ProbesEnd` and `RevokedActorsAreDisconnected`: ENABLED and fairness are out of the prover's reach.

## 5. Assumptions

MySQL at REPEATABLE READ with row locks and deadlock detection (`RoomMutationService.updateStatus` alone uses
READ COMMITTED); transactions are atomic and durable; the clocks of the processes agree; VNPay is truthful
when its answer verifies. Unverified answers, slow answers, lost calls and lost or repeated IPNs are modelled.
VNPay decides each reference once: an attempt it has reported as failed is not paid later. A password is its hash
and a hash verifies its password only; tokens cannot be forged. File names are random and never collide.

## 6. What the models brought to light

* **payment-lineage.** `database/data-audit.ts:87` says "Each accepted payment lineage is represented by the
  booking authority pointer." A payment that succeeds at VNPay after its booking was cancelled is put aside and
  later refunded; the booking's `accepted_payment_id` stays NULL while it has a REFUNDED payment, and the audit
  counts it. Run `lineage` shows the shortest such history.
* **room-occupancy.** The comment at `module/room/room-mutation.service.ts:240` says that locking every CONFIRMED or
  CHECKED_IN candidate closes the race of a check-in with a manual change of the room's status, and
  `database/data-audit.ts:187` that OCCUPIED rooms and CHECKED_IN bookings agree in both directions. The transaction
  runs at READ COMMITTED: a booking that is still PENDING_PAYMENT when the candidates are locked can be paid and
  checked in before the room is, and the OCCUPIED room is then made CLEANING with its guest inside. Run `occupancy`
  shows it. The other direction holds, and `GuestsKeepTheirRooms` names exactly this exception.
* **Pages by places.** The lists of rooms and of room types join collections and order by their columns, and `take` /
  `skip` count distinct rows of id and ordering columns: a room with two images or a type with two amenities fills two
  places. Pages are then short, a room may be on two, and `totalPages`, computed from the number of rooms or types, is
  too small: a client that stops there misses rows. `PagesHoldWhatCanBeBooked` and `WalksMissNothing` therefore speak
  of going on until a page is empty, and of full pages only where no room has two images.
* `resolveDuplicateCharge()` locks the accepted payment, which must be SUCCESS, before it looks at the key. Once that
  payment is being refunded itself, a retry with the key of a duplicate charge that is already refunded is answered
  409. `RefusalsAreTrue` names this exception.
* An upload whose write fails half-way leaves a part of a file without a row, and nothing removes it later.
* `completeRefund()` does not close open VNPay attempts of the booking it cancels. They stay PENDING until the
  payment cron; `OpenAttempts` therefore speaks of bookings that ended unpaid. Money paid in the window is
  reviewed, so nothing is lost.
* A VNPay refund that was refused cannot be requested again (one refund row per payment), and a duplicate charge
  cannot be refunded once its canonical payment has been.
* After a crash between the commit of REFUND_PENDING and the request, the refund is never sent again; the same
  key only reconciles, another key is a conflict.
* A staff retry for a *new* counter customer that races with its first attempt is answered
  `CUSTOMER_PHONE_IN_USE`, not with the booking; nothing is recorded twice.
* Customers lock customer then room, staff room then (through the foreign key) customer: a deadlock that InnoDB
  resolves by failing one request, without a retry in the code.
* **First messages.** The comment at `module/chat/chat.service.ts:287` says that the unique booking key resolves the
  only creation race. At MySQL's default isolation level the locking reads of two first messages both lock the
  gap, the two inserts wait for each other, and InnoDB fails one of them with a deadlock error, which is not the
  duplicate key that `sendMessage()` retries. Nothing is stored twice or half; the client has to send again. Run
  `first_messages` shows it. What remains true is `CreationRaceSparesOne`: a send fails in this race only while another
  one has created the conversation or still can.
* **Lists.** `user-admin.service.ts:92` and `customer-admin.service.ts:56` order by `createdAt` alone; where two rows
  share a second, a walk may show one twice and the other never. In every list a row is skipped when a row of an
  earlier page leaves it (a status filter, a soft deletion) or an amenity is renamed between two pages.
  `WalksMissNothing` is therefore stated for walks during which this does not happen.
* A search without a transaction offers what could be booked when its rows were read; price and nights may change
  before the booking, which checks both again. The total of a search is one more statement and may disagree.
* A refund retried with its own key while reconciliation completes it is answered 409 ("no refund to reconcile"),
  although the refund is done. `PaymentRequests` calls this answer `tooLate`; `RefusalsAreTrue` is about the other
  refusals.
* A new customer may register the number of a deleted one whose phone has an old form; the phone script then
  refuses to run. `OnePersonPerPhone` speaks of customers that are not deleted.
* Restoring a room type reads its links before it locks its amenities. An amenity deleted in between stays linked to
  a type in use; searches ignore such links, and `ReferencesHold` names exactly these.
* `GET management/bookings/:id/payments` does not restrict the methods by role, as the payment feed does.

## 7. Not modelled

* Controllers, DTOs, validation and normalisation of formats, error texts, response formatting, OpenAPI,
  configuration: no state that outlives a request.
* Migrations and seeds, run by hand and alone: a crash inside a migration leaves a schema that the next run
  refuses, but loses no row; nothing runs beside them.
* Creation and renaming of room types and amenities, and the uniqueness of their names and of room numbers: a
  read, which only improves the error, and a unique key.
* VNPay's return URL (writes nothing), its signatures and parsing (an answer verifies or it does not); amounts (a
  wrong amount is rejected by a guard that has no other effect, and IPNs with one are in `VnpayNotifications`).
* Free-text search, bed configurations, the contents of uploads, Socket.IO signals (they carry no data).
* Records of the audit log other than those of account status: appended in the transaction they are about.
* Two administrators who lock or demote each other at once: no property says that one must remain, for no code
  and no doc does.

## 8. Plan

Done: every component of section 1 that keeps state is modelled and checked, and every safety and action property
that a passing run checks is proved. Next:

1. The atomic transactions of `BookingPayment` as a refinement target: `PaymentRequests` and `VnpayNotifications`
   take them apart, and a mapping of their commits to `RecordManualPayment`, `RefundManual` and `VnPayIpn` would tie
   the three together as `StayContract` is tied to `BookingPayment`.
2. The same for `BookingCreation` and `CreateBooking`.
