# EventPulse: TLA+ models, checks and proofs

EventPulse is the backend of a ticket shop: organizers put events into venues,
users lock seats and pay through Stripe, and the application sends e-mails and
text messages. This directory holds TLA+ models of the parts where the order of
steps matters, the TLC configurations that check them, and theorems about them
that TLAPS has proved. Every definition is translated from the Python code under
`src/`; `PROJECT.json` names the lines of each.

## 1. Inventory

| Component | State it keeps | Operations | What is hard about it |
|---|---|---|---|
| `TicketAllocator` (`services/events/ticket_allocator.py`) | Redis: one `seat_lock:<event>:<seat>` key per locked seat, 300 s; PostgreSQL: ticket rows with status and `locked_at` | `lock_seats`, `transition_to_pending_payment`, `confirm_reservation`, `cleanup_abandoned_reservations` | two stores with different expiries; each `await` lets other requests in; commit is the caller's; crashes |
| `StripeWebhookHandler` (`services/payments/stripe_webhook.py`) | Redis: `webhook:processed:<id>`, 7 days | `handle_webhook`: verify, look up, dispatch, mark | redelivery, duplication, delay, clock drift, failure between effect and mark |
| `PaymentService` (`services/payments/payment_service.py`) | Redis: `idem:<user>:<event>:<amount>`, 24 h; at Stripe: PaymentIntents | `create_payment_intent`, `process_payment`, `confirm_payment`, the retry loop | lost answers, retries, a key that changes with the minute |
| `EventService` (`services/events/event_service.py`) | PostgreSQL: event rows | create, update, delete, get, list | check first, write later, at READ COMMITTED |
| `VenueSearchService` (`services/events/venue_search.py`) | none (reads events and venues) | `search` | must agree with the conflict check of `EventService` |
| `RateLimiter` (`utils/rate_limiter.py`) | Redis: a sorted set of times per client | `check`, `reset` | clock read outside the Redis transaction; several processes |
| `SMSService` (`services/notifications/sms_service.py`) | Redis: a sorted set of times per user; validated phone numbers, 30 days | `_send`, `_validate_phone_number` | the same limit; an answer fetched, then stored |
| `EmailService` (`services/notifications/email_service.py`) | the Celery queue | the public methods enqueue, `_send_email_task` sends and is retried | lost answers, workers that die, how many retries |
| `AuthService` (`services/users/auth_service.py`) | Redis: login counters, sessions; PostgreSQL: user rows; tokens the clients hold | register, login, MFA, refresh, Okta, logout | GET, then INCR and EXPIRE; HSET, then EXPIRE; one session key per user; tokens that carry roles |
| `UserService` (`services/users/user_service.py`) | user rows | `check_permission`, `update_user`, `deactivate_user` | who may change roles; uniqueness tested before the write |
| `AccountService` (`services/users/account_service.py`) | user rows, billing data | `update_profile`, `update_billing_info` | commits first, then asks for the permission to read |
| `RefundProcessor` (`services/payments/refund_processor.py`) | none of its own; at Stripe: refunds | `initiate_refund`, `check_refund_status`, currency conversion | three calls to Stripe in a row, lost answers, a network that never settles, integer amounts in two scales |
| `InvoiceGenerator` (`services/payments/invoice_generator.py`) | documents in a bucket | `generate_invoice`, `format_for_client` | numbers from the clock, line items changed in place, amounts as text |
| timezone helpers, settings, Stripe settings | none | conversions, constants | nothing runs concurrently |

How they interact: `lock_seats` and the checkout of `TicketAllocator` come before
a payment of `PaymentService`; Stripe then calls `StripeWebhookHandler`, which
calls `TicketService` (imported from `services.tickets`, which is not in the
repository) to confirm the tickets; Celery beat runs the cleanup job, which gives
seats back if no confirmation came. `EventService` and `VenueSearchService` share
the events table; `AuthService`, `UserService` and `AccountService` share the user
rows, and the tokens of the first decide what the other two allow. Every service
has its own keys in one Redis.

What makes each component correct: a seat is sold once, a refused lock request
leaves nothing behind and a pending row is settled in the end; an event of Stripe
that was acknowledged has had its effect, once; a purchase is charged once and the
caller is told the truth; two events do not overlap at a venue; a limit is kept
in every window and refuses nobody early; a lock-out ends; an e-mail goes out once
and is not given up early; nobody promotes himself, and what a token says does not
stay wrong; a verified address was proven; a refund returns what was paid and is
not lost sight of; an invoice shows the right amount in a form its reader can
parse.

## 2. The modules

| Module | Models | Run through | Proofs in |
|---|---|---|---|
| `SeatAllocator` | `TicketAllocator`, Redis, PostgreSQL rows, Celery beat | `MCSeatAllocator` | `SeatAllocatorProofs` |
| `TicketLedger` | abstract: what the docstrings promise about ticket rows | (as a property, from `MCSeatAllocator`) | `SeatAllocatorProofs` |
| `StripeWebhook` | `StripeWebhookHandler`, Stripe's deliveries, the network | `MCStripeWebhook` | `StripeWebhookProofs` |
| `PaymentIntents` | `PaymentService`, Stripe's idempotency | `MCPaymentIntents` | `PaymentIntentsProofs` |
| `EventSchedule` | `EventService`, the availability filter of the search | `MCEventSchedule` | `EventScheduleProofs` |
| `SlidingWindow` | `RateLimiter.check`/`reset`, `SMSService._send` | `MCSlidingWindow` | `LimitsProofs` |
| `LoginAttempts` | the limiter, login and logout of `AuthService` | `MCLoginAttempts` | `LimitsProofs` |
| `Accounts` | `UserService`, `AccountService`, the accounts and tokens of `AuthService` | `MCAccounts` | `AccountsProofs` |
| `Notifications` | `EmailService` and its task, the validation of phone numbers | `MCNotifications` | `NotificationsProofs` |
| `Refunds` | `RefundProcessor`, Stripe's refunds of one charge | `MCRefunds` | `RefundInvoiceProofs` |
| `Invoices` | `InvoiceGenerator` and its bucket | `MCInvoices` | `RefundInvoiceProofs` |

Definitions whose name ends in `_<Change>`, such as `Flush_WaitsForReaders`, are
not part of a model. They are the mutated forms of the definition of the same
name, in which a plausible bug was put, that `PROJECT.json` lists to show that
each property can fail.

### SeatAllocator

`holder` and `ttl` are the Redis keys: whose reservation id a seat's key holds
and how long it lives. `tickets` are the committed rows. `session` holds each
running call with its local variables. A call is cut at its awaits:

- `lock_seats`: `LockSeats` draws the id, `AcquireSeat` is one successful
  `SET NX EX`, `SeatTaken` one that fails, `RollBack` the `except ConflictError`
  branch (a `DEL` of what was acquired).
- `transition_to_pending_payment`: `Checkout`, then one `CheckSeat` (or
  `CheckFails`) per `GET`, then `InsertRows`.
- `confirm_reservation` and `cleanup_abandoned_reservations` have the same shape:
  `Confirm` or `Cleanup` is the SELECT, `Flush` the UPDATE by primary key,
  `ReleaseLocks` the `DEL`, `Commit` the caller's commit.
- `Crash` ends a call anywhere; `Tick` lets time pass and Redis expire keys.

`Flush` waits while another session has an uncommitted update of one of the rows
(PostgreSQL's row lock) and then overwrites the status without reading it again,
which is what the ORM's `UPDATE ... WHERE id = ...` does. Assumed, because the
code that would decide it is not in the repository: READ COMMITTED; the caller
commits after the coroutine has returned; the ticket table has neither a unique
constraint on the seat nor a version column; sessions update rows in the order of
their keys, so that two of them cannot deadlock.

`TicketLedger` is the promise without Redis, transactions and time: rows appear
as pending, each is confirmed or released once, a confirmation takes all pending
rows of its reservation, and none stays pending. `LedgerStatus` is the refinement
mapping: rows by identity, with their status. `LedgerSafety` is the promise without
its last part, that rows are settled in the end.

### StripeWebhook

`requests` are deliveries on their way, with the ticks since they were signed;
`processed` are the Redis keys with the ticks they have left. `handle_webhook`
is `Receive` (signature timestamp, `EXISTS`) or `Reject`, one of the `Dispatch`
actions, and `Mark` (`SETEX` and the 2xx answer). The HMAC and the parsing are
left out: a bad signature changes nothing. External: Stripe sends an event until
it has seen a 2xx answer or its retry window is over (`Send`), the network loses
(`Lose`), keeps a copy (`Receive` may leave the request in place) and loses
answers (`Answer`); `TicketService` may fail before or after its work
(`DispatchFault`). `DispatchNotify` always raises: `services/notifications`
exports no `NotificationService`.

### PaymentIntents

`_get_or_set_idempotency_key` is `GetKey` and `SetKey`; the key's minute is any
between the `GET` and the `SETEX`. `_call_stripe_with_retry` is `Retry`, used by
`CreateFails`, `ConfirmFails` and `ConfirmRefused`; errors that are not retried
are `CreateMismatch` and `ConfirmDeclined`. A failing call may have acted at Stripe or
not. External: a key's request is remembered, the same request gets the same
intent, another one is refused, and an intent is charged once. The model covers
the first 24 hours of a purchase, in which neither Redis nor Stripe forgets a key.
The SDK's own retries (`config/stripe_config.py`, `max_network_retries`) are not
in it: no module imports that file, and with them a call can still fail after it
was carried out. `config/settings.py` does not define all the names the services
import (`STRIPE_API_KEY` and others); the models take them as given.

### EventSchedule

`create_event` is `CreateChecks` (all checks, read-only) and `CreateInserts`;
`update_event` is `UpdateLoads`, `UpdateChecks` and `UpdateWrites`, where only
columns that got another value are written, as SQLAlchemy does; `delete_event` is
`Cancel`. `Conflicts` is the SQL condition of `_check_venue_conflict`,
`IsAvailable` that of the search's `NOT EXISTS`. `EventUpdate` is a schema outside
the repository; a payload sets any of the fields the code looks at. All slots are
more than an hour ahead, so the "at least an hour from now" test passes. `missed` is a
history that no action reads: for each running request, the rows that others have
written since it read them. `updates` counts update requests, up to `MaxUpdates`.

### SlidingWindow

A check reads the clock (`ReadClock`) and then runs one Redis transaction
(`Check`; redis-py's `pipeline()` is MULTI/EXEC): trim, count, add, expire. What it
guards follows (`Succeed`, `Fail`). The clock may go on by at most `MaxDelay`
between the reading and the transaction. The clocks of the processes and of Redis
agree, and a process never reads the same time twice, since there is a round trip
between two checks. `attempts`, `admitted` and `done` are histories for the
properties. `RateLimiter` and `SMSService` have the same algorithm with different
constants.

### LoginAttempts

`count` and `ttl` are the `rate:login:` keys, by e-mail and by network address. An
attempt passes `Admit` or `Refuse` (the `GET`) and `Count` (the transaction with
`INCR` and `EXPIRE`) with each of the two, then ends in `WithoutSession`, or in
`CreateSession` (`HSET`) and `ExpireSession`. `Logout` is the `DEL` of the session.
A session key is the user id and the first 16 characters of the token, and those
are the encoded JWT header, the same for every token: so `sessions` has one entry
per user. Whether the password is right is the environment's choice.

### Accounts

`account` has the columns of a user row that decide something: address, roles,
`is_active`, `is_verified`. `tokens` and `partials` are the access tokens and the
partial tokens of an MFA login that have not expired; `known` are the users with
a refresh token. The services are synchronous code in several processes, so a
request reads rows, decides and writes later, with commits of others in between:

- `Register` and `SsoAuthenticate` look for the address, `Insert` commits the new
  row; `Login`, `VerifyMfa`, `RefreshToken` and `SsoAuthenticate` read a row, and
  `Issue` is `_generate_tokens`. `Begin` is what they have in common, `Count`
  the bound on requests, in which a code and its login are one.
- `update_user` is `UpdateUser` (permissions, row loaded), `CheckEmail` and
  `WriteUser`. The ORM writes the columns that differ from what was loaded, and
  leaves the others as they are by then; so an update of the address that loaded an
  unverified row does not write `is_verified`.
- `DeactivateUser` is one action. `UpdateAccount` has committed a profile or billing
  data, and `Answer` is the `get_` method whose result is returned.
- External: `Verify` (the service behind the link in the e-mail), `Crash`, `Tick`.
  Passwords, codes and signatures are the environment's choice.

`check_permission` is `Permitted` and `PermittedOn`, with `ROLE_HIERARCHY` in full.
The answer "Only admins can modify roles" (`user_service.py:169`) belongs to a test of
`users:admin`, which only a super_admin passes. `update_user` takes any display
name while `update_profile` wants two characters; names, pictures, preferences and
cards are left out. `verify_token` does not ask for the blacklist `logout` could
fill; the model has no logout. `since`, `proven`, `raced` and `rooted` are
histories. Assumed: READ COMMITTED; no unique index on the address (the table is
not in the repository). A row lock that an early flush would take is not modelled,
which only adds interleavings. `Tick` waits while a process issues a token: a row
read for a token is not minutes old when the token is made.

### Notifications

An e-mail is a Celery task. A public method is `Queue`; a run is `StartTask` and one
of `SendAccepted`, `SendRefused`, `AnswerLost` and `WorkerDies`. `Retry` is
`autoretry_for` with `max_retries=4`: the first run and four more. Celery
acknowledges a task when its run begins, which is its default and what
`email_service.py` leaves as it is: a worker that dies takes the e-mail along.
`retry_backoff=True` starts at a second and grows with jitter, not at the minute
that lines 13 and 176-181 describe; how long a retry waits is left out.

`_validate_phone_number` is `GetCached` (the `GET`), `Fetch` or `FetchFails` (Twilio)
and `Store` (the `SETEX`). Other processes move in between, and a number may become
valid or invalid (`Change`).

### Refunds

The refunds of one charge, as Stripe keeps them, with the estimate its caller was
told. `initiate_refund` is `InitiateRefund` (retrieve the payment, convert the
amount), `CreateRefund`, `RefundError` or `AnswerLost`, and `Estimate` (retrieve
the charge for its card network, "unknown" if that fails). `network` is what the
charge says: a network, "unknown" if it has no such key, or null, of which `.lower()`
raises (line 244) after the refund was made (`EstimateRaises`). `told` is what the
caller was told. `CheckRefundStatus` is `check_refund_status`; it gives no answer for
a null network either. Ages are in calendar days, as line 210 measures them, and are
compared with the numbers of the table as they are, although line 39 calls those
business days (`WarnedInBusinessDays`). External: Stripe refuses an amount that is not between one
and what remains; the network settles a refund, refuses it or never does
(`Settle`); the daily `refund_reconciler` job, which the docstrings describe,
checks every refund. The rate is any of `Rates` or none.

### Invoices

A call is `GenerateInvoice` (the number, from the clock), `AssembleAndFormat` (the
clock again, and `format_for_client`), `RenderPdf`, `UploadToStorage` and
`AnswerWithLink`; `Fail` ends it. `items` are the caller's line items: an
enterprise invoice strips their descriptions in place, and `RenderPdf` reads them
when it comes to it. A text is a sequence of kinds of characters. `FormatAmount` is
the code's arithmetic, down to its groups of digits; `ReadBack`, how a reader takes
them, is its reference. Without a storage client the code skips the upload and
answers with a link to nothing; the model has a storage client.

## 3. The runs

| Run | Instance | Shows |
|---|---|---|
| `SeatCalls` | 2 calls at a time, 2 seats, 2 reservations, seat lists in both orders and with a seat named twice, 1 crash | `ConflictReleasesAll`, `CleanupNeverFreesOwnLock`, `GracePeriodKept`, `ConfirmedInTimeIsFinal`; under fairness `EveryPendingTicketSettles`, `EverySessionReturns` |
| `SeatSerial` | the same with 1 call at a time | `ImplementsLedger`: the allocator refines `TicketLedger`, liveness included |
| `SeatNoOversell` | 1 seat, no crash | **violated**: two reservations with confirmed tickets for one seat |
| `WebhookRedelivery` | 3 events of the 3 kinds, 2 workers, drift, 1 failure, 1 crash | `AckedIsDone`, `RepeatsAreAccountedFor`, `MarkedIsNeverRedone` |
| `PaymentCalls` | 2 callers, 3 minutes, 2 bodies, 3 calls, 2 faults | `OverlapBoundsDuplicates`, `UntoldChargesNeedFaults`; under fairness `EveryCallReturns` |
| `EventCalls` | 2 requests at a time, 2 events, 2 venues, 4 points in time, 2 updates: of a date, of the venue with and without a date, of the capacity | `DoubleBookingNeedsARace`, `DisorderNeedsAStaleRow`, `CapacityFitsSomewhere`, `BookableIsListed` |
| `LimitWindow` | 2 processes, limit 2, window of 4 ticks, delay of 1 | `NothingForgotten`, `TimesWithinLimit`, `RefusedOnlyAtLimit` |
| `LoginCalls` | 1 user, 2 addresses, 2 processes, limit 2, window of 2 ticks, 1 crash | `CountBounded`, `SessionsGetAnEnd`; under fairness `EveryLockoutEnds` |
| `AccountCalls` | 2 processes, 4 requests, 1 founder, 2 ids with MFA, 2 addresses, one of them internal | `SharersBounded`, `PromotionsHaveARoot`, `TokensCatchUp`, `VerifiedIsProven`, `CommittedIsAnswered` |
| `NotifyCalls` | 1 e-mail with 4 retries, 1 number that changes twice, 2 processes | `DuplicatesNeedLostAnswers`, `GivenUpAfterAllAttempts`, `CachedAnswerIsRecent`; under fairness `EveryMailEnds` |
| `RefundCalls` | 2 callers, 2 refunds of a charge of 2 cents, whole or partial, in dollars or yen, of Mastercard, Amex, no network or a null one, 1 lost answer | `CallersAreTold`, `EarlyWarningsNeedAFailedLookup`, `ConversionWithinHalfUnit`; under fairness `EveryStuckRefundIsWarnedOf` |
| `InvoiceCalls` | 2 threads, 2 purchases, 3 calls, both formats, a month that ends | `InvoiceTypeOK`, `EnterpriseIsAscii`, `AmountsReadBack`, `LinksLeadToTheirNumber` |

The type invariants of all the modules are proved (section 4); of these the runs
check only `InvoiceTypeOK` again.

The violation is a disagreement between the code and what the repository says of
it; `PROJECT.json` quotes the lines under `findings`. Where a promise is false in
general, the passing runs show the part of it that is true: what calls that do not
overlap guarantee (`SeatSerial`), what it takes to break it
(`DoubleBookingNeedsARace`, `DisorderNeedsAStaleRow`,
`EarlyWarningsNeedAFailedLookup`), whom it does not reach (`ConfirmedInTimeIsFinal`), or
how far the harm can go (`OverlapBoundsDuplicates`, `UntoldChargesNeedFaults`, `RepeatsAreAccountedFor`,
`TimesWithinLimit`, `SharersBounded`, `DuplicatesNeedLostAnswers`), or for how long
(`TokensCatchUp`, `CachedAnswerIsRecent`).

### Further disagreements

These properties are stated in the modules, and TLC finds each of them violated
within seconds. They are not among the runs of `PROJECT.json`. Some configurations
name several; TLC stops at the first it finds violated, so leave one of them in, or
run it with `-continue`.

| Property, configuration | What the code does |
|---|---|
| `PendingSeatStaysHeld`, `SeatDisagreements.cfg` | `ticket_allocator.py:147`: `pending_payment` "was added to close the race condition where the Redis TTL would expire during payment processing and another user could grab the same seats". Nobody who locks seats reads the pending row; the key expires after 300 s, the row stays for 900 s. |
| `ConfirmedIsFinal`, `SeatDisagreements.cfg` | `ticket_allocator.py:67-70`: seats are released only "if no confirmation arrives". A confirmation that commits between the cleanup's SELECT and its flush is overwritten. |
| `ConfirmFreesOwnLocks`, `SeatDisagreements.cfg` | `ticket_allocator.py:212` says the locks "may have already expired, which is fine". `DEL` does not look at the value: it deletes the lock another reservation has taken since. |
| `RollBackFreesOwnLocks`, `SeatDisagreements.cfg` | `ticket_allocator.py:122`: "Release any locks we already grabbed in this attempt". By the time of the roll-back they may have expired and be held by another reservation: `DEL` deletes them all the same. |
| `CarriedOutOnce`, `WebhookDisagreements.cfg` | `stripe_webhook.py:43`: "Every webhook event is processed idempotently". The lookup and the mark are separate calls around the dispatch: a second delivery looked up before the first is marked is dispatched as well. |
| `DisputeAlertsOps`, `WebhookDisagreements.cfg` | `stripe_webhook.py:285` says disputes "immediately freeze the associated ticket and alert the ops team". The import of `NotificationService` raises each time. |
| `OneIntentPerPurchase`, `PaymentDisagreements.cfg` | `payment_service.py:113-115`: the cached key is the "PRIMARY defense against duplicate charges". Two calls that both miss the cache, before and after the minute turns, create two intents for one purchase. |
| `NoBodyMismatch`, `PaymentDisagreements.cfg` | `payment_service.py:270` calls an `IdempotencyError` "a bug in our code". The cache key has neither currency nor metadata, so a second call with other ones gets it for 24 hours. |
| `FailedMeansUnpaid`, `PaymentDisagreements.cfg` | `exceptions.py:5`: `PaymentProcessingError` is "raised when a payment operation fails". A confirmation whose answer is lost is refused when it is retried, and the caller gets that error for a charged payment. |
| `NoDoubleBooking`, `EventRace.cfg` | `event_service.py:83`: "Ensure no overlapping events". The SELECT locks nothing: two creations that both check before either commits book the same time. |
| `NoDoubleBooking`, `EventMove.cfg` | `event_service.py:83`: "Ensure no overlapping events". An update of `venue_id` alone is not checked. |
| `DatesInOrder`, `EventDates.cfg` | `event_service.py:57`: "end time must be after start time". Two concurrent updates, of the start and of the end, each valid against the old row, leave an event that ends before it starts. |
| `CapacityFits`, `EventCapacity.cfg` | `event_service.py:74`: "Capacity must be at least 1". The test is `if payload.capacity`, false for 0; and a move to a smaller venue is not tested. |
| `ListedIsBookable`, `EventListed.cfg` | `venue_search.py:85`: "Availability is checked". The search leaves out the buffer that `create_event` insists on. |
| `NeverOverLimit`, `LimitTwoProcesses.cfg` | `rate_limiter.py:16`: "a true sliding window". The member is the time: two checks with equal times count as one. |
| `DroppedOnlyAfterSends`, `LimitDropped.cfg` | `sms_service.py:156`: "each member is a send timestamp". Dropped messages, and those Twilio refused, are members too. |
| `WholeChargeGoesBack`, `RefundDisagreements.cfg` | `refund_processor.py:87`: "None = full refund". With another currency the converted amount is refunded in the original one (lines 269-270). |
| `NothingAskedNothingRefunded`, `RefundDisagreements.cfg` | `refund_processor.py:87`: "None = full refund". With another currency `amount_cents or intent["amount"]` takes 0 for a full refund too. |
| `EveryCallerIsAnswered`, `RefundDisagreements.cfg` | `refund_processor.py:92-93`: "Returns: Dict with refund details and estimated processing window". A charge whose network is there and null passes `.get` and raises at `card_network.lower()` (line 244), after the refund was made. |
| `WarnedAfterTheWindowTold`, `RefundDisagreements.cfg` | `refund_processor.py:93`: the caller gets the "estimated processing window", and line 191 warns when a refund "has exceeded the expected processing window": two answers of one table. A caller whose lookup failed was told ten days, and the status check, which reads the network again, warns after the five of Mastercard. |
| `WarnedInBusinessDays`, `RefundDisagreements.cfg` | `refund_processor.py:39`: the windows are "in business days". Line 210 counts calendar days, so a warning can come when a part of the business days the caller was told is still to go. |
| `NumbersAreUnique`, `InvoiceDisagreements.cfg` | `invoice_generator.py:306`: "Generate a unique, human-readable invoice number". Two users whose ids end in the same four characters get one number in the same second, and one document in the bucket. |
| `StandardKeepsText`, `InvoiceDisagreements.cfg` | `invoice_generator.py:84`: "Standard invoices use [...] UTF-8 encoding". The line items an enterprise invoice stripped are the caller's: a standard invoice of the same list has the question marks. |
| `AccentsAreTransliterated`, `InvoiceDisagreements.cfg` | `invoice_generator.py:293`: "then strip the combining marks". `errors="replace"` turns each mark into a question mark: "é" becomes "e?". |
| `AmountsReadBack`, `InvoiceDisagreements.cfg` | `invoice_generator.py:254`: "Format a cent amount". A discount of 50 cents, a negative line item, is shown as -1.50. |
| `EmailsAreUnique`, `AccountDisagreements.cfg` | `user_service.py:179`: "Email already in use", `auth_service.py:147`: "Email already registered". Two requests that both look before either commits give two users one address. |
| `VerifiedAlways`, `AccountDisagreements.cfg` | `user_service.py:183`: "re-verify on email change". A verification committed after the row was loaded survives the change, since an unchanged `False` is not written. |
| `InactiveHaveNoTokens`, `AccountDisagreements.cfg` | `user_service.py:242`: "mark user as inactive". The Okta login (`auth_service.py:294`) does not look at `is_active`. |
| `FourAttempts`, `EmailAttempts.cfg` | `email_service.py:13`: "max 4 attempts". `max_retries=4` makes five runs. |

### Bounds, and why they are enough

- *Calls at a time*: two. Each of the races needs one call between two steps of
  another; a third would repeat the pattern. Reservations: two, the one that loses
  a seat and the one that gets it. Two seats and the list that names one seat
  twice reach every branch of the roll-back.
- *Time*: a tick of `SeatAllocator` is 300 s, so `LockTTL` is 1 and
  `PendingExpiry` 3 in reality. The runs take 2: the keys still expire before the
  rows do, which is the only relation the model uses (`TTLAssumption`). Rows older
  than the expiry are all alike. In `StripeWebhook` signatures and events past the
  tolerance and the retry window are all alike; the runs keep the relation
  `RetryWindow + Tolerance + Skew < ProcessedTTL`, which the real values satisfy with
  days to spare (72 hours + 600 s + the drift against 604800 s, lines 56-60).
- *Faults and crashes*: one or two. A crash loses the call and its transaction; a
  second starts from a state that another first one could have reached.
- *Minutes* of `PaymentIntents`: three, one more than there are callers, so that
  `OverlapBoundsDuplicates` does not hold for want of keys. `MAX_RETRIES` is 2
  (3 in the code): a first and a last attempt.
- *Slots* of `EventSchedule`: four, with a buffer of one, so that two events fit
  with the buffer between them, and one can be moved against the other. Two updates
  are two that race over one row, or one that races with a creation and one more. In
  `EventCalls` both `NoDoubleBooking` and `DatesInOrder` are violated: the races its
  properties speak of do happen there.
- *Ticks* of `SlidingWindow`: seven, for a window of four: entries leave the set,
  keys expire and are made anew. The window less the delay has room for three
  times, one more than the limit, so that `TimesWithinLimit` can fail.
- *Logins*: `LOGIN_RATE_LIMIT` is 2 and the window 2 ticks: an attempt below the
  limit, one at it, and one admitted late that goes beyond. One user suffices: the
  identifiers do not interact, and the two addresses let the same user's attempts
  meet on one key and differ on the other.
- *Refunds*: days pass ten at a time, so that ages meet the windows of 10 and 30
  days exactly and pass that of 5. Visa and Discover have the window of an unknown
  network. A charge of two cents has a whole and a partial
  refund and room for both; 50 yen a dollar makes a cent a tie. The conversion is
  also checked for amounts from 0 to 250 at five rates.
- *Invoices*: three calls are two that race and one more, or a retry of one that
  failed. Of the amounts one has three groups with zeros to fill, the other no
  whole part. A month is one second long, so that it ends between any two steps.
- *Accounts*: four requests, for example two registrations, a login and an update of
  the address, or a promotion and what the promoted one does with it. The MFA code
  that follows a login is not counted. Tokens live two ticks, so that one issued
  before a change can be used after it; partial tokens one. The founder is a
  moderator, without any right over users, or a super_admin. The two other ids
  are alike (both would have MFA), as are the processes: TLC is told so
  (`Symmetry`), which is sound since the run has no liveness property.
- *Notifications*: `max_retries` is 4, as in the code. E-mails do not interact, nor
  do numbers: one of each. A cached answer lives two ticks and may be stored one
  tick late; two changes of the number make an answer wrong and right again.
- `PaymentIntents`, `SlidingWindow` and `Invoices` stop at their bounds
  (`CHECK_DEADLOCK FALSE`); the other models are checked for deadlock.

### Fairness

`SeatAllocator`: time passes; a call that can go on goes on (the event loop and
the two servers answer; each call separately, since a call waiting for a row lock
must not count as progress of another); Celery beat keeps starting the cleanup job
(`ticket_allocator.py:227`). Nothing is assumed about users and webhooks: they may
never call. `PaymentIntents`: a call that is running goes on. `LoginAttempts`: time
passes, nothing else; processes and users may stop or go on for ever. `Refunds`: days
pass and the reconciler job checks each refund (`refund_processor.py:201-203` says
daily); callers, Stripe and the networks owe nothing. `Notifications`: for each
e-mail, workers take what is queued and go on with what they run; SendGrid may
refuse for ever, and the bound on retries ends the task. A crash is never owed. The
other models have safety properties only.

## 4. The proofs

TLAPS checks these for every value of the constants that satisfies the named
assumptions: any number of seats, sessions, workers and processes, any lifetimes.

| Module | Theorem | `Spec =>` | Rests on |
|---|---|---|---|
| `SeatAllocatorProofs` | `TypeCorrect` | `[]TypeOK` | the assumptions of `SeatAllocator` |
|  | `RefusedLeavesNoKey` | `[]ConflictReleasesAll` | `IInv` |
|  | `CleanupComesLate` | `[]CleanupNeverFreesOwnLock` | `IInv`, `LockTTL <= PendingExpiry` |
|  | `PaidInTimeIsFound` | `[]GracePeriodKept` | `FreshCalls`, `ReleaseIsLate` |
|  | `SerialCallsKeepTheLedger` | `Ledger!LedgerSafety` | `SerialIInv`, `OneCall`, `ListsFit` |
|  | `InTimeIsForGood` | `ConfirmedInTimeIsFinal` | `InTimeIsSafe`, `SafeStaysSafe`; any calls overlap |
|  | `NoCallGoesOnForEver` | `CallsRunOut` | `InList` |
|  | `SettledRowsStaySettled` | `RowsNeverReopen` | `TypeOK` |
| `StripeWebhookProofs` | `TypeCorrect` | `[]TypeOK` | the assumptions of `StripeWebhook` |
|  | `MarkedStaysDone` | `MarkedIsNeverRedone` | `IInv`, `RetryWindow + Tolerance + Skew < ProcessedTTL` |
|  | `AcknowledgedIsDone` | `[]AckedIsDone` | `MarkedIsDone` |
|  | `RepeatsHaveACause` | `[]RepeatsAreAccountedFor` | `EffectsCounted` |
| `PaymentIntentsProofs` | `TypeCorrect` | `[]TypeOK` | the assumptions of `PaymentIntents` |
|  | `DuplicatesNeedOverlap` | `[]OverlapBoundsDuplicates` | `KeysCounted`, `OneBody`, `CacheMatches` |
|  | `UntoldHasACause` | `[]UntoldChargesNeedFaults` | `UntoldCounted` |
|  | `NoCallGoesOnForEver` | `CallsRunOut` | `TypeOK` |
| `EventScheduleProofs` | `TypeCorrect` | `[]TypeOK` | the assumptions of `EventSchedule` |
|  | `CapacitiesWereChecked` | `[]CapacityFitsSomewhere` | `CapacityInv` |
|  | `SearchHidesNothing` | `[]BookableIsListed` | `TypeOK` |
|  | `DoubleBookingsAreRaces` | `DoubleBookingNeedsARace` | `RequestInv`; any requests overlap |
|  | `DisordersAreStale` | `DisorderNeedsAStaleRow` | the same |
| `LimitsProofs` | `TypeCorrect` | `[]TypeOK` | the assumptions of `SlidingWindow` |
|  | `ChecksAreRemembered` | `[]NothingForgotten` | `IInv` |
|  | `WindowsAreLimited` | `[]TimesWithinLimit` | `LimitInv` |
|  | `RefusalsAreJustified` | `RefusedOnlyAtLimit` | `TypeOK`, `RecordsAgree` |
|  | `LoginTypeCorrect` | `[]LoginTypeOK` | the assumptions of `LoginAttempts` |
|  | `SessionsAlwaysGetAnEnd` | `[]SessionsGetAnEnd` | `LoginTypeOK` (the property is inductive) |
|  | `LimitExceededByConcurrencyOnly` | `[]CountBounded` | `AdmittedBounded` |
|  | `RefusalsProlongNoLockout` | `LockoutsRunDown` | `LoginTypeOK` |
| `AccountsProofs` | `TypeCorrect` | `[]TypeOK` | the assumptions of `Accounts`, `RowsInUse` |
|  | `SharingNeedsOverlap` | `[]SharersBounded` | `WantersBounded` |
|  | `NobodyPromotesHimself` | `[]PromotionsHaveARoot` | `NobodyIsRoot` |
|  | `TokensTellTheTruth` | `[]TokensCatchUp` | `ReadsAreRecent`, `BearersExist` |
|  | `VerifiedMeansProven` | `[]VerifiedIsProven` | `UpdatesSeeTheFlag` |
|  | `UpdatesAreAnswered` | `[]CommittedIsAnswered` | `ROLE_HIERARCHY`: who may write may read |
| `NotificationsProofs` | `TypeCorrect` | `[]TypeOK` | the assumptions of `Notifications` |
|  | `NoNeedlessDuplicates` | `[]DuplicatesNeedLostAnswers` | `RunsCounted` |
|  | `NotGivenUpEarly` | `[]GivenUpAfterAllAttempts` | `RunsCounted` |
|  | `WrongAnswersEnd` | `[]CachedAnswerIsRecent` | `AnswersAreRecent` |
|  | `NoTaskGoesOnForEver` | `TasksRunOut` | `MailTypes` |
| `RefundInvoiceProofs` | `RefundsTypeCorrect` | `[]TypeOK` | `IInv` of `Refunds`, the sum of the refunds |
|  | `EveryCallerIsTold` | `[]CallersAreTold` | `EstimatesPending` |
|  | `EarlyWarningsAreOfFailedLookups` | `[]EarlyWarningsNeedAFailedLookup` | `WarnedAreOverdue`, `ToldTheNetwork` |
|  | `ConversionsOfTheRun` | `[]ConversionWithinHalfUnit` | `ConversionRoundsHalfUp` |
|  | `InvoiceTypeCorrect` | `[]InvoiceTypeOK` | the assumptions of `Invoices` |
|  | `EnterpriseDocumentsAreAscii` | `[]EnterpriseIsAscii` | `InvoiceIInv` |
|  | `LinksLeadToDocuments` | `[]LinksLeadToTheirNumber` | `BelongsUnder`, `AnswersAgree` |
|  | `AmountsAreReadBack` | `[]AmountsReadBack` | `FormattedAmountsAreReadBack`, its condition on the amounts |

Two theorems are about data alone: `ConversionRoundsHalfUp` (a conversion is within
half a minor unit, a half rounded up, for every amount, rate and pair of currencies)
and `FormattedAmountsAreReadBack` (below).

*SeatAllocator.* `ConflictReleasesAll` speaks of finished calls and is not
inductive: the roll-back deletes the keys of its list, so one has to know that no
other key names its reservation. `KeysAccountedFor` says that a key naming a
reservation that is still being locked is in the list of the one call that drew
the id, and `OneLocker` that there is one such call; together they make the
roll-back complete. `CleanupNeverFreesOwnLock` needs arithmetic: a row is as old
as its reservation's key at most has been alive, `age + ttl <= LockTTL`
(`KeysOutlastNoRow`). A row the cleanup selects has `age > PendingExpiry >=
LockTTL`, so the key is not its own reservation's, and never becomes so again,
because keys are only set for reservations being locked and a row's reservation
has been granted (`OnlyGranted`). `CleanupIsLate` carries this from the SELECT to
the DEL. `GracePeriodKept` needs that what a session loaded is still what it
writes: rows have identities (`FreshCalls`), so a loaded row is the committed one
of its identity, and a row loaded to be released stays older than the expiry
(`ReleaseIsLate`). `ConfirmedInTimeIsFinal` adds time to that: when a checkout is
confirmed before any of its rows is older than the expiry, no cleanup has loaded one of
them (`NobodyReleases`), and none will, since cleanups load pending rows only. Such a
checkout (`SafelyConfirmed`) can still be written by another confirmation, to the same
status. Once a row has passed the expiry a cleanup may hold it already, which is how a
later confirmation is lost; the theorem covers every interleaving up to there.

*TicketLedger.* The refinement is false for calls that overlap: a confirmation can
commit between the SELECT and the UPDATE of a cleanup. `OneCall` (there is one
session) excludes that. `ListsFit` only says that the ledger has room: no seat list
is longer than the constant `MaxSeatsPerList`, which has any value. `SerialIInv` adds
to `IInv` that a session's loaded rows are what it would load now
(`ReadsAreCurrent`), so that a commit settles rows that are pending, and
that each row has its place in the ledger. Each step maps to a step of the ledger
or to a stutter: an insert to the appearance of rows, a commit to a confirmation
or a release, all others, `Tick` and `Crash` included, to none.

*StripeWebhook.* A request whose timestamp can still be accepted was sent within
the retry window (`RequestsInWindow`), and a marked event's key has at least
`ProcessedTTL - age` left until the event is older than anything that can be
accepted (`KeysCoverWindow`). So if a worker accepts a request for a marked event, the
key is there and the worker skips it. The comment at lines 58-60 argues with the
retry window alone; the tolerance and the drift are needed as well, and the seven
days have room for all three. A worker that is about to mark has done the
work, and so has a key in Redis (`MarkedIsDone`); only these two acknowledge. For
the repetitions `EffectsCounted` keeps a balance: until an event is marked, each
effect has a worker that is about to mark it, a failure or a crash; after it, only
workers that were past the lookup can add one.

*PaymentIntents.* `KeysCounted`: the keys in use for a purchase and the callers that
missed its cache are together never more than the callers, because nobody misses a
cache that was filled, and a caller that misses may bring one key. With one intent
per key (`OneBody`) this bounds the intents. `UntoldCounted`: a step that charges
either tells its caller so or is a fault, so each charge nobody was told of has a
fault of its own; refusals and retries add no charge.

*EventSchedule.* All of it holds for any number of requests in any order. `RequestInv`
says what a request may rely on when it writes: of the rows it has not missed, the ones it
found free are free still (`StillFree`), and its own has the values it loaded
(`StillLoaded`). So a new clash between two events was made by the write of one that
the other's request had missed, or by a move that was never checked
(`DoubleBookingNeedsARace`); an UPDATE that makes dates disorderly wrote one that was
compared with another value of the other than its row has (`DisorderNeedsAStaleRow`).
That the history `missed` says what it is called rests on `Wrote`: a request that writes a
row adds it for every other that runs, and only a read of that row takes it away. A
cancelled event clashes with none, so `Cancel` need not be in it.

*SlidingWindow.* (in `LimitsProofs`, as the next.) The set holds no future times, and the key lives at least a
window longer than its youngest member (`KeyCoversWindow`): expiry and trimming
take away only times that have left the window, although a check trims by its own,
older, clock reading. `LimitInv` goes further: since a reading is at most `MaxDelay`
old when its transaction runs, a check that is admitted finds all admitted times
of the last window less the delay in the set; so there are never more than the
limit of them. A refusal has a full window behind it because the set holds only
times of checks (`RecordsAgree`).

*LoginAttempts.* `CountBounded` is not inductive: an attempt that passed the `GET`
is not in the counter yet. `AdmittedBounded` bounds the counter and those attempts
together. An admission happens below the limit, when at most all processes are
about to count; counting moves an attempt from one summand to the other. The proof
uses the library's facts on cardinalities of finite sets.

*Accounts.* Uniqueness is checked and then written, so `Wanting(e)` has the holders of
an address and the users for whom a request that has looked for it is about to
write it. A request joins only when it sees no other holder, and then everybody in
the set is the user of some process, or the one holder: `WantersBounded`. For
roles, `NobodyIsRoot` says that without a super_admin among the founders no token,
no row read for a token and no running update has the right to change roles. Old
tokens are covered because a token's roles were once a row's. `ReadsAreRecent` is
`TokensCatchUp` for what is still to be issued: a row read for a token, and a
partial token, were true when made, and `since` is the time from any later change.
`UpdatesSeeTheFlag`: an update of the address that loaded an unverified row still
finds one, unless a verification raced.

*Notifications.* `RunsCounted` ties the runs that raised to the retries, so the
counters never reach their cap and a given-up e-mail has had all its runs.
`AnswersAreRecent` is the cache's property for an answer on its way to it.

*Refunds.* `CallersAreTold` compares two cardinalities: a caller that learns the
days takes one element from each side, a lost answer or a crash adds to the right.
For that, a caller about to learn has to be the only one for its refund, and the refund
one nobody was told of (`EstimatesPending`). The theorem is about charges whose network
is not null. A warning is given past the network's window, and ages only grow
(`WarnedAreOverdue`); callers are told of the network or "unknown"
(`ToldTheNetwork`). So a warning within the days told can only be one after "unknown", of
a network with fewer days. What remains of a charge stays between zero and the
charge because the sum over refunds, a fold, changes by the summand that
changes (`SumOfRefunds`). The proof of the type invariant showed an error of an
earlier `Tick`, which let an age exceed `MaxAge` when `DaysPerTick` does not divide
it; the instance of the run did not.

*Invoices.* `BelongsUnder` is what is true of a document under its key: the key has its
number, the total is that of its purchase, the texts are ASCII if the client is an
enterprise. It holds for stored documents and those being uploaded
(`StoredAgree`, `ThreadsAgree`), so an upload that overwrites another's document keeps every answered link true.
What a thread renders for an enterprise client has been stripped, and a stripped text
is ASCII: each character that is not becomes one or several that are. Line
items are shared and may be changed in between, but only to stripped ones.

*Recursion.* The digits of an amount, its groups of three and the concatenation of
character lists are recursive functions and folds. The library's induction
theorems cannot be used, since they take an operator as a parameter; a
least counterexample can (`LeastNumber`: a non-empty set of naturals has a least
element). `RecursionExists` and `RecursionUnique` show with it that a recursive definition
over the naturals has the function it describes, and `ValueUnfolds`, `GroupsUnfold` and
`FlattenUnfolds` are the equations it satisfies. From these follows what
`_format_amount` does for every integer: the text is read back as the amount exactly
if the amount is not negative or has no cents. So the disagreement about a
discount of 50 cents (section 3) has its precise extent, and `AmountsAreReadBack`
holds for purchases whose amounts, `Amount`, satisfy this condition.

*Progress.* What liveness needs besides fairness is proved: each step of
a running call, of a worker or of a lock-out uses up one of a bounded number, and nothing
anybody else does gives it back. `Left` is that number for a call of the allocator
(seats still to look at, then the steps to the commit), for a call of `PaymentService`
(attempts of the two Stripe calls) and for an e-mail (attempts). The measure of a
lock-out has two parts, the attempts admitted before it began and the life of the key:
the second grows only when the first shrinks. `RowsNeverReopen` is the same
for ticket rows: no interleaving makes a settled row pending again. It does not say that a
confirmed row stays confirmed, which is true only of what was confirmed in time
(`InTimeIsForGood`).

The invariants the proofs use are in the component's module, as `IInv`, a
conjunction of named parts. Before each was proved it was checked by TLC as an
invariant of the passing run's instance; so were `CallsRunOut`, `TasksRunOut`,
`LockoutsRunDown` and `RowsNeverReopen`, which are stated beside their proofs. The
names in `LoginAttempts` and `Invoices` differ from those in `SlidingWindow` and
`Refunds` (`loginVars`, `InvoiceNext`), so that one module can prove things about two.

Only model-checked: liveness under fairness (`EveryPendingTicketSettles`,
`EverySessionReturns`, `EveryCallReturns`, `EveryLockoutEnds`,
`EveryStuckRefundIsWarnedOf`, `EveryMailEnds`, and that of `TicketLedger`, the part
of `ImplementsLedger` that `LedgerSafety` leaves out), since the prover handles neither
fairness nor ENABLED. Every invariant and every other action property of the passing
runs has a theorem.

## 5. Not modelled, and why

- Formatting and pure I/O: e-mail and text templates, PDF rendering, logging.
- Cryptography: the HMAC, password hashes, the encoding of tokens, MFA codes. Where
  they decide something, either outcome may happen.
- Queries that only read: `get_event`, `list_events`, `get_user`, `list_users`,
  `get_payment_status`, and the geographic, capacity and amenity filters of the
  venue search.
- `timezone_helpers.py`: conversions without state, which nothing calls.
- Configuration: constants. The models take the values the services use.
- The database models, schemas, routes and `TicketService`, which are not in the
  repository: the models say what they assume of them.

## 6. What could follow

1. `Checkout`: the composition of allocator, payment and webhook. A paid
   reservation is confirmed in the end, which a cleanup ahead of a late webhook
   prevents; what the delays must satisfy for it to hold.
2. `Refunds` together with `StripeWebhook`: a caller that retries after a lost
   answer, and the `charge.refunded` event.
3. The refinement of `TicketLedger` for calls that may overlap but do not settle the
   same rows: the condition on confirmations and cleanups that is really needed.
4. Abstract specifications for other components: a mailbox that is at most once
   per failure, for `StripeWebhook` and `Notifications` alike; a ledger of bookings
   for `EventSchedule`.
