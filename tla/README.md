# Self-checkout: TLA+ models and proofs

The repository is a FastAPI service for self-checkout in a restaurant: a guest
opens a menu, fills an anonymous cart, pays at a Stripe page, and the staff, who
have accounts, see the order on a live stream. This directory holds TLA+ models of
the parts where requests, Stripe's events, mails, failures and crashes meet, the TLC
configurations that check them, and TLAPS proofs of their safety properties. Paths
below are relative to `src/`.

## 1. The system

| Component | State | Operations | Status |
|---|---|---|---|
| Checkout (`services/checkout`, `services/idempotency`, `services/stripe/stripe_service.py`) | idempotency records in Redis (TTL 1 h) | `POST /checkout/stripe`, `_handle_error` | modelled: `Checkout` |
| Orders and payments (`services/order`, `services/payment`, `schema.sql`) | `orders`, `order_items`, `payments` | inserts, guarded status updates | modelled: `Store` |
| Stripe webhook (`services/stripe/webhook_service.py`) | `stripe_events` | `POST /webhooks/stripe` | modelled: `Webhook` |
| Stripe | sessions, idempotency keys, events | create a session, emit and redeliver events | external: `Stripe` |
| Cart and anonymous session (`services/cart`, `dependencies/session.py`, `routes/menu`) | one JSON value per token (TTL 4 h) | menu, get, add, update, remove, clear | modelled: `Cart` |
| Catalogue (`services/catalog`) | `products`, product cache (TTL 24 h) | `get_product_by_id`, `list_active_products` | modelled in `Cart`; the list only reads |
| Checkout context (`build_checkout_context`) | none | prices the cart by the rows | `Cart` (data), `Checkout` (outcome) |
| Admin stream (`core/sse`, `services/sse`, `routes/realtime`) | Redis channel, queue per client | publish, listen, fan out, stream | modelled: `SSE` |
| Authentication and password reset (`services/auth`, `dependencies/auth.py`, `core/security`) | reset codes in Redis (TTL 10 min), signed cookies | login, Google login, logout, forget, validate code, update password | modelled: `Accounts` |
| Users (`services/user`) | `users`, a unique address each | create, update | modelled: `Accounts` |
| Mail (`services/messaging`, `core/rabbitmq`, `workers/smtp`) | RabbitMQ queue, SMTP worker | publish, consume, send | modelled: `Mail` |
| Infrastructure (`main.py`, `core/*`) | pool of three connections, one API process | acquire, release, crash | partly: `Connections`, crashes and TTLs everywhere; start-up, settings, logging are not |
| Tables, money | `tables`; none | lookup; rounding | partly: constant tables, whole cents |
| `scripts/load_test.py` | none | measurements | not modelled |

How they interact. The guest's cookie names a session in Redis. A checkout loads
the cart once, prices it by the database, claims an idempotency record, inserts
order and payment, asks Stripe for a session whose metadata names the order, and
answers its URL. Stripe's events come back to the webhook, which changes the same
rows in a transaction and, after the COMMIT, publishes to a Redis channel. One
listener per process reads the channel and feeds the queue of every admin stream.
A member of the staff who forgot the password gets a code: it is stored in Redis, its
mail goes through RabbitMQ to a worker process, and two signed cookies lead from the
request for the code to its validation and on to the new password. Every request that
touches PostgreSQL keeps one of three connections until it is answered.

What is hard: everything is `async`, so between two awaits any other request runs;
Redis, PostgreSQL, RabbitMQ and Stripe are changed one after the other without a
common transaction; a call may have been executed although it raised; Stripe repeats
and reorders events, RabbitMQ repeats messages; records, codes and cookies expire; the
processes die. `PROJECT.json` lists these hazards line by line with the properties
that watch them.

What makes each part correct:

- Checkout: one attempt at a time per key; retries lead to one page; nobody is
  sent to somebody else's page; a key is never blocked for ever.
- Webhook and rows: paid means charged, charged is never written off, the two rows
  agree, every outcome is announced at most once, retries lose no money.
- Cart: it adds up, its prices were real, the bill is of one moment of the checkout,
  requests made one after another all count.
- Stream: order, no duplicates, the newest events survive a full queue, no leak.
- Accounts: a password changes only after a code of that account was validated, a code
  is used up, counts only at the address it was mailed to, and the newest mail works.
- Mail: nothing is lost but what the mail server rejected, nothing overtakes.
- Pool: requests that hold connections never wait for each other in a circle, no
  connection is lost, everybody is served.

## 2. Modules

An arrow points to the module that extends the one before it; `[P]` marks a module of
proofs.

```
Deployment -> Store, Stripe
Store, Stripe -> Checkout -> MCCheckout        PayOnce  (abstract, instantiated by Checkout)
Store, Stripe -> Webhook
Checkout, Webhook -> Payments -> MCPayments
Deployment -> Mail -> Accounts -> MCAccounts
Cart -> MCCart        SSE -> MCSSE        Connections -> MCConnections

abstract, instantiated by   OrderLife: Payments   Feed: SSE
                            Outbox: Mail          Recovery: Accounts

Checkout -> Checkout_proofs [P]         Payments, Checkout_proofs -> Payments_proofs [P]
Mail -> Mail_proofs [P]                 Accounts, Mail_proofs -> Accounts_proofs [P]
                                        Accounts_proofs -> Recovery_proofs [P]
Cart -> Cart_proofs [P]   SSE -> SSE_proofs [P]   Connections -> Connections_proofs [P]
```

**Deployment** names the requests and counts failures. A checkout request causes at most
one order, payment and Stripe session, so its name stands for all three ids; in the same
way a request to `/auth` names its code, its mail or the password it sets.

**Store** keeps the status columns. `UpdatePaymentStatus` and `UpdateOrderStatus`
move a row only from the statuses the SQL allows; `OverwritePayment` is the
checkout's own UPDATE, which has no such guard.

**Stripe** is external: it is what the code relies on. An idempotency key belongs
to the account (the code passes the client's key as it is, `stripe_service.py:43`);
a second creation under a key names another order in its metadata, so Stripe
refuses it. Stripe keeps keys for at least 24 hours; the model covers that time.
One occurrence may be described by `Copies` distinct events.

**Checkout** has one action per await of `start_stripe_checkout`:

| Action | Code | | Action | Code |
|---|---|---|---|---|
| `Receive`, `RejectContext` | `validate_checkout_context` | | `MarkRequiresAction` | UPDATE, line 216 |
| `Lookup` | first GET | | `SaveCompleted`, `Reply` | lines 232, 245 |
| `Claim` | SET NX EX | | `MarkFailed`, `SaveFailed` | lines 194, 201 |
| `Relookup` | second GET | | `HandleErrorSave` | `_handle_error`, ids known |
| `CreateOrder` | the transaction | | `HandleErrorRelease` | `_handle_error`, DEL |
| `CallStripe` | `initiate_checkout_session` | | `ExpireRecord`, `Crash` | TTL, process |

Every call also has a failing action (`ReadFails`, `ClaimFails`, `CreateOrderFails`,
`CallStripeFails`, `MarkFails`, `SaveFails`, `HandleErrorFails`) in which the
command was executed or was not. `pc[h]` is where the handler waits, `record` what
Redis holds, `answer` what the client got; a URL is named by the order it collects.
The request hash is the pair of session token and validated cart.

**PayOnce** is the abstract promise: per key one page at most is opened, a client is
told only of the page that was opened for an identical request, and a page is paid
at most once, by someone who was told of it. `Checkout` maps `stripeKey` to `page`,
the URL answers to `told` and the charged sessions to `collected`. `Payments`, where
customers pay, is shown to implement the same specification.

**Webhook** runs one worker per delivery. `Register` is the INSERT that
deduplicates: a delivery of an event another open transaction has inserted waits.
From `dispatch` to COMMIT is one step, since `SELECT ... FOR UPDATE` locks both rows
and every other writer waits for them. `Publish` follows the COMMIT. Failing
statements, a COMMIT whose reply is lost (of an event with consequences or without:
`CommitUnacknowledged`) and a failing PUBLISH are actions.
The comparisons of table, session id and amount in `_validate_checkout_against_db`
always hold for events Stripe makes from what the checkout sent, so what is kept
of it is whether the rows exist.

**Payments** composes the two endpoints, the customer (who can pay only a page some
client was sent to) and a crash that takes both endpoints.

**OrderLife** is the abstract life of an order: placed, its money decided once at Stripe,
booked or written off accordingly, for good, and told of as it is, a success once.
`Payments` maps the orders as they are, a session's outcome to `money` (`Money`; declined
and expired are the same "lost") and the published messages to `told`. No worker, event,
payment row or record is in it: that retries, duplicates and crashes make no difference is
what the refinement says.

**Cart** has the whole cart as one value that each request loads, changes and writes
back. `rows`, `cache` and `session` are the three stores; `onSale`, `wanted` and
`overlapped` are history variables: what was sold at which price, what a session's
requests asked for, and whose latest requests ran at once. `wanted` starts anew from the
stored cart (`Watch`) when an overlap is over. The GET and the EXPIRE of a load are one step. A
crash needs no action of its own: to the stores it is a call of each request failing.

**SSE** follows a message from PUBLISH to the client. The fan-out is one step because
no holder of the manager's lock awaits anything. `Ping` may go out with a message in the
queue: `wait_for` may time out in the moment the message comes.

**Feed** is the abstract stream: an event happens while some clients are connected, and a
client hears an event newer than all it has heard, having heard the earlier ones or being
`Capacity` events past them. `SSE` keeps `offered` and `heard` and hides the channel, the
inbox, the queues and the generators.

**Mail** has RabbitMQ's queue, the message the worker has in hand and the mails that
arrived. `Enqueue` is `messaging_service.publish`: before the worker has declared the
queue, the default exchange drops the message, as it does in fact. `Take`, `SendMail` and
`Acknowledge` are the worker with `prefetch_count=1`; `SendFails` is the rejection
without requeueing by `message.process()`, `WorkerCrash` gives the message back to the
head of the queue.

**Outbox** is the abstract mail service: mails are accepted in an order, and the one that is
due goes out until it is settled or rejected, perhaps repeatedly; what comes before
anything was accepted may be dropped. `Mail` maps `published` to `sent` and the first of
the mails the broker still has (`Pending`) to `due`; a crash of the worker is a stutter.

**Accounts** has the `users` table, the codes in Redis, the two cookies of each browser
and the requests:

| Action | Code |
|---|---|
| `Receive` | arrival with the cookies of that moment; `logout`, which awaits nothing |
| `Create`, `Login` | `user_service.create`, `login` |
| `GoogleFind`, `GoogleInsert` | `google_login`, lookup and first login |
| `Lookup`, `Store`, `Publish` | `forget_password`: the row, SETEX, the mail and the cookie |
| `Verify` | the guards of `dependencies/auth.py`, `verify_token`: the token, then the row |
| `Compare`, `Delete` | `validate_reset_code`: GET and comparison, DEL and the second cookie |
| `Write`, `Rename` | `update_password_after_reset`, `update_me` |
| `CallFails`, `Crash` | a call raises, executed or not; the API dies |
| `ExpireCode`, `ExpireCookie` | the TTL in Redis, the cookie's lifetime |

A cookie is the token in it, since the code signs it: a client has just the tokens it
was given. A code the client types is one of a mail that arrived, or a wrong one.

**Recovery** is the abstract promise to the owner of an account: addresses are unique; a
code is drawn for an account and its address (`owner`), counts from `Put` until it lapses, a
newer one takes its place or it is spent, can be spent only after a mail brought it
(`mailed`), and only who spent one for an account changes its password. `Accounts` maps the
code of a request to the account and address its lookup found (`CodeOwner`), the codes in
Redis to `valid` (`ValidCodes`), arrived mails to `mailed` and accepted validations to
`spent`; requests, cookies, the queue and the worker are hidden. A validation compares and
deletes in two steps; the abstract `Spend` is the second, so the refinement shows that what
comes between them does no harm to the account.

**Connections** has a pool of `Size` connections and three kinds of requests: those that
run a guard and a statement, the checkout that keeps its connection through the call to
Stripe, and the webhook that waits for event ids and row locks. `Acquire` serves the
waiting requests in any order, which covers the order of the pool. A webhook has its
connection already while it waits for the body that Stripe sends (`ReadBody`). `Leave` is
an early answer or an exception at any point. What the statements do is in the other modules; here
they are only their locks.

Definitions named `Faulty...` are not part of any specification. Each is a plausible
mistake in the definition below it and is used to see that a property can fail.

## 3. Runs

| Run | Checks | Instance | States |
|---|---|---|---|
| `checkout_stalled` | `UrlMatchesRequest`, `OnePagePerKey`, `CompletedRecordBacked` | 3 requests, 2 tokens, 2 carts, 1 key, 2 failures, no timing assumption | 271 thousand |
| `payments_timely` | `SingleFlight`, `OneOutcomePerOrder`, `FailedTogether` | 2 requests, 2 workers, 2 events per occurrence, foreign events, 1 failure | 965 thousand |
| `payments_stalled` | `PaymentTypeOK`, `PaidTogether`, `ChargedNotFailed`, `PaidAnnouncedOnce`, `PaidIsFinal`, `ImplementsPayOnce`, `ImplementsOrderLife` | the same without foreign events and without timing assumption | 489 thousand |
| `payments_live` | `ChargedGetsPaid`, `PaidGetsAnnounced`, `KeyFreed` | 2 requests, 2 carts, 1 worker, unsupported events, 1 failure | 151 thousand |
| `webhook_policy` | `ResponsePolicy`, expected to be violated | 1 worker, 1 failure | stops at the first |
| `cart_tables` | `TypeOK`, `CartAddsUp`, `NothingLost`, `TokenKeepsTable` | 4 requests, 2 tokens, 2 tables, 2 products, 1 failure | 164 thousand |
| `cart_prices` | `PriceWasReal`, `BillOfOneMoment`, `BillIsSubtotal` | 4 requests, 2 products, 2 prices, pieces one at a time, 1 change, `AboutPrices` | 1.94 million |
| `sse_queues` | `TypeOK`, `PendingIsNewest`, `OnlyLateMiss`, `ImplementsFeed` | 2 clients, queue of 2, 5 messages, 1 break | 684 thousand |
| `sse_live` | `NoLeak`, `EventArrives` | 2 clients, queue of 1, 3 messages, 1 break | 75 thousand |
| `accounts` | `TypeOK`, `MailSettled` | 2 requests, 2 accounts, 2 addresses, 1 browser, 1 failure | 1.76 million |
| `reset` | `ChangeBacked`, `CodeSpent`, `NewestMailWorks`, `CodeAtAddress`, `ImplementsOutbox`, `ImplementsRecovery` | 3 requests, 1 account, 2 addresses, 1 browser, 1 failure | 3.4 million |
| `pool` | `SomebodyRuns`, `OneEach`, `Served` | 4 requests, 2 connections, 1 order, 2 events | 183 thousand |

Why these bounds. Two requests race; the third is needed for a retry that comes after
one of them and finds what it left, and for the three stages of a reset. Two tokens and
two carts are what a replay can confuse. Keys never meet, in Redis or at Stripe, so one
is enough (with two, the composition outgrows TLC). Two failures let an error handler
fail too, or a crash follow a lost reply. Two workers and two copies cover concurrent
duplicates of both kinds. A cart of two products and four requests covers opening, two
overlapping changes and a checkout; in `cart_prices` they put two products on one bill, or
two pieces of one, while one of them changes. That run has a state constraint,
`AboutPrices` of `MCCart`: it follows no behaviour further in which a request arrives that
empties the cart, only shows it or asks for the menu again, none of which looks at a price
(`cart_tables` has them all). A queue of two and five messages overflow more than once. Two accounts race for an address; one account with two addresses has codes under
two keys. Four requests for two connections let two hold and wait for locks while two
wait for them. The proofs of section 4 are about every size.

Symmetry is used only in runs without liveness, over sets whose members are not
ordered or named by any definition. Deadlock checking is off in every run: the
clients' requests are finite and a system that has served them stops. That the pool
never stops with requests in it is `SomebodyRuns`.

Timing regimes. `Stalls = FALSE` says that a handler ends before its Redis record
expires (an hour) and before its Stripe session does (a day by default, half an hour
at least). `Stalls = TRUE` drops both. `SingleFlight`, `OneOutcomePerOrder` and
`FailedTogether` need the first: without it a second handler may claim the key while
the first still runs, and the unguarded UPDATE of `checkout_service.py:216` may revive
the payment of an order whose session expired. Everything else holds without it.

Overlapping requests. When two requests of a session overlap, the later write wins and the
other change is lost. `NothingLost` says that nothing else loses one: it is about the time
before an overlap and again after it. `NewestMailWorks` is about requests served one at a
time and without failures, because a DEL that belongs to an older code may remove a newer
one. The part of `CodeAtAddress` that speaks of the
address the account has now excludes overlaps too: a rename may slip in between the guard
and the comparison. Each of the three watches the overlap in a history variable
instead of forbidding it, and all other properties of these runs hold with overlaps.

Fairness. `CheckoutFairness`: the event loop runs ready tasks and calls end, so each
handler's step is weakly fair; so is the expiry of a record, since Redis does remove
it. `PaymentFairSpec`: workers are weakly fair; Stripe redelivers events that were not
answered 200, which is strong fairness because a delivery needs a worker that is free
at that moment. Nothing is assumed of clients, customers or checkout handlers there;
`PaymentLiveSpec` adds `CheckoutFairness`. `PaidGetsAnnounced` cannot hold through every
failure: a publication that fails after the COMMIT loses the message. It says that
whatever failed before money is booked does no harm: unless something fails from then on,
the admins hear of it. Stripe's retries end after some days; the model
takes them as unbounded. `SSE`: listener and generators are weakly fair, which includes
that a client reads what it is sent or leaves; taking a message is strongly fair, since a
timeout passes over one only when both come in the same moment. `Accounts`: the mail worker
runs, Docker starts it again (`restart: unless-stopped`), and the mail server answers or
hangs up, for `email_worker.py:27` sets no timeout; nothing is assumed of the API.
`Connections`: each request's step is weakly fair: the calls to PostgreSQL, Redis and
Stripe end, and Stripe sends the body of its POST or hangs up, which
`routes/webhooks/router.py:19` awaits without a timeout. `Served` needs no more, though
newcomers may overtake: the instance has finitely many requests. No fairness makes
anything fail.

What the violation shows. `README.md:234` promises 200 for an event that is invalid
for the business; `routes/webhooks/router.py` answers 400 for every ValueError. TLC's
behaviour: the call to Stripe loses its reply, the payment is marked failed while the
order stays pending, the session expires, and its event is refused as a forbidden
transition. Only 200 ends Stripe's retries.

## 4. Proofs

Every safety property of the passing runs, invariant or action property, is proved for
every value of the constants: any number of requests, tokens, keys, carts, products,
accounts, clients, connections and failures; so is each of the five refinements. What a run
checks of `Checkout` alone (`UrlMatchesRequest`, `OnePagePerKey`, `CompletedRecordBacked`)
is proved of `Checkout` and of the composition, `Payments`. The assumptions are those the
modules name (`NoRequestAssumption`, `NumbersAssumption`, ...); TLC evaluates them in every
run.
Where a property needs the timing regime, its theorem assumes `~Stalls`. Few of the
properties are inductive; the strengthenings are the substance of the proofs.

**Checkout_proofs.**
- `PagesCorrect`: the inductive invariant `PageInv`. A replay answers what a record
  holds, a record holds what a handler wrote after Stripe accepted its session. `PageInv`
  says of each of these places that the order it names is a page (`IsPage`: Stripe's key
  belongs to it) made for an identical request: `SessionHasKey`, `PastCall` (handlers
  past the call), `RecordHasPage`, `AnswerHasPage`, and that running handlers are
  unanswered. Pages stay pages since Stripe gives a key away once. Every action is first
  shown to have one of the shapes of `Shape`, then each shape keeps each conjunct.
- `UrlCorrect`, `OnePageCorrect` follow. `CheckoutImplementsPayOnce`: initial states map
  to initial states, and each shape maps to `Open`, `Tell` or a stutter.
- `SingleFlightCorrect`: under `~Stalls`, the claim is a lock. `OwnersHold` says that an
  owner's record is there, so nobody else's SET NX succeeds.

**Payments_proofs** (on top of those lemmas).
- `MoneyCorrect`: `MoneyInv`. The difficulty is the unguarded UPDATE: `PageHidden` says
  that as long as a handler may still overwrite its payment (`Early`), no answer and no
  completed record shows its page (`Known`), so nobody can have paid; and that a page that
  is known has its rows (`Solid`). `RowsTogether`, `MoneyTrue` and `EventsTrue` tie the
  rows, Stripe's sessions and every event, delivered or not, to each other. It yields
  `PaidTogether`, `PaidIsGenuine`, `ChargedNotFailed`, `CompletedRecordBacked` and, step
  by step, `PaidIsFinal`.
- `FailedTogetherCorrect`, `OneOutcomeCorrect` need `TimelyInv`: a page only expires once
  its handler is done. `OneOutcomeCorrect` uses `OnceInv(M)`: of the messages M about an
  order, those published and those about to be are at most one, and none before the rows
  are final.
- `PaymentsImplementOrderLife`: `MoneyInv` makes every commit a `Book` or a `WriteOff` and
  every change at Stripe a `Decide` of a pending order. `LifeInv` adds what the messages
  need: one that is published or about to be says what its order is, and successes, published
  or pending, are at most one per order. `PaidAnnouncedOnceCorrect` follows from `LifeInv`.
- `CheckoutRecordBacked`: the part of `MoneyInv` about rows and records, `RowsInv`, is
  inductive for `Checkout` alone.
- `PaymentsImplementPayOnce`: `PageInv` survives customers, webhooks and crashes, and
  `PayersTold` (whoever paid, or tried to, had been sent to the page; answers never
  change) makes the moment of payment an abstract `Collect`. `PaymentsSingleFlight` carries
  the lock over to the composition.

**Cart_proofs.** `TypeInv` says what each request carries at each place. `TableInv`: a
request's copy is of the table of its token. `PriceInv`: what rows, cache, copies, sessions and
requests hold was on sale at some recorded moment, and a bill's rows are those of a moment
within its request; where a product had one price only (`Steady`), cart and bill therefore
agree. `LossInv`: in a session without an overlap just now the stored cart, and the copy
of the one request that runs, have what was asked for. From these: all seven safety
properties of the two cart runs.

**SSE_proofs.** `OrderInv`: what a client has heard, holds, has queued, and what is in the
inbox, are one increasing sequence up to the last number published. `PendingInv` (`EndOf`): a
queue is the end of what was offered to it. `LateInv`: an offered message is shown
somewhere, or a whole queue of newer ones was offered after it. `StreamImplementsFeed` needs
all of them and `FeedInv`: what a client was offered and what is still in the inbox is one
increasing sequence, and the message a generator holds is one of those offered.

**Mail_proofs, Accounts_proofs.** `MailInv`: what the broker has is the end of what it
accepted (`PendingIsEnd`), everything before is settled (`OverSettled`), and arrivals are in
turn, through crashes that put a message back. `Shaped` is the type with what a
request knows at each place. `CodeInv`: a code in Redis, or matched and about to be
deleted, was made for just that account and address; an accepted one is under no key.
`BackedInv` carries the accepted validation from the cookie through the request to the
password. `AddressInv`: the address of a code is the one that was asked for, and without overlaps
the row is as fresh as it was read. `NewestInv`: when nothing fails or overlaps, a mail's
code stands (it works, ran out, or was used) or another is about to overtake it.
`MailsImplementOutbox` maps the worker's steps by `MailInv` and `WorkerTrue`: what the worker
has in hand is the mail that is due, and once sent it is the last that arrived.

**Recovery_proofs.** `AccountsImplementRecovery` on top of `Shaped`, `CodeInv`, `BackedInv`,
`MailInv` and three facts of `RecoveryInv`: until its lookup a request has drawn
no code (`LookupsFresh`), only codes that were drawn are in mails (`PublishedMade`), and a
code a client types had arrived (`TypedMailed`).

**Connections_proofs.** `OneEachCorrect`, and `NoDeadlock` for `SomebodyRuns`: a request that
waits for a connection waits for those that have one and never want a second
(`OneEach`), those that have one wait for transactions further on (dispatch, then
commit), and a transaction at its commit waits for nobody.

Only model-checked: liveness (`ChargedGetsPaid`, `PaidGetsAnnounced`, `KeyFreed`, `NoLeak`,
`EventArrives`, `MailSettled`, `Served`), which is out of the prover's reach, as is
ENABLED; and `ResponsePolicy`, which does not hold.

Only proved: `PaidIsGenuine`, `HeardInOrder`, `MailPipeline` and `MailsInOrder`. No run checks
them by name, since `ImplementsOrderLife`, `ImplementsFeed` and `ImplementsOutbox` say more and
are checked instead; they are kept as the plain reading of those refinements.

## 5. Limits

- Redis and PostgreSQL keep what they acknowledged through a crash of the process
  (the compose file runs Redis with its append-only file); RabbitMQ keeps what is in its
  durable queue. A broken AMQP connection that does not take the process along is not
  modelled.
- One API process and one mail worker, as the compose file starts them.
- The request hash is exact for a validated cart. A cart that hashes differently on a retry
  (its rows came in another order) is another cart of the model: the retry is refused as
  another payload, and nothing in the repository promises otherwise.
- Amounts are whole cents: prices are NUMERIC(10, 2) and quantities integers, so the
  rounding of `money.py` meets only values that are exact already.
- Two random codes are taken to differ; a password matches its own hash alone; a
  signature is that of its token. What a wrong password or token is answered is modelled, how
  it is recognised is not.
- Mails published before the worker first started are dropped without an error; the model
  has this, `ImplementsOutbox` says that it happens only as long as nothing was accepted, and
  `MailSettled` is about mails the queue accepted.
- Two validations that both compare before either deletes are both accepted: `CodeSpent`
  says that the code is gone afterwards, not that it was accepted once.
- Rows of `users` are never deleted, in the code as in the model.
- The stream of the admins takes no connection from the pool: its dependency
  `require_admin_rank` returns the guard without running it (`routes/realtime/router.py:16`).

Not modelled, and why: `scripts/load_test.py` (a client for measurements); settings, logging
and the opening of connections at the start (no state that meets a request); the texts of
mails and answers; `list_active_products` and `get_comanda`, which only read. The
"canceled" statuses are in the schema and no code sets them.

## 6. Plan

Done: the payment path and its composition, the cart and the catalogue, the admin
stream, accounts with their mails, the pool, five abstract specifications (`PayOnce`,
`OrderLife`, `Feed`, `Outbox`, `Recovery`), and the proofs of all safety properties and all
refinements. What could still be added:

1. Several API processes: a second listener, requests that crash one process only.
2. The request hash as a function of the rows, with the order in which a SELECT returns
   them, to see which retries are refused as another payload.
3. `Connections` composed with `Payments`, so that the pool bounds the deliveries Stripe's
   retries need.
