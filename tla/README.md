# Verification of the T-shirt store API

TLA+ modules of the store's backend (NestJS, Prisma, PostgreSQL, Stripe,
BullMQ), TLC configurations that model-check them on small instances, and
theorems about them checked by TLAPS. Paths without a prefix are under
`src/src/`; "docs" is `src/docs/`.

## The system

Every service is a stateless request handler; all state is in PostgreSQL
(READ COMMITTED), in Stripe, and in a Redis queue. Several instances of the
server may run, so two handlers never exclude each other except through a
row they both update. Correctness rests on a few idioms: single `UPDATE`s
with a guard in the `WHERE` clause, whose count is then looked at; unique
indexes, total and partial; and transactions that claim a row first.

| Component | State | Operations | Interacts with |
|---|---|---|---|
| Orders (`orders/orders.service.ts`) | `orders.status`, `order_items`, `order_status_history` | create, cancel, process, ship, deliver | moves the counters of inventory and promo codes, resolves low-stock events |
| Checkout (`createOrder`) | what a call has read, not yet in its transaction | read cart, evaluate promo code, commit | deletes cart rows, reserves, redeems |
| Cart (`cart/`) | `carts`, `cart_items` | find or create, add, update, remove, clear | read and emptied by `createOrder` |
| Inventory (`skus.stock`, `reserved_stock`) | two counters and a `CHECK` | reserve, release, fulfil, restock, direct sale | written by orders, webhooks and the catalog |
| Promo codes (`promos/`) | `times_redeemed`, `usage_limit`, terms, expiry | create, update, redeem, give back | `createOrder`, cancellation |
| Payment intents (`payments/payments.service.ts`) | `payments`, intents at Stripe | create, reuse | checks the order, calls Stripe, inserts |
| Payment links (same file) | `payment_links`, links at Stripe | create an order, find or make the link of its SKU | the order reserves nothing; a sale that empties the shelf deactivates the row |
| Stripe webhooks (`payments/stripe-webhook.service.ts`) | `stripe_webhook_events` | fulfil, direct sale | claims the order, moves stock, opens low-stock events |
| Low stock (`notifications/low-stock.service.ts`) | `low_stock_events`, `stock_notifications` | open, resolve, enqueue | inside the transactions of sales, restocks and cancellations |
| Notification worker | the queue, `stock_notifications.status` | mail, then record | BullMQ retries |
| Likes | `likes` | like, unlike | read by low stock for the recipients |
| Stale-order sweep | none but its list of orders | every five minutes, on every instance | releases pending orders |
| Sessions (`auth/`) | users' password, refresh and reset tokens | sign up, in, out; refresh; forgot and reset password | a reset revokes the rows of all sessions |
| Catalog (`catalog/`) | categories, products, SKUs | create, update, (soft) delete, list | carts and orders refer to it |
| Product images | `product_images`, objects in S3 | upload, move, delete | no transaction joins the two |
| Authorization (`casl/`, guards) | none: the role is in the access token | admit or refuse a request | in front of every endpoint, before any query |

What is hard here, and what makes each component right:

- **Orders.** A buyer's cancellation, a manager's step, a webhook and the
  sweep race for one row. Whichever wins, units and promo code must be given
  back once, from the right counter. Right if no unit is promised twice, the
  counters always equal what the orders imply, and the status follows its
  lifecycle with a matching audit trail.
- **Checkout and cart.** The cart, prices, terms and limits are read at
  different moments before the transaction. Right if what was added once is
  never ordered twice, amounts add up, and an exhausted code is not redeemed.
- **Payments and webhooks.** Stripe charges, the API and the sweep do not
  wait for each other; the event row is committed before the work. Right if
  a paid order has exactly one real payment and no charge disappears.
- **Low stock and notifications.** One event per product open at a time,
  opened and resolved by different services; mail and row cannot be written
  atomically. Right if an open event is true, every job ends, and its row
  tells what happened unless a statement of the worker threw or it died.
- **Sweep.** Stale list, several instances, one exception for the whole run.
  Right if it behaves like a buyer who cancels, and if abandoned orders are
  released in the end.
- **Roles.** Ownership is a conjunct of seven `WHERE` clauses. Right if a
  foreign order cannot be told from a missing one, every row of the audit
  trail has an entitled author, and whoever must act on an order can find it.
- **Sessions.** A refresh is a read, a revocation and an insertion; a reset
  revokes what rows it finds. Right if a session never has two holders, a
  link works once, and no session of an old password survives.
- **Catalog, carts, likes, images, links.** None of these calls opens a
  transaction: each check may be stale at the next statement. Right if only a
  race, a failing service or a value beyond its column causes an unexpected
  error, tables keep referring
  to rows that exist, lists and their totals agree, and the database agrees
  with S3 and with Stripe.

The hazards, with their lines, are listed in `PROJECT.json`.

## Modules

| Module | Models |
|---|---|
| `Inventory` | the two counters of `skus`, `CHECK skus_stock_check`, each SQL statement that moves them as one operator |
| `Promotions` | the redemption counter and its guard, a manager's updates and expiry |
| `PromoTerms` | minimum, rounding and cap of a discount (`promo-evaluation.util.ts`); pure |
| `LowStock` | the open event of each product; opening aborts a transaction that meets an open event |
| `Orders` | EXTENDS the counters and events; one action per transaction of orders, payments and webhooks that moves an order |
| `OrderUnits` | sums of units over sets of orders, as cardinalities |
| `OrdersProps` | the properties of `Orders` |
| `OrderLifecycle` | abstract: the legal status changes of an order |
| `IdealStore` | abstract: a store without counters that accepts an order only if received units cover it |
| `OrderDesk` | EXTENDS `OrdersProps` and `Access`: who makes each request, `orders.user_id`, `changed_by`, what each role sees and is answered |
| `Access` | abilities per role, guard and policy of every endpoint, the error filter; pure |
| `StaleOrderSweep` | `Orders` with the cron job of several instances |
| `Checkout` | one cart and concurrent calls of `createOrder`, split into its three phases |
| `Payments` | one order, concurrent calls of `createPaymentIntent`, Stripe, the webhook handlers |
| `Notifications` | one product, from the sale that opens an event to the mail |
| `SessionChain` | abstract: a session opens once, passes from token to token, and stays closed once closed |
| `Sessions` | accounts, refresh and reset tokens; each call cut at its awaits |
| `Catalog` | categories, products, SKUs: every call of the three services, query by query |
| `Shopping` | EXTENDS `Catalog`: carts, likes, promo codes, and the lists read in two queries |
| `ProductImages` | EXTENDS `Catalog`: rows and S3 objects, with failures of both |
| `PaymentLinks` | EXTENDS `Catalog`: the link of a SKU, in the table and at Stripe |
| `Storefront` | composes the last four, with their properties |
| `MC*` | constants, symmetry sets and the bounded initial state of the instances |
| `OrderUnitsProofs`, `OrdersProofs`, `OrderActorsProofs`, `CheckoutProofs`, `PaymentsProofs`, `NotificationsProofs`, `SessionsProofs`, `StorefrontProofs` | theorems and their lemmas |

How state and actions correspond to the code:

- **One action is one transaction** where the code opens one, otherwise one
  statement or one await. `Orders` splits `createPaymentIntent`
  (`AskPaymentIntent`, `InsertPayment`) and the link checkout; `Payments`
  splits the former at every await and `handleEvent` at its three commits.
  A transaction is taken as atomic because each begins by claiming the order
  row it moves and otherwise uses relative, guarded `UPDATE`s that commute.
  A deadlock PostgreSQL breaks is a rollback, which the models have.
- **A transaction that throws** leaves the state unchanged. For a webhook it
  is recorded in `stuck`, since the event row inserted before turns every
  redelivery away. `FulfilFails` and `DirectSaleFails` fire exactly when a
  statement of the transaction breaks the `CHECK` or meets an open low-stock
  event.
- **Quantities** are functions from SKUs to units, since `(cart_id, sku_id)`
  is unique. An order keeps its line quantities in `items`; prices and
  amounts appear only in `Checkout`, where they matter.
- **Order ids** are split into `CartOrders` and `LinkOrders`, because only
  the former reserve. The program keeps no such column; that is why
  `CancelOrder` treats both alike, as the code does.
- **Histories** (`received`, `oversold`, `added`) are not in the database;
  properties compare the counters with them.
- **Cart rows** are known by SKU; `held[c]` is what is left of the rows call
  `c` read, so a row removed and added again is not mistaken for itself.
- **Calls of the storefront** are records: who asks (`by`), what (`op`,
  `arg`), the next query (`pc`), what was read (`total`, `found`) and the
  `answer`. Each query is one action, named after the method that runs it;
  nothing but the record survives an await. Requests refused by the guards
  of `Access` run no query and take no step; every other outcome, the
  unexpected error included, is an answer of the call. Two fields are
  histories: `seen` (the products a listing could rightly show at some moment
  while it ran) and `excuse` (what interfered with the call: a write of
  another one, S3, the database, Stripe, a value beyond its column). A query
  may throw wherever a call waits for the database (`QueryThrows`): because the
  database fails, with the effect of a last write or without, or because the
  value is refused, since numbers have a `@Min` and no `@Max` but go to an
  int4. Quantities of a cart and the total of a link checkout are compared with
  `MaxInt`; what else a column may refuse is a choice. Where the code catches
  the error (the clean-up of an upload, the races of carts and links) the step
  goes on as the catch does. New rows take the least unused id,
  so that the order of ids is that of creation; a like, which has no id of
  its own, keeps its `createdAt` (0 for no like). A page is cut from the
  rows in the order the code asks for (`PageFrom`), all four sorts of the
  product listing included.
- **Sessions**: a hash is its password, the access token leaves no trace.
  `gen` counts the resets of an account; a session remembers the one it was
  opened under, and the call that opened it names it (`chain`). `late` is the
  set of sessions a reset found between two tokens.
- **OrderDesk** adds to each action of `Orders` its caller. The answers of
  the endpoints are operators of the state, built from the same guards, so
  that "looks missing" can be compared answer by answer. A cancellation whose
  release breaks the `CHECK` answers the unexpected error (`CancelRefused`).
- **Stripe** is external: an intent can be charged once by whoever holds its
  secret unless canceled, a link's session whenever its page is paid, and
  events are delivered until answered. **BullMQ** is external: attempts are
  counted per throw, a dead worker's job is handed on until it has stalled more
  than `MaxStalledCount` times, and then failed without the worker's doing.
- **Notifications**: a job waits, has `mailed`, is in the catch (`failing`) or
  is `over`. The read outside the `try`, the mail, the UPDATE to `sent` and the
  UPDATE of the catch each fail on their own; an UPDATE that throws may have
  been committed. `disturbed` is a history: the jobs on which a worker died, a
  statement threw or the SMTP server's answer was lost.

## Runs

| Run | Instance | Shows |
|---|---|---|
| `cart` | 2 cart orders, 2 SKUs of 1 product, 1 unit each and up to 2 by restocks, 1 promo code with limit 1 or 2, threshold 0 | `TypeOK` (the `CHECK` included), `NoOverselling`, `OpenEventIsTrue` (an event opened by one SKU and closed by the other included), `PromoLedger`, and refinement of `IdealStore` |
| `desk` | 1 cart and 1 link order of one SKU; 2 clients, a manager, 2 delivery persons | the two ledgers as they really are when links take part, refinement of `OrderLifecycle`, `PaidOrdersAreFrozen`, `HandsOnOrder` (the audit trail and its authors), `ForeignOrdersLookMissing`, `SomeoneCanAct`, `SightIsLostToADeliverer` |
| `sweep` | 2 instances, 1 cart and 1 link order, 1 SKU, 1 promo code | refinement of `Orders`' own `Spec`, `HealthySweepReleases` |
| `checkout` | 2 calls, 2 SKUs with 1 and 2 units, prices 1 and 3, a half off and 4 off from 2, limit 1 | `NoUnitOrderedTwice`, `OrderAddsUp`, `OrdersStandingRows` |
| `payments` | 3 calls, 1 link session | the partial indexes, one usable intent, a payment behind each paid order, no charge lost, every event answered |
| `notifications` | 2 users, 1 event, 3 attempts, 1 stalled job handed on | what the row tells (`RowTellsOutcome`), every queued job settled (`QueuedIsSettled`) |
| `sessions` | 1 account, 4 calls, 3 refresh and 2 reset tokens, 2 passwords | `OneHolder`, `OnlyLateSessionsSurvive`, `LinkWorksOnce`, `OldLinksAreDead`, and refinement of `SessionChain` |
| `storefront` | 2 calls (3 checkouts), 3 ids of each table (4 images), pages of 1, int4 up to 2 | rows refer to rows (`StoreTypeOK`), `UnexpectedErrorsAreExcused`, `ShoppersNeverMeetAnError`, listings (`PageShowsWhatWasVisible`, `TotalIsReachable`), `CodesIgnoreCase`, `LaterImageComesLater`, `ImagesMatchObjects`, `LinksMatchStripe` |
| `oversell`, `lowstock`, `second_charge`, `survives_reset` | the smallest that shows it | a disagreement between code and docs, see below |

Each property of a passing run has a mutant in `PROJECT.json`: a plausible
bug, written as an operator next to the definition it replaces, that makes
the property fail in that very run.

**Bounds.** `MaxQty` (units per line) is 2 where lines can exceed what is
left, `MaxStock` stops restocks, `MaxAdded` stops refilling the cart,
`MaxEvents` is one low-stock event, since the jobs of two share nothing;
`Attempts` is the 3 of the code and `MaxStalledCount` BullMQ's default of 1. In
`cart` the two SKUs belong to one product, whose event either of them opens and
closes. Two orders are enough for every race
on one counter because counters are moved by relative updates: a third order
only repeats what the second does, except where a released unit must be
taken again, and `oversell` has three. Two calls suffice for the cart, since
a claim has one winner and one loser; `payments` has three calls, as a winner
paid between two losers is a case of its own. Four calls on one account are
a sign-in, a request for a link, the reset and whatever races it; accounts
share nothing but the shape of their rows, so one is enough. In `storefront`
the calls of a behaviour come from one *scope*, a group of operations on the
same tables (`MCStorefront.Scopes`): calls that share no table commute. Two
calls are enough for a check made stale once; the claim of a payment link
needs three (a winner and two losers, or a sale in between). History is in
the initial states instead: products active, disabled and deleted, a cart
there or not, rows with and without likes, images at two positions. A page of
1 makes the last page and the one behind it happen; a third product is there
where listings are. `Queries` holds one filter or the second page, since the
filters are conjuncts of one `WHERE`; `MaxInt`, the largest int4, is 2, so that
a row overflows by one call or by the sum of two; `MaxPosition` bounds the
positions asked for, `Limits` and `Terms` what a promo code may say. Intermediate amounts: half of 3
cents is rounded, 4 off exceeds the subtotal of two lines of 1.

**Deadlock checking is off** everywhere: every instance runs out of orders,
calls or events, and the store is allowed to have nothing to do.

**Fairness.** Nobody is obliged to buy, pay, cancel or edit, so nothing a
person does is fair. `SweepFairness`: the clock moves on, the cron fires, a
run goes on to its end (`waitForCompletion` keeps runs of one instance
apart); steps of a run are one fair action, as the rows of its query have no
order the code could rely on. `Payments`: Stripe delivers, and a handler
comes to one end or another, `Abandon` (crash, exception) included. A call of
the API may be dropped half way. `Notifications`: a worker goes on with its
jobs; failures are not bounded by fairness but by `Attempts` and
`MaxStalledCount`.
Enqueuing is not fair: the server may die first.

## What the runs found

1. **Releasing what was never reserved** (`oversell`). A link order is
   created without a reservation, but its cancellation, or its payment
   through an intent, decrements `reserved_stock`. If another order holds
   units, they are released under it and sold twice; if none does, the
   `CHECK` makes the cancellation fail, and the sweep's run ends there, on
   every tick: `HealthySweepReleases` is stated for runs no release throws in.
2. **Lost sale after a low-stock event** (`lowstock`). The caught unique
   violation of `detectAndOpen` has already aborted the sale's transaction.
3. **Second charge taken for a duplicate** (`second_charge`).
   `createPaymentIntent` does not look at the order again before inserting.
4. **A session that outlives the reset** (`survives_reset`). `signIn`
   compares the old password before the reset commits and issues the session
   after; so does a refresh that has revoked its token and not yet inserted
   the next. `OnlyLateSessionsSurvive`, which holds, says these are the only
   ones.

Behaviour the models have, which the docs do not promise otherwise or which
a passing property states with its exception:

- A direct sale that hits no row is still marked paid; cancelling it adds
  units to stock that never left it (the phantom units of `StockLedger`).
- A failed `UPDATE` after the mail repeats the mail, and may leave the row
  `failed` for a mail that arrived; a read or an `UPDATE` of the catch that
  throws at the last attempt, or a job failed as stalled, leaves the row
  `pending` for ever (`disturbed`).
- A pending order whose reservation was given back by the cancellation of a
  link order, and a link order that finds nothing reserved, cannot be
  cancelled: the answer is 500 (the exception of `SomeoneCanAct`).
- A quantity, or a sum of quantities, beyond an int4 is answered 500.
- An upload whose INSERT took effect and threw removes the object of the row
  it left; a DELETE that took effect and threw leaves the object.
- Two overlapping `forgotPassword` calls may leave two live links; a reset
  link consumed by a request that dies leaves the password as it was.
- A webhook event whose handler dies after the first commit is processed by
  no redelivery (`Abandon`).
- A cart quantity raised after `createOrder` read it is deleted with its row.
- A SKU deleted after it entered a cart is still ordered; a SKU may be
  reserved between the check and its soft deletion.
- A payment link is reused whatever its SKU costs by now; a sale deactivates
  its row, not the link at Stripe, and a reservation deactivates nothing.
- `findFirstOrThrow` after a lost claim answers an unexpected error when a
  sale deactivated the winner in between (`excuse` "race").

The passing runs say how far the damage goes: `ReservationLedger` and
`StockLedger` state what the counters hold with these behaviours included
(each equation names the set of orders it is off by), and hold for all
interleavings. Without link orders both reduce to what one expects.

## Proofs

`OrdersProofs` (about `Orders`, for any number of orders, SKUs, products,
codes and quantities):

| Theorem | States |
|---|---|
| `TypeCorrect` | `Spec => []TypeOK`, the `CHECK` of `skus` included |
| `ReservationsBalance` | `reserved_stock` equals the units of pending cart orders, minus what link orders released |
| `StockBalances` | `stock` equals what was received, minus what is sold, plus the phantom units |
| `CartOrdersNeverOversell` | with `LinkOrders = {}`: no overselling, no refused statement, restocks return what was sold |
| `RedemptionsCounted` | `times_redeemed` is the number of live orders using the code |
| `StoreKeepsLifecycle` | `Orders` implements `OrderLifecycle` |
| `CartStoreIsIdeal` | with `LinkOrders = {}`: `Orders` implements `IdealStore`, the store without counters |
| `PaidOrdersStayFrozen` | lines, code and payment of a paid order never change |
| `OpenEventsAreTrue` | the product of an open low-stock event has a SKU at or under the threshold |
| `TrailTellsTheOrder` | the audit trail starts at pending, ends in the status, and has a paid row exactly when a payment succeeded |

The ledgers are not inductive alone. Their invariant is `BooksHypothesis`:
type correctness, both ledgers, `PaymentMatchesStatus` (without it one
cannot tell which set a cancelled order falls in) and `LinkOrderHasOneLine`
(without it the quantity a direct sale rewrites would not be the order's
whole). The argument: a step moves one order; `BooksMove` says how the four
sums of units change with it; `BooksBalance` turns that and the change of the
counters into the ledgers of the next state; and there is one lemma per kind
of step (`CreateOrderBooks`, `FulfilBooks`, `CancelOrderBooks`, ...) for the
rest. `OrderUnitsProofs` has the cardinality facts: what adding, removing
or changing one order does to a sum. `CartOrdersNeverOversell` is then
arithmetic on the ledgers and the `CHECK`, and so is the step of
`CartStoreIsIdeal` that matters: what is available (`PlacedFits`) is what was
received less what is pending and sold. `PaidOrdersStayFrozen` rests on
`PaymentMatchesStatus`; `OpenEventIsTrue` is inductive given the types.

`OrderActorsProofs` (about `StaleOrderSweep` and `OrderDesk`, for any number
of servers, clients, managers and delivery persons):

| Theorem | States |
|---|---|
| `SweepIsACancellingBuyer` | `StaleOrderSweep` implements `Orders`: everything above holds next to the sweep |
| `DeskImplementsOrders` | `OrderDesk` implements `Orders`: guards and `WHERE` clauses only take behaviours away |
| `BooksHoldAtTheDesk` | types, both ledgers and the lifecycle hold whoever calls |
| `TrailIsSigned` | every row of the audit trail was written by a hand entitled to that step of that order |
| `ForeignOrdersStayHidden` | no endpoint tells a client a foreign order from a missing one |
| `SightIsOnlyLostSo` | an order leaves a user's sight only when someone else delivers it |
| `NoOrderIsStranded` | with a manager and a delivery person, every unfinished order is seen by someone who may move it; only the cancellation of a pending order whose units were taken may fail |

The invariant is `DeskInv`: types, `AuditTrail`, and `Hands`, which reads the
authors (`by`) and the statuses (`history`) row by row. `HandsOnOrder` alone
is not inductive: a step appends to both columns, so they have to be known to
be of one length, and whether the new row's author was entitled follows from
the guard of the endpoint and from the status the order came from, which
`AuditTrail` ties to the last row. The three properties of sight are then
arguments about one state or one step: the guards of `Access` are evaluated
once per role (`OrderRoutes`), the rest is `ownershipWhere` against
`visibilityWhere`. `Staffed`, that each of the two staff roles has someone in
it, is a hypothesis of the last theorem only; where its exception does not
apply, `ReservationLedger` shows the units to be there (`UnitsAreThere`).

`CheckoutProofs`, `PaymentsProofs` and `NotificationsProofs` (for any number
of calls, SKUs, prices and codes; of calls and link sessions; of users, events
and attempts):

| Theorem | States |
|---|---|
| `CheckoutIsTyped` | rows and calls are well formed; a call holds only rows it read |
| `UnitsAreOrderedOnce` | units added to a cart once are never ordered twice |
| `OrdersTakeStandingRows` | an order takes whole rows that stood in the cart since they were read |
| `DiscountIsBounded` | a discount lies between 0 and the subtotal (a percentage is that of the nearest cent, `PercentIsNearest`) |
| `AmountsAddUp` | an order's total is the subtotal of its own lines less such a discount |
| `PaymentsAreTyped` | rows and calls are well formed |
| `RowsStayUnique` | at most one pending and one succeeded row per order |
| `PaidMeansCharged` | a paid order has a real charge behind it |
| `IntentsAreUsable` | while no payment of the order succeeded, every secret handed out is that of its pending row, and not canceled |
| `ChargesAreKept` | a charge processed to the end is in the log, or the order has a succeeded payment, its own or another's |
| `NotificationsAreTyped` | jobs and rows are well formed, pending purchases do not exceed the units left |
| `RowsTellOutcomes` | a row that says sent is never wrong; undisturbed, the row of a finished job tells what became of the mail |

`NoUnitOrderedTwice` is not inductive: nothing in it says that the row a call
read is still in the cart when the call commits. `UnitsInv` adds that every
row a call holds exists and that the quantity it *read*, on top of what is
ordered of that SKU, stays within what was ever added; the claim
(`held = Lines(read)`) then lets the transaction order exactly that.
`OrderAddsUp` is about finished orders; `AmountsInv` says of a call that has
priced its cart and not yet committed that its discount lies within the
subtotal of the very lines it will write, whatever prices have become since.
Subtotals are cardinalities of sets of cents, so no induction over the lines is
needed.
`PaymentsInv` adds to the five properties how rows follow calls (a row means
its call is done, a canceled intent never gets one) and that a processed event
finds a succeeded row or leaves a warning; most steps only move a call, which
is one lemma (`CallMovesKeep`). `NotificationsProofs` has two invariants:
`ShelfInv` counts purchases against units, without which the type of `units`
is not preserved, and `JobsInv` relates each job to its row, its mails and its
attempts, exactly as long as the job is undisturbed.

`SessionsProofs` (about `Sessions`, for any number of accounts, calls and
tokens):

| Theorem | States |
|---|---|
| `SessionsAreTyped` | rows and calls are well formed: what a call read before an await is still there |
| `SessionsHaveOneHolder` | one unrevoked token, or one call between two tokens, per session |
| `ResetClosesSessions` | only sessions a reset found between two tokens survive it |
| `ResetLinksWorkOnce`, `OlderLinksStayDead` | a link changes the password once; older links are dead |
| `SignUpsAreExclusive` | one of the concurrent sign-ups with one e-mail creates the account |
| `SessionsImplementChains` | `Sessions` implements `SessionChain` |

The invariant is `SessionsInv`: type correctness, and three parts none of
which is inductive as its property stands. `HolderInv` adds to `OneHolder`
that a session is only held under the name of a call that has begun
(otherwise a sign-in could open one a second time) and that a holder's
generation is its user's unless it is late. `LinkInv` counts, for each link,
the resets committed with it and those that have consumed it and wait to
commit: together at most one. `SignUpInv` adds that an account with a creator
is registered. Most steps create no holder, which is one lemma
(`NoNewHolderKeeps`); `StepKinds` sorts the steps into that kind, openings,
rotations, issues and resets, and the refinement maps each kind to a step of
`SessionChain` or a stutter.

`StorefrontProofs` (about `Storefront`, for any number of calls, users, rows,
links and images, and any size of a page):

| Theorem | States |
|---|---|
| `RowsReferToRows` | rows refer to rows that exist, whatever calls race |
| `UnexpectedErrorsHaveACause` | an unexpected error means that another call wrote in between, a service failed or a value did not fit its column |
| `ShoppersSeeNoError` | on carts, likes and promo codes no race causes one: only a database that failed or a value that did not fit |
| `PagesShowWhatWasVisible` | a listing shows only products its filters matched at some moment while it ran |
| `TotalsAreReachable` | the total of an undisturbed list is what its pages reach |
| `ImagesKeepTheirObjects` | a row has its object, unless its upload cleaned up after an INSERT that took effect; an object without a row has a call at work on it, one that S3 failed, or a DELETE that took effect and threw |
| `LinksHandedOutWork` | a checkout hands out a link of its SKU; a working link without a row has a call that deactivates it or one that failed |
| `CodesAreFoundInAnyCase` | a code is found in whatever case it is typed |
| `ImagesAreAppended` | an undisturbed upload comes after all images of its product |

The invariant, `StoreInv`, has three parts. The tables are in order
(`CatalogTables`, `ShopTables`, `ImageTables`, `LinkTables`). Each call may
rely on what it has read (`CatalogFact`, `ShopFact`, `ImageFact`,
`LinkFact`): what it checked still holds as long as its `excuse` is empty,
and, excused or not, a row it knows never becomes unused again. And things
outside the database have an owner: an upload owns its key and a checkout the
link it made (`ImageCalls`, `LinkCalls`), and an object or link without a row
has a call that `AnswersFor` it. None of the properties is inductive without
the second part, since every call trusts at one query what it saw at another.
Steps come in a few shapes: a query moves only its own call, a query that
throws ends it (`Thrown`), a write marks all other calls in flight (`Marks`), and the operations of the four modules are
disjoint, so that each module's steps leave the calls of the others alone
(`Rests`).

The two properties of lists rest on a second invariant over the first,
`ListsInv`: the total counted and the page cut agree with the tables while
nothing has written (`QuietKeepsTheFact`, `WriteKeepsTheFact`). That the pages
reach every row is a fact about orders: the place of a row is the number of
rows before it, and a strict total order on a finite set takes every place
(`PlacesAreTaken`, `PageIs`, and `ProductPageIs` for the four sorts).
`HalvesAgree` says that the count of the first query and the rows of the
second are of the same set.

Assumptions are the `ASSUME`s of the modules: finite sets of ids and SKUs,
disjoint kinds of orders, natural bounds. TLC evaluates them in every run.

**Only model-checked.** Every safety and action property of the passing runs
is a theorem, some under the name of the module they come from: `desk` checks
`ReservationLedger` and `StockLedger` next to their callers, `sweep` the
refinement. What stays with TLC is liveness under fairness, out of this
prover's reach: `HealthySweepReleases`, `EveryChargeIsAnswered` and
`QueuedIsSettled`. The four disagreements above are counterexamples and so
TLC's as well. `NoOverselling` and `ImplementsIdealStore`, which `cart` checks
without link orders, are theorems under that same hypothesis
(`LinkOrders = {}`): with link orders they are false, which `oversell` shows.

## Not modelled

- **Users** (`users/`): a lookup and a profile update nothing else reads.
- **Prisma, mail, configuration, DTOs**: adapters of libraries, validation of
  single fields and formatting. Requests in the models are those validation
  lets through.
- **Fields without consequences**: names and descriptions of products,
  shipping details, the currency, a category's slug (it goes with its name);
  the text search and the least price of a listing, which narrow `where` as
  the filters that are modelled do.
- **Cryptography**: hashes, the access token's and Stripe's signatures. A
  token is the identity of its row, an access token the role of its caller.
- **Partial updates**: `updateSku` and `updatePromo` set every field. A field
  left out keeps what the row holds when it is written, as one does that is
  set to that value.
- **Two workers on one job**: BullMQ may hand on the job of a worker that lost
  its lock and lives; here a job is handed on when its worker died.
- **Row locks inside a transaction.** Transactions are single steps, so two
  orders that lock the same SKU rows in opposite orders do not meet half way;
  PostgreSQL ends such a deadlock by aborting one, and an abort is a rollback,
  which the models have.
- `createOrder` on a real cart and the storefront are separate modules: the
  cart of `Checkout` is edited by the same statements as that of `Shopping`,
  and `Storefront` sees of orders only reservations (`Reservation`) and sales
  that empty the shelf (`SoldOut`).

## Plan

The system is modelled as far as it will be, and the safety properties its
runs check are proved. What is left, in order:

1. `Checkout` and `Shopping` edit the same cart: that a call of `Shopping`
   moves the cart as a step of `Checkout` does is stated nowhere yet.
2. `Orders` condenses `createPaymentIntent` into `AskPaymentIntent` and
   `InsertPayment`, and a webhook into one step. That `Payments`, which cuts
   both at every await, moves the rows of an order as those steps allow is to
   be stated as a refinement of an abstract module both can be mapped to, and
   proved.
3. Shorter proofs where steps repeat, above all in `StorefrontProofs`.
