# A verification project for the commerce API

TLA+ models of the stateful logic of `src/apps/api` (NestJS, Prisma, PostgreSQL):
stock, orders and payments, carts and checkout, returns and refunds, the delivery of
events and mails, and seven smaller machines. TLC configurations check them on small
instances; TLAPS proofs establish every safety property the passing runs check for
every size of instance.

Contents: 1 the system, 2 what is hard in it, 3 the modules and how they
correspond to the code, 4 the runs and their bounds, 5 fairness, 6 the proofs,
7 what the code does differently from its comments, 8 what is not modelled,
9 what could follow.

## 1. The system: inventory of components

`src/` is a monorepo. `apps/api` holds all authoritative state; `apps/admin`
and `apps/web` are clients of it; `deploy/`, `scripts/` and `docs/` are
operations and prose. The API is one NestJS process per replica. It has no
in-memory state that matters: the state is the PostgreSQL database
(`prisma/schema.prisma`), the payment provider's, and the file storage. Concurrency
therefore means HTTP requests, webhook deliveries and background timers, in one
process or in several, whose database statements interleave at READ COMMITTED isolation.

The code base protects itself with four devices, and every model below has to
get their exact extent right:

- **conditional updates**: `updateMany` with the expected status or quantity in
  its WHERE, and a check of the number of rows it changed;
- **advisory locks** (`pg_advisory_xact_lock`) on a cart, coupon, order, payment,
  return or inventory identity, held until commit;
- **unique keys** (idempotency keys, the webhook ledger, outbox keys, one variant per
  combination) whose violation is caught;
- **transactions** that group several of these. Some reads are made *before*
  the transaction that acts on them, and some components use no transaction at all.

| component | state | operations | interacts with | hard behaviour | correct when | module |
|---|---|---|---|---|---|---|
| Inventory (`modules/inventory`) | `InventoryItem` (onHand, available, reserved, committed), `StockReservation` | initialize, adjust, transfer, restockFromReturn, reserve, release, consume, releaseCommitted, fulfil, sweep | checkout, payments, orders, returns, admin routes | reads outside the transaction, two calls and a sweep on one row, expiry | counters equal the reservations; never oversold; a firm hold ends only by shipment or explicit release | `Inventory`, `StockPool`, `InventoryPool` |
| Inventory ledger | `InventoryTransaction` | written by every movement | inventory | figures read before the update | read by nothing | none |
| Orders, payments | `Order`, `Payment`, `PaymentWebhookEvent` | session, retry, callback, webhook, capture, finalize, cancel, pack, ship | inventory, coupon, outbox, provider | webhook against callback, redelivery, crash between capture and finalization, cancellation meanwhile | all lines firm and order confirmed together; every event acknowledged; nothing shipped twice | `OrderPayment` |
| Provider order creation | `Payment.status`, `providerOrderId` | claim, create, poll, reconcile by receipt | provider | lost answers, crash after the claim | at most one remote order per attempt, found again when its answer was lost | `PaymentSession` |
| Cart and checkout | `Cart`, `CartItem`, idempotency key | add, change, remove, merge at login, expire, createCheckout | inventory, coupon, orders | same key twice, one cart in two tabs, merge against checkout | a unit put in a cart is ordered at most once | `Checkout` |
| Coupon redemption | `CouponRedemption` | evaluate, reserve, consume, release | checkout, orders | usage limits under concurrency | limits never exceeded; the redemption follows the order | `Checkout`, `OrderPayment` |
| Discount engine, refund calculation | none (pure) | discount, totals, refund of units | checkout, refunds | rounding | parts add up to the whole | `Pricing` |
| Returns | `ReturnRequest`, `ReturnItem` | request, decide, receive, inspect, restock | inventory, refunds | two requests for one line, an inspection sent twice | no more returned than delivered; restocked once | `Returns` |
| Refunds | `Refund` | initiate, recover | provider, returns, outbox | unknown outcome, late request, concurrent recovery | one refund per return, within the payment | `Refunds` |
| Outbox, notifications, email | `OutboxEvent`, `Notification` | record, claim, dispatch, send, retry, reclaim | all that announce something | slow owner against reclaim, several replicas, crash between send and SENT | nothing marked done was not done; every row settles | `Delivery` |
| Product images | `ProductImage`, files | upload, remove, set primary, reorder | storage | no transaction, counts read before writes | every row has its file; one primary | `Gallery` |
| Categories | `Category.parentId` | create, move, edit, delete | catalogue | two moves at once | no cycle | `CategoryTree` |
| Catalogue | `Product`, `ProductVariant`, `AttributeValue` | create, duplicate, update, status, delete, generate | inventory, orders | soft deletes, checks before writes | nothing deleted under what refers to it | `Catalogue` |
| Reviews | `ProductReview` | write, edit, moderate, delete | outbox | approve, edit, approve again | a standing decision was taken on this text and announced | `Reviews` |
| Wishlist | `WishlistItem` | add, remove, move to cart | cart | claim, then add, then restore | moved once or still listed | `Wishlist` |
| Authentication | `RefreshToken` and others | login, refresh, logout, reset | admin client | rotation with reuse detection | a client stays signed in | `Sessions` |
| Promotions, warehouses, shipping methods, settings, contact, blog, slides | their tables | CRUD | admin and web | little | validation | none |
| Storefront, analytics, diagnostics, health, metrics, audit log | none of their own | read, or write-only records | all | none | | none |
| Payment provider, customer (external) | remote orders, refunds, captured money | create, pay, decline, refund, webhooks | payments, refunds | late, repeated, reordered, lost | modelled as it may behave | in the above |
| Admin and web front ends, deployment | none authoritative | | API | tabs sharing a token | | `Sessions` (token client only) |

## 2. What is hard here

`PROJECT.json` lists the hazards line by line, each with the properties that would
catch it. They fall into these groups.

1. *A status read before the transaction.* `release()`, `consume()`,
   `releaseCommitted()`, the merge of carts, the recovery of refunds: the
   conditional update inside must carry the whole decision, and sometimes there is none.
2. *Several finalizations of one order.* The customer's callback, any number of
   webhook deliveries and a second worker may all run
   `finalizeReservationsAndConfirmOrder()` at once, while the order is being
   cancelled, its holds lapse and a retry places new ones.
3. *All or nothing over several tables.* Confirmation touches holds, counters,
   coupon, order and outbox; a checkout cart, order, redemption and holds; a completed
   refund its row, the return and the outbox.
4. *Exceptions inside transactions.* A thrown exception undoes what was done
   "for real" before it, and a caught unique violation leaves PostgreSQL's
   transaction aborted, so the commit is silently a rollback.
5. *Crashes, lost answers and late requests* around the provider, the mail server
   and the file storage, which take part in no transaction.
6. *Owners taken for dead.* A worker that is slow, not dead, loses its row to
   another and writes its outcome all the same.
7. *Time.* Holds, carts and tokens expire under the feet of any request.
8. *Checks apart from writes.* Categories, images, catalogue: no lock, no
   transaction; what holds there holds for calls that do not overlap.
9. *Rounding* of discounts and refunds to cents in several places.

## 3. The modules

Every module says at its head what it leaves out. In all of them a call in flight is
a record whose `op` names the read, the lock, the transaction or the request to
someone else that it makes *next*; its other fields are what it has read so
far, which may no longer be true when it is used. Everything between two such points is
one step.

### Inventory

`Inventory.tla` models `inventory.service.ts`. `item` is the `InventoryItem`
table indexed by warehouse and SKU (a row that does not exist yet has
`exists = FALSE`), `resv` is the `StockReservation` table, `req` the service
calls in flight.

| model | code |
|---|---|
| `Initialize`, `StockIn`, `StockOut`, `Transfer`, `RestockFromReturn` | `initialize()`, `adjust()` by sign, `transfer()`, `restockFromReturn()` |
| `Reserve` | `reserve()` |
| `BeginRelease`, `FinishRelease` | the read and the transaction of `release()` |
| `BeginConsume`, `ReadClock`, `FinishConsume` | the read of `consume()`, the clock it compares `expiresAt` with, and its transaction |
| `BeginReleaseCommitted`, `FinishReleaseCommitted` | the same of `releaseCommitted()` |
| `Fulfill` | `fulfillOrderReservations()` |
| `BeginSweep`, `SweepRow`, `EndSweep` | `releaseExpiredReservations()`: the list of expired rows, then one transaction per row; the scopes are those its callers use |
| `Lapse` | the clock passes `expiresAt` |

*One transaction, one step.* A transaction whose writes are conditional updates
is one step, taken when it commits. For other *writers* that is exact: PostgreSQL at READ
COMMITTED re-evaluates the WHERE of an update after it has waited for a row lock, and keeps
the lock until commit, so once the first conditional update has succeeded no other writer
of that row can come in between; the remaining updates of the transaction are
increments. For *readers* it is exact because they see nothing of the transaction before
its commit. Two things the step relies on are older than the commit and are
therefore steps of their own: what the transaction has read before its update, and the clock. `consume()` computes
`new Date()` before its UPDATE, so a hold may expire, and be listed by a sweep as ACTIVE
and expired, and become COMMITTED all the same (`ReadClock`). One simplification is exact
for the properties: in a sweep the read and the transaction of each
`release()` are one step, since the outcome depends on the row's status at the
update only. Where a transaction writes rows that no conditional update has locked,
its statements are separate (`RemoveVariants` and `RemoveProduct` of `Catalogue`).

*Time* is a Boolean per reservation: `expired` becomes true at an arbitrary
moment and stays so. Nothing in the code compares two expiry times.

*Sums.* `Total(rows, S, i)` is the number of units the reservations in `S` hold
of item `i`, defined as the cardinality of a set of pairs rather than by
recursion, so that theorems about it can be proved.

`StockPool.tla` is the abstract specification: an item is a number of physical
units, a hold takes units from what is free, becomes firm or is given up, and
firm holds of an order ship together. It has no counters for free, reserved or
committed stock, and no requests. `InventoryPool` defines the refinement mapping
(`stock` is `onHand`, a hold's stage is the row's status) and
`ImplementsPool == Pool!Spec`: the four cached counters and the
conditional updates act as a pool would that computed free stock afresh each time.

### OrderPayment

`OrderPayment.tla` composes the order, its payment attempts, its coupon and the
requests working on them with the row updates of `Inventory` (`Stock ==
INSTANCE Inventory`, over the same `item` and `resv`). It models
`payment.service.ts`, `order-status.service.ts` and the transaction of
`checkout.service.ts` that creates the order.

A worker (`call[p]`) is a call in flight. Its `op` names the next read or
transaction it will make; its other fields are what it has read, so `seen` is the
list of holds a finalization found, possibly long before it acts on it.

| model | code |
|---|---|
| `PlaceOrder`, `ReplayCheckout` | `createCheckout()`: its transaction, or the order found under the key |
| `OpenSession` | `createOrRecoverPaymentSession()` |
| `ClaimProviderOrder`, `CreateProviderOrder`, `AwaitProviderOrder` | `ensureProviderOrder()`: the claim, then by outcome what its owner does, and what the callers do who wait |
| `ListHolds`, `GiveUp` | `releaseReservationsAndCancelOrder()`: the read of the holds, and its writes |
| `BeginRetry`, `ListLine`, `RetryLine`, `RetryReserve`, `RetrySession` | `retryPayment()`, line by line |
| `Verify` | `verifyPayment()` up to its decision |
| `Deliver`, `RecordEvent` | `processWebhook()`: dispatch, then the insert into the ledger |
| `ApplyCapture`, `MarkFailed` | `applySuccessfulPayment()`, `markFailed()` |
| `FinalizeOrder`, `FinalizeHolds`, `ReadClock`, `CommitOrder`, `CommitFails`, `ListLapsed`, `ReleaseLapsed` | `finalizeReservationsAndConfirmOrder()`: two reads, the clock, the transaction, its failure, its catch branch |
| `Cancel`, `Advance`, `Pack` | `transition()` and `fulfill()` |
| `Lapse`, `SweepRow` | time, and the sweeps other requests run |
| `Decline`, `Capture` | the provider and the customer (external) |
| `Crash` | the process stops: the call in flight is lost, the database is not |

A list of holds to be released is read first and worked off later. `ReleaseListed`
releases those still ACTIVE; if one of them was committed meanwhile `release()` throws and
the call ends (`ReleaseThrows`), with what it had released before being `SweepRow`s of its own.

The outbox row `ORDER_CONFIRMED` is one Boolean, `announced`. Its unique key is
inserted inside the confirming transaction; when the row is already there the
service swallows the error, but PostgreSQL has aborted the transaction, so
nothing of it is kept. `CommitOrder` has exactly that outcome.

`PlaceOrder` holds every line in one transaction: `PlaceHolds` takes rows not yet used
(`NewHold`) from warehouses chosen per line (`From`) and sees to it that what is
taken from one item in total (`Taken`) is there.

A cancellation and a finalization take the order row and the reservation rows in
opposite order. PostgreSQL ends such a deadlock by failing one transaction, which
then changes nothing; for the state this is a call that never acted, and
it is covered because every call may be arbitrarily late or lost.

### PaymentSession

`PaymentSession.tla` looks closely at what `OrderPayment` has by its outcomes
(`ClaimProviderOrder`, `CreateProviderOrder`, `AwaitProviderOrder`): how an attempt gets its order at the provider when two
callers want it, requests arrive late or never and answers are lost. `pay` is the
`Payment` table of one order, `remote` the create requests and what became of them
at the provider (sent, made, lost), `call` the requests in flight, `sessions`
what customers were ever given to pay.

| model | code |
|---|---|
| `OpenSession` | the transaction of `createOrRecoverPaymentSession()` under the order's advisory lock |
| `ReuseSession`, `Claim` | the head of `ensureProviderOrder()`: an id read with the row, or the update CREATED to PENDING |
| `SendCreate`, `CreateAnswered`, `CreateFailed` | `createOrder()`: the request leaves, its answer comes back, or the call throws, whatever has become of the request |
| `Persist` | the id is written and the session returned; an exception here falls into the same `catch` |
| `ReconcileFinds`, `ReconcileFindsNone`, `ReconcileUnreachable` | `fetchOrderByReceipt()` by the claimant, with its three outcomes |
| `GiveUp` | the conditional update to FAILED |
| `Poll`, `PollsAreOver` | the loop of `awaitConcurrentProviderOrder()` |
| `LookupFinds`, `LookupInVain` | its last resort; a failure of the lookup counts as nothing found |
| `Adopt` | the id found is written unconditionally, and handed out |
| `Make`, `Lose` | the provider gets the request, or never does (external) |
| `Settle` | the outcome of a payment, in the one form that matters here: the status |
| `Crash` | the process stops; an uncaught database error ends a call the same way |

An order at the provider is identified with the request that made it: its receipt
is the id of the attempt. That requests outlive their callers is the
point: `CreateFailed` may be followed, much later, by `Make`.

`createOrRecoverPaymentSession()` does not look at the status of the order, so
`OpenSession` does not either; which callers reach it when is `OrderPayment`'s part.


### Returns and Refunds

`Returns.tla` models the return requests of one delivered order
(`return-request.service.ts`, `return-status.service.ts`); `Refunds.tla` EXTENDS it with
`refund.service.ts` and the balance of `refund-calculation.service.ts`. `ret` holds the
requests with their items, `shelf` the units inspections put back, `refund` the
`Refund` table, `remote` what has become of each create request at the provider,
`told` the outbox keys that exist, `call` the calls of staff in flight.

| model | code |
|---|---|
| `RequestReturn` | `create()`: the check of each entry against what is still returnable, under the order's lock |
| `CancelReturn`, `Review`, `Approve`, `Reject`, `MarkInTransit`, `MarkReceived` | one conditional update each, through `Transition` |
| `Inspect`, `PutBack` | the transaction of the inspection; an item's units go back if its claim of `restocked` succeeds |
| `BeginInitiate`, `LookAtAttempts`, `CreateRefund` | `initiate()`: its reads, and the transaction that takes the balance and writes the row |
| `SendCreate`, `CreateAnswered`, `CreateThrows` | the provider call, which may throw whatever has become of the request |
| `BeginRecover`, `LookupFinds`, `LookupFindsNone`, `LookupThrows` | `recover()`, and the reconciliation after a thrown call |
| `MarkSucceeded`, `MarkFailed`, `MarkProcessing`, `MarkUnknown` | the four outcomes; two of them are unconditional updates |
| `Arrive`, `Settle` | the request reaches the provider, the provider decides (external) |
| `Crash` | the process stops, or a database error nobody catches ends the call |

A status read before a conditional update on that same status is one step with
it, because no status of a return ever comes back. A unit costs one unit of money;
fractions are `Pricing`'s part.

### Delivery

`Delivery.tla` models `outbox-worker.service.ts`, `notification.service.ts` and
`email-delivery-worker.service.ts`. The two workers are one algorithm over two tables,
so a job is a row of either queue. `job` holds the rows, `inApp` the in-app
notifications, `tick` the timer callback of each worker in each replica. `effects`
and `returned` count, for each job, the times its work was done and the times
its row was given back.

| model | code |
|---|---|
| `Publish` | a transaction commits with an outbox row in it |
| `LookStale`, `Look` | the queries for rows PROCESSING too long, and for due rows |
| `Claim` | the conditional update to PROCESSING |
| `Dispatch`, `Send` | `dispatchFromOutboxEvent()` with its two notifications, `sendMail()` |
| `Finish`, `PutBack` | the outcome, written without a condition: done, or back with one attempt more, or given up |
| `Age` | a row has been PROCESSING for more than five minutes, worked on or not |
| `Lost` | the process stops during a tick |

### Checkout

`Checkout.tla` models `cart.service.ts`, `createCheckout()` of
`checkout.service.ts`, and `coupon-redemption.service.ts`. Where `OrderPayment` follows
one order, `Checkout` has several carts and orders of several customers, and
abbreviates what comes after (`Confirm`, `Cancel`). Stock is one number.

| model | code |
|---|---|
| `ResolveUserCart`, `ResolveGuestCart` (parts of other actions) | find the active cart, expire it if its date is past, open a new one |
| `BeginEdit`, `AddItem`, `UpdateItemQuantity`, `RemoveItem` | the cart is resolved, then the item written |
| `BeginMerge`, `ResolveForMerge`, `ReadTarget`, `WriteMerge` | `mergeGuestCart()`: the guest cart and the target read apart, then the transaction |
| `BeginCheckout`, `ResolveForCheckout` | replay of an idempotency key; the cart |
| `EnterCheckout` with `LockCart` | the transaction begins under the cart's lock and reads the cart again |
| `EvaluateCoupon` with `LockCoupon` | the two usage counts, under the coupon's lock |
| `Place`, `Fail` | order, redemption, stock and cart together; or nothing |
| `Confirm`, `Cancel` | payment, and cancellation that gives back stock and coupon |
| `SweepExpiredCarts` | the sweep |

### Smaller machines

| module | code | the point of it |
|---|---|---|
| `Gallery` | `product-images.service.ts` | upload, removal, choice of the primary photo and reordering, statement by statement, between rows and files; any call may be cut short (`CutEditor`) |
| `CategoryTree` | `categories.service.ts` | `Climb` is the walk up from the new parent, one row at a time, at most `MaxAncestors`; `WriteParent` the move, made also when the walk gave up at the limit (`gaveUp`), or a mere renaming that writes back the parent it has read |
| `Reviews` | `reviews.service.ts` | `LoadReview` puts a text on an admin's screen, `Moderate` decides on it later, with an outbox key that may exist already |
| `Wishlist` | `wishlist.service.ts` | `ClaimWish` is the conditional delete, `AddToCart` may fail before or after its effect, `RestoreWish` puts the row back |
| `Pricing` | `discount-engine.service.ts`, totals of `createCheckout()`, `refund-calculation.service.ts` | operators over whole cents, rounded where a database column rounds; `PlaceOrder` and `ReturnUnits` let orders be returned in any portions |
| `Sessions` | `auth.service.ts`, the admin's `api-client.ts` | rotation and reuse detection on one side; on the other one stored token, tabs, and a refresh in flight which the requests of one tab share |
| `Catalogue` | `products`, `product-variants`, `attributes` services, `inventory.service.ts` `initialize()` | `Ask` is the part of a call that reads and checks; the write by id comes later; the removal of a product is two statements, of which the first marks the variants there are then. `late` remembers that a call committed after its reasons had gone |

History variables (`asked`, `overlapped`, `mixed`, `crossed`, `gaveUp`, `overtaken`, `given`,
`excused`, `archived`, `late`, and the counts `effects`, `returned`) are there for the
properties; the only guards that read them are named bounds (`MaxAsked`; a row of the wishlist is listed once;
`Catalogue` is not followed beyond a late call). Most of them mark the
overlaps under which a promise of the code does *not* hold; the property then
says exactly that everything else is safe.

### Model-checking modules

`MCInventory`, `MCOrderPayment`, `MCRefunds` and `MCDelivery` give the constants that are functions
and the symmetry sets. `MCBackOffice` puts
three parts that share no state into one run (stock, photos, catalogue) and `MCStorefront` six others: a constant-like
variable `part` says which of them a behaviour exercises, so their state spaces add up instead of multiplying.

Operators that begin with "Fault:" in their comment are plausible wrong versions of the
action they precede. No specification uses them: substituted for the real action they
show that the property named in `PROJECT.json` can fail.

## 4. Runs

| run | question | instance | result |
|---|---|---|---|
| `InventoryStock` | do counters and holds implement the pool, under all movements? | 2 warehouses, 1 SKU, 2 reservations, 1 request, 2 lines, quantities and stock up to 2 | holds, 89 218 states |
| `BackOffice` | do concurrent calls on the same rows of stock lose or double a hold? what do they do to photos and catalogue? | 1 warehouse, 3 reservations, 2 requests, stock up to 2; see below | holds, 614 051 |
| `OrderPayment` | do order, holds, stock, coupon and money stay together through an order's life? | 1 order of 2 lines, 2 SKUs, 3 reservations, 1 payment, 2 workers, 2 units of each SKU | holds, 830 133 |
| `OrderWebhooks` | is every webhook event acknowledged in the end? | 1 line, 1 reservation, 1 payment, 2 workers, 1 crash, fairness | holds, 294 697 |
| `PaymentSession` | is a remote order made once, found again, and the right one? | 2 attempts, 2 create requests, 2 callers, 2 polls, 1 crash, fairness | holds, 77 585 |
| `Refunds` | do goods, books and money of returns stay within the order? | 2 returns with 2 entries each, one line of 2 units, 2 refunds, 2 admins, 1 crash | holds, 1 736 194 |
| `Delivery` | is every event and mail delivered, and how often? | 1 event, 2 replicas, 2 attempts in each queue, 1 lost or slow tick, fairness | holds, 311 841 |
| `Storefront` | carts and checkout, and five smaller machines, each with two overlapping calls | see below | holds, 615 641 |
| `OrderLeak` | are firm holds only behind confirmed orders? | 1 line, 2 reservations, 1 payment, 2 workers | violated |
| `OrderOrphan` | is a captured payment always finalized in the end? | 1 line, 1 reservation, 1 payment, 1 worker, 1 crash, fairness | violated |
| `RefundStuck` | is a refund the provider was still processing decided in the end? | 1 return, 1 refund, 2 admins, 1 crash, fairness | violated |
| `ReviewStuck` | is a review pending moderation decided in the end? | 1 review, 2 moderators, 2 edits, fairness | violated |

What the passing runs show, and where the promise stops:

*Inventory.*
- `StockBalance`: available = onHand - reserved, never negative.
- `ReservedIsHeld`, `CommittedIsFirm`: the cached sums equal the rows.
- `FirmHoldsAreKept`: neither expiry nor `release()` undoes a firm hold, and a
  RELEASED row never changes. That a sweep always gets through its list is *not* promised: see section 7.
- `ImplementsPool`: the refinement.

*Orders and payments.*
- `CountersAgree`: the three stock invariants again, now with the batch updates
  of checkout, finalization, cancellation and shipment on the same rows.
- `ConfirmedHoldsEveryLine`: all or nothing of the confirmation.
- `ShippedIsPacked`: the units gone from the warehouses are exactly those of the
  packed orders, each line once.
- `CouponFollowsOrder`: the redemption never disagrees with the order.
- `ConfirmedHasMoney`: whatever the order of webhooks, an order is confirmed only when the
  provider holds a payment for it.
- `EventsAreAcknowledged`: redeliveries end, also when a delivery fails on a conflict over a hold.
- `OneCreatePerAttempt`: two create requests never carry the same receipt.
- `SessionsNameTheirOrder`: what a customer pays is the remote order of that
  attempt, and the row names it when the webhook arrives.
- `OneActiveAttempt`: two tabs never open two attempts; a second is opened only after the first has
  ended. It does not say that a customer cannot pay twice: an old session may still be payable at the provider after
  its attempt has failed.
- `CaptureStands`: a claimant that concludes late that its remote order never
  existed does not undo a capture made through a caller who found it.
- `LostResponseIsRecovered`: a remote order that exists is found, though its answer was
  lost and the claimant stopped.

*Returns and refunds.*
- `ReturnsFitTheOrder`: live requests never want back more of a line than was delivered.
  The check is made per entry, so a request that names a line twice is outside.
- `RestockedOnce`: items go back on the shelf once per claim, however often an inspection is sent.
- `OneRefundPerReturn`: late requests and retries included, one refund per return moves money.
- `ClosedMeansRefunded`: a return is closed, and the customer told, only with the
  money processed; a refund SUCCEEDED on record has closed its return.
- `BooksFitThePayment`: refunds on the books stay within the capture as long as none has
  failed or become unknown, since such a one is not counted and may arrive all the same.
- `MoneyFitsThePayment`: for returns that name no line twice, the money that *moved* stays
  within the capture even then.

*Delivery.*
- `WorkIsCounted`: one mail and one dispatch, and one more at most for each time the row was
  given back. Delivery is at least once; this says how much more.
- `NothingIsLost`: what is marked done was done, though owners overwrite each other.
- `EveryJobSettles`: no row stays in flight.

*Carts and checkout.*
- `OrderedOnce`: a unit put in a cart is ordered at most once, except after a merge that
  overwrote a change made since it read (`overlapped`).
- `CouponWithinLimits`: both limits, under concurrent checkouts and cancellations.

*The smaller machines.*
- `GalleryIsSound`: rows have their files under every overlap and crash, the limit is
  exceeded by no more than the calls in flight, and calls one after the other leave one primary photo. (The run
  has no more photos than limit and calls add up to, so only the theorem says something about the limit.)
- `TreeStaysATree`: no cycle, unless two calls that both write a parent overlapped (`crossed`) or a walk gave up at
  its limit (`gaveUp`). It shows that these are the only two ways to a cycle; it does not exclude them.
- `DecisionStands`: a decision was announced, and taken on this text unless an edit came
  between look and click (`overtaken`). That a second approval may be lost is the violation `ReviewStuck`.
- `MoveIsAllOrNothing`: a wish is listed, in flight, or in the cart once, but for a
  failure after the cart had changed.
- `MoneyAddsUp`: order columns agree to a cent; refunds in any portions add up to what was
  paid, to half a cent each.
- `StaysSignedIn`: requests refused together do not log the client out; two tabs refreshing together,
  a lost answer, or a sign-out may (`excused`).
- `CatalogueIsWhole`: soft deletion leaves nothing dangling under any sequence of calls that do not
  commit after their reasons have gone (`late`); a removal that has missed a variant is such a call.

`overlapped`, `crossed`, `gaveUp`, `overtaken`, `excused`, `late` and the failure after the cart has changed name
exactly the races the code does not survive: the properties they qualify show that nothing *else*
breaks the promise, and would not catch those races. `PROJECT.json` says so at each hazard.

### Bounds

- `MaxQty`, `MaxStock`: 2 units are enough for a hold and a removal that
  fit singly and not together, and 1 against 2 for a hold that takes part.
- *Reservations*: 2 rows let two holds compete for one item. 3 rows in
  `BackOffice` let a sweep list two rows while a third is live; 3 rows in
  `OrderPayment` give one re-hold to an order of two lines, so an old RELEASED
  row and a new one of the same line coexist.
- *Requests*, *Workers*, *Admins*, *Replicas* and the like: two calls in flight. Every
  race in section 2 is between two calls and the clock, a cancellation, a sweep or an
  outside party, and those last are not calls in the model, so up to four parties act at once.
- *Payments*: one attempt for the stock properties, two where the question is
  about the second attempt. Two lines are needed for all-or-nothing, one
  suffices elsewhere. One warehouse in `OrderPayment`: where a line is held
  matters to the counters only, which `InventoryStock` checks with two.
- *Crashes*: in the safety runs of `OrderPayment` a crash adds no new state of the tables, for a
  call that is never continued is already among the behaviours; one crash
  is allowed where losing a call frees somebody else or matters to liveness.
- `PaymentSession`: `MaxPolls` stands for 30 polls; 2 let a poll come before
  and after any step of the claimant, and after the last the loop is left in
  the same way. Two create requests are as many as two attempts can use, and a third
  would only matter if `OneCreatePerAttempt` failed, for which two suffice.
- `Refunds`: one line of two units, and returns with two entries of up to two units, so that a
  request can ask for too much in one entry, in two, or together with another request.
- `Delivery`: one event of a type that must reach the customer (a row of another type is a row whose
  notification a preference may drop), 2 attempts instead of 5 and 4, so that there is a first,
  a last, and one row that is given up.
- `BackOffice`, besides the stock: 3 photos with a limit of 2; 1 product with 2 variants and 2 values.
- `Storefront`: 1 customer, 3 carts (a guest cart, an own one, and the one opened after an order),
  2 orders, 1 key, stock 3, coupon limits 1, 2 units asked for (for more customers there is the theorem);
  3 categories, the smallest tree in which two legal moves make a cycle with a third in between, and walks of
  2 rows (`MaxAncestors`, 200 in the code), so that walks end at the root and walks that give up both occur;
  1 review with 2 edits; 2 wishes; orders of 2 lines at 1, 10 or 11 cents under 6 promotions with
  caps, minimums, inclusions and exclusions; 3 tokens, 2 tabs, 2 refreshes.
- When the rows of a table are used up, the call that wanted one ends or does not begin (the disjuncts
  marked as bounds in the modules).

Symmetry is used only in safety runs, over sets of interchangeable model values. No definition
uses `CHOOSE` over them in a way that distinguishes two permutations: those of
`OrderPayment` select from singletons. In `BackOffice` and `Storefront` one set of model values plays the calls of every
part, another the rows (reservations and photos; carts and categories), a third the orders and wishes, so that one group of
permutations serves all. In `OrderPayment` a line and its SKU change places with another line and its SKU together
(`MCLineSwaps`).

`CHECK_DEADLOCK FALSE`: when all rows are used and every order is delivered the
bounded system has nothing left to do.

## 5. Fairness

Two kinds of fairness appear. A process that has begun a call goes on with it
(`WF_vars(Continue(p))`): the event loop runs every continuation, and nothing in these
handlers waits without bound. A crash remains possible and disables the rest of the call.
Everything else is about the environment, and is assumed where the code's promise is conditional on it.

- `OrderPayment`: `SF_vars(\E p : Deliver(p, e))`, the provider redelivers an event until it gets
  a success answer, and a delivery is taken up if again and again some process is
  free. Weak fairness would not do, since a free worker may always be taken by
  something else in between. Nothing is assumed of customers, admins, sweeps or the clock.
- `PaymentSession`: `WF_vars(Make(x) \/ Lose(x))`, a request on its way arrives or does not;
  `SF_vars(\E p : OpenSession(p))`, the customer presses retry as long as a process is free
  (nothing in the code recovers an attempt nobody asks for);
  `SF_vars(\E p : ReconcileFinds(p) \/ LookupFinds(p))`, a provider asked again and again
  for an order it has says so at some time.
- `Refunds`: `WF_vars(Arrive(f))` and `WF_vars(Settle(f))`, the provider gets and decides a request;
  `SF_vars` of `BeginRecover` and of `LookupFinds`, staff ask about the refund again and again and the provider
  sometimes answers. `RefundStuck` fails in spite of all of it.
- `Delivery`: `SF_vars` of `Look` and `LookStale`, the timers fire for ever and take the oldest
  rows first, so a due or stale row is looked at; `WF_vars(Age(j))` on rows nobody works on, since a row
  left PROCESSING is more than five minutes old at some time. A slow owner is not assumed to be fast.
- `Reviews`: an admin loads every pending review and approves it, again and again. `ReviewStuck` fails in
  spite of it.

## 6. Proofs

Eight modules hold the theorems: the seven below, and `Counting` with the lemmas about finite sets and their
sizes that three of them share. Each follows the same plan: an inductive invariant `IInv` (named for
its module where several share a run), one lemma per action or group of actions that behave alike,
`Inductive` (`Spec => []IInv`), and the theorems below as consequences. The only assumptions are the
named ones on the constants in the modules (placeholders differ from the things they stand in
for, bounds are naturals, tables that are counted are finite, an order names a SKU once and its stock begins at a natural number); TLC
evaluates them in the runs. None relates a limit of the code to the size of the data (`MaxQty` and `MaxOrdered`, which bound
quantities, may be any natural number); where a theorem needs that, it says so itself (`SmallTreeStays`).

| module | theorem | states |
|---|---|---|
| `InventoryProofs` | `TypeCorrect`, `StockIsNeverOversold`, `ReservedCountsLiveHolds`, `CommittedCountsFirmHolds`, `FirmHoldsEndOnPurpose`, `InventoryIsAPool` | `TypeOK`, `StockBalance`, `ReservedIsHeld`, `CommittedIsFirm`, `FirmHoldsAreKept`, `ImplementsPool` |
| `PaymentSessionProofs` | `TypeCorrect`, `CreateIsCalledOnce`, `SessionsAreRight`, `OneAttemptAtATime`, `CaptureIsFinal` | `TypeOK`, `OneCreatePerAttempt`, `SessionsNameTheirOrder`, `OneActiveAttempt`, `CaptureStands` |
| `OrderPaymentProofs` | `TypeCorrect`, `CountersStayRight`, `AllOrNothing`, `CouponGoesWithOrder`, `PaidBeforeConfirmed`, `PackedOnce` | `TypeOK`, `CountersAgree`, `ConfirmedHoldsEveryLine`, `CouponFollowsOrder`, `ConfirmedHasMoney`, `ShippedIsPacked` |
| `RefundProofs` | `TypeCorrect`, `RequestsFit`, `ItemsGoBackOnce`, `NoSecondRefund`, `ClosedIsRefunded`, `BooksBalance`, `MoneyFits` | `TypeOK`, `ReturnsFitTheOrder`, `RestockedOnce`, `OneRefundPerReturn`, `ClosedMeansRefunded`, `BooksFitThePayment`, `MoneyFitsThePayment` |
| `DeliveryProofs` | `TypeCorrect`, `WorkIsDoneOncePerReturn`, `DoneMeansDone` | types, `WorkIsCounted`, `NothingIsLost` |
| `CheckoutProofs` | `TypeCorrect`, `CouponNeverOverrun`, `NothingOrderedTwice`; `MoneyIsAccountedFor` (of `Pricing`) | `CheckoutTypeOK`, `CouponWithinLimits`, `OrderedOnce`; `MoneyAddsUp` |
| `ShopProofs` | `DecisionsStand`, `ClientStaysSignedIn`, `MovesAreAllOrNothing`, `TreeTypeCorrect`, `TreeStays`, `SmallTreeStays`, `GallerySound`, `CatalogueStaysWhole` | `DecisionStands`, `StaysSignedIn`, `MoveIsAllOrNothing`, types of `CategoryTree`, `TreeStaysATree`, the same without `gaveUp` for small trees, `GalleryIsSound`, `CatalogueIsWhole` |

*Counting.* A quantity is a set of pairs (thing, number of the unit), a total is the cardinality of such a set, so no sum over a
set of unknown size is needed: two totals are compared by a function that sends one set of units into the other,
group by group (`CountedByGroups`, `EqualByGroups`). Where something must be shown of *every* finite set, the induction
theorems of the library are out of reach, as they take an operator as a parameter. `SetsGrow` and `Smallest` say the
same of a *set of sets*: one that has the empty set and grows element by element has every finite subset, and
one that is not empty has a smallest member.

*Inventory.* `IInv == RowInv /\ RequestInv`. The counter invariants need each
other: that `reserved` stays natural when a row is released needs `ReservedIsHeld`, and
`committed <= reserved` needs both sums. `NothingOnNewItems` is needed because
`Initialize` sets both to 0. Nothing in it says when a row expired: a hold may be committed
after a sweep has listed it.
`Total` of a disjoint union is the sum of the `Total`s (`TotalUnion`, `TotalDifference`,
`TotalSingle`), and with that each of the row updates the actions are made of
(`ReleaseRows`, `CommitRows`, `ShipRows`, `ReserveRow`) preserves `RowInv` for arbitrary *sets* of
rows. `FirmHoldsAreKept` is about steps: a shipment of a set of rows takes at
least the units of each of them off the shelf (`ShipmentTakesTheUnits`).

*InventoryPool.* `InventoryIsAPool` is the refinement: the rows of an item that does not exist yet are empty
(`NewItemsAreEmpty`), and the counter `available`, on which the conditional updates decide, is what the pool calls
free (by `StockBalance` and `ReservedIsHeld`); then each way of writing the two tables is a step of the pool, and a
step that writes neither, such as a request's read or the clock, is a stutter.

*PaymentSession.* `IInv` is `TypeOK /\ ClaimInv /\ NamesInv /\ AttemptsInv`. Two requests never share
a receipt because of who may send: an attempt nobody has claimed is untouched, a
claim belongs to one caller who has not used it, and sending ends the right to send. `Adopt` and
`Persist` write an id *without* a condition, up to thirty polls after it was
read; that is safe because the remote order of an attempt is unique (`MadeIsUnique`)
and never unmade. Attempts are ranked by creation, and only the latest may be active.

*OrderPayment.* The proof uses the lemmas of `InventoryProofs` about row updates through
`P == INSTANCE InventoryProofs` (`InventoryAssumed` discharges its assumption).
`IInv` is `StockInv /\ FlowInv`: the stock rows, the types, the coupon and the money. All or nothing needs a
second invariant, `HoldsInv`: rows of a line are numbered in the order of their making (`Numbered`), every line has exactly
one firm hold while its order is confirmed and none while it is pending (`FirmRight`), an order that was confirmed has its announcement on
record (`Announced`), and what a finalization has `seen` is right about the lines it names
however old it is (`SeenRight`). The announcement is what stops a second, late finalization,
since its duplicate key takes the whole transaction back.

*ShippedIsPacked* adds `LeftInv == RowsOnLines /\ NothingAdded /\ GoneIsSent`: a row that is used holds the whole quantity
of a line on an item of its SKU, no item ever has more than it started with, and for each SKU the units that
have left (`GoneUnits`) are as many as those of orders that were packed (`SentUnits`). Only `Pack` moves
either side. Each line of the order has exactly one firm row (`FirmRight`), so the rows packed correspond to the
lines one to one, and a shipment takes off an item exactly the units of its rows.

*Refunds.* `IInv` is `ReturnInv /\ MoneyInv`. The core is that a return gets only one refund row that can be
sent (`OneRow`, from the lock and the status change in one transaction), that only its creator
sends it (`SendersAlone`), and that a row SUCCEEDED closes its return in the same
transaction (`ClosedIsPaidOut`).

*MoneyFitsThePayment* does not follow from the books, which do not count what failed or is unknown, though the
provider may have paid it. What bounds the money moved is the goods: a row asks for no more than its return lists (`AskedFor`), a
return has one row, and the units of the live returns that name no line twice are sent one-to-one into the
units ordered, line by line (`ReturnedFitsOrdered`, from `ReturnsFitTheOrder`). Why the theorem excepts returns that name
a line twice: each entry is compared with the units left, not their sum.

*Delivery.* The counting invariant is `owed + at work <= 1 + returned`: each tick that holds a row, and
each row waiting, is paid for by the first claim or by one return of the row. It must be said of
every owner, also of those taken for dead. `Evidence` says what each owner has done when it writes an outcome.

*Checkout.* `RoomIsKept`: a request that was told there is room for its coupon holds the coupon's lock until
it places the order, so what it counted is still an upper bound, cancellations only making more room.

*OrderedOnce.* `OnceIInv == Rows /\ CartsHaveOwners /\ NothingTwice`. The property speaks of orders and carts, but a call in flight
carries units as well: a checkout that has read the lines and not placed the order, a merge that
will add what it read to another cart. `Promised(u)` is the union of what is in the carts of a customer and what such calls have
read from them, as pairs (cart, number), so that a unit both in a cart and in a call counts once; units ordered and promised together are
at most those asked for. This needs to know whose a cart is that a call has in hand, and that two calls never
order from one cart (`OneOrderAtATime`, from the advisory lock a checkout takes on the cart, and its status CONVERTED after).

*Pricing.* `MoneyAddsUp` holds for any finite set of lines and any prices, not just the baskets of the run. What the fold `SumOf` computes is
shown by sets of sets: the sets of lines on which a table of partial sums exists (`SumsExist`), on which two tables agree (`SumsAgree`), on
which sums are bounded when their terms are (`SumsBound`). `PricingIInv` says that the row is that of an accepted
checkout, and of each line that what came back is its share of what was paid but for half a cent per refund
(`GivenBack`). Rounding is used through one fact, that `Rounded(x, n)` is within half of `n` of `x` (`RoundedBy`); `GivenBack` is
multiplied out by the subtotal, summed over the lines and divided again (`DividedBy`).

*CategoryTree.* `WalksAreRight`: while no two calls that write a parent have overlapped and no parent was written
after a walk that gave up, the ancestors a walk has passed are the ancestors now, and the category to
be moved is not among them; a walk that ended at the root has passed them all, so the new parent
closes no cycle. Nothing is assumed of the number of categories or of `MaxAncestors`. `SmallTreeStays` adds what the limit is worth: a walk
passes no row twice, so with no more categories than the limit it comes to the root.

*Gallery.* `GalleryIInv == GalleryTypeOK /\ FilesInUse /\ PlacesPromised /\ OneAtATime`. Files and the excess over the limit are bounded
whatever overlaps: each upload counted a free place before it stored its file (`PlacesPromised`). The
rest is said while calls have not been `mixed`: one call is at work, `StandsAt` says what its reads still tell it, and between
a removal and the choice of the next primary photo the one at work is about to choose.

*Catalogue.* `CatalogueIInv`: types and the rows a call names always; while no call was `late`, stock and variants belong to
live rows (`StockIsOfLiveRows`, `VariantsStand`), a simple product on sale has a SKU (`SaleHasASku`), what was archived still names an archived row
(`ArchivedForGood`). A write that is not late finds what it has read, so each write reduces to the checks of its `Ask`; a
removal that is not late has, besides, marked every variant there is (`CanDelete`).

*Only model-checked* is liveness: `EventsAreAcknowledged`, `LostResponseIsRecovered`, `EveryJobSettles`. The prover reasons neither
about fairness nor about ENABLED. The four violated properties are TLC's as well.

## 7. What the code does differently from its comments

Four are runs that TLC finds violated; `PROJECT.json` quotes the lines.

1. `OrderLeak`. Cancel and retry fit between finalization's read and its
   transaction: firm holds stay on a CANCELLED order, and nothing releases them.
2. `OrderOrphan`. After a crash between capture and finalization every later
   delivery and callback stops at the status CAPTURED: the order stays
   PENDING_PAYMENT.
3. `RefundStuck`. `recover()` writes PROCESSING without a condition, so it may overwrite the
   SUCCEEDED of another; from then on every recovery is rolled back by
   the outbox key of the first.
4. `ReviewStuck`. A review approved, edited and approved again stays PENDING, since the second approval
   records an outbox key that exists, and the caught error leaves the transaction aborted.

The passing properties bound the damage: a confirmed order always has its stock and a payment behind it
(`ConfirmedHoldsEveryLine`, `ConfirmedHasMoney`), the coupon follows, and no return is refunded twice
(`OneRefundPerReturn`).

The following were met while the code was translated. The models contain the steps, but no
run is spent on them.

- `consume()` on an expired ACTIVE row releases it and then throws in the same
  transaction (`inventory.service.ts:686`), so the release is undone; the row is left to the next sweep.
- A sweep can stop half way. `consume()` reads the clock before its UPDATE, and finalization commits later still, so a
  hold can expire and be listed, still ACTIVE, by `releaseExpiredReservations()` and be COMMITTED by the time its turn
  comes. `release()` then throws a conflict (`inventory.service.ts:563`, `584`), nothing in the loop catches it, and the
  rest of the list waits for the next sweep; a checkout, a retry or a finalization's catch branch that swept on the way fails with it.
  The comments at `inventory.service.ts:652` (the race is closed "atomically in the same statement") and `956` ("exactly as
  safe as a single manual release()", "a payment racing to consume() the same row") read otherwise. No counter suffers
  (`CountersAgree`, `FirmHoldsAreKept`), and a webhook that fails so is delivered again.
- A declined try marks the attempt FAILED. When the customer then pays on the same
  provider order, finalization runs all the same: a CONFIRMED order whose only payment row is FAILED.
- A replayed checkout, or a retry that read the order before the
  capture, opens a second session for an order already paid.
- A retry that read the order before its confirmation holds a line
  again whose hold is now COMMITTED; the newer ACTIVE row then stands in the way of fulfilment.
- The claim CREATED to PENDING of a payment attempt is never given back (`payment.service.ts:182`):
  if the create call fails before it reaches the provider and the claimant cannot reconcile either, every later caller
  polls, looks up, finds none and answers 503.
- After a refund FAILED, or a crash that leaves one PENDING, no call makes another attempt: the return is
  REFUND_INITIATED, and `initiate()` wants REFUND_PENDING (`refund.service.ts:60`).
- Removing a product marks its variants and then the product, in one transaction that locks neither
  against an insert (`products.service.ts:276`): a variant added in between stays live under the deleted product.
- Categories: two moves at once, or a move and a renaming that writes back the parent it has read, can close a
  cycle; so can one move alone below more than 200 ancestors, where the check gives up silently
  (`categories.service.ts:322`) and the move is written.
- A session found while a caller waits for the claimant is written and handed out whatever the attempt's status
  (`payment.service.ts:283`), so a customer may be given an attempt that has just failed.
- A wish whose product did get into the cart is listed again when the call fails after that (`wishlist.service.ts:155`); two tabs
  that refresh together, or a lost answer, end every session of the user (`auth.service.ts:191`); a merge at login writes sums of
  quantities it read before its transaction (`cart.service.ts:301`).
- An order's total may differ by a cent from the sum of its other columns, which are rounded one by one; the
  test at `phase7-promotions.e2e-spec.ts:859` compares for equality. `MoneyAddsUp` allows the cent.
- A unit added to a cart after the checkout has read the lines is deleted with them.
- Catalogue, by two calls at once: an archived product goes back on sale, since `updateStatus()` reads and
  then writes unconditionally (its comment at `products.service.ts:14` says "not silently resurrected"); a variant's
  `combinationKey` is written back next to values another call has changed; stock is initialized for a product that is being
  deleted. By one call: `create()` with status ACTIVE skips `assertCanActivate()`; a variant's SKU is compared
  with other variants only, although `products.service.ts:547` wants it unique over both tables; the key of a
  deleted variant stays taken, so its combination cannot be made again.
- Updating a promotion with `productIds` alone also wipes the excluded products: `writeTargeting()` replaces both kinds
  together, although `update-promotion.dto.ts:40` leaves what is omitted untouched.

## 8. What is not modelled

*In the modelled modules.* Store scoping, validation of ids and bodies, the text
of errors, audit log, status history, ledger rows of stock movements, notification payloads.
A captured event refused over a floating-point comparison of amounts is a choice in `Deliver`, as binary fractions are
nothing TLA+'s integers could show wrong. Further:

- *The admin routes* that release or consume a single reservation by hand are actions
  of `Inventory` but not of `OrderPayment`; used on the holds of a live
  order they bypass the order's state machine by design.
- *A line whose product was deleted* (`productId` null) is skipped by `retryPayment()`;
  in the model every line has its product.
- *How a provider order comes about* is reduced to its outcomes in
  `CreateProviderOrder` and `AwaitProviderOrder`; the protocol is in `PaymentSession`. Likewise `Checkout` abbreviates stock and payment. That the
  views agree is read off the code, not proved: a refinement would need one module with all the states.
- `fetchOrderByReceipt()`, and the lookup of refunds, see what the provider has made at that moment.
- *Returns* take place within the window and on a delivered order. A unit costs one unit of money.
- *Delivery*: a tick handles one row; preferences are an arbitrary choice; backoffs are arbitrary times.
- *Cart*: one product; the price snapshot of an item, which every read refreshes and the checkout ignores.
- *Gallery*: one product; variant images are the same code over another table.
- *Catalogue*: one value per variant; no slugs, names, prices, tags, brands; statuses of variants.
- *Sessions*: one user; refresh tokens do not expire.

*Not at all.*

- The inventory ledger: rows nothing reads back, whose figures are read before the update they describe.
- Promotions administration, warehouses, shipping methods, settings, contact, blog, slides, brands, tags: one validated
  row each, written by one statement or transaction; no step of two calls leads anywhere but to the
  later one's values. Review votes and reports: rows under a unique key.
- Registration, email verification, password reset requests, lockout; marking notifications as read, preferences, templates.
- Storefront queries, analytics, diagnostics, health, metrics, audit log: read-only, or write-only.
- The front ends, except for the admin client's token refresh: views that hold no authoritative state.
- Seeds, migrations, deployment, backups, nginx.

These last groups are most of the repository's lines (pages and components, seeds, DTOs, queries, CRUD), which is why the
share of lines that the models translate stays near a tenth although nearly all the stateful logic
of the API is among them.

## 9. What could follow

1. More abstract specifications with a refinement: one of a payment as a claim on a remote order, one of a refund as a
   transfer, so that `Refunds` and `Checkout` could name what they abbreviate.
2. The generator of variants as an operator over sets of values, against its reference definition.
3. The rest of the catalogue: links of products to categories and brands, and what their removal checks.
