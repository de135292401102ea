---------------------------- MODULE OrderPayment ----------------------------
(***************************************************************************)
(* One order from checkout to delivery: its payments, its reservations,    *)
(* its coupon, and the requests, callbacks and webhooks that work on it    *)
(* (PaymentService, OrderStatusService, the order half of CheckoutService) *)
(* on top of the row updates of Inventory.                                 *)
(*                                                                         *)
(* A request is a call in flight: op names the database transaction or the *)
(* read it is about to make, the other fields what it has read so far.     *)
(* Everything between two of those steps may be interleaved with the steps *)
(* of other requests, and a crash of the process loses the request.        *)
(*                                                                         *)
(* Not here: the admin routes that release or consume one reservation by   *)
(* hand (Inventory has them), and what passes between a payment session    *)
(* and the provider (PaymentSession has it).                               *)
(***************************************************************************)
EXTENDS Integers, FiniteSets

CONSTANTS
    Warehouses, Skus, Reservations, Orders, Lines, LineOrder, NoLine, NoItem, MaxQty,
    LineSku,       \* the SKU of each order line; the lines of an order differ in it
    LineQty,       \* the quantity of each order line
    InitialStock,  \* units of every item before the first order
    Payments,      \* ids of Payment rows
    Workers,       \* requests, callbacks and webhook deliveries in flight
    NoOrder, NoPayment, NoEvent,
    MaxCrashes     \* bound on the number of requests a crash interrupts

ASSUME OrderPaymentAssumption ==
    /\ IsFiniteSet(Reservations) /\ IsFiniteSet(Payments)
    /\ LineOrder \in [Lines -> Orders]
    /\ LineSku \in [Lines -> Skus]
    /\ \A k, l \in Lines : LineOrder[k] = LineOrder[l] /\ LineSku[k] = LineSku[l] => k = l
    /\ MaxQty \in Nat
    /\ LineQty \in [Lines -> 1 .. MaxQty]
    /\ NoLine \notin Lines \cup Reservations /\ NoOrder \notin Orders /\ NoPayment \notin Payments
    /\ NoItem \notin Warehouses \X Skus
    /\ InitialStock \in Nat /\ MaxCrashes \in Nat

VARIABLES
    item, resv,   \* the rows of Inventory
    order,        \* Order rows with their coupon redemption and outbox event
    pay,          \* Payment rows
    paid,         \* payments whose money the provider has captured
    events,       \* webhook events the provider has produced
    recorded,     \* events in the PaymentWebhookEvent ledger
    call,         \* the requests in flight
    crashes       \* how many requests a crash has interrupted

stockVars == <<item, resv>>
providerVars == <<paid, events>>
vars == <<item, resv, order, pay, paid, events, recorded, call, crashes>>

Stock == INSTANCE Inventory
    WITH Requests <- {}, req <- <<>>, NoReservation <- NoLine, MaxStock <- InitialStock

Items == Warehouses \X Skus
ItemsOf(l) == Warehouses \X {LineSku[l]}
LinesOf(o) == {l \in Lines : LineOrder[l] = o}
RowsOf(o) == {r \in Reservations : resv[r].line \in LinesOf(o)}

OrderStatus == {"NONE", "PENDING_PAYMENT", "CONFIRMED", "PROCESSING", "PACKED", "SHIPPED",
                "DELIVERED", "CANCELLED"}

OrderRow == [status    : OrderStatus,
             coupon    : {"none", "RESERVED", "CONSUMED", "RELEASED"},
             announced : BOOLEAN]   \* the ORDER_CONFIRMED outbox row exists

PaymentRow == [status : {"NONE", "CREATED", "PENDING", "CAPTURED", "FAILED"},
               order  : Orders \cup {NoOrder},
               open   : BOOLEAN,    \* providerOrderId is persisted: the customer can pay
               at     : Nat]        \* createdAt, as a rank

ActiveStatuses == {"CREATED", "PENDING"}

Event == Payments \X {"captured", "failed"}

Call == [op    : {"idle", "session", "provider", "claimed", "waits", "giveUp", "cancel",
                  "retry", "line", "reserve", "capture", "fail",
                  "finalize", "holds", "clock", "commit", "lapsed", "sweep", "record"},
         order : Orders \cup {NoOrder},
         pay   : Payments \cup {NoPayment},
         lines : SUBSET Lines,
         line  : Lines \cup {NoLine},
         seen  : SUBSET Reservations,
         event : Event \cup {NoEvent}]

TypeOK ==
    /\ item \in [Items -> Stock!ItemRow]
    /\ resv \in [Reservations -> Stock!ReservationRow]
    /\ order \in [Orders -> OrderRow]
    /\ pay \in [Payments -> PaymentRow]
    /\ paid \subseteq Payments
    /\ events \subseteq Event
    /\ recorded \subseteq events
    /\ call \in [Workers -> Call]
    /\ crashes \in 0 .. MaxCrashes

------------------------------------------------------------------------------
Idle == [op |-> "idle", order |-> NoOrder, pay |-> NoPayment, lines |-> {}, line |-> NoLine,
         seen |-> {}, event |-> NoEvent]

Init ==
    /\ item = [i \in Items |-> [exists |-> TRUE, onHand |-> InitialStock,
                                available |-> InitialStock, reserved |-> 0, committed |-> 0]]
    /\ resv = [r \in Reservations |-> [status |-> "NONE", item |-> NoItem, qty |-> 0,
                                       line |-> NoLine, expired |-> FALSE, at |-> 0]]
    /\ order = [o \in Orders |-> [status |-> "NONE", coupon |-> "none", announced |-> FALSE]]
    /\ pay = [y \in Payments |-> [status |-> "NONE", order |-> NoOrder, open |-> FALSE, at |-> 0]]
    /\ paid = {} /\ events = {} /\ recorded = {}
    /\ call = [p \in Workers |-> Idle]
    /\ crashes = 0

Free(p) == call[p].op = "idle"
At(p, op) == call[p].op = op
Become(p, c) == call' = [call EXCEPT ![p] = c]
Goto(p, op) == Become(p, [call[p] EXCEPT !.op = op])
GotoWith(p, op, S) == Become(p, [call[p] EXCEPT !.op = op, !.seen = S])

(* The call goes on with an attempt. *)
TakeAttempt(p, y) == Become(p, [call[p] EXCEPT !.op = "provider", !.pay = y])

(* A call that has done its work answers; a webhook first records its event. *)
Done(p) ==
    Become(p, IF call[p].event = NoEvent THEN Idle
              ELSE [Idle EXCEPT !.op = "record", !.event = call[p].event])

Attempts(o) == {y \in Payments : pay[y].status # "NONE" /\ pay[y].order = o}
LatestAttempt(o) == {y \in Attempts(o) : \A z \in Attempts(o) : pay[z].at <= pay[y].at}

Lapsed(S) == {r \in S : resv[r].status = "ACTIVE" /\ resv[r].expired}
OnItems(S) == {r \in Reservations : resv[r].line # NoLine /\ resv[r].item \in S}

------------------------------------------------------------------------------
(* Checkout.                                                               *)

(* The item line l is allocated to when w[l] is its warehouse, what the     *)
(* lines of an order take from item i then, and the hold of one of them.    *)
From(w, l) == <<w[l], LineSku[l]>>
Taken(o, w, i) ==
    LET here == {l \in LinesOf(o) : From(w, l) = i} IN
    IF here = {} THEN 0 ELSE LineQty[CHOOSE l \in here : TRUE]
NewHold(l, i) == [status |-> "ACTIVE", item |-> i, qty |-> LineQty[l], line |-> l,
                  expired |-> FALSE, at |-> Cardinality(Stock!Existing) + 1]

(* The stock of a checkout: expired holds on the wanted items are released, *)
(* every line takes the unused row[l] on an item that still has enough.     *)
PlaceHolds(o, row, w) ==
    LET swept == Lapsed(OnItems(UNION {ItemsOf(l) : l \in LinesOf(o)}))
        back(i) == Stock!Total(resv, swept, i)
    IN  /\ \A l \in LinesOf(o) : resv[row[l]].status = "NONE"
        /\ \A k, l \in LinesOf(o) : row[k] = row[l] => k = l
        /\ \A i \in Items : item[i].available + back(i) >= Taken(o, w, i)
        /\ item' = [i \in Items |->
                      [item[i] EXCEPT !.available = @ + back(i) - Taken(o, w, i),
                                      !.reserved  = @ - back(i) + Taken(o, w, i)]]
        /\ resv' = [r \in Reservations |->
                      IF \E l \in LinesOf(o) : row[l] = r
                      THEN LET l == CHOOSE l \in LinesOf(o) : row[l] = r IN NewHold(l, From(w, l))
                      ELSE IF r \in swept THEN [resv[r] EXCEPT !.status = "RELEASED"]
                      ELSE resv[r]]

(* createCheckout(), its transaction: the holds, the order and its coupon   *)
(* redemption are created.  The call then goes on to open a payment session.*)
PlaceOrder(p, o) ==
    /\ Free(p) /\ order[o].status = "NONE"
    /\ \E row \in [LinesOf(o) -> Reservations], w \in [LinesOf(o) -> Warehouses] :
          PlaceHolds(o, row, w)
    /\ \E c \in {"none", "RESERVED"} :
          order' = [order EXCEPT ![o] = [status |-> "PENDING_PAYMENT", coupon |-> c,
                                         announced |-> FALSE]]
    /\ Become(p, [Idle EXCEPT !.op = "session", !.order = o])
    /\ UNCHANGED <<pay, providerVars, recorded, crashes>>

(* createCheckout() again with the same Idempotency-Key: the order is found *)
(* and its payment session recovered, whatever has become of the order.     *)
ReplayCheckout(p, o) ==
    /\ Free(p) /\ order[o].status # "NONE"
    /\ Become(p, [Idle EXCEPT !.op = "session", !.order = o])
    /\ UNCHANGED <<stockVars, order, pay, providerVars, recorded, crashes>>

------------------------------------------------------------------------------
(* Payment sessions.                                                       *)

(* createOrRecoverPaymentSession(), its transaction under the advisory lock *)
(* of the order: reuse the latest attempt while it is active, else create.  *)
OpenSession(p) ==
    LET o == call[p].order
        reusable == {y \in LatestAttempt(o) : pay[y].status \in ActiveStatuses}
    IN  /\ At(p, "session")
        /\ \/ \E y \in reusable : TakeAttempt(p, y) /\ UNCHANGED pay
           \/ /\ reusable = {}
              /\ \E y \in Payments :
                    /\ pay[y].status = "NONE"
                    /\ pay' = [pay EXCEPT ![y] = [status |-> "CREATED", order |-> o, open |-> FALSE,
                                                  at |-> Cardinality(Attempts(o)) + 1]]
                    /\ TakeAttempt(p, y)
           \/ /\ reusable = {} /\ \A y \in Payments : pay[y].status # "NONE"  \* bound on rows
              /\ Become(p, Idle)
              /\ UNCHANGED pay
        /\ UNCHANGED <<stockVars, order, providerVars, recorded, crashes>>

(* ensureProviderOrder(): an attempt without a provider order is claimed   *)
(* by at most one call; the others wait for what comes of it.              *)
ClaimProviderOrder(p) ==
    LET y == call[p].pay IN
    /\ At(p, "provider")
    /\ \/ pay[y].open /\ Become(p, Idle) /\ UNCHANGED pay
       \/ /\ ~ pay[y].open /\ pay[y].status = "CREATED"
          /\ pay' = [pay EXCEPT ![y].status = "PENDING"]
          /\ Goto(p, "claimed")
       \/ ~ pay[y].open /\ pay[y].status # "CREATED" /\ Goto(p, "waits") /\ UNCHANGED pay
    /\ UNCHANGED <<stockVars, order, providerVars, recorded, crashes>>

(* What comes of a claim, by its outcome: the order was made, or found when *)
(* the answer was lost, and its id is persisted whatever has become of the  *)
(* attempt; the provider reports that there is none, and an active attempt  *)
(* is FAILED; or it is unknown, and all stays as it is.                     *)
CreateProviderOrder(p) ==
    LET y == call[p].pay IN
    /\ At(p, "claimed")
    /\ \/ pay' = [pay EXCEPT ![y].open = TRUE] /\ Become(p, Idle)
       \/ /\ pay' = [pay EXCEPT ![y].status = IF @ \in ActiveStatuses THEN "FAILED" ELSE @]
          /\ Goto(p, "giveUp")
       \/ Become(p, Idle) /\ UNCHANGED pay
    /\ UNCHANGED <<stockVars, order, providerVars, recorded, crashes>>

(* awaitConcurrentProviderOrder(): it finds the order and persists its id   *)
(* too, again without a condition; or it ends with nothing changed.         *)
AwaitProviderOrder(p) ==
    LET y == call[p].pay IN
    /\ At(p, "waits")
    /\ \/ pay' = [pay EXCEPT ![y].open = TRUE] /\ Become(p, Idle)
       \/ Become(p, Idle) /\ UNCHANGED pay
    /\ UNCHANGED <<stockVars, order, providerVars, recorded, crashes>>

Released(coupon) == IF coupon = "RESERVED" THEN "RELEASED" ELSE coupon
Consumed(coupon) == IF coupon = "RESERVED" THEN "CONSUMED" ELSE coupon

(* release() of every row of a list: the ones still ACTIVE are released.    *)
(* One that was committed since the list was read makes release() throw; of *)
(* what a list outside a transaction has released by then, every row is a   *)
(* SweepRow of its own.                                                     *)
ReleaseListed(p) ==
    /\ call[p].seen \cap Stock!Firm(resv) = {}
    /\ Stock!ReleaseRows({r \in call[p].seen : resv[r].status = "ACTIVE"})
ReleaseThrows(p) ==
    /\ call[p].seen \cap Stock!Firm(resv) # {}
    /\ Become(p, Idle)
    /\ UNCHANGED stockVars

(* releaseReservationsAndCancelOrder(), its read of the holds ...           *)
ListHolds(p) ==
    /\ At(p, "giveUp")
    /\ GotoWith(p, "cancel", {r \in RowsOf(call[p].order) : resv[r].status = "ACTIVE"})
    /\ UNCHANGED <<stockVars, order, pay, providerVars, recorded, crashes>>

(* ... and its writes: only a PENDING_PAYMENT order is cancelled.           *)
GiveUp(p) ==
    LET o == call[p].order IN
    /\ At(p, "cancel")
    /\ \/ /\ ReleaseListed(p)
          /\ order' = [order EXCEPT ![o].status = IF @ = "PENDING_PAYMENT" THEN "CANCELLED" ELSE @,
                                    ![o].coupon = Released(@)]
          /\ Become(p, Idle)
       \/ ReleaseThrows(p) /\ UNCHANGED order
    /\ UNCHANGED <<pay, providerVars, recorded, crashes>>

------------------------------------------------------------------------------
(* Retrying a payment.                                                     *)

(* retryPayment(), its read of the order. *)
BeginRetry(p, o) ==
    /\ Free(p) /\ order[o].status = "PENDING_PAYMENT"
    /\ Become(p, [Idle EXCEPT !.op = "retry", !.order = o, !.lines = LinesOf(o)])
    /\ UNCHANGED <<stockVars, order, pay, providerVars, recorded, crashes>>

(* For one line: list the expired holds on its items ...                    *)
ListLine(p, l) ==
    /\ At(p, "retry") /\ l \in call[p].lines
    /\ Become(p, [call[p] EXCEPT !.op = "line", !.line = l, !.seen = Lapsed(OnItems(ItemsOf(l)))])
    /\ UNCHANGED <<stockVars, order, pay, providerVars, recorded, crashes>>

(* ... release them, then look at A reservation of the line, whichever the  *)
(* unordered query lists first.                                             *)
RetryLine(p) ==
    LET l == call[p].line IN
    /\ At(p, "line")
    /\ \/ /\ ReleaseListed(p)
          /\ \E r \in Stock!OfLine(l) :
                \/ /\ resv'[r].status = "ACTIVE"
                   /\ Become(p, [call[p] EXCEPT !.op = "retry", !.lines = @ \ {l},
                                               !.line = NoLine, !.seen = {}])
                \/ /\ resv'[r].status # "ACTIVE"
                   /\ Become(p, [call[p] EXCEPT !.op = "reserve", !.seen = {}])
       \/ ReleaseThrows(p)
    /\ UNCHANGED <<order, pay, providerVars, recorded, crashes>>

(* Then hold the line again on an item that has enough.  It gives up when   *)
(* none has, or when the one it chose no longer has at the update.          *)
RetryReserve(p) ==
    LET l == call[p].line
        unused == {r \in Reservations : resv[r].status = "NONE"}
        enough == {i \in ItemsOf(l) : item[i].available >= LineQty[l]}
    IN  /\ At(p, "reserve")
        /\ \/ /\ \E r \in unused, i \in enough : Stock!ReserveRow(r, i, LineQty[l], l)
              /\ Become(p, [call[p] EXCEPT !.op = "retry", !.lines = @ \ {l}, !.line = NoLine])
           \/ /\ unused = {} \/ enough # ItemsOf(l)   \* unused = {} is the bound on rows
              /\ Become(p, Idle)
              /\ UNCHANGED stockVars
        /\ UNCHANGED <<order, pay, providerVars, recorded, crashes>>

RetrySession(p) ==
    /\ At(p, "retry") /\ call[p].lines = {}
    /\ Goto(p, "session")
    /\ UNCHANGED <<stockVars, order, pay, providerVars, recorded, crashes>>

------------------------------------------------------------------------------
(* The provider and the customer (external).                               *)

(* A payment on an open session is declined: it may be tried again.        *)
Decline(y) ==
    /\ pay[y].open /\ y \notin paid
    /\ events' = events \cup {<<y, "failed">>}
    /\ UNCHANGED <<stockVars, order, pay, paid, recorded, call, crashes>>

(* It is captured, once per provider order.                                *)
Capture(y) ==
    /\ pay[y].open /\ y \notin paid
    /\ paid' = paid \cup {y}
    /\ events' = events \cup {<<y, "captured">>}
    /\ UNCHANGED <<stockVars, order, pay, recorded, call, crashes>>

------------------------------------------------------------------------------
(* Learning of the outcome.                                                *)

(* verifyPayment(): the signature and what the provider reports decide; a  *)
(* callback for a payment that is not active changes nothing.              *)
Verify(p, y) ==
    /\ Free(p) /\ pay[y].open /\ pay[y].status \in ActiveStatuses
    /\ \E op \in {"capture", "fail"} :
         /\ op = "capture" => y \in paid
         /\ Become(p, [op |-> op, order |-> pay[y].order, pay |-> y, lines |-> {}, line |-> NoLine,
                       seen |-> {}, event |-> NoEvent])
    /\ UNCHANGED <<stockVars, order, pay, providerVars, recorded, crashes>>

(* Fault: every event about a payment is taken for its capture. *)
DeliverAsCapture(p, e) ==
    LET y == e[1] IN
    /\ Free(p) /\ e \in events \ recorded
    /\ Become(p, [op |-> IF pay[y].status = "CAPTURED" THEN "record" ELSE "capture",
                  order |-> pay[y].order, pay |-> y, lines |-> {}, line |-> NoLine,
                  seen |-> {}, event |-> e])
    /\ UNCHANGED <<stockVars, order, pay, providerVars, recorded, crashes>>

(* processWebhook(): an event not in the ledger is handled first and       *)
(* recorded after; deliveries repeat, overlap and come in any order.  A    *)
(* captured event fails the attempt if its amount is not exactly the       *)
(* attempt's times 100 in floating point, which differs for some amounts.  *)
Deliver(p, e) ==
    LET y == e[1]
        handlers == IF pay[y].status = "CAPTURED" THEN {"record"}
                    ELSE IF e[2] = "captured" THEN {"capture", "fail"} ELSE {"fail"}
    IN
    /\ Free(p) /\ e \in events \ recorded
    /\ \E op \in handlers :
         Become(p, [op |-> op, order |-> pay[y].order, pay |-> y, lines |-> {}, line |-> NoLine,
                    seen |-> {}, event |-> e])
    /\ UNCHANGED <<stockVars, order, pay, providerVars, recorded, crashes>>

(* Its insert into the ledger; losing a race for it is ignored.            *)
RecordEvent(p) ==
    /\ At(p, "record")
    /\ recorded' = recorded \cup {call[p].event}
    /\ Become(p, Idle)
    /\ UNCHANGED <<stockVars, order, pay, providerVars, crashes>>

(* markFailed(): only an active attempt fails. *)
MarkFailed(p) ==
    LET y == call[p].pay IN
    /\ At(p, "fail")
    /\ pay' = [pay EXCEPT ![y].status = IF @ \in ActiveStatuses THEN "FAILED" ELSE @]
    /\ Done(p)
    /\ UNCHANGED <<stockVars, order, providerVars, recorded, crashes>>

(* applySuccessfulPayment(): only an active attempt is captured, but the    *)
(* finalization follows whether this call captured it or not.               *)
ApplyCapture(p) ==
    LET y == call[p].pay IN
    /\ At(p, "capture")
    /\ pay' = [pay EXCEPT ![y].status = IF @ \in ActiveStatuses THEN "CAPTURED" ELSE @]
    /\ Goto(p, "finalize")
    /\ UNCHANGED <<stockVars, order, providerVars, recorded, crashes>>

------------------------------------------------------------------------------
(* finalizeReservationsAndConfirmOrder().                                  *)

(* Fault: an order that is no longer PENDING_PAYMENT is an error. *)
FinalizeOrderThrows(p) ==
    /\ At(p, "finalize")
    /\ IF order[call[p].order].status = "PENDING_PAYMENT"
       THEN Goto(p, "holds") ELSE Become(p, Idle)
    /\ UNCHANGED <<stockVars, order, pay, providerVars, recorded, crashes>>

(* Its read of the order. *)
FinalizeOrder(p) ==
    /\ At(p, "finalize")
    /\ IF order[call[p].order].status = "PENDING_PAYMENT" THEN Goto(p, "holds") ELSE Done(p)
    /\ UNCHANGED <<stockVars, order, pay, providerVars, recorded, crashes>>

(* Its read of the reservations: the latest per line, none of them RELEASED. *)
FinalizeHolds(p) ==
    LET current == Stock!LatestOfOrder(call[p].order) IN
    /\ At(p, "holds")
    /\ IF \E r \in current : resv[r].status = "RELEASED"
       THEN Done(p)
       ELSE GotoWith(p, "clock", {r \in current : resv[r].status = "ACTIVE"})
    /\ UNCHANGED <<stockVars, order, pay, providerVars, recorded, crashes>>

(* The new Date() of the conditional updates that follow: at the first of   *)
(* its readings no hold has expired yet.                                    *)
ReadClock(p) ==
    /\ At(p, "clock") /\ Lapsed(call[p].seen) = {}
    /\ Goto(p, "commit")
    /\ UNCHANGED <<stockVars, order, pay, providerVars, recorded, crashes>>

(* Fault: every hold is consumed on its own, one that is gone passed over. *)
CommitOrderPiecewise(p) ==
    LET o == call[p].order IN
    /\ At(p, "commit")
    /\ Stock!CommitRows({r \in call[p].seen : resv[r].status = "ACTIVE"})
    /\ order' = [order EXCEPT ![o].status = IF @ = "PENDING_PAYMENT" THEN "CONFIRMED" ELSE @,
                              ![o].coupon = Consumed(@), ![o].announced = TRUE]
    /\ Done(p)
    /\ UNCHANGED <<pay, providerVars, recorded, crashes>>

(* Its transaction: all holds COMMITTED, the coupon CONSUMED, the order     *)
(* CONFIRMED (if still PENDING_PAYMENT) and ORDER_CONFIRMED written, or     *)
(* nothing, though a hold may have expired since the clock was read.  A     *)
(* second ORDER_CONFIRMED row violates its key: the error is swallowed but  *)
(* PostgreSQL rolls the transaction back.                                   *)
CommitOrder(p) ==
    LET o == call[p].order
        S == call[p].seen
    IN  /\ At(p, "commit")
        /\ S \subseteq Stock!Held(resv)
        /\ IF order[o].announced
           THEN UNCHANGED <<stockVars, order>>
           ELSE /\ Stock!CommitRows({r \in S : resv[r].status = "ACTIVE"})
                /\ order' = [order EXCEPT
                               ![o] = [status    |-> IF @.status = "PENDING_PAYMENT"
                                                     THEN "CONFIRMED" ELSE @.status,
                                       coupon    |-> Consumed(@.coupon),
                                       announced |-> TRUE]]
        /\ Done(p)
        /\ UNCHANGED <<pay, providerVars, recorded, crashes>>

(* A hold that has expired or is no longer there: consume() throws and the  *)
(* transaction rolls back.  ReservationExpired is caught; the plain conflict*)
(* is not, and the call fails: of the first read of a row that is RELEASED, *)
(* or of the release of an expired one that was committed just before.      *)
CommitFails(p) ==
    LET S == call[p].seen
        gone == \E r \in S : resv[r].status = "RELEASED"
    IN  /\ \/ At(p, "clock") /\ (gone \/ Lapsed(S) # {}) /\ Goto(p, "lapsed")
           \/ At(p, "commit") /\ gone /\ Goto(p, "lapsed")
           \/ /\ At(p, "clock")
              /\ gone \/ \E r \in S : resv[r].status = "COMMITTED" /\ resv[r].expired
              /\ Become(p, Idle)
        /\ UNCHANGED <<stockVars, order, pay, providerVars, recorded, crashes>>

(* The catch branch: list what has expired of the order ...                 *)
ListLapsed(p) ==
    /\ At(p, "lapsed")
    /\ GotoWith(p, "sweep", Lapsed(RowsOf(call[p].order)))
    /\ UNCHANGED <<stockVars, order, pay, providerVars, recorded, crashes>>

(* ... and release it.                                                      *)
ReleaseLapsed(p) ==
    /\ At(p, "sweep")
    /\ \/ ReleaseListed(p) /\ Done(p)
       \/ ReleaseThrows(p)
    /\ UNCHANGED <<order, pay, providerVars, recorded, crashes>>

------------------------------------------------------------------------------
(* The life of the order after payment (OrderStatusService).               *)

(* Fault: the holds are released without looking at their status. *)
CancelReleasesAnyRow(o) ==
    /\ order[o].status \in {"PENDING_PAYMENT", "CONFIRMED", "PROCESSING"}
    /\ Stock!ReleaseRows({r \in RowsOf(o) : resv[r].status # "NONE"})
    /\ order' = [order EXCEPT ![o].status = "CANCELLED", ![o].coupon = Released(@)]
    /\ UNCHANGED <<pay, providerVars, recorded, call, crashes>>

(* Fault: the coupon of a cancelled order is forgotten. *)
CancelKeepsCoupon(o) ==
    /\ order[o].status \in {"PENDING_PAYMENT", "CONFIRMED", "PROCESSING"}
    /\ Stock!ReleaseRows(RowsOf(o) \cap Stock!Held(resv))
    /\ order' = [order EXCEPT ![o].status = "CANCELLED"]
    /\ UNCHANGED <<pay, providerVars, recorded, call, crashes>>

(* transition() to CANCELLED: every ACTIVE or COMMITTED hold is released,   *)
(* a RESERVED coupon too, and the payment is left as it is.                 *)
Cancel(o) ==
    /\ order[o].status \in {"PENDING_PAYMENT", "CONFIRMED", "PROCESSING"}
    /\ Stock!ReleaseRows(RowsOf(o) \cap Stock!Held(resv))
    /\ order' = [order EXCEPT ![o].status = "CANCELLED", ![o].coupon = Released(@)]
    /\ UNCHANGED <<pay, providerVars, recorded, call, crashes>>

(* transition() along CONFIRMED -> PROCESSING and PACKED -> SHIPPED -> DELIVERED. *)
Advance(o) ==
    /\ \E step \in {<<"CONFIRMED", "PROCESSING">>, <<"PACKED", "SHIPPED">>,
                    <<"SHIPPED", "DELIVERED">>} :
         /\ order[o].status = step[1]
         /\ order' = [order EXCEPT ![o].status = step[2]]
    /\ UNCHANGED <<stockVars, pay, providerVars, recorded, call, crashes>>

(* Fault: a line whose hold is not COMMITTED is skipped, not refused. *)
PackSkipsLines(o) ==
    /\ order[o].status = "PROCESSING"
    /\ Stock!ShipRows(Stock!LatestOfOrder(o) \cap Stock!Firm(resv))
    /\ order' = [order EXCEPT ![o].status = "PACKED"]
    /\ UNCHANGED <<pay, providerVars, recorded, call, crashes>>

(* fulfill(): claims PROCESSING -> PACKED and ships, or neither. *)
Pack(o) ==
    /\ order[o].status = "PROCESSING"
    /\ \A l \in LinesOf(o) : Stock!LatestOf(l) # {}
    /\ Stock!LatestOfOrder(o) \subseteq Stock!Firm(resv)
    /\ Stock!ShipRows(Stock!LatestOfOrder(o))
    /\ order' = [order EXCEPT ![o].status = "PACKED"]
    /\ UNCHANGED <<pay, providerVars, recorded, call, crashes>>

------------------------------------------------------------------------------
(* Time, sweeps of other requests, crashes.                                *)

Lapse(r) == Stock!Lapse(r) /\ UNCHANGED <<order, pay, providerVars, recorded, call, crashes>>

(* One release of releaseExpiredReservations() run for another order or by  *)
(* the background sweep.                                                    *)
SweepRow(r) ==
    /\ r \in Lapsed(Reservations)
    /\ Stock!ReleaseRows({r})
    /\ UNCHANGED <<order, pay, providerVars, recorded, call, crashes>>

Crash(p) ==
    /\ ~ Free(p) /\ crashes < MaxCrashes
    /\ Become(p, Idle)
    /\ crashes' = crashes + 1
    /\ UNCHANGED <<stockVars, order, pay, providerVars, recorded>>

------------------------------------------------------------------------------
(* What a request does once it has begun. *)
Continue(p) ==
    \/ OpenSession(p)
    \/ ClaimProviderOrder(p) \/ CreateProviderOrder(p) \/ AwaitProviderOrder(p)
    \/ ListHolds(p) \/ GiveUp(p)
    \/ \E l \in Lines : ListLine(p, l)
    \/ RetryLine(p) \/ RetryReserve(p) \/ RetrySession(p)
    \/ MarkFailed(p) \/ ApplyCapture(p)
    \/ FinalizeOrder(p) \/ FinalizeHolds(p) \/ ReadClock(p)
    \/ CommitOrder(p) \/ CommitFails(p) \/ ListLapsed(p) \/ ReleaseLapsed(p)
    \/ RecordEvent(p)

Begin(p) ==
    \/ \E o \in Orders : PlaceOrder(p, o) \/ ReplayCheckout(p, o) \/ BeginRetry(p, o)
    \/ \E y \in Payments : Verify(p, y)
    \/ \E e \in Event : Deliver(p, e)

Next ==
    \/ \E p \in Workers : Begin(p) \/ Continue(p) \/ Crash(p)
    \/ \E y \in Payments : Decline(y) \/ Capture(y)
    \/ \E o \in Orders : Cancel(o) \/ Advance(o) \/ Pack(o)
    \/ \E r \in Reservations : Lapse(r) \/ SweepRow(r)

Spec == Init /\ [][Next]_vars

(* A process that does not crash goes on with its request; the provider     *)
(* redelivers an event until it is acknowledged, and a delivery is taken up *)
(* again and again for as long as requests keep ending.                     *)
Fairness ==
    /\ \A p \in Workers : WF_vars(Continue(p))
    /\ \A e \in Event : SF_vars(\E p \in Workers : Deliver(p, e))

FairSpec == Spec /\ Fairness

------------------------------------------------------------------------------
(* Properties.                                                             *)

FirmOf(l) == {r \in Stock!Firm(resv) : resv[r].line = l}

(* The stock counters agree with the reservations when checkout, retries,   *)
(* finalization, cancellation, shipment and sweeps work on the same rows.   *)
CountersAgree == Stock!StockBalance /\ Stock!ReservedIsHeld /\ Stock!CommittedIsFirm

(* All or nothing: an order that is CONFIRMED and not shipped has exactly   *)
(* one firm hold behind every line, however many finalizations ran for it,  *)
(* and one that is still PENDING_PAYMENT has none.                          *)
ConfirmedHoldsEveryLine ==
    \A l \in Lines :
        LET status == order[LineOrder[l]].status IN
        /\ status \in {"CONFIRMED", "PROCESSING"} => Cardinality(FirmOf(l)) = 1
        /\ status = "PENDING_PAYMENT" => FirmOf(l) = {}

(* The units of a SKU that have left the warehouses are those of the packed *)
(* orders, each line once: no double shipment, none for another order.      *)
ShippedIsPacked ==
    \A k \in Skus :
        Cardinality({u \in Warehouses \X (1 .. InitialStock) : u[2] > item[<<u[1], k>>].onHand})
            = Cardinality({u \in Lines \X (1 .. MaxQty) :
                             /\ LineSku[u[1]] = k /\ u[2] <= LineQty[u[1]]
                             /\ order[LineOrder[u[1]]].status \in
                                  {"PACKED", "SHIPPED", "DELIVERED"}})

(* The coupon goes with the order: reserved while payment is pending, spent *)
(* once the order was confirmed and given back when it was cancelled before. *)
CouponFollowsOrder ==
    \A o \in Orders :
        LET status == order[o].status IN
        order[o].coupon # "none" =>
            /\ status = "PENDING_PAYMENT" => order[o].coupon = "RESERVED"
            /\ status \in OrderStatus \ {"NONE", "PENDING_PAYMENT", "CANCELLED"} =>
                  order[o].coupon = "CONSUMED"
            /\ status = "CANCELLED" => order[o].coupon # "RESERVED"

(* Nobody gets an order for nothing: however callbacks, declines and       *)
(* webhooks overtake each other, an order that was confirmed and not       *)
(* cancelled has a payment whose money the provider has captured (its row  *)
(* may say FAILED, where markFailed() came first).                         *)
ConfirmedHasMoney ==
    \A o \in Orders :
        order[o].status \in {"CONFIRMED", "PROCESSING", "PACKED", "SHIPPED", "DELIVERED"} =>
            Attempts(o) \cap paid # {}

(* Every webhook event is acknowledged in the end, in spite of crashes and  *)
(* of the calls that fail on a conflict: the provider's redeliveries stop.  *)
EventsAreAcknowledged == \A e \in Event : e \in events ~> e \in recorded

------------------------------------------------------------------------------
(* What the repository says of the program and the code does not keep.     *)

(* "either every required line becomes COMMITTED and the Order becomes     *)
(* CONFIRMED together, or NONE of them change at all"                      *)
(* (finalizeReservationsAndConfirmOrder): firm holds only behind an order  *)
(* that was confirmed and is neither shipped nor cancelled.                *)
CommittedMeansConfirmed ==
    \A l \in Lines : FirmOf(l) # {} =>
        order[LineOrder[l]].status \in {"CONFIRMED", "PROCESSING"}

(* "a captured payment is never permanently orphaned from a chance to      *)
(* finalize" (applySuccessfulPayment): a captured payment's order leaves   *)
(* PENDING_PAYMENT, unless one of its lines has lost its hold.             *)
CapturedIsFinalized ==
    \A y \in Payments, o \in Orders :
        pay[y].status = "CAPTURED" /\ pay[y].order = o ~>
            \/ order[o].status # "PENDING_PAYMENT"
            \/ \E r \in Stock!LatestOfOrder(o) : resv[r].status = "RELEASED" \/ resv[r].expired
==============================================================================
