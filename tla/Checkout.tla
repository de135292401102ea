------------------------------ MODULE Checkout ------------------------------
(***************************************************************************)
(* Carts and the checkout that turns one into an order: CartService,       *)
(* CheckoutService.createCheckout() and the coupon slots of                *)
(* CouponRedemptionService.  Inventory.tla and OrderPayment.tla have the   *)
(* holds and what becomes of an order; here stock is a number and an order *)
(* is confirmed or cancelled in one step.                                  *)
(*                                                                         *)
(* A request in flight is one API call; op names the read, lock or         *)
(* transaction it makes next.  PostgreSQL runs at READ COMMITTED: a        *)
(* transaction sees what others have committed since its own earlier reads.*)
(*                                                                         *)
(* Simplifications: the lines of a cart are independent of each other, so  *)
(* a cart holds units of one product; an unavailable product or shipping   *)
(* method, a refused discount and an order number already taken all roll   *)
(* back a checkout, as Fail does; a cart may prove to be past its date     *)
(* whenever its date is looked at.                                         *)
(***************************************************************************)
EXTENDS Integers, FiniteSets

CONSTANTS
    Customers, Carts, Orders,
    Keys,              \* values of the Idempotency-Key header
    Requests,          \* API calls in flight
    NoCustomer, NoCart, NoKey,
    MaxCartQty,        \* MAX_CART_ITEM_QUANTITY
    Stock,             \* units on sale at first
    UsageLimit, PerCustomerLimit,   \* of the one coupon
    MaxAsked           \* bound on the units a customer puts in carts

ASSUME CheckoutAssumption ==
    /\ IsFiniteSet(Orders) /\ IsFiniteSet(Requests)
    /\ NoCustomer \notin Customers /\ NoCart \notin Carts /\ NoKey \notin Keys
    /\ {MaxCartQty, Stock, UsageLimit, PerCustomerLimit, MaxAsked} \subseteq Nat

VARIABLES
    cart,        \* Cart rows with the quantity of their item
    cookie,      \* the guest cart a customer's browser remembers
    order,       \* Order rows with their CouponRedemption
    available,   \* units on sale
    request,     \* the calls in flight
    asked,       \* history: units a customer has put in carts
    overlapped   \* history: customers with a merge that wrote over a change

checkoutVars == <<cart, cookie, order, available, request, asked, overlapped>>

CartRow == [status : {"NONE", "ACTIVE", "CONVERTED", "MERGED", "EXPIRED"},
            owner  : Customers \cup {NoCustomer},
            guest  : BOOLEAN,
            qty    : Nat]

OrderRow == [status : {"NONE", "PENDING_PAYMENT", "CONFIRMED", "CANCELLED"},
             owner  : Customers \cup {NoCustomer},
             key    : Keys \cup {NoKey},
             qty    : Nat,
             coupon : {"NONE", "RESERVED", "CONSUMED", "RELEASED"}]

Request == [op     : {"idle", "edit", "checkout", "lock", "coupon", "place", "merge", "read", "write"},
            user   : Customers \cup {NoCustomer},
            cart   : Carts \cup {NoCart},     \* the cart edited, checked out or merged
            target : Carts \cup {NoCart},     \* the cart merged into
            key    : Keys \cup {NoKey},
            coupon : BOOLEAN,
            seen   : Nat,                     \* its quantity, as it was read
            had    : Nat]                     \* the quantity of the target, as it was read

CheckoutTypeOK ==
    /\ cart \in [Carts -> CartRow]
    /\ cookie \in [Customers -> Carts \cup {NoCart}]
    /\ order \in [Orders -> OrderRow]
    /\ available \in 0 .. Stock
    /\ request \in [Requests -> Request]
    /\ asked \in [Customers -> Nat]
    /\ overlapped \subseteq Customers

------------------------------------------------------------------------------
NoRequest == [op |-> "idle", user |-> NoCustomer, cart |-> NoCart, target |-> NoCart,
              key |-> NoKey, coupon |-> FALSE, seen |-> 0, had |-> 0]

CheckoutInit ==
    /\ cart = [c \in Carts |-> [status |-> "NONE", owner |-> NoCustomer, guest |-> FALSE,
                                qty |-> 0]]
    /\ cookie = [u \in Customers |-> NoCart]
    /\ order = [o \in Orders |-> [status |-> "NONE", owner |-> NoCustomer, key |-> NoKey,
                                  qty |-> 0, coupon |-> "NONE"]]
    /\ available = Stock
    /\ request = [r \in Requests |-> NoRequest]
    /\ asked = [u \in Customers |-> 0]
    /\ overlapped = {}

Doing(r, op) == request[r].op = op
Turn(r, q) == request' = [request EXCEPT ![r] = q]
Proceed(r, op) == Turn(r, [request[r] EXCEPT !.op = op])
Answered(r) == Turn(r, NoRequest)

Smaller(m, n) == IF m < n THEN m ELSE n

------------------------------------------------------------------------------
(* Finding the cart of a call.                                             *)

Opened(u, guest) == [status |-> "ACTIVE", owner |-> u, guest |-> guest, qty |-> 0]

(* resolveUserCart(): c is the current cart of u, found or made under the  *)
(* advisory lock of the user; a cart past its date is closed.              *)
ResolveUserCart(u, c) ==
    LET current == {d \in Carts : /\ cart[d].status = "ACTIVE" /\ ~ cart[d].guest
                                  /\ cart[d].owner = u}
    IN  \/ /\ c \in current
           /\ UNCHANGED cart
        \/ /\ cart[c].status = "NONE"
           /\ cart' = [d \in Carts |-> IF d = c THEN Opened(u, FALSE)
                                       ELSE IF d \in current THEN [cart[d] EXCEPT !.status = "EXPIRED"]
                                       ELSE cart[d]]

(* resolveGuestCart(): the cart of the cookie, or a new one and its cookie *)
(* if there is none or it is no longer good.                               *)
ResolveGuestCart(u, c) ==
    \/ /\ cookie[u] = c /\ cart[c].status = "ACTIVE"
       /\ UNCHANGED <<cart, cookie>>
    \/ /\ cart[c].status = "NONE"
       /\ cart' = [cart EXCEPT ![c] = Opened(u, TRUE)]
       /\ cookie' = [cookie EXCEPT ![u] = c]

------------------------------------------------------------------------------
(* Editing a cart.  It is found first and changed later, whatever has      *)
(* become of it in between.                                                *)

BeginEdit(r, u) ==
    /\ Doing(r, "idle")
    /\ \E c \in Carts :
          /\ \/ ResolveUserCart(u, c) /\ UNCHANGED cookie
             \/ ResolveGuestCart(u, c)
          /\ Turn(r, [NoRequest EXCEPT !.op = "edit", !.user = u, !.cart = c])
    /\ UNCHANGED <<order, available, asked, overlapped>>

(* The item of the cart gets quantity n; what is more than before was asked for. *)
Write(r, n) ==
    LET q == request[r]
        more == IF n > cart[q.cart].qty THEN n - cart[q.cart].qty ELSE 0
    IN  /\ asked[q.user] + more <= MaxAsked
        /\ asked' = [asked EXCEPT ![q.user] = @ + more]
        /\ cart' = [cart EXCEPT ![q.cart].qty = n]
        /\ Answered(r)
        /\ UNCHANGED <<cookie, order, available, overlapped>>

(* addItem(): the increment is atomic; too many for a line or for the      *)
(* stock roll it back (Fail).                                              *)
AddItem(r) ==
    /\ Doing(r, "edit")
    /\ cart[request[r].cart].qty + 1 <= Smaller(available, MaxCartQty)
    /\ Write(r, cart[request[r].cart].qty + 1)

(* updateItemQuantity(): the stock is read a moment before, here at once. *)
UpdateItemQuantity(r, n) ==
    /\ Doing(r, "edit")
    /\ cart[request[r].cart].qty > 0 /\ n <= Smaller(available, MaxCartQty)
    /\ Write(r, n)

(* removeItem(), clearCart(). *)
RemoveItem(r) == Doing(r, "edit") /\ Write(r, 0)

------------------------------------------------------------------------------
(* mergeGuestCartIntoUser(), at login.                                     *)

(* Its first read, outside any transaction.  A guest cart that is empty or *)
(* past its date is closed without one.                                    *)
BeginMerge(r, u) ==
    LET g == cookie[u] IN
    /\ Doing(r, "idle") /\ g \in Carts
    /\ \/ /\ cart[g].status = "ACTIVE" /\ cart[g].qty > 0
          /\ Turn(r, [op |-> "merge", user |-> u, cart |-> g, target |-> NoCart,
                     key |-> NoKey, coupon |-> FALSE, seen |-> cart[g].qty, had |-> 0])
          /\ UNCHANGED <<cart, cookie>>
       \/ /\ cart' = [cart EXCEPT ![g].status = IF @ = "ACTIVE" THEN "MERGED" ELSE @]
          /\ cookie' = [cookie EXCEPT ![u] = NoCart]
          /\ UNCHANGED request
    /\ UNCHANGED <<order, available, asked, overlapped>>

ResolveForMerge(r) ==
    /\ Doing(r, "merge")
    /\ \E c \in Carts :
          /\ ResolveUserCart(request[r].user, c)
          /\ Turn(r, [request[r] EXCEPT !.op = "read", !.target = c])
    /\ UNCHANGED <<cookie, order, available, asked, overlapped>>

ReadTarget(r) ==
    /\ Doing(r, "read")
    /\ Turn(r, [request[r] EXCEPT !.op = "write", !.had = cart[request[r].target].qty])
    /\ UNCHANGED <<cart, cookie, order, available, asked, overlapped>>

(* The sum of the two quantities as they were read is written, capped by   *)
(* stock and limit, and the guest cart is closed.  The login answers, and  *)
(* the browser forgets its guest cart.                                     *)
WriteMerge(r) ==
    LET q == request[r]
        capped == Smaller(q.had + q.seen, Smaller(available, MaxCartQty))
        changed == cart[q.cart].status # "ACTIVE" \/ cart[q.target].qty # q.had
    IN  /\ Doing(r, "write")
        /\ cart' = [cart EXCEPT ![q.target].qty = IF capped > 0 THEN capped ELSE @,
                                ![q.cart].qty = 0, ![q.cart].status = "MERGED"]
        /\ overlapped' = IF changed THEN overlapped \cup {q.user} ELSE overlapped
        /\ cookie' = [cookie EXCEPT ![q.user] = NoCart]
        /\ Answered(r)
        /\ UNCHANGED <<order, available, asked>>

------------------------------------------------------------------------------
(* createCheckout().                                                       *)

Placed == {o \in Orders : order[o].status # "NONE"}
Used(u, k) == k # NoKey /\ \E o \in Placed : order[o].owner = u /\ order[o].key = k

(* A key that has an order already is answered from that order. *)
BeginCheckout(r, u, k, coupon) ==
    /\ Doing(r, "idle") /\ ~ Used(u, k)
    /\ Turn(r, [op |-> "checkout", user |-> u, cart |-> NoCart, target |-> NoCart,
                  key |-> k, coupon |-> coupon, seen |-> 0, had |-> 0])
    /\ UNCHANGED <<cart, cookie, order, available, asked, overlapped>>

ResolveForCheckout(r) ==
    /\ Doing(r, "checkout")
    /\ \E c \in Carts :
          /\ ResolveUserCart(request[r].user, c)
          /\ Turn(r, [request[r] EXCEPT !.op = "lock", !.cart = c])
    /\ UNCHANGED <<cookie, order, available, asked, overlapped>>

InTransaction(r) == request[r].op \in {"coupon", "place"}

(* Fault: the cart is not locked, so that two checkouts read the same lines. *)
LockCartNot(r) == TRUE

(* pg_advisory_xact_lock("checkout:cart:..."). *)
LockCart(r) == \A s \in Requests \ {r} : InTransaction(s) => request[s].cart # request[r].cart

(* The transaction begins with the lock and reads the cart, not its status. *)
EnterCheckout(r) ==
    LET qty == cart[request[r].cart].qty IN
    /\ Doing(r, "lock") /\ LockCart(r)
    /\ \/ /\ qty > 0 /\ qty <= available
          /\ Turn(r, [request[r] EXCEPT !.seen = qty,
                                        !.op = IF request[r].coupon THEN "coupon" ELSE "place"])
       \/ /\ qty = 0 \/ qty > available
          /\ Answered(r)
    /\ UNCHANGED <<cart, cookie, order, available, asked, overlapped>>

Holding == {o \in Orders : order[o].coupon \in {"RESERVED", "CONSUMED"}}
HoldingOf(u) == {o \in Holding : order[o].owner = u}

(* Fault: the lock of the coupon ends with the count, not with the transaction. *)
LockCouponNot(r) == TRUE

(* pg_advisory_xact_lock("coupon:redeem:..."), held until the transaction ends. *)
LockCoupon(r) == \A s \in Requests \ {r} : ~ (Doing(s, "place") /\ request[s].coupon)

(* evaluate(): the slots in use are counted under the lock of the coupon. *)
EvaluateCoupon(r) ==
    /\ Doing(r, "coupon") /\ LockCoupon(r)
    /\ IF /\ Cardinality(Holding) < UsageLimit
          /\ Cardinality(HoldingOf(request[r].user)) < PerCustomerLimit
       THEN Proceed(r, "place") ELSE Answered(r)
    /\ UNCHANGED <<cart, cookie, order, available, asked, overlapped>>

Fits(r) == ~ Used(request[r].user, request[r].key) /\ request[r].seen <= available

(* The rest of the transaction: order and redemption are created, the      *)
(* units held, every line of the cart deleted as it is now, the cart       *)
(* CONVERTED.  A taken key or missing units roll everything back.          *)
Place(r) ==
    LET q == request[r] IN
    /\ Doing(r, "place")
    /\ \/ /\ Fits(r)
          /\ \E o \in Orders \ Placed :
                order' = [order EXCEPT ![o] =
                            [status |-> "PENDING_PAYMENT", owner |-> q.user, key |-> q.key,
                             qty |-> q.seen, coupon |-> IF q.coupon THEN "RESERVED" ELSE "NONE"]]
          /\ available' = available - q.seen
          /\ cart' = [cart EXCEPT ![q.cart].qty = 0, ![q.cart].status = "CONVERTED"]
       \/ /\ ~ Fits(r)
          /\ UNCHANGED <<order, available, cart>>
    /\ Answered(r)
    /\ UNCHANGED <<cookie, asked, overlapped>>

------------------------------------------------------------------------------
(* Any call may fail before its last step: refused, timed out or cut off.  *)
Fail(r) ==
    /\ ~ Doing(r, "idle")
    /\ Answered(r)
    /\ UNCHANGED <<cart, cookie, order, available, asked, overlapped>>

(* Finalization consumes the coupon slot (OrderPayment.tla has the rest). *)
Confirm(o) ==
    /\ order[o].status = "PENDING_PAYMENT"
    /\ order' = [order EXCEPT ![o].status = "CONFIRMED",
                              ![o].coupon = IF @ = "RESERVED" THEN "CONSUMED" ELSE @]
    /\ UNCHANGED <<cart, cookie, available, request, asked, overlapped>>

(* Fault: an order that is cancelled already gives its units back again. *)
CancelAgain(o) ==
    /\ order[o].status # "NONE"
    /\ order' = [order EXCEPT ![o].status = "CANCELLED"]
    /\ available' = available + order[o].qty
    /\ UNCHANGED <<cart, cookie, request, asked, overlapped>>

(* Cancellation releases a slot that is only RESERVED. *)
Cancel(o) ==
    /\ order[o].status \in {"PENDING_PAYMENT", "CONFIRMED"}
    /\ order' = [order EXCEPT ![o].status = "CANCELLED",
                              ![o].coupon = IF @ = "RESERVED" THEN "RELEASED" ELSE @]
    /\ available' = available + order[o].qty
    /\ UNCHANGED <<cart, cookie, request, asked, overlapped>>

SweepExpiredCarts(expired) ==
    /\ \A c \in expired : cart[c].status = "ACTIVE"
    /\ cart' = [c \in Carts |-> IF c \in expired THEN [cart[c] EXCEPT !.status = "EXPIRED"]
                                ELSE cart[c]]
    /\ UNCHANGED <<cookie, order, available, request, asked, overlapped>>

CheckoutNext ==
    \/ \E r \in Requests, u \in Customers :
          \/ BeginEdit(r, u)
          \/ BeginMerge(r, u)
          \/ \E k \in Keys \cup {NoKey}, coupon \in BOOLEAN : BeginCheckout(r, u, k, coupon)
    \/ \E r \in Requests :
          \/ AddItem(r)
          \/ \E n \in 1 .. MaxCartQty : UpdateItemQuantity(r, n)
          \/ RemoveItem(r)
          \/ ResolveForMerge(r) \/ ReadTarget(r) \/ WriteMerge(r)
          \/ ResolveForCheckout(r) \/ EnterCheckout(r) \/ EvaluateCoupon(r) \/ Place(r)
          \/ Fail(r)
    \/ \E o \in Orders : Confirm(o) \/ Cancel(o)
    \/ \E expired \in (SUBSET Carts) \ {{}} : SweepExpiredCarts(expired)

CheckoutSpec == CheckoutInit /\ [][CheckoutNext]_checkoutVars

------------------------------------------------------------------------------
OrderedUnits(u) ==
    {v \in Placed \X (1 .. MaxCartQty) : order[v[1]].owner = u /\ v[2] <= order[v[1]].qty}
UnitsInCarts(u) ==
    {v \in Carts \X (1 .. MaxCartQty) : /\ cart[v[1]].status = "ACTIVE" /\ cart[v[1]].owner = u
                                        /\ v[2] <= cart[v[1]].qty}

(* A unit the customer has put in a cart is ordered once: double clicks,   *)
(* a second tab, retries of a checkout that failed half-way and a merge at *)
(* login never make more of it.  The exception is a merge that writes over *)
(* a change made since it read: two logins at once with one guest cart     *)
(* count it twice, for the cart is read before the transaction.            *)
OrderedOnce ==
    \A u \in Customers \ overlapped :
        Cardinality(OrderedUnits(u)) + Cardinality(UnitsInCarts(u)) <= asked[u]

(* However many customers race for a coupon, and whatever is cancelled     *)
(* meanwhile, the slots in use never exceed its two limits.                *)
CouponWithinLimits ==
    /\ Cardinality(Holding) <= UsageLimit
    /\ \A u \in Customers : Cardinality(HoldingOf(u)) <= PerCustomerLimit
==============================================================================
