--------------------------- MODULE CheckoutProofs ---------------------------
(***************************************************************************)
(* What checkouts keep for any number of customers, carts, orders and      *)
(* calls in flight: the units on sale, the limits of the coupon, and that  *)
(* a unit is ordered once.  At the end, what an order costs: its columns   *)
(* and its refunds, for any lines, prices and promotions.                  *)
(***************************************************************************)
EXTENDS Checkout, Pricing, Counting

(* A call has the customer and the carts its next step needs. *)
Prepared(q) ==
    /\ q.op # "idle" => q.user \in Customers
    /\ q.op \in {"edit", "lock", "coupon", "place", "merge", "read", "write"} => q.cart \in Carts
    /\ q.op \in {"read", "write"} => q.target \in Carts

Rows ==
    /\ cart \in [Carts -> CartRow]
    /\ cookie \in [Customers -> Carts \cup {NoCart}]
    /\ order \in [Orders -> OrderRow]
    /\ available \in Nat
    /\ request \in [Requests -> Request]
    /\ asked \in [Customers -> Nat]
    /\ overlapped \subseteq Customers
    /\ \A r \in Requests : Prepared(request[r])

Open(o) == order[o].status \in {"PENDING_PAYMENT", "CONFIRMED"}
Sold == {v \in Orders \X (1 .. Stock) : Open(v[1]) /\ v[2] <= order[v[1]].qty}

(* Every unit is on sale or in an open order. *)
StockIsWhole ==
    /\ available + Cardinality(Sold) = Stock
    /\ \A o \in Orders : Open(o) => order[o].qty <= Stock

(* A checkout past the count of the coupon slots, and before its commit. *)
Redeems(r) == request[r].op = "place" /\ request[r].coupon

(* The lock of the coupon lets one checkout at a time past the count, and  *)
(* what it counted can only have become less.                              *)
RoomIsKept ==
    /\ \A r, s \in Requests : Redeems(r) /\ Redeems(s) => r = s
    /\ \A r \in Requests : Redeems(r) =>
          /\ Cardinality(Holding) < UsageLimit
          /\ \A u \in Customers : request[r].user = u => Cardinality(HoldingOf(u)) < PerCustomerLimit

CheckoutIInv == Rows /\ StockIsWhole /\ RoomIsKept /\ CouponWithinLimits

------------------------------------------------------------------------------
(* The orders of a finite set are finitely many, and fewer hold less. *)
LEMMA HoldersCounted ==
    ASSUME NEW A \in SUBSET Orders, NEW B \in SUBSET A
    PROVE  /\ IsFiniteSet(A) /\ IsFiniteSet(B)
           /\ Cardinality(A) \in Nat /\ Cardinality(B) \in Nat
           /\ Cardinality(B) <= Cardinality(A)
BY CheckoutAssumption, FS_Subset, FS_CardinalityType

(* The calls after a step of one of them. *)
LEMMA TurnTyped ==
    ASSUME Rows, NEW r \in Requests, NEW q \in Request, Prepared(q), Turn(r, q)
    PROVE  /\ request' \in [Requests -> Request]
           /\ \A s \in Requests : Prepared(request'[s])
           /\ \A s \in Requests : request'[s] = IF s = r THEN q ELSE request[s]
BY DEF Rows, Turn

(* The empty call. *)
LEMMA NoRequestTyped == NoRequest \in Request /\ Prepared(NoRequest) /\ NoRequest.op # "place"
BY DEF NoRequest, Request, Prepared

(* A step that leaves orders and units alone, and lets no checkout past   *)
(* the count.                                                              *)
LEMMA OrdersStay ==
    ASSUME CheckoutIInv, Rows', UNCHANGED <<order, available>>,
           \A r \in Requests : Redeems(r)' => Redeems(r) /\ request'[r].user = request[r].user
    PROVE  CheckoutIInv'
<1>1. /\ Sold' = Sold /\ Holding' = Holding
      /\ \A u : HoldingOf(u)' = HoldingOf(u)
      /\ \A o : Open(o)' = Open(o)
  BY DEF Sold, Open, Holding, HoldingOf
<1>2. StockIsWhole'
  BY <1>1 DEF CheckoutIInv, StockIsWhole
<1>3. CouponWithinLimits'
  BY <1>1 DEF CheckoutIInv, CouponWithinLimits
<1>4. RoomIsKept'
  BY <1>1 DEF CheckoutIInv, RoomIsKept
<1> QED
  BY <1>2, <1>3, <1>4 DEF CheckoutIInv

(* A step that takes no coupon slot and lets no checkout past the count.   *)
LEMMA SlotsShrink ==
    ASSUME CheckoutIInv, Holding' \subseteq Holding,
           \A u : HoldingOf(u)' \subseteq HoldingOf(u),
           \A r \in Requests : Redeems(r)' => Redeems(r) /\ request'[r].user = request[r].user
    PROVE  RoomIsKept' /\ CouponWithinLimits'
<1>1. Holding \in SUBSET Orders /\ \A u : HoldingOf(u) \in SUBSET Orders
  BY DEF Holding, HoldingOf
<1>2. /\ Cardinality(Holding') \in Nat /\ Cardinality(Holding) \in Nat
      /\ Cardinality(Holding') <= Cardinality(Holding)
  BY <1>1, HoldersCounted
<1>3. \A u : /\ Cardinality(HoldingOf(u)') \in Nat /\ Cardinality(HoldingOf(u)) \in Nat
             /\ Cardinality(HoldingOf(u)') <= Cardinality(HoldingOf(u))
  BY <1>1, HoldersCounted
<1>4. UsageLimit \in Nat /\ PerCustomerLimit \in Nat
  BY CheckoutAssumption
<1>5. CouponWithinLimits'
  <2>1. /\ Cardinality(Holding) <= UsageLimit
        /\ \A u \in Customers : Cardinality(HoldingOf(u)) <= PerCustomerLimit
    BY DEF CheckoutIInv, CouponWithinLimits
  <2>2. Cardinality(Holding') <= UsageLimit
    BY <1>2, <1>4, <2>1
  <2>3. ASSUME NEW u \in Customers
        PROVE  Cardinality(HoldingOf(u)') <= PerCustomerLimit
    BY <1>3, <1>4, <2>1
  <2> QED
    BY <2>2, <2>3 DEF CouponWithinLimits
<1>6. RoomIsKept'
  <2>1. ASSUME NEW r \in Requests, Redeems(r)
        PROVE  /\ Cardinality(Holding') < UsageLimit
               /\ \A u \in Customers : request[r].user = u =>
                     Cardinality(HoldingOf(u)') < PerCustomerLimit
    <3>1. /\ Cardinality(Holding) < UsageLimit
          /\ \A u \in Customers : request[r].user = u =>
                Cardinality(HoldingOf(u)) < PerCustomerLimit
      BY <2>1 DEF CheckoutIInv, RoomIsKept
    <3>2. ASSUME NEW u \in Customers, request[r].user = u
          PROVE  Cardinality(HoldingOf(u)') < PerCustomerLimit
      BY <1>3, <1>4, <3>1, <3>2
    <3> QED
      BY <1>2, <1>4, <3>1, <3>2
  <2> QED
    BY <2>1 DEF CheckoutIInv, RoomIsKept
<1> QED
  BY <1>5, <1>6

------------------------------------------------------------------------------
(* Finding a cart keeps the rows of the carts. *)
LEMMA ResolveTyped ==
    ASSUME Rows, NEW u \in Customers, NEW c \in Carts,
           ResolveUserCart(u, c) \/ ResolveGuestCart(u, c)
    PROVE  cart' \in [Carts -> CartRow]
<1>1. /\ cart \in [Carts -> CartRow]
      /\ Opened(u, FALSE) \in CartRow /\ Opened(u, TRUE) \in CartRow
  BY DEF Rows, CartRow, Opened
<1>2. \A d \in Carts : [cart[d] EXCEPT !.status = "EXPIRED"] \in CartRow
  BY <1>1 DEF CartRow
<1>3. CASE UNCHANGED cart
  BY <1>1, <1>3
<1>4. CASE cart' = [cart EXCEPT ![c] = Opened(u, TRUE)]
  BY <1>1, <1>4
<1>5. CASE ~ UNCHANGED cart /\ ~ cart' = [cart EXCEPT ![c] = Opened(u, TRUE)]
  <2> DEFINE current == {d \in Carts : /\ cart[d].status = "ACTIVE" /\ ~ cart[d].guest
                                       /\ cart[d].owner = u}
  <2>1. cart' = [d \in Carts |-> IF d = c THEN Opened(u, FALSE)
                                 ELSE IF d \in current THEN [cart[d] EXCEPT !.status = "EXPIRED"]
                                 ELSE cart[d]]
    BY <1>5 DEF ResolveUserCart, ResolveGuestCart
  <2> HIDE DEF current
  <2> QED
    BY <1>1, <1>2, <2>1
<1> QED
  BY <1>3, <1>4, <1>5

(* The steps of a call before it places an order. *)
LEMMA EditKeeps ==
    ASSUME CheckoutIInv, NEW r \in Requests, NEW u \in Customers, BeginEdit(r, u)
    PROVE  CheckoutIInv'
<1> Rows
  BY DEF CheckoutIInv
<1>1. PICK c \in Carts :
         /\ \/ ResolveUserCart(u, c) /\ UNCHANGED cookie
            \/ ResolveGuestCart(u, c)
         /\ Turn(r, [NoRequest EXCEPT !.op = "edit", !.user = u, !.cart = c])
  BY DEF BeginEdit
<1> DEFINE q == [NoRequest EXCEPT !.op = "edit", !.user = u, !.cart = c]
<1>2. q \in Request /\ Prepared(q) /\ q.op = "edit"
  BY DEF NoRequest, Request, Prepared
<1>3. Turn(r, q)
  BY <1>1
<1> HIDE DEF q
<1>4. cart' \in [Carts -> CartRow]
  BY <1>1, ResolveTyped
<1>5. cookie' \in [Customers -> Carts \cup {NoCart}]
  BY <1>1 DEF Rows, ResolveGuestCart
<1>6. UNCHANGED <<order, available, asked, overlapped>>
  BY DEF BeginEdit
<1>7. Rows'
  BY <1>2, <1>3, <1>4, <1>5, <1>6, TurnTyped DEF Rows
<1> QED
  BY <1>2, <1>3, <1>6, <1>7, TurnTyped, OrdersStay DEF Redeems

(* A quantity written to the cart of a call. *)
LEMMA WriteKeeps ==
    ASSUME CheckoutIInv, NEW r \in Requests, request[r].op = "edit", NEW n \in Nat, Write(r, n)
    PROVE  CheckoutIInv'
<1> Rows
  BY DEF CheckoutIInv
<1> DEFINE q == request[r]
<1>1. /\ q.cart \in Carts /\ q.user \in Customers
      /\ cart[q.cart] \in CartRow /\ cart[q.cart].qty \in Nat /\ asked[q.user] \in Nat
  BY DEF Rows, Prepared, CartRow
<1>2. cart' = [cart EXCEPT ![q.cart] = [cart[q.cart] EXCEPT !.qty = n]]
  BY DEF Write
<1>3. [cart[q.cart] EXCEPT !.qty = n] \in CartRow
  BY <1>1 DEF CartRow
<1>4. cart' \in [Carts -> CartRow]
  BY <1>1, <1>2, <1>3 DEF Rows
<1>5. asked' \in [Customers -> Nat]
  <2>1. PICK more \in Nat : asked' = [asked EXCEPT ![q.user] = @ + more]
    <3>1. (IF n > cart[q.cart].qty THEN n - cart[q.cart].qty ELSE 0) \in Nat
      BY <1>1
    <3> QED
      BY <3>1 DEF Write
  <2>2. asked[q.user] + more \in Nat
    BY <1>1
  <2> HIDE DEF q
  <2> QED
    BY <1>1, <2>1, <2>2 DEF Rows
<1>6. Turn(r, NoRequest) /\ UNCHANGED <<cookie, order, available, overlapped>>
  BY DEF Write, Answered
<1>7. Rows'
  BY <1>4, <1>5, <1>6, TurnTyped, NoRequestTyped DEF Rows
<1> QED
  BY <1>6, <1>7, TurnTyped, NoRequestTyped, OrdersStay DEF Redeems

(* A step that only moves a call on. *)
LEMMA CallMoves ==
    ASSUME CheckoutIInv, NEW r \in Requests, NEW q \in Request, Prepared(q), Turn(r, q),
           q.op = "place" /\ q.coupon => Redeems(r) /\ q.user = request[r].user,
           UNCHANGED <<cart, cookie, order, available, asked, overlapped>>
    PROVE  CheckoutIInv'
<1> Rows
  BY DEF CheckoutIInv
<1>1. Rows'
  BY TurnTyped DEF Rows
<1> QED
  BY <1>1, TurnTyped, OrdersStay DEF Redeems

(* The merge of a guest cart. *)
LEMMA BeginMergeKeeps ==
    ASSUME CheckoutIInv, NEW r \in Requests, NEW u \in Customers, BeginMerge(r, u)
    PROVE  CheckoutIInv'
<1> Rows
  BY DEF CheckoutIInv
<1> DEFINE g == cookie[u]
<1>1. g \in Carts /\ cart[g] \in CartRow /\ cart[g].qty \in Nat
  BY DEF BeginMerge, Rows, CartRow
<1>2. UNCHANGED <<order, available, asked, overlapped>>
  BY DEF BeginMerge
<1>3. CASE Turn(r, [op |-> "merge", user |-> u, cart |-> g, target |-> NoCart,
                    key |-> NoKey, coupon |-> FALSE, seen |-> cart[g].qty, had |-> 0])
           /\ UNCHANGED <<cart, cookie>>
  <2> DEFINE q == [op |-> "merge", user |-> u, cart |-> g, target |-> NoCart,
                   key |-> NoKey, coupon |-> FALSE, seen |-> cart[g].qty, had |-> 0]
  <2>1. q \in Request /\ Prepared(q) /\ q.op = "merge"
    BY <1>1 DEF Request, Prepared
  <2>2. Turn(r, q)
    BY <1>3
  <2> HIDE DEF q
  <2> QED
    BY <1>2, <1>3, <2>1, <2>2, CallMoves
<1>4. CASE /\ cart' = [cart EXCEPT ![g].status = IF @ = "ACTIVE" THEN "MERGED" ELSE @]
           /\ cookie' = [cookie EXCEPT ![u] = NoCart]
           /\ UNCHANGED request
  <2> DEFINE row == [cart[g] EXCEPT !.status = IF @ = "ACTIVE" THEN "MERGED" ELSE @]
  <2>1. row \in CartRow
    BY <1>1 DEF CartRow
  <2>2. cart' = [cart EXCEPT ![g] = row]
    BY <1>4
  <2> HIDE DEF row
  <2>3. cart' \in [Carts -> CartRow]
    BY <1>1, <2>1, <2>2 DEF Rows
  <2>4. Rows'
    BY <1>2, <1>4, <2>3 DEF Rows
  <2> QED
    BY <1>2, <1>4, <2>4, OrdersStay DEF Redeems
<1> QED
  BY <1>3, <1>4 DEF BeginMerge

(* A call that finds the cart it is about. *)
LEMMA ResolveKeeps ==
    ASSUME CheckoutIInv, NEW r \in Requests, ResolveForMerge(r) \/ ResolveForCheckout(r)
    PROVE  CheckoutIInv'
<1> Rows
  BY DEF CheckoutIInv
<1> DEFINE u == request[r].user
<1>1. request[r] \in Request /\ Prepared(request[r]) /\ u \in Customers
  BY DEF Rows, Prepared, ResolveForMerge, ResolveForCheckout, Doing
<1>2. UNCHANGED <<cookie, order, available, asked, overlapped>>
  BY DEF ResolveForMerge, ResolveForCheckout
<1>3. PICK c \in Carts :
         /\ ResolveUserCart(u, c)
         /\ \/ /\ request[r].op = "merge"
               /\ Turn(r, [request[r] EXCEPT !.op = "read", !.target = c])
            \/ Turn(r, [request[r] EXCEPT !.op = "lock", !.cart = c])
  BY DEF ResolveForMerge, ResolveForCheckout, Doing
<1>4. PICK q \in Request : Prepared(q) /\ q.op # "place" /\ Turn(r, q)
  <2>1. [request[r] EXCEPT !.op = "lock", !.cart = c] \in Request
    BY <1>1 DEF Request
  <2>2. [request[r] EXCEPT !.op = "read", !.target = c] \in Request
    BY <1>1 DEF Request
  <2>3. Prepared([request[r] EXCEPT !.op = "lock", !.cart = c])
    BY <1>1 DEF Request, Prepared
  <2>4. request[r].op = "merge" => Prepared([request[r] EXCEPT !.op = "read", !.target = c])
    BY <1>1 DEF Request, Prepared
  <2>5. /\ [request[r] EXCEPT !.op = "lock", !.cart = c].op # "place"
        /\ [request[r] EXCEPT !.op = "read", !.target = c].op # "place"
    BY <1>1 DEF Request
  <2> QED
    BY <1>3, <2>1, <2>2, <2>3, <2>4, <2>5
<1>5. cart' \in [Carts -> CartRow]
  BY <1>1, <1>3, ResolveTyped
<1>6. Rows'
  BY <1>2, <1>4, <1>5, TurnTyped DEF Rows
<1> QED
  BY <1>2, <1>4, <1>6, TurnTyped, OrdersStay DEF Redeems

(* What the target holds is read. *)
LEMMA ReadTargetKeeps ==
    ASSUME CheckoutIInv, NEW r \in Requests, ReadTarget(r)
    PROVE  CheckoutIInv'
<1> DEFINE n == cart[request[r].target].qty
           q == [request[r] EXCEPT !.op = "write", !.had = n]
<1>1. request[r] \in Request /\ Prepared(request[r]) /\ request[r].op = "read"
  BY DEF CheckoutIInv, Rows, ReadTarget, Doing
<1>2. n \in Nat
  BY <1>1 DEF CheckoutIInv, Rows, Prepared, CartRow
<1>3. Turn(r, q) /\ UNCHANGED <<cart, cookie, order, available, asked, overlapped>>
  BY DEF ReadTarget
<1> HIDE DEF n
<1>4. q \in Request /\ Prepared(q) /\ q.op = "write"
  BY <1>1, <1>2 DEF Request, Prepared
<1> HIDE DEF q
<1> QED
  BY <1>3, <1>4, CallMoves

(* The merge writes what it computed. *)
LEMMA WriteMergeKeeps ==
    ASSUME CheckoutIInv, NEW r \in Requests, WriteMerge(r)
    PROVE  CheckoutIInv'
<1> Rows
  BY DEF CheckoutIInv
<1> DEFINE q == request[r]
           capped == Smaller(q.had + q.seen, Smaller(available, MaxCartQty))
           n == IF capped > 0 THEN capped ELSE cart[q.target].qty
           c1 == [cart EXCEPT ![q.target].qty = n]
           c2 == [c1 EXCEPT ![q.cart].qty = 0]
           c3 == [c2 EXCEPT ![q.cart].status = "MERGED"]
<1>1. q \in Request /\ q.cart \in Carts /\ q.target \in Carts /\ q.user \in Customers
  BY DEF Rows, Prepared, WriteMerge, Doing
<1>2. capped \in Int /\ cart[q.target].qty \in Nat
  BY <1>1, CheckoutAssumption DEF Request, Rows, CartRow, Smaller
<1>3. n \in Nat
  <2> HIDE DEF capped
  <2> QED
    BY <1>2
<1>4. cart' = c3
  BY DEF WriteMerge
<1> HIDE DEF n
<1>5. c1 \in [Carts -> CartRow]
  BY <1>1, <1>3 DEF Rows, CartRow
<1> HIDE DEF c1
<1>6. c2 \in [Carts -> CartRow]
  BY <1>1, <1>5 DEF CartRow
<1> HIDE DEF c2
<1>7. c3 \in [Carts -> CartRow]
  BY <1>1, <1>6 DEF CartRow
<1> HIDE DEF c3
<1>8. cookie' \in [Customers -> Carts \cup {NoCart}]
  BY DEF Rows, WriteMerge
<1>9. overlapped' \subseteq Customers
  BY <1>1 DEF Rows, WriteMerge
<1>10. Turn(r, NoRequest) /\ UNCHANGED <<order, available, asked>>
  BY DEF WriteMerge, Answered
<1>11. Rows'
  BY <1>4, <1>7, <1>8, <1>9, <1>10, TurnTyped, NoRequestTyped DEF Rows
<1> QED
  BY <1>10, <1>11, TurnTyped, NoRequestTyped, OrdersStay DEF Redeems

(* A checkout begins. *)
LEMMA BeginCheckoutKeeps ==
    ASSUME CheckoutIInv, NEW r \in Requests, NEW u \in Customers,
           NEW k \in Keys \cup {NoKey}, NEW coupon \in BOOLEAN, BeginCheckout(r, u, k, coupon)
    PROVE  CheckoutIInv'
<1> DEFINE q == [op |-> "checkout", user |-> u, cart |-> NoCart, target |-> NoCart,
                 key |-> k, coupon |-> coupon, seen |-> 0, had |-> 0]
<1>1. q \in Request /\ Prepared(q) /\ q.op = "checkout"
  BY DEF Request, Prepared
<1>2. Turn(r, q) /\ UNCHANGED <<cart, cookie, order, available, asked, overlapped>>
  BY DEF BeginCheckout
<1> HIDE DEF q
<1> QED
  BY <1>1, <1>2, CallMoves

(* It enters its transaction: with a coupon, the slots are counted first. *)
LEMMA EnterCheckoutKeeps ==
    ASSUME CheckoutIInv, NEW r \in Requests, EnterCheckout(r)
    PROVE  CheckoutIInv'
<1> DEFINE n == cart[request[r].cart].qty
           q == [request[r] EXCEPT !.seen = n,
                                   !.op = IF request[r].coupon THEN "coupon" ELSE "place"]
<1>1. request[r] \in Request /\ Prepared(request[r]) /\ request[r].op = "lock"
  BY DEF CheckoutIInv, Rows, EnterCheckout, Doing
<1>2. n \in Nat
  BY <1>1 DEF CheckoutIInv, Rows, Prepared, CartRow
<1>3. UNCHANGED <<cart, cookie, order, available, asked, overlapped>>
  BY DEF EnterCheckout
<1>4. Turn(r, q) \/ Turn(r, NoRequest)
  BY DEF EnterCheckout, Answered
<1> HIDE DEF n
<1>5. q \in Request /\ Prepared(q) /\ ~ (q.op = "place" /\ q.coupon)
  BY <1>1, <1>2 DEF Request, Prepared
<1> HIDE DEF q
<1> QED
  BY <1>3, <1>4, <1>5, NoRequestTyped, CallMoves

(* The slots are counted, while nobody else is past the count. *)
LEMMA EvaluateKeeps ==
    ASSUME CheckoutIInv, NEW r \in Requests, EvaluateCoupon(r)
    PROVE  CheckoutIInv'
<1> Rows
  BY DEF CheckoutIInv
<1>1. request[r] \in Request /\ Prepared(request[r]) /\ request[r].op = "coupon"
  BY DEF Rows, EvaluateCoupon, Doing
<1>2. UNCHANGED <<cart, cookie, order, available, asked, overlapped>>
  BY DEF EvaluateCoupon
<1>3. CASE Answered(r)
  BY <1>2, <1>3, NoRequestTyped, CallMoves DEF Answered
<1>4. CASE /\ Cardinality(Holding) < UsageLimit
           /\ Cardinality(HoldingOf(request[r].user)) < PerCustomerLimit
           /\ Proceed(r, "place")
  <2> DEFINE q == [request[r] EXCEPT !.op = "place"]
  <2>1. q \in Request /\ Prepared(q) /\ q.user = request[r].user
    BY <1>1 DEF Request, Prepared
  <2>2. Turn(r, q)
    BY <1>4 DEF Proceed
  <2> HIDE DEF q
  <2>3. Rows'
    BY <1>2, <2>1, <2>2, TurnTyped DEF Rows
  <2>4. /\ Sold' = Sold /\ Holding' = Holding
        /\ \A u : HoldingOf(u)' = HoldingOf(u)
        /\ \A o : Open(o)' = Open(o)
    BY <1>2 DEF Sold, Open, Holding, HoldingOf
  <2>5. StockIsWhole' /\ CouponWithinLimits'
    BY <1>2, <2>4 DEF CheckoutIInv, StockIsWhole, CouponWithinLimits
  <2>6. \A s \in Requests \ {r} : ~ Redeems(s)
    BY DEF EvaluateCoupon, LockCoupon, Redeems, Doing
  <2>7. /\ \A s \in Requests \ {r} : ~ Redeems(s)'
        /\ request'[r] = q
    BY <2>1, <2>2, <2>6, TurnTyped DEF Redeems
  <2>8. RoomIsKept'
    BY <1>4, <2>1, <2>4, <2>7 DEF RoomIsKept
  <2> QED
    BY <2>3, <2>5, <2>8 DEF CheckoutIInv
<1> QED
  BY <1>3, <1>4 DEF EvaluateCoupon

(* A call that fails. *)
LEMMA FailKeeps == ASSUME CheckoutIInv, NEW r \in Requests, Fail(r) PROVE CheckoutIInv'
BY NoRequestTyped, CallMoves DEF Fail, Answered

(* The sweep of old carts. *)
LEMMA SweepKeeps ==
    ASSUME CheckoutIInv, NEW expired \in SUBSET Carts, SweepExpiredCarts(expired)
    PROVE  CheckoutIInv'
<1>1. UNCHANGED <<cookie, order, available, request, asked, overlapped>>
  BY DEF SweepExpiredCarts
<1>2. \A c \in Carts : [cart[c] EXCEPT !.status = "EXPIRED"] \in CartRow
  BY DEF CheckoutIInv, Rows, CartRow
<1>3. cart' \in [Carts -> CartRow]
  BY <1>2 DEF SweepExpiredCarts, CheckoutIInv, Rows
<1>4. Rows'
  BY <1>1, <1>3 DEF CheckoutIInv, Rows
<1> QED
  BY <1>1, <1>4, OrdersStay DEF Redeems

------------------------------------------------------------------------------
(* Steps of an order. *)

(* The units of one order. *)
LEMMA UnitsOfOne ==
    ASSUME NEW o, NEW q \in Nat
    PROVE  IsFiniteSet({o} \X (1 .. q)) /\ Cardinality({o} \X (1 .. q)) = q
<1>1. q \in Int /\ 1 \in Int
  OBVIOUS
<1>2. IsFiniteSet(1 .. q) /\ Cardinality(1 .. q) = IF 1 > q THEN 0 ELSE q - 1 + 1
  BY <1>1, FS_Interval
<1>3. Cardinality(1 .. q) = q
  BY <1>2
<1>4. IsFiniteSet({o}) /\ Cardinality({o}) = 1
  BY FS_Singleton
<1>5. /\ IsFiniteSet({o} \X (1 .. q))
      /\ Cardinality({o} \X (1 .. q)) = Cardinality({o}) * Cardinality(1 .. q)
  BY <1>2, <1>4, FS_Product
<1> QED
  BY <1>3, <1>4, <1>5

(* The units of the orders. *)
LEMMA SoldFinite ==
    ASSUME NEW A, A \subseteq Orders \X (1 .. Stock)
    PROVE  IsFiniteSet(A) /\ Cardinality(A) \in Nat
<1>1. Stock \in Int /\ 1 \in Int /\ IsFiniteSet(Orders)
  BY CheckoutAssumption
<1>2. IsFiniteSet(1 .. Stock)
  BY <1>1, FS_Interval
<1>3. IsFiniteSet(Orders \X (1 .. Stock))
  BY <1>1, <1>2, FS_Product
<1> QED
  BY <1>3, FS_Subset, FS_CardinalityType

(* Units that are sold, or given back. *)
LEMMA SoldGrows ==
    ASSUME NEW A, NEW o \in Orders, NEW q \in Nat, q <= Stock,
           A \subseteq Orders \X (1 .. Stock), \A v \in A : v[1] # o
    PROVE  Cardinality(A \cup ({o} \X (1 .. q))) = Cardinality(A) + q
<1> DEFINE B == {o} \X (1 .. q)
<1>1. IsFiniteSet(A) /\ IsFiniteSet(B) /\ Cardinality(B) = q /\ Cardinality(A) \in Nat
  BY SoldFinite, UnitsOfOne
<1>2. A \cap B = {}
  OBVIOUS
<1>3. Cardinality(A \cap B) = 0
  BY <1>2, FS_EmptySet
<1>4. Cardinality(A \cup B) = Cardinality(A) + Cardinality(B) - Cardinality(A \cap B)
  BY <1>1, FS_Union
<1> HIDE DEF B
<1>5. Cardinality(A \cup B) = Cardinality(A) + q
  BY <1>1, <1>3, <1>4
<1> QED
  BY <1>5 DEF B

(* An order is confirmed. *)
LEMMA ConfirmKeeps == ASSUME CheckoutIInv, NEW o \in Orders, Confirm(o) PROVE CheckoutIInv'
<1> Rows /\ order \in [Orders -> OrderRow] /\ order[o] \in OrderRow
  BY DEF CheckoutIInv, Rows
<1> DEFINE slot == IF order[o].coupon = "RESERVED" THEN "CONSUMED" ELSE order[o].coupon
           o1 == [order EXCEPT ![o].status = "CONFIRMED"]
           o2 == [o1 EXCEPT ![o].coupon = slot]
<1>1. o1[o].coupon = order[o].coupon
  BY DEF OrderRow
<1>2. order' = o2
  BY <1>1 DEF Confirm
<1>3. slot \in {"NONE", "RESERVED", "CONSUMED", "RELEASED"}
      /\ (slot \in {"RESERVED", "CONSUMED"} <=> order[o].coupon \in {"RESERVED", "CONSUMED"})
  BY DEF OrderRow
<1> HIDE DEF slot
<1>4. /\ o1 \in [Orders -> OrderRow]
      /\ \A p \in Orders : /\ o1[p].qty = order[p].qty /\ o1[p].owner = order[p].owner
                           /\ p # o => o1[p] = order[p]
                           /\ o1[o].status = "CONFIRMED"
  BY DEF OrderRow
<1> HIDE DEF o1
<1>5. /\ o2 \in [Orders -> OrderRow]
      /\ \A p \in Orders : /\ o2[p].qty = order[p].qty /\ o2[p].owner = order[p].owner
                           /\ p # o => o2[p] = order[p]
                           /\ o2[o].status = "CONFIRMED" /\ o2[o].coupon = slot
  BY <1>3, <1>4 DEF OrderRow
<1> HIDE DEF o2
<1>6. UNCHANGED <<cart, cookie, available, request, asked, overlapped>> /\ Open(o)
  BY DEF Confirm, Open
<1>7. Rows'
  BY <1>2, <1>5, <1>6 DEF Rows
<1>8. \A p \in Orders : Open(p)' <=> Open(p)
  BY <1>2, <1>5, <1>6 DEF Open
<1>9. Sold' = Sold
  BY <1>2, <1>5, <1>8 DEF Sold
<1>10. StockIsWhole'
  BY <1>2, <1>5, <1>6, <1>8, <1>9 DEF CheckoutIInv, StockIsWhole
<1>11. Holding' \subseteq Holding /\ \A u : HoldingOf(u)' \subseteq HoldingOf(u)
  BY <1>2, <1>3, <1>5 DEF Holding, HoldingOf
<1>12. RoomIsKept' /\ CouponWithinLimits'
  BY <1>6, <1>11, SlotsShrink DEF Redeems
<1> QED
  BY <1>7, <1>10, <1>12 DEF CheckoutIInv

(* An order is cancelled: its units go back on sale. *)
LEMMA CancelKeeps == ASSUME CheckoutIInv, NEW o \in Orders, Cancel(o) PROVE CheckoutIInv'
<1> Rows /\ order \in [Orders -> OrderRow] /\ order[o] \in OrderRow
  BY DEF CheckoutIInv, Rows
<1> DEFINE slot == IF order[o].coupon = "RESERVED" THEN "RELEASED" ELSE order[o].coupon
           o1 == [order EXCEPT ![o].status = "CANCELLED"]
           o2 == [o1 EXCEPT ![o].coupon = slot]
           q == order[o].qty
<1>1. o1[o].coupon = order[o].coupon
  BY DEF OrderRow
<1>2. order' = o2
  BY <1>1 DEF Cancel
<1>3. slot \in {"NONE", "RESERVED", "CONSUMED", "RELEASED"}
      /\ (slot \in {"RESERVED", "CONSUMED"} => order[o].coupon \in {"RESERVED", "CONSUMED"})
  BY DEF OrderRow
<1> HIDE DEF slot
<1>4. /\ o1 \in [Orders -> OrderRow]
      /\ \A p \in Orders : /\ o1[p].qty = order[p].qty /\ o1[p].owner = order[p].owner
                           /\ p # o => o1[p] = order[p]
                           /\ o1[o].status = "CANCELLED"
  BY DEF OrderRow
<1> HIDE DEF o1
<1>5. /\ o2 \in [Orders -> OrderRow]
      /\ \A p \in Orders : /\ o2[p].qty = order[p].qty /\ o2[p].owner = order[p].owner
                           /\ p # o => o2[p] = order[p]
                           /\ o2[o].status = "CANCELLED" /\ o2[o].coupon = slot
  BY <1>3, <1>4 DEF OrderRow
<1> HIDE DEF o2
<1>6. UNCHANGED <<cart, cookie, request, asked, overlapped>> /\ Open(o) /\ available' = available + q
  BY DEF Cancel, Open
<1>7. available \in Nat /\ q \in Nat /\ q <= Stock
  BY <1>6 DEF CheckoutIInv, Rows, StockIsWhole, OrderRow
<1>8. Rows'
  BY <1>2, <1>5, <1>6, <1>7 DEF Rows
<1>9. ~ Open(o)' /\ \A p \in Orders \ {o} : Open(p)' <=> Open(p)
  BY <1>2, <1>5, <1>6 DEF Open
<1>10. Sold = Sold' \cup ({o} \X (1 .. q))
  BY <1>2, <1>5, <1>6, <1>7, <1>9, CheckoutAssumption DEF Sold
<1>11. Sold' \subseteq Orders \X (1 .. Stock) /\ \A v \in Sold' : v[1] # o
  BY <1>9 DEF Sold
<1>12. Cardinality(Sold) = Cardinality(Sold') + q /\ Cardinality(Sold') \in Nat
  BY <1>7, <1>10, <1>11, SoldGrows, SoldFinite
<1>13. available' + Cardinality(Sold') = Stock
  BY <1>6, <1>7, <1>12 DEF CheckoutIInv, StockIsWhole
<1>14. StockIsWhole'
  BY <1>2, <1>5, <1>9, <1>13 DEF CheckoutIInv, StockIsWhole
<1>15. Holding' \subseteq Holding /\ \A u : HoldingOf(u)' \subseteq HoldingOf(u)
  BY <1>2, <1>3, <1>5 DEF Holding, HoldingOf
<1>16. RoomIsKept' /\ CouponWithinLimits'
  BY <1>6, <1>15, SlotsShrink DEF Redeems
<1> QED
  BY <1>8, <1>14, <1>16 DEF CheckoutIInv

(* One more order with a slot of the coupon. *)
LEMMA OneMore ==
    ASSUME NEW A \in SUBSET Orders, NEW B \in SUBSET Orders, NEW o \in Orders,
           B \subseteq A \cup {o}
    PROVE  /\ Cardinality(A) \in Nat /\ Cardinality(B) \in Nat
           /\ Cardinality(B) <= Cardinality(A) + 1
<1>1. IsFiniteSet(A) /\ Cardinality(A) \in Nat /\ IsFiniteSet(B) /\ Cardinality(B) \in Nat
  BY HoldersCounted
<1>2. /\ A \cup {o} \in SUBSET Orders /\ B \in SUBSET (A \cup {o})
      /\ Cardinality(A \cup {o}) = IF o \in A THEN Cardinality(A) ELSE Cardinality(A) + 1
  BY <1>1, FS_AddElement
<1>3. Cardinality(B) <= Cardinality(A \cup {o}) /\ Cardinality(A \cup {o}) \in Nat
  BY <1>2, HoldersCounted
<1> QED
  BY <1>1, <1>2, <1>3

(* An order is placed: its units are off sale, its coupon slot is taken,   *)
(* and no other checkout with the coupon was past the count.               *)
LEMMA OrderPlaced ==
    ASSUME CheckoutIInv, NEW r \in Requests, request[r].op = "place", Fits(r), Place(r)
    PROVE  CheckoutIInv'
<1> DEFINE q == request[r]
           row == [status |-> "PENDING_PAYMENT", owner |-> q.user, key |-> q.key,
                   qty |-> q.seen, coupon |-> IF q.coupon THEN "RESERVED" ELSE "NONE"]
<1> Rows
  BY DEF CheckoutIInv
<1>1. /\ q \in Request /\ q.cart \in Carts /\ q.user \in Customers
      /\ q.seen \in Nat /\ q.seen <= available /\ available \in Nat /\ Stock \in Nat
  BY CheckoutAssumption DEF Rows, Prepared, Request, Fits
<1>2. PICK o \in Orders \ Placed : order' = [order EXCEPT ![o] = row]
  BY DEF Place
<1>3. /\ available' = available - q.seen /\ Turn(r, NoRequest)
      /\ cart' = [cart EXCEPT ![q.cart].qty = 0, ![q.cart].status = "CONVERTED"]
      /\ UNCHANGED <<cookie, asked, overlapped>>
  BY DEF Place, Answered
<1>4. row \in OrderRow /\ row.qty = q.seen /\ row.owner = q.user /\ row.status = "PENDING_PAYMENT"
      /\ (row.coupon \in {"RESERVED", "CONSUMED"} <=> q.coupon)
  BY <1>1 DEF OrderRow, Request
<1> HIDE DEF row
<1>5. /\ order' \in [Orders -> OrderRow]
      /\ \A p \in Orders : order'[p] = IF p = o THEN row ELSE order[p]
  BY <1>2, <1>4 DEF Rows
<1>6. cart' \in [Carts -> CartRow]
  <2> DEFINE c1 == [cart EXCEPT ![q.cart].qty = 0]
             c2 == [c1 EXCEPT ![q.cart].status = "CONVERTED"]
  <2>1. cart' = c2
    BY <1>3
  <2>2. c1 \in [Carts -> CartRow]
    <3>1. cart \in [Carts -> CartRow] /\ cart[q.cart] \in CartRow
      BY <1>1 DEF Rows
    <3>2. [cart[q.cart] EXCEPT !.qty = 0] \in CartRow
      BY <3>1 DEF CartRow
    <3> QED
      BY <3>1, <3>2
  <2> HIDE DEF c1
  <2>3. c2 \in [Carts -> CartRow]
    BY <1>1, <2>2 DEF CartRow
  <2> QED
    BY <2>1, <2>3
<1>7. Rows'
  BY <1>1, <1>3, <1>5, <1>6, TurnTyped, NoRequestTyped DEF Rows
<1>8. /\ ~ Open(o) /\ Open(o)' /\ \A p \in Orders \ {o} : Open(p)' <=> Open(p)
  BY <1>2, <1>4, <1>5 DEF Open, Placed
<1>9. q.seen <= Stock
  <2>1. Cardinality(Sold) \in Nat
    BY SoldFinite DEF Sold
  <2> QED
    BY <1>1, <2>1 DEF CheckoutIInv, StockIsWhole
<1>10. Sold' = Sold \cup ({o} \X (1 .. q.seen))
  BY <1>1, <1>4, <1>5, <1>8, <1>9 DEF Sold
<1>11. Sold \subseteq Orders \X (1 .. Stock) /\ \A v \in Sold : v[1] # o
  BY <1>8 DEF Sold
<1>12. Cardinality(Sold') = Cardinality(Sold) + q.seen /\ Cardinality(Sold) \in Nat
  BY <1>1, <1>9, <1>10, <1>11, SoldGrows, SoldFinite
<1>13. available' + Cardinality(Sold') = Stock
  BY <1>1, <1>3, <1>12 DEF CheckoutIInv, StockIsWhole
<1>14. StockIsWhole'
  BY <1>4, <1>5, <1>8, <1>9, <1>13 DEF CheckoutIInv, StockIsWhole
<1>15. \A s \in Requests : Redeems(s)' => s # r /\ Redeems(s) /\ request'[s].user = request[s].user
  BY <1>3, TurnTyped, NoRequestTyped DEF Redeems
<1>16. CASE ~ q.coupon
  <2>1. Holding' \subseteq Holding /\ \A u : HoldingOf(u)' \subseteq HoldingOf(u)
    BY <1>4, <1>5, <1>16 DEF Holding, HoldingOf
  <2>2. RoomIsKept' /\ CouponWithinLimits'
    BY <1>15, <2>1, SlotsShrink
  <2> QED
    BY <1>7, <1>14, <2>2 DEF CheckoutIInv
<1>17. CASE q.coupon
  <2>1. Redeems(r)
    BY <1>17 DEF Redeems
  <2>2. \A s \in Requests : ~ Redeems(s)'
    BY <1>15, <2>1 DEF CheckoutIInv, RoomIsKept
  <2>3. /\ Cardinality(Holding) < UsageLimit
        /\ \A u \in Customers : q.user = u => Cardinality(HoldingOf(u)) < PerCustomerLimit
    BY <2>1 DEF CheckoutIInv, RoomIsKept
  <2>4. /\ Holding \in SUBSET Orders /\ Holding' \in SUBSET Orders
        /\ \A u : HoldingOf(u) \in SUBSET Orders /\ HoldingOf(u)' \in SUBSET Orders
    BY DEF Holding, HoldingOf
  <2>5. /\ Holding' \subseteq Holding \cup {o}
        /\ \A u : HoldingOf(u)' \subseteq HoldingOf(u) \cup {o}
        /\ \A u : u # q.user => HoldingOf(u)' \subseteq HoldingOf(u)
    BY <1>4, <1>5 DEF Holding, HoldingOf
  <2>6. UsageLimit \in Nat /\ PerCustomerLimit \in Nat
    BY CheckoutAssumption
  <2>7. Cardinality(Holding') <= UsageLimit
    BY <2>3, <2>4, <2>5, <2>6, OneMore
  <2>8. ASSUME NEW u \in Customers
        PROVE  Cardinality(HoldingOf(u)') <= PerCustomerLimit
    <3>1. Cardinality(HoldingOf(u)) <= PerCustomerLimit
      BY DEF CheckoutIInv, CouponWithinLimits
    <3>2. CASE u = q.user
      <4>1. Cardinality(HoldingOf(u)) < PerCustomerLimit
        BY <2>3, <3>2
      <4> QED
        BY <2>4, <2>5, <2>6, <4>1, OneMore
    <3>3. CASE u # q.user
      BY <2>4, <2>5, <2>6, <3>1, <3>3, HoldersCounted
    <3> QED
      BY <3>2, <3>3
  <2>9. CouponWithinLimits'
    BY <2>7, <2>8 DEF CouponWithinLimits
  <2>10. RoomIsKept'
    BY <2>2 DEF RoomIsKept
  <2> QED
    BY <1>7, <1>14, <2>9, <2>10 DEF CheckoutIInv
<1> QED
  BY <1>16, <1>17

(* The last step of a checkout. *)
LEMMA PlaceKeeps == ASSUME CheckoutIInv, NEW r \in Requests, Place(r) PROVE CheckoutIInv'
<1>1. CASE Fits(r)
  BY <1>1, OrderPlaced DEF Place, Doing
<1>2. CASE ~ Fits(r)
  BY <1>2, NoRequestTyped, CallMoves DEF Place, Answered
<1> QED
  BY <1>1, <1>2

------------------------------------------------------------------------------
(* No order and no call at first. *)
LEMMA InitIInv == CheckoutInit => CheckoutIInv
<1> SUFFICES ASSUME CheckoutInit PROVE CheckoutIInv
  OBVIOUS
<1>1. Stock \in Nat /\ UsageLimit \in Nat /\ PerCustomerLimit \in Nat
  BY CheckoutAssumption
<1>2. Rows
  BY <1>1, NoRequestTyped DEF CheckoutInit, Rows, CartRow, OrderRow
<1>3. Sold = {} /\ \A o \in Orders : ~ Open(o)
  BY DEF CheckoutInit, Sold, Open
<1>4. StockIsWhole
  BY <1>1, <1>3, FS_EmptySet DEF CheckoutInit, StockIsWhole
<1>5. Holding = {} /\ \A u : HoldingOf(u) = {}
  BY DEF CheckoutInit, Holding, HoldingOf
<1>6. CouponWithinLimits
  BY <1>1, <1>5, FS_EmptySet DEF CouponWithinLimits
<1>7. RoomIsKept
  BY NoRequestTyped DEF CheckoutInit, RoomIsKept, Redeems
<1> QED
  BY <1>2, <1>4, <1>6, <1>7 DEF CheckoutIInv

(* Every step of a cart, a checkout or an order. *)
LEMMA NextIInv == CheckoutIInv /\ [CheckoutNext]_checkoutVars => CheckoutIInv'
<1> SUFFICES ASSUME CheckoutIInv, [CheckoutNext]_checkoutVars PROVE CheckoutIInv'
  OBVIOUS
<1>1. ASSUME NEW r \in Requests, NEW u \in Customers,
             \/ BeginEdit(r, u)
             \/ BeginMerge(r, u)
             \/ \E k \in Keys \cup {NoKey}, coupon \in BOOLEAN : BeginCheckout(r, u, k, coupon)
      PROVE  CheckoutIInv'
  BY <1>1, EditKeeps, BeginMergeKeeps, BeginCheckoutKeeps
<1>2. ASSUME NEW r \in Requests,
             \/ AddItem(r)
             \/ \E n \in 1 .. MaxCartQty : UpdateItemQuantity(r, n)
             \/ RemoveItem(r)
      PROVE  CheckoutIInv'
  <2>1. request[r].op = "edit" /\ cart[request[r].cart].qty + 1 \in Nat
    BY <1>2 DEF AddItem, UpdateItemQuantity, RemoveItem, Doing, CheckoutIInv, Rows, Prepared, CartRow
  <2>2. \A n \in 1 .. MaxCartQty : n \in Nat
    OBVIOUS
  <2> QED
    BY <1>2, <2>1, <2>2, WriteKeeps DEF AddItem, UpdateItemQuantity, RemoveItem
<1>3. ASSUME NEW r \in Requests,
             \/ ResolveForMerge(r) \/ ReadTarget(r) \/ WriteMerge(r)
             \/ ResolveForCheckout(r) \/ EnterCheckout(r) \/ EvaluateCoupon(r) \/ Place(r)
             \/ Fail(r)
      PROVE  CheckoutIInv'
  BY <1>3, ResolveKeeps, ReadTargetKeeps, WriteMergeKeeps, EnterCheckoutKeeps, EvaluateKeeps,
     PlaceKeeps, FailKeeps
<1>4. ASSUME NEW o \in Orders, Confirm(o) \/ Cancel(o)
      PROVE  CheckoutIInv'
  BY <1>4, ConfirmKeeps, CancelKeeps
<1>5. ASSUME NEW expired \in SUBSET Carts, SweepExpiredCarts(expired)
      PROVE  CheckoutIInv'
  BY <1>5, SweepKeeps
<1>6. CASE UNCHANGED checkoutVars
  <2>1. Rows'
    BY <1>6 DEF checkoutVars, CheckoutIInv, Rows
  <2> QED
    BY <1>6, <2>1, OrdersStay DEF checkoutVars, Redeems
<1> QED
  BY <1>1, <1>2, <1>3, <1>4, <1>5, <1>6 DEF CheckoutNext

(* The inductive invariant: the rows and what the calls remember, no unit  *)
(* lost or sold twice, and one checkout at a time past the count of the    *)
(* coupon's slots.                                                         *)
THEOREM Inductive == CheckoutSpec => []CheckoutIInv
BY InitIInv, NextIInv, PTL DEF CheckoutSpec

(* Carts, orders and calls have their types; in particular no more units   *)
(* are on sale than there were, and never fewer than none.                 *)
THEOREM TypeCorrect == CheckoutSpec => []CheckoutTypeOK
<1>1. CheckoutIInv => CheckoutTypeOK
  <2>1. Cardinality(Sold) \in Nat
    BY SoldFinite DEF Sold
  <2>2. CheckoutIInv => available \in 0 .. Stock
    BY <2>1, CheckoutAssumption DEF CheckoutIInv, Rows, StockIsWhole
  <2> QED
    BY <2>2 DEF CheckoutIInv, Rows, CheckoutTypeOK
<1> QED
  BY <1>1, Inductive, PTL

(* Whoever races for the coupon, its slots in use stay within the two      *)
(* limits: CouponRedemptionService counts them under an advisory lock that *)
(* ends with the transaction of the checkout.                              *)
THEOREM CouponNeverOverrun == CheckoutSpec => []CouponWithinLimits
<1>1. CheckoutIInv => CouponWithinLimits
  BY DEF CheckoutIInv
<1> QED
  BY <1>1, Inductive, PTL

------------------------------------------------------------------------------
(* Units are ordered once.                                                 *)

Merging(q) == q.op \in {"merge", "read", "write"}
Ordering(q) == q.op \in {"coupon", "place"}

BelongsTo(c, u) == cart[c].status # "NONE" /\ cart[c].owner = u

(* A call works on carts of its own customer: a guest cart to be merged    *)
(* into a cart of the user, or a cart of the user to be checked out.       *)
KnowsItsCarts(q) ==
    /\ q.op \in {"edit", "lock"} \/ Merging(q) \/ Ordering(q) => BelongsTo(q.cart, q.user)
    /\ q.op = "lock" \/ Ordering(q) => ~ cart[q.cart].guest
    /\ Merging(q) => cart[q.cart].guest
    /\ q.op \in {"read", "write"} => BelongsTo(q.target, q.user) /\ ~ cart[q.target].guest
    /\ q.seen <= MaxCartQty

(* The advisory lock of the cart. *)
OneOrderAtATime ==
    \A r, s \in Requests :
        Ordering(request[r]) /\ Ordering(request[s]) /\ request[r].cart = request[s].cart => r = s

CartsHaveOwners ==
    /\ \A c \in Carts : cart[c].qty <= MaxCartQty
    /\ \A u \in Customers :
          cookie[u] \in Carts => BelongsTo(cookie[u], u) /\ cart[cookie[u]].guest
    /\ \A r \in Requests : KnowsItsCarts(request[r])
    /\ OneOrderAtATime

(* A row of a cart keeps its owner and its kind. *)
CartsStay ==
    \A c \in Carts : cart[c].status # "NONE" =>
        /\ cart'[c].status # "NONE"
        /\ cart'[c].owner = cart[c].owner /\ cart'[c].guest = cart[c].guest

(* A step of one call, by the carts it leaves. *)
LEMMA OwnersStay ==
    ASSUME Rows, CartsHaveOwners, CartsStay,
           \A c \in Carts : cart'[c].qty <= MaxCartQty,
           \A u \in Customers : cookie'[u] # cookie[u] /\ cookie'[u] \in Carts =>
              BelongsTo(cookie[u], u)' /\ cart'[cookie'[u]].guest,
           NEW r, \A s \in Requests \ {r} : request'[s] = request[s],
           r \in Requests =>
              /\ KnowsItsCarts(request[r])'
              /\ Ordering(request'[r]) =>
                    \A s \in Requests \ {r} : Ordering(request[s]) => request[s].cart # request'[r].cart
    PROVE  CartsHaveOwners'
<1>1. ASSUME NEW u \in Customers, cookie'[u] \in Carts
      PROVE  BelongsTo(cookie[u], u)' /\ cart'[cookie'[u]].guest
  BY <1>1 DEF CartsHaveOwners, CartsStay, BelongsTo
<1>2. ASSUME NEW s \in Requests PROVE KnowsItsCarts(request[s])'
  <2>1. CASE s = r
    BY <2>1
  <2>2. CASE s # r
    <3>1. request'[s] = request[s] /\ Prepared(request[s]) /\ KnowsItsCarts(request[s])
      BY <2>2 DEF Rows, CartsHaveOwners
    <3> QED
      BY <3>1 DEF Prepared, KnowsItsCarts, CartsStay, BelongsTo, Merging, Ordering
  <2> QED
    BY <2>1, <2>2
<1>3. OneOrderAtATime'
  <2>1. ASSUME NEW s \in Requests, NEW t \in Requests,
               Ordering(request'[s]), Ordering(request'[t]), request'[s].cart = request'[t].cart
        PROVE  s = t
    <3>1. CASE s # r /\ t # r
      BY <2>1, <3>1 DEF CartsHaveOwners, OneOrderAtATime
    <3>2. CASE s = r \/ t = r
      BY <2>1, <3>2
    <3> QED
      BY <3>1, <3>2
  <2> QED
    BY <2>1 DEF OneOrderAtATime
<1> QED
  BY <1>1, <1>2, <1>3 DEF CartsHaveOwners

------------------------------------------------------------------------------
(* What a call may still order or put in another cart: it has read the     *)
(* cart, which may hold less by then.                                      *)
Promises(r, c) ==
    /\ request[r].cart = c
    /\ Ordering(request[r]) \/ (Merging(request[r]) /\ cart[c].status = "ACTIVE")

(* The units in the carts of a customer, and those that a call has read.   *)
Promised(u) ==
    {v \in Carts \X (1 .. MaxCartQty) :
        /\ cart[v[1]].owner = u
        /\ \/ v[2] <= cart[v[1]].qty
           \/ \E r \in Requests : Promises(r, v[1]) /\ v[2] <= request[r].seen}

(* Each of them was asked for, and is none of those that were ordered.     *)
NothingTwice ==
    \A u \in Customers \ overlapped :
        /\ IsFiniteSet(Promised(u))
        /\ Cardinality(OrderedUnits(u)) + Cardinality(Promised(u)) <= asked[u]

OnceIInv == Rows /\ CartsHaveOwners /\ NothingTwice

(* The orders are finitely many. *)
LEMMA OrderedFinite ==
    ASSUME NEW u
    PROVE  IsFiniteSet(OrderedUnits(u)) /\ Cardinality(OrderedUnits(u)) \in Nat
<1>1. MaxCartQty \in Int /\ 1 \in Int /\ IsFiniteSet(Orders)
  BY CheckoutAssumption
<1>2. IsFiniteSet(1 .. MaxCartQty)
  BY <1>1, FS_Interval
<1>3. IsFiniteSet(Orders \X (1 .. MaxCartQty))
  BY <1>1, <1>2, FS_Product
<1> QED
  BY <1>3, FS_Subset, FS_CardinalityType DEF OrderedUnits, Placed

(* What the orders of a customer hold, when none is placed. *)
LEMMA SameOrders ==
    ASSUME \A o \in Orders : /\ order'[o].status = "NONE" <=> order[o].status = "NONE"
                             /\ order'[o].owner = order[o].owner
                             /\ order'[o].qty = order[o].qty,
           NEW u
    PROVE  OrderedUnits(u)' = OrderedUnits(u)
BY DEF OrderedUnits, Placed

(* A step that promises a customer no more. *)
LEMMA FewerUnits ==
    ASSUME NothingTwice, NEW u \in Customers, u \notin overlapped,
           OrderedUnits(u)' = OrderedUnits(u), Promised(u)' \subseteq Promised(u),
           asked[u] \in Nat, asked'[u] \in Nat, asked[u] <= asked'[u]
    PROVE  /\ IsFiniteSet(Promised(u)')
           /\ Cardinality(OrderedUnits(u)') + Cardinality(Promised(u)') <= asked'[u]
<1>1. /\ IsFiniteSet(Promised(u)) /\ Cardinality(Promised(u)) \in Nat
      /\ Cardinality(OrderedUnits(u)) + Cardinality(Promised(u)) <= asked[u]
      /\ Cardinality(OrderedUnits(u)) \in Nat
  BY OrderedFinite, FS_CardinalityType DEF NothingTwice
<1>2. /\ IsFiniteSet(Promised(u)') /\ Cardinality(Promised(u)') \in Nat
      /\ Cardinality(Promised(u)') <= Cardinality(Promised(u))
  BY <1>1, FS_Subset, FS_CardinalityType
<1> QED
  BY <1>1, <1>2

(* A step that fills no cart and promises no unit that is not in one.      *)
LEMMA PromisesStay ==
    ASSUME OnceIInv, Rows',
           \A c \in Carts : \/ /\ cart'[c].owner = cart[c].owner /\ cart'[c].qty <= cart[c].qty
                            \/ cart[c].status = "NONE" /\ cart'[c].qty = 0,
           \A r \in Requests, c \in Carts : Promises(r, c)' =>
              /\ cart[c].status # "NONE"
              /\ \/ request'[r].seen <= cart[c].qty
                 \/ Promises(r, c) /\ request'[r].seen = request[r].seen,
           UNCHANGED <<asked, overlapped>>,
           \A u : OrderedUnits(u)' = OrderedUnits(u)
    PROVE  NothingTwice'
<1>1. ASSUME NEW u \in Customers, NEW v \in Promised(u)'
      PROVE  v \in Promised(u)
  <2> DEFINE c == v[1]
             n == v[2]
  <2>1. /\ v \in Carts \X (1 .. MaxCartQty) /\ c \in Carts /\ n \in Nat /\ n >= 1
        /\ cart'[c].owner = u
        /\ \/ n <= cart'[c].qty
           \/ \E r \in Requests : Promises(r, c)' /\ n <= request'[r].seen
    BY <1>1 DEF Promised
  <2>2. /\ cart[c].qty \in Nat /\ cart'[c].qty \in Nat
        /\ \A r \in Requests : request[r].seen \in Nat /\ request'[r].seen \in Nat
    BY <2>1 DEF OnceIInv, Rows, CartRow, Request
  <2> HIDE DEF c, n
  <2>3. cart[c].owner = u
    BY <2>1, <2>2
  <2>4. CASE n <= cart'[c].qty
    <3>1. n <= cart[c].qty
      BY <2>1, <2>2, <2>4
    <3> QED
      BY <2>1, <2>3, <3>1 DEF Promised, c, n
  <2>5. CASE \E r \in Requests : Promises(r, c)' /\ n <= request'[r].seen
    <3>1. PICK r \in Requests : Promises(r, c)' /\ n <= request'[r].seen
      BY <2>5
    <3>2. n <= cart[c].qty \/ (Promises(r, c) /\ n <= request[r].seen)
      BY <2>1, <2>2, <3>1
    <3> QED
      BY <2>1, <2>3, <3>2 DEF Promised, c, n
  <2> QED
    BY <2>1, <2>4, <2>5
<1>2. ASSUME NEW u \in Customers \ overlapped'
      PROVE  /\ IsFiniteSet(Promised(u)')
             /\ Cardinality(OrderedUnits(u)') + Cardinality(Promised(u)') <= asked'[u]
  <2>1. Promised(u)' \subseteq Promised(u) /\ u \notin overlapped
        /\ asked[u] \in Nat /\ asked'[u] \in Nat /\ asked[u] <= asked'[u]
    BY <1>1 DEF OnceIInv, Rows
  <2> QED
    BY <2>1, FewerUnits DEF OnceIInv
<1> QED
  BY <1>2 DEF NothingTwice

------------------------------------------------------------------------------
(* The carts after a call has found its own, or the sweep has closed some. *)
CartsFound ==
    /\ CartsStay
    /\ \A c \in Carts :
          \/ /\ cart'[c].owner = cart[c].owner /\ cart'[c].qty = cart[c].qty
             /\ cart'[c].status = "ACTIVE" => cart[c].status = "ACTIVE"
          \/ cart[c].status = "NONE" /\ cart'[c].qty = 0

LEMMA CartIsFound ==
    ASSUME Rows, NEW u \in Customers, NEW c \in Carts, NEW guest \in BOOLEAN,
           ~ guest => ResolveUserCart(u, c),
           guest => ResolveGuestCart(u, c),
           cookie[u] \in Carts => BelongsTo(cookie[u], u) /\ cart[cookie[u]].guest
    PROVE  CartsFound /\ BelongsTo(c, u)' /\ cart'[c].guest = guest
<1>1. \A d \in Carts : cart[d] \in CartRow
  BY DEF Rows
<1>2. /\ Opened(u, guest).status = "ACTIVE" /\ Opened(u, guest).owner = u
      /\ Opened(u, guest).guest = guest /\ Opened(u, guest).qty = 0
  BY DEF Opened
<1>3. CASE UNCHANGED cart
  <2>1. CASE cart[c].status = "NONE" /\ cart'[c] = Opened(u, guest)
    BY <1>2, <1>3, <2>1
  <2>2. CASE guest /\ cookie[u] = c /\ cart[c].status = "ACTIVE"
    BY <1>3, <2>2 DEF CartsFound, CartsStay, BelongsTo
  <2>3. CASE ~ guest /\ cart[c].status = "ACTIVE" /\ ~ cart[c].guest /\ cart[c].owner = u
    <3>1. cart[c].guest = guest
      BY <1>1, <2>3 DEF CartRow
    <3> QED
      BY <1>3, <2>3, <3>1 DEF CartsFound, CartsStay, BelongsTo
  <2>4. CASE guest
    <3>1. \/ cookie[u] = c /\ cart[c].status = "ACTIVE"
          \/ cart[c].status = "NONE" /\ cart' = [cart EXCEPT ![c] = Opened(u, TRUE)]
      BY <2>4 DEF ResolveGuestCart
    <3>2. cart' = [cart EXCEPT ![c] = Opened(u, TRUE)] => cart'[c] = Opened(u, guest)
      BY <2>4 DEF Rows
    <3> QED
      BY <2>1, <2>2, <2>4, <3>1, <3>2
  <2>5. CASE ~ guest
    <3>1. \/ cart[c].status = "ACTIVE" /\ ~ cart[c].guest /\ cart[c].owner = u
          \/ cart[c].status = "NONE" /\ cart'[c] = Opened(u, FALSE)
      BY <2>5 DEF ResolveUserCart
    <3> QED
      BY <2>1, <2>3, <2>5, <3>1
  <2> QED
    BY <2>4, <2>5
<1>4. CASE /\ cart[c].status = "NONE" /\ cart'[c] = Opened(u, guest)
           /\ \A d \in Carts \ {c} : \/ cart'[d] = cart[d]
                                     \/ cart'[d] = [cart[d] EXCEPT !.status = "EXPIRED"]
  <2>1. ASSUME NEW d \in Carts \ {c}
        PROVE  /\ cart'[d].owner = cart[d].owner /\ cart'[d].guest = cart[d].guest
               /\ cart'[d].qty = cart[d].qty
               /\ cart'[d].status = cart[d].status \/ cart'[d].status = "EXPIRED"
    <3>1. cart[d] \in CartRow
      BY <1>1
    <3>2. CASE cart'[d] = cart[d]
      BY <3>2
    <3>3. CASE cart'[d] = [cart[d] EXCEPT !.status = "EXPIRED"]
      BY <3>1, <3>3 DEF CartRow
    <3> QED
      BY <1>4, <3>2, <3>3
  <2> QED
    BY <1>2, <1>4, <2>1 DEF CartsFound, CartsStay, BelongsTo
<1>5. CASE guest /\ ~ UNCHANGED cart
  <2>1. cart[c].status = "NONE" /\ cart' = [cart EXCEPT ![c] = Opened(u, TRUE)]
    BY <1>5 DEF ResolveGuestCart
  <2> QED
    BY <1>4, <1>5, <2>1 DEF Rows
<1>6. CASE ~ guest /\ ~ UNCHANGED cart
  <2> DEFINE current == {d \in Carts : /\ cart[d].status = "ACTIVE" /\ ~ cart[d].guest
                                       /\ cart[d].owner = u}
  <2>1. /\ cart[c].status = "NONE"
        /\ cart' = [d \in Carts |-> IF d = c THEN Opened(u, FALSE)
                                    ELSE IF d \in current THEN [cart[d] EXCEPT !.status = "EXPIRED"]
                                    ELSE cart[d]]
    BY <1>6 DEF ResolveUserCart
  <2> HIDE DEF current
  <2> QED
    BY <1>4, <1>6, <2>1
<1> QED
  BY <1>3, <1>5, <1>6

(* A call finds its cart, and promises no more by it. *)
LEMMA FoundOnce ==
    ASSUME OnceIInv, Rows', CartsFound,
           \A u \in Customers : cookie'[u] # cookie[u] /\ cookie'[u] \in Carts =>
              BelongsTo(cookie[u], u)' /\ cart'[cookie'[u]].guest,
           NEW r, \A s \in Requests \ {r} : request'[s] = request[s],
           r \in Requests =>
              /\ KnowsItsCarts(request[r])' /\ ~ Ordering(request'[r])
              /\ Merging(request'[r]) =>
                    /\ Merging(request[r]) /\ request'[r].cart = request[r].cart
                    /\ request'[r].seen = request[r].seen,
           UNCHANGED <<order, asked, overlapped>>
    PROVE  OnceIInv'
<1>1. CartsHaveOwners'
  <2>1. \A c \in Carts : cart'[c].qty <= MaxCartQty
    <3>1. \A c \in Carts : /\ cart'[c].qty = cart[c].qty \/ cart'[c].qty = 0
                           /\ cart[c].qty <= MaxCartQty
      BY DEF CartsFound, OnceIInv, CartsHaveOwners
    <3> QED
      BY <3>1, CheckoutAssumption
  <2>2. CartsStay
    BY DEF CartsFound
  <2> QED
    BY <2>1, <2>2, OwnersStay DEF OnceIInv
<1>2. \A c \in Carts : \/ /\ cart'[c].owner = cart[c].owner /\ cart'[c].qty <= cart[c].qty
                       \/ cart[c].status = "NONE" /\ cart'[c].qty = 0
  BY DEF CartsFound, OnceIInv, Rows, CartRow
<1>3. ASSUME NEW s \in Requests, NEW c \in Carts, Promises(s, c)'
      PROVE  /\ cart[c].status # "NONE"
             /\ Promises(s, c) /\ request'[s].seen = request[s].seen
  <2>2. /\ Ordering(request[s]) \/ Merging(request[s])
        /\ request[s].cart = c /\ request'[s].seen = request[s].seen
        /\ Ordering(request'[s]) => Ordering(request[s])
        /\ Merging(request'[s]) => Merging(request[s])
    BY <1>3 DEF Promises
  <2>3. KnowsItsCarts(request[s])
    BY DEF OnceIInv, CartsHaveOwners
  <2>4. cart[c].status # "NONE"
    BY <2>2, <2>3 DEF KnowsItsCarts, BelongsTo
  <2>5. cart'[c].status = "ACTIVE" => cart[c].status = "ACTIVE"
    BY <2>4 DEF CartsFound
  <2> QED
    BY <1>3, <2>2, <2>4, <2>5 DEF Promises
<1>4. \A u : OrderedUnits(u)' = OrderedUnits(u)
  BY DEF OrderedUnits, Placed
<1>5. NothingTwice'
  BY <1>2, <1>3, <1>4, PromisesStay
<1> QED
  BY <1>1, <1>5 DEF OnceIInv

(* A call that only moves on: what it has read is in its cart, or it had   *)
(* read it before.                                                         *)
LEMMA MovesOnce ==
    ASSUME OnceIInv, Rows', NEW r \in Requests, NEW q, Turn(r, q), KnowsItsCarts(q),
           Ordering(q) => \A s \in Requests \ {r} : Ordering(request[s]) => request[s].cart # q.cart,
           Ordering(q) \/ Merging(q) =>
              \/ q.seen <= cart[q.cart].qty
              \/ /\ q.cart = request[r].cart /\ q.seen = request[r].seen
                 /\ Ordering(q) => Ordering(request[r])
                 /\ Merging(q) => Merging(request[r]),
           UNCHANGED <<cart, cookie, order, asked, overlapped>>
    PROVE  OnceIInv'
<1>1. \A s \in Requests : request'[s] = IF s = r THEN q ELSE request[s]
  BY DEF OnceIInv, Rows, Turn
<1>2. CartsHaveOwners'
  <2>1. CartsStay
    BY DEF CartsStay
  <2>2. KnowsItsCarts(q)'
    BY <1>1 DEF KnowsItsCarts, BelongsTo, Merging, Ordering
  <2> QED
    BY <1>1, <2>1, <2>2, OwnersStay DEF OnceIInv, CartsHaveOwners
<1>3. ASSUME NEW s \in Requests, NEW c \in Carts, Promises(s, c)'
      PROVE  /\ cart[c].status # "NONE"
             /\ \/ request'[s].seen <= cart[c].qty
                \/ Promises(s, c) /\ request'[s].seen = request[s].seen
  <2>1. CASE s = r
    BY <1>1, <1>3, <2>1 DEF Promises, KnowsItsCarts, BelongsTo
  <2>2. CASE s # r
    <3>1. request'[s] = request[s] /\ KnowsItsCarts(request[s])
      BY <1>1, <2>2 DEF OnceIInv, CartsHaveOwners
    <3> QED
      BY <1>3, <3>1 DEF Promises, KnowsItsCarts, BelongsTo
  <2> QED
    BY <2>1, <2>2
<1>4. \A c \in Carts : cart'[c].owner = cart[c].owner /\ cart'[c].qty <= cart[c].qty
  BY DEF OnceIInv, Rows, CartRow
<1>5. \A u : OrderedUnits(u)' = OrderedUnits(u)
  BY DEF OrderedUnits, Placed
<1>6. NothingTwice'
  BY <1>3, <1>4, <1>5, PromisesStay
<1> QED
  BY <1>2, <1>6 DEF OnceIInv

(* The empty call promises nothing. *)
LEMMA AnswerOnce ==
    ASSUME OnceIInv, Rows', NEW r \in Requests, Answered(r),
           UNCHANGED <<cart, cookie, order, asked, overlapped>>
    PROVE  OnceIInv'
<1>1. /\ KnowsItsCarts(NoRequest) /\ ~ Ordering(NoRequest) /\ ~ Merging(NoRequest)
  BY CheckoutAssumption DEF NoRequest, KnowsItsCarts, Ordering, Merging
<1> QED
  BY <1>1, MovesOnce DEF Answered

(* A call that finds the cart it will edit. *)
LEMMA EditOnce ==
    ASSUME OnceIInv, Rows', NEW r \in Requests, NEW u \in Customers, BeginEdit(r, u)
    PROVE  OnceIInv'
<1>1. PICK c \in Carts :
         /\ \/ ResolveUserCart(u, c) /\ UNCHANGED cookie
            \/ ResolveGuestCart(u, c)
         /\ Turn(r, [NoRequest EXCEPT !.op = "edit", !.user = u, !.cart = c])
  BY DEF BeginEdit
<1> DEFINE q == [NoRequest EXCEPT !.op = "edit", !.user = u, !.cart = c]
<1>2. q.op = "edit" /\ q.user = u /\ q.cart = c /\ q.seen = 0
  BY DEF NoRequest
<1>3. Turn(r, q)
  BY <1>1
<1> HIDE DEF q
<1>4. /\ request'[r] = q
      /\ \A s \in Requests \ {r} : request'[s] = request[s]
  BY <1>3 DEF Turn, OnceIInv, Rows
<1>5. cookie[u] \in Carts => BelongsTo(cookie[u], u) /\ cart[cookie[u]].guest
  BY DEF OnceIInv, CartsHaveOwners
<1>6. CASE ResolveUserCart(u, c) /\ UNCHANGED cookie
  <2>1. CartsFound /\ BelongsTo(c, u)'
    <3> DEFINE guest == FALSE
    <3>1. guest \in BOOLEAN /\ (~ guest => ResolveUserCart(u, c))
          /\ (guest => ResolveGuestCart(u, c))
      BY <1>6
    <3> HIDE DEF guest
    <3> QED
      BY <1>5, <3>1, CartIsFound DEF OnceIInv
  <2>2. KnowsItsCarts(q)'
    BY <1>2, <2>1, CheckoutAssumption DEF KnowsItsCarts, Ordering, Merging
  <2> QED
    BY <1>2, <1>4, <1>6, <2>1, <2>2, FoundOnce DEF BeginEdit, Ordering, Merging
<1>7. CASE ResolveGuestCart(u, c)
  <2>1. CartsFound /\ BelongsTo(c, u)' /\ cart'[c].guest
    <3> DEFINE guest == TRUE
    <3>1. guest \in BOOLEAN /\ (~ guest => ResolveUserCart(u, c))
          /\ (guest => ResolveGuestCart(u, c))
      BY <1>7
    <3> HIDE DEF guest
    <3>2. CartsFound /\ BelongsTo(c, u)' /\ cart'[c].guest = guest
      BY <1>5, <3>1, CartIsFound DEF OnceIInv
    <3> QED
      BY <3>2 DEF guest
  <2>2. KnowsItsCarts(q)'
    BY <1>2, <2>1, CheckoutAssumption DEF KnowsItsCarts, Ordering, Merging
  <2>3. \A w \in Customers : cookie'[w] # cookie[w] => w = u /\ cookie'[w] = c
    BY <1>7 DEF ResolveGuestCart, OnceIInv, Rows
  <2> QED
    BY <1>2, <1>4, <2>1, <2>2, <2>3, FoundOnce DEF BeginEdit, Ordering, Merging
<1> QED
  BY <1>1, <1>6, <1>7

(* Not everything is a call. *)
LEMMA SomethingElse == \E z : z \notin Requests
<1> DEFINE z == {x \in Requests : x \notin x}
<1>1. z \in z <=> z \in Requests /\ z \notin z
  OBVIOUS
<1> HIDE DEF z
<1> QED
  BY <1>1

(* A merge reads the guest cart of the browser, or closes an empty one. *)
LEMMA BeginMergeOnce ==
    ASSUME OnceIInv, Rows', NEW r \in Requests, NEW u \in Customers, BeginMerge(r, u)
    PROVE  OnceIInv'
<1> DEFINE g == cookie[u]
<1>1. /\ g \in Carts /\ cart[g] \in CartRow /\ cart[g].qty \in Nat /\ cart[g].qty <= MaxCartQty
      /\ BelongsTo(g, u) /\ cart[g].guest
  BY DEF BeginMerge, OnceIInv, Rows, CartRow, CartsHaveOwners
<1>2. UNCHANGED <<order, asked, overlapped>>
  BY DEF BeginMerge
<1>3. CASE Turn(r, [op |-> "merge", user |-> u, cart |-> g, target |-> NoCart,
                    key |-> NoKey, coupon |-> FALSE, seen |-> cart[g].qty, had |-> 0])
           /\ UNCHANGED <<cart, cookie>>
  <2> DEFINE q == [op |-> "merge", user |-> u, cart |-> g, target |-> NoCart,
                   key |-> NoKey, coupon |-> FALSE, seen |-> cart[g].qty, had |-> 0]
  <2>1. KnowsItsCarts(q) /\ ~ Ordering(q) /\ q.seen <= cart[q.cart].qty
    BY <1>1 DEF KnowsItsCarts, Ordering, Merging
  <2>2. Turn(r, q)
    BY <1>3
  <2> HIDE DEF q
  <2> QED
    BY <1>2, <1>3, <2>1, <2>2, MovesOnce
<1>4. CASE /\ cart' = [cart EXCEPT ![g].status = IF @ = "ACTIVE" THEN "MERGED" ELSE @]
           /\ cookie' = [cookie EXCEPT ![u] = NoCart]
           /\ UNCHANGED request
  <2>1. \A c \in Carts \ {g} : cart'[c] = cart[c]
    BY <1>4 DEF OnceIInv, Rows
  <2>2. /\ cart'[g].owner = cart[g].owner /\ cart'[g].guest = cart[g].guest
        /\ cart'[g].qty = cart[g].qty
        /\ cart'[g].status = IF cart[g].status = "ACTIVE" THEN "MERGED" ELSE cart[g].status
    <3> DEFINE row == [cart[g] EXCEPT !.status = IF @ = "ACTIVE" THEN "MERGED" ELSE @]
    <3>1. cart'[g] = row
      BY <1>1, <1>4 DEF OnceIInv, Rows
    <3> QED
      BY <1>1, <3>1 DEF CartRow
  <2>3. CartsFound
    BY <1>1, <2>1, <2>2 DEF CartsFound, CartsStay, BelongsTo
  <2>4. \A w \in Customers : cookie'[w] # cookie[w] => cookie'[w] \notin Carts
    BY <1>4, CheckoutAssumption DEF OnceIInv, Rows
  <2>5. \A s \in Requests : request'[s] = request[s]
    BY <1>4
  <2>6. PICK z : z \notin Requests
    BY SomethingElse
  <2> QED
    BY <1>2, <2>3, <2>4, <2>5, <2>6, FoundOnce
<1> QED
  BY <1>3, <1>4 DEF BeginMerge

(* A call finds the cart of the user, to merge into it or to check it out. *)
LEMMA ResolveOnce ==
    ASSUME OnceIInv, Rows', NEW r \in Requests, ResolveForMerge(r) \/ ResolveForCheckout(r)
    PROVE  OnceIInv'
<1>1. /\ request[r] \in Request /\ Prepared(request[r]) /\ request[r].user \in Customers
      /\ KnowsItsCarts(request[r]) /\ request[r].op \in {"merge", "checkout"}
  BY DEF OnceIInv, CartsHaveOwners, Rows, Prepared, ResolveForMerge, ResolveForCheckout, Doing
<1> PICK u \in Customers : u = request[r].user
  BY <1>1
<1>2. UNCHANGED <<cookie, order, asked, overlapped>>
  BY DEF ResolveForMerge, ResolveForCheckout
<1>3. PICK c \in Carts :
         /\ ResolveUserCart(u, c)
         /\ \/ /\ request[r].op = "merge"
               /\ Turn(r, [request[r] EXCEPT !.op = "read", !.target = c])
            \/ Turn(r, [request[r] EXCEPT !.op = "lock", !.cart = c])
  BY DEF ResolveForMerge, ResolveForCheckout, Doing
<1>4. CartsFound /\ BelongsTo(c, u)' /\ ~ cart'[c].guest
  <2> DEFINE guest == FALSE
  <2>1. guest \in BOOLEAN /\ (~ guest => ResolveUserCart(u, c))
        /\ (guest => ResolveGuestCart(u, c))
    BY <1>3
  <2>2. cookie[u] \in Carts => BelongsTo(cookie[u], u) /\ cart[cookie[u]].guest
    BY <1>1 DEF OnceIInv, CartsHaveOwners
  <2> HIDE DEF guest
  <2>3. CartsFound /\ BelongsTo(c, u)' /\ cart'[c].guest = guest
    BY <1>1, <2>1, <2>2, CartIsFound DEF OnceIInv
  <2> QED
    BY <2>3 DEF guest
<1>5. CASE request[r].op = "merge" /\ Turn(r, [request[r] EXCEPT !.op = "read", !.target = c])
  <2> PICK q : q = [request[r] EXCEPT !.op = "read", !.target = c]
    OBVIOUS
  <2>1. /\ q.op = "read" /\ q.target = c /\ q.user = u
        /\ q.cart = request[r].cart /\ q.seen = request[r].seen
    BY <1>1 DEF Request
  <2>2. Turn(r, q)
    BY <1>5
  <2>3. BelongsTo(q.cart, u) /\ cart[q.cart].guest /\ q.cart \in Carts /\ q.seen <= MaxCartQty
    BY <1>1, <1>5, <2>1 DEF KnowsItsCarts, Merging, Prepared
  <2>4. BelongsTo(q.cart, u)' /\ cart'[q.cart].guest
    BY <1>4, <2>3 DEF CartsFound, CartsStay, BelongsTo
  <2>5. KnowsItsCarts(q)'
    BY <1>4, <2>1, <2>3, <2>4 DEF KnowsItsCarts, Merging, Ordering
  <2>6. request'[r] = q /\ \A s \in Requests \ {r} : request'[s] = request[s]
    BY <2>2 DEF Turn, OnceIInv, Rows
  <2>7. Merging(request[r]) /\ ~ Ordering(q)
    BY <1>5, <2>1 DEF Merging, Ordering
  <2> QED
    BY <1>2, <1>4, <2>1, <2>5, <2>6, <2>7, FoundOnce
<1>6. CASE Turn(r, [request[r] EXCEPT !.op = "lock", !.cart = c])
  <2> PICK q : q = [request[r] EXCEPT !.op = "lock", !.cart = c]
    OBVIOUS
  <2>1. q.op = "lock" /\ q.cart = c /\ q.user = u /\ q.seen = request[r].seen
    BY <1>1 DEF Request
  <2>2. Turn(r, q)
    BY <1>6
  <2>3. request[r].seen <= MaxCartQty
    BY <1>1 DEF KnowsItsCarts
  <2>4. KnowsItsCarts(q)' /\ ~ Merging(q) /\ ~ Ordering(q)
    BY <1>4, <2>1, <2>3 DEF KnowsItsCarts, Merging, Ordering
  <2>5. request'[r] = q /\ \A s \in Requests \ {r} : request'[s] = request[s]
    BY <2>2 DEF Turn, OnceIInv, Rows
  <2> QED
    BY <1>2, <1>4, <2>4, <2>5, FoundOnce
<1> QED
  BY <1>3, <1>5, <1>6

(* The quantity of the target is read. *)
LEMMA ReadTargetOnce ==
    ASSUME OnceIInv, Rows', NEW r \in Requests, ReadTarget(r)
    PROVE  OnceIInv'
<1> DEFINE n == cart[request[r].target].qty
           q == [request[r] EXCEPT !.op = "write", !.had = n]
<1>1. request[r] \in Request /\ request[r].op = "read" /\ KnowsItsCarts(request[r])
  BY DEF OnceIInv, CartsHaveOwners, Rows, ReadTarget, Doing
<1>2. Turn(r, q) /\ UNCHANGED <<cart, cookie, order, asked, overlapped>>
  BY DEF ReadTarget
<1>3. /\ q.op = "write" /\ q.user = request[r].user /\ q.cart = request[r].cart
      /\ q.target = request[r].target /\ q.seen = request[r].seen
  BY <1>1 DEF Request
<1> HIDE DEF q
<1>4. KnowsItsCarts(q) /\ Merging(request[r]) /\ ~ Ordering(q)
  BY <1>1, <1>3 DEF KnowsItsCarts, Merging, Ordering
<1> QED
  BY <1>2, <1>3, <1>4, MovesOnce

(* A checkout begins, before it knows its cart. *)
LEMMA BeginCheckoutOnce ==
    ASSUME OnceIInv, Rows', NEW r \in Requests, NEW u \in Customers,
           NEW k \in Keys \cup {NoKey}, NEW coupon \in BOOLEAN, BeginCheckout(r, u, k, coupon)
    PROVE  OnceIInv'
<1> DEFINE q == [op |-> "checkout", user |-> u, cart |-> NoCart, target |-> NoCart,
                 key |-> k, coupon |-> coupon, seen |-> 0, had |-> 0]
<1>1. KnowsItsCarts(q) /\ ~ Ordering(q) /\ ~ Merging(q)
  BY CheckoutAssumption DEF KnowsItsCarts, Ordering, Merging
<1>2. Turn(r, q) /\ UNCHANGED <<cart, cookie, order, asked, overlapped>>
  BY DEF BeginCheckout
<1> HIDE DEF q
<1> QED
  BY <1>1, <1>2, MovesOnce

(* It reads the cart, alone under its lock. *)
LEMMA EnterCheckoutOnce ==
    ASSUME OnceIInv, Rows', NEW r \in Requests, EnterCheckout(r)
    PROVE  OnceIInv'
<1> DEFINE n == cart[request[r].cart].qty
           q == [request[r] EXCEPT !.seen = n,
                                   !.op = IF request[r].coupon THEN "coupon" ELSE "place"]
<1>1. /\ request[r] \in Request /\ Prepared(request[r]) /\ request[r].op = "lock"
      /\ KnowsItsCarts(request[r])
  BY DEF OnceIInv, CartsHaveOwners, Rows, EnterCheckout, Doing
<1>2. request[r].cart \in Carts /\ n <= MaxCartQty /\ n \in Nat
  BY <1>1 DEF Prepared, OnceIInv, CartsHaveOwners, Rows, CartRow
<1>3. UNCHANGED <<cart, cookie, order, asked, overlapped>>
  BY DEF EnterCheckout
<1>4. CASE Answered(r)
  BY <1>3, <1>4, AnswerOnce
<1>5. CASE Turn(r, q)
  <2>1. /\ q.op \in {"coupon", "place"} /\ q.user = request[r].user
        /\ q.cart = request[r].cart /\ q.seen = n
    BY <1>1 DEF Request
  <2> HIDE DEF q
  <2>2. KnowsItsCarts(q) /\ Ordering(q) /\ ~ Merging(q)
    BY <1>1, <1>2, <2>1 DEF KnowsItsCarts, Merging, Ordering
  <2>3. \A s \in Requests \ {r} : Ordering(request[s]) => request[s].cart # q.cart
    BY <2>1 DEF EnterCheckout, LockCart, InTransaction, Ordering
  <2>4. q.seen <= cart[q.cart].qty
    BY <1>2, <2>1
  <2> QED
    BY <1>3, <1>5, <2>2, <2>3, <2>4, MovesOnce
<1> QED
  BY <1>4, <1>5 DEF EnterCheckout

(* The coupon is counted, while the cart stays locked. *)
LEMMA EvaluateOnce ==
    ASSUME OnceIInv, Rows', NEW r \in Requests, EvaluateCoupon(r)
    PROVE  OnceIInv'
<1> DEFINE q == [request[r] EXCEPT !.op = "place"]
<1>1. request[r] \in Request /\ request[r].op = "coupon" /\ KnowsItsCarts(request[r])
  BY DEF OnceIInv, CartsHaveOwners, Rows, EvaluateCoupon, Doing
<1>2. UNCHANGED <<cart, cookie, order, asked, overlapped>>
  BY DEF EvaluateCoupon
<1>3. CASE Answered(r)
  BY <1>2, <1>3, AnswerOnce
<1>4. CASE Turn(r, q)
  <2>1. /\ q.op = "place" /\ q.user = request[r].user
        /\ q.cart = request[r].cart /\ q.seen = request[r].seen
    BY <1>1 DEF Request
  <2> HIDE DEF q
  <2>2. KnowsItsCarts(q) /\ Ordering(request[r]) /\ ~ Merging(q)
    BY <1>1, <2>1 DEF KnowsItsCarts, Merging, Ordering
  <2>3. \A s \in Requests \ {r} : Ordering(request[s]) => request[s].cart # q.cart
    BY <2>1, <2>2 DEF OnceIInv, CartsHaveOwners, OneOrderAtATime
  <2> QED
    BY <1>2, <1>4, <2>1, <2>2, <2>3, MovesOnce
<1> QED
  BY <1>3, <1>4 DEF EvaluateCoupon, Proceed

(* Old carts are closed. *)
LEMMA SweepOnce ==
    ASSUME OnceIInv, Rows', NEW expired \in SUBSET Carts, SweepExpiredCarts(expired)
    PROVE  OnceIInv'
<1>1. ASSUME NEW c \in Carts
      PROVE  /\ cart'[c].owner = cart[c].owner /\ cart'[c].guest = cart[c].guest
             /\ cart'[c].qty = cart[c].qty
             /\ \/ cart'[c].status = cart[c].status
                \/ cart'[c].status = "EXPIRED"
  <2>1. cart[c] \in CartRow
    BY DEF OnceIInv, Rows
  <2>2. cart'[c] = cart[c] \/ cart'[c] = [cart[c] EXCEPT !.status = "EXPIRED"]
    BY DEF SweepExpiredCarts
  <2>3. CASE cart'[c] = cart[c]
    BY <2>3
  <2>4. CASE cart'[c] = [cart[c] EXCEPT !.status = "EXPIRED"]
    BY <2>1, <2>4 DEF CartRow
  <2> QED
    BY <2>2, <2>3, <2>4
<1>2. CartsFound
  BY <1>1 DEF CartsFound, CartsStay
<1>3. PICK z : z \notin Requests
  BY SomethingElse
<1>4. UNCHANGED <<cookie, order, request, asked, overlapped>>
  BY DEF SweepExpiredCarts
<1> QED
  BY <1>2, <1>3, <1>4, FoundOnce

(* A step that changes no cart and no call, and orders nothing. *)
LEMMA OrdersOnce ==
    ASSUME OnceIInv, Rows', UNCHANGED <<cart, cookie, request, asked, overlapped>>,
           \A u : OrderedUnits(u)' = OrderedUnits(u)
    PROVE  OnceIInv'
<1>1. CartsHaveOwners'
  BY DEF OnceIInv, CartsHaveOwners, KnowsItsCarts, BelongsTo, OneOrderAtATime
<1>2. \A u : Promised(u)' = Promised(u)
  BY DEF Promised, Promises
<1>3. NothingTwice'
  BY <1>2 DEF OnceIInv, NothingTwice
<1> QED
  BY <1>1, <1>3 DEF OnceIInv

(* An order is confirmed or cancelled. *)
LEMMA ClosedOnce ==
    ASSUME OnceIInv, Rows', NEW o \in Orders, Confirm(o) \/ Cancel(o)
    PROVE  OnceIInv'
<1>1. /\ order \in [Orders -> OrderRow] /\ order[o] \in OrderRow /\ order[o].status # "NONE"
      /\ UNCHANGED <<cart, cookie, request, asked, overlapped>>
  BY DEF OnceIInv, Rows, Confirm, Cancel
<1>2. PICK status \in {"CONFIRMED", "CANCELLED"} : \E slot :
         order' = [[order EXCEPT ![o].status = status] EXCEPT ![o].coupon = slot]
  BY DEF Confirm, Cancel
<1>3. PICK slot : order' = [[order EXCEPT ![o].status = status] EXCEPT ![o].coupon = slot]
  BY <1>2
<1> DEFINE o1 == [order EXCEPT ![o].status = status]
<1>4. /\ o1 \in [Orders -> OrderRow] /\ o1[o].status = status
      /\ \A p \in Orders : /\ o1[p].qty = order[p].qty /\ o1[p].owner = order[p].owner
                           /\ p # o => o1[p] = order[p]
  BY <1>1 DEF OrderRow
<1>5. order' = [o1 EXCEPT ![o].coupon = slot]
  BY <1>3
<1> HIDE DEF o1
<1>6. /\ order'[o].status = status
      /\ \A p \in Orders : /\ order'[p].qty = order[p].qty /\ order'[p].owner = order[p].owner
                           /\ p # o => order'[p] = order[p]
  BY <1>4, <1>5 DEF OrderRow
<1>7. \A p \in Orders : order'[p].status = "NONE" <=> order[p].status = "NONE"
  BY <1>1, <1>2, <1>6
<1>8. \A u : OrderedUnits(u)' = OrderedUnits(u)
  BY <1>6, <1>7, SameOrders
<1> QED
  BY <1>1, <1>8, OrdersOnce

(* A call that is answered has nothing left to do. *)
LEMMA CallEnds ==
    ASSUME Rows, NEW r \in Requests, Turn(r, NoRequest)
    PROVE  /\ request'[r] = NoRequest
           /\ \A s \in Requests \ {r} : request'[s] = request[s]
           /\ ~ Ordering(NoRequest) /\ ~ Merging(NoRequest) /\ KnowsItsCarts(NoRequest)'
<1>1. request'[r] = NoRequest /\ \A s \in Requests \ {r} : request'[s] = request[s]
  BY DEF Rows, Turn
<1>2. NoRequest.op = "idle" /\ NoRequest.seen = 0
  BY DEF NoRequest
<1>3. ~ Ordering(NoRequest) /\ ~ Merging(NoRequest)
  BY <1>2 DEF Ordering, Merging
<1>4. KnowsItsCarts(NoRequest)'
  <2>1. 0 <= MaxCartQty
    BY CheckoutAssumption
  <2> QED
    BY <1>2, <2>1 DEF KnowsItsCarts, Ordering, Merging
<1> QED
  BY <1>1, <1>3, <1>4


(* A quantity is written: what is more than before was asked for. *)
LEMMA WriteOnce ==
    ASSUME OnceIInv, Rows', NEW r \in Requests, request[r].op = "edit",
           NEW n \in Nat, n <= MaxCartQty, Write(r, n)
    PROVE  OnceIInv'
<1> PICK c, u : c = request[r].cart /\ u = request[r].user
  OBVIOUS
<1>1. /\ c \in Carts /\ u \in Customers /\ BelongsTo(c, u)
      /\ cart \in [Carts -> CartRow] /\ cart[c] \in CartRow
      /\ asked \in [Customers -> Nat]
  BY DEF OnceIInv, Rows, Prepared, CartsHaveOwners, KnowsItsCarts
<1> PICK m \in Nat : m = cart[c].qty
  BY <1>1 DEF CartRow
<1> PICK more \in Nat, top \in Nat : more = (IF n > m THEN n - m ELSE 0) /\ top = m + more
  <2>1. (IF n > m THEN n - m ELSE 0) \in Nat
    OBVIOUS
  <2>2. m + (IF n > m THEN n - m ELSE 0) \in Nat
    BY <2>1
  <2> QED
    BY <2>1, <2>2
<1>2. /\ asked' = [asked EXCEPT ![u] = @ + more]
      /\ cart' = [cart EXCEPT ![c] = [cart[c] EXCEPT !.qty = n]]
      /\ Turn(r, NoRequest)
      /\ UNCHANGED <<cookie, order, overlapped>>
  BY DEF Write, Answered
<1>3. /\ cart'[c].qty = n /\ cart'[c].owner = cart[c].owner
      /\ cart'[c].guest = cart[c].guest /\ cart'[c].status = cart[c].status
      /\ \A d \in Carts \ {c} : cart'[d] = cart[d]
  BY <1>1, <1>2 DEF CartRow
<1>4. /\ request'[r] = NoRequest
      /\ \A s \in Requests \ {r} : request'[s] = request[s]
      /\ ~ Ordering(NoRequest) /\ ~ Merging(NoRequest) /\ KnowsItsCarts(NoRequest)'
  BY <1>2, CallEnds DEF OnceIInv
<1>5. CartsHaveOwners'
  <2>1. CartsStay
    BY <1>3 DEF CartsStay
  <2>2. \A d \in Carts : cart'[d].qty <= MaxCartQty
    BY <1>3 DEF OnceIInv, CartsHaveOwners
  <2> QED
    BY <1>2, <1>4, <2>1, <2>2, OwnersStay DEF OnceIInv
<1>6. \A w : OrderedUnits(w)' = OrderedUnits(w)
  BY <1>2 DEF OrderedUnits, Placed
<1>7. ASSUME NEW w \in Customers, NEW v \in Promised(w)', v \notin Promised(w)
      PROVE  w = u /\ v \in Units(c, m, top)
  <2> PICK d \in Carts, k \in 1 .. MaxCartQty : v = <<d, k>>
    BY <1>7 DEF Promised
  <2>1. /\ cart'[d].owner = w
        /\ \/ k <= cart'[d].qty
           \/ \E s \in Requests : Promises(s, d)' /\ k <= request'[s].seen
    BY <1>7 DEF Promised
  <2>2. ~ (\E s \in Requests : Promises(s, d)' /\ k <= request'[s].seen)
    <3>1. ASSUME NEW s \in Requests, Promises(s, d)', k <= request'[s].seen
          PROVE  Promises(s, d) /\ k <= request[s].seen
      BY <1>3, <1>4, <3>1 DEF Promises
    <3> QED
      BY <1>3, <1>7, <2>1, <3>1 DEF Promised
  <2>3. k <= cart'[d].qty /\ ~ (k <= cart[d].qty)
    BY <1>3, <1>7, <2>1, <2>2 DEF Promised
  <2>4. d = c
    BY <1>3, <2>3
  <2>5. k <= n /\ ~ (k <= m) /\ k \in Nat
    BY <1>3, <2>3, <2>4, CheckoutAssumption
  <2>6. k \in (m + 1) .. top
    BY <2>5
  <2> QED
    BY <1>1, <1>3, <2>1, <2>4, <2>6 DEF BelongsTo, Units
<1>8. ASSUME NEW w \in Customers \ overlapped'
      PROVE  /\ IsFiniteSet(Promised(w)')
             /\ Cardinality(OrderedUnits(w)') + Cardinality(Promised(w)') <= asked'[w]
  <2>1. w \in Customers /\ w \notin overlapped /\ asked[w] \in Nat /\ asked[u] \in Nat
    BY <1>1, <1>2
  <2>2. CASE w # u
    <3>1. Promised(w)' \subseteq Promised(w) /\ asked'[w] = asked[w]
      BY <1>1, <1>2, <1>7, <2>1, <2>2
    <3> QED
      BY <1>6, <2>1, <3>1, FewerUnits DEF OnceIInv
  <2>3. CASE w = u
    <3> DEFINE In == Units(c, m, top)
    <3>1. IsFiniteSet(In) /\ Cardinality(In) = more
      <4>1. m <= top /\ top - m = more
        OBVIOUS
      <4>2. IsFiniteSet(In) /\ Cardinality(In) = top - m
        BY <4>1, UnitsCounted
      <4> QED
        BY <4>1, <4>2
    <3>2. Promised(u)' \subseteq (Promised(u) \ {}) \cup In
      BY <1>1, <1>7
    <3>3. /\ IsFiniteSet(Promised(u))
          /\ Cardinality(OrderedUnits(u)) + Cardinality(Promised(u)) <= asked[u]
      BY <2>1, <2>3 DEF OnceIInv, NothingTwice
    <3>4. /\ IsFiniteSet(Promised(u)')
          /\ Cardinality(Promised(u)') <= Cardinality(Promised(u)) - Cardinality({}) + more
      <4>1. {} \in SUBSET Promised(u)
        OBVIOUS
      <4> HIDE DEF In
      <4>2. /\ IsFiniteSet(Promised(u)')
            /\ Cardinality(Promised(u)') <= Cardinality(Promised(u)) - Cardinality({}) + Cardinality(In)
        BY <3>1, <3>2, <3>3, <4>1, CardinalityAfter
      <4> QED
        BY <3>1, <4>2
    <3>5. /\ Cardinality({}) = 0 /\ Cardinality(Promised(u)) \in Nat
          /\ Cardinality(Promised(u)') \in Nat /\ Cardinality(OrderedUnits(u)) \in Nat
      BY <3>3, <3>4, FS_EmptySet, FS_CardinalityType, OrderedFinite
    <3>6. asked'[u] = asked[u] + more
      BY <1>1, <1>2
    <3>7. Cardinality(OrderedUnits(u)) + Cardinality(Promised(u)') <= asked'[u]
      BY <2>1, <3>3, <3>4, <3>5, <3>6
    <3> QED
      BY <1>6, <2>3, <3>4, <3>7
  <2> QED
    BY <2>2, <2>3
<1> QED
  BY <1>5, <1>8 DEF OnceIInv, NothingTwice

(* The units read from a cart are promised. *)
LEMMA ReadIsPromised ==
    ASSUME OnceIInv, NEW r \in Requests, NEW c \in Carts, Promises(r, c),
           NEW u, cart[c].owner = u, NEW seen \in Nat, seen = request[r].seen
    PROVE  Units(c, 0, seen) \in SUBSET Promised(u) /\ Cardinality(Units(c, 0, seen)) = seen
<1>1. seen <= MaxCartQty /\ MaxCartQty \in Nat
  BY CheckoutAssumption DEF OnceIInv, CartsHaveOwners, KnowsItsCarts
<1>2. ASSUME NEW k \in 1 .. seen PROVE <<c, k>> \in Promised(u)
  <2>1. k \in 1 .. MaxCartQty /\ k <= request[r].seen
    BY <1>1
  <2> QED
    BY <2>1 DEF Promised
<1>3. Units(c, 0, seen) \in SUBSET Promised(u)
  BY <1>2 DEF Units
<1>4. 0 \in Nat /\ 0 <= seen /\ seen - 0 = seen
  OBVIOUS
<1>5. Cardinality(Units(c, 0, seen)) = seen - 0
  BY <1>4, UnitsCounted
<1> QED
  BY <1>3, <1>4, <1>5

(* The merge moves what was read from one cart to the other, unless either *)
(* of them has changed since.                                              *)
LEMMA WriteMergeOnce ==
    ASSUME OnceIInv, Rows', NEW r \in Requests, WriteMerge(r)
    PROVE  OnceIInv'
<1> PICK g, d, u : g = request[r].cart /\ d = request[r].target /\ u = request[r].user
  OBVIOUS
<1>1. request[r].op = "write" /\ request[r] \in Request /\ Merging(request[r])
  BY DEF WriteMerge, Doing, OnceIInv, Rows, Merging
<1>2. /\ g \in Carts /\ d \in Carts /\ u \in Customers
      /\ cart \in [Carts -> CartRow] /\ cart[g] \in CartRow /\ cart[d] \in CartRow
      /\ BelongsTo(g, u) /\ BelongsTo(d, u) /\ cart[g].guest /\ ~ cart[d].guest /\ d # g
  BY <1>1 DEF OnceIInv, Rows, Prepared, CartsHaveOwners, KnowsItsCarts, Merging
<1> PICK seen \in Nat, had \in Nat : seen = request[r].seen /\ had = request[r].had
  BY <1>1 DEF Request
<1> PICK capped \in Int : capped = Smaller(had + seen, Smaller(available, MaxCartQty))
  BY CheckoutAssumption DEF OnceIInv, Rows, Smaller
<1>3. capped <= had + seen /\ capped <= MaxCartQty /\ MaxCartQty \in Nat
  BY CheckoutAssumption DEF OnceIInv, Rows, Smaller
<1> PICK n \in Nat : n = IF capped > 0 THEN capped ELSE cart[d].qty
  BY <1>2 DEF CartRow
<1>4. cart[d].qty <= MaxCartQty /\ cart[d].qty \in Nat /\ n <= MaxCartQty
  BY <1>2, <1>3 DEF OnceIInv, CartsHaveOwners, CartRow
<1>5. /\ cart' = [cart EXCEPT ![d].qty = n, ![g].qty = 0, ![g].status = "MERGED"]
      /\ cookie' = [cookie EXCEPT ![u] = NoCart]
      /\ overlapped \subseteq overlapped'
      /\ u \notin overlapped' => cart[g].status = "ACTIVE" /\ cart[d].qty = had
      /\ Turn(r, NoRequest)
      /\ UNCHANGED <<order, asked>>
  BY DEF WriteMerge, Answered
<1>6. /\ cart'[d].qty = n /\ cart'[d].owner = cart[d].owner
      /\ cart'[d].guest = cart[d].guest /\ cart'[d].status = cart[d].status
      /\ cart'[g].qty = 0 /\ cart'[g].owner = cart[g].owner
      /\ cart'[g].guest = cart[g].guest /\ cart'[g].status = "MERGED"
      /\ \A e \in Carts \ {g, d} : cart'[e] = cart[e]
  <2> DEFINE c1 == [cart EXCEPT ![d] = [cart[d] EXCEPT !.qty = n]]
             row == [[cart[g] EXCEPT !.qty = 0] EXCEPT !.status = "MERGED"]
  <2>1. /\ c1[d].qty = n /\ c1[d].owner = cart[d].owner
        /\ c1[d].guest = cart[d].guest /\ c1[d].status = cart[d].status
        /\ \A e \in Carts \ {d} : c1[e] = cart[e]
        /\ DOMAIN c1 = Carts
    BY <1>2 DEF CartRow
  <2>2. /\ row.qty = 0 /\ row.owner = cart[g].owner
        /\ row.guest = cart[g].guest /\ row.status = "MERGED"
    BY <1>2 DEF CartRow
  <2>3. cart' = [[c1 EXCEPT ![g] = [c1[g] EXCEPT !.qty = 0]] EXCEPT
                   ![g] = [[c1 EXCEPT ![g] = [c1[g] EXCEPT !.qty = 0]][g] EXCEPT !.status = "MERGED"]]
    BY <1>5
  <2>4. c1[g] = cart[g]
    BY <1>2, <2>1
  <2> HIDE DEF c1
  <2>5. cart' = [c1 EXCEPT ![g] = row]
    BY <1>2, <2>1, <2>3, <2>4
  <2> HIDE DEF row
  <2> QED
    BY <1>2, <2>1, <2>2, <2>5
<1>7. /\ request'[r] = NoRequest
      /\ \A s \in Requests \ {r} : request'[s] = request[s]
      /\ ~ Ordering(NoRequest) /\ ~ Merging(NoRequest) /\ KnowsItsCarts(NoRequest)'
  BY <1>5, CallEnds DEF OnceIInv
<1>8. CartsHaveOwners'
  <2>1. CartsStay
    BY <1>2, <1>6 DEF CartsStay
  <2>2. \A e \in Carts : cart'[e].qty <= MaxCartQty
    BY <1>3, <1>4, <1>6 DEF OnceIInv, CartsHaveOwners
  <2>3. \A w \in Customers : cookie'[w] # cookie[w] => cookie'[w] \notin Carts
    BY <1>5, CheckoutAssumption DEF OnceIInv, Rows
  <2> QED
    BY <1>7, <2>1, <2>2, <2>3, OwnersStay DEF OnceIInv
<1>9. \A w : OrderedUnits(w)' = OrderedUnits(w)
  BY <1>5 DEF OrderedUnits, Placed
<1>10. ASSUME NEW s \in Requests, NEW e \in Carts, Promises(s, e)'
       PROVE  Promises(s, e) /\ request'[s].seen = request[s].seen /\ e # g
  <2>1. s # r /\ request'[s] = request[s]
    BY <1>7, <1>10 DEF Promises
  <2>2. KnowsItsCarts(request[s])
    BY DEF OnceIInv, CartsHaveOwners
  <2> QED
    BY <1>2, <1>6, <1>10, <2>1, <2>2 DEF Promises, KnowsItsCarts
<1>11. ASSUME NEW w \in Customers, NEW v \in Promised(w)', v \notin Promised(w)
       PROVE  w = u /\ \E k \in 1 .. MaxCartQty : v = <<d, k>> /\ k <= n /\ ~ (k <= cart[d].qty)
  <2> PICK e \in Carts, k \in 1 .. MaxCartQty : v = <<e, k>>
    BY <1>11 DEF Promised
  <2>1. /\ cart'[e].owner = w /\ cart[e].owner = w
        /\ \/ k <= cart'[e].qty
           \/ \E s \in Requests : Promises(s, e)' /\ k <= request'[s].seen
    BY <1>6, <1>11 DEF Promised
  <2>2. ~ (\E s \in Requests : Promises(s, e)' /\ k <= request'[s].seen)
    BY <1>10, <1>11, <2>1 DEF Promised
  <2>3. k <= cart'[e].qty /\ ~ (k <= cart[e].qty)
    BY <1>11, <2>1, <2>2 DEF Promised
  <2>4. e # g
    BY <1>6, <2>3, CheckoutAssumption
  <2>5. e = d
    BY <1>6, <2>3, <2>4
  <2> QED
    BY <1>2, <1>6, <2>1, <2>3, <2>5 DEF BelongsTo
<1>12. ASSUME NEW v \in Promised(u)'
       PROVE  v \notin Units(g, 0, seen)
  <2> PICK e \in Carts, k \in 1 .. MaxCartQty : v = <<e, k>>
    BY <1>12 DEF Promised
  <2>1. \/ k <= cart'[e].qty
        \/ \E s \in Requests : Promises(s, e)' /\ k <= request'[s].seen
    BY <1>12 DEF Promised
  <2>2. e # g
    BY <1>6, <1>10, <2>1, CheckoutAssumption
  <2> QED
    BY <2>2 DEF Units
<1>13. ASSUME NEW w \in Customers \ overlapped'
       PROVE  /\ IsFiniteSet(Promised(w)')
              /\ Cardinality(OrderedUnits(w)') + Cardinality(Promised(w)') <= asked'[w]
  <2>1. w \in Customers /\ w \notin overlapped /\ asked[w] \in Nat /\ asked'[w] = asked[w]
    BY <1>5 DEF OnceIInv, Rows
  <2>2. CASE w # u
    <3>1. Promised(w)' \subseteq Promised(w)
      BY <1>11, <2>1, <2>2
    <3> QED
      BY <1>9, <2>1, <3>1, FewerUnits DEF OnceIInv
  <2>3. CASE w = u
    <3> DEFINE In == Units(d, had, had + seen)
               Out == Units(g, 0, seen)
    <3>1. cart[g].status = "ACTIVE" /\ cart[d].qty = had
      BY <1>5, <2>3
    <3>2. IsFiniteSet(In) /\ Cardinality(In) = seen
      <4>1. had + seen \in Nat /\ had <= had + seen /\ (had + seen) - had = seen
        OBVIOUS
      <4>2. IsFiniteSet(In) /\ Cardinality(In) = (had + seen) - had
        BY <4>1, UnitsCounted
      <4> QED
        BY <4>1, <4>2
    <3>3. Out \in SUBSET Promised(u) /\ Cardinality(Out) = seen
      <4>1. Promises(r, g) /\ cart[g].owner = u
        BY <1>1, <1>2, <3>1 DEF Promises, BelongsTo
      <4> QED
        BY <1>2, <4>1, ReadIsPromised
    <3>4. Promised(u)' \subseteq (Promised(u) \ Out) \cup In
      <4>1. ASSUME NEW v \in Promised(u)', v \notin Promised(u) PROVE v \in In
        <5> PICK k \in 1 .. MaxCartQty : v = <<d, k>> /\ k <= n /\ ~ (k <= cart[d].qty)
          BY <1>2, <1>11, <4>1
        <5>1. k \in Nat /\ k <= n /\ ~ (k <= had)
          BY <3>1, CheckoutAssumption
        <5>2. n <= had + seen
          BY <1>3, <3>1
        <5>3. k \in (had + 1) .. (had + seen)
          BY <5>1, <5>2
        <5> QED
          BY <5>3 DEF Units
      <4> QED
        BY <1>12, <4>1
    <3>5. /\ IsFiniteSet(Promised(u))
          /\ Cardinality(OrderedUnits(u)) + Cardinality(Promised(u)) <= asked[u]
      BY <2>1, <2>3 DEF OnceIInv, NothingTwice
    <3>6. /\ IsFiniteSet(Promised(u)')
          /\ Cardinality(Promised(u)') <= Cardinality(Promised(u)) - Cardinality(Out) + Cardinality(In)
      BY <3>2, <3>3, <3>4, <3>5, CardinalityAfter
    <3>7. /\ Cardinality(Promised(u)) \in Nat
          /\ Cardinality(Promised(u)') \in Nat /\ Cardinality(OrderedUnits(u)) \in Nat
      BY <3>5, <3>6, FS_CardinalityType, OrderedFinite
    <3>8. Cardinality(OrderedUnits(u)) + Cardinality(Promised(u)') <= asked'[u]
      BY <2>1, <2>3, <3>2, <3>3, <3>5, <3>6, <3>7
    <3> QED
      BY <1>9, <2>3, <3>6, <3>8
  <2> QED
    BY <2>2, <2>3
<1> QED
  BY <1>8, <1>13 DEF OnceIInv, NothingTwice

(* What was read from the cart is ordered, and the cart is done. *)
LEMMA PlaceOnce ==
    ASSUME OnceIInv, Rows', NEW r \in Requests, Place(r)
    PROVE  OnceIInv'
<1>1. CASE ~ Fits(r)
  BY <1>1, AnswerOnce DEF Place
<1>2. CASE Fits(r)
  <2> PICK c, u : c = request[r].cart /\ u = request[r].user
    OBVIOUS
  <2>1. /\ request[r] \in Request /\ Ordering(request[r])
        /\ c \in Carts /\ u \in Customers /\ BelongsTo(c, u) /\ ~ cart[c].guest
        /\ cart \in [Carts -> CartRow] /\ cart[c] \in CartRow
    BY DEF Place, Doing, Ordering, OnceIInv, Rows, Prepared, CartsHaveOwners, KnowsItsCarts
  <2> PICK seen \in Nat : seen = request[r].seen
    BY <2>1 DEF Request
  <2>2. /\ cart' = [cart EXCEPT ![c].qty = 0, ![c].status = "CONVERTED"]
        /\ Turn(r, NoRequest)
        /\ UNCHANGED <<cookie, asked, overlapped>>
    BY <1>2 DEF Place, Answered
  <2>3. PICK o \in Orders \ Placed :
           order' = [order EXCEPT ![o] =
                       [status |-> "PENDING_PAYMENT", owner |-> u, key |-> request[r].key,
                        qty |-> seen, coupon |-> IF request[r].coupon THEN "RESERVED" ELSE "NONE"]]
    BY <1>2 DEF Place
  <2>4. /\ order'[o].status = "PENDING_PAYMENT" /\ order'[o].owner = u /\ order'[o].qty = seen
        /\ order[o].status = "NONE"
        /\ \A p \in Orders \ {o} : order'[p] = order[p]
    BY <2>3 DEF OnceIInv, Rows, Placed
  <2>5. /\ cart'[c].qty = 0 /\ cart'[c].owner = cart[c].owner
        /\ cart'[c].guest = cart[c].guest /\ cart'[c].status = "CONVERTED"
        /\ \A e \in Carts \ {c} : cart'[e] = cart[e]
    <3> DEFINE row == [[cart[c] EXCEPT !.qty = 0] EXCEPT !.status = "CONVERTED"]
    <3>1. /\ row.qty = 0 /\ row.owner = cart[c].owner
          /\ row.guest = cart[c].guest /\ row.status = "CONVERTED"
      BY <2>1 DEF CartRow
    <3>2. cart' = [[cart EXCEPT ![c] = [cart[c] EXCEPT !.qty = 0]] EXCEPT
                    ![c] = [[cart EXCEPT ![c] = [cart[c] EXCEPT !.qty = 0]][c] EXCEPT !.status = "CONVERTED"]]
      BY <2>2
    <3>3. cart' = [cart EXCEPT ![c] = row]
      BY <2>1, <3>2
    <3> HIDE DEF row
    <3> QED
      BY <2>1, <3>1, <3>3
  <2>6. /\ request'[r] = NoRequest
        /\ \A s \in Requests \ {r} : request'[s] = request[s]
        /\ ~ Ordering(NoRequest) /\ ~ Merging(NoRequest) /\ KnowsItsCarts(NoRequest)'
    BY <2>2, CallEnds DEF OnceIInv
  <2>7. CartsHaveOwners'
    <3>1. CartsStay
      BY <2>1, <2>5 DEF CartsStay
    <3>2. \A e \in Carts : cart'[e].qty <= MaxCartQty
      BY <2>5, CheckoutAssumption DEF OnceIInv, CartsHaveOwners
    <3> QED
      BY <2>2, <2>6, <3>1, <3>2, OwnersStay DEF OnceIInv
  <2>8. ASSUME NEW s \in Requests, NEW e \in Carts, Promises(s, e)'
        PROVE  Promises(s, e) /\ request'[s].seen = request[s].seen /\ e # c
    <3>1. s # r /\ request'[s] = request[s]
      BY <2>6, <2>8 DEF Promises
    <3>2. Ordering(request[s]) => request[s].cart # c
      BY <2>1, <3>1 DEF OnceIInv, CartsHaveOwners, OneOrderAtATime
    <3> QED
      BY <2>5, <2>8, <3>1, <3>2 DEF Promises
  <2>9. ASSUME NEW w \in Customers, NEW v \in Promised(w)'
        PROVE  v \in Promised(w) \ Units(c, 0, seen)
    <3> PICK e \in Carts, k \in 1 .. MaxCartQty : v = <<e, k>>
      BY <2>9 DEF Promised
    <3>1. /\ cart'[e].owner = w /\ cart[e].owner = w
          /\ \/ k <= cart'[e].qty
             \/ \E s \in Requests : Promises(s, e)' /\ k <= request'[s].seen
      BY <2>5, <2>9 DEF Promised
    <3>2. e # c
      BY <2>5, <2>8, <3>1, CheckoutAssumption
    <3>3. \/ k <= cart[e].qty
          \/ \E s \in Requests : Promises(s, e) /\ k <= request[s].seen
      BY <2>5, <2>8, <3>1, <3>2
    <3> QED
      BY <3>1, <3>2, <3>3 DEF Promised, Units
  <2>10. \A w : w # u => OrderedUnits(w)' = OrderedUnits(w)
    <3>1. ASSUME NEW w, w # u, NEW p \in Orders
          PROVE  /\ (p \in Placed' /\ order'[p].owner = w) <=> (p \in Placed /\ order[p].owner = w)
                 /\ p \in Placed /\ order[p].owner = w => order'[p].qty = order[p].qty
      BY <2>4, <3>1 DEF Placed
    <3>2. Placed \subseteq Orders /\ Placed' \subseteq Orders
      BY DEF Placed
    <3> QED
      BY <3>1, <3>2 DEF OrderedUnits
  <2>11. OrderedUnits(u)' \subseteq (OrderedUnits(u) \ {}) \cup Units(o, 0, seen)
    <3>1. ASSUME NEW v \in OrderedUnits(u)' PROVE v \in OrderedUnits(u) \cup Units(o, 0, seen)
      <4> PICK p \in Placed', k \in 1 .. MaxCartQty : v = <<p, k>>
        BY <3>1 DEF OrderedUnits
      <4>1. p \in Orders /\ order'[p].status # "NONE" /\ order'[p].owner = u /\ k <= order'[p].qty
        BY <3>1 DEF OrderedUnits, Placed
      <4>2. CASE p = o
        <5>1. k \in 1 .. seen
          BY <2>4, <4>1, <4>2, CheckoutAssumption
        <5> QED
          BY <4>2, <5>1 DEF Units
      <4>3. CASE p # o
        BY <2>4, <4>1, <4>3 DEF OrderedUnits, Placed
      <4> QED
        BY <4>2, <4>3
    <3> QED
      BY <3>1
  <2>12. ASSUME NEW w \in Customers \ overlapped'
         PROVE  /\ IsFiniteSet(Promised(w)')
                /\ Cardinality(OrderedUnits(w)') + Cardinality(Promised(w)') <= asked'[w]
    <3>1. w \in Customers /\ w \notin overlapped /\ asked[w] \in Nat /\ asked'[w] = asked[w]
      BY <2>2 DEF OnceIInv, Rows
    <3>2. CASE w # u
      <4>1. Promised(w)' \subseteq Promised(w) /\ OrderedUnits(w)' = OrderedUnits(w)
        BY <2>9, <2>10, <3>1, <3>2
      <4> QED
        BY <3>1, <4>1, FewerUnits DEF OnceIInv
    <3>3. CASE w = u
      <4> DEFINE In == Units(o, 0, seen)
                 Out == Units(c, 0, seen)
      <4>1. Out \in SUBSET Promised(u) /\ Cardinality(Out) = seen
        <5>1. Promises(r, c) /\ cart[c].owner = u
          BY <2>1 DEF Promises, BelongsTo
        <5> QED
          BY <2>1, <5>1, ReadIsPromised
      <4>2. IsFiniteSet(In) /\ Cardinality(In) = seen
        <5>1. 0 \in Nat /\ 0 <= seen /\ seen - 0 = seen
          OBVIOUS
        <5>2. IsFiniteSet(In) /\ Cardinality(In) = seen - 0
          BY <5>1, UnitsCounted
        <5> QED
          BY <5>1, <5>2
      <4>3. /\ IsFiniteSet(Promised(u)) /\ IsFiniteSet(OrderedUnits(u))
            /\ Cardinality(OrderedUnits(u)) + Cardinality(Promised(u)) <= asked[u]
        BY <3>1, <3>3, OrderedFinite DEF OnceIInv, NothingTwice
      <4>4. Promised(u)' \subseteq (Promised(u) \ Out) \cup {}
        BY <2>1, <2>9
      <4>5. OrderedUnits(u)' \subseteq (OrderedUnits(u) \ {}) \cup In
        BY <2>11
      <4>6. IsFiniteSet({}) /\ Cardinality({}) = 0
        BY FS_EmptySet
      <4>7. /\ IsFiniteSet(Promised(u)')
            /\ Cardinality(Promised(u)') <= Cardinality(Promised(u)) - seen + 0
        BY <4>1, <4>3, <4>4, <4>6, CardinalityAfter
      <4>8. /\ IsFiniteSet(OrderedUnits(u)')
            /\ Cardinality(OrderedUnits(u)') <= Cardinality(OrderedUnits(u)) - 0 + seen
        BY <4>2, <4>3, <4>5, <4>6, CardinalityAfter
      <4>9. /\ Cardinality(Promised(u)) \in Nat /\ Cardinality(Promised(u)') \in Nat
            /\ Cardinality(OrderedUnits(u)) \in Nat /\ Cardinality(OrderedUnits(u)') \in Nat
        BY <4>3, <4>7, <4>8, FS_CardinalityType
      <4>10. Cardinality(OrderedUnits(u)') + Cardinality(Promised(u)') <= asked'[u]
        BY <3>1, <3>3, <4>3, <4>7, <4>8, <4>9
      <4> QED
        BY <3>3, <4>7, <4>10
    <3> QED
      BY <3>2, <3>3
  <2> QED
    BY <2>7, <2>12 DEF OnceIInv, NothingTwice
<1> QED
  BY <1>1, <1>2

------------------------------------------------------------------------------
(* No cart and no call at first. *)
LEMMA InitOnce == CheckoutInit => OnceIInv
<1> SUFFICES ASSUME CheckoutInit PROVE OnceIInv
  OBVIOUS
<1>1. Rows
  BY InitIInv DEF CheckoutIInv
<1>2. CartsHaveOwners
  BY CheckoutAssumption
     DEF CheckoutInit, NoRequest, CartsHaveOwners, KnowsItsCarts, OneOrderAtATime, Merging, Ordering
<1>3. ASSUME NEW u \in Customers
      PROVE  Promised(u) = {} /\ OrderedUnits(u) = {}
  <2>1. \A c \in Carts : cart[c].owner = NoCustomer
    BY DEF CheckoutInit
  <2>2. Placed = {}
    BY DEF CheckoutInit, Placed
  <2> QED
    BY <2>1, <2>2, CheckoutAssumption DEF Promised, OrderedUnits
<1>4. IsFiniteSet({}) /\ Cardinality({}) = 0
  BY FS_EmptySet
<1>5. ASSUME NEW u \in Customers
      PROVE  /\ IsFiniteSet(Promised(u))
             /\ Cardinality(OrderedUnits(u)) + Cardinality(Promised(u)) <= asked[u]
  <2>1. asked[u] = 0
    BY DEF CheckoutInit
  <2> QED
    BY <1>3, <1>4, <2>1
<1> QED
  BY <1>1, <1>2, <1>5 DEF OnceIInv, NothingTwice

(* Every step orders a unit once. *)
LEMMA NextOnce == OnceIInv /\ Rows' /\ [CheckoutNext]_checkoutVars => OnceIInv'
<1> SUFFICES ASSUME OnceIInv, Rows', [CheckoutNext]_checkoutVars PROVE OnceIInv'
  OBVIOUS
<1>1. ASSUME NEW r \in Requests, NEW u \in Customers,
             \/ BeginEdit(r, u)
             \/ BeginMerge(r, u)
             \/ \E k \in Keys \cup {NoKey}, coupon \in BOOLEAN : BeginCheckout(r, u, k, coupon)
      PROVE  OnceIInv'
  BY <1>1, EditOnce, BeginMergeOnce, BeginCheckoutOnce
<1>2. ASSUME NEW r \in Requests,
             \/ AddItem(r)
             \/ \E n \in 1 .. MaxCartQty : UpdateItemQuantity(r, n)
             \/ RemoveItem(r)
      PROVE  OnceIInv'
  <2>1. PICK n \in Nat : Write(r, n) /\ n <= MaxCartQty /\ request[r].op = "edit"
    <3>1. available \in Nat /\ MaxCartQty \in Nat
      BY CheckoutAssumption DEF OnceIInv, Rows
    <3>2. CASE AddItem(r)
      <4> DEFINE n == cart[request[r].cart].qty + 1
      <4>1. n \in Nat /\ n <= Smaller(available, MaxCartQty) /\ Write(r, n)
            /\ request[r].op = "edit"
        BY <3>2 DEF AddItem, Doing, OnceIInv, Rows, Prepared, CartRow
      <4> HIDE DEF n
      <4> QED
        BY <3>1, <4>1 DEF Smaller
    <3>3. CASE \E n \in 1 .. MaxCartQty : UpdateItemQuantity(r, n)
      BY <3>1, <3>3 DEF UpdateItemQuantity, Doing
    <3>4. CASE RemoveItem(r)
      BY <3>1, <3>4 DEF RemoveItem, Doing
    <3> QED
      BY <1>2, <3>2, <3>3, <3>4
  <2> QED
    BY <2>1, WriteOnce
<1>3. ASSUME NEW r \in Requests,
             \/ ResolveForMerge(r) \/ ReadTarget(r) \/ WriteMerge(r)
             \/ ResolveForCheckout(r) \/ EnterCheckout(r) \/ EvaluateCoupon(r) \/ Place(r)
             \/ Fail(r)
      PROVE  OnceIInv'
  <2>1. Fail(r) => Answered(r) /\ UNCHANGED <<cart, cookie, order, asked, overlapped>>
    BY DEF Fail
  <2> QED
    BY <1>3, <2>1, ResolveOnce, ReadTargetOnce, WriteMergeOnce, EnterCheckoutOnce, EvaluateOnce,
       PlaceOnce, AnswerOnce
<1>4. ASSUME NEW o \in Orders, Confirm(o) \/ Cancel(o)
      PROVE  OnceIInv'
  BY <1>4, ClosedOnce
<1>5. ASSUME NEW expired \in SUBSET Carts, SweepExpiredCarts(expired)
      PROVE  OnceIInv'
  BY <1>5, SweepOnce
<1>6. CASE UNCHANGED checkoutVars
  BY <1>6, OrdersOnce DEF checkoutVars, OrderedUnits, Placed
<1> QED
  BY <1>1, <1>2, <1>3, <1>4, <1>5, <1>6 DEF CheckoutNext

(* A unit that a customer has put in a cart is ordered once, whatever      *)
(* double clicks, tabs, retries and logins race for it, unless a merge     *)
(* wrote over a change: createCheckout() reads the cart under its advisory *)
(* lock and empties it in the transaction that creates the order, and      *)
(* mergeGuestCartIntoUser() closes the guest cart as it fills the other.   *)
THEOREM NothingOrderedTwice == CheckoutSpec => []OrderedOnce
<1>1. OnceIInv => OrderedOnce
  <2> SUFFICES ASSUME OnceIInv, NEW u \in Customers \ overlapped
               PROVE  Cardinality(OrderedUnits(u)) + Cardinality(UnitsInCarts(u)) <= asked[u]
    BY DEF OrderedOnce
  <2>1. /\ IsFiniteSet(Promised(u))
        /\ Cardinality(OrderedUnits(u)) + Cardinality(Promised(u)) <= asked[u]
        /\ asked[u] \in Nat
    BY DEF OnceIInv, NothingTwice, Rows
  <2>2. UnitsInCarts(u) \in SUBSET Promised(u)
    BY DEF UnitsInCarts, Promised
  <2>3. /\ Cardinality(UnitsInCarts(u)) <= Cardinality(Promised(u))
        /\ Cardinality(UnitsInCarts(u)) \in Nat /\ Cardinality(Promised(u)) \in Nat
        /\ Cardinality(OrderedUnits(u)) \in Nat
    BY <2>1, <2>2, FS_Subset, FS_CardinalityType, OrderedFinite
  <2> QED
    BY <2>1, <2>3
<1>2. CheckoutIInv => Rows
  BY DEF CheckoutIInv
<1> QED
  BY <1>1, <1>2, Inductive, InitOnce, NextOnce, PTL DEF CheckoutSpec

------------------------------------------------------------------------------
First(s) == CHOOSE x \in s : TRUE

(* One step of the sum of f over s, given the sums g of smaller sets. *)
Step(f, g, s) == IF s = {} THEN 0 ELSE f[First(s)] + g[s \ {First(s)}]
Sums(f, S, g) == g = [s \in SUBSET S |-> Step(f, g, s)]

(* The sum is read off such a table of sums, where there is one. *)
LEMMA SumIsOne ==
    ASSUME NEW f, NEW S, \E g : Sums(f, S, g)
    PROVE  \E g : Sums(f, S, g) /\ SumOf(f, S) = g[S]
<1> DEFINE h == CHOOSE g : Sums(f, S, g)
<1>1. Sums(f, S, h)
  OBVIOUS
<1>2. SumOf(f, S) = h[S]
  BY DEF SumOf, MapThenSumSet, MapThenFoldSet, Step, Sums, First
<1> QED
  BY <1>1, <1>2

(* Two tables have the same sums of the sets they share. *)
LEMMA SumsAgree ==
    ASSUME NEW f, NEW S, IsFiniteSet(S), NEW A \in SUBSET S, NEW B \in SUBSET S,
           NEW g, Sums(f, A, g), NEW h, Sums(f, B, h), NEW T, T \subseteq A, T \subseteq B
    PROVE  g[T] = h[T]
<1> DEFINE Bad == {U \in SUBSET S : U \subseteq A /\ U \subseteq B /\ g[U] # h[U]}
<1>1. SUFFICES ASSUME Bad # {} PROVE FALSE
  OBVIOUS
<1>2. PICK U \in Bad : \A V \in SUBSET U : V # U => V \notin Bad
  <2>1. Bad \in SUBSET (SUBSET S)
    OBVIOUS
  <2> HIDE DEF Bad
  <2> QED
    BY <1>1, <2>1, Smallest
<1>3. g[U] = Step(f, g, U) /\ h[U] = Step(f, h, U)
  BY <1>2 DEF Sums
<1>4. CASE U = {}
  BY <1>2, <1>3, <1>4 DEF Step
<1>5. CASE U # {}
  <2>1. First(U) \in U
    BY <1>5 DEF First
  <2>2. U \ {First(U)} \in SUBSET U /\ U \ {First(U)} # U
    BY <2>1
  <2>3. g[U \ {First(U)}] = h[U \ {First(U)}]
    BY <1>2, <2>2
  <2> QED
    BY <1>2, <1>3, <1>5, <2>3 DEF Step
<1> QED
  BY <1>4, <1>5

(* Every finite set has a table of sums: the one of a set extends those of *)
(* the smaller sets.                                                       *)
LEMMA SumsExist ==
    ASSUME NEW f, NEW S, IsFiniteSet(S)
    PROVE  \A T \in SUBSET S : \E g : Sums(f, T, g)
<1> DEFINE Bad == {U \in SUBSET S : ~ \E g : Sums(f, U, g)}
<1>1. SUFFICES ASSUME Bad # {} PROVE FALSE
  OBVIOUS
<1>2. PICK T \in Bad : \A U \in SUBSET T : U # T => U \notin Bad
  <2>1. Bad \in SUBSET (SUBSET S)
    OBVIOUS
  <2> HIDE DEF Bad
  <2> QED
    BY <1>1, <2>1, Smallest
<1>3. T \in SUBSET S /\ ~ \E g : Sums(f, T, g)
  BY <1>2
<1>4. ASSUME NEW U \in SUBSET T, U # T
      PROVE  \E g : Sums(f, U, g) /\ SumOf(f, U) = g[U]
  <2>1. \E g : Sums(f, U, g)
    BY <1>2, <1>3, <1>4
  <2> QED
    BY <2>1, SumIsOne
<1>5. ASSUME NEW U \in SUBSET T, U # T, U # {}
      PROVE  SumOf(f, U) = f[First(U)] + SumOf(f, U \ {First(U)})
  <2> DEFINE V == U \ {First(U)}
  <2>1. First(U) \in U
    BY <1>5 DEF First
  <2>2. V \in SUBSET U /\ V \in SUBSET T /\ V # T /\ V \in SUBSET S /\ U \in SUBSET S
    BY <1>3, <1>5, <2>1
  <2>3. PICK g : Sums(f, U, g) /\ SumOf(f, U) = g[U]
    BY <1>4, <1>5
  <2>4. PICK h : Sums(f, V, h) /\ SumOf(f, V) = h[V]
    BY <1>4, <2>2
  <2>5. g[V] = h[V]
    <3>1. V \subseteq U /\ V \subseteq V
      OBVIOUS
    <3> HIDE DEF V
    <3> QED
      BY <2>2, <2>3, <2>4, <3>1, SumsAgree
  <2>6. g[U] = f[First(U)] + g[V]
    BY <1>5, <2>3 DEF Sums, Step
  <2> QED
    BY <2>3, <2>4, <2>5, <2>6
<1>6. SumOf(f, {}) = 0 \/ T = {}
  <2>1. ASSUME T # {} PROVE SumOf(f, {}) = 0
    <3>1. PICK g : Sums(f, {}, g) /\ SumOf(f, {}) = g[{}]
      BY <1>4, <2>1
    <3> QED
      BY <3>1 DEF Sums, Step
  <2> QED
    BY <2>1
<1> DEFINE last == IF T = {} THEN 0 ELSE f[First(T)] + SumOf(f, T \ {First(T)})
           g == [s \in SUBSET T |-> IF s = T THEN last ELSE SumOf(f, s)]
<1>7. ASSUME NEW U \in SUBSET T PROVE g[U] = Step(f, g, U)
  <2>1. CASE U = {}
    BY <1>6, <2>1 DEF Step
  <2>2. CASE U # {}
    <3>1. First(U) \in U
      BY <2>2 DEF First
    <3>2. U \ {First(U)} \in SUBSET T /\ U \ {First(U)} # T
      BY <3>1
    <3>3. g[U \ {First(U)}] = SumOf(f, U \ {First(U)})
      BY <3>2
    <3>4. g[U] = f[First(U)] + SumOf(f, U \ {First(U)})
      BY <1>5, <2>2
    <3> QED
      BY <2>2, <3>3, <3>4 DEF Step
  <2> QED
    BY <2>1, <2>2
<1>8. Sums(f, T, g)
  <2>1. g = [s \in SUBSET T |-> g[s]]
    OBVIOUS
  <2> HIDE DEF g
  <2> QED
    BY <1>7, <2>1 DEF Sums
<1> QED
  BY <1>3, <1>8

(* The sum over a set that is not empty, from one that has a member less. *)
LEMMA SumStep ==
    ASSUME NEW f, NEW S, IsFiniteSet(S)
    PROVE  /\ SumOf(f, {}) = 0
           /\ S # {} => First(S) \in S /\ SumOf(f, S) = f[First(S)] + SumOf(f, S \ {First(S)})
<1>1. \A T \in SUBSET S : \E g : Sums(f, T, g) /\ SumOf(f, T) = g[T]
  BY SumsExist, SumIsOne
<1>2. SumOf(f, {}) = 0
  <2>1. PICK g : Sums(f, {}, g) /\ SumOf(f, {}) = g[{}]
    BY <1>1
  <2> QED
    BY <2>1 DEF Sums, Step
<1>3. ASSUME S # {}
      PROVE  First(S) \in S /\ SumOf(f, S) = f[First(S)] + SumOf(f, S \ {First(S)})
  <2> DEFINE V == S \ {First(S)}
  <2>1. First(S) \in S
    BY <1>3 DEF First
  <2>2. PICK g : Sums(f, S, g) /\ SumOf(f, S) = g[S]
    BY <1>1
  <2>3. PICK h : Sums(f, V, h) /\ SumOf(f, V) = h[V]
    BY <1>1
  <2>4. g[V] = h[V]
    BY <2>2, <2>3, SumsAgree
  <2>5. g[S] = f[First(S)] + g[V]
    BY <1>3, <2>2 DEF Sums, Step
  <2> QED
    BY <2>1, <2>2, <2>3, <2>4, <2>5
<1> QED
  BY <1>2, <1>3

(* In whatever order the members are added up, the sum is the same. *)
LEMMA SumGrows ==
    ASSUME NEW S, IsFiniteSet(S), NEW f, \A x \in S : f[x] \in Int
    PROVE  \A T \in SUBSET S :
              /\ SumOf(f, T) \in Int
              /\ \A x \in S \ T : SumOf(f, T \cup {x}) = SumOf(f, T) + f[x]
<1> DEFINE Right(T) == /\ SumOf(f, T) \in Int
                       /\ \A x \in S \ T : SumOf(f, T \cup {x}) = SumOf(f, T) + f[x]
           Bad == {U \in SUBSET S : ~ Right(U)}
<1>1. SUFFICES ASSUME Bad # {} PROVE FALSE
  OBVIOUS
<1>2. PICK T \in Bad : \A U \in SUBSET T : U # T => U \notin Bad
  <2>1. Bad \in SUBSET (SUBSET S)
    OBVIOUS
  <2> HIDE DEF Bad
  <2> QED
    BY <1>1, <2>1, Smallest
<1>3. /\ T \in SUBSET S /\ ~ Right(T)
      /\ \A U \in SUBSET T : U # T => Right(U)
  BY <1>2
<1>4. \A U \in SUBSET S : IsFiniteSet(U)
  BY FS_Subset
<1> HIDE DEF Bad
<1>5. SumOf(f, T) \in Int
  <2>1. CASE T = {}
    <3>1. SumOf(f, {}) = 0
      BY SumStep
    <3> QED
      BY <2>1, <3>1
  <2>2. CASE T # {}
    <3>1. First(T) \in T /\ SumOf(f, T) = f[First(T)] + SumOf(f, T \ {First(T)})
      BY <1>3, <1>4, <2>2, SumStep
    <3>2. T \ {First(T)} \in SUBSET T /\ T \ {First(T)} # T
      BY <3>1
    <3>3. SumOf(f, T \ {First(T)}) \in Int
      BY <1>3, <3>2
    <3> QED
      BY <1>3, <3>1, <3>3
  <2> QED
    BY <2>1, <2>2
<1>6. ASSUME NEW x \in S \ T
      PROVE  SumOf(f, T \cup {x}) = SumOf(f, T) + f[x]
  <2> DEFINE W == T \cup {x}
             y == First(W)
  <2>1. /\ W \in SUBSET S /\ W # {} /\ y \in W
        /\ SumOf(f, W) = f[y] + SumOf(f, W \ {y})
    BY <1>3, <1>4, SumStep
  <2> HIDE DEF y
  <2>2. CASE y = x
    <3>1. W \ {y} = T /\ f[x] \in Int
      BY <2>2
    <3>2. SumOf(f, W) = f[x] + SumOf(f, T)
      BY <2>1, <2>2, <3>1
    <3> QED
      BY <1>5, <3>1, <3>2
  <2>3. CASE y # x
    <3> DEFINE U == T \ {y}
    <3>1. /\ y \in T /\ U \in SUBSET T /\ U # T /\ x \in S \ U /\ y \in S \ U
          /\ U \cup {y} = T /\ U \cup {x} = W \ {y}
      BY <1>3, <2>1, <2>3
    <3>2. Right(U)
      BY <1>3, <3>1
    <3>3. /\ SumOf(f, T) = SumOf(f, U) + f[y]
          /\ SumOf(f, W \ {y}) = SumOf(f, U) + f[x]
          /\ SumOf(f, U) \in Int
      BY <3>1, <3>2
    <3>4. f[x] \in Int /\ f[y] \in Int
      BY <3>1
    <3> HIDE DEF U, W
    <3>5. SumOf(f, W) = SumOf(f, T) + f[x]
      BY <2>1, <3>3, <3>4
    <3> QED
      BY <3>5 DEF W
  <2> QED
    BY <2>2, <2>3
<1> QED
  BY <1>3, <1>5, <1>6

(* An inequality that holds of every member holds of the sums. *)
LEMMA SumsBound ==
    ASSUME NEW S, IsFiniteSet(S), NEW p \in Int, NEW q \in Int, NEW r \in Int,
           NEW a, NEW b, NEW t,
           \A x \in S : /\ a[x] \in Int /\ b[x] \in Int /\ t[x] \in Int
                        /\ p * a[x] <= q * b[x] + r * t[x]
    PROVE  /\ SumOf(a, S) \in Int /\ SumOf(b, S) \in Int /\ SumOf(t, S) \in Int
           /\ p * SumOf(a, S) <= q * SumOf(b, S) + r * SumOf(t, S)
<1> DEFINE Good == {T \in SUBSET S : p * SumOf(a, T) <= q * SumOf(b, T) + r * SumOf(t, T)}
<1>1. ASSUME NEW T \in SUBSET S
      PROVE  /\ SumOf(a, T) \in Int /\ SumOf(b, T) \in Int /\ SumOf(t, T) \in Int
             /\ \A x \in S \ T : /\ SumOf(a, T \cup {x}) = SumOf(a, T) + a[x]
                                 /\ SumOf(b, T \cup {x}) = SumOf(b, T) + b[x]
                                 /\ SumOf(t, T \cup {x}) = SumOf(t, T) + t[x]
  BY SumGrows
<1>2. {} \in Good
  <2>1. SumOf(a, {}) = 0 /\ SumOf(b, {}) = 0 /\ SumOf(t, {}) = 0
    BY SumStep, FS_EmptySet
  <2> QED
    BY <2>1
<1>3. ASSUME NEW T \in SUBSET S, NEW x \in S \ T, T \in Good
      PROVE  T \cup {x} \in Good
  <2>1. ASSUME NEW A \in Int, NEW B \in Int, NEW C \in Int, NEW u \in Int, NEW v \in Int, NEW w \in Int,
               p * A <= q * B + r * C, p * u <= q * v + r * w
        PROVE  p * (A + u) <= q * (B + v) + r * (C + w)
    <3>1. /\ p * (A + u) = p * A + p * u
          /\ q * (B + v) = q * B + q * v
          /\ r * (C + w) = r * C + r * w
      OBVIOUS
    <3>2. /\ p * A \in Int /\ p * u \in Int /\ q * B \in Int /\ q * v \in Int
          /\ r * C \in Int /\ r * w \in Int
      OBVIOUS
    <3> QED
      BY <2>1, <3>1, <3>2
  <2> QED
    BY <1>1, <1>3, <2>1
<1>4. S \in Good
  <2> HIDE DEF Good
  <2> QED
    BY <1>2, <1>3, SetsGrow
<1> QED
  BY <1>1, <1>4

(* Some members make no more than all do, if none makes less than nothing. *)
LEMMA SumOfSome ==
    ASSUME NEW S, IsFiniteSet(S), NEW f, \A x \in S : f[x] \in Nat, NEW A \in SUBSET S
    PROVE  /\ SumOf(f, S) \in Nat /\ SumOf(f, A) \in Nat
           /\ SumOf(f, A) <= SumOf(f, S)
<1> DEFINE Good == {T \in SUBSET S : /\ SumOf(f, T) \in Nat /\ SumOf(f, T \cap A) \in Nat
                                     /\ SumOf(f, T \cap A) <= SumOf(f, T)}
<1>1. ASSUME NEW T \in SUBSET S, NEW x \in S \ T
      PROVE  SumOf(f, T \cup {x}) = SumOf(f, T) + f[x]
  BY SumGrows
<1>2. {} \in Good
  <2>1. SumOf(f, {}) = 0 /\ {} \cap A = {}
    BY SumStep, FS_EmptySet
  <2> QED
    BY <2>1
<1>3. ASSUME NEW T \in SUBSET S, NEW x \in S \ T, T \in Good
      PROVE  T \cup {x} \in Good
  <2>1. CASE x \in A
    <3>1. /\ (T \cup {x}) \cap A = (T \cap A) \cup {x}
          /\ T \cap A \in SUBSET S /\ x \in S \ (T \cap A)
      BY <2>1
    <3>2. SumOf(f, (T \cup {x}) \cap A) = SumOf(f, T \cap A) + f[x]
      BY <1>1, <3>1
    <3> QED
      BY <1>1, <1>3, <3>2
  <2>2. CASE x \notin A
    <3>1. (T \cup {x}) \cap A = T \cap A
      BY <2>2
    <3>2. SumOf(f, T \cup {x}) = SumOf(f, T) + f[x] /\ f[x] \in Nat
      BY <1>1
    <3> QED
      BY <1>3, <3>1, <3>2
  <2> QED
    BY <2>1, <2>2
<1>4. S \in Good
  <2> HIDE DEF Good
  <2> QED
    BY <1>2, <1>3, SetsGrow
<1>5. S \cap A = A
  OBVIOUS
<1> QED
  BY <1>4, <1>5

(* A sum of nothings. *)
LEMMA SumOfNothing ==
    ASSUME NEW S, IsFiniteSet(S), NEW f, \A x \in S : f[x] = 0
    PROVE  SumOf(f, S) = 0
<1> DEFINE Good == {T \in SUBSET S : SumOf(f, T) = 0}
<1>1. {} \in Good
  BY SumStep, FS_EmptySet
<1>2. ASSUME NEW T \in SUBSET S, NEW x \in S \ T, T \in Good
      PROVE  T \cup {x} \in Good
  <2>1. SumOf(f, T \cup {x}) = SumOf(f, T) + f[x]
    BY SumGrows
  <2> QED
    BY <1>2, <2>1
<1>3. S \in Good
  <2> HIDE DEF Good
  <2> QED
    BY <1>1, <1>2, SetsGrow
<1> QED
  BY <1>3

------------------------------------------------------------------------------
(* Whole numbers divided. *)
LEMMA Divided ==
    ASSUME NEW x \in Int, NEW n \in Nat, n > 0
    PROVE  /\ x \div n \in Int /\ x % n \in Int
           /\ x = n * (x \div n) + (x % n)
           /\ 0 <= x % n /\ x % n < n
OBVIOUS

(* Rounding is off by a half at most. *)
LEMMA RoundedBy ==
    ASSUME NEW x \in Int, NEW n \in Nat, n > 0
    PROVE  /\ Rounded(x, n) \in Int
           /\ 2 * (n * Rounded(x, n)) <= 2 * x + n
           /\ 2 * (n * Rounded(x, n)) > 2 * x - n
<1>1. 2 * x + n \in Int /\ 2 * n \in Nat /\ 2 * n > 0
  OBVIOUS
<1>2. /\ Rounded(x, n) \in Int /\ (2 * x + n) % (2 * n) \in Int
      /\ 2 * x + n = (2 * n) * Rounded(x, n) + ((2 * x + n) % (2 * n))
      /\ 0 <= (2 * x + n) % (2 * n) /\ (2 * x + n) % (2 * n) < 2 * n
  BY <1>1, Divided DEF Rounded
<1>3. (2 * n) * Rounded(x, n) = 2 * (n * Rounded(x, n)) /\ n * Rounded(x, n) \in Int
  BY <1>2
<1> QED
  BY <1>2, <1>3

(* Rounding keeps what is not less than nothing so. *)
LEMMA RoundedUp ==
    ASSUME NEW x \in Nat, NEW n \in Nat, n > 0
    PROVE  Rounded(x, n) \in Nat
<1>1. /\ Rounded(x, n) \in Int
      /\ 2 * (n * Rounded(x, n)) > 2 * x - n
  BY RoundedBy
<1>2. SUFFICES ASSUME Rounded(x, n) <= -1 PROVE FALSE
  BY <1>1
<1>3. ASSUME NEW y \in Int, y <= -1 PROVE n * y <= -n /\ n * y \in Int
  BY <1>3
<1>4. n * Rounded(x, n) <= -n /\ n * Rounded(x, n) \in Int
  BY <1>1, <1>2, <1>3
<1> QED
  BY <1>1, <1>4

(* A factor that is not zero can be taken out. *)
LEMMA DividedBy ==
    ASSUME NEW n \in Nat, n > 0, NEW x \in Int, NEW y \in Int, n * x <= n * y
    PROVE  x <= y
<1>1. SUFFICES ASSUME x >= y + 1 PROVE FALSE
  OBVIOUS
<1>2. PICK d \in Nat : x = y + 1 + d
  <2>1. x - (y + 1) \in Nat /\ x = y + 1 + (x - (y + 1))
    BY <1>1
  <2> QED
    BY <2>1
<1>3. n * x = n * y + n + n * d /\ n * d >= 0 /\ n * d \in Int /\ n * y \in Int
  BY <1>2
<1> QED
  BY <1>3


------------------------------------------------------------------------------
Amounts == [subtotal : Nat, shipping : Nat, discount : Nat, total : Nat]
Returned == [units : Nat, sum : Nat, times : Nat]

PriceRows ==
    /\ price \in [lines : Basket, promo : Promotions, placed : BOOLEAN, row : Amounts]
    /\ refunded \in [LineIds -> Returned]

(* What came back for some units of a line: their price, or their share of *)
(* what was paid but for half a cent each time.                            *)
GivenBack(line, row, back) ==
    LET goods == line.unit * back.units
        paid == row.subtotal - row.discount
    IN  IF row.discount = 0 THEN back.sum = goods
        ELSE /\ 2 * (row.subtotal * back.sum) <= 2 * (paid * goods) + row.subtotal * back.times
             /\ 2 * (row.subtotal * back.sum) >= 2 * (paid * goods) - row.subtotal * back.times

NothingYet ==
    /\ price.row = NoRow
    /\ \A l \in LineIds : refunded[l] = [units |-> 0, sum |-> 0, times |-> 0]

AsAccepted ==
    /\ \E s \in Shippings : /\ Accepted(price.lines, price.promo, s)
                            /\ price.row = OrderRowOf(price.lines, price.promo, s)
    /\ \A l \in LineIds : /\ refunded[l].units <= price.lines[l].qty
                          /\ GivenBack(price.lines[l], price.row, refunded[l])

PricingIInv == PriceRows /\ (price.placed => AsAccepted) /\ (~ price.placed => NothingYet)

------------------------------------------------------------------------------
(* What the lines of a basket come to, and those a promotion is about. *)
LEMMA BasketCosts ==
    ASSUME NEW lines \in Basket, NEW promo
    PROVE  /\ \A l \in LineIds : /\ lines[l].unit \in Nat /\ lines[l].qty \in Nat
                                 /\ LineTotals(lines)[l] = lines[l].unit * lines[l].qty
                                 /\ LineTotals(lines)[l] \in Nat
           /\ Subtotal(lines) \in Nat /\ EligibleAmount(lines, promo) \in Nat
           /\ EligibleAmount(lines, promo) <= Subtotal(lines)
<1>1. ASSUME NEW l \in LineIds
      PROVE  /\ lines[l].unit \in Nat /\ lines[l].qty \in Nat
             /\ LineTotals(lines)[l] = lines[l].unit * lines[l].qty
             /\ LineTotals(lines)[l] \in Nat
  <2>1. lines[l] \in [unit : Prices, qty : Quantities, labels : (SUBSET Labels) \ {{}}]
    BY DEF Basket
  <2>2. lines[l].unit \in Nat /\ lines[l].qty \in Nat
    BY <2>1, PricingAssumption
  <2>3. LineTotals(lines)[l] = lines[l].unit * lines[l].qty
    BY DEF LineTotals, LineTotal
  <2>4. \A m, n \in Nat : m * n \in Nat
    OBVIOUS
  <2> QED
    BY <2>2, <2>3, <2>4
<1> DEFINE some == {l \in LineIds : IsLineEligible(lines[l], promo)}
<1>2. some \in SUBSET LineIds
  OBVIOUS
<1>3. /\ SumOf(LineTotals(lines), LineIds) \in Nat /\ SumOf(LineTotals(lines), some) \in Nat
      /\ SumOf(LineTotals(lines), some) <= SumOf(LineTotals(lines), LineIds)
  <2> HIDE DEF some
  <2> QED
    BY <1>1, <1>2, SumOfSome, PricingAssumption
<1> QED
  BY <1>1, <1>3 DEF Subtotal, EligibleAmount

(* No discount is more than the goods it is for. *)
LEMMA DiscountBounded ==
    ASSUME NEW lines \in Basket, NEW promo \in Promotions, Discount(lines, promo) # Refused
    PROVE  /\ Discount(lines, promo) \in Nat
           /\ Discount(lines, promo) <= 100 * EligibleAmount(lines, promo)
<1> DEFINE e == EligibleAmount(lines, promo)
<1>1. e \in Nat
  BY BasketCosts
<1>2. promo \in Promotion
  BY PricingAssumption
<1>3. promo.value \in Nat /\ promo.most \in Nat \cup {-1}
  BY <1>2 DEF Promotion
<1>4. e * promo.value \in Nat
  <2>1. \A m, n \in Nat : m * n \in Nat
    OBVIOUS
  <2> HIDE DEF e
  <2> QED
    BY <1>1, <1>3, <2>1
<1>5. PICK raw \in Nat : \/ Discount(lines, promo) = 0
                         \/ Discount(lines, promo) = Greater(0, Lesser(raw, 100 * e))
  <2> DEFINE raw == IF promo.type = "FIXED_AMOUNT" THEN 100 * promo.value
                    ELSE IF promo.most = -1 THEN e * promo.value
                    ELSE Lesser(e * promo.value, 100 * promo.most)
  <2>1. raw \in Nat
    BY <1>3, <1>4 DEF Lesser
  <2>2. \/ Discount(lines, promo) = 0
        \/ Discount(lines, promo) = Greater(0, Lesser(raw, 100 * e))
    BY DEF Discount, Refused
  <2> QED
    BY <2>1, <2>2
<1> QED
  BY <1>1, <1>5 DEF Greater, Lesser

(* The row of an order that is accepted. *)
LEMMA RowAddsUp ==
    ASSUME NEW lines \in Basket, NEW promo \in Promotions, NEW s \in Shippings,
           Accepted(lines, promo, s), NEW row, row = OrderRowOf(lines, promo, s)
    PROVE  /\ row \in Amounts
           /\ row.subtotal = Subtotal(lines)
           /\ row.discount <= EligibleAmount(lines, promo)
           /\ row.discount <= row.subtotal
           /\ row.subtotal + row.shipping - row.discount - row.total \in -1 .. 1
<1> DEFINE d == Discount(lines, promo)
           goods == Subtotal(lines)
           t == 100 * (goods + s) - d
<1>1. /\ goods \in Nat /\ EligibleAmount(lines, promo) \in Nat
      /\ EligibleAmount(lines, promo) <= goods
  BY BasketCosts
<1>2. s \in Nat
  BY PricingAssumption
<1>3. d \in Nat /\ d <= 100 * EligibleAmount(lines, promo) /\ 100 * (goods + s) > d
  BY DiscountBounded DEF Accepted
<1>4. row = [subtotal |-> goods, shipping |-> s, discount |-> Rounded(d, 100), total |-> Rounded(t, 100)]
  BY DEF OrderRowOf
<1> HIDE DEF d, goods
<1>5. t \in Nat
  BY <1>1, <1>2, <1>3
<1>6. /\ Rounded(d, 100) \in Nat
      /\ 2 * (100 * Rounded(d, 100)) <= 2 * d + 100
      /\ 2 * (100 * Rounded(d, 100)) > 2 * d - 100
  BY <1>3, RoundedUp, RoundedBy
<1>7. /\ Rounded(t, 100) \in Nat
      /\ 2 * (100 * Rounded(t, 100)) <= 2 * t + 100
      /\ 2 * (100 * Rounded(t, 100)) > 2 * t - 100
  <2> HIDE DEF t
  <2> QED
    BY <1>5, RoundedUp, RoundedBy
<1>8. row \in Amounts
  BY <1>1, <1>2, <1>4, <1>6, <1>7 DEF Amounts
<1>9. Rounded(d, 100) <= EligibleAmount(lines, promo)
  BY <1>1, <1>3, <1>6
<1>10. goods + s - Rounded(d, 100) - Rounded(t, 100) \in -1 .. 1
  BY <1>1, <1>2, <1>3, <1>6, <1>7
<1> QED
  BY <1>1, <1>4, <1>6, <1>8, <1>9, <1>10 DEF goods

(* The refund of n units of a line is off by half a cent at most. *)
LEMMA RefundIsShare ==
    ASSUME NEW line, line.unit \in Nat, NEW row \in Amounts, row.discount <= row.subtotal,
           NEW n \in Nat, NEW cents \in ItemRefunds(line, row, n)
    PROVE  /\ cents \in Nat
           /\ GivenBack(line, row, [units |-> n, sum |-> cents, times |-> 1])
<1> DEFINE S == row.subtotal
           P == row.subtotal - row.discount
           goods == line.unit * n
           net == goods * P
<1>1. /\ S \in Nat /\ row.discount \in Nat /\ P \in Nat
  BY DEF Amounts
<1>2. \A x, y \in Nat : x * y \in Nat /\ x * y = y * x
  OBVIOUS
<1>3. goods \in Nat
  BY <1>2
<1>4. net \in Nat /\ net = P * goods
  <2> HIDE DEF P, goods
  <2> QED
    BY <1>1, <1>2, <1>3
<1>5. CASE row.discount = 0
  <2>1. cents = goods
    BY <1>5 DEF ItemRefunds
  <2> QED
    BY <1>3, <1>5, <2>1 DEF GivenBack
<1>6. CASE row.discount > 0
  <2>1. S > 0
    BY <1>1, <1>6
  <2>2. \/ cents = Rounded(net, S)
        \/ cents = net \div S /\ (2 * net) % (2 * S) = S
    BY <1>1, <1>6 DEF ItemRefunds
  <2>3. SUFFICES /\ cents \in Nat
                 /\ 2 * (S * cents) <= 2 * (P * goods) + S * 1
                 /\ 2 * (S * cents) >= 2 * (P * goods) - S * 1
    BY <1>6 DEF GivenBack
  <2> HIDE DEF S, P, goods, net
  <2>4. CASE cents = Rounded(net, S)
    <3>1. /\ Rounded(net, S) \in Nat
          /\ 2 * (S * Rounded(net, S)) <= 2 * net + S
          /\ 2 * (S * Rounded(net, S)) > 2 * net - S
      <4>1. net \in Nat /\ net \in Int /\ S \in Nat
        BY <1>1, <1>4
      <4> QED
        BY <2>1, <4>1, RoundedUp, RoundedBy
    <3>2. /\ cents \in Nat
          /\ 2 * (S * cents) <= 2 * net + S /\ 2 * (S * cents) > 2 * net - S
      BY <2>4, <3>1
    <3>3. S * cents \in Nat
      BY <1>1, <1>2, <3>2
    <3> QED
      BY <1>1, <1>3, <1>4, <3>2, <3>3
  <2>5. CASE cents = net \div S /\ (2 * net) % (2 * S) = S
    <3>1. /\ cents \in Int /\ net % S \in Int
          /\ net = S * cents + (net % S) /\ 0 <= net % S /\ net % S < S
      <4>1. /\ net \div S \in Int /\ net % S \in Int
            /\ net = S * (net \div S) + (net % S) /\ 0 <= net % S /\ net % S < S
        <5>1. net \in Int /\ S \in Nat
          BY <1>1, <1>4
        <5> QED
          BY <2>1, <5>1, Divided
      <4> QED
        BY <2>5, <4>1
    <3>2. cents \in Nat /\ S * cents \in Nat
      <4>1. cents >= 0
        <5>1. SUFFICES ASSUME cents <= -1 PROVE FALSE
          BY <3>1
        <5>2. ASSUME NEW y \in Int, y <= -1 PROVE S * y <= -S /\ S * y \in Int
          BY <1>1, <5>2
        <5>3. S * cents <= -S /\ S * cents \in Int
          BY <3>1, <5>1, <5>2
        <5> QED
          BY <1>1, <1>4, <3>1, <5>3
      <4> QED
        BY <1>1, <1>2, <3>1, <4>1
    <3>3. 2 * (net % S) = S
      <4> DEFINE h == (2 * net) \div (2 * S)
      <4>1. h \in Int /\ 2 * net = (2 * S) * h + S
        <5>1. 2 * net \in Int /\ 2 * S \in Nat /\ 2 * S > 0
          BY <1>1, <1>4, <2>1
        <5> QED
          BY <2>5, <5>1, Divided
      <4> HIDE DEF h
      <4>2. S * h \in Int /\ (2 * S) * h = 2 * (S * h) /\ S * (h - cents) = S * h - S * cents
        BY <1>1, <3>1, <4>1
      <4>3. PICK k \in Int : k = h - cents
        BY <3>1, <4>1
      <4>4. 2 * (net % S) = 2 * (S * k) + S /\ S * k \in Int
        BY <1>1, <1>4, <3>1, <3>2, <4>1, <4>2, <4>3
      <4>5. k = 0
        <5>1. ASSUME k >= 1 PROVE FALSE
          <6>1. S * k >= S
            BY <1>1, <4>3, <5>1
          <6> QED
            BY <1>1, <2>1, <3>1, <4>4, <6>1
        <5>2. ASSUME k <= -1 PROVE FALSE
          <6>1. S * k <= -S
            BY <1>1, <4>3, <5>2
          <6> QED
            BY <1>1, <2>1, <3>1, <4>4, <6>1
        <5> QED
          BY <5>1, <5>2
      <4>6. S * 0 = 0
        BY <1>1
      <4> QED
        BY <1>1, <4>4, <4>5, <4>6
    <3> QED
      BY <1>1, <1>3, <1>4, <3>1, <3>2, <3>3
  <2> QED
    BY <2>2, <2>4, <2>5
<1> QED
  BY <1>1, <1>5, <1>6

(* Refunds of portions of a line are as good as a refund of them together. *)
LEMMA PortionsAddUp ==
    ASSUME NEW line, line.unit \in Nat, NEW row \in Amounts,
           NEW back \in Returned, NEW more \in Returned,
           GivenBack(line, row, back), GivenBack(line, row, more)
    PROVE  GivenBack(line, row, [units |-> back.units + more.units, sum |-> back.sum + more.sum,
                                 times |-> back.times + more.times])
<1> DEFINE S == row.subtotal
           P == row.subtotal - row.discount
           u == line.unit
<1>1. S \in Int /\ P \in Int /\ u \in Int
  BY DEF Amounts
<1>2. /\ back.units \in Int /\ back.sum \in Int /\ back.times \in Int
      /\ more.units \in Int /\ more.sum \in Int /\ more.times \in Int
  BY DEF Returned
<1>3. \A x, y, z \in Int : x * y \in Int /\ x * (y + z) = x * y + x * z
  OBVIOUS
<1>4. u * (back.units + more.units) = u * back.units + u * more.units
  <2> HIDE DEF u
  <2> QED
    BY <1>1, <1>2, <1>3
<1>5. CASE row.discount = 0
  BY <1>4, <1>5 DEF GivenBack
<1>6. CASE row.discount # 0
  <2>1. /\ 2 * (S * back.sum) <= 2 * (P * (u * back.units)) + S * back.times
        /\ 2 * (S * back.sum) >= 2 * (P * (u * back.units)) - S * back.times
        /\ 2 * (S * more.sum) <= 2 * (P * (u * more.units)) + S * more.times
        /\ 2 * (S * more.sum) >= 2 * (P * (u * more.units)) - S * more.times
    BY <1>6 DEF GivenBack
  <2>2. SUFFICES
        /\ 2 * (S * (back.sum + more.sum)) <= 2 * (P * (u * (back.units + more.units))) + S * (back.times + more.times)
        /\ 2 * (S * (back.sum + more.sum)) >= 2 * (P * (u * (back.units + more.units))) - S * (back.times + more.times)
    BY <1>6 DEF GivenBack
  <2> HIDE DEF S, P, u
  <2>3. /\ S * (back.sum + more.sum) = S * back.sum + S * more.sum
        /\ S * (back.times + more.times) = S * back.times + S * more.times
        /\ u * back.units \in Int /\ u * more.units \in Int
    BY <1>1, <1>2, <1>3
  <2>4. P * (u * (back.units + more.units)) = P * (u * back.units) + P * (u * more.units)
    BY <1>1, <1>3, <1>4, <2>3
  <2>5. /\ S * back.sum \in Int /\ S * more.sum \in Int
        /\ S * back.times \in Int /\ S * more.times \in Int
        /\ P * (u * back.units) \in Int /\ P * (u * more.units) \in Int
    BY <1>1, <1>2, <1>3, <2>3
  <2> QED
    BY <2>1, <2>3, <2>4, <2>5
<1> QED
  BY <1>5, <1>6

(* Before an order is placed nothing is paid and nothing comes back. *)
LEMMA InitPriced == PricingInit => PricingIInv
<1> SUFFICES ASSUME PricingInit PROVE PricingIInv
  OBVIOUS
<1>1. NoRow \in Amounts
  BY DEF NoRow, Amounts
<1>2. price \in [lines : Basket, promo : Promotions, placed : {FALSE}, row : {NoRow}]
  BY DEF PricingInit
<1>3. /\ price \in [lines : Basket, promo : Promotions, placed : BOOLEAN, row : Amounts]
      /\ price.row = NoRow /\ price.placed = FALSE
  BY <1>1, <1>2
<1>4. refunded = [l \in LineIds |-> [units |-> 0, sum |-> 0, times |-> 0]]
  BY DEF PricingInit
<1>5. refunded \in [LineIds -> Returned]
  BY <1>4 DEF Returned
<1> QED
  BY <1>3, <1>4, <1>5 DEF PricingIInv, PriceRows, NothingYet

(* An order is placed with the row of an accepted checkout. *)
LEMMA PlaceOrderPriced ==
    ASSUME PricingIInv, NEW s \in Shippings, PlaceOrder(s)
    PROVE  PricingIInv'
<1> DEFINE row == OrderRowOf(price.lines, price.promo, s)
<1>1. /\ price \in [lines : Basket, promo : Promotions, placed : BOOLEAN, row : Amounts]
      /\ refunded \in [LineIds -> Returned] /\ ~ price.placed
      /\ Accepted(price.lines, price.promo, s)
      /\ price' = [price EXCEPT !.placed = TRUE, !.row = row]
      /\ refunded' = refunded
  BY DEF PlaceOrder, PricingIInv, PriceRows
<1>2. price.lines \in Basket /\ price.promo \in Promotions
  BY <1>1
<1>3. row \in Amounts
  BY <1>1, <1>2, RowAddsUp
<1> HIDE DEF row
<1>4. /\ price' \in [lines : Basket, promo : Promotions, placed : BOOLEAN, row : Amounts]
      /\ price'.lines = price.lines /\ price'.promo = price.promo /\ price'.placed = TRUE
      /\ price'.row = row
  BY <1>1, <1>3
<1>5. \A l \in LineIds : refunded'[l] = [units |-> 0, sum |-> 0, times |-> 0]
  BY <1>1 DEF PricingIInv, NothingYet
<1>6. ASSUME NEW l \in LineIds
      PROVE  /\ refunded'[l].units <= price'.lines[l].qty
             /\ GivenBack(price'.lines[l], price'.row, refunded'[l])
  <2>1. price.lines[l].unit \in Nat /\ price.lines[l].qty \in Nat
    BY <1>2, BasketCosts
  <2>2. row.subtotal \in Nat /\ row.discount \in Nat
    BY <1>3 DEF Amounts
  <2>3. price.lines[l].unit * 0 = 0 /\ row.subtotal * 0 = 0 /\ (row.subtotal - row.discount) * 0 = 0
    BY <2>1, <2>2
  <2>4. GivenBack(price.lines[l], row, [units |-> 0, sum |-> 0, times |-> 0])
    BY <2>2, <2>3 DEF GivenBack
  <2> QED
    BY <1>4, <1>5, <2>1, <2>4
<1>7. Accepted(price'.lines, price'.promo, s) /\ price'.row = OrderRowOf(price'.lines, price'.promo, s)
  BY <1>1, <1>4 DEF row
<1> QED
  BY <1>1, <1>4, <1>6, <1>7 DEF PricingIInv, PriceRows, AsAccepted

(* Some units of a line come back. *)
LEMMA ReturnUnitsPriced ==
    ASSUME PricingIInv, NEW l \in LineIds, NEW n \in Quantities, ReturnUnits(l, n)
    PROVE  PricingIInv'
<1>1. /\ price \in [lines : Basket, promo : Promotions, placed : BOOLEAN, row : Amounts]
      /\ refunded \in [LineIds -> Returned] /\ price.placed /\ price' = price
      /\ n <= price.lines[l].qty - refunded[l].units
  BY DEF ReturnUnits, PricingIInv, PriceRows
<1>2. PICK cents \in ItemRefunds(price.lines[l], price.row, n) :
          refunded' = [refunded EXCEPT ![l] = [units |-> @.units + n, sum |-> @.sum + cents,
                                               times |-> @.times + 1]]
  BY DEF ReturnUnits
<1>3. /\ price.lines \in Basket /\ price.promo \in Promotions /\ price.row \in Amounts
      /\ n \in Nat
  BY <1>1, PricingAssumption
<1>4. price.lines[l].unit \in Nat /\ price.lines[l].qty \in Nat
  BY <1>3, BasketCosts
<1>5. PICK s \in Shippings : /\ Accepted(price.lines, price.promo, s)
                             /\ price.row = OrderRowOf(price.lines, price.promo, s)
  BY <1>1 DEF PricingIInv, AsAccepted
<1>6. price.row.discount <= price.row.subtotal
  BY <1>3, <1>5, RowAddsUp
<1> DEFINE more == [units |-> n, sum |-> cents, times |-> 1]
           now == [units |-> refunded[l].units + n, sum |-> refunded[l].sum + cents,
                   times |-> refunded[l].times + 1]
<1>7. cents \in Nat /\ GivenBack(price.lines[l], price.row, more)
  BY <1>2, <1>3, <1>4, <1>6, RefundIsShare
<1>8. /\ more \in Returned /\ refunded[l] \in Returned
      /\ more.units = n /\ more.sum = cents /\ more.times = 1
  BY <1>1, <1>3, <1>7 DEF Returned
<1>9. GivenBack(price.lines[l], price.row, refunded[l]) /\ refunded[l].units <= price.lines[l].qty
  BY <1>1 DEF PricingIInv, AsAccepted
<1>10. GivenBack(price.lines[l], price.row, now)
  <2>1. GivenBack(price.lines[l], price.row,
                  [units |-> refunded[l].units + more.units, sum |-> refunded[l].sum + more.sum,
                   times |-> refunded[l].times + more.times])
    <3> HIDE DEF more
    <3> QED
      BY <1>3, <1>4, <1>7, <1>8, <1>9, PortionsAddUp
  <2> QED
    BY <1>8, <2>1
<1>11. now \in Returned /\ now.units <= price.lines[l].qty
  BY <1>1, <1>3, <1>4, <1>7, <1>8 DEF Returned
<1>12. /\ refunded' \in [LineIds -> Returned]
       /\ \A k \in LineIds : refunded'[k] = IF k = l THEN now ELSE refunded[k]
  BY <1>1, <1>2, <1>11
<1> HIDE DEF now
<1>13. ASSUME NEW k \in LineIds
       PROVE  /\ refunded'[k].units <= price.lines[k].qty
              /\ GivenBack(price.lines[k], price.row, refunded'[k])
  <2>1. CASE k = l
    BY <1>10, <1>11, <1>12, <2>1
  <2>2. CASE k # l
    BY <1>1, <1>12, <2>2 DEF PricingIInv, AsAccepted
  <2> QED
    BY <2>1, <2>2
<1> QED
  BY <1>1, <1>5, <1>12, <1>13 DEF PricingIInv, PriceRows, AsAccepted

LEMMA NextPriced == PricingIInv /\ [PricingNext]_priceVars => PricingIInv'
<1> SUFFICES ASSUME PricingIInv, [PricingNext]_priceVars PROVE PricingIInv'
  OBVIOUS
<1>1. CASE \E s \in Shippings : PlaceOrder(s)
  BY <1>1, PlaceOrderPriced
<1>2. CASE \E l \in LineIds, n \in Quantities : ReturnUnits(l, n)
  BY <1>2, ReturnUnitsPriced
<1>3. CASE UNCHANGED priceVars
  BY <1>3 DEF priceVars, PricingIInv, PriceRows, AsAccepted, NothingYet
<1> QED
  BY <1>1, <1>2, <1>3 DEF PricingNext

(* The promotion is about the lines isLineEligible() says it is. *)
LEMMA InvTotalsAddUp == PricingIInv => TotalsAddUp
<1> SUFFICES ASSUME PricingIInv, price.placed PROVE TotalsAddUp
  BY DEF TotalsAddUp
<1>1. price.lines \in Basket /\ price.promo \in Promotions /\ price.row \in Amounts
  BY DEF PricingIInv, PriceRows
<1>2. PICK s \in Shippings : /\ Accepted(price.lines, price.promo, s)
                             /\ price.row = OrderRowOf(price.lines, price.promo, s)
  BY DEF PricingIInv, AsAccepted
<1>3. /\ price.row.discount <= EligibleAmount(price.lines, price.promo)
      /\ price.row.subtotal + price.row.shipping - price.row.discount - price.row.total \in -1 .. 1
  BY <1>1, <1>2, RowAddsUp
<1>4. price.row.total >= 0 /\ price.row.discount >= 0
  BY <1>1 DEF Amounts
<1>5. {l \in LineIds : IsLineEligible(price.lines[l], price.promo)} = GoodsOf(price.promo)
  <2>1. ASSUME NEW l \in LineIds
        PROVE  IsLineEligible(price.lines[l], price.promo) <=>
                  /\ \A x \in price.lines[l].labels : x \notin price.promo.excluded
                  /\ \/ price.promo.included = {}
                     \/ \E x \in price.lines[l].labels : x \in price.promo.included
    BY DEF IsLineEligible
  <2> QED
    BY <2>1 DEF GoodsOf
<1>6. EligibleAmount(price.lines, price.promo) = SumOf(LineTotals(price.lines), GoodsOf(price.promo))
  BY <1>5 DEF EligibleAmount
<1> QED
  BY <1>3, <1>4, <1>6 DEF TotalsAddUp

(* What the refunds of an order come to when each line's are its share. *)
LEMMA SharesAddUp ==
    ASSUME PricingIInv, price.placed
    PROVE  /\ RefundSum \in Int /\ RefundTimes \in Int
           /\ 2 * RefundSum <= 2 * (price.row.subtotal - price.row.discount) + RefundTimes
           /\ (\A l \in LineIds : refunded[l].units = price.lines[l].qty) =>
                 2 * RefundSum >= 2 * (price.row.subtotal - price.row.discount) - RefundTimes
<1> DEFINE sums == [l \in LineIds |-> refunded[l].sum]
           times == [l \in LineIds |-> refunded[l].times]
           costs == LineTotals(price.lines)
<1>1. price.lines \in Basket /\ price.promo \in Promotions /\ price.row \in Amounts
  BY DEF PricingIInv, PriceRows
<1>2. PICK s \in Shippings : /\ Accepted(price.lines, price.promo, s)
                             /\ price.row = OrderRowOf(price.lines, price.promo, s)
  BY DEF PricingIInv, AsAccepted
<1>3. PICK S \in Nat, D \in Nat, P \in Nat :
          S = price.row.subtotal /\ D = price.row.discount /\ P = S - D
  <2>1. price.row.discount <= price.row.subtotal
    BY <1>1, <1>2, RowAddsUp
  <2> QED
    BY <1>1, <2>1 DEF Amounts
<1>4. S = SumOf(costs, LineIds)
  BY <1>1, <1>2, <1>3, RowAddsUp DEF Subtotal
<1>5. RefundSum = SumOf(sums, LineIds) /\ RefundTimes = SumOf(times, LineIds)
  BY DEF RefundSum, RefundTimes
<1>6. IsFiniteSet(LineIds)
  BY PricingAssumption
<1>7. ASSUME NEW l \in LineIds
      PROVE  /\ sums[l] \in Nat /\ times[l] \in Nat /\ costs[l] \in Nat
             /\ sums[l] = refunded[l].sum /\ times[l] = refunded[l].times
             /\ refunded[l].units \in Nat /\ price.lines[l].unit \in Nat /\ price.lines[l].qty \in Nat
             /\ refunded[l].units <= price.lines[l].qty
             /\ costs[l] = price.lines[l].unit * price.lines[l].qty
             /\ price.lines[l].unit * refunded[l].units \in Nat
             /\ price.lines[l].unit * refunded[l].units <= costs[l]
             /\ refunded[l].units = price.lines[l].qty => price.lines[l].unit * refunded[l].units = costs[l]
             /\ GivenBack(price.lines[l], price.row, refunded[l])
  <2>1. refunded[l] \in Returned
    BY DEF PricingIInv, PriceRows
  <2>2. sums[l] \in Nat /\ times[l] \in Nat /\ refunded[l].units \in Nat
    BY <2>1 DEF Returned
  <2>3. /\ price.lines[l].unit \in Nat /\ price.lines[l].qty \in Nat
        /\ costs[l] = price.lines[l].unit * price.lines[l].qty /\ costs[l] \in Nat
    BY <1>1, BasketCosts
  <2>4. refunded[l].units <= price.lines[l].qty /\ GivenBack(price.lines[l], price.row, refunded[l])
    BY DEF PricingIInv, AsAccepted
  <2>5. \A x, y, z \in Nat : x * y \in Nat /\ (y <= z => x * y <= x * z)
    OBVIOUS
  <2> HIDE DEF costs
  <2> QED
    BY <2>2, <2>3, <2>4, <2>5
<1> HIDE DEF sums, times, costs
<1>8. PICK A \in Int, C \in Int, T \in Int :
          A = SumOf(sums, LineIds) /\ C = SumOf(costs, LineIds) /\ T = SumOf(times, LineIds)
  <2>1. \A l \in LineIds : sums[l] \in Int /\ costs[l] \in Int /\ times[l] \in Int
    BY <1>7
  <2> QED
    BY <1>6, <2>1, SumGrows
<1>9. SUFFICES /\ 2 * A <= 2 * P + T
               /\ (\A l \in LineIds : refunded[l].units = price.lines[l].qty) => 2 * A >= 2 * P - T
  BY <1>3, <1>5, <1>8
<1>10. CASE D = 0
  <2>1. ASSUME NEW l \in LineIds PROVE sums[l] = price.lines[l].unit * refunded[l].units
    BY <1>3, <1>7, <1>10 DEF GivenBack
  <2>2. PICK p \in Int, r \in Int : p = 1 /\ r = 0
    OBVIOUS
  <2>3. ASSUME NEW l \in LineIds
        PROVE  /\ sums[l] \in Int /\ costs[l] \in Int /\ times[l] \in Int
               /\ p * sums[l] <= p * costs[l] + r * times[l]
    BY <1>7, <2>1, <2>2
  <2>4. p * A <= p * C + r * T
    BY <1>6, <1>8, <2>3, SumsBound
  <2>5. A <= C
    BY <2>2, <2>4
  <2>6. ASSUME \A l \in LineIds : refunded[l].units = price.lines[l].qty PROVE C <= A
    <3>1. ASSUME NEW l \in LineIds
          PROVE  /\ sums[l] \in Int /\ costs[l] \in Int /\ times[l] \in Int
                 /\ p * costs[l] <= p * sums[l] + r * times[l]
      BY <1>7, <2>1, <2>2, <2>6
    <3>2. p * C <= p * A + r * T
      BY <1>6, <1>8, <3>1, SumsBound
    <3> QED
      BY <2>2, <3>2
  <2>7. T >= 0
    <3>1. SumOf(times, LineIds) \in Nat
      BY <1>6, <1>7, SumOfSome
    <3> QED
      BY <1>8, <3>1
  <2> QED
    BY <1>3, <1>4, <1>8, <1>10, <2>5, <2>6, <2>7
<1>11. CASE D > 0
  <2>1. S > 0
    BY <1>3, <1>11
  <2>2. \A x, y, z \in Int : x * y \in Int /\ (x >= 0 /\ y <= z => x * y <= x * z) /\ 2 * (x * y) = (2 * x) * y
    OBVIOUS
  <2>3. ASSUME NEW l \in LineIds
        PROVE  /\ 2 * (S * sums[l]) <= 2 * (P * (price.lines[l].unit * refunded[l].units)) + S * times[l]
               /\ 2 * (S * sums[l]) >= 2 * (P * (price.lines[l].unit * refunded[l].units)) - S * times[l]
    BY <1>3, <1>7, <1>11 DEF GivenBack
  <2>4. PICK p \in Int, q \in Int : p = 2 * S /\ q = 2 * P
    OBVIOUS
  <2>5. ASSUME NEW l \in LineIds
        PROVE  /\ sums[l] \in Int /\ costs[l] \in Int /\ times[l] \in Int
               /\ p * sums[l] <= q * costs[l] + S * times[l]
    <3> DEFINE g == price.lines[l].unit * refunded[l].units
    <3>1. /\ sums[l] \in Int /\ costs[l] \in Int /\ times[l] \in Int /\ g \in Int /\ g <= costs[l]
      BY <1>7
    <3>2. 2 * (S * sums[l]) <= 2 * (P * g) + S * times[l]
      BY <2>3
    <3> HIDE DEF g
    <3>3. P * g <= P * costs[l] /\ P * g \in Int /\ P * costs[l] \in Int /\ S * sums[l] \in Int /\ S * times[l] \in Int
      BY <2>2, <3>1
    <3>4. 2 * (S * sums[l]) = p * sums[l] /\ 2 * (P * costs[l]) = q * costs[l]
      BY <2>2, <2>4, <3>1
    <3>5. 2 * (S * sums[l]) <= 2 * (P * costs[l]) + S * times[l]
      BY <3>2, <3>3
    <3> QED
      BY <3>1, <3>4, <3>5
  <2>6. p * A <= q * C + S * T
    <3>1. S \in Int
      OBVIOUS
    <3>2. p * SumOf(sums, LineIds) <= q * SumOf(costs, LineIds) + S * SumOf(times, LineIds)
      BY <1>6, <2>5, <3>1, SumsBound
    <3> QED
      BY <1>8, <3>2
  <2>7. C = S
    BY <1>4, <1>8
  <2>8. 2 * A <= 2 * P + T
    <3>1. /\ S * A \in Int /\ S * P \in Int /\ S * T \in Int /\ P * S = S * P
          /\ p * A = 2 * (S * A) /\ q * S = 2 * (P * S)
      BY <2>2, <2>4
    <3>2. 2 * (S * A) <= 2 * (S * P) + S * T
      BY <2>6, <2>7, <3>1
    <3>3. S * (2 * A) = 2 * (S * A) /\ S * (2 * P + T) = 2 * (S * P) + S * T
      OBVIOUS
    <3>4. S * (2 * A) <= S * (2 * P + T)
      BY <3>2, <3>3
    <3> QED
      BY <2>1, <3>4, DividedBy
  <2>9. ASSUME \A l \in LineIds : refunded[l].units = price.lines[l].qty
        PROVE  2 * A >= 2 * P - T
    <3>1. ASSUME NEW l \in LineIds
          PROVE  /\ sums[l] \in Int /\ costs[l] \in Int /\ times[l] \in Int
                 /\ q * costs[l] <= p * sums[l] + S * times[l]
      <4>1. /\ sums[l] \in Int /\ costs[l] \in Int /\ times[l] \in Int
            /\ price.lines[l].unit * refunded[l].units = costs[l]
        BY <1>7, <2>9
      <4>2. 2 * (S * sums[l]) >= 2 * (P * costs[l]) - S * times[l]
        BY <2>3, <4>1
      <4>3. P * costs[l] \in Int /\ S * sums[l] \in Int /\ S * times[l] \in Int
        BY <2>2, <4>1
      <4>4. 2 * (S * sums[l]) = p * sums[l] /\ 2 * (P * costs[l]) = q * costs[l]
        BY <2>2, <2>4, <4>1
      <4>5. 2 * (P * costs[l]) <= 2 * (S * sums[l]) + S * times[l]
        BY <4>2, <4>3
      <4> QED
        BY <4>1, <4>4, <4>5
    <3>2. q * C <= p * A + S * T
      <4>1. S \in Int
        OBVIOUS
      <4>2. q * SumOf(costs, LineIds) <= p * SumOf(sums, LineIds) + S * SumOf(times, LineIds)
        BY <1>6, <3>1, <4>1, SumsBound
      <4> QED
        BY <1>8, <4>2
    <3>3. /\ S * A \in Int /\ S * P \in Int /\ S * T \in Int /\ P * S = S * P
          /\ p * A = 2 * (S * A) /\ q * S = 2 * (P * S)
      BY <2>2, <2>4
    <3>4. 2 * (S * P) <= 2 * (S * A) + S * T
      BY <2>7, <3>2, <3>3
    <3>5. S * (2 * P) = 2 * (S * P) /\ S * (2 * A + T) = 2 * (S * A) + S * T
      OBVIOUS
    <3>6. S * (2 * P) <= S * (2 * A + T)
      BY <3>4, <3>5
    <3>7. 2 * P <= 2 * A + T
      BY <2>1, <3>6, DividedBy
    <3> QED
      BY <3>7
  <2> QED
    BY <2>8, <2>9
<1> QED
  BY <1>10, <1>11

(* Before an order is placed there is nothing to give back. *)
LEMMA InvRefundsAddUp == PricingIInv => RefundsAddUp
<1> SUFFICES ASSUME PricingIInv PROVE RefundsAddUp
  OBVIOUS
<1>1. CASE price.placed
  BY <1>1, SharesAddUp DEF RefundsAddUp
<1>2. CASE ~ price.placed
  <2>1. price.row.subtotal = 0 /\ price.row.discount = 0
    BY <1>2 DEF PricingIInv, NothingYet, NoRow
  <2>2. IsFiniteSet(LineIds) /\ \A l \in LineIds : refunded[l].sum = 0 /\ refunded[l].times = 0
    BY <1>2, PricingAssumption DEF PricingIInv, NothingYet
  <2>3. RefundSum = 0 /\ RefundTimes = 0
    BY <2>2, SumOfNothing DEF RefundSum, RefundTimes
  <2> QED
    BY <1>2, <2>1, <2>3 DEF RefundsAddUp
<1> QED
  BY <1>1, <1>2

(* The columns of an order agree to a cent, its discount is no more than   *)
(* the goods it is for, and in whatever portions they come back the        *)
(* refunds add up to what was paid, but for half a cent each time: what    *)
(* calculate(), createCheckout() and calculateItemRefund() compute, for    *)
(* any number of lines, any prices and any promotions.                     *)
THEOREM MoneyIsAccountedFor == PricingSpec => []MoneyAddsUp
<1>1. PricingIInv => MoneyAddsUp
  BY InvTotalsAddUp, InvRefundsAddUp DEF MoneyAddsUp
<1> QED
  BY <1>1, InitPriced, NextPriced, PTL DEF PricingSpec
==============================================================================
