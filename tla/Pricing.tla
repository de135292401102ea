------------------------------ MODULE Pricing ------------------------------
(***************************************************************************)
(* What an order costs and what its returns give back: the totals of       *)
(* CheckoutService.createCheckout(), DiscountEngineService and             *)
(* RefundCalculationService.calculateItemRefund().                         *)
(*                                                                         *)
(* Amounts of the database are whole cents, Decimal(12, 2).  A discount is *)
(* computed exactly, here in hundredths of a cent for whole per cents, and *)
(* rounded only when a column stores it.                                   *)
(*                                                                         *)
(* A label is the id of a product, a category or a brand: a line has those *)
(* of its product, and a promotion includes and excludes some.             *)
(***************************************************************************)
EXTENDS Integers, FiniteSets, FiniteSetsExt

CONSTANTS
    LineIds,      \* lines of the order
    Labels,
    Prices,       \* unit prices, in cents
    Quantities,
    Shippings,    \* shipping charges
    Promotions    \* those a coupon may stand for

Promotion == [type     : {"NONE", "PERCENTAGE", "FIXED_AMOUNT"},
              value    : Nat,                \* per cent, or cents
              most     : Nat \cup {-1},      \* maximumDiscountAmount; -1 is null
              least    : Nat,                \* minimumOrderAmount; 0 is null
              included : SUBSET Labels,
              excluded : SUBSET Labels]

(* Amounts are entered as IsMoneyString, with no sign. *)
ASSUME PricingAssumption ==
    /\ IsFiniteSet(LineIds)
    /\ Prices \subseteq Nat /\ Quantities \subseteq Nat /\ Shippings \subseteq Nat
    /\ Promotions \subseteq Promotion

VARIABLES
    price,      \* the order: unit price and quantity of each line, its row when placed
    refunded    \* per line, the units returned, and the sum and number of their refunds

priceVars == <<price, refunded>>

------------------------------------------------------------------------------
Lesser(m, n) == IF m < n THEN m ELSE n
Greater(m, n) == IF m > n THEN m ELSE n

(* numeric(12, 2) and toDecimalPlaces(2) round a half up; here of x / n. *)
Rounded(x, n) == (2 * x + n) \div (2 * n)

(* The sum of the amounts f of the lines in S. *)
SumOf(f, S) == MapThenSumSet(LAMBDA l : f[l], S)

LineTotal(line) == line.unit * line.qty
LineTotals(lines) == [l \in LineIds |-> LineTotal(lines[l])]
Subtotal(lines) == SumOf(LineTotals(lines), LineIds)

(* Fault: a label that is included overrides one that is excluded. *)
IsLineEligibleAnyway(line, promo) ==
    promo.included = {} \/ line.labels \cap promo.included # {}

(* isLineEligible(). *)
IsLineEligible(line, promo) ==
    /\ line.labels \cap promo.excluded = {}
    /\ promo.included = {} \/ line.labels \cap promo.included # {}

EligibleAmount(lines, promo) ==
    SumOf(LineTotals(lines), {l \in LineIds : IsLineEligible(lines[l], promo)})

(* calculate(), in hundredths of a cent; Refused where it is not eligible. *)
Refused == -1
Discount(lines, promo) ==
    LET eligible == EligibleAmount(lines, promo)
        raw == IF promo.type = "FIXED_AMOUNT" THEN 100 * promo.value
               ELSE IF promo.most = -1 THEN eligible * promo.value
               ELSE Lesser(eligible * promo.value, 100 * promo.most)
    IN  IF promo.type = "NONE" THEN 0
        ELSE IF Subtotal(lines) < promo.least \/ eligible <= 0 THEN Refused
        ELSE Greater(0, Lesser(raw, 100 * eligible))

(* The row of the order: each column is rounded by itself. *)
OrderRowOf(lines, promo, shipping) ==
    LET discount == Discount(lines, promo)
        total == 100 * (Subtotal(lines) + shipping) - discount
    IN  [subtotal |-> Subtotal(lines), shipping |-> shipping,
         discount |-> Rounded(discount, 100), total |-> Rounded(total, 100)]

(* A checkout is refused for its coupon or for a total of nothing. *)
Accepted(lines, promo, shipping) ==
    /\ Discount(lines, promo) # Refused
    /\ 100 * (Subtotal(lines) + shipping) > Discount(lines, promo)

(* Fault: the discount of the order is not taken off. *)
ItemRefundsGross(line, row, n) == {line.unit * n}

(* calculateItemRefund(), of n units of a line.  The share of the discount *)
(* is divided before it is multiplied, to 20 digits: an exact half of a    *)
(* cent may come out below itself.                                         *)
ItemRefunds(line, row, n) ==
    LET net == line.unit * n * (row.subtotal - row.discount)
        half == (2 * net) % (2 * row.subtotal) = row.subtotal
    IN  IF row.discount <= 0 THEN {line.unit * n}
        ELSE {Rounded(net, row.subtotal)} \cup (IF half THEN {net \div row.subtotal} ELSE {})

------------------------------------------------------------------------------
Basket == [LineIds -> [unit : Prices, qty : Quantities, labels : (SUBSET Labels) \ {{}}]]
NoRow == [subtotal |-> 0, shipping |-> 0, discount |-> 0, total |-> 0]

PricingInit ==
    /\ price \in [lines : Basket, promo : Promotions, placed : {FALSE}, row : {NoRow}]
    /\ refunded = [l \in LineIds |-> [units |-> 0, sum |-> 0, times |-> 0]]

PlaceOrder(shipping) ==
    /\ ~ price.placed /\ Accepted(price.lines, price.promo, shipping)
    /\ price' = [price EXCEPT !.placed = TRUE,
                              !.row = OrderRowOf(price.lines, price.promo, shipping)]
    /\ UNCHANGED refunded

(* A return request of n more units of a line. *)
ReturnUnits(l, n) ==
    /\ price.placed /\ n <= price.lines[l].qty - refunded[l].units
    /\ \E cents \in ItemRefunds(price.lines[l], price.row, n) :
          refunded' = [refunded EXCEPT ![l] = [units |-> @.units + n, sum |-> @.sum + cents,
                                               times |-> @.times + 1]]
    /\ UNCHANGED price

PricingNext ==
    \/ \E s \in Shippings : PlaceOrder(s)
    \/ \E l \in LineIds, n \in Quantities : ReturnUnits(l, n)

PricingSpec == PricingInit /\ [][PricingNext]_priceVars

------------------------------------------------------------------------------
RefundSum == SumOf([l \in LineIds |-> refunded[l].sum], LineIds)
RefundTimes == SumOf([l \in LineIds |-> refunded[l].times], LineIds)
GoodsOf(promo) ==   \* what the promotion is about, counted from its words
    {l \in LineIds : /\ \A x \in price.lines[l].labels : x \notin promo.excluded
                     /\ promo.included = {} \/ \E x \in price.lines[l].labels : x \in promo.included}

(* The columns of an order agree to a cent: the discount is what was taken *)
(* off, no more than the goods it is for, and the total is not negative.   *)
TotalsAddUp ==
    price.placed =>
        LET row == price.row
            off == row.subtotal + row.shipping - row.discount - row.total
        IN  /\ off \in -1 .. 1
            /\ row.total >= 0 /\ row.discount >= 0
            /\ row.discount <= SumOf(LineTotals(price.lines), GoodsOf(price.promo))

(* In whatever portions the goods come back, the refunds add up to what    *)
(* was paid for them, but for half a cent each time and never a unit's     *)
(* full price where a discount was taken off.                              *)
RefundsAddUp ==
    LET paid == price.row.subtotal - price.row.discount
        all == \A l \in LineIds : refunded[l].units = price.lines[l].qty
    IN  /\ 2 * RefundSum <= 2 * paid + RefundTimes
        /\ (price.placed /\ all) => 2 * RefundSum >= 2 * paid - RefundTimes

(* The money of an order is accounted for to the cent when it is placed    *)
(* and when it is given back.                                              *)
MoneyAddsUp == TotalsAddUp /\ RefundsAddUp
==============================================================================
