---------------------------- MODULE MCStorefront ----------------------------
(***************************************************************************)
(* Six parts of the shop that share no state: a behaviour exercises one    *)
(* of them, and the others stay as they began.  Their state spaces add up. *)
(***************************************************************************)
EXTENDS Checkout, CategoryTree, Reviews, Wishlist, Pricing, Sessions, TLC

VARIABLE part    \* the part that is exercised

shopVars == <<part, checkoutVars, categoryVars, reviewVars, wishVars, priceVars, sessionVars>>

Promo(type, value, most, least, included, excluded) ==
    [type |-> type, value |-> value, most |-> most, least |-> least,
     included |-> included, excluded |-> excluded]

MCPromotions == {Promo("NONE", 0, -1, 0, {}, {}),
                 Promo("PERCENTAGE", 5, -1, 0, {}, {}),
                 Promo("PERCENTAGE", 33, 4, 0, {"a"}, {}),
                 Promo("PERCENTAGE", 100, -1, 0, {}, {"b"}),
                 Promo("FIXED_AMOUNT", 7, -1, 0, {"a"}, {"b"}),
                 Promo("FIXED_AMOUNT", 3, -1, 12, {}, {})}

(* Prices and refunds are compared for every order; elsewhere one will do. *)
OneOrder == [lines  |-> [l \in LineIds |-> [unit |-> 1, qty |-> 1, labels |-> {"a"}]],
             promo  |-> Promo("NONE", 0, -1, 0, {}, {}),
             placed |-> FALSE,
             row    |-> NoRow]

MCInit ==
    /\ part \in {"checkout", "categories", "reviews", "wishlist", "pricing", "sessions"}
    /\ part # "pricing" => price = OneOrder
    /\ CheckoutInit /\ CategoryInit /\ ReviewInit /\ WishlistInit /\ PricingInit /\ SessionInit

MCNext ==
    /\ UNCHANGED part
    /\ part # "checkout" => UNCHANGED checkoutVars
    /\ part # "categories" => UNCHANGED categoryVars
    /\ part # "reviews" => UNCHANGED reviewVars
    /\ part # "wishlist" => UNCHANGED wishVars
    /\ part # "pricing" => UNCHANGED priceVars
    /\ part # "sessions" => UNCHANGED sessionVars
    /\ \/ part = "checkout" /\ CheckoutNext
       \/ part = "categories" /\ CategoryNext
       \/ part = "reviews" /\ ReviewNext
       \/ part = "wishlist" /\ WishlistNext
       \/ part = "pricing" /\ PricingNext
       \/ part = "sessions" /\ SessionNext

MCSpec == MCInit /\ [][MCNext]_shopVars

(* The calls, the rows and the orders of every part have the same names. *)
MCSymmetry == Permutations(Requests) \cup Permutations(Carts) \cup Permutations(Orders)
==============================================================================
