--------------------------- MODULE MCOrderPayment ---------------------------
(* Instances of OrderPayment: one order, one warehouse, one unit per line. *)
EXTENDS OrderPayment, TLC

CONSTANTS o1, l1, k1, k2

MCLineOrder == [l \in Lines |-> o1]
MCLineSku == [l \in Lines |-> IF l = l1 THEN k1 ELSE k2]
MCLineQty == [l \in Lines |-> 1]

(* A line and its SKU change places with another line and its SKU. *)
MCLineSwaps ==
    {f \in Permutations(Lines \cup Skus) :
        \A l \in Lines : f[l] \in Lines /\ f[LineSku[l]] = LineSku[f[l]]}

MCSymmetry == Permutations(Reservations) \cup Permutations(Payments) \cup Permutations(Workers)
              \cup MCLineSwaps
==============================================================================
