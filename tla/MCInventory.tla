----------------------------- MODULE MCInventory -----------------------------
(* An instance of Inventory: one SKU, one order with all the lines.        *)
EXTENDS InventoryPool, TLC

CONSTANT o1

MCLineOrder == [l \in Lines |-> o1]

MCSymmetry == Permutations(Reservations) \cup Permutations(Requests) \cup Permutations(Warehouses)
==============================================================================
