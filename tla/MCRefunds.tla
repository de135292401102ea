----------------------------- MODULE MCRefunds -----------------------------
(* Instances of Refunds: two units of every line. *)
EXTENDS Refunds, TLC

MCLineQty == [l \in Lines |-> 2]

MCSymmetry == Permutations(Returns) \cup Permutations(Refunds) \cup Permutations(Admins)
==============================================================================
