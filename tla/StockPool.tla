------------------------------ MODULE StockPool ------------------------------
(***************************************************************************)
(* What the inventory promises, without its counters: every item is a pool *)
(* of physical units; a hold takes units out of what is free, becomes firm *)
(* or is given up, and only firm holds ship.  Free stock is never stored,  *)
(* it is what the live holds leave, so it cannot be stale or drift.        *)
(***************************************************************************)
EXTENDS Integers, FiniteSets

CONSTANTS Items, Holds, MaxQty, MaxStock, NoItem

VARIABLES
    stock,  \* physical units of each item
    hold    \* each hold: its stage, its item and how many units it takes

vars == <<stock, hold>>

Stages == {"unused", "temporary", "firm", "over"}

LiveUnits(i) ==
    {u \in Holds \X (1 .. MaxQty) : /\ hold[u[1]].stage \in {"temporary", "firm"}
                                    /\ hold[u[1]].item = i
                                    /\ u[2] <= hold[u[1]].qty}

Free(i) == stock[i] - Cardinality(LiveUnits(i))

ShippedUnits(S, i) == {u \in LiveUnits(i) : u[1] \in S}

Init ==
    /\ stock = [i \in Items |-> 0]
    /\ hold = [h \in Holds |-> [stage |-> "unused", item |-> NoItem, qty |-> 0]]

Receive(i, n) ==
    /\ stock[i] + n <= MaxStock
    /\ stock' = [stock EXCEPT ![i] = @ + n]
    /\ UNCHANGED hold

Remove(i, n) ==
    /\ n <= Free(i)
    /\ stock' = [stock EXCEPT ![i] = @ - n]
    /\ UNCHANGED hold

Move(s, d, n) ==
    /\ s # d
    /\ n <= Free(s)
    /\ stock' = [stock EXCEPT ![s] = @ - n, ![d] = @ + n]
    /\ UNCHANGED hold

Take(h, i, n) ==
    /\ hold[h].stage = "unused"
    /\ n <= Free(i)
    /\ hold' = [hold EXCEPT ![h] = [stage |-> "temporary", item |-> i, qty |-> n]]
    /\ UNCHANGED stock

Commit(h) ==
    /\ hold[h].stage = "temporary"
    /\ hold' = [hold EXCEPT ![h].stage = "firm"]
    /\ UNCHANGED stock

GiveUp(h) ==
    /\ hold[h].stage \in {"temporary", "firm"}
    /\ hold' = [hold EXCEPT ![h].stage = "over"]
    /\ UNCHANGED stock

(* The firm holds of one order ship together. *)
Ship(S) ==
    /\ S # {} /\ \A h \in S : hold[h].stage = "firm"
    /\ hold' = [h \in Holds |-> IF h \in S THEN [hold[h] EXCEPT !.stage = "over"] ELSE hold[h]]
    /\ stock' = [i \in Items |-> stock[i] - Cardinality(ShippedUnits(S, i))]

Next ==
    \/ \E i \in Items, n \in 1 .. MaxQty :
          \/ Receive(i, n)
          \/ Remove(i, n)
          \/ \E d \in Items : Move(i, d, n)
          \/ \E h \in Holds : Take(h, i, n)
    \/ \E h \in Holds : Commit(h) \/ GiveUp(h)
    \/ \E S \in SUBSET Holds : Ship(S)

Spec == Init /\ [][Next]_vars

(* The promise: live holds never exceed the units physically there. *)
NeverOversold == \A i \in Items : Free(i) >= 0
==============================================================================
