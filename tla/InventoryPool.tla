---------------------------- MODULE InventoryPool ----------------------------
(***************************************************************************)
(* How the tables of Inventory stand for a pool of StockPool: the physical *)
(* units are onHand, and a hold is a reservation row without its line,     *)
(* expiry and creation time.  The counters of free, reserved and committed *)
(* stock, and the requests, have no counterpart.                           *)
(***************************************************************************)
EXTENDS Inventory

Stage(st) == CASE st = "NONE"      -> "unused"
               [] st = "ACTIVE"    -> "temporary"
               [] st = "COMMITTED" -> "firm"
               [] st = "RELEASED"  -> "over"

OnHand == [i \in Items |-> item[i].onHand]
HoldOf == [r \in Reservations |-> [stage |-> Stage(resv[r].status),
                                   item  |-> resv[r].item,
                                   qty   |-> resv[r].qty]]

Pool == INSTANCE StockPool WITH Holds <- Reservations, stock <- OnHand, hold <- HoldOf

(* The counters, conditional updates and requests of InventoryService      *)
(* implement the pool: every hold is taken from free units only, ships     *)
(* only when firm, and nothing else moves stock.                           *)
ImplementsPool == Pool!Spec
==============================================================================
