------------------------------ MODULE Wishlist ------------------------------
(***************************************************************************)
(* Moving an item from the wishlist to the cart (WishlistService): the row *)
(* is claimed by a conditional delete, the product added to the cart       *)
(* (Checkout.tla has the cart), and the row put back if that fails.        *)
(***************************************************************************)
EXTENDS Integers, FiniteSets

CONSTANTS
    Wishes,     \* ids of WishlistItem rows, all of one itemKey
    Movers,     \* API calls in flight
    NoWish

ASSUME WishlistAssumption == NoWish \notin Wishes

VARIABLES
    listed,   \* the rows that exist: the itemKey is unique in a wishlist
    moved,    \* history: how often each row was added to the cart; 2 is more than once
    mover,    \* the calls in flight
    given     \* history: rows taken off the list on purpose, replaced or lost with a call

wishVars == <<listed, moved, mover, given>>

Mover == [op : {"idle", "claim", "add", "restore"}, on : Wishes \cup {NoWish}, late : BOOLEAN]

WishlistTypeOK ==
    /\ listed \subseteq Wishes /\ Cardinality(listed) <= 1
    /\ moved \in [Wishes -> 0 .. 2]
    /\ mover \in [Movers -> Mover]
    /\ given \subseteq Wishes

------------------------------------------------------------------------------
NoMover == [op |-> "idle", on |-> NoWish, late |-> FALSE]

WishlistInit ==
    /\ listed = {}
    /\ moved = [w \in Wishes |-> 0]
    /\ mover = [r \in Movers |-> NoMover]
    /\ given = {}

MoverAt(r, op) == mover[r].op = op
MoverBecomes(r, x) == mover' = [mover EXCEPT ![r] = x]
MoverGoes(r, op) == MoverBecomes(r, [mover[r] EXCEPT !.op = op])

ClaimedBy(w) == {r \in Movers : mover[r].on = w /\ mover[r].op \in {"add", "restore"}}
Untouched(w) == w \notin listed \cup given /\ moved[w] = 0 /\ \A r \in Movers : mover[r].on # w

(* addItem(): a row of the same key makes it a no-op. *)
AddWish(w) ==
    /\ listed = {} /\ Untouched(w)
    /\ listed' = {w}
    /\ UNCHANGED <<moved, mover, given>>

RemoveWish(w) ==
    /\ w \in listed
    /\ listed' = listed \ {w}
    /\ given' = given \cup {w}
    /\ UNCHANGED <<moved, mover>>

(* moveToCart(): the row is read. *)
BeginMoveToCart(r, w) ==
    /\ MoverAt(r, "idle") /\ w \in listed
    /\ MoverBecomes(r, [op |-> "claim", on |-> w, late |-> FALSE])
    /\ UNCHANGED <<listed, moved, given>>

(* Fault: the row is deleted, but nobody asks whether it was still there. *)
ClaimWishBlindly(r) ==
    /\ MoverAt(r, "claim")
    /\ listed' = listed \ {mover[r].on}
    /\ MoverGoes(r, "add")
    /\ UNCHANGED <<moved, given>>

(* The conditional delete; losing it ends the call. *)
ClaimWish(r) ==
    LET w == mover[r].on IN
    /\ MoverAt(r, "claim")
    /\ IF w \in listed THEN listed' = listed \ {w} /\ MoverGoes(r, "add")
       ELSE UNCHANGED listed /\ MoverBecomes(r, NoMover)
    /\ UNCHANGED <<moved, given>>

(* CartService.addItem(): it succeeds, refuses, or fails after its commit, *)
(* when the audit log is written or the cart is read again.                *)
AddToCart(r) ==
    LET w == mover[r].on
        Added == moved' = [moved EXCEPT ![w] = IF @ < 2 THEN @ + 1 ELSE @]
    IN  /\ MoverAt(r, "add")
        /\ \/ Added /\ MoverBecomes(r, NoMover)
           \/ UNCHANGED moved /\ MoverGoes(r, "restore")
           \/ Added /\ MoverBecomes(r, [mover[r] EXCEPT !.op = "restore", !.late = TRUE])
        /\ UNCHANGED <<listed, given>>

(* The row is created again, unless the customer has listed the product    *)
(* anew; one restored after a late failure may be moved once more.         *)
RestoreWish(r) ==
    LET w == mover[r].on IN
    /\ MoverAt(r, "restore")
    /\ listed' = IF listed = {} THEN {w} ELSE listed
    /\ given' = IF listed # {} \/ mover[r].late THEN given \cup {w} ELSE given
    /\ MoverBecomes(r, NoMover)
    /\ UNCHANGED moved

CutMover(r) ==
    /\ ~ MoverAt(r, "idle")
    /\ given' = IF MoverAt(r, "claim") THEN given ELSE given \cup {mover[r].on}
    /\ MoverBecomes(r, NoMover)
    /\ UNCHANGED <<listed, moved>>

WishlistNext ==
    \/ \E w \in Wishes : AddWish(w) \/ RemoveWish(w)
    \/ \E r \in Movers :
          \/ \E w \in Wishes : BeginMoveToCart(r, w)
          \/ ClaimWish(r) \/ AddToCart(r) \/ RestoreWish(r) \/ CutMover(r)

WishlistSpec == WishlistInit /\ [][WishlistNext]_wishVars

------------------------------------------------------------------------------
(* A move is all or nothing, though it is no transaction: a row that was   *)
(* not taken off, replaced or caught in a failing call after the cart had  *)
(* changed is listed, about to be moved, or in the cart exactly once; and  *)
(* while it is listed it is not in the cart.  Two calls never move it both.*)
MoveIsAllOrNothing ==
    \A w \in Wishes \ given :
        \/ Untouched(w)
        \/ w \in listed /\ moved[w] = 0
        \/ w \notin listed /\ Cardinality(ClaimedBy(w)) = 1
              /\ (moved[w] = 0 \/ \E r \in ClaimedBy(w) : mover[r].late /\ moved[w] = 1)
        \/ w \notin listed /\ ClaimedBy(w) = {} /\ moved[w] = 1
==============================================================================
