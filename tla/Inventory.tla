------------------------------ MODULE Inventory ------------------------------
(***************************************************************************)
(* InventoryService: the four stock counters of every InventoryItem row    *)
(* and the life of every StockReservation row.                             *)
(*                                                                         *)
(* PostgreSQL runs at READ COMMITTED.  A transaction whose writes are      *)
(* conditional updates (updateMany with the expected status or quantity in *)
(* its WHERE) is one step of the model, taken when it commits: the row     *)
(* locks it has held since those updates kept every other writer of the    *)
(* rows out, and readers see none of it earlier.  What a service method    *)
(* reads BEFORE its conditional update, new Date() included, is a step of  *)
(* its own, so everything that happens in between is explored.  A          *)
(* transaction that throws changes nothing.                                *)
(***************************************************************************)
EXTENDS Integers, FiniteSets

CONSTANTS
    Warehouses,    \* warehouses of the store
    Skus,          \* sellable units: a simple product or a product variant
    Reservations,  \* ids of StockReservation rows
    Requests,      \* service calls in flight: HTTP requests, sweeps
    Orders,        \* orders that hold stock
    Lines,         \* order lines (OrderItem rows)
    LineOrder,     \* the order each line belongs to
    NoLine,        \* orderItemId of a hold placed through the admin route
    NoItem,        \* placeholder item of a reservation id not used yet
    NoReservation, \* "no row", for a request that works on none
    MaxQty,        \* bound on the quantity of one reservation or movement
    MaxStock       \* bound on the physical stock of one item

ASSUME InventoryAssumption ==
    /\ IsFiniteSet(Reservations)
    /\ NoReservation \notin Reservations
    /\ NoItem \notin Warehouses \X Skus
    /\ LineOrder \in [Lines -> Orders]
    /\ NoLine \notin Lines
    /\ MaxQty \in Nat
    /\ MaxStock \in Nat

VARIABLES
    item,  \* InventoryItem rows, one per warehouse and SKU once initialized
    resv,  \* StockReservation rows
    req    \* what each request has read, or the answer of its last call

vars == <<item, resv, req>>

Items == Warehouses \X Skus
Quantity == 1 .. MaxQty

Status == {"NONE", "ACTIVE", "COMMITTED", "RELEASED"}

ItemRow == [exists    : BOOLEAN,
            onHand    : Nat,
            available : Nat,
            reserved  : Nat,
            committed : Nat]

ReservationRow == [status  : Status,
                   item    : Items \cup {NoItem},
                   qty     : 0 .. MaxQty,
                   line    : Lines \cup {NoLine},
                   expired : BOOLEAN,  \* the clock has passed expiresAt
                   at      : Nat]      \* createdAt, as a rank

Calls == {"idle", "release", "consume", "commit", "releaseCommitted", "sweep"}
Answers == {"none", "ok", "conflict", "ReservationExpired"}

Request == [op     : Calls,
            on     : Reservations \cup {NoReservation},
            todo   : SUBSET Reservations,
            answer : Answers]

TypeOK ==
    /\ item \in [Items -> ItemRow]
    /\ resv \in [Reservations -> ReservationRow]
    /\ req \in [Requests -> Request]

------------------------------------------------------------------------------
(* Sums over reservations.  A reservation of quantity q on item i stands   *)
(* for the q units <<r, 1>> .. <<r, q>> of that item.                      *)

Units(rows, S, i) ==
    {u \in S \X Quantity : rows[u[1]].item = i /\ u[2] <= rows[u[1]].qty}

Total(rows, S, i) == Cardinality(Units(rows, S, i))

WithStatus(rows, st) == {r \in Reservations : rows[r].status \in st}

Held(rows) == WithStatus(rows, {"ACTIVE", "COMMITTED"})
Firm(rows) == WithStatus(rows, {"COMMITTED"})

Existing == {r \in Reservations : resv[r].status # "NONE"}

(* The most recent reservation of an order line, if it has one. *)
OfLine(l) == {r \in Existing : resv[r].line = l}
LatestOf(l) == {r \in OfLine(l) : \A s \in OfLine(l) : resv[s].at <= resv[r].at}

LinesOf(o) == {l \in Lines : LineOrder[l] = o}
LatestOfOrder(o) == UNION {LatestOf(l) : l \in LinesOf(o)}

------------------------------------------------------------------------------
Init ==
    /\ item = [i \in Items |-> [exists |-> FALSE, onHand |-> 0, available |-> 0,
                                reserved |-> 0, committed |-> 0]]
    /\ resv = [r \in Reservations |-> [status |-> "NONE", item |-> NoItem, qty |-> 0,
                                       line |-> NoLine, expired |-> FALSE, at |-> 0]]
    /\ req = [p \in Requests |-> [op |-> "idle", on |-> NoReservation, todo |-> {},
                                  answer |-> "none"]]

------------------------------------------------------------------------------
(* Row updates shared by several methods.                                  *)

(* Stock physically arrives at (n > 0) or leaves (n < 0) an item. *)
Moved(row, n) == [row EXCEPT !.onHand = @ + n, !.available = @ + n]

(* The held quantity of every row in S goes back to available stock; what  *)
(* was committed of it is no longer.                                       *)
ReleaseRows(S) ==
    /\ resv' = [r \in Reservations |->
                  IF r \in S THEN [resv[r] EXCEPT !.status = "RELEASED"] ELSE resv[r]]
    /\ item' = [i \in Items |->
                  [item[i] EXCEPT !.available = @ + Total(resv, S, i),
                                  !.reserved  = @ - Total(resv, S, i),
                                  !.committed = @ - Total(resv, S \cap Firm(resv), i)]]

(* Every row in S becomes a firm allocation: only the reporting figure moves. *)
CommitRows(S) ==
    /\ resv' = [r \in Reservations |->
                  IF r \in S THEN [resv[r] EXCEPT !.status = "COMMITTED"] ELSE resv[r]]
    /\ item' = [i \in Items |-> [item[i] EXCEPT !.committed = @ + Total(resv, S, i)]]

(* The units behind the committed rows in S leave the warehouse. *)
ShipRows(S) ==
    /\ resv' = [r \in Reservations |->
                  IF r \in S THEN [resv[r] EXCEPT !.status = "RELEASED"] ELSE resv[r]]
    /\ item' = [i \in Items |->
                  [item[i] EXCEPT !.onHand    = @ - Total(resv, S, i),
                                  !.reserved  = @ - Total(resv, S, i),
                                  !.committed = @ - Total(resv, S, i)]]

(* A new ACTIVE row, if the item still has the quantity available. *)
ReserveRow(r, i, q, l) ==
    /\ resv[r].status = "NONE"
    /\ item[i].exists
    /\ item[i].available >= q
    /\ resv' = [resv EXCEPT ![r] = [status |-> "ACTIVE", item |-> i, qty |-> q, line |-> l,
                                    expired |-> FALSE, at |-> Cardinality(Existing) + 1]]
    /\ item' = [item EXCEPT ![i].available = @ - q, ![i].reserved = @ + q]

------------------------------------------------------------------------------
(* Physical stock.                                                         *)

(* initialize(): the advisory lock on the identity makes check and create one. *)
Initialize(i, n) ==
    /\ ~ item[i].exists
    /\ n <= MaxStock
    /\ item' = [item EXCEPT ![i] = [exists |-> TRUE, onHand |-> n, available |-> n,
                                    reserved |-> 0, committed |-> 0]]
    /\ UNCHANGED <<resv, req>>

(* adjust() with a positive quantity. *)
StockIn(i, n) ==
    /\ item[i].exists
    /\ item[i].onHand + n <= MaxStock
    /\ item' = [item EXCEPT ![i] = Moved(@, n)]
    /\ UNCHANGED <<resv, req>>

(* Fault: the removal is not conditional on the stock that is left.        *)
StockOutUnchecked(i, n) ==
    /\ item[i].exists
    /\ item' = [item EXCEPT ![i] = Moved(@, -n)]
    /\ UNCHANGED <<resv, req>>

(* Fault: checked against physical stock, so held units can be removed.    *)
StockOutOfOnHand(i, n) ==
    /\ item[i].exists
    /\ item[i].onHand >= n
    /\ item' = [item EXCEPT ![i] = [@ EXCEPT !.onHand = @ - n,
                                           !.available = IF @ >= n THEN @ - n ELSE 0]]
    /\ UNCHANGED <<resv, req>>

(* adjust() with a negative quantity: conditional on AVAILABLE stock. *)
StockOut(i, n) ==
    /\ item[i].exists
    /\ item[i].available >= n
    /\ item' = [item EXCEPT ![i] = Moved(@, -n)]
    /\ UNCHANGED <<resv, req>>

(* transfer(): source and destination are the same SKU in two warehouses;  *)
(* the destination row is created when it does not exist yet.              *)
Transfer(s, d, n) ==
    /\ s # d /\ s[2] = d[2]
    /\ item[s].exists
    /\ item[s].available >= n
    /\ item[d].onHand + n <= MaxStock
    /\ item' = [item EXCEPT ![s] = Moved(@, -n),
                            ![d] = [Moved(@, n) EXCEPT !.exists = TRUE]]
    /\ UNCHANGED <<resv, req>>

(* restockFromReturn(): the only way a returned unit becomes sellable again. *)
RestockFromReturn(i, n) ==
    /\ item[i].exists
    /\ item[i].onHand + n <= MaxStock
    /\ item' = [item EXCEPT ![i] = Moved(@, n)]
    /\ UNCHANGED <<resv, req>>

------------------------------------------------------------------------------
(* Reservations.                                                           *)

(* reserve(): l is the order line, or NoLine for the admin route. *)
Reserve(r, i, q, l) == ReserveRow(r, i, q, l) /\ UNCHANGED req

(* The clock passes expiresAt of a live row. *)
Lapse(r) ==
    /\ resv[r].status \in {"ACTIVE", "COMMITTED"}
    /\ ~ resv[r].expired
    /\ resv' = [resv EXCEPT ![r].expired = TRUE]
    /\ UNCHANGED <<item, req>>

Pending(p, op, r) == req' = [req EXCEPT ![p] = [op |-> op, on |-> r, todo |-> {}, answer |-> "none"]]
Answer(p, r, a) == req' = [req EXCEPT ![p] = [op |-> "idle", on |-> r, todo |-> {}, answer |-> a]]

(* release(), its read outside the transaction. *)
BeginRelease(p, r) ==
    /\ req[p].op = "idle" /\ r \in Existing
    /\ \/ resv[r].status = "RELEASED"  /\ Answer(p, r, "ok")
       \/ resv[r].status = "COMMITTED" /\ Answer(p, r, "conflict")
       \/ resv[r].status = "ACTIVE"    /\ Pending(p, "release", r)
    /\ UNCHANGED <<item, resv>>

(* Fault: the status read before the transaction is trusted. *)
FinishReleaseUnguarded(p) ==
    /\ req[p].op = "release"
    /\ ReleaseRows({req[p].on})
    /\ Answer(p, req[p].on, "ok")

(* release(), its transaction: ACTIVE -> RELEASED, or what the row says now. *)
FinishRelease(p) ==
    LET r == req[p].on IN
    /\ req[p].op = "release"
    /\ \/ /\ resv[r].status = "ACTIVE"
          /\ ReleaseRows({r})
          /\ Answer(p, r, "ok")
       \/ /\ resv[r].status # "ACTIVE"
          /\ Answer(p, r, IF resv[r].status = "RELEASED" THEN "ok" ELSE "conflict")
          /\ UNCHANGED <<item, resv>>

(* consume(), its read outside the transaction. *)
BeginConsume(p, r) ==
    /\ req[p].op = "idle" /\ r \in Existing
    /\ \/ resv[r].status = "RELEASED" /\ Answer(p, r, "conflict")
       \/ resv[r].status # "RELEASED" /\ Pending(p, "consume", r)
    /\ UNCHANGED <<item, resv>>

(* The new Date() its conditional update compares expiresAt with. *)
ReadClock(p) ==
    LET r == req[p].on IN
    /\ req[p].op = "consume" /\ ~ resv[r].expired
    /\ Pending(p, "commit", r)
    /\ UNCHANGED <<item, resv>>

(* Fault: the row is committed again by the loser of two concurrent calls. *)
FinishConsumeTwice(p) ==
    LET r == req[p].on IN
    /\ req[p].op = "commit"
    /\ \/ resv[r].status \in {"ACTIVE", "COMMITTED"} /\ CommitRows({r}) /\ Answer(p, r, "ok")
       \/ /\ resv[r].status = "RELEASED"
          /\ Answer(p, r, "ReservationExpired")
          /\ UNCHANGED <<item, resv>>

(* consume(), its transaction: ACTIVE and unexpired by the clock that was  *)
(* read -> COMMITTED, though expiresAt may have passed meanwhile; an       *)
(* already COMMITTED row is answered as it is.  For an expired ACTIVE row  *)
(* the code releases it and then throws inside the same transaction, so    *)
(* that release is rolled back with it; or release() throws a conflict, of *)
(* a row that was committed just before.                                   *)
FinishConsume(p) ==
    LET r == req[p].on IN
    \/ /\ req[p].op = "commit" /\ resv[r].status = "ACTIVE"
       /\ CommitRows({r})
       /\ Answer(p, r, "ok")
    \/ /\ req[p].op \in {"consume", "commit"} /\ resv[r].status = "COMMITTED"
       /\ Answer(p, r, "ok")
       /\ UNCHANGED <<item, resv>>
    \/ /\ \/ req[p].op \in {"consume", "commit"} /\ resv[r].status = "RELEASED"
          \/ req[p].op = "consume" /\ resv[r].status = "ACTIVE" /\ resv[r].expired
       /\ Answer(p, r, "ReservationExpired")
       /\ UNCHANGED <<item, resv>>
    \/ /\ req[p].op = "consume" /\ resv[r].status = "COMMITTED" /\ resv[r].expired
       /\ Answer(p, r, "conflict")
       /\ UNCHANGED <<item, resv>>

(* releaseCommitted(), its read outside the transaction. *)
BeginReleaseCommitted(p, r) ==
    /\ req[p].op = "idle" /\ r \in Existing
    /\ \/ resv[r].status = "RELEASED"  /\ Answer(p, r, "ok")
       \/ resv[r].status = "ACTIVE"    /\ Answer(p, r, "conflict")
       \/ resv[r].status = "COMMITTED" /\ Pending(p, "releaseCommitted", r)
    /\ UNCHANGED <<item, resv>>

(* releaseCommitted(), its transaction: COMMITTED -> RELEASED. *)
FinishReleaseCommitted(p) ==
    LET r == req[p].on IN
    /\ req[p].op = "releaseCommitted"
    /\ \/ /\ resv[r].status = "COMMITTED"
          /\ ReleaseRows({r})
          /\ Answer(p, r, "ok")
       \/ /\ resv[r].status # "COMMITTED"
          /\ Answer(p, r, IF resv[r].status = "RELEASED" THEN "ok" ELSE "conflict")
          /\ UNCHANGED <<item, resv>>

(* Fault: the lines are not validated before anything ships. *)
FulfillUnvalidated(o) ==
    /\ LinesOf(o) # {}
    /\ ShipRows(LatestOfOrder(o) \ WithStatus(resv, {"RELEASED"}))
    /\ UNCHANGED req

(* fulfillOrderReservations(): every line's most recent reservation must be *)
(* COMMITTED, and they are shipped together or not at all.                  *)
Fulfill(o) ==
    /\ LinesOf(o) # {}
    /\ \A l \in LinesOf(o) : LatestOf(l) # {}
    /\ LatestOfOrder(o) \subseteq Firm(resv)
    /\ ShipRows(LatestOfOrder(o))
    /\ UNCHANGED req

------------------------------------------------------------------------------
(* releaseExpiredReservations(): one read of the expired rows in scope,    *)
(* then release() on each, every one in a transaction of its own.          *)

BeginSweep(p, lines, items) ==
    /\ req[p].op = "idle"
    /\ req' = [req EXCEPT ![p] =
                 [op |-> "sweep", on |-> NoReservation, answer |-> "none",
                  todo |-> {r \in Reservations : /\ resv[r].status = "ACTIVE"
                                                 /\ resv[r].expired
                                                 /\ resv[r].line \in lines
                                                 /\ resv[r].item \in items}]]
    /\ UNCHANGED <<item, resv>>

(* release() of one row of the list.  Its own read and its transaction are *)
(* one step here: neither the rows nor the outcome depend on the row       *)
(* changing between them, only on what it is at the conditional update.    *)
(* A row found COMMITTED, by a call that had read the clock before it      *)
(* expired, makes release() throw, which ends the sweep.                   *)
SweepRow(p, r) ==
    /\ req[p].op = "sweep" /\ r \in req[p].todo
    /\ \/ /\ resv[r].status = "ACTIVE"
          /\ ReleaseRows({r})
          /\ req' = [req EXCEPT ![p].todo = @ \ {r}]
       \/ /\ resv[r].status = "RELEASED"
          /\ req' = [req EXCEPT ![p].todo = @ \ {r}]
          /\ UNCHANGED <<item, resv>>
       \/ /\ resv[r].status = "COMMITTED"
          /\ Answer(p, r, "conflict")
          /\ UNCHANGED <<item, resv>>

EndSweep(p) ==
    /\ req[p].op = "sweep" /\ req[p].todo = {}
    /\ Answer(p, NoReservation, "ok")
    /\ UNCHANGED <<item, resv>>

------------------------------------------------------------------------------
Stock(i) ==
    \/ \E n \in 0 .. MaxQty : Initialize(i, n)
    \/ \E n \in Quantity : \/ StockIn(i, n)
                           \/ StockOut(i, n)
                           \/ RestockFromReturn(i, n)
                           \/ \E d \in Items : Transfer(i, d, n)
    \/ \E r \in Reservations, n \in Quantity, l \in Lines \cup {NoLine} : Reserve(r, i, n, l)

(* The scopes the callers of releaseExpiredReservations() use: everything  *)
(* (background sweep), one order (payment finalization), or the items of   *)
(* one SKU (checkout and payment retry).                                   *)
Sweep(p) ==
    \/ BeginSweep(p, Lines, Items)
    \/ \E o \in Orders : BeginSweep(p, LinesOf(o), Items)
    \/ \E k \in Skus : BeginSweep(p, Lines, Warehouses \X {k})
    \/ \E r \in Reservations : SweepRow(p, r)
    \/ EndSweep(p)

Call(p) ==
    \/ \E r \in Reservations : \/ BeginRelease(p, r)
                               \/ BeginConsume(p, r)
                               \/ BeginReleaseCommitted(p, r)
    \/ FinishRelease(p)
    \/ ReadClock(p)
    \/ FinishConsume(p)
    \/ FinishReleaseCommitted(p)

Next ==
    \/ \E i \in Items : Stock(i)
    \/ \E r \in Reservations : Lapse(r)
    \/ \E p \in Requests : Call(p) \/ Sweep(p)
    \/ \E o \in Orders : Fulfill(o)

Spec == Init /\ [][Next]_vars

------------------------------------------------------------------------------
(* Properties.                                                             *)

(* available = onHand - reserved on every row, and it never goes negative: *)
(* no interleaving of adjustments, transfers, holds and shipments oversells. *)
StockBalance ==
    \A i \in Items : /\ item[i].available = item[i].onHand - item[i].reserved
                     /\ item[i].available >= 0

(* The cached reservedQuantity is the sum of the ACTIVE and COMMITTED      *)
(* reservations of the item, however releases, sweeps, consumes and        *)
(* shipments of the same rows interleave.                                  *)
ReservedIsHeld ==
    \A i \in Items : item[i].reserved = Total(resv, Held(resv), i)

(* committedQuantity is the sum of the COMMITTED reservations, hence a     *)
(* subset of reservedQuantity: a double commit or a release that forgets   *)
(* the figure would show here.                                             *)
CommittedIsFirm ==
    \A i \in Items : /\ item[i].committed = Total(resv, Firm(resv), i)
                     /\ item[i].committed <= item[i].reserved

(* A COMMITTED reservation is not undone by expiry or by release(): it     *)
(* ends only when its units ship or when releaseCommitted() was called for *)
(* it; and a RELEASED reservation never comes back.                        *)
FirmHoldsAreKept ==
    [][\A r \in Reservations :
         /\ resv[r].status = "COMMITTED" /\ resv'[r].status # "COMMITTED" =>
              \/ \E p \in Requests : req[p].op = "releaseCommitted" /\ req[p].on = r
              \/ item'[resv[r].item].onHand <= item[resv[r].item].onHand - resv[r].qty
         /\ resv[r].status = "RELEASED" => resv'[r] = resv[r]]_vars
==============================================================================
