--------------------------- MODULE InventoryProofs ---------------------------
(***************************************************************************)
(* The stock counters of Inventory agree with the reservations behind them, *)
(* for any warehouses, SKUs, requests, orders and quantities and any finite *)
(* set of reservation rows; and every step of a request, a sweep or the     *)
(* clock is a step of StockPool or none.                                    *)
(***************************************************************************)
EXTENDS InventoryPool, FiniteSetTheorems, TLAPS

(* An item that was never initialized holds nothing. *)
NothingOnNewItems ==
    \A i \in Items : ~ item[i].exists => item[i].reserved = 0 /\ item[i].committed = 0

(* A request between its read and its transaction works on a reservation row. *)
PendingCallsNameARow ==
    \A p \in Requests : req[p].op \in {"release", "consume", "commit", "releaseCommitted"} =>
                          req[p].on \in Reservations

(* The rows of the two tables agree; no step of a request matters to it. *)
RowInv ==
    /\ item \in [Items -> ItemRow]
    /\ resv \in [Reservations -> ReservationRow]
    /\ StockBalance
    /\ ReservedIsHeld
    /\ CommittedIsFirm
    /\ NothingOnNewItems

(* What the requests remember of the rows stays true while they wait. *)
RequestInv ==
    /\ req \in [Requests -> Request]
    /\ PendingCallsNameARow

(* The inductive invariant. *)
IInv == RowInv /\ RequestInv

------------------------------------------------------------------------------
(* Sums over reservations.                                                 *)

(* A set of reservations has finitely many units of an item. *)
LEMMA UnitsFinite ==
    ASSUME NEW rows, NEW S \in SUBSET Reservations, NEW i
    PROVE  /\ IsFiniteSet(Units(rows, S, i))
           /\ Total(rows, S, i) \in Nat
<1>1. IsFiniteSet(S)
  BY InventoryAssumption, FS_Subset
<1>2. IsFiniteSet(Quantity)
  BY InventoryAssumption, FS_Interval DEF Quantity
<1>3. IsFiniteSet(S \X Quantity)
  BY <1>1, <1>2, FS_Product
<1>4. Units(rows, S, i) \in SUBSET (S \X Quantity)
  BY DEF Units
<1>5. IsFiniteSet(Units(rows, S, i))
  BY <1>3, <1>4, FS_Subset
<1> QED
  BY <1>5, FS_CardinalityType DEF Total

(* The sum over two disjoint sets is the sum of their sums. *)
LEMMA TotalUnion ==
    ASSUME NEW rows, NEW S \in SUBSET Reservations, NEW T \in SUBSET Reservations,
           S \cap T = {}, NEW i
    PROVE  Total(rows, S \cup T, i) = Total(rows, S, i) + Total(rows, T, i)
<1> DEFINE U == Units(rows, S, i)
           V == Units(rows, T, i)
           W == Units(rows, S \cup T, i)
<1>0. /\ Total(rows, S, i) = Cardinality(U)
      /\ Total(rows, T, i) = Cardinality(V)
      /\ Total(rows, S \cup T, i) = Cardinality(W)
  BY DEF Total
<1>1. IsFiniteSet(U) /\ IsFiniteSet(V)
  BY UnitsFinite
<1>2. W = U \cup V
  BY DEF Units
<1>3. U \cap V = {}
  BY DEF Units
<1>4. Cardinality(U \cap V) = 0
  BY <1>3, FS_EmptySet
<1>5. Cardinality(U) \in Nat /\ Cardinality(V) \in Nat
  BY <1>1, FS_CardinalityType
<1>6. Cardinality(U \cup V) = Cardinality(U) + Cardinality(V) - Cardinality(U \cap V)
  BY <1>1, FS_Union
<1> QED
  <2> HIDE DEF U, V, W
  <2> QED
    BY <1>0, <1>2, <1>4, <1>5, <1>6

(* Taking a subset out of a set takes its sum out of the sum. *)
LEMMA TotalDifference ==
    ASSUME NEW rows, NEW S \in SUBSET Reservations, NEW T \in SUBSET S, NEW i
    PROVE  /\ Total(rows, S \ T, i) = Total(rows, S, i) - Total(rows, T, i)
           /\ Total(rows, T, i) <= Total(rows, S, i)
<1>1. /\ S \ T \in SUBSET Reservations
      /\ T \in SUBSET Reservations
      /\ (S \ T) \cap T = {}
      /\ (S \ T) \cup T = S
  OBVIOUS
<1>2. Total(rows, (S \ T) \cup T, i) = Total(rows, S \ T, i) + Total(rows, T, i)
  BY <1>1, TotalUnion
<1>3. /\ Total(rows, S \ T, i) \in Nat
      /\ Total(rows, T, i) \in Nat
      /\ Total(rows, S, i) \in Nat
  BY <1>1, UnitsFinite
<1> QED
  BY <1>1, <1>2, <1>3

(* One reservation contributes its quantity to its own item only. *)
LEMMA TotalSingle ==
    ASSUME NEW rows, NEW r \in Reservations, NEW i, rows[r].qty \in 0 .. MaxQty
    PROVE  Total(rows, {r}, i) = IF rows[r].item = i THEN rows[r].qty ELSE 0
<1> DEFINE W == Units(rows, {r}, i)
           One == 1 .. rows[r].qty
<1>0. Total(rows, {r}, i) = Cardinality(W)
  BY DEF Total
<1>1. CASE rows[r].item = i
  <2>1. W = {r} \X One
    BY <1>1, InventoryAssumption DEF Units, Quantity
  <2>0. rows[r].qty \in Nat /\ 1 \in Int /\ rows[r].qty \in Int
    BY InventoryAssumption
  <2>2. IsFiniteSet(One) /\ Cardinality(One) = rows[r].qty
    <3>1. /\ IsFiniteSet(One)
          /\ Cardinality(One) = IF 1 > rows[r].qty THEN 0 ELSE rows[r].qty - 1 + 1
      BY <2>0, FS_Interval
    <3> HIDE DEF One
    <3> QED
      BY <2>0, <3>1
  <2>3. IsFiniteSet({r}) /\ Cardinality({r}) = 1
    BY FS_Singleton
  <2>4. Cardinality({r} \X One) = Cardinality({r}) * Cardinality(One)
    BY <2>2, <2>3, FS_Product
  <2>6. 1 * rows[r].qty = rows[r].qty
    BY <2>0
  <2> HIDE DEF W, One
  <2>7. Cardinality({r} \X One) = rows[r].qty
    BY <2>2, <2>3, <2>4, <2>6
  <2>8. Total(rows, {r}, i) = rows[r].qty
    BY <1>0, <2>1, <2>7
  <2> QED
    BY <1>1, <2>8
<1>2. CASE rows[r].item # i
  <2>1. W = {}
    BY <1>2 DEF Units
  <2> HIDE DEF W
  <2> QED
    BY <1>0, <1>2, <2>1, FS_EmptySet
<1> QED
  BY <1>1, <1>2

------------------------------------------------------------------------------
(* Row updates.  Each keeps RowInv because what it adds to or takes from a  *)
(* counter is the sum of the rows that enter or leave the matching set.     *)

(* A change of status alone changes no sum. *)
LEMMA StatusChange ==
    ASSUME resv \in [Reservations -> ReservationRow],
           NEW S \in SUBSET Reservations, NEW st \in Status,
           resv' = [r \in Reservations |->
                      IF r \in S THEN [resv[r] EXCEPT !.status = st] ELSE resv[r]]
    PROVE  /\ resv' \in [Reservations -> ReservationRow]
           /\ \A T \in SUBSET Reservations : \A i :
                 Total(resv', T, i) = Total(resv, T, i)
           /\ \A r \in Reservations :
                 resv'[r].status = IF r \in S THEN st ELSE resv[r].status
<1>1. \A r \in Reservations : /\ resv'[r].item = resv[r].item
                              /\ resv'[r].qty = resv[r].qty
                              /\ resv'[r].status = IF r \in S THEN st ELSE resv[r].status
  BY DEF ReservationRow
<1>2. ASSUME NEW T \in SUBSET Reservations, NEW i
      PROVE  Total(resv', T, i) = Total(resv, T, i)
  <2>1. Units(resv', T, i) = Units(resv, T, i)
    BY <1>1 DEF Units
  <2> QED
    BY <2>1 DEF Total
<1>3. resv' \in [Reservations -> ReservationRow]
  BY DEF ReservationRow, Status
<1> QED
  BY <1>1, <1>2, <1>3

(* RowInv of one item, as the arithmetic steps below use it. *)
LEMMA RowInvAt ==
    ASSUME RowInv, NEW i \in Items
    PROVE  /\ item[i].exists \in BOOLEAN
           /\ item[i].onHand \in Nat
           /\ item[i].available \in Nat
           /\ item[i].reserved \in Nat
           /\ item[i].committed \in Nat
           /\ item[i].available = item[i].onHand - item[i].reserved
           /\ item[i].reserved = Total(resv, Held(resv), i)
           /\ item[i].committed = Total(resv, Firm(resv), i)
           /\ item[i].committed <= item[i].reserved
           /\ ~ item[i].exists => item[i].reserved = 0 /\ item[i].committed = 0
<1>1. item[i] \in ItemRow
  BY DEF RowInv
<1> QED
  BY <1>1
  DEF RowInv, StockBalance, ReservedIsHeld, CommittedIsFirm, NothingOnNewItems, ItemRow

(* Live and firm rows are sets of reservations, the firm ones among the live. *)
LEMMA HeldAndFirm ==
    /\ Held(resv) \in SUBSET Reservations
    /\ Firm(resv) \in SUBSET Held(resv)
    /\ Firm(resv) \in SUBSET Reservations
BY DEF Held, Firm, WithStatus

(* Releasing live rows gives back exactly what they held. *)
LEMMA ReleaseKeepsRows ==
    ASSUME RowInv, NEW S \in SUBSET Held(resv), ReleaseRows(S)
    PROVE  RowInv'
<1> DEFINE F == S \cap Firm(resv)
<1>1. /\ S \in SUBSET Reservations
      /\ F \in SUBSET Reservations
      /\ F \in SUBSET Firm(resv)
      /\ Firm(resv) \in SUBSET Held(resv)
      /\ Held(resv) \in SUBSET Reservations
      /\ Firm(resv) \in SUBSET Reservations
  BY HeldAndFirm
<1>2. /\ resv' \in [Reservations -> ReservationRow]
      /\ \A T \in SUBSET Reservations : \A i : Total(resv', T, i) = Total(resv, T, i)
      /\ \A r \in Reservations :
            resv'[r].status = IF r \in S THEN "RELEASED" ELSE resv[r].status
  BY <1>1, StatusChange DEF ReleaseRows, RowInv, Status
<1>3. Held(resv') = Held(resv) \ S
  BY <1>1, <1>2 DEF Held, WithStatus
<1>4. Firm(resv') = Firm(resv) \ F
  BY <1>1, <1>2 DEF Firm, WithStatus
<1>5. ASSUME NEW i \in Items
      PROVE  /\ Total(resv', Held(resv'), i) = Total(resv, Held(resv), i) - Total(resv, S, i)
             /\ Total(resv', Firm(resv'), i) = Total(resv, Firm(resv), i) - Total(resv, F, i)
             /\ Total(resv, S, i) <= Total(resv, Held(resv), i)
             /\ Total(resv, F, i) <= Total(resv, Firm(resv), i)
             /\ Total(resv', Firm(resv'), i) <= Total(resv', Held(resv'), i)
  <2>1. Firm(resv') \in SUBSET Held(resv')
    BY DEF Held, Firm, WithStatus
  <2>2. Held(resv') \in SUBSET Reservations /\ Firm(resv') \in SUBSET Reservations
    BY <1>1, <1>3, <1>4
  <2>3. Total(resv', Firm(resv'), i) <= Total(resv', Held(resv'), i)
    BY <2>1, <2>2, TotalDifference
  <2>4. /\ Total(resv, Held(resv) \ S, i) = Total(resv, Held(resv), i) - Total(resv, S, i)
        /\ Total(resv, S, i) <= Total(resv, Held(resv), i)
    BY <1>1, TotalDifference
  <2>5. /\ Total(resv, Firm(resv) \ F, i) = Total(resv, Firm(resv), i) - Total(resv, F, i)
        /\ Total(resv, F, i) <= Total(resv, Firm(resv), i)
    BY <1>1, TotalDifference
  <2> QED
    BY <1>2, <1>3, <1>4, <2>2, <2>3, <2>4, <2>5
<1>6. \A i \in Items : /\ Total(resv, S, i) \in Nat
                       /\ Total(resv, F, i) \in Nat
                       /\ Total(resv, Held(resv), i) \in Nat
                       /\ Total(resv, Firm(resv), i) \in Nat
  BY <1>1, UnitsFinite
<1>7. \A i \in Items : /\ item'[i] = [item[i] EXCEPT
                                        !.available = @ + Total(resv, S, i),
                                        !.reserved  = @ - Total(resv, S, i),
                                        !.committed = @ - Total(resv, F, i)]
                       /\ item[i] \in ItemRow
  BY DEF ReleaseRows, RowInv
<1>8. item' = [i \in Items |-> item'[i]]
  BY DEF ReleaseRows
<1>9. ASSUME NEW i \in Items
      PROVE  /\ item'[i] \in ItemRow
             /\ item'[i].available = item'[i].onHand - item'[i].reserved
             /\ item'[i].available >= 0
             /\ item'[i].reserved = Total(resv', Held(resv'), i)
             /\ item'[i].committed = Total(resv', Firm(resv'), i)
             /\ item'[i].committed <= item'[i].reserved
             /\ ~ item'[i].exists => item'[i].reserved = 0 /\ item'[i].committed = 0
  <2> HIDE DEF F
  <2>1. /\ item[i].available = item[i].onHand - item[i].reserved
        /\ item[i].available >= 0
        /\ item[i].reserved = Total(resv, Held(resv), i)
        /\ item[i].committed = Total(resv, Firm(resv), i)
        /\ ~ item[i].exists => item[i].reserved = 0 /\ item[i].committed = 0
    BY DEF RowInv, StockBalance, ReservedIsHeld, CommittedIsFirm, NothingOnNewItems
  <2>2. /\ item'[i].exists = item[i].exists
        /\ item'[i].onHand = item[i].onHand
        /\ item'[i].available = item[i].available + Total(resv, S, i)
        /\ item'[i].reserved = item[i].reserved - Total(resv, S, i)
        /\ item'[i].committed = item[i].committed - Total(resv, F, i)
    BY <1>7 DEF ItemRow
  <2>3. item'[i] = [exists |-> item'[i].exists, onHand |-> item'[i].onHand,
                    available |-> item'[i].available, reserved |-> item'[i].reserved,
                    committed |-> item'[i].committed]
    BY <1>7 DEF ItemRow
  <2>4. /\ item[i].exists \in BOOLEAN
        /\ item[i].onHand \in Nat
        /\ item[i].available \in Nat
        /\ item[i].reserved \in Nat
        /\ item[i].committed \in Nat
    BY <1>7 DEF ItemRow
  <2>5. /\ item'[i].available = item'[i].onHand - item'[i].reserved
        /\ item'[i].available >= 0
        /\ item'[i].reserved = Total(resv', Held(resv'), i)
        /\ item'[i].committed = Total(resv', Firm(resv'), i)
        /\ item'[i].committed <= item'[i].reserved
        /\ item'[i].reserved \in Nat /\ item'[i].committed \in Nat
        /\ item'[i].available \in Nat
    BY <1>5, <1>6, <2>1, <2>2, <2>4
  <2>6. ~ item'[i].exists => item'[i].reserved = 0 /\ item'[i].committed = 0
    BY <1>5, <1>6, <2>1, <2>2, <2>4
  <2>7. item'[i] \in ItemRow
    BY <2>2, <2>3, <2>4, <2>5 DEF ItemRow
  <2> QED
    BY <2>5, <2>6, <2>7
<1> QED
  BY <1>2, <1>8, <1>9
  DEF RowInv, StockBalance, ReservedIsHeld, CommittedIsFirm, NothingOnNewItems

(* Committing ACTIVE rows moves their units into the firm subset only. *)
LEMMA CommitKeepsRows ==
    ASSUME RowInv, NEW S \in SUBSET WithStatus(resv, {"ACTIVE"}), CommitRows(S)
    PROVE  RowInv'
<1>1. /\ S \in SUBSET Reservations
      /\ S \in SUBSET Held(resv)
      /\ S \cap Firm(resv) = {}
  BY DEF Held, Firm, WithStatus
<1>2. /\ resv' \in [Reservations -> ReservationRow]
      /\ \A T \in SUBSET Reservations : \A i : Total(resv', T, i) = Total(resv, T, i)
      /\ \A r \in Reservations :
            resv'[r].status = IF r \in S THEN "COMMITTED" ELSE resv[r].status
  BY <1>1, StatusChange DEF CommitRows, RowInv, Status
<1>3. Held(resv') = Held(resv)
  BY <1>1, <1>2 DEF Held, WithStatus
<1>4. Firm(resv') = Firm(resv) \cup S
  BY <1>1, <1>2 DEF Firm, WithStatus
<1>5. item' = [i \in Items |-> [item[i] EXCEPT !.committed = @ + Total(resv, S, i)]]
  BY DEF CommitRows
<1>6. ASSUME NEW i \in Items
      PROVE  /\ item'[i] \in ItemRow
             /\ item'[i].available = item'[i].onHand - item'[i].reserved
             /\ item'[i].available >= 0
             /\ item'[i].reserved = Total(resv', Held(resv'), i)
             /\ item'[i].committed = Total(resv', Firm(resv'), i)
             /\ item'[i].committed <= item'[i].reserved
             /\ ~ item'[i].exists => item'[i].reserved = 0 /\ item'[i].committed = 0
  <2>1. Total(resv', Held(resv'), i) = Total(resv, Held(resv), i)
    BY <1>2, <1>3, HeldAndFirm
  <2>2. Total(resv, Firm(resv) \cup S, i) = Total(resv, Firm(resv), i) + Total(resv, S, i)
    BY <1>1, HeldAndFirm, TotalUnion
  <2>3. Firm(resv) \cup S \in SUBSET Held(resv)
    BY <1>1, HeldAndFirm
  <2>4. Total(resv, Firm(resv) \cup S, i) <= Total(resv, Held(resv), i)
    BY <2>3, HeldAndFirm, TotalDifference
  <2>5. Total(resv', Firm(resv'), i) = Total(resv, Firm(resv) \cup S, i)
    BY <1>1, <1>2, <1>4, HeldAndFirm
  <2>6. Total(resv, S, i) \in Nat
    BY <1>1, UnitsFinite
  <2>7. item[i] \in ItemRow
    BY DEF RowInv
  <2>8. /\ item'[i] = [item[i] EXCEPT !.committed = @ + Total(resv, S, i)]
        /\ item'[i].exists = item[i].exists
        /\ item'[i].onHand = item[i].onHand
        /\ item'[i].available = item[i].available
        /\ item'[i].reserved = item[i].reserved
        /\ item'[i].committed = item[i].committed + Total(resv, S, i)
    BY <1>5, <2>7 DEF ItemRow
  <2>9. item'[i] \in ItemRow
    BY <2>6, <2>7, <2>8 DEF ItemRow
  <2> QED
    BY <2>1, <2>2, <2>4, <2>5, <2>6, <2>8, <2>9, RowInvAt
<1>7. item' \in [Items -> ItemRow]
  BY <1>5, <1>6
<1> QED
  BY <1>2, <1>6, <1>7
  DEF RowInv, StockBalance, ReservedIsHeld, CommittedIsFirm, NothingOnNewItems

(* Shipping COMMITTED rows takes the same units from stock and from both holds. *)
LEMMA ShipKeepsRows ==
    ASSUME RowInv, NEW S \in SUBSET Firm(resv), ShipRows(S)
    PROVE  RowInv'
<1>1. /\ S \in SUBSET Reservations
      /\ S \in SUBSET Held(resv)
  BY HeldAndFirm
<1>2. /\ resv' \in [Reservations -> ReservationRow]
      /\ \A T \in SUBSET Reservations : \A i : Total(resv', T, i) = Total(resv, T, i)
      /\ \A r \in Reservations :
            resv'[r].status = IF r \in S THEN "RELEASED" ELSE resv[r].status
  BY <1>1, StatusChange DEF ShipRows, RowInv, Status
<1>3. Held(resv') = Held(resv) \ S
  BY <1>1, <1>2 DEF Held, WithStatus
<1>4. Firm(resv') = Firm(resv) \ S
  BY <1>1, <1>2 DEF Firm, WithStatus
<1>5. item' = [i \in Items |-> [item[i] EXCEPT !.onHand    = @ - Total(resv, S, i),
                                              !.reserved  = @ - Total(resv, S, i),
                                              !.committed = @ - Total(resv, S, i)]]
  BY DEF ShipRows
<1>6. ASSUME NEW i \in Items
      PROVE  /\ item'[i] \in ItemRow
             /\ item'[i].available = item'[i].onHand - item'[i].reserved
             /\ item'[i].available >= 0
             /\ item'[i].reserved = Total(resv', Held(resv'), i)
             /\ item'[i].committed = Total(resv', Firm(resv'), i)
             /\ item'[i].committed <= item'[i].reserved
             /\ ~ item'[i].exists => item'[i].reserved = 0 /\ item'[i].committed = 0
  <2>1. /\ Total(resv, Held(resv) \ S, i) = Total(resv, Held(resv), i) - Total(resv, S, i)
        /\ Total(resv, S, i) <= Total(resv, Held(resv), i)
    BY <1>1, HeldAndFirm, TotalDifference
  <2>2. /\ Total(resv, Firm(resv) \ S, i) = Total(resv, Firm(resv), i) - Total(resv, S, i)
        /\ Total(resv, S, i) <= Total(resv, Firm(resv), i)
    BY HeldAndFirm, TotalDifference
  <2>3. /\ Total(resv', Held(resv'), i) = Total(resv, Held(resv) \ S, i)
        /\ Total(resv', Firm(resv'), i) = Total(resv, Firm(resv) \ S, i)
    BY <1>2, <1>3, <1>4, HeldAndFirm
  <2>4. Total(resv, S, i) \in Nat
    BY <1>1, UnitsFinite
  <2>5. item[i] \in ItemRow
    BY DEF RowInv
  <2>6. /\ item'[i] = [item[i] EXCEPT !.onHand    = @ - Total(resv, S, i),
                                      !.reserved  = @ - Total(resv, S, i),
                                      !.committed = @ - Total(resv, S, i)]
        /\ item'[i].exists = item[i].exists
        /\ item'[i].onHand = item[i].onHand - Total(resv, S, i)
        /\ item'[i].available = item[i].available
        /\ item'[i].reserved = item[i].reserved - Total(resv, S, i)
        /\ item'[i].committed = item[i].committed - Total(resv, S, i)
    BY <1>5, <2>5 DEF ItemRow
  <2>7. /\ item'[i].onHand \in Nat
        /\ item'[i].reserved \in Nat
        /\ item'[i].committed \in Nat
    BY <2>1, <2>2, <2>4, <2>6, RowInvAt
  <2>8. item'[i] \in ItemRow
    BY <2>5, <2>6, <2>7 DEF ItemRow
  <2> QED
    BY <2>1, <2>2, <2>3, <2>4, <2>6, <2>8, RowInvAt
<1>7. item' \in [Items -> ItemRow]
  BY <1>5, <1>6
<1> QED
  BY <1>2, <1>6, <1>7
  DEF RowInv, StockBalance, ReservedIsHeld, CommittedIsFirm, NothingOnNewItems

(* A new hold takes from available stock exactly what it adds to the sum. *)
LEMMA ReserveKeepsRows ==
    ASSUME RowInv, NEW r \in Reservations, NEW i \in Items, NEW q \in Quantity,
           NEW l \in Lines \cup {NoLine}, ReserveRow(r, i, q, l)
    PROVE  RowInv'
<1> DEFINE row == [status |-> "ACTIVE", item |-> i, qty |-> q, line |-> l,
                   expired |-> FALSE, at |-> Cardinality(Existing) + 1]
<1>1. /\ resv[r].status = "NONE"
      /\ item[i].exists
      /\ item[i].available >= q
      /\ resv' = [resv EXCEPT ![r] = row]
      /\ item' = [item EXCEPT ![i].available = @ - q, ![i].reserved = @ + q]
  BY DEF ReserveRow
<1>2. q \in Nat /\ q \in 0 .. MaxQty
  BY InventoryAssumption DEF Quantity
<1>3. Cardinality(Existing) \in Nat
  <2>1. Existing \in SUBSET Reservations
    BY DEF Existing
  <2>2. IsFiniteSet(Existing)
    BY <2>1, InventoryAssumption, FS_Subset
  <2> QED
    BY <2>2, FS_CardinalityType
<1>4. row \in ReservationRow
  BY <1>2, <1>3 DEF ReservationRow, Status
<1>5. resv' \in [Reservations -> ReservationRow]
  BY <1>1, <1>4 DEF RowInv
<1>6. /\ resv'[r] = row
      /\ \A s \in Reservations : s # r => resv'[s] = resv[s]
  BY <1>1 DEF RowInv
<1>7. r \notin Held(resv)
  BY <1>1 DEF Held, WithStatus
<1>8. /\ Held(resv') = Held(resv) \cup {r}
      /\ Firm(resv') = Firm(resv)
  BY <1>1, <1>6 DEF Held, Firm, WithStatus
<1>9. ASSUME NEW j \in Items
      PROVE  /\ Total(resv', Held(resv'), j) =
                   Total(resv, Held(resv), j) + (IF i = j THEN q ELSE 0)
             /\ Total(resv', Firm(resv'), j) = Total(resv, Firm(resv), j)
  <2>1. ASSUME NEW T \in SUBSET Held(resv)
        PROVE  Total(resv', T, j) = Total(resv, T, j)
    <3>1. \A s \in T : resv'[s] = resv[s]
      BY <1>6, <1>7, HeldAndFirm
    <3>2. Units(resv', T, j) = Units(resv, T, j)
      BY <3>1 DEF Units
    <3> QED
      BY <3>2 DEF Total
  <2>2. resv'[r].qty = q /\ resv'[r].item = i
    BY <1>6
  <2>3. Total(resv', {r}, j) = IF i = j THEN q ELSE 0
    <3>1. resv'[r].qty \in 0 .. MaxQty
      BY <1>2, <2>2
    <3>2. Total(resv', {r}, j) = IF resv'[r].item = j THEN resv'[r].qty ELSE 0
      BY <3>1, TotalSingle
    <3> QED
      BY <2>2, <3>2
  <2>4. Total(resv', Held(resv) \cup {r}, j) =
          Total(resv', Held(resv), j) + Total(resv', {r}, j)
    <3>1. {r} \in SUBSET Reservations /\ Held(resv) \cap {r} = {}
      BY <1>7
    <3> QED
      BY <3>1, HeldAndFirm, TotalUnion
  <2> QED
    BY <1>8, <2>1, <2>3, <2>4, HeldAndFirm
<1>10. ASSUME NEW j \in Items
       PROVE  /\ item'[j] \in ItemRow
              /\ item'[j].available = item'[j].onHand - item'[j].reserved
              /\ item'[j].available >= 0
              /\ item'[j].reserved = Total(resv', Held(resv'), j)
              /\ item'[j].committed = Total(resv', Firm(resv'), j)
              /\ item'[j].committed <= item'[j].reserved
              /\ ~ item'[j].exists => item'[j].reserved = 0 /\ item'[j].committed = 0
  <2>1. item[j] \in ItemRow
    BY DEF RowInv
  <2>2. CASE i = j
    <3>1. /\ item'[j] = [item[j] EXCEPT !.available = @ - q, !.reserved = @ + q]
          /\ item'[j].exists = item[j].exists
          /\ item'[j].onHand = item[j].onHand
          /\ item'[j].available = item[j].available - q
          /\ item'[j].reserved = item[j].reserved + q
          /\ item'[j].committed = item[j].committed
      BY <1>1, <2>1, <2>2 DEF ItemRow, RowInv
    <3>2. /\ item[j].available >= q
          /\ Total(resv', Held(resv'), j) = Total(resv, Held(resv), j) + q
          /\ Total(resv', Firm(resv'), j) = Total(resv, Firm(resv), j)
      BY <1>1, <1>9, <2>2
    <3>3. /\ item'[j].available \in Nat
          /\ item'[j].reserved \in Nat
          /\ item'[j].available = item'[j].onHand - item'[j].reserved
          /\ item'[j].reserved = Total(resv', Held(resv'), j)
          /\ item'[j].committed = Total(resv', Firm(resv'), j)
          /\ item'[j].committed <= item'[j].reserved
      BY <1>2, <3>1, <3>2, RowInvAt
    <3>4. item'[j] \in ItemRow
      BY <2>1, <3>1, <3>3 DEF ItemRow
    <3> QED
      BY <1>1, <2>2, <3>1, <3>3, <3>4
  <2>3. CASE i # j
    <3>1. item'[j] = item[j]
      BY <1>1, <2>3 DEF RowInv
    <3> QED
      BY <1>9, <2>1, <2>3, <3>1, RowInvAt
  <2> QED
    BY <2>2, <2>3
<1>11. item' \in [Items -> ItemRow]
  BY <1>1, <1>10 DEF RowInv
<1> QED
  BY <1>5, <1>10, <1>11
  DEF RowInv, StockBalance, ReservedIsHeld, CommittedIsFirm, NothingOnNewItems

(* Moving physical stock touches no hold: it is enough that onHand and     *)
(* available move together and that an item with holds stays initialized.  *)
LEMMA StockKeepsRows ==
    ASSUME RowInv, resv' = resv,
           item' \in [Items -> ItemRow],
           \A i \in Items :
              /\ item'[i].onHand - item'[i].available = item[i].onHand - item[i].available
              /\ item'[i].reserved = item[i].reserved
              /\ item'[i].committed = item[i].committed
              /\ item[i].exists => item'[i].exists
    PROVE  RowInv'
<1>1. \A i \in Items : /\ item'[i].onHand \in Nat
                       /\ item'[i].available \in Nat
  BY DEF ItemRow
<1>2. ASSUME NEW i \in Items
      PROVE  /\ item'[i].available = item'[i].onHand - item'[i].reserved
             /\ item'[i].available >= 0
             /\ item'[i].reserved = Total(resv', Held(resv'), i)
             /\ item'[i].committed = Total(resv', Firm(resv'), i)
             /\ item'[i].committed <= item'[i].reserved
             /\ ~ item'[i].exists => item'[i].reserved = 0 /\ item'[i].committed = 0
  BY <1>1, RowInvAt
<1> QED
  BY <1>2
  DEF RowInv, StockBalance, ReservedIsHeld, CommittedIsFirm, NothingOnNewItems

(* The clock passing an expiry changes no status, item or quantity. *)
LEMMA LapseKeepsRows ==
    ASSUME RowInv, NEW r \in Reservations, Lapse(r)
    PROVE  RowInv'
<1>1. /\ resv' = [resv EXCEPT ![r].expired = TRUE]
      /\ item' = item
  BY DEF Lapse
<1>2. /\ resv' \in [Reservations -> ReservationRow]
      /\ \A s \in Reservations : /\ resv'[s].status = resv[s].status
                                 /\ resv'[s].item = resv[s].item
                                 /\ resv'[s].qty = resv[s].qty
  BY <1>1 DEF RowInv, ReservationRow
<1>3. Held(resv') = Held(resv) /\ Firm(resv') = Firm(resv)
  BY <1>2 DEF Held, Firm, WithStatus
<1>4. ASSUME NEW T \in SUBSET Reservations, NEW i
      PROVE  Total(resv', T, i) = Total(resv, T, i)
  <2>1. Units(resv', T, i) = Units(resv, T, i)
    BY <1>2 DEF Units
  <2> QED
    BY <2>1 DEF Total
<1>5. ASSUME NEW i \in Items
      PROVE  /\ item'[i].available = item'[i].onHand - item'[i].reserved
             /\ item'[i].available >= 0
             /\ item'[i].reserved = Total(resv', Held(resv'), i)
             /\ item'[i].committed = Total(resv', Firm(resv'), i)
             /\ item'[i].committed <= item'[i].reserved
             /\ ~ item'[i].exists => item'[i].reserved = 0 /\ item'[i].committed = 0
  <2>1. /\ Total(resv', Held(resv'), i) = Total(resv, Held(resv), i)
        /\ Total(resv', Firm(resv'), i) = Total(resv, Firm(resv), i)
    BY <1>3, <1>4, HeldAndFirm
  <2> QED
    BY <1>1, <2>1, RowInvAt
<1>6. item' \in [Items -> ItemRow]
  BY <1>1 DEF RowInv
<1> QED
  BY <1>2, <1>5, <1>6
  DEF RowInv, StockBalance, ReservedIsHeld, CommittedIsFirm, NothingOnNewItems

(* What a movement of n units does to a row. *)
LEMMA MovedRow ==
    ASSUME NEW row \in ItemRow, NEW n \in Int
    PROVE  /\ Moved(row, n).exists = row.exists
           /\ Moved(row, n).onHand = row.onHand + n
           /\ Moved(row, n).available = row.available + n
           /\ Moved(row, n).reserved = row.reserved
           /\ Moved(row, n).committed = row.committed
           /\ Moved(row, n).onHand - Moved(row, n).available = row.onHand - row.available
           /\ row.onHand + n >= 0 /\ row.available + n >= 0 => Moved(row, n) \in ItemRow
<1>1. row.onHand \in Nat /\ row.available \in Nat
  BY DEF ItemRow
<1>2. /\ Moved(row, n).exists = row.exists
      /\ Moved(row, n).onHand = row.onHand + n
      /\ Moved(row, n).available = row.available + n
      /\ Moved(row, n).reserved = row.reserved
      /\ Moved(row, n).committed = row.committed
  BY DEF Moved, ItemRow
<1>3. Moved(row, n).onHand - Moved(row, n).available = row.onHand - row.available
  BY <1>1, <1>2
<1>4. ASSUME row.onHand + n >= 0, row.available + n >= 0
      PROVE  Moved(row, n) \in ItemRow
  <2>1. row.onHand + n \in Nat /\ row.available + n \in Nat
    BY <1>1, <1>4
  <2> QED
    BY <2>1 DEF Moved, ItemRow
<1> QED
  BY <1>2, <1>3, <1>4

(* The four ways physical stock changes. *)
LEMMA StockStep ==
    ASSUME RowInv, NEW i \in Items, NEW n \in Nat,
           \/ Initialize(i, n)
           \/ StockIn(i, n)
           \/ StockOut(i, n)
           \/ RestockFromReturn(i, n)
           \/ \E d \in Items : Transfer(i, d, n)
    PROVE  RowInv' /\ resv' = resv /\ req' = req
<1>1. \A j \in Items : item[j] \in ItemRow
  BY DEF RowInv
<1>2. item \in [Items -> ItemRow]
  BY DEF RowInv
<1>3. CASE Initialize(i, n)
  <2>1. /\ ~ item[i].exists /\ resv' = resv /\ req' = req
        /\ item' = [item EXCEPT ![i] = [exists |-> TRUE, onHand |-> n, available |-> n,
                                       reserved |-> 0, committed |-> 0]]
    BY <1>3 DEF Initialize
  <2>2. item[i].reserved = 0 /\ item[i].committed = 0
    BY <2>1, RowInvAt
  <2>3. item[i].onHand - item[i].available = n - n
    BY <2>2, RowInvAt
  <2>4. item' \in [Items -> ItemRow]
    BY <1>2, <2>1 DEF ItemRow
  <2>5. ASSUME NEW j \in Items
        PROVE  /\ item'[j].onHand - item'[j].available = item[j].onHand - item[j].available
               /\ item'[j].reserved = item[j].reserved
               /\ item'[j].committed = item[j].committed
               /\ item[j].exists => item'[j].exists
    BY <1>2, <2>1, <2>2, <2>3
  <2> QED
    BY <2>1, <2>4, <2>5, StockKeepsRows
<1>4. CASE StockIn(i, n) \/ RestockFromReturn(i, n) \/ StockOut(i, n)
  <2>1. PICK m \in Int : /\ resv' = resv /\ req' = req
                         /\ item[i].onHand + m >= 0
                         /\ item[i].available + m >= 0
                         /\ item' = [item EXCEPT ![i] = Moved(@, m)]
    <3>1. CASE StockIn(i, n) \/ RestockFromReturn(i, n)
      <4>1. item[i].onHand + n >= 0 /\ item[i].available + n >= 0
        BY RowInvAt
      <4> QED
        BY <3>1, <4>1 DEF StockIn, RestockFromReturn
    <3>2. CASE StockOut(i, n)
      <4>1. item[i].onHand + (-n) >= 0 /\ item[i].available + (-n) >= 0
        BY <3>2, RowInvAt DEF StockOut
      <4>2. -n \in Int
        OBVIOUS
      <4> QED
        BY <3>2, <4>1, <4>2 DEF StockOut
    <3> QED
      BY <1>4, <3>1, <3>2
  <2>2. /\ item'[i] = Moved(item[i], m)
        /\ \A j \in Items : j # i => item'[j] = item[j]
        /\ item' = [j \in Items |-> item'[j]]
    BY <1>2, <2>1
  <2>3. item' \in [Items -> ItemRow]
    BY <1>1, <2>1, <2>2, MovedRow
  <2>4. ASSUME NEW j \in Items
        PROVE  /\ item'[j].onHand - item'[j].available = item[j].onHand - item[j].available
               /\ item'[j].reserved = item[j].reserved
               /\ item'[j].committed = item[j].committed
               /\ item[j].exists => item'[j].exists
    <3>1. CASE j = i
      BY <1>1, <2>2, <3>1, MovedRow
    <3>2. CASE j # i
      BY <2>2, <3>2
    <3> QED
      BY <3>1, <3>2
  <2> QED
    BY <2>1, <2>3, <2>4, StockKeepsRows
<1>5. ASSUME NEW d \in Items, Transfer(i, d, n)
      PROVE  RowInv' /\ resv' = resv /\ req' = req
  <2>1. /\ i # d /\ resv' = resv /\ req' = req
        /\ item[i].exists
        /\ item[i].available >= n
        /\ item' = [item EXCEPT ![i] = Moved(@, -n),
                               ![d] = [Moved(@, n) EXCEPT !.exists = TRUE]]
    BY <1>5 DEF Transfer
  <2>2. /\ item'[i] = Moved(item[i], -n)
        /\ item'[d] = [Moved(item[d], n) EXCEPT !.exists = TRUE]
        /\ \A j \in Items : j # i /\ j # d => item'[j] = item[j]
        /\ item' = [j \in Items |-> item'[j]]
    BY <1>2, <2>1
  <2>3. /\ -n \in Int /\ n \in Int
        /\ item[i].onHand + (-n) >= 0 /\ item[i].available + (-n) >= 0
        /\ item[d].onHand + n >= 0 /\ item[d].available + n >= 0
    BY <2>1, RowInvAt
  <2>4. /\ item'[i] \in ItemRow
        /\ item'[i].onHand - item'[i].available = item[i].onHand - item[i].available
        /\ item'[i].reserved = item[i].reserved
        /\ item'[i].committed = item[i].committed
        /\ item'[i].exists = item[i].exists
    BY <1>1, <2>2, <2>3, MovedRow
  <2>5. Moved(item[d], n) \in ItemRow
    BY <1>1, <2>3, MovedRow
  <2>6. /\ item'[d] \in ItemRow
        /\ item'[d].onHand = Moved(item[d], n).onHand
        /\ item'[d].available = Moved(item[d], n).available
        /\ item'[d].reserved = Moved(item[d], n).reserved
        /\ item'[d].committed = Moved(item[d], n).committed
        /\ item'[d].exists = TRUE
    BY <2>2, <2>5 DEF ItemRow
  <2>7. /\ item'[d].onHand - item'[d].available = item[d].onHand - item[d].available
        /\ item'[d].reserved = item[d].reserved
        /\ item'[d].committed = item[d].committed
    BY <1>1, <2>3, <2>6, MovedRow
  <2>8. item' \in [Items -> ItemRow]
    BY <1>1, <2>2, <2>4, <2>6
  <2>9. ASSUME NEW j \in Items
        PROVE  /\ item'[j].onHand - item'[j].available = item[j].onHand - item[j].available
               /\ item'[j].reserved = item[j].reserved
               /\ item'[j].committed = item[j].committed
               /\ item[j].exists => item'[j].exists
    BY <2>2, <2>4, <2>6, <2>7
  <2> QED
    BY <2>1, <2>8, <2>9, StockKeepsRows
<1> QED
  BY <1>3, <1>4, <1>5

------------------------------------------------------------------------------
(* Requests.                                                               *)

(* A step that writes no row. *)
LEMMA RowsUntouched ==
    ASSUME RowInv, UNCHANGED <<item, resv>>
    PROVE  RowInv'
<1>1. item' \in [Items -> ItemRow] /\ resv' \in [Reservations -> ReservationRow]
  BY DEF RowInv
<1>2. StockBalance'
  BY DEF RowInv, StockBalance
<1>3. NothingOnNewItems'
  BY DEF RowInv, NothingOnNewItems
<1>4. ReservedIsHeld' /\ CommittedIsFirm'
  BY DEF RowInv, ReservedIsHeld, CommittedIsFirm
<1> QED
  BY <1>1, <1>2, <1>3, <1>4 DEF RowInv

(* Requests that keep their call, or give it up, keep RequestInv. *)
LEMMA RequestsKept ==
    ASSUME RequestInv, req' = req
    PROVE  RequestInv'
BY DEF RequestInv, PendingCallsNameARow

(* A request that is answered. *)
LEMMA AnswerKept ==
    ASSUME RequestInv, NEW p \in Requests,
           NEW r \in Reservations \cup {NoReservation}, NEW a \in Answers,
           Answer(p, r, a)
    PROVE  RequestInv'
<1>1. /\ req' = [req EXCEPT ![p] = [op |-> "idle", on |-> r, todo |-> {}, answer |-> a]]
      /\ req \in [Requests -> Request]
  BY DEF Answer, RequestInv
<1>2. [op |-> "idle", on |-> r, todo |-> {}, answer |-> a] \in Request
  BY DEF Request, Calls
<1>3. req' \in [Requests -> Request]
  BY <1>1, <1>2
<1>4. \A q \in Requests : \/ q # p /\ req'[q] = req[q]
                          \/ req'[q].op = "idle"
  BY <1>1
<1>5. PendingCallsNameARow'
  BY <1>4 DEF RequestInv, PendingCallsNameARow
<1> QED
  BY <1>3, <1>5 DEF RequestInv

(* A request that has read a row and is about to open its transaction. *)
LEMMA PendingKept ==
    ASSUME RequestInv, NEW p \in Requests, NEW r \in Reservations,
           NEW op \in {"release", "consume", "commit", "releaseCommitted"}, Pending(p, op, r)
    PROVE  RequestInv'
<1>1. /\ req' = [req EXCEPT ![p] = [op |-> op, on |-> r, todo |-> {}, answer |-> "none"]]
      /\ req \in [Requests -> Request]
  BY DEF Pending, RequestInv
<1>2. [op |-> op, on |-> r, todo |-> {}, answer |-> "none"] \in Request
  BY DEF Request, Calls, Answers
<1>3. req' \in [Requests -> Request]
  BY <1>1, <1>2
<1>4. \A q \in Requests : \/ q # p /\ req'[q] = req[q]
                          \/ req'[q].on = r
  BY <1>1
<1>5. PendingCallsNameARow'
  BY <1>4 DEF RequestInv, PendingCallsNameARow
<1> QED
  BY <1>3, <1>5 DEF RequestInv

------------------------------------------------------------------------------
(* The invariant is inductive: one lemma per group of actions.             *)

(* A step of release(), consume() or releaseCommitted(). *)
LEMMA CallStep ==
    ASSUME IInv, NEW p \in Requests, Call(p)
    PROVE  IInv'
<1>1. /\ RowInv /\ RequestInv
      /\ resv \in [Reservations -> ReservationRow]
  BY DEF IInv, RowInv
<1>2. UNCHANGED <<item, resv>> => RowInv'
  BY <1>1, RowsUntouched
<1>3. ASSUME NEW r \in Reservations, BeginRelease(p, r)
      PROVE  IInv'
  <2>1. RowInv' /\ resv' = resv
    BY <1>2, <1>3 DEF BeginRelease
  <2>2. \/ Answer(p, r, "ok") \/ Answer(p, r, "conflict") \/ Pending(p, "release", r)
    BY <1>3 DEF BeginRelease
  <2>3. RequestInv'
    BY <1>1, <2>1, <2>2, AnswerKept, PendingKept DEF Answers
  <2> QED
    BY <2>1, <2>3 DEF IInv
<1>4. ASSUME NEW r \in Reservations, BeginConsume(p, r)
      PROVE  IInv'
  <2>1. RowInv' /\ resv' = resv
    BY <1>2, <1>4 DEF BeginConsume
  <2>2. Answer(p, r, "conflict") \/ Pending(p, "consume", r)
    BY <1>4 DEF BeginConsume
  <2>3. RequestInv'
    BY <1>1, <2>1, <2>2, AnswerKept, PendingKept DEF Answers
  <2> QED
    BY <2>1, <2>3 DEF IInv
<1>5. ASSUME NEW r \in Reservations, BeginReleaseCommitted(p, r)
      PROVE  IInv'
  <2>1. RowInv' /\ resv' = resv
    BY <1>2, <1>5 DEF BeginReleaseCommitted
  <2>2. \/ Answer(p, r, "ok") \/ Answer(p, r, "conflict") \/ Pending(p, "releaseCommitted", r)
    BY <1>5 DEF BeginReleaseCommitted
  <2>3. RequestInv'
    BY <1>1, <2>1, <2>2, AnswerKept, PendingKept DEF Answers
  <2> QED
    BY <2>1, <2>3 DEF IInv
<1> DEFINE r == req[p].on
<1>6. ASSUME req[p].op \in {"release", "consume", "commit", "releaseCommitted"}
      PROVE  r \in Reservations
  BY <1>1, <1>6 DEF RequestInv, PendingCallsNameARow
<1>7. CASE FinishRelease(p)
  <2>1. r \in Reservations
    BY <1>6, <1>7 DEF FinishRelease
  <2>2. PICK a \in Answers : Answer(p, r, a)
    BY <1>7 DEF FinishRelease, Answers
  <2>3. RowInv'
    <3>1. CASE resv[r].status = "ACTIVE"
      <4>1. ReleaseRows({r}) /\ {r} \in SUBSET Held(resv)
        BY <1>7, <2>1, <3>1 DEF FinishRelease, Held, WithStatus
      <4> QED
        BY <1>1, <4>1, ReleaseKeepsRows
    <3>2. CASE resv[r].status # "ACTIVE"
      BY <1>2, <1>7, <3>2 DEF FinishRelease
    <3> QED
      BY <3>1, <3>2
  <2> HIDE DEF r
  <2>4. RequestInv'
    BY <1>1, <2>1, <2>2, <2>3, AnswerKept
  <2> QED
    BY <2>3, <2>4 DEF IInv
<1>8. CASE FinishConsume(p)
  <2>1. r \in Reservations
    BY <1>6, <1>8 DEF FinishConsume
  <2>2. PICK a \in Answers : Answer(p, r, a)
    BY <1>8 DEF FinishConsume, Answers
  <2>3. RowInv'
    <3>1. CASE resv[r].status = "ACTIVE" /\ CommitRows({r})
      <4>1. {r} \in SUBSET WithStatus(resv, {"ACTIVE"})
        BY <2>1, <3>1 DEF WithStatus
      <4> QED
        BY <1>1, <3>1, <4>1, CommitKeepsRows
    <3>2. CASE UNCHANGED <<item, resv>>
      BY <1>2, <3>2
    <3> QED
      BY <1>8, <3>1, <3>2 DEF FinishConsume
  <2> HIDE DEF r
  <2>4. RequestInv'
    BY <1>1, <2>1, <2>2, <2>3, AnswerKept
  <2> QED
    BY <2>3, <2>4 DEF IInv
<1>9. CASE ReadClock(p)
  <2>1. RowInv' /\ Pending(p, "commit", r) /\ r \in Reservations
    BY <1>2, <1>6, <1>9 DEF ReadClock
  <2> HIDE DEF r
  <2> QED
    BY <1>1, <2>1, PendingKept DEF IInv
<1>10. CASE FinishReleaseCommitted(p)
  <2>1. r \in Reservations
    BY <1>6, <1>10 DEF FinishReleaseCommitted
  <2>2. PICK a \in Answers : Answer(p, r, a)
    BY <1>10 DEF FinishReleaseCommitted, Answers
  <2>3. RowInv'
    <3>1. CASE resv[r].status = "COMMITTED"
      <4>1. ReleaseRows({r}) /\ {r} \in SUBSET Held(resv)
        BY <1>10, <2>1, <3>1 DEF FinishReleaseCommitted, Held, WithStatus
      <4> QED
        BY <1>1, <4>1, ReleaseKeepsRows
    <3>2. CASE resv[r].status # "COMMITTED"
      BY <1>2, <1>10, <3>2 DEF FinishReleaseCommitted
    <3> QED
      BY <3>1, <3>2
  <2> HIDE DEF r
  <2>4. RequestInv'
    BY <1>1, <2>1, <2>2, <2>3, AnswerKept
  <2> QED
    BY <2>3, <2>4 DEF IInv
<1> QED
  BY <1>3, <1>4, <1>5, <1>7, <1>8, <1>9, <1>10 DEF Call

(* A step of a sweep. *)
LEMMA SweepStep ==
    ASSUME IInv, NEW p \in Requests, Sweep(p)
    PROVE  IInv'
<1>1. /\ RowInv /\ RequestInv
      /\ resv \in [Reservations -> ReservationRow]
      /\ req \in [Requests -> Request]
  BY DEF IInv, RowInv, RequestInv
<1>2. UNCHANGED <<item, resv>> => RowInv'
  BY <1>1, RowsUntouched
<1>3. ASSUME NEW lines, NEW items, BeginSweep(p, lines, items)
      PROVE  IInv'
  <2> DEFINE listed == {r \in Reservations : /\ resv[r].status = "ACTIVE"
                                             /\ resv[r].expired
                                             /\ resv[r].line \in lines
                                             /\ resv[r].item \in items}
             next == [op |-> "sweep", on |-> NoReservation, answer |-> "none", todo |-> listed]
  <2>1. req' = [req EXCEPT ![p] = next] /\ UNCHANGED <<item, resv>>
    BY <1>3 DEF BeginSweep
  <2>2. next \in Request
    BY DEF Request, Calls, Answers
  <2>3. req' \in [Requests -> Request]
    BY <1>1, <2>1, <2>2
  <2>4. /\ req'[p] = next
        /\ \A q \in Requests : q # p => req'[q] = req[q]
    BY <1>1, <2>1
  <2>5. PendingCallsNameARow'
    BY <1>1, <2>4 DEF RequestInv, PendingCallsNameARow
  <2> QED
    BY <1>2, <2>1, <2>3, <2>5 DEF IInv, RequestInv
<1>4. ASSUME NEW r \in Reservations, SweepRow(p, r)
      PROVE  IInv'
  <2>1. CASE resv[r].status = "COMMITTED" /\ Answer(p, r, "conflict") /\ UNCHANGED <<item, resv>>
    <3>1. RowInv'
      BY <1>2, <2>1
    <3>2. RequestInv'
      BY <1>1, <2>1, <3>1, AnswerKept DEF Answers
    <3> QED
      BY <3>1, <3>2 DEF IInv
  <2>2. CASE req' = [req EXCEPT ![p].todo = @ \ {r}]
    <3>1. RowInv'
      <4>1. CASE resv[r].status = "ACTIVE"
        <5>1. ReleaseRows({r}) /\ {r} \in SUBSET Held(resv)
          BY <1>4, <4>1 DEF SweepRow, Held, WithStatus
        <5> QED
          BY <1>1, <5>1, ReleaseKeepsRows
      <4>2. CASE UNCHANGED <<item, resv>>
        BY <1>2, <4>2
      <4> QED
        BY <1>4, <4>1, <4>2 DEF SweepRow
    <3>2. \A q \in Requests : /\ req'[q].op = req[q].op
                              /\ req'[q].on = req[q].on
                              /\ req'[q].answer = req[q].answer
                              /\ req'[q].todo \in SUBSET req[q].todo
      BY <1>1, <2>2 DEF Request
    <3>3. req' \in [Requests -> Request]
      BY <1>1, <2>2 DEF Request
    <3>4. PendingCallsNameARow'
      BY <1>1, <3>2 DEF RequestInv, PendingCallsNameARow
    <3> QED
      BY <3>1, <3>3, <3>4 DEF IInv, RequestInv
  <2> QED
    BY <1>4, <2>1, <2>2 DEF SweepRow
<1>5. CASE EndSweep(p)
  <2>1. RowInv'
    BY <1>2, <1>5 DEF EndSweep
  <2>2. Answer(p, NoReservation, "ok")
    BY <1>5 DEF EndSweep
  <2>3. RequestInv'
    BY <1>1, <2>1, <2>2, AnswerKept DEF Answers
  <2> QED
    BY <2>1, <2>3 DEF IInv
<1> QED
  BY <1>3, <1>4, <1>5 DEF Sweep

(* A stock movement or a new hold. *)
LEMMA StockActionStep ==
    ASSUME IInv, NEW i \in Items, Stock(i)
    PROVE  IInv'
<1>1. RowInv /\ RequestInv
  BY DEF IInv
<1>2. ASSUME NEW r \in Reservations, NEW n \in Quantity, NEW l \in Lines \cup {NoLine},
             Reserve(r, i, n, l)
      PROVE  IInv'
  <2>1. RowInv' /\ req' = req
    BY <1>1, <1>2, ReserveKeepsRows DEF Reserve
  <2> QED
    BY <1>1, <2>1, RequestsKept DEF IInv
<1>3. ASSUME NEW n \in Nat,
             \/ Initialize(i, n)
             \/ StockIn(i, n)
             \/ StockOut(i, n)
             \/ RestockFromReturn(i, n)
             \/ \E d \in Items : Transfer(i, d, n)
      PROVE  IInv'
  <2>1. RowInv' /\ resv' = resv /\ req' = req
    BY <1>1, <1>3, StockStep
  <2> QED
    BY <1>1, <2>1, RequestsKept DEF IInv
<1>4. Quantity \in SUBSET Nat /\ 0 .. MaxQty \in SUBSET Nat
  BY InventoryAssumption DEF Quantity
<1>5. CASE \E n \in 0 .. MaxQty : Initialize(i, n)
  BY <1>3, <1>4, <1>5
<1>6. CASE \E n \in Quantity : \/ StockIn(i, n)
                               \/ StockOut(i, n)
                               \/ RestockFromReturn(i, n)
                               \/ \E d \in Items : Transfer(i, d, n)
  BY <1>3, <1>4, <1>6
<1> QED
  BY <1>2, <1>5, <1>6 DEF Stock

(* The shipment of an order. *)
LEMMA FulfillStep ==
    ASSUME IInv, NEW o \in Orders, Fulfill(o)
    PROVE  IInv'
<1>1. RowInv /\ RequestInv /\ resv \in [Reservations -> ReservationRow]
  BY DEF IInv, RowInv
<1>2. /\ LatestOfOrder(o) \in SUBSET Firm(resv)
      /\ ShipRows(LatestOfOrder(o))
      /\ req' = req
  BY DEF Fulfill
<1>3. RowInv'
  BY <1>1, <1>2, ShipKeepsRows
<1> QED
  BY <1>1, <1>2, <1>3, RequestsKept DEF IInv

(* The clock passing an expiry. *)
LEMMA LapseStep ==
    ASSUME IInv, NEW r \in Reservations, Lapse(r)
    PROVE  IInv'
<1>1. RowInv /\ RequestInv /\ resv \in [Reservations -> ReservationRow]
  BY DEF IInv, RowInv
<1>2. resv' = [resv EXCEPT ![r].expired = TRUE] /\ req' = req
  BY DEF Lapse
<1>3. RowInv'
  BY <1>1, LapseKeepsRows
<1> QED
  BY <1>1, <1>2, <1>3, RequestsKept DEF IInv

(* Before the first request nothing is held and no item is initialized. *)
LEMMA InitIInv == Init => IInv
<1> SUFFICES ASSUME Init PROVE IInv
  OBVIOUS
<1>1. item \in [Items -> ItemRow]
  BY DEF Init, ItemRow
<1>2. resv \in [Reservations -> ReservationRow]
  BY InventoryAssumption DEF Init, ReservationRow, Status
<1>3. RequestInv
  BY DEF Init, RequestInv, Request, Calls, Answers, PendingCallsNameARow
<1>4. Held(resv) = {} /\ Firm(resv) = {}
  BY DEF Init, Held, Firm, WithStatus
<1>5. \A i : Total(resv, {}, i) = 0
  <2>1. \A i : Units(resv, {}, i) = {}
    BY DEF Units
  <2> QED
    BY <2>1, FS_EmptySet DEF Total
<1>6. \A i \in Items : /\ item[i].onHand = 0 /\ item[i].available = 0
                       /\ item[i].reserved = 0 /\ item[i].committed = 0
  BY DEF Init
<1>7. StockBalance /\ ReservedIsHeld /\ CommittedIsFirm /\ NothingOnNewItems
  BY <1>4, <1>5, <1>6 DEF StockBalance, ReservedIsHeld, CommittedIsFirm, NothingOnNewItems
<1> QED
  BY <1>1, <1>2, <1>3, <1>7 DEF IInv, RowInv

(* Every step keeps the invariant. *)
LEMMA NextIInv == IInv /\ [Next]_vars => IInv'
<1> SUFFICES ASSUME IInv, [Next]_vars PROVE IInv'
  OBVIOUS
<1>1. CASE \E i \in Items : Stock(i)
  BY <1>1, StockActionStep
<1>2. CASE \E r \in Reservations : Lapse(r)
  BY <1>2, LapseStep
<1>3. CASE \E p \in Requests : Call(p)
  BY <1>3, CallStep
<1>4. CASE \E p \in Requests : Sweep(p)
  BY <1>4, SweepStep
<1>5. CASE \E o \in Orders : Fulfill(o)
  BY <1>5, FulfillStep
<1>6. CASE UNCHANGED vars
  <2>1. RowInv /\ RequestInv /\ UNCHANGED <<item, resv>> /\ req' = req
    BY <1>6 DEF IInv, vars
  <2> QED
    BY <2>1, RowsUntouched, RequestsKept DEF IInv
<1> QED
  BY <1>1, <1>2, <1>3, <1>4, <1>5, <1>6 DEF Next

------------------------------------------------------------------------------
(* The theorems.                                                           *)

(* The inductive invariant holds in every reachable state. *)
THEOREM Inductive == Spec => []IInv
<1>1. Init => IInv
  BY InitIInv
<1>2. IInv /\ [Next]_vars => IInv'
  BY NextIInv
<1> QED
  BY <1>1, <1>2, PTL DEF Spec

(* Every counter stays a natural number and every row and request keeps its *)
(* type: no interleaving of the service's methods drives a counter below 0. *)
THEOREM TypeCorrect == Spec => []TypeOK
<1>1. IInv => TypeOK
  BY DEF IInv, RowInv, RequestInv, TypeOK
<1> QED
  BY <1>1, Inductive, PTL

(* available = onHand - reserved on every row, never negative: the          *)
(* inventory is not oversold by any interleaving of its methods.            *)
THEOREM StockIsNeverOversold == Spec => []StockBalance
<1>1. IInv => StockBalance
  BY DEF IInv, RowInv
<1> QED
  BY <1>1, Inductive, PTL

(* reservedQuantity is exactly the sum of the live reservations of the row. *)
THEOREM ReservedCountsLiveHolds == Spec => []ReservedIsHeld
<1>1. IInv => ReservedIsHeld
  BY DEF IInv, RowInv
<1> QED
  BY <1>1, Inductive, PTL

(* committedQuantity is exactly the sum of the firm reservations.           *)
THEOREM CommittedCountsFirmHolds == Spec => []CommittedIsFirm
<1>1. IInv => CommittedIsFirm
  BY DEF IInv, RowInv
<1> QED
  BY <1>1, Inductive, PTL

------------------------------------------------------------------------------
(* What can become of one row.                                             *)

(* A row in use names the item its units are held of. *)
UsedRowsNameAnItem ==
    \A r \in Reservations : resv[r].status # "NONE" => resv[r].item \in Items

(* The ways a step writes to the reservation table. *)
ARowIsReserved ==
    \E r \in Reservations, i \in Items, q \in Quantity, l \in Lines \cup {NoLine} :
        ReserveRow(r, i, q, l)
AnActiveRowIsDecided ==
    \E r \in Reservations : /\ resv[r].status = "ACTIVE"
                            /\ ReleaseRows({r}) \/ CommitRows({r})
ACommittedRowIsGivenUp ==
    \E p \in Requests : /\ req[p].op = "releaseCommitted"
                        /\ resv[req[p].on].status = "COMMITTED"
                        /\ ReleaseRows({req[p].on})
FirmRowsShip == \E S \in SUBSET Firm(resv) : ShipRows(S)

(* There are no others. *)
LEMMA RowSteps ==
    ASSUME IInv, [Next]_vars
    PROVE  \/ UNCHANGED resv
           \/ \E r \in Reservations : Lapse(r)
           \/ ARowIsReserved \/ AnActiveRowIsDecided \/ ACommittedRowIsGivenUp \/ FirmRowsShip
<1>1. ASSUME NEW i \in Items, Stock(i) PROVE UNCHANGED resv \/ ARowIsReserved
  BY <1>1 DEF Stock, Initialize, StockIn, StockOut, RestockFromReturn, Transfer, Reserve,
     ARowIsReserved
<1>2. ASSUME NEW p \in Requests, Call(p)
      PROVE  UNCHANGED resv \/ AnActiveRowIsDecided \/ ACommittedRowIsGivenUp
  <2>1. req[p].op \in {"release", "consume", "commit"} => req[p].on \in Reservations
    BY DEF IInv, RequestInv, PendingCallsNameARow
  <2>2. CASE FinishRelease(p)
    BY <2>1, <2>2 DEF FinishRelease, AnActiveRowIsDecided
  <2>3. CASE FinishConsume(p)
    BY <2>1, <2>3 DEF FinishConsume, AnActiveRowIsDecided
  <2>4. CASE FinishReleaseCommitted(p)
    BY <2>4 DEF FinishReleaseCommitted, ACommittedRowIsGivenUp
  <2> QED
    BY <1>2, <2>2, <2>3, <2>4 DEF Call, BeginRelease, BeginConsume, ReadClock, BeginReleaseCommitted
<1>3. ASSUME NEW p \in Requests, Sweep(p) PROVE UNCHANGED resv \/ AnActiveRowIsDecided
  BY <1>3 DEF Sweep, BeginSweep, SweepRow, EndSweep, AnActiveRowIsDecided
<1>4. ASSUME NEW o \in Orders, Fulfill(o) PROVE FirmRowsShip
  BY <1>4 DEF Fulfill, FirmRowsShip
<1> QED
  BY <1>1, <1>2, <1>3, <1>4 DEF Next, vars

(* A row keeps the item it was reserved with. *)
LEMMA UsedRowsKeepTheirItem ==
    ASSUME IInv, UsedRowsNameAnItem, [Next]_vars
    PROVE  UsedRowsNameAnItem'
<1>1. resv \in [Reservations -> ReservationRow]
  BY DEF IInv, RowInv
<1>2. ASSUME NEW S, \A r \in S : resv[r].status # "NONE",
             ReleaseRows(S) \/ CommitRows(S) \/ ShipRows(S)
      PROVE  UsedRowsNameAnItem'
  <2>1. \A r \in Reservations : /\ resv'[r].item = resv[r].item
                                /\ resv[r].status = "NONE" => resv'[r].status = "NONE"
    <3>1. PICK st \in {"RELEASED", "COMMITTED"} :
             resv' = [r \in Reservations |->
                        IF r \in S THEN [resv[r] EXCEPT !.status = st] ELSE resv[r]]
      BY <1>2 DEF ReleaseRows, CommitRows, ShipRows
    <3> QED
      BY <1>1, <1>2, <3>1 DEF ReservationRow
  <2> QED
    BY <2>1 DEF UsedRowsNameAnItem
<1>3. CASE UNCHANGED resv
  BY <1>3 DEF UsedRowsNameAnItem
<1>4. CASE \E r \in Reservations : Lapse(r)
  BY <1>1, <1>4 DEF Lapse, UsedRowsNameAnItem, ReservationRow
<1>5. CASE ARowIsReserved
  BY <1>1, <1>5 DEF ARowIsReserved, ReserveRow, UsedRowsNameAnItem
<1>6. CASE AnActiveRowIsDecided
  <2>1. PICK r \in Reservations : /\ resv[r].status = "ACTIVE"
                                  /\ ReleaseRows({r}) \/ CommitRows({r})
    BY <1>6 DEF AnActiveRowIsDecided
  <2>2. \A s \in {r} : resv[s].status # "NONE"
    BY <2>1
  <2> QED
    BY <1>2, <2>1, <2>2
<1>7. CASE ACommittedRowIsGivenUp
  <2>1. PICK p \in Requests : /\ resv[req[p].on].status = "COMMITTED"
                              /\ ReleaseRows({req[p].on})
    BY <1>7 DEF ACommittedRowIsGivenUp
  <2>2. \A s \in {req[p].on} : resv[s].status # "NONE"
    BY <2>1
  <2> QED
    BY <1>2, <2>1, <2>2
<1>8. CASE FirmRowsShip
  <2>1. PICK S \in SUBSET Firm(resv) : ShipRows(S)
    BY <1>8 DEF FirmRowsShip
  <2>2. \A s \in S : resv[s].status # "NONE"
    BY DEF Firm, WithStatus
  <2> QED
    BY <1>2, <2>1, <2>2
<1> QED
  BY <1>3, <1>4, <1>5, <1>6, <1>7, <1>8, RowSteps

(* When rows ship, their item loses at least the units of any one of them. *)
LEMMA ShipmentTakesTheUnits ==
    ASSUME IInv, NEW S \in SUBSET Firm(resv), ShipRows(S), NEW r \in S, resv[r].item \in Items
    PROVE  item'[resv[r].item].onHand <= item[resv[r].item].onHand - resv[r].qty
<1> DEFINE i == resv[r].item
<1>1. /\ item \in [Items -> ItemRow] /\ resv \in [Reservations -> ReservationRow]
      /\ S \in SUBSET Reservations /\ {r} \in SUBSET S /\ r \in Reservations
  BY DEF IInv, RowInv, Firm, WithStatus
<1>2. resv[r].qty \in 0 .. MaxQty /\ item[i].onHand \in Nat
  BY <1>1 DEF ReservationRow, ItemRow
<1>3. Total(resv, {r}, i) = resv[r].qty
  BY <1>1, <1>2, TotalSingle
<1>4. Total(resv, {r}, i) <= Total(resv, S, i)
  BY <1>1, TotalDifference
<1>5. Total(resv, S, i) \in Nat
  BY <1>1, UnitsFinite
<1>6. item'[i].onHand = item[i].onHand - Total(resv, S, i)
  BY <1>1 DEF ShipRows, ItemRow
<1> HIDE DEF i
<1> QED
  BY <1>2, <1>3, <1>4, <1>5, <1>6, InventoryAssumption DEF i

(* A firm hold ends by shipment of its units or by an explicit release of   *)
(* committed stock, never by expiry or a plain release; and a row that was  *)
(* released is never written again.                                         *)
THEOREM FirmHoldsEndOnPurpose == Spec => FirmHoldsAreKept
<1> DEFINE Kept ==
      \A r \in Reservations :
         /\ resv[r].status = "COMMITTED" /\ resv'[r].status # "COMMITTED" =>
              \/ \E p \in Requests : req[p].op = "releaseCommitted" /\ req[p].on = r
              \/ item'[resv[r].item].onHand <= item[resv[r].item].onHand - resv[r].qty
         /\ resv[r].status = "RELEASED" => resv'[r] = resv[r]
<1>1. ASSUME IInv, UsedRowsNameAnItem, [Next]_vars PROVE Kept
  <2>1. resv \in [Reservations -> ReservationRow]
    BY <1>1 DEF IInv, RowInv
  <2>2. CASE UNCHANGED resv
    BY <2>2
  <2>3. CASE \E r \in Reservations : Lapse(r)
    BY <2>1, <2>3 DEF Lapse, ReservationRow
  <2>4. CASE ARowIsReserved
    BY <2>1, <2>4 DEF ARowIsReserved, ReserveRow
  <2>5. CASE AnActiveRowIsDecided
    BY <2>1, <2>5 DEF AnActiveRowIsDecided, ReleaseRows, CommitRows
  <2>6. CASE ACommittedRowIsGivenUp
    BY <2>1, <2>6 DEF ACommittedRowIsGivenUp, ReleaseRows
  <2>7. CASE FirmRowsShip
    <3>1. PICK S \in SUBSET Firm(resv) : ShipRows(S)
      BY <2>7 DEF FirmRowsShip
    <3>2. \A r \in S : /\ r \in Reservations /\ resv[r].status = "COMMITTED"
                       /\ resv[r].item \in Items
      BY <1>1 DEF Firm, WithStatus, UsedRowsNameAnItem
    <3>3. \A r \in S : item'[resv[r].item].onHand <= item[resv[r].item].onHand - resv[r].qty
      BY <1>1, <3>1, <3>2, ShipmentTakesTheUnits
    <3>4. \A r \in Reservations : r \notin S => resv'[r] = resv[r]
      BY <3>1 DEF ShipRows
    <3> QED
      BY <3>2, <3>3, <3>4
  <2> QED
    BY <1>1, <2>2, <2>3, <2>4, <2>5, <2>6, <2>7, RowSteps
<1>2. Init => UsedRowsNameAnItem
  BY DEF Init, UsedRowsNameAnItem
<1>3. IInv /\ UsedRowsNameAnItem /\ [Next]_vars => UsedRowsNameAnItem'
  BY UsedRowsKeepTheirItem
<1>4. IInv /\ UsedRowsNameAnItem /\ [Next]_vars => [Kept]_vars
  BY <1>1
<1> HIDE DEF Kept
<1>5. Spec => [][Kept]_vars
  BY <1>2, <1>3, <1>4, Inductive, PTL DEF Spec
<1> QED
  BY <1>5 DEF FirmHoldsAreKept, Kept

------------------------------------------------------------------------------
(* The pool.                                                               *)

(* An item that has no row yet has no stock, so that initialize() receives *)
(* what it writes.                                                         *)
NewItemsAreEmpty == \A i \in Items : ~ item[i].exists => item[i].onHand = 0

PoolInv == IInv /\ NewItemsAreEmpty

------------------------------------------------------------------------------
(* The ways a step writes to either table. *)
StockMoves ==
    \E i \in Items : \/ \E n \in 0 .. MaxQty : Initialize(i, n)
                     \/ \E n \in Quantity : \/ StockIn(i, n) \/ StockOut(i, n)
                                            \/ RestockFromReturn(i, n)
                                            \/ \E d \in Items : Transfer(i, d, n)

ALiveRowIsReleased ==
    \E r \in Reservations : resv[r].status \in {"ACTIVE", "COMMITTED"} /\ ReleaseRows({r})
AnActiveRowIsCommitted ==
    \E r \in Reservations : resv[r].status = "ACTIVE" /\ CommitRows({r})

LEMMA TableSteps ==
    ASSUME IInv, [Next]_vars
    PROVE  \/ UNCHANGED <<item, resv>>
           \/ \E r \in Reservations : Lapse(r)
           \/ StockMoves \/ ARowIsReserved
           \/ ALiveRowIsReleased \/ AnActiveRowIsCommitted \/ FirmRowsShip
<1>1. ASSUME NEW i \in Items, Stock(i) PROVE StockMoves \/ ARowIsReserved
  BY <1>1 DEF Stock, Reserve, StockMoves, ARowIsReserved
<1>2. ASSUME NEW p \in Requests, Call(p)
      PROVE  UNCHANGED <<item, resv>> \/ ALiveRowIsReleased \/ AnActiveRowIsCommitted
  <2>1. req[p].op \in {"release", "consume", "commit", "releaseCommitted"} => req[p].on \in Reservations
    BY DEF IInv, RequestInv, PendingCallsNameARow
  <2>2. CASE FinishRelease(p)
    BY <2>1, <2>2 DEF FinishRelease, ALiveRowIsReleased
  <2>3. CASE FinishConsume(p)
    BY <2>1, <2>3 DEF FinishConsume, AnActiveRowIsCommitted
  <2>4. CASE FinishReleaseCommitted(p)
    BY <2>1, <2>4 DEF FinishReleaseCommitted, ALiveRowIsReleased
  <2> QED
    BY <1>2, <2>2, <2>3, <2>4 DEF Call, BeginRelease, BeginConsume, ReadClock, BeginReleaseCommitted
<1>3. ASSUME NEW p \in Requests, Sweep(p)
      PROVE  UNCHANGED <<item, resv>> \/ ALiveRowIsReleased
  BY <1>3 DEF Sweep, BeginSweep, SweepRow, EndSweep, ALiveRowIsReleased
<1>4. ASSUME NEW o \in Orders, Fulfill(o) PROVE FirmRowsShip
  BY <1>4 DEF Fulfill, FirmRowsShip
<1> QED
  BY <1>1, <1>2, <1>3, <1>4 DEF Next, vars

(* Updates of reservation rows leave physical stock and the existence of   *)
(* items alone, but for a shipment.                                        *)
LEMMA EmptyStaysEmpty ==
    ASSUME PoolInv, [Next]_vars
    PROVE  NewItemsAreEmpty'
<1>1. item \in [Items -> ItemRow]
  BY DEF PoolInv, IInv, RowInv
<1>2. CASE UNCHANGED <<item, resv>> \/ \E r \in Reservations : Lapse(r)
  BY <1>2 DEF PoolInv, NewItemsAreEmpty, Lapse
<1>3. CASE StockMoves
  <2>1. PICK i \in Items, n \in Nat :
           \/ Initialize(i, n) \/ StockIn(i, n) \/ StockOut(i, n) \/ RestockFromReturn(i, n)
           \/ \E d \in Items : Transfer(i, d, n)
    BY <1>3, InventoryAssumption DEF StockMoves, Quantity
  <2>2. CASE Initialize(i, n)
    BY <1>1, <2>2 DEF Initialize, PoolInv, NewItemsAreEmpty, ItemRow
  <2>3. CASE StockIn(i, n) \/ StockOut(i, n) \/ RestockFromReturn(i, n)
    BY <1>1, <2>3 DEF StockIn, StockOut, RestockFromReturn, Moved, PoolInv, NewItemsAreEmpty, ItemRow
  <2>4. ASSUME NEW d \in Items, Transfer(i, d, n) PROVE NewItemsAreEmpty'
    BY <1>1, <2>4 DEF Transfer, Moved, PoolInv, NewItemsAreEmpty, ItemRow
  <2> QED
    BY <2>1, <2>2, <2>3, <2>4
<1>4. CASE ARowIsReserved
  BY <1>1, <1>4 DEF ARowIsReserved, ReserveRow, PoolInv, NewItemsAreEmpty, ItemRow
<1>5. CASE ALiveRowIsReleased
  <2>1. ASSUME NEW i \in Items PROVE item'[i].exists = item[i].exists /\ item'[i].onHand = item[i].onHand
    <3>1. item[i] \in ItemRow
      BY <1>1
    <3> QED
      BY <1>5, <3>1 DEF ALiveRowIsReleased, ReleaseRows, ItemRow
  <2> QED
    BY <2>1 DEF PoolInv, NewItemsAreEmpty
<1>6. CASE AnActiveRowIsCommitted
  <2>1. ASSUME NEW i \in Items PROVE item'[i].exists = item[i].exists /\ item'[i].onHand = item[i].onHand
    <3>1. item[i] \in ItemRow
      BY <1>1
    <3> QED
      BY <1>6, <3>1 DEF AnActiveRowIsCommitted, CommitRows, ItemRow
  <2> QED
    BY <2>1 DEF PoolInv, NewItemsAreEmpty
<1>7. CASE FirmRowsShip
  <2>1. PICK S \in SUBSET Firm(resv) : ShipRows(S)
    BY <1>7 DEF FirmRowsShip
  <2>2. ASSUME NEW i \in Items, ~ item'[i].exists PROVE item'[i].onHand = 0
    <3>1. /\ item'[i].exists = item[i].exists
          /\ item'[i].onHand = item[i].onHand - Total(resv, S, i)
          /\ item[i].onHand \in Nat /\ item[i].committed \in Nat
      BY <1>1, <2>1 DEF ShipRows, ItemRow
    <3>2. item[i].onHand = 0 /\ item[i].committed = 0
      BY <2>2, <3>1 DEF PoolInv, NewItemsAreEmpty, IInv, RowInv, NothingOnNewItems
    <3>3. Total(resv, S, i) <= Total(resv, Firm(resv), i) /\ Total(resv, S, i) \in Nat
      BY HeldAndFirm, TotalDifference, UnitsFinite
    <3>4. Total(resv, Firm(resv), i) = 0
      BY <3>2 DEF PoolInv, IInv, RowInv, CommittedIsFirm
    <3> QED
      BY <3>1, <3>2, <3>3, <3>4
  <2> QED
    BY <2>2 DEF NewItemsAreEmpty
<1> QED
  BY <1>2, <1>3, <1>4, <1>5, <1>6, <1>7, TableSteps DEF PoolInv

------------------------------------------------------------------------------
(* The values of the pool.                                                 *)

(* A row read as a hold. *)
LEMMA HoldAt ==
    ASSUME resv \in [Reservations -> ReservationRow], NEW r \in Reservations
    PROVE  /\ HoldOf[r] = [stage |-> Stage(resv[r].status), item |-> resv[r].item, qty |-> resv[r].qty]
           /\ HoldOf[r].stage = Stage(resv[r].status)
           /\ HoldOf[r].item = resv[r].item /\ HoldOf[r].qty = resv[r].qty
           /\ HoldOf[r].stage = "unused" <=> resv[r].status = "NONE"
           /\ HoldOf[r].stage = "temporary" <=> resv[r].status = "ACTIVE"
           /\ HoldOf[r].stage = "firm" <=> resv[r].status = "COMMITTED"
<1>1. resv[r].status \in Status
  BY DEF ReservationRow
<1> QED
  BY <1>1 DEF HoldOf, Stage, Status

(* What the live holds take is the units of the live rows. *)
LEMMA PoolUnits ==
    ASSUME resv \in [Reservations -> ReservationRow], NEW i
    PROVE  Pool!LiveUnits(i) = Units(resv, Held(resv), i)
<1>1. ASSUME NEW u \in Reservations \X Quantity
      PROVE  /\ HoldOf[u[1]].stage \in {"temporary", "firm"} <=> u[1] \in Held(resv)
             /\ HoldOf[u[1]].item = resv[u[1]].item /\ HoldOf[u[1]].qty = resv[u[1]].qty
  BY HoldAt DEF Held, WithStatus
<1> QED
  BY <1>1 DEF Pool!LiveUnits, Units, Held, WithStatus, Quantity

(* StockPool counts with the same operator. *)
LEMMA PoolCounts == ASSUME NEW S PROVE Pool!Cardinality(S) = Cardinality(S)
BY DEF Pool!Cardinality, Cardinality

(* What is free in the pool is the cached counter of available stock. *)
LEMMA FreeIsAvailable ==
    ASSUME RowInv, NEW i \in Items
    PROVE  Pool!Free(i) = item[i].available /\ OnHand[i] = item[i].onHand
<1>1. resv \in [Reservations -> ReservationRow] /\ OnHand[i] = item[i].onHand
  BY DEF RowInv, OnHand
<1>2. Pool!Cardinality(Pool!LiveUnits(i)) = item[i].reserved
  BY <1>1, PoolUnits, PoolCounts DEF RowInv, ReservedIsHeld, Total
<1> QED
  BY <1>1, <1>2, RowInvAt DEF Pool!Free

(* Rows that change nothing but their status change nothing else as holds. *)
LEMMA HoldsMove ==
    ASSUME resv \in [Reservations -> ReservationRow], NEW S \in SUBSET Reservations,
           NEW st \in Status,
           resv' = [r \in Reservations |->
                      IF r \in S THEN [resv[r] EXCEPT !.status = st] ELSE resv[r]]
    PROVE  HoldOf' = [r \in Reservations |->
                        IF r \in S THEN [HoldOf[r] EXCEPT !.stage = Stage(st)] ELSE HoldOf[r]]
<1>1. ASSUME NEW r \in Reservations
      PROVE  [stage |-> Stage(resv'[r].status), item |-> resv'[r].item, qty |-> resv'[r].qty]
               = IF r \in S THEN [HoldOf[r] EXCEPT !.stage = Stage(st)] ELSE HoldOf[r]
  <2>1. resv[r] \in ReservationRow
    OBVIOUS
  <2>2. CASE r \in S
    <3>1. /\ resv'[r].status = st /\ resv'[r].item = resv[r].item /\ resv'[r].qty = resv[r].qty
      BY <2>1, <2>2 DEF ReservationRow
    <3>2. [HoldOf[r] EXCEPT !.stage = Stage(st)]
            = [stage |-> Stage(st), item |-> resv[r].item, qty |-> resv[r].qty]
      BY DEF HoldOf
    <3> QED
      BY <2>2, <3>1, <3>2
  <2>3. CASE r \notin S
    BY <2>3, HoldAt
  <2> QED
    BY <2>2, <2>3
<1>2. HoldOf' = [r \in Reservations |-> [stage |-> Stage(resv'[r].status), item |-> resv'[r].item,
                                         qty |-> resv'[r].qty]]
  BY DEF HoldOf, Stage
<1> QED
  BY <1>1, <1>2

------------------------------------------------------------------------------
(* The steps.                                                              *)

LEMMA MovesInThePool ==
    ASSUME PoolInv, StockMoves
    PROVE  Pool!Next \/ UNCHANGED <<OnHand, HoldOf>>
<1>1. /\ item \in [Items -> ItemRow] /\ RowInv
      /\ OnHand \in [Items -> Nat]
  BY DEF PoolInv, IInv, RowInv, OnHand, ItemRow
<1>2. resv' = resv => HoldOf' = HoldOf
  BY DEF HoldOf, Stage
<1>3. OnHand' = [i \in Items |-> item'[i].onHand]
  BY DEF OnHand
<1>4. ASSUME NEW i \in Items, NEW n \in 0 .. MaxQty, Initialize(i, n)
      PROVE  Pool!Next \/ UNCHANGED <<OnHand, HoldOf>>
  <2>1. OnHand[i] = 0 /\ n \in Nat
    BY <1>4, InventoryAssumption DEF Initialize, PoolInv, NewItemsAreEmpty, OnHand
  <2>2. OnHand' = [OnHand EXCEPT ![i] = @ + n]
    <3>1. \A j \in Items : item'[j].onHand = IF j = i THEN n ELSE OnHand[j]
      BY <1>1, <1>4 DEF Initialize, OnHand
    <3>2. OnHand[i] + n = n
      BY <2>1
    <3> QED
      BY <1>1, <1>3, <3>1, <3>2
  <2>3. CASE n = 0
    BY <1>1, <1>2, <1>4, <2>1, <2>2, <2>3 DEF Initialize
  <2>4. CASE n # 0
    <3>1. n \in 1 .. MaxQty
      BY <2>4, InventoryAssumption
    <3>2. Pool!Receive(i, n)
      BY <1>2, <1>4, <2>1, <2>2 DEF Initialize, Pool!Receive
    <3> QED
      BY <3>1, <3>2 DEF Pool!Next
  <2> QED
    BY <2>3, <2>4
<1>5. ASSUME NEW i \in Items, NEW n \in Quantity, StockIn(i, n) \/ RestockFromReturn(i, n)
      PROVE  Pool!Next
  <2>1. OnHand' = [OnHand EXCEPT ![i] = @ + n] /\ OnHand[i] + n <= MaxStock
    <3>1. n \in Int /\ item' = [item EXCEPT ![i] = Moved(@, n)] /\ OnHand[i] + n <= MaxStock
      BY <1>5, InventoryAssumption DEF StockIn, RestockFromReturn, OnHand, Quantity
    <3>2. \A j \in Items : item'[j].onHand = IF j = i THEN OnHand[i] + n ELSE OnHand[j]
      BY <1>1, <3>1, MovedRow DEF OnHand
    <3> QED
      BY <1>1, <1>3, <3>1, <3>2
  <2>2. Pool!Receive(i, n)
    BY <1>2, <1>5, <2>1 DEF StockIn, RestockFromReturn, Pool!Receive
  <2> QED
    BY <2>2 DEF Pool!Next, Quantity
<1>6. ASSUME NEW i \in Items, NEW n \in Quantity, StockOut(i, n)
      PROVE  Pool!Next
  <2>1. n \in Nat /\ Pool!Free(i) >= n
    BY <1>1, <1>6, FreeIsAvailable, InventoryAssumption DEF StockOut, Quantity
  <2>2. OnHand' = [OnHand EXCEPT ![i] = @ - n]
    BY <1>1, <1>3, <1>6, <2>1 DEF StockOut, Moved, OnHand, ItemRow
  <2>3. n <= Pool!Free(i)
    BY <1>1, <2>1, FreeIsAvailable, RowInvAt
  <2>4. Pool!Remove(i, n)
    BY <1>2, <1>6, <2>2, <2>3 DEF StockOut, Pool!Remove
  <2> QED
    BY <2>4 DEF Pool!Next, Quantity
<1>7. ASSUME NEW i \in Items, NEW n \in Quantity, NEW d \in Items, Transfer(i, d, n)
      PROVE  Pool!Next
  <2>1. n \in Nat /\ item[i].available >= n /\ i # d /\ resv' = resv
    BY <1>7, InventoryAssumption DEF Transfer, Quantity
  <2>2. OnHand' = [OnHand EXCEPT ![i] = @ - n, ![d] = @ + n]
    BY <1>1, <1>3, <1>7, <2>1 DEF Transfer, Moved, OnHand, ItemRow
  <2>3. n <= Pool!Free(i)
    BY <1>1, <2>1, FreeIsAvailable, RowInvAt
  <2>4. Pool!Move(i, d, n)
    BY <1>2, <2>1, <2>2, <2>3 DEF Pool!Move
  <2> QED
    BY <2>4 DEF Pool!Next, Quantity
<1> QED
  BY <1>4, <1>5, <1>6, <1>7 DEF StockMoves

LEMMA ReservationIsTaken ==
    ASSUME PoolInv, ARowIsReserved
    PROVE  Pool!Next
<1>1. /\ item \in [Items -> ItemRow] /\ RowInv
      /\ resv \in [Reservations -> ReservationRow]
  BY DEF PoolInv, IInv, RowInv
<1>2. PICK r \in Reservations, i \in Items, n \in Quantity, l \in Lines \cup {NoLine} :
         ReserveRow(r, i, n, l)
  BY DEF ARowIsReserved
<1>3. OnHand' = OnHand
  BY <1>1, <1>2 DEF ReserveRow, OnHand, ItemRow
<1>4. ASSUME NEW s \in Reservations
      PROVE  [stage |-> Stage(resv'[s].status), item |-> resv'[s].item, qty |-> resv'[s].qty]
               = IF s = r THEN [stage |-> "temporary", item |-> i, qty |-> n] ELSE HoldOf[s]
  <2>1. resv'[s] = IF s = r THEN [status |-> "ACTIVE", item |-> i, qty |-> n, line |-> l,
                                  expired |-> FALSE, at |-> Cardinality(Existing) + 1]
                   ELSE resv[s]
    BY <1>1, <1>2 DEF ReserveRow
  <2>2. Stage("ACTIVE") = "temporary"
    BY DEF Stage
  <2> QED
    BY <1>1, <2>1, <2>2, HoldAt
<1>5. HoldOf' = [s \in Reservations |-> [stage |-> Stage(resv'[s].status), item |-> resv'[s].item,
                                         qty |-> resv'[s].qty]]
  BY DEF HoldOf, Stage
<1>6. HoldOf = [s \in Reservations |-> HoldOf[s]]
  BY DEF HoldOf
<1>7. HoldOf' = [HoldOf EXCEPT ![r] = [stage |-> "temporary", item |-> i, qty |-> n]]
  BY <1>4, <1>5, <1>6
<1>8. HoldOf[r].stage = "unused" /\ n <= Pool!Free(i)
  <2>1. n \in Nat /\ item[i].available >= n /\ resv[r].status = "NONE"
    BY <1>2, InventoryAssumption DEF ReserveRow, Quantity
  <2> QED
    BY <1>1, <2>1, HoldAt, FreeIsAvailable, RowInvAt
<1>9. Pool!Take(r, i, n)
  BY <1>3, <1>7, <1>8 DEF Pool!Take
<1> QED
  BY <1>9 DEF Pool!Next, Quantity

(* A set of one row, as an exception of a function. *)
LEMMA OneHoldMoves ==
    ASSUME resv \in [Reservations -> ReservationRow], NEW r \in Reservations, NEW st \in Status,
           resv' = [s \in Reservations |->
                      IF s \in {r} THEN [resv[s] EXCEPT !.status = st] ELSE resv[s]]
    PROVE  HoldOf' = [HoldOf EXCEPT ![r].stage = Stage(st)]
<1>1. HoldOf' = [s \in Reservations |->
                   IF s \in {r} THEN [HoldOf[s] EXCEPT !.stage = Stage(st)] ELSE HoldOf[s]]
  BY HoldsMove
<1>2. HoldOf = [s \in Reservations |-> HoldOf[s]]
  BY DEF HoldOf
<1> QED
  BY <1>1, <1>2

LEMMA DecisionInThePool ==
    ASSUME PoolInv, ALiveRowIsReleased \/ AnActiveRowIsCommitted
    PROVE  Pool!Next
<1>1. /\ item \in [Items -> ItemRow]
      /\ resv \in [Reservations -> ReservationRow]
  BY DEF PoolInv, IInv, RowInv
<1>2. Stage("RELEASED") = "over" /\ Stage("COMMITTED") = "firm"
  BY DEF Stage
<1>3. CASE ALiveRowIsReleased
  <2>1. PICK r \in Reservations : resv[r].status \in {"ACTIVE", "COMMITTED"} /\ ReleaseRows({r})
    BY <1>3 DEF ALiveRowIsReleased
  <2>2. OnHand' = OnHand
    BY <1>1, <2>1 DEF ReleaseRows, OnHand, ItemRow
  <2>3. HoldOf' = [HoldOf EXCEPT ![r].stage = "over"]
    BY <1>1, <1>2, <2>1, OneHoldMoves DEF ReleaseRows, Status
  <2>4. HoldOf[r].stage \in {"temporary", "firm"}
    BY <1>1, <2>1, HoldAt
  <2>5. Pool!GiveUp(r)
    BY <2>2, <2>3, <2>4 DEF Pool!GiveUp
  <2> QED
    BY <2>5 DEF Pool!Next
<1>4. CASE AnActiveRowIsCommitted
  <2>1. PICK r \in Reservations : resv[r].status = "ACTIVE" /\ CommitRows({r})
    BY <1>4 DEF AnActiveRowIsCommitted
  <2>2. OnHand' = OnHand
    BY <1>1, <2>1 DEF CommitRows, OnHand, ItemRow
  <2>3. HoldOf' = [HoldOf EXCEPT ![r].stage = "firm"]
    BY <1>1, <1>2, <2>1, OneHoldMoves DEF CommitRows, Status
  <2>4. HoldOf[r].stage = "temporary"
    BY <1>1, <2>1, HoldAt
  <2>5. Pool!Commit(r)
    BY <2>2, <2>3, <2>4 DEF Pool!Commit
  <2> QED
    BY <2>5 DEF Pool!Next
<1> QED
  BY <1>3, <1>4

LEMMA ShipmentInThePool ==
    ASSUME PoolInv, FirmRowsShip
    PROVE  Pool!Next \/ UNCHANGED <<OnHand, HoldOf>>
<1>1. /\ item \in [Items -> ItemRow]
      /\ resv \in [Reservations -> ReservationRow]
  BY DEF PoolInv, IInv, RowInv
<1>2. PICK S \in SUBSET Firm(resv) : ShipRows(S)
  BY DEF FirmRowsShip
<1>3. S \in SUBSET Reservations /\ S \in SUBSET Held(resv)
  BY HeldAndFirm
<1>4. HoldOf' = [r \in Reservations |->
                   IF r \in S THEN [HoldOf[r] EXCEPT !.stage = "over"] ELSE HoldOf[r]]
  <2>1. Stage("RELEASED") = "over" /\ "RELEASED" \in Status
    BY DEF Stage, Status
  <2>2. resv' = [r \in Reservations |->
                   IF r \in S THEN [resv[r] EXCEPT !.status = "RELEASED"] ELSE resv[r]]
    BY <1>2 DEF ShipRows
  <2>3. HoldOf' = [r \in Reservations |->
                     IF r \in S THEN [HoldOf[r] EXCEPT !.stage = Stage("RELEASED")] ELSE HoldOf[r]]
    BY <1>1, <1>3, <2>1, <2>2, HoldsMove
  <2> QED
    BY <2>1, <2>3
<1>5. ASSUME NEW i \in Items PROVE Pool!Cardinality(Pool!ShippedUnits(S, i)) = Total(resv, S, i)
  <2>1. Pool!ShippedUnits(S, i) = Units(resv, S, i)
    BY <1>1, <1>3, PoolUnits DEF Pool!ShippedUnits, Units
  <2> QED
    BY <2>1, PoolCounts DEF Total
<1>6. OnHand' = [i \in Items |-> OnHand[i] - Pool!Cardinality(Pool!ShippedUnits(S, i))]
  <2>1. ASSUME NEW i \in Items
        PROVE  item'[i].onHand = OnHand[i] - Pool!Cardinality(Pool!ShippedUnits(S, i))
    BY <1>1, <1>2, <1>5 DEF ShipRows, OnHand, ItemRow
  <2> QED
    BY <2>1 DEF OnHand
<1>7. CASE S # {}
  <2>1. \A r \in S : HoldOf[r].stage = "firm"
    BY <1>1, <1>3, HoldAt DEF Firm, WithStatus
  <2>2. Pool!Ship(S)
    BY <1>4, <1>6, <1>7, <2>1 DEF Pool!Ship
  <2> QED
    BY <1>3, <2>2 DEF Pool!Next
<1>8. CASE S = {}
  <2>1. ASSUME NEW i \in Items PROVE item'[i].onHand = item[i].onHand
    <3>1. Units(resv, {}, i) = {}
      BY DEF Units
    <3>2. Total(resv, S, i) = 0
      BY <1>8, <3>1, FS_EmptySet DEF Total
    <3>3. item[i].onHand \in Nat /\ item'[i].onHand = item[i].onHand - Total(resv, S, i)
      BY <1>1, <1>2 DEF ShipRows, ItemRow
    <3> QED
      BY <3>2, <3>3
  <2>2. OnHand' = OnHand
    BY <2>1 DEF OnHand
  <2>3. HoldOf' = [r \in Reservations |-> HoldOf[r]]
    BY <1>4, <1>8
  <2>4. HoldOf' = HoldOf
    BY <2>3 DEF HoldOf
  <2> QED
    BY <2>2, <2>4
<1> QED
  BY <1>7, <1>8

LEMMA StepsOfThePool == PoolInv /\ [Next]_vars => [Pool!Next]_(Pool!vars)
<1> SUFFICES ASSUME PoolInv, [Next]_vars
             PROVE  Pool!Next \/ UNCHANGED <<OnHand, HoldOf>>
  BY DEF Pool!vars
<1>1. CASE UNCHANGED <<item, resv>>
  BY <1>1 DEF OnHand, HoldOf, Stage
<1>2. CASE \E r \in Reservations : Lapse(r)
  <2>1. PICK r \in Reservations : item' = item /\ resv' = [resv EXCEPT ![r].expired = TRUE]
    BY <1>2 DEF Lapse
  <2>2. \A s \in Reservations : /\ resv'[s].status = resv[s].status
                                /\ resv'[s].item = resv[s].item /\ resv'[s].qty = resv[s].qty
    BY <2>1 DEF PoolInv, IInv, RowInv, ReservationRow
  <2>3. OnHand' = OnHand
    BY <2>1 DEF OnHand
  <2>4. HoldOf' = HoldOf
    BY <2>2 DEF HoldOf, Stage
  <2> QED
    BY <2>3, <2>4
<1> QED
  BY <1>1, <1>2, TableSteps, MovesInThePool, ReservationIsTaken, DecisionInThePool,
     ShipmentInThePool DEF PoolInv

LEMMA PoolBegins == Init => Pool!Init
BY DEF Init, Pool!Init, OnHand, HoldOf, Stage

------------------------------------------------------------------------------
(* For any warehouses, items, reservations and requests, the four cached    *)
(* counters, conditional updates, sweeps and expiry of InventoryService     *)
(* behave as a pool that computes free stock afresh from its holds.         *)
THEOREM InventoryIsAPool == Spec => ImplementsPool
<1>1. Init => PoolInv
  BY InitIInv DEF PoolInv, NewItemsAreEmpty, Init
<1>2. PoolInv /\ [Next]_vars => PoolInv'
  BY NextIInv, EmptyStaysEmpty DEF PoolInv
<1> QED
  BY <1>1, <1>2, PoolBegins, StepsOfThePool, PTL DEF Spec, ImplementsPool, Pool!Spec
==============================================================================
