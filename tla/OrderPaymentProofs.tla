------------------------ MODULE OrderPaymentProofs ------------------------
(***************************************************************************)
(* What an order keeps on its way from checkout to delivery, for any       *)
(* number of orders, lines, payments, reservations, calls and crashes: the *)
(* counters of the stock, the money behind a confirmed order, its coupon   *)
(* and the holds of its lines.                                             *)
(***************************************************************************)
EXTENDS OrderPayment, Counting

(* The proofs about the row updates of Inventory, for the rows of Stock. *)
P == INSTANCE InventoryProofs
    WITH Requests <- {}, req <- <<>>, NoReservation <- NoLine, MaxStock <- InitialStock

(* The tables of the stock agree, and every item of it was initialized. *)
StockInv == P!RowInv /\ \A i \in Items : item[i].exists

------------------------------------------------------------------------------
(* The stock.                                                              *)

(* The parameters of Inventory are as it assumes. *)
LEMMA InventoryAssumed == P!InventoryAssumption
<1>1. P!IsFiniteSet(Reservations) = IsFiniteSet(Reservations)
  BY DEF P!IsFiniteSet, IsFiniteSet
<1> QED
  BY <1>1, OrderPaymentAssumption

(* Both instances count alike. *)
LEMMA SameCardinality ==
    ASSUME NEW S
    PROVE  Stock!Cardinality(S) = Cardinality(S) /\ P!Cardinality(S) = Cardinality(S)
BY DEF Stock!Cardinality, P!Cardinality, Cardinality

(* Both instances mean the same rows and the same sums. *)
LEMMA SameSums ==
    /\ \A rows, S, i : Stock!Total(rows, S, i) = P!Total(rows, S, i)
    /\ \A rows : Stock!Held(rows) = P!Held(rows) /\ Stock!Firm(rows) = P!Firm(rows)
<1>1. ASSUME NEW rows, NEW S, NEW i
      PROVE  Stock!Total(rows, S, i) = P!Total(rows, S, i)
  <2>1. Stock!Units(rows, S, i) = P!Units(rows, S, i)
    BY DEF Stock!Units, P!Units, Stock!Quantity, P!Quantity
  <2> QED
    BY <2>1, SameCardinality DEF Stock!Total, P!Total
<1>2. ASSUME NEW rows
      PROVE  Stock!Held(rows) = P!Held(rows) /\ Stock!Firm(rows) = P!Firm(rows)
  BY DEF Stock!Held, P!Held, Stock!Firm, P!Firm, Stock!WithStatus, P!WithStatus
<1> QED
  BY <1>1, <1>2

(* Rows that are live are released. *)
LEMMA ReleaseKeeps ==
    ASSUME StockInv, NEW S \in SUBSET Reservations,
           \A r \in S : resv[r].status \in {"ACTIVE", "COMMITTED"}, Stock!ReleaseRows(S)
    PROVE  StockInv'
<1>1. P!ReleaseRows(S)
  BY SameSums DEF P!ReleaseRows, Stock!ReleaseRows, P!Items, Stock!Items
<1>2. S \in SUBSET P!Held(resv)
  BY DEF P!Held, P!WithStatus
<1>3. \A i \in Items : item'[i].exists
  BY DEF Stock!ReleaseRows, StockInv, Items, Stock!Items, P!RowInv, P!ItemRow, P!Items
<1> QED
  BY <1>1, <1>2, <1>3, P!ReleaseKeepsRows, InventoryAssumed DEF StockInv

(* ACTIVE rows are committed. *)
LEMMA CommitKeeps ==
    ASSUME StockInv, NEW S \in SUBSET Reservations,
           \A r \in S : resv[r].status = "ACTIVE", Stock!CommitRows(S)
    PROVE  StockInv'
<1>1. P!CommitRows(S)
  BY SameSums DEF P!CommitRows, Stock!CommitRows, P!Items, Stock!Items
<1>2. S \in SUBSET P!WithStatus(resv, {"ACTIVE"})
  BY DEF P!WithStatus
<1>3. \A i \in Items : item'[i].exists
  BY DEF Stock!CommitRows, StockInv, Items, Stock!Items, P!RowInv, P!ItemRow, P!Items
<1> QED
  BY <1>1, <1>2, <1>3, P!CommitKeepsRows, InventoryAssumed DEF StockInv

(* Firm rows are shipped. *)
LEMMA ShipKeeps ==
    ASSUME StockInv, NEW S \in SUBSET Stock!Firm(resv), Stock!ShipRows(S)
    PROVE  StockInv'
<1>1. P!ShipRows(S)
  BY SameSums DEF P!ShipRows, Stock!ShipRows, P!Items, Stock!Items
<1>2. S \in SUBSET P!Firm(resv)
  BY SameSums
<1>3. \A i \in Items : item'[i].exists
  BY DEF Stock!ShipRows, StockInv, Items, Stock!Items, P!RowInv, P!ItemRow, P!Items
<1> QED
  BY <1>1, <1>2, <1>3, P!ShipKeepsRows, InventoryAssumed DEF StockInv

(* A line is held again. *)
LEMMA ReserveKeeps ==
    ASSUME StockInv, NEW r \in Reservations, NEW l \in Lines, NEW i \in ItemsOf(l),
           Stock!ReserveRow(r, i, LineQty[l], l)
    PROVE  StockInv'
<1>1. P!Cardinality(P!Existing) = Stock!Cardinality(Stock!Existing)
  BY SameCardinality DEF P!Existing, Stock!Existing
<1>2. P!ReserveRow(r, i, LineQty[l], l)
  BY <1>1 DEF P!ReserveRow, Stock!ReserveRow
<1>3. i \in P!Items /\ LineQty[l] \in P!Quantity
  BY OrderPaymentAssumption DEF P!Items, P!Quantity, ItemsOf
<1>4. \A j \in Items : item'[j].exists
  <2>1. item' = [item EXCEPT ![i].available = @ - LineQty[l], ![i].reserved = @ + LineQty[l]]
    BY DEF Stock!ReserveRow
  <2> DEFINE i1 == [item EXCEPT ![i].available = @ - LineQty[l]]
             i2 == [i1 EXCEPT ![i].reserved = @ + LineQty[l]]
  <2>2. item \in [Items -> P!ItemRow] /\ \A j \in Items : item[j].exists
    BY DEF StockInv, P!RowInv, P!Items, Items
  <2>3. item' = i2
    BY <2>1
  <2>4. /\ DOMAIN i1 = Items
        /\ \A j \in Items : i1[j].exists /\ DOMAIN i1[j] = DOMAIN item[j]
    BY <2>2 DEF P!ItemRow
  <2> HIDE DEF i1
  <2>5. \A j \in Items : i2[j].exists
    BY <2>2, <2>4 DEF P!ItemRow
  <2> QED
    BY <2>3, <2>5
<1> QED
  BY <1>2, <1>3, <1>4, P!ReserveKeepsRows, InventoryAssumed DEF StockInv

(* The clock passes an expiry. *)
LEMMA LapseKeeps == ASSUME StockInv, NEW r \in Reservations, Stock!Lapse(r) PROVE StockInv'
<1>1. P!Lapse(r)
  BY DEF P!Lapse, Stock!Lapse
<1>2. item' = item
  BY DEF Stock!Lapse
<1> QED
  BY <1>1, <1>2, P!LapseKeepsRows, InventoryAssumed DEF StockInv

(* No step of the stock. *)
LEMMA StockStays == ASSUME StockInv, UNCHANGED stockVars PROVE StockInv'
BY P!RowsUntouched, InventoryAssumed DEF StockInv, stockVars

(* Row f[l] holds line l on item g[l], and no other line there. *)
FreshRows(rows, L, f, g) ==
    /\ \A k, l \in L : f[k] = f[l] => k = l
    /\ \A k, l \in L : g[k] = g[l] => k = l
    /\ \A l \in L : rows[f[l]].item = g[l] /\ rows[f[l]].qty = LineQty[l]

(* New rows hold on each item what the one line on it asks for. *)
LEMMA UnitsOfNew ==
    ASSUME NEW rows, NEW L \in SUBSET Lines, NEW f \in [L -> Reservations], NEW g, NEW i,
           FreshRows(rows, L, f, g)
    PROVE  /\ (\A l \in L : g[l] # i) => P!Total(rows, {f[l] : l \in L}, i) = 0
           /\ \A l \in L : g[l] = i => P!Total(rows, {f[k] : k \in L}, i) = LineQty[l]
<1> DEFINE New == {f[l] : l \in L}
<1> USE DEF FreshRows
<1>1. ASSUME NEW T \in SUBSET New, \A l \in L : f[l] \in T => g[l] # i
      PROVE  P!Total(rows, T, i) = 0
  <2>1. P!Units(rows, T, i) = {}
    <3>1. \A r \in T : rows[r].item # i
      BY <1>1
    <3> HIDE DEF New
    <3> QED
      BY <3>1 DEF P!Units
  <2>2. P!Total(rows, T, i) = Cardinality({})
    BY <2>1, SameCardinality DEF P!Total
  <2> QED
    BY <2>2, FS_EmptySet
<1>2. (\A l \in L : g[l] # i) => P!Total(rows, New, i) = 0
  BY <1>1
<1>3. ASSUME NEW l \in L, g[l] = i
      PROVE  P!Total(rows, New, i) = LineQty[l]
  <2> DEFINE one == {f[l]}
             rest == New \ one
  <2>1. /\ f[l] \in Reservations /\ one \in SUBSET Reservations /\ rest \in SUBSET Reservations
        /\ one \cap rest = {} /\ one \cup rest = New /\ rest \in SUBSET New
    OBVIOUS
  <2>2. \A k \in L : f[k] \in rest => g[k] # i
    BY <1>3
  <2>3. P!Total(rows, rest, i) = 0
    BY <1>1, <2>1, <2>2
  <2>4. rows[f[l]].qty \in 0 .. MaxQty /\ LineQty[l] \in Nat /\ rows[f[l]].qty = LineQty[l]
    <3>1. LineQty[l] \in 1 .. MaxQty /\ rows[f[l]].qty = LineQty[l] /\ MaxQty \in Nat
      BY OrderPaymentAssumption
    <3> QED
      BY <3>1
  <2>5. P!Total(rows, one, i) = LineQty[l]
    <3>1. P!Total(rows, {f[l]}, i) = IF rows[f[l]].item = i THEN rows[f[l]].qty ELSE 0
      <4>1. PICK r \in Reservations : r = f[l]
        BY <2>1
      <4>2. rows[r].qty \in 0 .. MaxQty
        BY <2>4, <4>1
      <4>3. P!Total(rows, {r}, i) = IF rows[r].item = i THEN rows[r].qty ELSE 0
        BY <4>2, P!TotalSingle, InventoryAssumed
      <4> QED
        BY <4>1, <4>3
    <3> QED
      BY <1>3, <2>4, <3>1
  <2> HIDE DEF one, rest, New
  <2>6. P!Total(rows, one \cup rest, i) = P!Total(rows, one, i) + P!Total(rows, rest, i)
    BY <2>1, P!TotalUnion, InventoryAssumed
  <2>7. P!Total(rows, one \cup rest, i) = LineQty[l]
    BY <2>3, <2>4, <2>5, <2>6
  <2>8. one \cup rest = New
    BY <2>1
  <2> QED
    BY <2>7, <2>8
<1> QED
  BY <1>2, <1>3

(* Checkout: the lapsed holds of the wanted items go back, and every line  *)
(* takes a new one.                                                        *)
LEMMA PlaceKeepsStock ==
    ASSUME StockInv, NEW o \in Orders, NEW row \in [LinesOf(o) -> Reservations],
           NEW w \in [LinesOf(o) -> Warehouses], PlaceHolds(o, row, w)
    PROVE  StockInv'
<1> DEFINE L == LinesOf(o)
           swept == Lapsed(OnItems(UNION {ItemsOf(l) : l \in L}))
           g == [l \in L |-> From(w, l)]
           New == {row[l] : l \in L}
<1>1. /\ \A k, l \in L : row[k] = row[l] => k = l
      /\ \A k, l \in L : g[k] = g[l] => k = l
      /\ \A l \in L : From(w, l) \in Items /\ l \in Lines /\ LineQty[l] \in 1 .. MaxQty
      /\ \A l \in L : resv[row[l]].status = "NONE"
      /\ L \in SUBSET Lines /\ MaxQty \in Nat
  BY OrderPaymentAssumption DEF LinesOf, Items, From, PlaceHolds
<1>2. \A l \in L : (CHOOSE k \in L : row[k] = row[l]) = l
  BY <1>1
<1>3. \A l \in L : resv'[row[l]] = NewHold(l, From(w, l))
  BY <1>2 DEF PlaceHolds
<1>4. \A r \in Reservations \ New :
         resv'[r] = IF r \in swept THEN [resv[r] EXCEPT !.status = "RELEASED"] ELSE resv[r]
  BY DEF PlaceHolds
<1>5. /\ swept \in SUBSET Reservations
      /\ \A r \in swept : resv[r].status = "ACTIVE"
  BY DEF Lapsed, OnItems
<1>6. /\ \A i \in Items : item[i].available + P!Total(resv, swept, i) >= Taken(o, w, i)
      /\ item' = [i \in Items |->
                      [item[i] EXCEPT !.available = @ + P!Total(resv, swept, i) - Taken(o, w, i),
                                      !.reserved  = @ - P!Total(resv, swept, i) + Taken(o, w, i)]]
  BY SameSums DEF PlaceHolds
<1>7. DOMAIN resv' = Reservations /\ resv' = [r \in Reservations |-> resv'[r]]
  BY DEF PlaceHolds
<1>8. /\ swept \cap New = {} /\ New \in SUBSET Reservations
      /\ resv \in [Reservations -> P!ReservationRow] /\ item \in [Items -> P!ItemRow]
      /\ \A r \in Reservations : \/ \E l \in L : r = row[l]
                                 \/ r \in Reservations \ New
  BY <1>1, <1>5 DEF StockInv, P!RowInv, P!Items, Items
<1>9. \A l \in L : NewHold(l, From(w, l)) \in P!ReservationRow
  <2>1. Stock!Existing \in SUBSET Reservations
    BY DEF Stock!Existing
  <2>2. IsFiniteSet(Stock!Existing)
    BY <2>1, OrderPaymentAssumption, FS_Subset
  <2>3. Cardinality(Stock!Existing) \in Nat
    BY <2>2, FS_CardinalityType
  <2>4. Cardinality(Stock!Existing) + 1 \in Nat
    BY <2>3
  <2>5. \A l \in L : LineQty[l] \in 0 .. MaxQty
    BY <1>1
  <2> HIDE DEF L
  <2> QED
    BY <1>1, <2>4, <2>5 DEF NewHold, P!ReservationRow, P!Status, P!Items, Items
<1> HIDE DEF L, swept
<1>10. resv' \in [Reservations -> P!ReservationRow]
  <2>1. ASSUME NEW r \in Reservations
        PROVE  [resv[r] EXCEPT !.status = "RELEASED"] \in P!ReservationRow /\ resv[r] \in P!ReservationRow
    <3>1. resv[r] \in P!ReservationRow
      BY <1>8
    <3> QED
      BY <3>1 DEF P!ReservationRow, P!Status
  <2>2. ASSUME NEW r \in Reservations PROVE resv'[r] \in P!ReservationRow
    <3>1. ASSUME NEW l \in L, r = row[l] PROVE resv'[r] \in P!ReservationRow
      BY <1>3, <1>9, <3>1
    <3>2. CASE r \in Reservations \ New
      <4>1. resv'[r] = IF r \in swept THEN [resv[r] EXCEPT !.status = "RELEASED"] ELSE resv[r]
        BY <1>4, <3>2
      <4> QED
        BY <2>1, <4>1
    <3> QED
      BY <1>8, <3>1, <3>2
  <2> QED
    BY <1>7, <2>2
<1>11. /\ \A r \in New : resv'[r].status = "ACTIVE" /\ resv[r].status = "NONE"
       /\ \A r \in Reservations \ New :
             /\ resv'[r].status = IF r \in swept THEN "RELEASED" ELSE resv[r].status
             /\ resv'[r].item = resv[r].item /\ resv'[r].qty = resv[r].qty
  <2>1. \A r \in New : \E l \in L : r = row[l]
    OBVIOUS
  <2>2. \A l \in L : resv'[row[l]].status = "ACTIVE" /\ resv[row[l]].status = "NONE"
    <3>1. \A l \in L : \A i : NewHold(l, i).status = "ACTIVE"
      BY DEF NewHold
    <3> HIDE DEF New, g
    <3> QED
      BY <1>1, <1>3, <3>1
  <2>3. ASSUME NEW r \in Reservations \ New
        PROVE  /\ resv'[r].status = IF r \in swept THEN "RELEASED" ELSE resv[r].status
               /\ resv'[r].item = resv[r].item /\ resv'[r].qty = resv[r].qty
    <3>1. resv[r] \in P!ReservationRow
      BY <1>8
    <3>2. resv'[r] = IF r \in swept THEN [resv[r] EXCEPT !.status = "RELEASED"] ELSE resv[r]
      BY <1>4
    <3> QED
      BY <3>1, <3>2 DEF P!ReservationRow
  <2> QED
    BY <2>1, <2>2, <2>3
<1>12. /\ P!Held(resv') = (P!Held(resv) \ swept) \cup New
       /\ P!Firm(resv') = P!Firm(resv)
       /\ swept \in SUBSET P!Held(resv)
       /\ P!Held(resv) \in SUBSET Reservations /\ P!Held(resv) \cap New = {}
       /\ P!Firm(resv) \in SUBSET P!Held(resv)
  BY <1>5, <1>8, <1>11 DEF P!Held, P!Firm, P!WithStatus
<1>13. ASSUME NEW T \in SUBSET (Reservations \ New), NEW i
       PROVE  P!Total(resv', T, i) = P!Total(resv, T, i)
  <2>1. P!Units(resv', T, i) = P!Units(resv, T, i)
    BY <1>11 DEF P!Units
  <2> QED
    BY <2>1 DEF P!Total
<1>14. ASSUME NEW i \in Items
       PROVE  P!Total(resv', New, i) = Taken(o, w, i)
  <2> DEFINE here == {l \in L : From(w, l) = i}
  <2>1. \A l \in L : resv'[row[l]].item = g[l] /\ resv'[row[l]].qty = LineQty[l] /\ g[l] = From(w, l)
    <3>1. \A l \in L : \A j : NewHold(l, j).item = j /\ NewHold(l, j).qty = LineQty[l]
      BY DEF NewHold
    <3>2. \A l \in L : g[l] = From(w, l)
      OBVIOUS
    <3> HIDE DEF New, g
    <3> QED
      BY <1>3, <3>1, <3>2
  <2>2. row \in [L -> Reservations]
    BY DEF L
  <2> HIDE DEF g
  <2>3. /\ (\A l \in L : g[l] # i) => P!Total(resv', New, i) = 0
        /\ \A l \in L : g[l] = i => P!Total(resv', New, i) = LineQty[l]
    <3>1. PICK rows : rows = resv'
      OBVIOUS
    <3>2. FreshRows(rows, L, row, g)
      BY <1>1, <2>1, <3>1 DEF FreshRows
    <3>3. /\ (\A l \in L : g[l] # i) => P!Total(rows, New, i) = 0
          /\ \A l \in L : g[l] = i => P!Total(rows, New, i) = LineQty[l]
      BY <1>1, <2>2, <3>2, UnitsOfNew
    <3> QED
      BY <3>1, <3>3
  <2>4. Taken(o, w, i) = IF here = {} THEN 0 ELSE LineQty[CHOOSE l \in here : TRUE]
    BY DEF Taken, L
  <2>5. CASE here = {}
    BY <2>1, <2>3, <2>4, <2>5
  <2>6. CASE here # {}
    <3>1. (CHOOSE l \in here : TRUE) \in here
      BY <2>6
    <3>2. PICK k \in here : k = CHOOSE l \in here : TRUE
      BY <3>1
    <3>3. k \in L /\ g[k] = i
      BY <2>1
    <3> QED
      BY <2>3, <2>4, <2>6, <3>2, <3>3
  <2> QED
    BY <2>5, <2>6
<1> HIDE DEF New
<1>15. ASSUME NEW i \in Items
       PROVE  /\ P!Total(resv', P!Held(resv'), i) =
                    P!Total(resv, P!Held(resv), i) - P!Total(resv, swept, i) + Taken(o, w, i)
              /\ P!Total(resv', P!Firm(resv'), i) = P!Total(resv, P!Firm(resv), i)
              /\ P!Total(resv, swept, i) \in Nat /\ Taken(o, w, i) \in Nat
              /\ P!Total(resv, swept, i) <= P!Total(resv, P!Held(resv), i)
              /\ P!Total(resv', P!Firm(resv'), i) <= P!Total(resv', P!Held(resv'), i)
  <2> DEFINE A == P!Held(resv) \ swept
  <2>1. /\ A \in SUBSET Reservations /\ A \in SUBSET (Reservations \ New) /\ A \cap New = {}
        /\ P!Firm(resv) \in SUBSET (Reservations \ New) /\ P!Firm(resv) \in SUBSET Reservations
    BY <1>12
  <2>2. P!Total(resv', A \cup New, i) = P!Total(resv', A, i) + P!Total(resv', New, i)
    BY <1>8, <2>1, P!TotalUnion, InventoryAssumed
  <2>3. P!Total(resv', A, i) = P!Total(resv, A, i)
    BY <1>13, <2>1
  <2>4. /\ P!Total(resv, A, i) = P!Total(resv, P!Held(resv), i) - P!Total(resv, swept, i)
        /\ P!Total(resv, swept, i) <= P!Total(resv, P!Held(resv), i)
    BY <1>12, P!TotalDifference, InventoryAssumed
  <2>5. P!Total(resv', New, i) = Taken(o, w, i)
    BY <1>14
  <2>6. P!Total(resv, swept, i) \in Nat /\ P!Total(resv', New, i) \in Nat
        /\ P!Total(resv, P!Held(resv), i) \in Nat
    BY <1>5, <1>8, <1>12, P!UnitsFinite, InventoryAssumed
  <2>7. P!Total(resv', P!Firm(resv'), i) = P!Total(resv, P!Firm(resv), i)
    BY <1>12, <1>13, <2>1
  <2>8. P!Firm(resv') \in SUBSET P!Held(resv') /\ P!Held(resv') \in SUBSET Reservations
    BY DEF P!Held, P!Firm, P!WithStatus
  <2>9. P!Total(resv', P!Firm(resv'), i) <= P!Total(resv', P!Held(resv'), i)
    BY <2>8, P!TotalDifference, InventoryAssumed
  <2>10. P!Total(resv', P!Held(resv'), i) = P!Total(resv', A \cup New, i)
    BY <1>12
  <2> HIDE DEF A
  <2>11. P!Total(resv', P!Held(resv'), i) =
            P!Total(resv, P!Held(resv), i) - P!Total(resv, swept, i) + Taken(o, w, i)
    BY <2>2, <2>3, <2>4, <2>5, <2>6, <2>10
  <2> QED
    BY <2>4, <2>5, <2>6, <2>7, <2>9, <2>11
<1>16. ASSUME NEW i \in Items
       PROVE  /\ item'[i] \in P!ItemRow /\ item'[i].exists
              /\ item'[i].available = item'[i].onHand - item'[i].reserved
              /\ item'[i].available >= 0
              /\ item'[i].reserved = P!Total(resv', P!Held(resv'), i)
              /\ item'[i].committed = P!Total(resv', P!Firm(resv'), i)
              /\ item'[i].committed <= item'[i].reserved
  <2> DEFINE b == P!Total(resv, swept, i)
             t == Taken(o, w, i)
  <2>1. /\ item[i] \in P!ItemRow /\ item[i].exists
        /\ item[i].onHand \in Nat /\ item[i].available \in Nat /\ item[i].reserved \in Nat
        /\ item[i].committed \in Nat
        /\ item[i].available = item[i].onHand - item[i].reserved
        /\ item[i].reserved = P!Total(resv, P!Held(resv), i)
        /\ item[i].committed = P!Total(resv, P!Firm(resv), i)
    BY P!RowInvAt, InventoryAssumed, <1>8 DEF StockInv, P!Items, Items, P!ItemRow
  <2>2. item'[i] = [item[i] EXCEPT !.available = @ + b - t, !.reserved = @ - b + t]
    BY <1>6
  <2>3. item[i].available + b >= t
    BY <1>6
  <2>4. /\ item'[i].exists = item[i].exists /\ item'[i].onHand = item[i].onHand
        /\ item'[i].committed = item[i].committed
        /\ item'[i].available = item[i].available + b - t
        /\ item'[i].reserved = item[i].reserved - b + t
    <3> HIDE DEF b, t
    <3> QED
      BY <2>1, <2>2 DEF P!ItemRow
  <2>5. /\ b \in Nat /\ t \in Nat /\ b <= item[i].reserved
        /\ item'[i].reserved = P!Total(resv', P!Held(resv'), i)
        /\ item'[i].committed = P!Total(resv', P!Firm(resv'), i)
        /\ P!Total(resv', P!Firm(resv'), i) <= P!Total(resv', P!Held(resv'), i)
    BY <1>15, <2>1, <2>4
  <2>6. item[i].available + b - t \in Nat /\ item[i].reserved - b + t \in Nat
    <3> HIDE DEF b, t
    <3> QED
      BY <2>1, <2>3, <2>5
  <2>7. item'[i] \in P!ItemRow
    <3> HIDE DEF b, t
    <3> QED
      BY <2>1, <2>2, <2>6 DEF P!ItemRow
  <2>8. item'[i].available = item'[i].onHand - item'[i].reserved /\ item'[i].available >= 0
    <3> HIDE DEF b, t
    <3>1. b \in Nat /\ t \in Nat
      BY <2>5
    <3> QED
      BY <2>1, <2>3, <2>4, <3>1
  <2> QED
    BY <2>1, <2>4, <2>5, <2>7, <2>8
<1>17. item' \in [Items -> P!ItemRow]
  BY <1>6, <1>16
<1> QED
  BY <1>10, <1>16, <1>17
  DEF StockInv, P!RowInv, P!StockBalance, P!ReservedIsHeld, P!CommittedIsFirm, P!NothingOnNewItems,
      P!Items, Items

------------------------------------------------------------------------------
(* Payments, events and calls.                                             *)

(* What a call needs for its next step; past the point where it has seen a *)
(* capture, the money of its payment has been captured for its order.      *)
CallOk(c) ==
    /\ c.op \notin {"idle", "record"} => c.order \in Orders
    /\ c.op \in {"capture", "fail"} => c.pay \in Payments
    /\ c.op \in {"provider", "claimed", "waits"} => c.pay \in Attempts(c.order)
    /\ c.op \in {"retry", "line", "reserve"} =>
          order[c.order].status # "NONE" /\ c.lines \subseteq LinesOf(c.order)
    /\ c.op \in {"line", "reserve"} => c.line \in Lines /\ c.line \in c.lines
    /\ c.event = NoEvent \/ c.event \in events
    /\ c.op = "record" => c.event \in events
    /\ c.op \in {"capture", "finalize", "holds", "clock", "commit"} =>
          c.pay \in Attempts(c.order) \cap paid

FlowTyped ==
    /\ order \in [Orders -> OrderRow]
    /\ pay \in [Payments -> PaymentRow]
    /\ paid \subseteq Payments
    /\ events \subseteq Event
    /\ recorded \subseteq events
    /\ call \in [Workers -> Call]
    /\ crashes \in 0 .. MaxCrashes

(* A session exists before the provider hears of a payment, a payment      *)
(* before its session, and money has been captured before that is told.    *)
PaymentsInOrder ==
    /\ \A y \in Payments : pay[y].status # "NONE" => pay[y].order \in Orders
    /\ \A y \in Payments : pay[y].open => pay[y].status # "NONE"
    /\ \A y \in paid : pay[y].open
    /\ \A e \in events : pay[e[1]].open /\ (e[2] = "captured" => e[1] \in paid)

CallsOk == \A p \in Workers : CallOk(call[p])

FlowInv == FlowTyped /\ PaymentsInOrder /\ CallsOk /\ CouponFollowsOrder /\ ConfirmedHasMoney

(* Payments are only added, opened and captured, orders only placed. *)
Grows ==
    /\ \A o \in Orders : Attempts(o) \subseteq Attempts(o)'
    /\ paid \subseteq paid' /\ events \subseteq events'
    /\ \A o \in Orders : order[o].status # "NONE" => order'[o].status # "NONE"

(* What a call has seen stays so. *)
LEMMA CallStaysOk == ASSUME NEW c \in Call, CallOk(c), Grows PROVE CallOk(c)'
BY DEF CallOk, Grows, Call

(* The calls after a step of one of them. *)
LEMMA CallsAfter ==
    ASSUME FlowInv, Grows, NEW p \in Workers, NEW c \in Call, CallOk(c)', Become(p, c)
    PROVE  call' \in [Workers -> Call] /\ CallsOk'
<1>1. /\ call' \in [Workers -> Call]
      /\ \A q \in Workers : call'[q] = IF q = p THEN c ELSE call[q]
  BY DEF FlowInv, FlowTyped, Become
<1>2. ASSUME NEW q \in Workers PROVE CallOk(call[q])'
  <2>1. CASE q = p
    BY <1>1, <2>1 DEF CallOk
  <2>2. CASE q # p
    <3>1. PICK d \in Call : d = call[q] /\ CallOk(d)
      BY DEF FlowInv, FlowTyped, CallsOk
    <3>2. CallOk(d)'
      BY <3>1, CallStaysOk
    <3>3. call'[q] = d
      BY <1>1, <2>2, <3>1
    <3> QED
      BY <3>2, <3>3 DEF CallOk
  <2> QED
    BY <2>1, <2>2
<1> QED
  BY <1>1, <1>2 DEF CallsOk

(* The empty call. *)
LEMMA IdleIsOk == Idle \in Call /\ CallOk(Idle) /\ Idle.op = "idle"
BY DEF Idle, Call, CallOk

(* A step that leaves the orders alone. *)
LEMMA OrdersStay ==
    ASSUME FlowInv, Grows, UNCHANGED order
    PROVE  CouponFollowsOrder' /\ ConfirmedHasMoney'
<1>1. CouponFollowsOrder'
  BY DEF FlowInv, CouponFollowsOrder
<1>2. ConfirmedHasMoney'
  BY DEF FlowInv, ConfirmedHasMoney, Grows
<1> QED
  BY <1>1, <1>2

(* Nothing grows or changes. *)
LEMMA NothingGrows == ASSUME UNCHANGED <<order, pay, providerVars>> PROVE Grows
BY DEF Grows, Attempts, providerVars

(* A step that only moves a call on. *)
LEMMA CallMoves ==
    ASSUME FlowInv, NEW p \in Workers, NEW c \in Call, CallOk(c), Become(p, c),
           UNCHANGED <<order, pay, providerVars, recorded, crashes>>
    PROVE  FlowInv'
<1>1. Grows
  BY NothingGrows
<1>2. CallOk(c)'
  BY <1>1, CallStaysOk
<1>3. call' \in [Workers -> Call] /\ CallsOk'
  BY <1>1, <1>2, CallsAfter
<1>4. CouponFollowsOrder' /\ ConfirmedHasMoney'
  BY <1>1, OrdersStay
<1> QED
  BY <1>3, <1>4 DEF FlowInv, FlowTyped, PaymentsInOrder, providerVars

(* A step of the stock alone. *)
LEMMA FlowStays == ASSUME FlowInv, UNCHANGED <<order, pay, providerVars, recorded, call, crashes>> PROVE FlowInv'
<1>1. Grows
  BY NothingGrows
<1>2. CallsOk'
  BY DEF FlowInv, CallsOk, CallOk, Attempts, providerVars
<1>3. CouponFollowsOrder' /\ ConfirmedHasMoney'
  BY <1>1, OrdersStay
<1> QED
  BY <1>2, <1>3 DEF FlowInv, FlowTyped, PaymentsInOrder, providerVars

(* The call that answers, or goes to record its event. *)
LEMMA DoneIsOk ==
    ASSUME FlowInv, NEW p \in Workers, ~ Free(p), Done(p)
    PROVE  \E c \in Call : CallOk(c) /\ Become(p, c) /\ c.op \in {"idle", "record"}
<1>1. call[p] \in Call /\ CallOk(call[p])
  BY DEF FlowInv, FlowTyped, CallsOk
<1>2. CASE call[p].event = NoEvent
  BY <1>2, IdleIsOk DEF Done
<1>3. CASE call[p].event # NoEvent
  <2> DEFINE c == [Idle EXCEPT !.op = "record", !.event = call[p].event]
  <2>1. Become(p, c)
    BY <1>3 DEF Done
  <2>2. c \in Call /\ c.op = "record" /\ c.event = call[p].event
    BY <1>1 DEF Call, Idle
  <2> HIDE DEF c
  <2>3. CallOk(c)
    BY <1>1, <1>3, <2>2 DEF CallOk
  <2> QED
    BY <2>1, <2>2, <2>3
<1> QED
  BY <1>2, <1>3

(* A payment that exists gets another status or a session. *)
LEMMA PaymentWritten ==
    ASSUME FlowInv, NEW y \in Payments, pay[y].status # "NONE", NEW row \in PaymentRow,
           pay' = [pay EXCEPT ![y] = row], UNCHANGED <<order, providerVars>>,
           row.status # "NONE", row.order = pay[y].order, pay[y].open => row.open
    PROVE  pay' \in [Payments -> PaymentRow] /\ PaymentsInOrder' /\ Grows
<1>1. /\ pay' \in [Payments -> PaymentRow]
      /\ \A z \in Payments : pay'[z] = IF z = y THEN row ELSE pay[z]
  BY DEF FlowInv, FlowTyped
<1>2. \A e \in events : e[1] \in Payments
  BY DEF FlowInv, FlowTyped, Event
<1>3. PaymentsInOrder'
  BY <1>1, <1>2 DEF FlowInv, FlowTyped, PaymentsInOrder, providerVars
<1>4. \A o : Attempts(o)' = Attempts(o)
  BY <1>1 DEF Attempts
<1> QED
  BY <1>1, <1>3, <1>4 DEF Grows, providerVars

(* A step of a call that writes its payment. *)
LEMMA PaymentStep ==
    ASSUME FlowInv, NEW p \in Workers, NEW c \in Call, CallOk(c)', Become(p, c),
           UNCHANGED <<order, providerVars, recorded, crashes>>,
           pay' \in [Payments -> PaymentRow], PaymentsInOrder', Grows
    PROVE  FlowInv'
<1>1. call' \in [Workers -> Call] /\ CallsOk'
  BY CallsAfter
<1>2. CouponFollowsOrder' /\ ConfirmedHasMoney'
  BY OrdersStay
<1> QED
  BY <1>1, <1>2 DEF FlowInv, FlowTyped, providerVars

------------------------------------------------------------------------------
(* The steps of a call.                                                    *)

Paid == {"CONFIRMED", "PROCESSING", "PACKED", "SHIPPED", "DELIVERED"}

(* What CouponFollowsOrder says of one order. *)
CouponRight(row) ==
    row.coupon # "none" =>
        /\ row.status = "PENDING_PAYMENT" => row.coupon = "RESERVED"
        /\ row.status \in Paid => row.coupon = "CONSUMED"
        /\ row.status = "CANCELLED" => row.coupon # "RESERVED"

(* The coupons of all orders. *)
LEMMA CouponsRight ==
    /\ CouponFollowsOrder <=> \A o \in Orders : CouponRight(order[o])
    /\ CouponFollowsOrder' <=> \A o \in Orders : CouponRight(order'[o])
<1>1. Paid = OrderStatus \ {"NONE", "PENDING_PAYMENT", "CANCELLED"}
  BY DEF Paid, OrderStatus
<1> QED
  BY <1>1 DEF CouponFollowsOrder, CouponRight

(* An order gets another status or coupon. *)
LEMMA OrderWritten ==
    ASSUME FlowInv, NEW o \in Orders, NEW row \in OrderRow, order' = [order EXCEPT ![o] = row],
           UNCHANGED <<pay, providerVars>>, order[o].status # "NONE" => row.status # "NONE",
           CouponRight(row), row.status \in Paid => Attempts(o) \cap paid # {}
    PROVE  /\ order' \in [Orders -> OrderRow] /\ Grows
           /\ CouponFollowsOrder' /\ ConfirmedHasMoney' /\ PaymentsInOrder'
<1>1. /\ order' \in [Orders -> OrderRow]
      /\ \A q \in Orders : order'[q] = IF q = o THEN row ELSE order[q]
  BY DEF FlowInv, FlowTyped
<1>2. Grows
  BY <1>1 DEF Grows, Attempts, providerVars
<1>3. \A q : Attempts(q)' = Attempts(q)
  BY DEF Attempts
<1>4. CouponFollowsOrder'
  BY <1>1, CouponsRight DEF FlowInv
<1>5. ConfirmedHasMoney'
  BY <1>1, <1>3 DEF FlowInv, ConfirmedHasMoney, Paid, providerVars
<1>6. PaymentsInOrder'
  BY DEF FlowInv, PaymentsInOrder, providerVars
<1> QED
  BY <1>1, <1>2, <1>4, <1>5, <1>6

(* A step that writes an order, of no call or of one. *)
LEMMA OrderStep ==
    ASSUME FlowInv, order' \in [Orders -> OrderRow], Grows, CouponFollowsOrder', ConfirmedHasMoney',
           PaymentsInOrder', UNCHANGED <<pay, providerVars, recorded, crashes>>,
           \/ UNCHANGED call
           \/ \E p \in Workers, c \in Call : CallOk(c) /\ Become(p, c)
    PROVE  FlowInv'
<1>1. CASE UNCHANGED call
  <2>1. ASSUME NEW p \in Workers PROVE CallOk(call[p])'
    <3>1. PICK c \in Call : c = call[p] /\ CallOk(c)
      BY DEF FlowInv, FlowTyped, CallsOk
    <3>2. CallOk(c)' /\ call'[p] = c
      BY <1>1, <3>1, CallStaysOk
    <3> QED
      BY <3>2 DEF CallOk
  <2> QED
    BY <1>1, <2>1 DEF FlowInv, FlowTyped, CallsOk, providerVars
<1>2. CASE \E p \in Workers, c \in Call : CallOk(c) /\ Become(p, c)
  <2>1. PICK p \in Workers, c \in Call : CallOk(c) /\ Become(p, c)
    BY <1>2
  <2>2. CallOk(c)'
    BY <2>1, CallStaysOk
  <2>3. call' \in [Workers -> Call] /\ CallsOk'
    BY <2>1, <2>2, CallsAfter
  <2> QED
    BY <2>3 DEF FlowInv, FlowTyped, providerVars
<1> QED
  BY <1>1, <1>2

(* Checkout. *)
LEMMA PlaceFlow ==
    ASSUME FlowInv, NEW p \in Workers, NEW o \in Orders, PlaceOrder(p, o)
    PROVE  FlowInv'
<1>1. PICK coupon \in {"none", "RESERVED"} :
         order' = [order EXCEPT ![o] = [status |-> "PENDING_PAYMENT", coupon |-> coupon,
                                        announced |-> FALSE]]
  BY DEF PlaceOrder
<1> DEFINE row == [status |-> "PENDING_PAYMENT", coupon |-> coupon, announced |-> FALSE]
           c == [Idle EXCEPT !.op = "session", !.order = o]
<1>2. row \in OrderRow /\ CouponRight(row) /\ row.status \notin Paid /\ row.status # "NONE"
  BY DEF OrderRow, OrderStatus, CouponRight, Paid
<1>3. c \in Call /\ CallOk(c)
  BY DEF Idle, Call, CallOk
<1>4. Become(p, c) /\ UNCHANGED <<pay, providerVars, recorded, crashes>>
  BY DEF PlaceOrder
<1> HIDE DEF row, c
<1>5. order' = [order EXCEPT ![o] = row]
  BY <1>1 DEF row
<1>6. /\ order' \in [Orders -> OrderRow] /\ Grows
      /\ CouponFollowsOrder' /\ ConfirmedHasMoney' /\ PaymentsInOrder'
  BY <1>2, <1>4, <1>5, OrderWritten
<1> QED
  BY <1>3, <1>4, <1>6, OrderStep

(* A replayed checkout and a retry begin. *)
LEMMA BeginFlow ==
    ASSUME FlowInv, NEW p \in Workers, NEW o \in Orders, ReplayCheckout(p, o) \/ BeginRetry(p, o)
    PROVE  FlowInv'
<1>1. UNCHANGED <<order, pay, providerVars, recorded, crashes>>
  BY DEF ReplayCheckout, BeginRetry
<1>2. CASE ReplayCheckout(p, o)
  <2> DEFINE c == [Idle EXCEPT !.op = "session", !.order = o]
  <2>1. c \in Call /\ CallOk(c)
    BY DEF Idle, Call, CallOk
  <2>2. Become(p, c)
    BY <1>2 DEF ReplayCheckout
  <2> HIDE DEF c
  <2> QED
    BY <1>1, <2>1, <2>2, CallMoves
<1>3. CASE BeginRetry(p, o)
  <2> DEFINE c == [Idle EXCEPT !.op = "retry", !.order = o, !.lines = LinesOf(o)]
  <2>1. order[o].status # "NONE" /\ LinesOf(o) \subseteq Lines
    BY <1>3 DEF BeginRetry, LinesOf
  <2>2. c \in Call
    BY <2>1 DEF Idle, Call
  <2>3. CallOk(c)
    BY <2>1 DEF Idle, CallOk
  <2>4. Become(p, c)
    BY <1>3 DEF BeginRetry
  <2> HIDE DEF c
  <2> QED
    BY <1>1, <2>2, <2>3, <2>4, CallMoves
<1> QED
  BY <1>2, <1>3

(* The outcome is learned. *)
LEMMA LearnFlow ==
    ASSUME FlowInv, NEW p \in Workers,
           (\E y \in Payments : Verify(p, y)) \/ (\E e \in Event : Deliver(p, e))
    PROVE  FlowInv'
<1>1. PICK y \in Payments, op \in {"capture", "fail", "record"}, e \in Event \cup {NoEvent} :
         /\ pay[y].open
         /\ op = "capture" => y \in paid
         /\ op = "record" => e \in events
         /\ e = NoEvent \/ e \in events
         /\ Become(p, [op |-> op, order |-> pay[y].order, pay |-> y, lines |-> {}, line |-> NoLine,
                       seen |-> {}, event |-> e])
         /\ UNCHANGED <<order, pay, providerVars, recorded, crashes>>
  <2>1. ASSUME NEW y \in Payments, Verify(p, y)
        PROVE  \E op \in {"capture", "fail"} :
                 /\ op = "capture" => y \in paid
                 /\ pay[y].open
                 /\ Become(p, [op |-> op, order |-> pay[y].order, pay |-> y, lines |-> {},
                               line |-> NoLine, seen |-> {}, event |-> NoEvent])
                 /\ UNCHANGED <<order, pay, providerVars, recorded, crashes>>
    BY <2>1 DEF Verify
  <2>2. ASSUME NEW e \in Event, Deliver(p, e)
        PROVE  \E op \in {"capture", "fail", "record"} :
                 /\ e \in events /\ e[1] \in Payments /\ pay[e[1]].open
                 /\ op = "capture" => e[1] \in paid
                 /\ Become(p, [op |-> op, order |-> pay[e[1]].order, pay |-> e[1], lines |-> {},
                               line |-> NoLine, seen |-> {}, event |-> e])
                 /\ UNCHANGED <<order, pay, providerVars, recorded, crashes>>
    <3>1. e \in events /\ e[1] \in Payments /\ pay[e[1]].open /\ (e[2] = "captured" => e[1] \in paid)
      BY <2>2 DEF Deliver, Event, FlowInv, PaymentsInOrder
    <3>2. PICK op \in {"capture", "fail", "record"} :
             /\ op = "capture" => e[2] = "captured"
             /\ Become(p, [op |-> op, order |-> pay[e[1]].order, pay |-> e[1], lines |-> {},
                           line |-> NoLine, seen |-> {}, event |-> e])
      BY <2>2 DEF Deliver
    <3> QED
      BY <2>2, <3>1, <3>2 DEF Deliver
  <2>3. CASE \E y \in Payments : Verify(p, y)
    BY <2>1, <2>3
  <2>4. CASE \E e \in Event : Deliver(p, e)
    BY <2>2, <2>4
  <2> QED
    BY <2>3, <2>4
<1> DEFINE c == [op |-> op, order |-> pay[y].order, pay |-> y, lines |-> {}, line |-> NoLine,
                 seen |-> {}, event |-> e]
<1>2. pay[y].order \in Orders /\ y \in Attempts(pay[y].order)
  BY <1>1 DEF FlowInv, FlowTyped, PaymentsInOrder, Attempts
<1>3. c \in Call
  BY <1>2 DEF Call
<1>4. CallOk(c)
  BY <1>1, <1>2 DEF CallOk
<1> HIDE DEF c
<1>5. Become(p, c)
  BY <1>1 DEF c
<1> QED
  BY <1>1, <1>3, <1>4, <1>5, CallMoves

(* An attempt is taken. *)
LEMMA AttemptTaken ==
    ASSUME FlowInv, NEW p \in Workers, NEW y \in Payments, TakeAttempt(p, y)
    PROVE  \E c \in Call : /\ c.op = "provider" /\ c.order = call[p].order /\ c.pay = y
                           /\ c.event = call[p].event /\ Become(p, c)
<1> DEFINE c == [call[p] EXCEPT !.op = "provider", !.pay = y]
<1>1. call[p] \in Call
  BY DEF FlowInv, FlowTyped
<1>2. c \in Call /\ c.op = "provider" /\ c.order = call[p].order /\ c.pay = y
      /\ c.event = call[p].event
  BY <1>1 DEF Call
<1>3. Become(p, c)
  BY DEF TakeAttempt
<1> HIDE DEF c
<1> QED
  BY <1>2, <1>3

(* A list is read. *)
LEMMA ListRead ==
    ASSUME FlowInv, NEW p \in Workers, NEW op \in {"cancel", "clock", "sweep"},
           NEW S \in SUBSET Reservations, GotoWith(p, op, S)
    PROVE  \E c \in Call : /\ c.op = op /\ c.order = call[p].order /\ c.pay = call[p].pay
                           /\ c.seen = S /\ c.event = call[p].event /\ Become(p, c)
<1> DEFINE c == [call[p] EXCEPT !.op = op, !.seen = S]
<1>1. call[p] \in Call
  BY DEF FlowInv, FlowTyped
<1>2. /\ c \in Call /\ c.op = op /\ c.order = call[p].order /\ c.pay = call[p].pay
      /\ c.seen = S /\ c.event = call[p].event
  BY <1>1 DEF Call
<1>3. Become(p, c)
  BY DEF GotoWith
<1> HIDE DEF c
<1> QED
  BY <1>2, <1>3

(* The payment session is opened. *)
LEMMA SessionFlow ==
    ASSUME FlowInv, NEW p \in Workers, OpenSession(p)
    PROVE  FlowInv'
<1> DEFINE o == call[p].order
<1>1. /\ call[p] \in Call /\ CallOk(call[p]) /\ call[p].op = "session" /\ o \in Orders
      /\ UNCHANGED <<order, providerVars, recorded, crashes>>
  BY DEF OpenSession, At, FlowInv, FlowTyped, CallsOk, CallOk
<1>2. ASSUME NEW y \in Attempts(o), TakeAttempt(p, y), UNCHANGED pay PROVE FlowInv'
  <2>1. y \in Payments
    BY DEF Attempts
  <2>2. PICK c \in Call : /\ c.op = "provider" /\ c.order = o /\ c.pay = y
                          /\ c.event = call[p].event /\ Become(p, c)
    BY <1>2, <2>1, AttemptTaken
  <2>3. CallOk(c)
    BY <1>1, <2>2 DEF CallOk
  <2> QED
    BY <1>1, <1>2, <2>2, <2>3, CallMoves
<1>3. CASE Become(p, Idle) /\ UNCHANGED pay
  BY <1>1, <1>3, IdleIsOk, CallMoves
<1>4. CASE \E y \in Payments :
             /\ pay[y].status = "NONE"
             /\ pay' = [pay EXCEPT ![y] = [status |-> "CREATED", order |-> o, open |-> FALSE,
                                           at |-> Cardinality(Attempts(o)) + 1]]
             /\ TakeAttempt(p, y)
  <2>1. PICK y \in Payments :
             /\ pay[y].status = "NONE"
             /\ pay' = [pay EXCEPT ![y] = [status |-> "CREATED", order |-> o, open |-> FALSE,
                                           at |-> Cardinality(Attempts(o)) + 1]]
             /\ TakeAttempt(p, y)
    BY <1>4
  <2> DEFINE row == [status |-> "CREATED", order |-> o, open |-> FALSE,
                     at |-> Cardinality(Attempts(o)) + 1]
  <2>2. Cardinality(Attempts(o)) + 1 \in Nat
    <3>1. Attempts(o) \in SUBSET Payments
      BY DEF Attempts
    <3>2. IsFiniteSet(Attempts(o))
      BY <3>1, OrderPaymentAssumption, FS_Subset
    <3>3. Cardinality(Attempts(o)) \in Nat
      BY <3>2, FS_CardinalityType
    <3> QED
      BY <3>3
  <2>3. row \in PaymentRow /\ row.status # "NONE" /\ row.order = o
    BY <1>1, <2>2 DEF PaymentRow
  <2>4. pay' = [pay EXCEPT ![y] = row]
    BY <2>1
  <2> HIDE DEF row, o
  <2>5. /\ pay' \in [Payments -> PaymentRow]
        /\ \A z \in Payments : pay'[z] = IF z = y THEN row ELSE pay[z]
    BY <2>3, <2>4 DEF FlowInv, FlowTyped
  <2>6. ~ pay[y].open
    BY <2>1 DEF FlowInv, PaymentsInOrder
  <2>7. Grows
    BY <1>1, <2>1, <2>5 DEF Grows, Attempts, providerVars
  <2>8. PaymentsInOrder'
    <3>1. \A e \in events : e[1] \in Payments /\ e[1] # y
      BY <2>6 DEF FlowInv, FlowTyped, PaymentsInOrder, Event
    <3>2. \A z \in paid : z \in Payments /\ z # y
      BY <2>6 DEF FlowInv, FlowTyped, PaymentsInOrder
    <3>3. ~ row.open
      BY DEF row
    <3> QED
      BY <1>1, <2>3, <2>5, <3>1, <3>2, <3>3 DEF FlowInv, PaymentsInOrder, providerVars
  <2>9. PICK c \in Call : /\ c.op = "provider" /\ c.order = call[p].order /\ c.pay = y
                          /\ c.event = call[p].event /\ Become(p, c)
    BY <2>1, AttemptTaken
  <2>10. CallOk(c)'
    <3>1. y \in Attempts(c.order)'
      BY <2>3, <2>5, <2>9 DEF Attempts, o
    <3>2. c.order \in Orders /\ (c.event = NoEvent \/ c.event \in events')
      BY <1>1, <2>9 DEF CallOk, providerVars
    <3> QED
      BY <2>9, <3>1, <3>2 DEF CallOk
  <2> QED
    BY <1>1, <2>5, <2>7, <2>8, <2>9, <2>10, PaymentStep
<1> QED
  <2>1. LatestAttempt(o) \subseteq Attempts(o)
    BY DEF LatestAttempt
  <2> HIDE DEF o
  <2>2. \/ \E y \in LatestAttempt(o) : TakeAttempt(p, y) /\ UNCHANGED pay
        \/ \E y \in Payments :
             /\ pay[y].status = "NONE"
             /\ pay' = [pay EXCEPT ![y] = [status |-> "CREATED", order |-> o, open |-> FALSE,
                                           at |-> Cardinality(Attempts(o)) + 1]]
             /\ TakeAttempt(p, y)
        \/ Become(p, Idle) /\ UNCHANGED pay
    BY DEF OpenSession, o
  <2> QED
    BY <1>2, <1>3, <1>4, <2>1, <2>2

(* The provider's order is claimed, made, found, refused or in doubt. *)
LEMMA ProviderFlow ==
    ASSUME FlowInv, NEW p \in Workers,
           ClaimProviderOrder(p) \/ CreateProviderOrder(p) \/ AwaitProviderOrder(p)
    PROVE  FlowInv'
<1> DEFINE y == call[p].pay
<1>1. /\ call[p] \in Call /\ CallOk(call[p]) /\ call[p].op \in {"provider", "claimed", "waits"}
      /\ y \in Payments /\ pay[y].status # "NONE" /\ y \in Attempts(call[p].order)
      /\ UNCHANGED <<order, providerVars, recorded, crashes>>
      /\ pay[y] \in PaymentRow
  BY DEF ClaimProviderOrder, CreateProviderOrder, AwaitProviderOrder, At, FlowInv, FlowTyped,
         CallsOk, CallOk, Attempts
<1>2. ASSUME NEW op \in {"claimed", "waits", "giveUp"}, Goto(p, op)
      PROVE  \E c \in Call : CallOk(c) /\ Become(p, c)
  <2> DEFINE c == [call[p] EXCEPT !.op = op]
  <2>1. c \in Call /\ CallOk(c)
    BY <1>1 DEF Call, CallOk
  <2>2. Become(p, c)
    BY <1>2 DEF Goto
  <2> QED
    BY <2>1, <2>2
<1>3. CASE (Become(p, Idle) \/ Goto(p, "waits")) /\ UNCHANGED pay
  BY <1>1, <1>2, <1>3, IdleIsOk, CallMoves
<1>4. ASSUME NEW row \in PaymentRow, pay' = [pay EXCEPT ![y] = row], row.status # "NONE",
             row.order = pay[y].order, pay[y].open => row.open,
             \E c \in Call : CallOk(c) /\ Become(p, c)
      PROVE  FlowInv'
  <2>1. pay' \in [Payments -> PaymentRow] /\ PaymentsInOrder' /\ Grows
    BY <1>1, <1>4, PaymentWritten
  <2>2. PICK c \in Call : CallOk(c) /\ Become(p, c)
    BY <1>4
  <2>3. CallOk(c)'
    BY <2>1, <2>2, CallStaysOk
  <2> QED
    BY <1>1, <2>1, <2>2, <2>3, PaymentStep
<1>5. CASE pay' = [pay EXCEPT ![y].open = TRUE] /\ Become(p, Idle)
  <2> DEFINE row == [pay[y] EXCEPT !.open = TRUE]
  <2>1. row \in PaymentRow /\ row.status = pay[y].status /\ row.order = pay[y].order /\ row.open
    BY <1>1 DEF PaymentRow
  <2>2. pay' = [pay EXCEPT ![y] = row]
    BY <1>5
  <2> HIDE DEF row
  <2> QED
    BY <1>1, <1>4, <1>5, <2>1, <2>2, IdleIsOk
<1>6. ASSUME NEW st \in {"PENDING", "FAILED"}, pay' = [pay EXCEPT ![y].status = st],
             \E c \in Call : CallOk(c) /\ Become(p, c)
      PROVE  FlowInv'
  <2> DEFINE row == [pay[y] EXCEPT !.status = st]
  <2>1. row \in PaymentRow /\ row.status = st /\ row.order = pay[y].order /\ row.open = pay[y].open
    BY <1>1 DEF PaymentRow
  <2>2. pay' = [pay EXCEPT ![y] = row]
    BY <1>6
  <2> HIDE DEF row
  <2> QED
    BY <1>4, <1>6, <2>1, <2>2
<1>7. CASE /\ pay' = [pay EXCEPT ![y].status = IF @ \in ActiveStatuses THEN "FAILED" ELSE @]
           /\ Goto(p, "giveUp")
  <2>1. CASE pay[y].status \in ActiveStatuses
    BY <1>2, <1>6, <1>7, <2>1
  <2>2. CASE pay[y].status \notin ActiveStatuses
    <3>1. pay' = pay
      BY <1>1, <1>7, <2>2 DEF FlowInv, FlowTyped, PaymentRow
    <3> QED
      BY <1>1, <1>2, <1>7, <3>1, CallMoves
  <2> QED
    BY <2>1, <2>2
<1> QED
  BY <1>2, <1>3, <1>5, <1>6, <1>7 DEF ClaimProviderOrder, CreateProviderOrder, AwaitProviderOrder

(* A payment is marked captured or failed. *)
LEMMA MarkFlow ==
    ASSUME FlowInv, NEW p \in Workers, MarkFailed(p) \/ ApplyCapture(p)
    PROVE  FlowInv'
<1> DEFINE y == call[p].pay
<1>1. /\ call[p] \in Call /\ CallOk(call[p]) /\ call[p].op \in {"fail", "capture"} /\ y \in Payments
      /\ UNCHANGED <<order, providerVars, recorded, crashes>>
      /\ pay[y] \in PaymentRow
  BY DEF MarkFailed, ApplyCapture, At, FlowInv, FlowTyped, CallsOk, CallOk
<1>2. PICK st \in {"FAILED", "CAPTURED"} :
         pay' = [pay EXCEPT ![y].status = IF @ \in ActiveStatuses THEN st ELSE @]
  BY DEF MarkFailed, ApplyCapture
<1>3. PICK c \in Call : CallOk(c) /\ Become(p, c)
  <2>1. CASE MarkFailed(p)
    <3>1. ~ Free(p)
      BY <1>1 DEF Free
    <3> QED
      BY <2>1, <3>1, DoneIsOk DEF MarkFailed
  <2>2. CASE ApplyCapture(p)
    <3> DEFINE d == [call[p] EXCEPT !.op = "finalize"]
    <3>1. d \in Call /\ CallOk(d)
      BY <1>1, <2>2 DEF Call, CallOk, ApplyCapture, At
    <3>2. Become(p, d)
      BY <2>2 DEF ApplyCapture, Goto
    <3> QED
      BY <3>1, <3>2
  <2> QED
    BY <2>1, <2>2
<1>4. CASE pay[y].status \in ActiveStatuses
  <2> DEFINE row == [pay[y] EXCEPT !.status = st]
  <2>1. row \in PaymentRow /\ row.status = st /\ row.order = pay[y].order /\ row.open = pay[y].open
    BY <1>1 DEF PaymentRow
  <2>2. pay' = [pay EXCEPT ![y] = row]
    BY <1>2, <1>4
  <2> HIDE DEF row
  <2>3. pay' \in [Payments -> PaymentRow] /\ PaymentsInOrder' /\ Grows
    BY <1>1, <1>4, <2>1, <2>2, PaymentWritten DEF ActiveStatuses
  <2>4. CallOk(c)'
    BY <1>3, <2>3, CallStaysOk
  <2> QED
    BY <1>1, <1>3, <2>3, <2>4, PaymentStep
<1>5. CASE pay[y].status \notin ActiveStatuses
  <2>1. pay' = pay
    BY <1>1, <1>2, <1>5 DEF FlowInv, FlowTyped, PaymentRow
  <2> QED
    BY <1>1, <1>3, <2>1, CallMoves
<1> QED
  BY <1>4, <1>5

(* The steps that only look, or that only write the stock. *)
LEMMA LookFlow ==
    ASSUME FlowInv, NEW p \in Workers,
           \/ ListHolds(p) \/ \E l \in Lines : ListLine(p, l)
           \/ RetryLine(p) \/ RetryReserve(p) \/ RetrySession(p)
           \/ FinalizeOrder(p) \/ FinalizeHolds(p) \/ ReadClock(p) \/ CommitFails(p)
           \/ ListLapsed(p) \/ ReleaseLapsed(p)
    PROVE  FlowInv'
<1> DEFINE k == call[p]
<1>1. k \in Call /\ CallOk(k)
  BY DEF FlowInv, FlowTyped, CallsOk
<1>2. UNCHANGED <<order, pay, providerVars, recorded, crashes>>
  <2>1. ASSUME NEW l \in Lines, ListLine(p, l)
        PROVE  UNCHANGED <<order, pay, providerVars, recorded, crashes>>
    BY <2>1 DEF ListLine
  <2>2. CASE ~ \E l \in Lines : ListLine(p, l)
    BY <2>2 DEF ListHolds, RetryLine, RetryReserve, RetrySession, FinalizeOrder, FinalizeHolds,
                ReadClock, CommitFails, ListLapsed, ReleaseLapsed
  <2> QED
    BY <2>1, <2>2
<1>3. SUFFICES \E c \in Call : CallOk(c) /\ Become(p, c)
  BY <1>2, CallMoves
<1>4. ASSUME Done(p), k.op # "idle" PROVE \E c \in Call : CallOk(c) /\ Become(p, c)
  BY <1>4, DoneIsOk DEF Free
<1>5. ASSUME Become(p, Idle) PROVE \E c \in Call : CallOk(c) /\ Become(p, c)
  BY <1>5, IdleIsOk
<1>6. CASE RetryLine(p)
  <2> DEFINE l == k.line
             c == [k EXCEPT !.op = "retry", !.lines = k.lines \ {l}, !.line = NoLine, !.seen = {}]
             d == [k EXCEPT !.op = "reserve", !.seen = {}]
  <2>1. k.op = "line"
    BY <1>6 DEF RetryLine, At
  <2>2. Become(p, Idle) \/ Become(p, c) \/ Become(p, d)
    <3>1. CASE Become(p, [call[p] EXCEPT !.op = "retry", !.lines = @ \ {l}, !.line = NoLine,
                                         !.seen = {}])
      BY <1>1, <3>1 DEF Call, Become
    <3> QED
      BY <1>6, <3>1 DEF RetryLine, ReleaseThrows
  <2>3. /\ c \in Call /\ c.op = "retry" /\ c.order = k.order /\ c.lines = k.lines \ {l}
        /\ c.event = k.event
        /\ d \in Call /\ d.op = "reserve" /\ d.order = k.order /\ d.lines = k.lines
        /\ d.line = l /\ d.event = k.event
    BY <1>1 DEF Call
  <2> HIDE DEF c, d
  <2>4. CallOk(c) /\ CallOk(d)
    BY <1>1, <2>1, <2>3 DEF CallOk
  <2> QED
    BY <1>5, <2>2, <2>3, <2>4
<1>7. CASE RetryReserve(p)
  <2>1. k.op = "reserve"
    BY <1>7 DEF RetryReserve, At
  <2> DEFINE l == k.line
             c1 == [k EXCEPT !.op = "retry"]
             c2 == [c1 EXCEPT !.lines = k.lines \ {l}]
             c == [c2 EXCEPT !.line = NoLine]
  <2>2. Become(p, Idle) \/ Become(p, c)
    <3>1. CASE Become(p, Idle)
      BY <3>1
    <3>2. CASE Become(p, [call[p] EXCEPT !.op = "retry", !.lines = @ \ {l}, !.line = NoLine])
      BY <1>1, <3>2 DEF Call, Become
    <3> QED
      BY <1>7, <3>1, <3>2 DEF RetryReserve
  <2>3. /\ c \in Call /\ c.op = "retry" /\ c.order = k.order /\ c.lines = k.lines \ {l}
        /\ c.event = k.event
    BY <1>1 DEF Call
  <2> HIDE DEF c1, c2, c
  <2>4. CallOk(c)
    BY <1>1, <2>1, <2>3 DEF CallOk
  <2> QED
    BY <1>5, <2>2, <2>3, <2>4
<1>8. ASSUME NEW op \in {"session", "holds", "commit", "lapsed"}, Goto(p, op),
             k.op \in {"retry", "finalize", "clock", "commit"}, op = "holds" => k.op = "finalize",
             op = "commit" => k.op = "clock"
      PROVE  \E c \in Call : CallOk(c) /\ Become(p, c)
  <2> DEFINE c == [call[p] EXCEPT !.op = op]
  <2>1. c \in Call
    BY <1>1, <1>8 DEF Call
  <2>2. CallOk(c)
    BY <1>1, <1>8 DEF Call, CallOk
  <2>3. Become(p, c)
    BY <1>8 DEF Goto
  <2> QED
    BY <2>1, <2>2, <2>3
<1>9. CASE RetrySession(p)
  BY <1>8, <1>9 DEF RetrySession, At
<1>10. CASE FinalizeOrder(p)
  BY <1>4, <1>8, <1>10 DEF FinalizeOrder, At
<1>11. CASE FinalizeHolds(p)
  <2> DEFINE S == {r \in Stock!LatestOfOrder(k.order) : resv[r].status = "ACTIVE"}
  <2>1. k.op = "holds"
    BY <1>11 DEF FinalizeHolds, At
  <2>2. Done(p) \/ GotoWith(p, "clock", S)
    BY <1>11 DEF FinalizeHolds
  <2>3. S \in SUBSET Reservations
    BY DEF Stock!LatestOfOrder, Stock!LatestOf, Stock!OfLine, Stock!Existing
  <2> HIDE DEF S
  <2>4. CASE GotoWith(p, "clock", S)
    <3>1. PICK c \in Call : /\ c.op = "clock" /\ c.order = k.order /\ c.pay = k.pay
                            /\ c.event = k.event /\ Become(p, c)
      BY <2>3, <2>4, ListRead
    <3>2. CallOk(c)
      BY <1>1, <2>1, <3>1 DEF CallOk
    <3> QED
      BY <3>1, <3>2
  <2> QED
    BY <1>4, <2>1, <2>2, <2>4
<1>12. CASE CommitFails(p)
  BY <1>5, <1>8, <1>12 DEF CommitFails, At
<1>13. CASE ReleaseLapsed(p)
  BY <1>4, <1>5, <1>13 DEF ReleaseLapsed, ReleaseThrows, At
<1>14. CASE ReadClock(p)
  BY <1>8, <1>14 DEF ReadClock, At
<1>15. ASSUME NEW op \in {"cancel", "sweep"}, k.op \in {"giveUp", "lapsed"},
              NEW S \in SUBSET Reservations, GotoWith(p, op, S)
       PROVE  \E c \in Call : CallOk(c) /\ Become(p, c)
  <2>1. PICK c \in Call : c.op = op /\ c.order = k.order /\ c.event = k.event /\ Become(p, c)
    BY <1>15, ListRead
  <2>2. CallOk(c)
    BY <1>1, <1>15, <2>1 DEF CallOk
  <2> QED
    BY <2>1, <2>2
<1>16. CASE ListHolds(p) \/ ListLapsed(p)
  <2>1. {r \in RowsOf(k.order) : resv[r].status = "ACTIVE"} \in SUBSET Reservations
        /\ Lapsed(RowsOf(k.order)) \in SUBSET Reservations
    BY DEF RowsOf, Lapsed
  <2> QED
    BY <1>15, <1>16, <2>1 DEF ListHolds, ListLapsed, At
<1>17. CASE \E l \in Lines : ListLine(p, l)
  <2>1. PICK l \in Lines : ListLine(p, l)
    BY <1>17
  <2> DEFINE S == Lapsed(OnItems(ItemsOf(l)))
             c == [k EXCEPT !.op = "line", !.line = l, !.seen = S]
  <2>2. k.op = "retry" /\ l \in k.lines /\ Become(p, c)
    BY <2>1 DEF ListLine, At
  <2>3. S \in SUBSET Reservations
    BY DEF Lapsed, OnItems
  <2> HIDE DEF S
  <2>4. /\ c \in Call /\ c.op = "line" /\ c.order = k.order /\ c.lines = k.lines /\ c.line = l
        /\ c.event = k.event
    BY <1>1, <2>3 DEF Call
  <2> HIDE DEF c
  <2>5. CallOk(c)
    BY <1>1, <2>2, <2>4 DEF CallOk
  <2> QED
    BY <2>2, <2>4, <2>5
<1> QED
  BY <1>6, <1>7, <1>9, <1>10, <1>11, <1>12, <1>13, <1>14, <1>16, <1>17

(* An event is recorded, or a call is lost in a crash. *)
LEMMA RecordFlow ==
    ASSUME FlowInv, NEW p \in Workers, RecordEvent(p) \/ Crash(p)
    PROVE  FlowInv'
<1>1. call[p] \in Call /\ CallOk(call[p])
  BY DEF FlowInv, FlowTyped, CallsOk
<1>2. UNCHANGED <<order, pay, providerVars>> /\ Become(p, Idle)
  BY DEF RecordEvent, Crash
<1>3. Grows
  BY <1>2, NothingGrows
<1>4. CallOk(Idle)'
  BY <1>3, IdleIsOk, CallStaysOk
<1>5. call' \in [Workers -> Call] /\ CallsOk'
  BY <1>2, <1>3, <1>4, IdleIsOk, CallsAfter
<1>6. CouponFollowsOrder' /\ ConfirmedHasMoney'
  BY <1>2, <1>3, OrdersStay
<1>7. recorded' \subseteq events
  BY <1>1 DEF RecordEvent, Crash, At, CallOk, FlowInv, FlowTyped
<1>8. crashes' \in 0 .. MaxCrashes
  BY OrderPaymentAssumption DEF RecordEvent, Crash, FlowInv, FlowTyped
<1> QED
  BY <1>2, <1>5, <1>6, <1>7, <1>8 DEF FlowInv, FlowTyped, PaymentsInOrder, providerVars

(* The provider declines or captures a payment. *)
LEMMA ProviderTells ==
    ASSUME FlowInv, NEW y \in Payments, Decline(y) \/ Capture(y)
    PROVE  FlowInv'
<1>1. /\ pay[y].open /\ UNCHANGED <<order, pay, recorded, call, crashes>>
      /\ paid \subseteq paid' /\ paid' \subseteq paid \cup {y}
      /\ \/ events' = events \cup {<<y, "failed">>}
         \/ events' = events \cup {<<y, "captured">>} /\ y \in paid'
  BY DEF Decline, Capture
<1>2. Grows
  BY <1>1 DEF Grows, Attempts
<1>3. CallsOk'
  <2>1. ASSUME NEW p \in Workers PROVE CallOk(call[p])'
    <3>1. PICK c \in Call : c = call[p] /\ CallOk(c)
      BY DEF FlowInv, FlowTyped, CallsOk
    <3>2. CallOk(c)' /\ call'[p] = c
      BY <1>1, <1>2, <3>1, CallStaysOk
    <3> QED
      BY <3>2 DEF CallOk
  <2> QED
    BY <2>1 DEF CallsOk
<1>4. CouponFollowsOrder' /\ ConfirmedHasMoney'
  BY <1>1, <1>2, OrdersStay
<1>5. PaymentsInOrder'
  BY <1>1 DEF FlowInv, PaymentsInOrder
<1>6. events' \subseteq Event /\ paid' \subseteq Payments
  BY <1>1 DEF FlowInv, FlowTyped, Event
<1> QED
  BY <1>1, <1>3, <1>4, <1>5, <1>6 DEF FlowInv, FlowTyped

(* An order is given up, confirmed, cancelled, moved on or packed. *)
LEMMA OrderFlow ==
    ASSUME FlowInv,
           \/ \E p \in Workers : GiveUp(p) \/ CommitOrder(p)
           \/ \E o \in Orders : Cancel(o) \/ Advance(o) \/ Pack(o)
    PROVE  FlowInv'
<1>1. ASSUME NEW o \in Orders, NEW row \in OrderRow, order' = [order EXCEPT ![o] = row],
             UNCHANGED <<pay, providerVars, recorded, crashes>>,
             order[o].status # "NONE" => row.status # "NONE",
             CouponRight(row), row.status \in Paid => Attempts(o) \cap paid # {},
             UNCHANGED call \/ \E p \in Workers, c \in Call : CallOk(c) /\ Become(p, c)
      PROVE  FlowInv'
  <2>1. /\ order' \in [Orders -> OrderRow] /\ Grows
        /\ CouponFollowsOrder' /\ ConfirmedHasMoney' /\ PaymentsInOrder'
    BY <1>1, OrderWritten
  <2> QED
    BY <1>1, <2>1, OrderStep
<1>2. \A o \in Orders :
         /\ order[o] \in OrderRow /\ CouponRight(order[o])
         /\ order[o].status \in Paid => Attempts(o) \cap paid # {}
  BY CouponsRight DEF FlowInv, FlowTyped, ConfirmedHasMoney, Paid
<1>3. \A c : Released(c) = (IF c = "RESERVED" THEN "RELEASED" ELSE c)
             /\ Consumed(c) = (IF c = "RESERVED" THEN "CONSUMED" ELSE c)
  BY DEF Released, Consumed
<1>4. ASSUME NEW p \in Workers, GiveUp(p) PROVE FlowInv'
  <2> DEFINE o == call[p].order
             st == IF order[o].status = "PENDING_PAYMENT" THEN "CANCELLED" ELSE order[o].status
             r1 == [order[o] EXCEPT !.status = st]
             row == [r1 EXCEPT !.coupon = Released(order[o].coupon)]
  <2>1. o \in Orders /\ UNCHANGED <<pay, providerVars, recorded, crashes>>
    BY <1>4 DEF GiveUp, At, FlowInv, FlowTyped, CallsOk, CallOk
  <2>2. UNCHANGED order \/
          order' = [order EXCEPT ![o].status = IF @ = "PENDING_PAYMENT" THEN "CANCELLED" ELSE @,
                                 ![o].coupon = Released(@)]
    BY <1>4 DEF GiveUp
  <2>3. UNCHANGED order \/ order' = [order EXCEPT ![o] = row]
    BY <1>2, <2>1, <2>2 DEF FlowInv, FlowTyped, OrderRow
  <2>4. st \in OrderStatus /\ Released(order[o].coupon) \in {"none", "CONSUMED", "RELEASED"}
    BY <1>2, <1>3, <2>1 DEF OrderRow, OrderStatus
  <2>5. row \in OrderRow /\ row.status = st /\ row.coupon = Released(order[o].coupon)
    <3>1. r1 \in OrderRow /\ r1.status = st
      <4>1. order[o] \in OrderRow
        BY <1>2, <2>1
      <4> HIDE DEF st
      <4> QED
        BY <2>4, <4>1 DEF OrderRow
    <3> HIDE DEF r1
    <3> QED
      BY <2>4, <3>1 DEF OrderRow
  <2> HIDE DEF r1, row
  <2>6. CouponRight(row) /\ (order[o].status # "NONE" => row.status # "NONE")
    BY <1>2, <1>3, <2>1, <2>4, <2>5 DEF CouponRight, Paid, OrderRow
  <2>7. row.status \in Paid => Attempts(o) \cap paid # {}
    BY <1>2, <2>1, <2>5 DEF Paid
  <2>8. \E c \in Call : CallOk(c) /\ Become(p, c)
    BY <1>4, IdleIsOk DEF GiveUp, ReleaseThrows
  <2> HIDE DEF o
  <2> QED
    BY <1>1, <2>1, <2>3, <2>5, <2>6, <2>7, <2>8, CallMoves
<1>5. ASSUME NEW p \in Workers, CommitOrder(p) PROVE FlowInv'
  <2> DEFINE o == call[p].order
             st == IF order[o].status = "PENDING_PAYMENT" THEN "CONFIRMED" ELSE order[o].status
             row == [status |-> st, coupon |-> Consumed(order[o].coupon), announced |-> TRUE]
  <2>1. /\ call[p].op = "commit" /\ o \in Orders /\ call[p].pay \in Attempts(o) \cap paid
        /\ UNCHANGED <<pay, providerVars, recorded, crashes>>
    BY <1>5 DEF CommitOrder, At, FlowInv, FlowTyped, CallsOk, CallOk
  <2>2. \E c \in Call : CallOk(c) /\ Become(p, c)
    BY <1>5, <2>1, DoneIsOk DEF CommitOrder, Free
  <2>3. CASE UNCHANGED order
    BY <2>1, <2>2, <2>3, CallMoves
  <2>4. CASE ~ order[o].announced
    <3>1. order' = [order EXCEPT ![o] = row]
      BY <1>5, <2>4 DEF CommitOrder
    <3>2. row \in OrderRow /\ CouponRight(row)
      BY <1>2, <1>3, <2>1 DEF OrderRow, OrderStatus, CouponRight, Paid
    <3>3. order[o].status # "NONE" => row.status # "NONE"
      OBVIOUS
    <3>4. row.status \in Paid => Attempts(o) \cap paid # {}
      BY <2>1
    <3> HIDE DEF o, row
    <3> QED
      BY <1>1, <2>1, <2>2, <3>1, <3>2, <3>3, <3>4
  <2> QED
    BY <1>5, <2>3, <2>4 DEF CommitOrder, stockVars
<1>6. ASSUME NEW o \in Orders, Cancel(o) PROVE FlowInv'
  <2> DEFINE r1 == [order[o] EXCEPT !.status = "CANCELLED"]
             row == [r1 EXCEPT !.coupon = Released(order[o].coupon)]
  <2>1. order' = [order EXCEPT ![o] = row]
    BY <1>2, <1>6 DEF Cancel, FlowInv, FlowTyped, OrderRow
  <2>2. Released(order[o].coupon) \in {"none", "CONSUMED", "RELEASED"}
    BY <1>2, <1>3 DEF OrderRow
  <2>3. row \in OrderRow /\ row.status = "CANCELLED" /\ row.coupon # "RESERVED"
    BY <1>2, <2>2 DEF OrderRow, OrderStatus
  <2> HIDE DEF r1, row
  <2>4. CouponRight(row) /\ row.status \notin Paid /\ row.status # "NONE"
    BY <2>3 DEF CouponRight, Paid
  <2> QED
    BY <1>1, <1>6, <2>1, <2>3, <2>4 DEF Cancel
<1>7. ASSUME NEW o \in Orders, NEW st \in Paid, order[o].status \in Paid,
             order' = [order EXCEPT ![o].status = st],
             UNCHANGED <<pay, providerVars, recorded, call, crashes>>
      PROVE  FlowInv'
  <2> DEFINE row == [order[o] EXCEPT !.status = st]
  <2>1. order' = [order EXCEPT ![o] = row]
    BY <1>7
  <2>2. row \in OrderRow /\ CouponRight(row) /\ row.status \in Paid /\ row.status # "NONE"
    BY <1>2, <1>7 DEF OrderRow, OrderStatus, CouponRight, Paid
  <2>3. Attempts(o) \cap paid # {}
    BY <1>2, <1>7
  <2> HIDE DEF row
  <2> QED
    BY <1>1, <1>7, <2>1, <2>2, <2>3
<1>8. ASSUME NEW o \in Orders, Advance(o) PROVE FlowInv'
  <2>1. PICK step \in {<<"CONFIRMED", "PROCESSING">>, <<"PACKED", "SHIPPED">>,
                       <<"SHIPPED", "DELIVERED">>} :
           /\ order[o].status = step[1]
           /\ order' = [order EXCEPT ![o].status = step[2]]
    BY <1>8 DEF Advance
  <2>2. step[1] \in Paid /\ step[2] \in Paid
    BY <2>1 DEF Paid
  <2> QED
    BY <1>7, <1>8, <2>1, <2>2 DEF Advance
<1>9. ASSUME NEW o \in Orders, Pack(o) PROVE FlowInv'
  <2>1. "PROCESSING" \in Paid /\ "PACKED" \in Paid
    BY DEF Paid
  <2> QED
    BY <1>7, <1>9, <2>1 DEF Pack
<1> QED
  BY <1>4, <1>5, <1>6, <1>8, <1>9

------------------------------------------------------------------------------
(* The specification.                                                      *)

IInv == StockInv /\ FlowInv

(* Before the first order nothing is held. *)
LEMMA InitStock == Init => StockInv
<1> SUFFICES ASSUME Init PROVE StockInv
  OBVIOUS
<1>1. /\ \A r \in Reservations : resv[r].status = "NONE"
      /\ resv \in [Reservations -> P!ReservationRow]
  BY OrderPaymentAssumption DEF Init, P!ReservationRow, P!Status
<1>2. P!Held(resv) = {} /\ P!Firm(resv) = {}
  BY <1>1 DEF P!Held, P!Firm, P!WithStatus
<1>3. \A i : P!Total(resv, {}, i) = 0
  <2>1. \A i : P!Units(resv, {}, i) = {}
    BY DEF P!Units
  <2>2. \A i : P!Total(resv, {}, i) = Cardinality({})
    BY <2>1, SameCardinality DEF P!Total
  <2> QED
    BY <2>2, FS_EmptySet
<1>4. /\ item \in [Items -> P!ItemRow]
      /\ \A i \in Items : /\ item[i].exists /\ item[i].onHand = item[i].available
                          /\ item[i].reserved = 0 /\ item[i].committed = 0
  BY OrderPaymentAssumption DEF Init, P!ItemRow
<1>5. \A i \in Items : item[i].onHand \in Nat /\ item[i].available \in Nat
  BY <1>4 DEF P!ItemRow
<1> QED
  BY <1>1, <1>2, <1>3, <1>4, <1>5
  DEF StockInv, P!RowInv, P!StockBalance, P!ReservedIsHeld, P!CommittedIsFirm,
      P!NothingOnNewItems, P!Items, Items

(* Nobody has paid, no call is in flight. *)
LEMMA InitFlow == Init => FlowInv
<1> SUFFICES ASSUME Init PROVE FlowInv
  OBVIOUS
<1>1. FlowTyped
  BY OrderPaymentAssumption, IdleIsOk
  DEF Init, FlowTyped, OrderRow, OrderStatus, PaymentRow, Event
<1>2. PaymentsInOrder
  BY DEF Init, PaymentsInOrder
<1>3. CallsOk
  BY IdleIsOk DEF Init, CallsOk
<1>4. CouponFollowsOrder /\ ConfirmedHasMoney
  BY DEF Init, CouponFollowsOrder, ConfirmedHasMoney
<1> QED
  BY <1>1, <1>2, <1>3, <1>4 DEF FlowInv

(* Every step of the stock is one of its row updates, on rows that are in  *)
(* the status the update expects.                                          *)
LEMMA StockNext == IInv /\ [Next]_vars => StockInv'
<1> SUFFICES ASSUME StockInv, FlowInv, [Next]_vars PROVE StockInv'
  BY DEF IInv
<1>1. ASSUME NEW S \in SUBSET Reservations, Stock!ReleaseRows(S),
             \A r \in S : resv[r].status \in {"ACTIVE", "COMMITTED"}
      PROVE  StockInv'
  BY <1>1, ReleaseKeeps
<1>2. ASSUME NEW p \in Workers, ReleaseListed(p) \/ ReleaseThrows(p) PROVE StockInv'
  <2> DEFINE S == {r \in call[p].seen : resv[r].status = "ACTIVE"}
  <2>1. Stock!ReleaseRows(S) \/ UNCHANGED stockVars
    BY <1>2 DEF ReleaseListed, ReleaseThrows
  <2>2. S \in SUBSET Reservations /\ \A r \in S : resv[r].status \in {"ACTIVE", "COMMITTED"}
    BY DEF FlowInv, FlowTyped, Call
  <2> HIDE DEF S
  <2> QED
    BY <1>1, <2>1, <2>2, StockStays
<1>3. ASSUME NEW p \in Workers, NEW o \in Orders, PlaceOrder(p, o) PROVE StockInv'
  BY <1>3, PlaceKeepsStock DEF PlaceOrder
<1>4. ASSUME NEW p \in Workers, GiveUp(p) PROVE StockInv'
  BY <1>2, <1>4 DEF GiveUp
<1>5. ASSUME NEW p \in Workers, RetryLine(p) PROVE StockInv'
  BY <1>2, <1>5 DEF RetryLine
<1>6. ASSUME NEW p \in Workers, RetryReserve(p) PROVE StockInv'
  <2>1. call[p].line \in Lines
    BY <1>6 DEF RetryReserve, At, FlowInv, CallsOk, CallOk
  <2>2. CASE UNCHANGED stockVars
    BY <2>2, StockStays
  <2>3. CASE \E r \in Reservations, i \in ItemsOf(call[p].line) :
               Stock!ReserveRow(r, i, LineQty[call[p].line], call[p].line)
    BY <2>1, <2>3, ReserveKeeps
  <2> QED
    BY <1>6, <2>2, <2>3 DEF RetryReserve
<1>7. ASSUME NEW p \in Workers, CommitOrder(p) PROVE StockInv'
  <2> DEFINE S == {r \in call[p].seen : resv[r].status = "ACTIVE"}
  <2>1. S \in SUBSET Reservations /\ \A r \in S : resv[r].status = "ACTIVE"
    BY DEF FlowInv, FlowTyped, Call
  <2>2. UNCHANGED stockVars \/ Stock!CommitRows(S)
    BY <1>7 DEF CommitOrder
  <2> HIDE DEF S
  <2> QED
    BY <2>1, <2>2, StockStays, CommitKeeps
<1>8. ASSUME NEW p \in Workers, ReleaseLapsed(p) \/ \E l \in Lines : ListLine(p, l) PROVE StockInv'
  <2>1. ASSUME NEW l \in Lines, ListLine(p, l) PROVE StockInv'
    BY <2>1, StockStays DEF ListLine, stockVars
  <2> QED
    BY <1>2, <1>8, <2>1 DEF ReleaseLapsed
<1>9. ASSUME NEW o \in Orders, Cancel(o) PROVE StockInv'
  <2> DEFINE S == RowsOf(o) \cap Stock!Held(resv)
  <2>1. S \in SUBSET Reservations /\ \A r \in S : resv[r].status \in {"ACTIVE", "COMMITTED"}
    BY DEF RowsOf, Stock!Held, Stock!WithStatus
  <2>2. Stock!ReleaseRows(S)
    BY <1>9 DEF Cancel
  <2> HIDE DEF S
  <2> QED
    BY <1>1, <2>1, <2>2
<1>10. ASSUME NEW o \in Orders, Pack(o) PROVE StockInv'
  BY <1>10, ShipKeeps DEF Pack
<1>11. ASSUME NEW r \in Reservations, Lapse(r) \/ SweepRow(r) PROVE StockInv'
  <2>1. CASE Lapse(r)
    BY <2>1, LapseKeeps DEF Lapse
  <2>2. CASE SweepRow(r)
    <3>1. {r} \in SUBSET Reservations /\ \A s \in {r} : resv[s].status \in {"ACTIVE", "COMMITTED"}
      BY <2>2 DEF SweepRow, Lapsed
    <3> QED
      BY <1>1, <2>2, <3>1 DEF SweepRow
  <2> QED
    BY <1>11, <2>1, <2>2
<1>12. ASSUME UNCHANGED stockVars PROVE StockInv'
  BY <1>12, StockStays
<1>13. ASSUME NEW p \in Workers, Begin(p) \/ Continue(p) \/ Crash(p) PROVE StockInv'
  <2>1. CASE Begin(p)
    BY <1>3, <1>12, <2>1 DEF Begin, ReplayCheckout, BeginRetry, Verify, Deliver
  <2>2. CASE Continue(p)
    BY <1>4, <1>5, <1>6, <1>7, <1>8, <1>12, <2>2
    DEF Continue, OpenSession, ClaimProviderOrder, CreateProviderOrder, AwaitProviderOrder, ListHolds,
        RetrySession, MarkFailed, ApplyCapture, FinalizeOrder, FinalizeHolds, ReadClock,
        CommitFails, ListLapsed, RecordEvent
  <2>3. CASE Crash(p)
    BY <1>12, <2>3 DEF Crash
  <2> QED
    BY <1>13, <2>1, <2>2, <2>3
<1>14. ASSUME NEW o \in Orders, Cancel(o) \/ Advance(o) \/ Pack(o) PROVE StockInv'
  BY <1>9, <1>10, <1>12, <1>14 DEF Advance
<1>15. ASSUME NEW y \in Payments, Decline(y) \/ Capture(y) PROVE StockInv'
  BY <1>12, <1>15 DEF Decline, Capture
<1>16. CASE UNCHANGED vars
  BY <1>12, <1>16 DEF vars, stockVars
<1> QED
  BY <1>11, <1>13, <1>14, <1>15, <1>16 DEF Next

(* Every step keeps payments, coupons and calls in order. *)
LEMMA FlowNext == IInv /\ [Next]_vars => FlowInv'
<1> SUFFICES ASSUME FlowInv, [Next]_vars PROVE FlowInv'
  BY DEF IInv
<1>1. ASSUME NEW p \in Workers, Begin(p) PROVE FlowInv'
  BY <1>1, PlaceFlow, BeginFlow, LearnFlow DEF Begin
<1>2. ASSUME NEW p \in Workers, Continue(p) PROVE FlowInv'
  BY <1>2, SessionFlow, ProviderFlow, OrderFlow, LookFlow, MarkFlow, RecordFlow DEF Continue
<1>3. ASSUME NEW p \in Workers, Crash(p) PROVE FlowInv'
  BY <1>3, RecordFlow
<1>4. ASSUME NEW y \in Payments, Decline(y) \/ Capture(y) PROVE FlowInv'
  BY <1>4, ProviderTells
<1>5. ASSUME NEW o \in Orders, Cancel(o) \/ Advance(o) \/ Pack(o) PROVE FlowInv'
  BY <1>5, OrderFlow
<1>6. ASSUME NEW r \in Reservations, Lapse(r) \/ SweepRow(r) PROVE FlowInv'
  BY <1>6, FlowStays DEF Lapse, SweepRow
<1>7. CASE UNCHANGED vars
  BY <1>7, FlowStays DEF vars, providerVars
<1> QED
  BY <1>1, <1>2, <1>3, <1>4, <1>5, <1>6, <1>7 DEF Next

(* The stock and the flow hold in every state, whatever overlaps. *)
THEOREM Inductive == Spec => []IInv
<1>1. Init => IInv
  BY InitStock, InitFlow DEF IInv
<1>2. IInv /\ [Next]_vars => IInv'
  BY StockNext, FlowNext DEF IInv
<1> QED
  BY <1>1, <1>2, PTL DEF Spec

(* Every row, event and call is of its type, and the counter of crashes    *)
(* within its bound.                                                       *)
THEOREM TypeCorrect == Spec => []TypeOK
<1>1. IInv => TypeOK
  BY DEF IInv, StockInv, P!RowInv, FlowInv, FlowTyped, TypeOK, P!ItemRow, Stock!ItemRow, P!Items,
         Items, P!ReservationRow, Stock!ReservationRow, P!Status, Stock!Status, Stock!Items
<1> QED
  BY <1>1, Inductive, PTL

(* The counters of every item are what the reservations add up to: no race *)
(* of checkout, retry, finalization, cancellation, packing and sweeps makes *)
(* a unit appear, vanish or be given back twice.                           *)
THEOREM CountersStayRight == Spec => []CountersAgree
<1>1. IInv => CountersAgree
  BY SameSums
  DEF IInv, StockInv, P!RowInv, CountersAgree, P!StockBalance, Stock!StockBalance,
      P!ReservedIsHeld, Stock!ReservedIsHeld, P!CommittedIsFirm, Stock!CommittedIsFirm,
      P!Items, Stock!Items
<1> QED
  BY <1>1, Inductive, PTL

(* A coupon is RESERVED while its order waits for money, CONSUMED once it   *)
(* was confirmed, and never left RESERVED by a cancellation.               *)
THEOREM CouponGoesWithOrder == Spec => []CouponFollowsOrder
<1>1. IInv => CouponFollowsOrder
  BY DEF IInv, FlowInv
<1> QED
  BY <1>1, Inductive, PTL

(* However callbacks, declines, webhooks and crashes interleave, an order   *)
(* is confirmed, packed, shipped or delivered only with captured money.    *)
THEOREM PaidBeforeConfirmed == Spec => []ConfirmedHasMoney
<1>1. IInv => ConfirmedHasMoney
  BY DEF IInv, FlowInv
<1> QED
  BY <1>1, Inductive, PTL

------------------------------------------------------------------------------
(* The holds of the lines.                                                 *)

(* Every line of a placed order has rows, in the order of their creation.  *)
Numbered ==
    /\ \A r \in Stock!Existing : resv[r].at <= Cardinality(Stock!Existing)
    /\ \A r, s \in Stock!Existing : resv[r].line = resv[s].line /\ resv[r].at = resv[s].at => r = s
    /\ \A l \in Lines : order[LineOrder[l]].status = "NONE" => Stock!OfLine(l) = {}
    /\ \A l \in Lines : order[LineOrder[l]].status # "NONE" => Stock!LatestOf(l) # {}

(* What ConfirmedHoldsEveryLine says, with the one row named. *)
FirmRight ==
    \A l \in Lines :
        LET status == order[LineOrder[l]].status IN
        /\ status \in {"CONFIRMED", "PROCESSING"} => \E r : FirmOf(l) = {r}
        /\ status = "PENDING_PAYMENT" => FirmOf(l) = {}

(* The outbox row goes with the confirmation. *)
Announced ==
    \A o \in Orders :
        /\ order[o].status \in {"NONE", "PENDING_PAYMENT"} => ~ order[o].announced
        /\ order[o].status \in Paid => order[o].announced

(* A finalization read its holds from a placed order, only rows of that    *)
(* order, and while the order is still pending one for each of its lines.  *)
SeenRight(c) ==
    /\ c.op \in {"holds", "clock", "commit"} => order[c.order].status # "NONE"
    /\ c.op \in {"clock", "commit"} =>
          /\ \A r \in c.seen : r \in Stock!Existing /\ resv[r].line \in LinesOf(c.order)
          /\ order[c.order].status = "PENDING_PAYMENT" =>
                \A l \in LinesOf(c.order) : \E r : {s \in c.seen : resv[s].line = l} = {r}

HoldsInv == Numbered /\ FirmRight /\ Announced /\ \A p \in Workers : SeenRight(call[p])

(* Rows keep their line and their place; the rows of New appear. *)
RowsMove(New) ==
    /\ New \subseteq Reservations
    /\ \A r \in New : /\ resv[r].status = "NONE" /\ resv'[r].status = "ACTIVE"
                      /\ resv'[r].at = Cardinality(Stock!Existing) + 1
    /\ \A r, s \in New : resv'[r].line = resv'[s].line => r = s
    /\ \A r \in Reservations \ New :
          /\ resv'[r].line = resv[r].line /\ resv'[r].at = resv[r].at
          /\ resv'[r].status = "NONE" <=> resv[r].status = "NONE"

(* An order is placed with a row for each line, and pending only once. *)
OrdersGoOn(New) ==
    /\ \A o \in Orders : /\ order[o].status # "NONE" => order'[o].status # "NONE"
                         /\ order'[o].status = "PENDING_PAYMENT" =>
                               order[o].status \in {"NONE", "PENDING_PAYMENT"}
    /\ \A l \in Lines : IF order'[LineOrder[l]].status = "NONE"
                        THEN \A r \in New : resv'[r].line # l
                        ELSE \/ order[LineOrder[l]].status # "NONE"
                             \/ \E r \in New : resv'[r].line = l

(* No row is made firm or taken away from the firm ones. *)
FirmKept == \A r \in Reservations : resv'[r].status = "COMMITTED" <=> resv[r].status = "COMMITTED"

(* Rows that exist after a step. *)
LEMMA ExistingAfter ==
    ASSUME NEW New, RowsMove(New)
    PROVE  /\ Stock!Existing' = Stock!Existing \cup New
           /\ Stock!Existing \cap New = {}
           /\ IsFiniteSet(Stock!Existing) /\ Cardinality(Stock!Existing) \in Nat
           /\ Cardinality(Stock!Existing') \in Nat
           /\ Cardinality(Stock!Existing) <= Cardinality(Stock!Existing')
           /\ New # {} => Cardinality(Stock!Existing) + 1 <= Cardinality(Stock!Existing')
<1>1. Stock!Existing' = Stock!Existing \cup New /\ Stock!Existing \cap New = {}
  BY DEF RowsMove, Stock!Existing
<1>2. PICK E, F : E = Stock!Existing /\ F = Stock!Existing'
  OBVIOUS
<1>3. E \in SUBSET Reservations /\ F \in SUBSET Reservations /\ E \in SUBSET F
  BY <1>1, <1>2 DEF Stock!Existing
<1>4. IsFiniteSet(E) /\ IsFiniteSet(F)
  BY <1>3, OrderPaymentAssumption, FS_Subset
<1>5. Cardinality(E) \in Nat /\ Cardinality(F) \in Nat /\ Cardinality(E) <= Cardinality(F)
  BY <1>3, <1>4, FS_CardinalityType, FS_Subset
<1>6. ASSUME NEW r \in New PROVE Cardinality(E) + 1 <= Cardinality(F)
  <2>1. E \cup {r} \in SUBSET F /\ r \notin E
    BY <1>1, <1>2
  <2>2. Cardinality(E \cup {r}) = Cardinality(E) + 1
    BY <1>4, <2>1, FS_AddElement
  <2>3. Cardinality(E \cup {r}) <= Cardinality(F)
    BY <1>4, <2>1, FS_Subset
  <2> QED
    BY <2>2, <2>3
<1> QED
  BY <1>1, <1>2, <1>4, <1>5, <1>6

(* The rows stay numbered. *)
LEMMA NumbersStay ==
    ASSUME Numbered, NEW New, RowsMove(New), OrdersGoOn(New),
           \A r \in Reservations : resv[r].at \in Nat
    PROVE  Numbered'
<1> DEFINE E == Stock!Existing
<1>1. PICK n, m : /\ n = Cardinality(Stock!Existing) /\ m = Cardinality(Stock!Existing)'
                  /\ n \in Nat /\ m \in Nat /\ n <= m /\ (New # {} => n + 1 <= m)
  BY ExistingAfter
<1>2. PICK F : F = Stock!Existing' /\ F = E \cup New /\ E \cap New = {}
  BY ExistingAfter
<1>3. /\ \A r \in New : resv'[r].at = n + 1
      /\ \A r \in E : r \in Reservations \ New /\ resv'[r].line = resv[r].line /\ resv'[r].at = resv[r].at
      /\ \A r \in E : resv[r].at \in Nat /\ resv[r].at <= n
  BY <1>1, <1>2 DEF RowsMove, Numbered, Stock!Existing
<1>4. \A r \in F : resv'[r].at <= m
  BY <1>1, <1>2, <1>3
<1>5. \A r, s \in F : resv'[r].line = resv'[s].line /\ resv'[r].at = resv'[s].at => r = s
  <2>1. ASSUME NEW r \in F, NEW s \in F, resv'[r].line = resv'[s].line, resv'[r].at = resv'[s].at
        PROVE  r = s
    <3>1. CASE r \in E /\ s \in E
      BY <1>3, <2>1, <3>1 DEF Numbered
    <3>2. CASE r \in New /\ s \in New
      BY <2>1, <3>2 DEF RowsMove
    <3>3. CASE (r \in E /\ s \in New) \/ (r \in New /\ s \in E)
      BY <1>1, <1>3, <2>1, <3>3
    <3> QED
      BY <1>2, <3>1, <3>2, <3>3
  <2> QED
    BY <2>1
<1>6. \A l : Stock!OfLine(l)' = Stock!OfLine(l) \cup {r \in New : resv'[r].line = l}
  BY <1>2, <1>3 DEF Stock!OfLine
<1>7. ASSUME NEW l \in Lines, order'[LineOrder[l]].status = "NONE" PROVE Stock!OfLine(l)' = {}
  BY <1>6, <1>7, OrderPaymentAssumption DEF OrdersGoOn, Numbered
<1>8. ASSUME NEW l \in Lines, order'[LineOrder[l]].status # "NONE" PROVE Stock!LatestOf(l)' # {}
  <2>1. CASE \E r \in New : resv'[r].line = l
    <3>1. PICK r \in New : resv'[r].line = l
      BY <2>1
    <3>2. r \in Stock!OfLine(l)'
      BY <1>6, <3>1
    <3>3. \A s \in Stock!OfLine(l)' : resv'[s].at <= resv'[r].at
      <4>1. ASSUME NEW s \in Stock!OfLine(l)' PROVE resv'[s].at <= resv'[r].at
        <5>1. s \in F
          BY <1>2 DEF Stock!OfLine
        <5> QED
          BY <1>1, <1>2, <1>3, <5>1
      <4> QED
        BY <4>1
    <3> QED
      BY <3>2, <3>3 DEF Stock!LatestOf
  <2>2. CASE ~ \E r \in New : resv'[r].line = l
    <3>1. Stock!OfLine(l)' = Stock!OfLine(l)
      BY <1>6, <2>2
    <3>2. PICK r \in Stock!OfLine(l) : \A s \in Stock!OfLine(l) : resv[s].at <= resv[r].at
      BY <1>8, <2>2 DEF OrdersGoOn, Numbered, Stock!LatestOf
    <3>3. \A s \in Stock!OfLine(l) : resv'[s].at = resv[s].at
      BY <1>3 DEF Stock!OfLine
    <3> QED
      BY <3>1, <3>2, <3>3 DEF Stock!LatestOf
  <2> QED
    BY <2>1, <2>2
<1> QED
  BY <1>1, <1>2, <1>4, <1>5, <1>7, <1>8 DEF Numbered

(* What a finalization has read stays right. *)
LEMMA SeenStays ==
    ASSUME NEW c \in Call, SeenRight(c), CallOk(c), NEW New, RowsMove(New), OrdersGoOn(New)
    PROVE  SeenRight(c)'
<1>1. CASE c.op \notin {"holds", "clock", "commit"}
  BY <1>1 DEF SeenRight
<1>2. CASE c.op \in {"holds", "clock", "commit"}
  <2>1. c.order \in Orders /\ order[c.order].status # "NONE"
    BY <1>2 DEF CallOk, SeenRight
  <2>2. order'[c.order].status # "NONE"
    BY <2>1 DEF OrdersGoOn
  <2>3. order'[c.order].status = "PENDING_PAYMENT" => order[c.order].status = "PENDING_PAYMENT"
    BY <2>1 DEF OrdersGoOn
  <2>4. ASSUME c.op \in {"clock", "commit"}
        PROVE  /\ \A r \in c.seen : r \in Stock!Existing' /\ resv'[r].line = resv[r].line
               /\ \A r \in c.seen : resv[r].line \in LinesOf(c.order)
    BY <2>4 DEF SeenRight, RowsMove, Stock!Existing
  <2>5. ASSUME c.op \in {"clock", "commit"}, order'[c.order].status = "PENDING_PAYMENT",
               NEW l \in LinesOf(c.order)
        PROVE  \E r : {s \in c.seen : resv'[s].line = l} = {r}
    <3>1. PICK r : {s \in c.seen : resv[s].line = l} = {r}
      BY <2>3, <2>5 DEF SeenRight
    <3>2. {s \in c.seen : resv'[s].line = l} = {s \in c.seen : resv[s].line = l}
      BY <2>4, <2>5
    <3> QED
      BY <3>1, <3>2
  <2>6. LinesOf(c.order)' = LinesOf(c.order)
    BY DEF LinesOf
  <2> QED
    BY <2>2, <2>4, <2>5, <2>6 DEF SeenRight
<1> QED
  BY <1>1, <1>2

(* The calls that do not finalize. *)
OnlyOthers == \A p \in Workers : call'[p] = call[p] \/ call'[p].op \notin {"holds", "clock", "commit"}

(* A step none of whose calls goes on to finalize. *)
LEMMA SeenKept ==
    ASSUME FlowInv, HoldsInv, FlowInv', NEW New, RowsMove(New), OrdersGoOn(New), OnlyOthers
    PROVE  \A p \in Workers : SeenRight(call[p])'
<1>1. ASSUME NEW p \in Workers PROVE SeenRight(call[p])'
  <2>1. PICK c \in Call : c = call'[p]
    BY DEF FlowInv, FlowTyped
  <2>2. CASE c.op \notin {"holds", "clock", "commit"}
    BY <2>1, <2>2 DEF SeenRight
  <2>3. CASE c = call[p]
    <3>1. SeenRight(c) /\ CallOk(c)
      BY <2>3 DEF HoldsInv, FlowInv, CallsOk
    <3>2. SeenRight(c)'
      BY <3>1, SeenStays
    <3> QED
      BY <2>1, <3>2 DEF SeenRight
  <2> QED
    BY <2>1, <2>2, <2>3 DEF OnlyOthers
<1> QED
  BY <1>1

(* Firm rows stay with their line. *)
LEMMA FirmStays ==
    ASSUME NEW New, RowsMove(New), FirmKept
    PROVE  \A l : FirmOf(l)' = FirmOf(l)
<1>1. Stock!Firm(resv)' = Stock!Firm(resv)
  BY DEF FirmKept, Stock!Firm, Stock!WithStatus
<1>2. \A r \in Stock!Firm(resv) : resv'[r].line = resv[r].line
  BY DEF RowsMove, Stock!Firm, Stock!WithStatus
<1> QED
  BY <1>1, <1>2 DEF FirmOf

(* Rows that exist are released, committed or shipped. *)
LEMMA RowsSet ==
    ASSUME resv \in [Reservations -> P!ReservationRow], NEW S \in SUBSET Reservations,
           \A r \in S : resv[r].status # "NONE", NEW st \in {"COMMITTED", "RELEASED"},
           resv' = [r \in Reservations |->
                      IF r \in S THEN [resv[r] EXCEPT !.status = st] ELSE resv[r]]
    PROVE  /\ RowsMove({})
           /\ \A r \in Reservations : /\ resv'[r].status = IF r \in S THEN st ELSE resv[r].status
                                      /\ resv'[r].line = resv[r].line
<1>1. ASSUME NEW r \in Reservations
      PROVE  /\ resv'[r].status = IF r \in S THEN st ELSE resv[r].status
             /\ resv'[r].line = resv[r].line /\ resv'[r].at = resv[r].at
  <2>1. resv[r] \in P!ReservationRow
    OBVIOUS
  <2>2. resv'[r] = IF r \in S THEN [resv[r] EXCEPT !.status = st] ELSE resv[r]
    OBVIOUS
  <2> QED
    BY <2>1, <2>2 DEF P!ReservationRow
<1> QED
  BY <1>1 DEF RowsMove

(* ACTIVE rows are released. *)
LEMMA ActiveReleased ==
    ASSUME resv \in [Reservations -> P!ReservationRow], NEW S \in SUBSET Reservations,
           \A r \in S : resv[r].status = "ACTIVE", Stock!ReleaseRows(S)
    PROVE  RowsMove({}) /\ FirmKept
<1>1. resv' = [r \in Reservations |->
                 IF r \in S THEN [resv[r] EXCEPT !.status = "RELEASED"] ELSE resv[r]]
  BY DEF Stock!ReleaseRows
<1>2. /\ RowsMove({})
      /\ \A r \in Reservations : resv'[r].status = IF r \in S THEN "RELEASED" ELSE resv[r].status
  BY <1>1, RowsSet
<1> QED
  BY <1>2 DEF FirmKept

(* Nothing happens to the rows, or to the orders. *)
LEMMA RowsStay == ASSUME UNCHANGED resv PROVE RowsMove({}) /\ FirmKept
BY DEF RowsMove, FirmKept

(* A list is released, or its release throws. *)
LEMMA ListReleased ==
    ASSUME FlowInv, resv \in [Reservations -> P!ReservationRow], NEW p \in Workers,
           ReleaseListed(p) \/ ReleaseThrows(p)
    PROVE  RowsMove({}) /\ FirmKept
<1> DEFINE S == {r \in call[p].seen : resv[r].status = "ACTIVE"}
<1>1. Stock!ReleaseRows(S) \/ UNCHANGED resv
  BY DEF ReleaseListed, ReleaseThrows, stockVars
<1>2. S \in SUBSET Reservations /\ \A r \in S : resv[r].status = "ACTIVE"
  BY DEF FlowInv, FlowTyped, Call
<1> HIDE DEF S
<1> QED
  BY <1>1, <1>2, ActiveReleased, RowsStay

(* Orders that stay placed, and do not go back to pending. *)
LEMMA OrdersMove ==
    ASSUME \A o \in Orders : /\ order[o].status = "NONE" <=> order'[o].status = "NONE"
                             /\ order'[o].status = "PENDING_PAYMENT" =>
                                   order[o].status = "PENDING_PAYMENT"
    PROVE  OrdersGoOn({})
BY OrderPaymentAssumption DEF OrdersGoOn

(* A step that leaves the orders alone and no row firmer. *)
LEMMA NothingFirm ==
    ASSUME IInv, HoldsInv, FlowInv', NEW New, RowsMove(New), FirmKept, OnlyOthers, UNCHANGED order,
           \A r \in New : /\ resv'[r].line \in Lines
                          /\ order[LineOrder[resv'[r].line]].status # "NONE"
    PROVE  HoldsInv'
<1>1. OrdersGoOn(New)
  BY OrderPaymentAssumption DEF OrdersGoOn
<1>2. Numbered'
  BY <1>1, NumbersStay DEF HoldsInv, IInv, StockInv, P!RowInv, P!ReservationRow
<1>3. \A p \in Workers : SeenRight(call[p])'
  BY <1>1, SeenKept DEF IInv
<1>4. FirmRight' /\ Announced'
  BY FirmStays DEF HoldsInv, FirmRight, Announced
<1> QED
  BY <1>2, <1>3, <1>4 DEF HoldsInv

(* What becomes of the other calls. *)
LEMMA CallsThen ==
    ASSUME FlowInv, NEW p \in Workers, NEW c, Become(p, c), c.op \notin {"holds", "clock", "commit"}
    PROVE  OnlyOthers
<1>1. \A q \in Workers : call'[q] = IF q = p THEN c ELSE call[q]
  BY DEF FlowInv, FlowTyped, Become
<1> QED
  BY <1>1 DEF OnlyOthers

(* Nor do the calls that answer. *)
LEMMA DoneThen ==
    ASSUME FlowInv, NEW p \in Workers, Done(p) \/ Become(p, Idle)
    PROVE  OnlyOthers
<1>1. CASE Become(p, Idle)
  BY <1>1, IdleIsOk, CallsThen
<1>2. CASE Become(p, [Idle EXCEPT !.op = "record", !.event = call[p].event])
  <2> DEFINE c == [Idle EXCEPT !.op = "record", !.event = call[p].event]
  <2>1. c.op = "record" /\ Become(p, c)
    BY <1>2 DEF Idle
  <2> HIDE DEF c
  <2> QED
    BY <2>1, CallsThen
<1> QED
  BY <1>1, <1>2 DEF Done

(* The steps that do not read the holds of a finalization. *)
LEMMA OthersOnly ==
    ASSUME FlowInv, NEW p \in Workers,
           \/ Begin(p) \/ Crash(p)
           \/ OpenSession(p) \/ ClaimProviderOrder(p) \/ CreateProviderOrder(p)
           \/ AwaitProviderOrder(p) \/ ListHolds(p) \/ GiveUp(p)
           \/ \E l \in Lines : ListLine(p, l)
           \/ RetryLine(p) \/ RetryReserve(p) \/ RetrySession(p) \/ MarkFailed(p) \/ ApplyCapture(p)
           \/ CommitOrder(p) \/ CommitFails(p) \/ ListLapsed(p) \/ ReleaseLapsed(p)
           \/ RecordEvent(p)
    PROVE  OnlyOthers
<1>1. call[p] \in Call
  BY DEF FlowInv, FlowTyped
<1>2. ASSUME NEW c, Become(p, c), c.op \notin {"holds", "clock", "commit"} PROVE OnlyOthers
  BY <1>2, CallsThen
<1>3. ASSUME NEW op \in {"session", "claimed", "waits", "giveUp", "finalize", "lapsed"}, Goto(p, op)
      PROVE  OnlyOthers
  <2> DEFINE c == [call[p] EXCEPT !.op = op]
  <2>1. c.op = op /\ Become(p, c)
    BY <1>1, <1>3 DEF Goto, Call
  <2> HIDE DEF c
  <2> QED
    BY <1>2, <2>1
<1>4. CASE Begin(p)
  <2>1. ASSUME NEW o \in Orders, PlaceOrder(p, o) \/ ReplayCheckout(p, o) \/ BeginRetry(p, o)
        PROVE  OnlyOthers
    <3>1. \/ Become(p, [Idle EXCEPT !.op = "session", !.order = o])
          \/ Become(p, [Idle EXCEPT !.op = "retry", !.order = o, !.lines = LinesOf(o)])
      BY <2>1 DEF PlaceOrder, ReplayCheckout, BeginRetry
    <3>2. /\ [Idle EXCEPT !.op = "session", !.order = o].op = "session"
          /\ [Idle EXCEPT !.op = "retry", !.order = o, !.lines = LinesOf(o)].op = "retry"
      BY DEF Idle
    <3> QED
      BY <1>2, <3>1, <3>2
  <2>2. ASSUME NEW y \in Payments, Verify(p, y) PROVE OnlyOthers
    <3>1. PICK op \in {"capture", "fail"} :
             Become(p, [op |-> op, order |-> pay[y].order, pay |-> y, lines |-> {},
                        line |-> NoLine, seen |-> {}, event |-> NoEvent])
      BY <2>2 DEF Verify
    <3> QED
      BY <1>2, <3>1
  <2>3. ASSUME NEW e \in Event, Deliver(p, e) PROVE OnlyOthers
    <3>1. PICK op \in {"capture", "fail", "record"} :
             Become(p, [op |-> op, order |-> pay[e[1]].order, pay |-> e[1], lines |-> {},
                        line |-> NoLine, seen |-> {}, event |-> e])
      BY <2>3 DEF Deliver
    <3> QED
      BY <1>2, <3>1
  <2> QED
    BY <1>4, <2>1, <2>2, <2>3 DEF Begin
<1>5. CASE OpenSession(p)
  <2>1. ASSUME NEW y \in Payments, TakeAttempt(p, y) PROVE OnlyOthers
    BY <1>2, <2>1, AttemptTaken
  <2>2. LatestAttempt(call[p].order) \subseteq Payments
    BY DEF LatestAttempt, Attempts
  <2> QED
    BY <1>5, <2>1, <2>2, DoneThen DEF OpenSession
<1>6. CASE ClaimProviderOrder(p) \/ CreateProviderOrder(p) \/ AwaitProviderOrder(p)
  BY <1>3, <1>6, DoneThen DEF ClaimProviderOrder, CreateProviderOrder, AwaitProviderOrder
<1>7. CASE RetryLine(p)
  <2> DEFINE l == call[p].line
             d == [call[p] EXCEPT !.op = "retry", !.lines = @ \ {l}, !.line = NoLine, !.seen = {}]
             e == [call[p] EXCEPT !.op = "reserve", !.seen = {}]
  <2>1. d.op = "retry" /\ e.op = "reserve"
    BY <1>1 DEF Call
  <2>2. Become(p, d) \/ Become(p, e) \/ Become(p, Idle)
    BY <1>7 DEF RetryLine, ReleaseThrows
  <2> HIDE DEF d, e
  <2> QED
    BY <1>2, <2>1, <2>2, DoneThen
<1>8. CASE RetryReserve(p)
  <2>1. [call[p] EXCEPT !.op = "retry", !.lines = @ \ {call[p].line}, !.line = NoLine].op = "retry"
    BY <1>1 DEF Call
  <2> QED
    BY <1>2, <1>8, <2>1, DoneThen DEF RetryReserve
<1>9. CASE CommitFails(p)
  BY <1>3, <1>9, DoneThen DEF CommitFails
<1>10. CASE RetrySession(p) \/ ApplyCapture(p)
  BY <1>3, <1>10 DEF RetrySession, ApplyCapture
<1>11. CASE \/ Crash(p) \/ GiveUp(p) \/ MarkFailed(p) \/ CommitOrder(p) \/ ReleaseLapsed(p)
            \/ RecordEvent(p)
  BY <1>11, DoneThen
  DEF Crash, GiveUp, MarkFailed, CommitOrder, ReleaseLapsed, ReleaseThrows, RecordEvent
<1>12. ASSUME NEW op \in {"cancel", "sweep"}, NEW S \in SUBSET Reservations, GotoWith(p, op, S)
       PROVE  OnlyOthers
  BY <1>2, <1>12, ListRead
<1>13. CASE ListHolds(p) \/ ListLapsed(p)
  <2>1. {r \in RowsOf(call[p].order) : resv[r].status = "ACTIVE"} \in SUBSET Reservations
        /\ Lapsed(RowsOf(call[p].order)) \in SUBSET Reservations
    BY DEF RowsOf, Lapsed
  <2> QED
    BY <1>12, <1>13, <2>1 DEF ListHolds, ListLapsed
<1>14. CASE \E l \in Lines : ListLine(p, l)
  <2>1. PICK l \in Lines : ListLine(p, l)
    BY <1>14
  <2> DEFINE S == Lapsed(OnItems(ItemsOf(l)))
             c == [call[p] EXCEPT !.op = "line", !.line = l, !.seen = S]
  <2>2. Become(p, c)
    BY <2>1 DEF ListLine
  <2>3. c.op = "line"
    BY <1>1 DEF Call
  <2> HIDE DEF c
  <2> QED
    BY <1>2, <2>2, <2>3
<1> QED
  BY <1>4, <1>5, <1>6, <1>7, <1>8, <1>9, <1>10, <1>11, <1>13, <1>14

(* The steps that release ACTIVE rows, hold a line again or look. *)
LEMMA QuietHolds ==
    ASSUME IInv, HoldsInv, FlowInv',
           \/ \E p \in Workers : \/ \E o \in Orders : ReplayCheckout(p, o) \/ BeginRetry(p, o)
                                 \/ \E y \in Payments : Verify(p, y)
                                 \/ \E e \in Event : Deliver(p, e)
                                 \/ Crash(p)
                                 \/ OpenSession(p) \/ ClaimProviderOrder(p)
                                 \/ CreateProviderOrder(p) \/ AwaitProviderOrder(p)
                                 \/ ListHolds(p) \/ \E l \in Lines : ListLine(p, l)
                                 \/ RetryLine(p) \/ RetryReserve(p) \/ RetrySession(p)
                                 \/ MarkFailed(p) \/ ApplyCapture(p) \/ CommitFails(p)
                                 \/ ListLapsed(p) \/ ReleaseLapsed(p) \/ RecordEvent(p)
           \/ \E y \in Payments : Decline(y) \/ Capture(y)
           \/ \E r \in Reservations : Lapse(r) \/ SweepRow(r)
           \/ UNCHANGED vars
    PROVE  HoldsInv'
<1>1. resv \in [Reservations -> P!ReservationRow] /\ FlowInv
  BY DEF IInv, StockInv, P!RowInv
<1>2. ASSUME OnlyOthers, UNCHANGED order, RowsMove({}), FirmKept PROVE HoldsInv'
  BY <1>2, NothingFirm
<1>3. ASSUME OnlyOthers, UNCHANGED <<order, resv>> PROVE HoldsInv'
  BY <1>2, <1>3, RowsStay
<1>4. ASSUME NEW p \in Workers, ReleaseListed(p) \/ ReleaseThrows(p), OnlyOthers, UNCHANGED order
      PROVE  HoldsInv'
  <2>1. RowsMove({}) /\ FirmKept
    BY <1>1, <1>4, ListReleased
  <2> QED
    BY <1>2, <1>4, <2>1
<1>5. UNCHANGED call => OnlyOthers
  BY DEF OnlyOthers
<1>6. ASSUME NEW p \in Workers,
             \/ \E o \in Orders : ReplayCheckout(p, o) \/ BeginRetry(p, o)
             \/ \E y \in Payments : Verify(p, y)
             \/ \E e \in Event : Deliver(p, e)
             \/ Crash(p) \/ OpenSession(p) \/ ClaimProviderOrder(p) \/ CreateProviderOrder(p)
             \/ AwaitProviderOrder(p) \/ ListHolds(p) \/ (\E l \in Lines : ListLine(p, l))
             \/ RetrySession(p) \/ MarkFailed(p) \/ ApplyCapture(p) \/ CommitFails(p)
             \/ ListLapsed(p) \/ RecordEvent(p)
      PROVE  HoldsInv'
  <2>1. UNCHANGED <<order, resv>>
    <3>1. ASSUME NEW l \in Lines, ListLine(p, l) PROVE UNCHANGED <<order, resv>>
      BY <3>1 DEF ListLine, stockVars
    <3> QED
      BY <1>6, <3>1 DEF ReplayCheckout, BeginRetry, Verify, Deliver, Crash, OpenSession, ClaimProviderOrder,
                CreateProviderOrder, AwaitProviderOrder, ListHolds, RetrySession, MarkFailed,
                ApplyCapture, CommitFails, ListLapsed, RecordEvent, stockVars
  <2>2. OnlyOthers
    BY <1>1, <1>6, OthersOnly DEF Begin
  <2> QED
    BY <1>3, <2>1, <2>2
<1>7. ASSUME NEW p \in Workers, RetryLine(p) PROVE HoldsInv'
  BY <1>1, <1>4, <1>7, OthersOnly DEF RetryLine
<1>8. ASSUME NEW p \in Workers, ReleaseLapsed(p) PROVE HoldsInv'
  BY <1>1, <1>4, <1>8, OthersOnly DEF ReleaseLapsed
<1>9. ASSUME NEW p \in Workers, RetryReserve(p) PROVE HoldsInv'
  <2> DEFINE l == call[p].line
  <2>1. UNCHANGED order /\ OnlyOthers
    BY <1>1, <1>9, OthersOnly DEF RetryReserve
  <2>2. CASE UNCHANGED stockVars
    BY <1>3, <2>1, <2>2 DEF stockVars
  <2>3. ASSUME NEW r \in Reservations, NEW i, Stock!ReserveRow(r, i, LineQty[l], l)
        PROVE  HoldsInv'
    <3> DEFINE n == Cardinality(Stock!Existing)
               row == [status |-> "ACTIVE", item |-> i, qty |-> LineQty[l], line |-> l,
                       expired |-> FALSE, at |-> n + 1]
    <3>1. l \in Lines /\ order[LineOrder[l]].status # "NONE"
      BY <1>1, <1>9 DEF RetryReserve, At, FlowInv, CallsOk, CallOk, LinesOf
    <3>2. resv[r].status = "NONE" /\ resv' = [resv EXCEPT ![r] = row]
      BY <2>3, SameCardinality DEF Stock!ReserveRow
    <3>3. row.status = "ACTIVE" /\ row.line = l /\ row.at = n + 1
      OBVIOUS
    <3> HIDE DEF row
    <3>4. \A s \in Reservations : resv'[s] = IF s = r THEN row ELSE resv[s]
      BY <1>1, <3>2
    <3>5. RowsMove({r}) /\ FirmKept
      BY <3>2, <3>3, <3>4 DEF RowsMove, FirmKept
    <3>6. \A s \in {r} : resv'[s].line \in Lines /\ order[LineOrder[resv'[s].line]].status # "NONE"
      BY <3>1, <3>3, <3>4
    <3> QED
      BY <2>1, <3>5, <3>6, NothingFirm
  <2> QED
    BY <1>9, <2>2, <2>3 DEF RetryReserve
<1>10. ASSUME NEW y \in Payments, Decline(y) \/ Capture(y) PROVE HoldsInv'
  BY <1>3, <1>5, <1>10 DEF Decline, Capture, stockVars
<1>11. ASSUME NEW r \in Reservations, Lapse(r) PROVE HoldsInv'
  <2>1. \A s \in Reservations : /\ resv'[s].status = resv[s].status /\ resv'[s].line = resv[s].line
                                /\ resv'[s].at = resv[s].at
    <3> DEFINE row == [resv[r] EXCEPT !.expired = TRUE]
    <3>1. resv' = [resv EXCEPT ![r] = row]
      BY <1>11 DEF Lapse, Stock!Lapse
    <3>2. row.status = resv[r].status /\ row.line = resv[r].line /\ row.at = resv[r].at
      BY <1>1 DEF P!ReservationRow
    <3> HIDE DEF row
    <3> QED
      BY <1>1, <3>1, <3>2
  <2>2. RowsMove({}) /\ FirmKept
    BY <2>1 DEF RowsMove, FirmKept
  <2> QED
    BY <1>2, <1>5, <1>11, <2>2 DEF Lapse
<1>12. ASSUME NEW r \in Reservations, SweepRow(r) PROVE HoldsInv'
  <2>1. {r} \in SUBSET Reservations /\ (\A s \in {r} : resv[s].status = "ACTIVE") /\ Stock!ReleaseRows({r})
    BY <1>12 DEF SweepRow, Lapsed
  <2>2. RowsMove({}) /\ FirmKept
    BY <1>1, <2>1, ActiveReleased
  <2> QED
    BY <1>2, <1>5, <1>12, <2>2 DEF SweepRow
<1>13. CASE UNCHANGED vars
  BY <1>3, <1>5, <1>13 DEF vars
<1> QED
  BY <1>6, <1>7, <1>8, <1>9, <1>10, <1>11, <1>12, <1>13

(* A step of an order and its rows. *)
LEMMA HoldsAfter ==
    ASSUME IInv, HoldsInv, FlowInv', NEW New, RowsMove(New), OrdersGoOn(New), OnlyOthers,
           FirmRight', Announced'
    PROVE  HoldsInv'
<1>1. Numbered'
  BY NumbersStay DEF HoldsInv, IInv, StockInv, P!RowInv, P!ReservationRow
<1>2. \A p \in Workers : SeenRight(call[p])'
  BY SeenKept DEF IInv
<1> QED
  BY <1>1, <1>2 DEF HoldsInv

(* An order and its row. *)
Written(o, row) == order' = [order EXCEPT ![o] = row]

(* One order is written, firm rows of other orders stay. *)
LEMMA OneOrder ==
    ASSUME FlowInv, HoldsInv, NEW o \in Orders, NEW row, Written(o, row),
           \A l \in Lines \ LinesOf(o) : FirmOf(l)' = FirmOf(l),
           row.status \in {"CONFIRMED", "PROCESSING"} => \A l \in LinesOf(o) : \E r : FirmOf(l)' = {r},
           row.status = "PENDING_PAYMENT" => \A l \in LinesOf(o) : FirmOf(l)' = {},
           row.status \in {"NONE", "PENDING_PAYMENT"} => ~ row.announced,
           row.status \in Paid => row.announced
    PROVE  FirmRight' /\ Announced'
<1>1. \A q \in Orders : order'[q] = IF q = o THEN row ELSE order[q]
  BY DEF Written, FlowInv, FlowTyped
<1>2. Announced'
  BY <1>1 DEF HoldsInv, Announced
<1>3. ASSUME NEW l \in Lines
      PROVE  /\ order'[LineOrder[l]].status \in {"CONFIRMED", "PROCESSING"} => \E r : FirmOf(l)' = {r}
             /\ order'[LineOrder[l]].status = "PENDING_PAYMENT" => FirmOf(l)' = {}
  <2>1. CASE LineOrder[l] = o
    BY <1>1, <2>1 DEF LinesOf
  <2>2. CASE LineOrder[l] # o
    <3>1. l \in Lines \ LinesOf(o) /\ order'[LineOrder[l]] = order[LineOrder[l]]
      BY <1>1, <2>2, OrderPaymentAssumption DEF LinesOf
    <3> QED
      BY <3>1 DEF HoldsInv, FirmRight
  <2> QED
    BY <2>1, <2>2
<1> QED
  BY <1>2, <1>3 DEF FirmRight

(* Which orders go on then. *)
LEMMA OneOrderGoesOn ==
    ASSUME FlowInv, NEW o \in Orders, NEW row, Written(o, row), order[o].status # "NONE",
           row.status # "NONE",
           row.status = "PENDING_PAYMENT" => order[o].status = "PENDING_PAYMENT"
    PROVE  OrdersGoOn({})
<1>1. \A q \in Orders : order'[q] = IF q = o THEN row ELSE order[q]
  BY DEF Written, FlowInv, FlowTyped
<1> QED
  BY <1>1, OrdersMove

(* Checkout places the order with a new row for each of its lines. *)
LEMMA PlaceHoldsRight ==
    ASSUME IInv, HoldsInv, FlowInv', NEW p \in Workers, NEW o \in Orders, PlaceOrder(p, o)
    PROVE  HoldsInv'
<1> DEFINE L == LinesOf(o)
<1>1. PICK row \in [L -> Reservations], w \in [L -> Warehouses] : PlaceHolds(o, row, w)
  BY DEF PlaceOrder
<1> DEFINE New == {row[l] : l \in L}
           swept == Lapsed(OnItems(UNION {ItemsOf(l) : l \in L}))
           n == Cardinality(Stock!Existing)
<1>2. /\ resv \in [Reservations -> P!ReservationRow] /\ FlowInv /\ order[o].status = "NONE"
      /\ L \subseteq Lines
  BY DEF IInv, StockInv, P!RowInv, PlaceOrder, LinesOf
<1>3. /\ \A l \in L : resv[row[l]].status = "NONE"
      /\ \A k, l \in L : row[k] = row[l] => k = l
  BY <1>1 DEF PlaceHolds
<1>4. \A l \in L : (CHOOSE k \in L : row[k] = row[l]) = l
  BY <1>3
<1>5. \A l \in L : resv'[row[l]] = NewHold(l, From(w, l))
  BY <1>1, <1>4 DEF PlaceHolds
<1>6. \A r \in Reservations \ New :
         resv'[r] = IF r \in swept THEN [resv[r] EXCEPT !.status = "RELEASED"] ELSE resv[r]
  BY <1>1 DEF PlaceHolds
<1>7. \A r \in swept : resv[r].status = "ACTIVE"
  BY DEF Lapsed
<1> HIDE DEF swept, L
<1>8. \A l \in L : /\ resv'[row[l]].status = "ACTIVE" /\ resv'[row[l]].line = l
                   /\ resv'[row[l]].at = n + 1
  <2>1. \A l, i : NewHold(l, i).status = "ACTIVE" /\ NewHold(l, i).line = l /\ NewHold(l, i).at = n + 1
    BY DEF NewHold
  <2> HIDE DEF New, n
  <2> QED
    BY <1>5, <2>1
<1>9. ASSUME NEW r \in Reservations \ New
      PROVE  /\ resv'[r].line = resv[r].line /\ resv'[r].at = resv[r].at
             /\ resv'[r].status = IF r \in swept THEN "RELEASED" ELSE resv[r].status
  <2>1. resv[r] \in P!ReservationRow
    BY <1>2
  <2>2. resv'[r] = IF r \in swept THEN [resv[r] EXCEPT !.status = "RELEASED"] ELSE resv[r]
    BY <1>6
  <2> QED
    BY <2>1, <2>2 DEF P!ReservationRow
<1> HIDE DEF n
<1>10. \A r \in New : \E l \in L : r = row[l]
  OBVIOUS
<1>11. New \subseteq Reservations
  OBVIOUS
<1>12. RowsMove(New) /\ FirmKept
  <2> HIDE DEF New
  <2>1. \A r \in New : /\ resv[r].status = "NONE" /\ resv'[r].status = "ACTIVE" /\ resv'[r].at = n + 1
    BY <1>3, <1>8, <1>10
  <2>2. \A r, s \in New : resv'[r].line = resv'[s].line => r = s
    BY <1>8, <1>10
  <2>3. \A r \in Reservations \ New : resv'[r].status = "NONE" <=> resv[r].status = "NONE"
    BY <1>7, <1>9
  <2>4. FirmKept
    BY <1>7, <1>9, <2>1 DEF FirmKept
  <2> QED
    BY <1>9, <1>11, <2>1, <2>2, <2>3, <2>4 DEF RowsMove, n
<1>13. PICK new : /\ Written(o, new) /\ new.status = "PENDING_PAYMENT" /\ ~ new.announced
  <2>1. PICK c \in {"none", "RESERVED"} :
           order' = [order EXCEPT ![o] = [status |-> "PENDING_PAYMENT", coupon |-> c,
                                          announced |-> FALSE]]
    BY DEF PlaceOrder
  <2> DEFINE new == [status |-> "PENDING_PAYMENT", coupon |-> c, announced |-> FALSE]
  <2>2. Written(o, new) /\ new.status = "PENDING_PAYMENT" /\ ~ new.announced
    BY <2>1 DEF Written
  <2> QED
    BY <2>2
<1>14. \A q \in Orders : order'[q] = IF q = o THEN new ELSE order[q]
  BY <1>2, <1>13 DEF Written, FlowInv, FlowTyped
<1>15. OrdersGoOn(New)
  <2>1. \A l \in L : \E r \in New : resv'[r].line = l
    BY <1>8
  <2>2. \A r \in New : resv'[r].line \in L
    BY <1>8, <1>10
  <2>3. \A l \in L : LineOrder[l] = o
    BY DEF L, LinesOf
  <2>4. \A l \in Lines : l \in L \/ LineOrder[l] # o
    BY DEF L, LinesOf
  <2> HIDE DEF New
  <2>5. ASSUME NEW l \in Lines
        PROVE  IF order'[LineOrder[l]].status = "NONE"
               THEN \A r \in New : resv'[r].line # l
               ELSE \/ order[LineOrder[l]].status # "NONE"
                    \/ \E r \in New : resv'[r].line = l
    <3>1. CASE l \in L
      <4>1. order'[LineOrder[l]].status # "NONE"
        BY <1>13, <1>14, <2>3, <3>1
      <4> QED
        BY <2>1, <3>1, <4>1
    <3>2. CASE l \notin L
      <4>1. order'[LineOrder[l]] = order[LineOrder[l]]
        BY <1>14, <2>4, <3>2, OrderPaymentAssumption
      <4> QED
        BY <2>2, <3>2, <4>1
    <3> QED
      BY <3>1, <3>2
  <2>6. \A q \in Orders : /\ order[q].status # "NONE" => order'[q].status # "NONE"
                          /\ order'[q].status = "PENDING_PAYMENT" =>
                                order[q].status \in {"NONE", "PENDING_PAYMENT"}
    BY <1>2, <1>13, <1>14
  <2> QED
    BY <2>5, <2>6 DEF OrdersGoOn
<1> HIDE DEF New
<1>16. \A l : FirmOf(l)' = FirmOf(l)
  BY <1>12, FirmStays
<1>17. \A l \in LinesOf(o) : FirmOf(l) = {}
  <2>1. \A l \in LinesOf(o) : Stock!OfLine(l) = {}
    BY <1>2 DEF HoldsInv, Numbered, LinesOf
  <2> QED
    BY <2>1 DEF FirmOf, Stock!OfLine, Stock!Existing, Stock!Firm, Stock!WithStatus
<1>18. FirmRight' /\ Announced'
  BY <1>2, <1>13, <1>16, <1>17, OneOrder DEF Paid
<1>19. OnlyOthers
  BY <1>2, OthersOnly DEF Begin
<1> QED
  BY <1>12, <1>15, <1>18, <1>19, HoldsAfter

(* Giving up, cancelling and packing release rows of the order only. *)
LEMMA OrderLetsGo ==
    ASSUME IInv, HoldsInv, FlowInv', NEW o \in Orders, NEW S \in SUBSET RowsOf(o),
           \A r \in S : resv[r].status # "NONE",
           Stock!ReleaseRows(S) \/ Stock!ShipRows(S),
           NEW row, Written(o, row), order[o].status # "NONE", OnlyOthers,
           row.status \notin {"NONE", "PENDING_PAYMENT"},
           row.status \in {"CONFIRMED", "PROCESSING"} =>
              /\ row.status = order[o].status
              /\ \A r \in S : resv[r].status = "ACTIVE",
           row.status \in Paid => row.announced
    PROVE  HoldsInv'
<1>1. FlowInv /\ resv \in [Reservations -> P!ReservationRow]
  BY DEF IInv, StockInv, P!RowInv
<1>2. S \in SUBSET Reservations /\ \A r \in S : resv[r].line \in LinesOf(o)
  BY DEF RowsOf
<1>3. resv' = [r \in Reservations |->
                 IF r \in S THEN [resv[r] EXCEPT !.status = "RELEASED"] ELSE resv[r]]
  BY DEF Stock!ReleaseRows, Stock!ShipRows
<1>4. /\ RowsMove({})
      /\ \A r \in Reservations : /\ resv'[r].status = IF r \in S THEN "RELEASED" ELSE resv[r].status
                                 /\ resv'[r].line = resv[r].line
  BY <1>1, <1>2, <1>3, RowsSet
<1>5. \A l \in Lines \ LinesOf(o) : FirmOf(l)' = FirmOf(l)
  BY <1>2, <1>4 DEF FirmOf, Stock!Firm, Stock!WithStatus
<1>6. ASSUME row.status \in {"CONFIRMED", "PROCESSING"}, NEW l \in LinesOf(o)
      PROVE  \E r : FirmOf(l)' = {r}
  <2>1. FirmKept
    BY <1>4, <1>6 DEF FirmKept
  <2>2. FirmOf(l)' = FirmOf(l)
    BY <1>4, <2>1, FirmStays
  <2>3. l \in Lines /\ LineOrder[l] = o
    BY DEF LinesOf
  <2> QED
    BY <1>6, <2>2, <2>3 DEF HoldsInv, FirmRight
<1>7. FirmRight' /\ Announced'
  BY <1>1, <1>5, <1>6, OneOrder
<1>8. OrdersGoOn({})
  BY <1>1, OneOrderGoesOn
<1> QED
  BY <1>4, <1>7, <1>8, HoldsAfter

(* A call gives its order up. *)
LEMMA GiveUpHolds ==
    ASSUME IInv, HoldsInv, FlowInv', NEW p \in Workers, GiveUp(p)
    PROVE  HoldsInv'
<1> DEFINE o == call[p].order
           st == IF order[o].status = "PENDING_PAYMENT" THEN "CANCELLED" ELSE order[o].status
           r1 == [order[o] EXCEPT !.status = st]
           row == [r1 EXCEPT !.coupon = Released(order[o].coupon)]
<1>1. FlowInv /\ o \in Orders /\ order[o] \in OrderRow /\ resv \in [Reservations -> P!ReservationRow]
  BY DEF GiveUp, At, IInv, StockInv, P!RowInv, FlowInv, FlowTyped, CallsOk, CallOk
<1>2. RowsMove({}) /\ FirmKept /\ OnlyOthers
  BY <1>1, ListReleased, OthersOnly DEF GiveUp
<1>3. CASE UNCHANGED order
  BY <1>2, <1>3, NothingFirm
<1>4. CASE order' = [order EXCEPT ![o].status = IF @ = "PENDING_PAYMENT" THEN "CANCELLED" ELSE @,
                                  ![o].coupon = Released(@)]
  <2>1. Written(o, row)
    BY <1>1, <1>4 DEF Written, FlowInv, FlowTyped, OrderRow
  <2>2. row.status = st /\ row.announced = order[o].announced
    BY <1>1 DEF OrderRow
  <2> HIDE DEF row
  <2>3. \A l : FirmOf(l)' = FirmOf(l)
    BY <1>2, FirmStays
  <2>4. \A l \in LinesOf(o) : order[o].status \in {"CONFIRMED", "PROCESSING"} =>
                                  \E r : FirmOf(l)' = {r}
    BY <2>3 DEF HoldsInv, FirmRight, LinesOf
  <2>5. /\ order[o].status \in {"NONE", "PENDING_PAYMENT"} => ~ order[o].announced
        /\ order[o].status \in Paid => order[o].announced
    BY <1>1 DEF HoldsInv, Announced
  <2>6. /\ st # "PENDING_PAYMENT" /\ "CANCELLED" \notin Paid
        /\ st \in {"NONE", "CONFIRMED", "PROCESSING"} \cup Paid => st = order[o].status
    BY DEF Paid
  <2>7. FirmRight' /\ Announced'
    BY <1>1, <2>1, <2>2, <2>3, <2>4, <2>5, <2>6, OneOrder
  <2>8. \A q \in Orders : order'[q] = IF q = o THEN row ELSE order[q]
    BY <1>1, <2>1 DEF Written, FlowInv, FlowTyped
  <2>9. OrdersGoOn({})
    BY <2>2, <2>8, OrdersMove
  <2> QED
    BY <1>2, <2>7, <2>9, HoldsAfter
<1> QED
  BY <1>3, <1>4 DEF GiveUp

(* The order is cancelled, moved on or packed. *)
LEMMA StatusHolds ==
    ASSUME IInv, HoldsInv, FlowInv', NEW o \in Orders, Cancel(o) \/ Advance(o) \/ Pack(o)
    PROVE  HoldsInv'
<1>1. FlowInv /\ order[o] \in OrderRow /\ OnlyOthers
  BY DEF IInv, FlowInv, FlowTyped, OnlyOthers, Cancel, Advance, Pack
<1>2. CASE Cancel(o)
  <2> DEFINE r1 == [order[o] EXCEPT !.status = "CANCELLED"]
             row == [r1 EXCEPT !.coupon = Released(order[o].coupon)]
             S == RowsOf(o) \cap Stock!Held(resv)
  <2>1. Written(o, row)
    <3>1. order' = [order EXCEPT ![o].status = "CANCELLED", ![o].coupon = Released(@)]
      BY <1>2 DEF Cancel
    <3> QED
      BY <1>1, <3>1 DEF Written, FlowInv, FlowTyped, OrderRow
  <2>2. row.status = "CANCELLED"
    BY <1>1 DEF OrderRow
  <2>3. order[o].status # "NONE" /\ Stock!ReleaseRows(S)
    BY <1>2 DEF Cancel
  <2>4. S \in SUBSET RowsOf(o) /\ \A r \in S : resv[r].status # "NONE"
    BY DEF Stock!Held, Stock!WithStatus
  <2> HIDE DEF row, S
  <2> QED
    BY <1>1, <2>1, <2>2, <2>3, <2>4, OrderLetsGo DEF Paid
<1>3. CASE Pack(o)
  <2> DEFINE row == [order[o] EXCEPT !.status = "PACKED"]
             S == Stock!LatestOfOrder(o)
  <2>1. Written(o, row) /\ order[o].status = "PROCESSING" /\ Stock!ShipRows(S)
    BY <1>3 DEF Pack, Written
  <2>2. row.status = "PACKED" /\ row.announced = order[o].announced /\ row.announced
    BY <1>1, <2>1 DEF OrderRow, HoldsInv, Announced, Paid
  <2>3. S \in SUBSET RowsOf(o) /\ \A r \in S : resv[r].status # "NONE"
    BY DEF RowsOf, Stock!LatestOfOrder, Stock!LatestOf, Stock!OfLine, Stock!Existing,
           Stock!LinesOf, LinesOf
  <2> HIDE DEF row, S
  <2> QED
    BY <1>1, <2>1, <2>2, <2>3, OrderLetsGo DEF Paid
<1>4. CASE Advance(o)
  <2>1. PICK step \in {<<"CONFIRMED", "PROCESSING">>, <<"PACKED", "SHIPPED">>,
                       <<"SHIPPED", "DELIVERED">>} :
           /\ order[o].status = step[1]
           /\ order' = [order EXCEPT ![o].status = step[2]]
    BY <1>4 DEF Advance
  <2>2. RowsMove({}) /\ FirmKept
    BY <1>4, RowsStay DEF Advance, stockVars
  <2>3. \A l : FirmOf(l)' = FirmOf(l)
    BY <2>2, FirmStays
  <2> DEFINE row == [order[o] EXCEPT !.status = step[2]]
  <2>4. Written(o, row) /\ row.status = step[2] /\ row.announced = order[o].announced
    BY <1>1, <2>1 DEF Written, OrderRow
  <2>5. order[o].announced
    BY <2>1 DEF HoldsInv, Announced, Paid
  <2> HIDE DEF row
  <2>6. step[2] \in {"CONFIRMED", "PROCESSING"} => order[o].status = "CONFIRMED"
    BY <2>1
  <2>7. \A l \in LinesOf(o) : order[o].status = "CONFIRMED" => \E r : FirmOf(l)' = {r}
    BY <2>3 DEF HoldsInv, FirmRight, LinesOf
  <2>8. step[2] \notin {"NONE", "PENDING_PAYMENT"} /\ order[o].status # "NONE"
    BY <2>1
  <2>9. FirmRight' /\ Announced'
    BY <1>1, <2>3, <2>4, <2>5, <2>6, <2>7, <2>8, OneOrder
  <2>10. OrdersGoOn({})
    BY <1>1, <2>4, <2>8, OneOrderGoesOn
  <2> QED
    BY <1>1, <2>2, <2>9, <2>10, HoldsAfter
<1> QED
  BY <1>2, <1>3, <1>4

(* A finalization reads the order, then its holds: one per line while the  *)
(* order is pending.                                                       *)
LEMMA FinalizeReads ==
    ASSUME IInv, HoldsInv, FlowInv', NEW p \in Workers,
           FinalizeOrder(p) \/ FinalizeHolds(p) \/ ReadClock(p)
    PROVE  HoldsInv'
<1> DEFINE k == call[p]
           o == k.order
           S == {r \in Stock!LatestOfOrder(o) : resv[r].status = "ACTIVE"}
<1>1. /\ FlowInv /\ k \in Call /\ o \in Orders /\ SeenRight(k)
      /\ \A r \in Reservations : resv[r].at \in Nat /\ resv[r].status \in P!Status
      /\ UNCHANGED <<order, resv>>
  BY DEF IInv, StockInv, P!RowInv, P!ReservationRow, FlowInv, FlowTyped, CallsOk, CallOk, HoldsInv,
         FinalizeOrder, FinalizeHolds, ReadClock, At, stockVars
<1>2. RowsMove({}) /\ FirmKept /\ OrdersGoOn({})
  BY <1>1, RowsStay, OrdersMove
<1>3. CASE OnlyOthers
  BY <1>1, <1>2, <1>3, NothingFirm
<1>4. ASSUME NEW c, Become(p, c), SeenRight(c) PROVE HoldsInv'
  <2>1. \A q \in Workers : call'[q] = IF q = p THEN c ELSE call[q]
    BY <1>1, <1>4 DEF FlowInv, FlowTyped, Become
  <2>2. \A d : SeenRight(d)' <=> SeenRight(d)
    BY <1>1 DEF SeenRight, LinesOf, Stock!Existing
  <2>3. ASSUME NEW q \in Workers PROVE SeenRight(call[q])'
    <3>1. PICK d : d = call'[q] /\ SeenRight(d)
      BY <1>4, <2>1 DEF HoldsInv
    <3>2. SeenRight(d)'
      BY <2>2, <3>1
    <3> QED
      BY <3>1, <3>2 DEF SeenRight
  <2>4. FirmRight' /\ Announced'
    BY <1>1, <1>2, FirmStays DEF HoldsInv, FirmRight, Announced
  <2>5. Numbered'
    BY <1>1, <1>2, NumbersStay DEF HoldsInv
  <2> QED
    BY <2>3, <2>4, <2>5 DEF HoldsInv
<1>5. CASE FinalizeOrder(p)
  <2>1. CASE Done(p)
    BY <1>1, <1>3, <2>1, DoneThen
  <2>2. CASE order[o].status = "PENDING_PAYMENT" /\ Goto(p, "holds")
    <3> DEFINE c == [k EXCEPT !.op = "holds"]
    <3>1. Become(p, c) /\ c.op = "holds" /\ c.order = o
      BY <1>1, <2>2 DEF Goto, Call
    <3> HIDE DEF c
    <3>2. SeenRight(c)
      BY <2>2, <3>1 DEF SeenRight
    <3> QED
      BY <1>4, <3>1, <3>2
  <2> QED
    BY <1>5, <2>1, <2>2 DEF FinalizeOrder
<1>6. CASE FinalizeHolds(p)
  <2>1. CASE Done(p)
    BY <1>1, <1>3, <2>1, DoneThen
  <2>2. CASE ~ Done(p)
    <3>1. GotoWith(p, "clock", S) /\ \A r \in Stock!LatestOfOrder(o) : resv[r].status # "RELEASED"
      BY <1>6, <2>2 DEF FinalizeHolds
    <3>2. PICK c \in Call : c.op = "clock" /\ c.order = o /\ c.seen = S /\ Become(p, c)
      <4>1. S \in SUBSET Reservations
        BY DEF Stock!LatestOfOrder, Stock!LatestOf, Stock!OfLine, Stock!Existing
      <4> HIDE DEF S
      <4> QED
        BY <1>1, <3>1, <4>1, ListRead
    <3>3. order[o].status # "NONE"
      BY <1>1, <1>6 DEF FinalizeHolds, At, SeenRight
    <3>4. \A r \in Stock!LatestOfOrder(o) : /\ r \in Stock!Existing /\ r \in Reservations
                                            /\ resv[r].line \in LinesOf(o)
                                            /\ r \in Stock!LatestOf(resv[r].line)
      BY DEF Stock!LatestOfOrder, Stock!LatestOf, Stock!OfLine, Stock!Existing, Stock!LinesOf, LinesOf
    <3>5. ASSUME order[o].status = "PENDING_PAYMENT", NEW l \in LinesOf(o)
          PROVE  \E r : {s \in S : resv[s].line = l} = {r}
      <4>1. l \in Lines /\ LineOrder[l] = o
        BY DEF LinesOf
      <4>2. PICK r : r \in Stock!LatestOf(l)
        BY <3>5, <4>1 DEF HoldsInv, Numbered
      <4>3. /\ r \in Stock!LatestOfOrder(o) /\ resv[r].line = l
            /\ r \in Reservations /\ resv[r].status # "NONE"
        BY <4>1, <4>2 DEF Stock!LatestOfOrder, Stock!LinesOf, Stock!LatestOf, Stock!OfLine, Stock!Existing
      <4>4. resv[r].status # "COMMITTED"
        BY <3>5, <4>1, <4>3 DEF HoldsInv, FirmRight, FirmOf, Stock!Firm, Stock!WithStatus
      <4>5. r \in S
        BY <1>1, <3>1, <4>3, <4>4 DEF P!Status
      <4>6. ASSUME NEW s \in S, resv[s].line = l PROVE s = r
        <5>1. s \in Stock!LatestOf(l)
          BY <3>4, <4>6
        <5>2. resv[s].at <= resv[r].at /\ resv[r].at <= resv[s].at /\ s \in Stock!Existing /\ r \in Stock!Existing
          BY <4>2, <5>1 DEF Stock!LatestOf, Stock!OfLine
        <5>3. resv[s].at \in Nat /\ resv[r].at \in Nat
          BY <1>1, <5>2 DEF Stock!Existing
        <5>4. resv[s].at = resv[r].at
          BY <5>2, <5>3
        <5> QED
          BY <4>3, <4>6, <5>2, <5>4 DEF HoldsInv, Numbered
      <4> HIDE DEF S
      <4> QED
        BY <4>3, <4>5, <4>6
    <3>6. \A r \in S : r \in Stock!Existing /\ resv[r].line \in LinesOf(o)
      BY <3>4
    <3> HIDE DEF S, o
    <3>7. SeenRight(c)
      BY <3>2, <3>3, <3>5, <3>6 DEF SeenRight
    <3> QED
      BY <1>4, <3>2, <3>7
  <2> QED
    BY <2>1, <2>2
<1>7. CASE ReadClock(p)
  <2> DEFINE c == [k EXCEPT !.op = "commit"]
  <2>1. /\ Become(p, c) /\ k.op = "clock"
        /\ c.op = "commit" /\ c.order = k.order /\ c.seen = k.seen
    BY <1>1, <1>7 DEF ReadClock, Goto, At, Call
  <2> HIDE DEF c
  <2>2. SeenRight(c)
    <3> HIDE DEF k
    <3>1. /\ order[k.order].status # "NONE"
          /\ \A r \in k.seen : r \in Stock!Existing /\ resv[r].line \in LinesOf(k.order)
          /\ order[k.order].status = "PENDING_PAYMENT" =>
                \A l \in LinesOf(k.order) : \E r : {s \in k.seen : resv[s].line = l} = {r}
      BY <1>1, <2>1 DEF SeenRight
    <3>2. ASSUME order[c.order].status = "PENDING_PAYMENT", NEW l \in LinesOf(c.order)
          PROVE  \E r : {s \in c.seen : resv[s].line = l} = {r}
      <4>1. PICK r : {s \in k.seen : resv[s].line = l} = {r}
        BY <2>1, <3>1, <3>2
      <4>2. {s \in c.seen : resv[s].line = l} = {s \in k.seen : resv[s].line = l}
        BY <2>1
      <4> QED
        BY <4>1, <4>2
    <3>3. \A r \in c.seen : r \in Stock!Existing /\ resv[r].line \in LinesOf(c.order)
      BY <2>1, <3>1
    <3> QED
      BY <2>1, <3>1, <3>2, <3>3 DEF SeenRight
  <2> QED
    BY <1>4, <2>1, <2>2
<1> QED
  BY <1>5, <1>6, <1>7

(* The confirmation commits exactly the holds it has read. *)
LEMMA CommitHolds ==
    ASSUME IInv, HoldsInv, FlowInv', NEW p \in Workers, CommitOrder(p)
    PROVE  HoldsInv'
<1> DEFINE o == call[p].order
           S == call[p].seen
           T == {r \in S : resv[r].status = "ACTIVE"}
<1>1. /\ FlowInv /\ call[p] \in Call /\ o \in Orders /\ call[p].op = "commit" /\ SeenRight(call[p])
      /\ resv \in [Reservations -> P!ReservationRow]
      /\ OnlyOthers /\ order[o] \in OrderRow
  BY OthersOnly DEF IInv, StockInv, P!RowInv, FlowInv, FlowTyped, CallsOk, CallOk, HoldsInv,
                    CommitOrder, At
<1>2. CASE order[o].announced
  <2>1. UNCHANGED <<order, resv>>
    BY <1>2 DEF CommitOrder, stockVars
  <2> QED
    BY <1>1, <2>1, RowsStay, NothingFirm
<1>3. CASE ~ order[o].announced
  <2> DEFINE st == IF order[o].status = "PENDING_PAYMENT" THEN "CONFIRMED" ELSE order[o].status
             row == [status |-> st, coupon |-> Consumed(order[o].coupon), announced |-> TRUE]
  <2>1. Written(o, row) /\ Stock!CommitRows(T)
    BY <1>3 DEF CommitOrder, Written
  <2>2. row.status = st /\ row.announced
    OBVIOUS
  <2>3. order[o].status \in {"PENDING_PAYMENT", "CANCELLED"}
    BY <1>1, <1>3 DEF SeenRight, HoldsInv, Announced, OrderRow, OrderStatus, Paid
  <2>4. /\ S \in SUBSET Reservations /\ \A r \in S : resv[r].line \in LinesOf(o)
        /\ \A r \in S : r \in T \/ resv[r].status = "COMMITTED"
    BY <1>1 DEF SeenRight, Call, CommitOrder, Stock!Held, Stock!WithStatus
  <2>5. T \in SUBSET Reservations /\ \A r \in T : resv[r].status = "ACTIVE" /\ r \in S
    BY <2>4
  <2> HIDE DEF T, row
  <2>6. /\ RowsMove({})
        /\ \A r \in Reservations : /\ resv'[r].status = IF r \in T THEN "COMMITTED" ELSE resv[r].status
                                   /\ resv'[r].line = resv[r].line
    <3>1. resv' = [r \in Reservations |->
                     IF r \in T THEN [resv[r] EXCEPT !.status = "COMMITTED"] ELSE resv[r]]
      BY <2>1 DEF Stock!CommitRows
    <3> QED
      BY <1>1, <2>5, <3>1, RowsSet
  <2>7. \A l : FirmOf(l)' = FirmOf(l) \cup {r \in T : resv[r].line = l}
    BY <2>5, <2>6 DEF FirmOf, Stock!Firm, Stock!WithStatus
  <2>8. \A l \in Lines \ LinesOf(o) : FirmOf(l)' = FirmOf(l)
    BY <2>4, <2>5, <2>7
  <2>9. ASSUME row.status \in {"CONFIRMED", "PROCESSING"}, NEW l \in LinesOf(o)
        PROVE  \E r : FirmOf(l)' = {r}
    <3>1. order[o].status = "PENDING_PAYMENT"
      BY <2>2, <2>3, <2>9
    <3>2. \A k \in LinesOf(o) : FirmOf(k) = {}
      BY <3>1 DEF HoldsInv, FirmRight, LinesOf
    <3>3. \A r \in S : resv[r].status # "COMMITTED"
      <4>1. ASSUME NEW r \in S, resv[r].status = "COMMITTED" PROVE FALSE
        <5>1. r \in FirmOf(resv[r].line) /\ resv[r].line \in LinesOf(o)
          BY <2>4, <4>1 DEF FirmOf, Stock!Firm, Stock!WithStatus
        <5> QED
          BY <3>2, <5>1
      <4> QED
        BY <4>1
    <3>4. S = T
      BY <2>4, <2>5, <3>3
    <3>5. PICK r : {s \in S : resv[s].line = l} = {r}
      BY <1>1, <2>9, <3>1 DEF SeenRight
    <3>6. FirmOf(l)' = {r}
      BY <2>7, <3>2, <3>4, <3>5
    <3> QED
      BY <3>6
  <2>10. row.status \notin {"NONE", "PENDING_PAYMENT"} /\ order[o].status # "NONE"
    BY <2>2, <2>3
  <2>11. FirmRight' /\ Announced'
    BY <1>1, <2>1, <2>2, <2>8, <2>9, <2>10, OneOrder
  <2>12. OrdersGoOn({})
    BY <1>1, <2>1, <2>10, OneOrderGoesOn
  <2> QED
    BY <1>1, <2>6, <2>11, <2>12, HoldsAfter
<1> QED
  BY <1>2, <1>3

(* Before the first order no line has a row. *)
LEMMA InitHolds == Init => HoldsInv
<1> SUFFICES ASSUME Init PROVE HoldsInv
  OBVIOUS
<1>1. Stock!Existing = {} /\ \A l : Stock!OfLine(l) = {} /\ FirmOf(l) = {}
  BY DEF Init, Stock!Existing, Stock!OfLine, FirmOf, Stock!Firm, Stock!WithStatus
<1>2. \A o \in Orders : order[o].status = "NONE" /\ ~ order[o].announced
  BY DEF Init
<1>3. Numbered
  BY <1>1, <1>2, OrderPaymentAssumption DEF Numbered
<1>4. FirmRight /\ Announced
  BY <1>1, <1>2, OrderPaymentAssumption DEF FirmRight, Announced, Paid
<1>5. \A p \in Workers : SeenRight(call[p])
  BY DEF Init, SeenRight, Idle
<1> QED
  BY <1>3, <1>4, <1>5 DEF HoldsInv

(* Every step keeps the holds of the lines right. *)
LEMMA HoldsNext == IInv /\ HoldsInv /\ FlowInv' /\ [Next]_vars => HoldsInv'
<1> SUFFICES ASSUME IInv, HoldsInv, FlowInv', [Next]_vars PROVE HoldsInv'
  OBVIOUS
<1>1. ASSUME NEW p \in Workers, Begin(p) PROVE HoldsInv'
  BY <1>1, PlaceHoldsRight, QuietHolds DEF Begin
<1>2. ASSUME NEW p \in Workers, Continue(p) PROVE HoldsInv'
  BY <1>2, GiveUpHolds, FinalizeReads, CommitHolds, QuietHolds DEF Continue
<1>3. ASSUME NEW o \in Orders, Cancel(o) \/ Advance(o) \/ Pack(o) PROVE HoldsInv'
  BY <1>3, StatusHolds
<1> QED
  BY <1>1, <1>2, <1>3, QuietHolds DEF Next

(* All or nothing: an order that is confirmed or being processed has        *)
(* exactly one firm hold behind each of its lines, and one that waits for   *)
(* its money has none, for any number of concurrent finalizations.          *)
THEOREM AllOrNothing == Spec => []ConfirmedHoldsEveryLine
<1>1. Init => IInv /\ HoldsInv
  BY InitStock, InitFlow, InitHolds DEF IInv
<1>2. (IInv /\ HoldsInv) /\ [Next]_vars => (IInv /\ HoldsInv)'
  BY StockNext, FlowNext, HoldsNext DEF IInv
<1>3. IInv /\ HoldsInv => ConfirmedHoldsEveryLine
  BY FS_Singleton DEF HoldsInv, FirmRight, ConfirmedHoldsEveryLine
<1> QED
  BY <1>1, <1>2, <1>3, PTL DEF Spec

------------------------------------------------------------------------------
(* What has left the warehouses.                                           *)

(* A row that is used holds the whole quantity of a line, on an item of    *)
(* the SKU of that line.                                                   *)
RowsOnLines ==
    \A r \in Reservations : resv[r].status # "NONE" =>
        /\ resv[r].line \in Lines /\ resv[r].item \in ItemsOf(resv[r].line)
        /\ resv[r].qty = LineQty[resv[r].line]

Sent == {"PACKED", "SHIPPED", "DELIVERED"}

(* The two sides of ShippedIsPacked. *)
GoneUnits(k) ==
    {u \in Warehouses \X (1 .. InitialStock) : u[2] > item[<<u[1], k>>].onHand}
SentUnits(k) ==
    {u \in Lines \X (1 .. MaxQty) : /\ LineSku[u[1]] = k /\ u[2] <= LineQty[u[1]]
                                    /\ order[LineOrder[u[1]]].status \in Sent}

NothingAdded == \A i \in Items : item[i].onHand <= InitialStock
GoneIsSent ==
    \A k \in Skus : /\ IsFiniteSet(GoneUnits(k)) /\ IsFiniteSet(SentUnits(k))
                    /\ Cardinality(GoneUnits(k)) = Cardinality(SentUnits(k))

LeftInv == RowsOnLines /\ NothingAdded /\ GoneIsSent

OnHandStays == \A i \in Items : item'[i].onHand = item[i].onHand
SentStay == \A o \in Orders : order'[o].status \in Sent <=> order[o].status \in Sent

(* Rows whose status changes stay on their line. *)
LEMMA RowsSetOnLines ==
    ASSUME resv \in [Reservations -> P!ReservationRow], RowsOnLines, NEW S \in SUBSET Reservations,
           \A r \in S : resv[r].status # "NONE", NEW st,
           resv' = [r \in Reservations |->
                      IF r \in S THEN [resv[r] EXCEPT !.status = st] ELSE resv[r]]
    PROVE  RowsOnLines'
<1>1. ASSUME NEW r \in Reservations, resv'[r].status # "NONE"
      PROVE  /\ resv[r].status # "NONE" /\ resv'[r].line = resv[r].line
             /\ resv'[r].item = resv[r].item /\ resv'[r].qty = resv[r].qty
  <2>1. resv[r] \in P!ReservationRow
    OBVIOUS
  <2>2. resv'[r] = IF r \in S THEN [resv[r] EXCEPT !.status = st] ELSE resv[r]
    OBVIOUS
  <2> QED
    BY <1>1, <2>1, <2>2 DEF P!ReservationRow
<1> QED
  BY <1>1 DEF RowsOnLines, ItemsOf

(* Releases and commitments of rows move no physical stock. *)
LEMMA ReleaseLeavesNothing ==
    ASSUME StockInv, RowsOnLines, NEW S \in SUBSET Reservations, \A r \in S : resv[r].status # "NONE",
           Stock!ReleaseRows(S) \/ Stock!CommitRows(S)
    PROVE  RowsOnLines' /\ OnHandStays
<1>1. /\ resv \in [Reservations -> P!ReservationRow]
      /\ \A i \in Items : item[i] \in P!ItemRow
  BY DEF StockInv, P!RowInv, P!Items, Items
<1>2. RowsOnLines'
  <2>1. \E st : resv' = [r \in Reservations |->
                           IF r \in S THEN [resv[r] EXCEPT !.status = st] ELSE resv[r]]
    BY DEF Stock!ReleaseRows, Stock!CommitRows
  <2> QED
    BY <1>1, <2>1, RowsSetOnLines
<1>3. OnHandStays
  <2>1. ASSUME NEW i \in Items PROVE item'[i].onHand = item[i].onHand
    <3>1. item[i] \in P!ItemRow
      BY <1>1
    <3>2. CASE Stock!ReleaseRows(S)
      BY <3>1, <3>2 DEF Stock!ReleaseRows, Stock!Items, Items, P!ItemRow
    <3>3. CASE Stock!CommitRows(S)
      BY <3>1, <3>3 DEF Stock!CommitRows, Stock!Items, Items, P!ItemRow
    <3> QED
      BY <3>2, <3>3
  <2> QED
    BY <2>1 DEF OnHandStays
<1> QED
  BY <1>2, <1>3

(* A line is held again: on its own SKU. *)
LEMMA ReserveLeavesNothing ==
    ASSUME StockInv, RowsOnLines, NEW r \in Reservations, NEW l \in Lines, NEW i \in ItemsOf(l),
           Stock!ReserveRow(r, i, LineQty[l], l)
    PROVE  RowsOnLines' /\ OnHandStays
<1>1. /\ resv \in [Reservations -> P!ReservationRow] /\ item \in [Items -> P!ItemRow]
  BY DEF StockInv, P!RowInv, P!Items, Items
<1> DEFINE row == [status |-> "ACTIVE", item |-> i, qty |-> LineQty[l], line |-> l,
                   expired |-> FALSE, at |-> Stock!Cardinality(Stock!Existing) + 1]
<1>2. resv' = [resv EXCEPT ![r] = row] /\ row.line = l /\ row.item = i /\ row.qty = LineQty[l]
  BY DEF Stock!ReserveRow
<1> HIDE DEF row
<1>3. RowsOnLines'
  BY <1>1, <1>2 DEF RowsOnLines, ItemsOf
<1>4. OnHandStays
  <2> DEFINE i1 == [item EXCEPT ![i].available = @ - LineQty[l]]
             i2 == [i1 EXCEPT ![i].reserved = @ + LineQty[l]]
  <2>1. item' = i2
    BY DEF Stock!ReserveRow
  <2>2. /\ DOMAIN i1 = Items
        /\ \A j \in Items : i1[j].onHand = item[j].onHand /\ DOMAIN i1[j] = DOMAIN item[j]
    BY <1>1 DEF P!ItemRow
  <2> HIDE DEF i1
  <2>3. \A j \in Items : i2[j].onHand = item[j].onHand
    BY <1>1, <2>2 DEF P!ItemRow
  <2> QED
    BY <2>1, <2>3 DEF OnHandStays
<1> QED
  BY <1>3, <1>4

(* So does checkout, for the lines of its order. *)
LEMMA PlaceLeavesNothing ==
    ASSUME StockInv, RowsOnLines, NEW o \in Orders, NEW row \in [LinesOf(o) -> Reservations],
           NEW w \in [LinesOf(o) -> Warehouses], PlaceHolds(o, row, w)
    PROVE  RowsOnLines' /\ OnHandStays
<1> DEFINE L == LinesOf(o)
           swept == Lapsed(OnItems(UNION {ItemsOf(l) : l \in L}))
           New == {row[l] : l \in L}
<1>1. /\ resv \in [Reservations -> P!ReservationRow] /\ \A i \in Items : item[i] \in P!ItemRow
      /\ L \subseteq Lines
  BY DEF StockInv, P!RowInv, P!Items, Items, LinesOf
<1>2. \A l \in L : (CHOOSE k \in L : row[k] = row[l]) = l
  BY DEF PlaceHolds
<1>3. \A l \in L : resv'[row[l]] = NewHold(l, From(w, l))
  BY <1>2 DEF PlaceHolds
<1>4. \A r \in Reservations \ New :
         resv'[r] = IF r \in swept THEN [resv[r] EXCEPT !.status = "RELEASED"] ELSE resv[r]
  BY DEF PlaceHolds
<1>5. \A r \in swept : resv[r].status = "ACTIVE"
  BY DEF Lapsed
<1>6. OnHandStays
  BY <1>1 DEF PlaceHolds, OnHandStays, P!ItemRow
<1> HIDE DEF swept
<1>7. ASSUME NEW l \in L
      PROVE  /\ resv'[row[l]].line = l /\ resv'[row[l]].item \in ItemsOf(l)
             /\ resv'[row[l]].qty = LineQty[l]
  <2>1. From(w, l) \in ItemsOf(l)
    BY <1>1 DEF From, ItemsOf
  <2>2. \A i : NewHold(l, i).line = l /\ NewHold(l, i).item = i /\ NewHold(l, i).qty = LineQty[l]
    BY DEF NewHold
  <2> QED
    BY <1>3, <2>1, <2>2
<1>8. ASSUME NEW r \in Reservations \ New, resv'[r].status # "NONE"
      PROVE  /\ resv[r].status # "NONE" /\ resv'[r].line = resv[r].line
             /\ resv'[r].item = resv[r].item /\ resv'[r].qty = resv[r].qty
  <2>1. resv[r] \in P!ReservationRow
    BY <1>1
  <2>2. resv'[r] = IF r \in swept THEN [resv[r] EXCEPT !.status = "RELEASED"] ELSE resv[r]
    BY <1>4
  <2> QED
    BY <1>5, <1>8, <2>1, <2>2 DEF P!ReservationRow
<1>9. RowsOnLines'
  <2>1. ASSUME NEW r \in Reservations, resv'[r].status # "NONE"
        PROVE  /\ resv'[r].line \in Lines /\ resv'[r].item \in ItemsOf(resv'[r].line)
               /\ resv'[r].qty = LineQty[resv'[r].line]
    <3>1. CASE \E l \in L : r = row[l]
      BY <1>1, <1>7, <3>1
    <3>2. CASE r \in Reservations \ New
      BY <1>8, <2>1, <3>2 DEF RowsOnLines
    <3> QED
      BY <3>1, <3>2
  <2> QED
    BY <2>1 DEF RowsOnLines, ItemsOf
<1> QED
  BY <1>6, <1>9

(* Nothing but the packing of an order moves physical stock. *)
LEMMA OnlyPackingShips ==
    ASSUME IInv, RowsOnLines, [Next]_vars, \A o \in Orders : ~ Pack(o)
    PROVE  RowsOnLines' /\ OnHandStays
<1>1. StockInv /\ FlowInv /\ resv \in [Reservations -> P!ReservationRow]
  BY DEF IInv, StockInv, P!RowInv
<1>2. ASSUME NEW S \in SUBSET Reservations, Stock!ReleaseRows(S) \/ Stock!CommitRows(S),
             \A r \in S : resv[r].status # "NONE"
      PROVE  RowsOnLines' /\ OnHandStays
  BY <1>1, <1>2, ReleaseLeavesNothing
<1>3. ASSUME NEW p \in Workers, ReleaseListed(p) \/ ReleaseThrows(p)
      PROVE  RowsOnLines' /\ OnHandStays
  <2> DEFINE S == {r \in call[p].seen : resv[r].status = "ACTIVE"}
  <2>1. Stock!ReleaseRows(S) \/ UNCHANGED stockVars
    BY <1>3 DEF ReleaseListed, ReleaseThrows
  <2>2. S \in SUBSET Reservations /\ \A r \in S : resv[r].status # "NONE"
    BY <1>1 DEF FlowInv, FlowTyped, Call
  <2> HIDE DEF S
  <2>3. CASE UNCHANGED stockVars
    BY <2>3 DEF stockVars, RowsOnLines, ItemsOf, OnHandStays
  <2> QED
    BY <1>2, <2>1, <2>2, <2>3
<1>4. ASSUME NEW p \in Workers, NEW o \in Orders, PlaceOrder(p, o) PROVE RowsOnLines' /\ OnHandStays
  BY <1>1, <1>4, PlaceLeavesNothing DEF PlaceOrder
<1>5. ASSUME NEW p \in Workers, GiveUp(p) PROVE RowsOnLines' /\ OnHandStays
  BY <1>3, <1>5 DEF GiveUp
<1>6. ASSUME NEW p \in Workers, RetryLine(p) PROVE RowsOnLines' /\ OnHandStays
  BY <1>3, <1>6 DEF RetryLine
<1>7. ASSUME UNCHANGED stockVars PROVE RowsOnLines' /\ OnHandStays
  BY <1>7 DEF stockVars, RowsOnLines, ItemsOf, OnHandStays
<1>8. ASSUME NEW p \in Workers, RetryReserve(p) PROVE RowsOnLines' /\ OnHandStays
  <2>1. call[p].line \in Lines
    BY <1>1, <1>8 DEF RetryReserve, At, FlowInv, CallsOk, CallOk
  <2>2. CASE \E r \in Reservations, i \in ItemsOf(call[p].line) :
               Stock!ReserveRow(r, i, LineQty[call[p].line], call[p].line)
    BY <1>1, <2>1, <2>2, ReserveLeavesNothing
  <2> QED
    BY <1>7, <1>8, <2>2 DEF RetryReserve
<1>9. ASSUME NEW p \in Workers, CommitOrder(p) PROVE RowsOnLines' /\ OnHandStays
  <2> DEFINE S == {r \in call[p].seen : resv[r].status = "ACTIVE"}
  <2>1. S \in SUBSET Reservations /\ \A r \in S : resv[r].status # "NONE"
    BY <1>1 DEF FlowInv, FlowTyped, Call
  <2>2. UNCHANGED stockVars \/ Stock!CommitRows(S)
    BY <1>9 DEF CommitOrder
  <2> HIDE DEF S
  <2> QED
    BY <1>2, <1>7, <2>1, <2>2
<1>10. ASSUME NEW p \in Workers, ReleaseLapsed(p) \/ \E l \in Lines : ListLine(p, l)
       PROVE  RowsOnLines' /\ OnHandStays
  <2>1. ASSUME NEW l \in Lines, ListLine(p, l) PROVE RowsOnLines' /\ OnHandStays
    BY <1>7, <2>1 DEF ListLine, stockVars
  <2> QED
    BY <1>3, <1>10, <2>1 DEF ReleaseLapsed
<1>11. ASSUME NEW o \in Orders, Cancel(o) PROVE RowsOnLines' /\ OnHandStays
  <2> DEFINE S == RowsOf(o) \cap Stock!Held(resv)
  <2>1. S \in SUBSET Reservations /\ \A r \in S : resv[r].status # "NONE"
    BY DEF RowsOf, Stock!Held, Stock!WithStatus
  <2>2. Stock!ReleaseRows(S)
    BY <1>11 DEF Cancel
  <2> HIDE DEF S
  <2> QED
    BY <1>2, <2>1, <2>2
<1>12. ASSUME NEW r \in Reservations, Lapse(r) \/ SweepRow(r) PROVE RowsOnLines' /\ OnHandStays
  <2>1. CASE Lapse(r)
    <3>1. item' = item /\ resv' = [resv EXCEPT ![r].expired = TRUE] /\ resv[r] \in P!ReservationRow
      BY <1>1, <2>1 DEF Lapse, Stock!Lapse
    <3>2. \A s \in Reservations : /\ resv'[s].status = resv[s].status /\ resv'[s].line = resv[s].line
                                  /\ resv'[s].item = resv[s].item /\ resv'[s].qty = resv[s].qty
      BY <1>1, <3>1 DEF P!ReservationRow
    <3> QED
      BY <3>1, <3>2 DEF RowsOnLines, ItemsOf, OnHandStays
  <2>2. CASE SweepRow(r)
    <3>1. {r} \in SUBSET Reservations /\ \A s \in {r} : resv[s].status # "NONE"
      BY <2>2 DEF SweepRow, Lapsed
    <3> QED
      BY <1>2, <2>2, <3>1 DEF SweepRow
  <2> QED
    BY <1>12, <2>1, <2>2
<1>13. ASSUME NEW p \in Workers, Begin(p) \/ Continue(p) \/ Crash(p) PROVE RowsOnLines' /\ OnHandStays
  <2>1. CASE Begin(p)
    BY <1>4, <1>7, <2>1 DEF Begin, ReplayCheckout, BeginRetry, Verify, Deliver
  <2>2. CASE Continue(p)
    BY <1>5, <1>6, <1>7, <1>8, <1>9, <1>10, <2>2
    DEF Continue, OpenSession, ClaimProviderOrder, CreateProviderOrder, AwaitProviderOrder, ListHolds,
        RetrySession, MarkFailed, ApplyCapture, FinalizeOrder, FinalizeHolds, ReadClock,
        CommitFails, ListLapsed, RecordEvent
  <2>3. CASE Crash(p)
    BY <1>7, <2>3 DEF Crash
  <2> QED
    BY <1>13, <2>1, <2>2, <2>3
<1>14. ASSUME NEW o \in Orders, Cancel(o) \/ Advance(o) PROVE RowsOnLines' /\ OnHandStays
  BY <1>7, <1>11, <1>14 DEF Advance
<1>15. ASSUME NEW y \in Payments, Decline(y) \/ Capture(y) PROVE RowsOnLines' /\ OnHandStays
  BY <1>7, <1>15 DEF Decline, Capture
<1>16. CASE UNCHANGED vars
  BY <1>7, <1>16 DEF vars, stockVars
<1> QED
  BY <1>12, <1>13, <1>14, <1>15, <1>16 DEF Next

(* Nor does anything else make an order PACKED, or take it back. *)
LEMMA OnlyPackingSends ==
    ASSUME FlowInv, [Next]_vars, \A o \in Orders : ~ Pack(o)
    PROVE  SentStay
<1>1. order \in [Orders -> OrderRow]
  BY DEF FlowInv, FlowTyped
<1>2. ASSUME NEW o \in Orders, NEW row, order' = [order EXCEPT ![o] = row],
             row.status \in Sent <=> order[o].status \in Sent
      PROVE  SentStay
  BY <1>1, <1>2 DEF SentStay
<1>3. ASSUME UNCHANGED order PROVE SentStay
  BY <1>3 DEF SentStay
<1>4. ASSUME NEW p \in Workers, NEW o \in Orders, PlaceOrder(p, o) PROVE SentStay
  <2>1. PICK c : order' = [order EXCEPT ![o] = [status |-> "PENDING_PAYMENT", coupon |-> c,
                                                announced |-> FALSE]]
    BY <1>4 DEF PlaceOrder
  <2>2. order[o].status = "NONE"
    BY <1>4 DEF PlaceOrder
  <2> DEFINE row == [status |-> "PENDING_PAYMENT", coupon |-> c, announced |-> FALSE]
  <2>3. row.status = "PENDING_PAYMENT"
    OBVIOUS
  <2> HIDE DEF row
  <2>4. order' = [order EXCEPT ![o] = row]
    BY <2>1 DEF row
  <2> QED
    BY <1>2, <2>2, <2>3, <2>4 DEF Sent
<1>5. ASSUME NEW p \in Workers, GiveUp(p) PROVE SentStay
  <2>1. PICK o \in Orders : o = call[p].order
    BY <1>5 DEF GiveUp, At, FlowInv, CallsOk, CallOk
  <2>2. UNCHANGED order \/
          order' = [order EXCEPT ![o].status = IF @ = "PENDING_PAYMENT" THEN "CANCELLED" ELSE @,
                                 ![o].coupon = Released(@)]
    BY <1>5, <2>1 DEF GiveUp
  <2> DEFINE st == IF order[o].status = "PENDING_PAYMENT" THEN "CANCELLED" ELSE order[o].status
             r1 == [order[o] EXCEPT !.status = st]
             row == [r1 EXCEPT !.coupon = Released(order[o].coupon)]
  <2>3. row.status = st
    BY <1>1 DEF OrderRow
  <2>4. UNCHANGED order \/ order' = [order EXCEPT ![o] = row]
    BY <1>1, <2>2 DEF OrderRow
  <2> HIDE DEF row
  <2> QED
    BY <1>2, <1>3, <2>3, <2>4 DEF Sent
<1>6. ASSUME NEW p \in Workers, CommitOrder(p) PROVE SentStay
  <2>1. PICK o \in Orders : o = call[p].order
    BY <1>6 DEF CommitOrder, At, FlowInv, CallsOk, CallOk
  <2> DEFINE st == IF order[o].status = "PENDING_PAYMENT" THEN "CONFIRMED" ELSE order[o].status
             row == [status |-> st, coupon |-> Consumed(order[o].coupon), announced |-> TRUE]
  <2>2. order' = order \/ order' = [order EXCEPT ![o] = row]
    BY <1>6, <2>1 DEF CommitOrder
  <2>3. row.status = st
    OBVIOUS
  <2> HIDE DEF row
  <2> QED
    BY <1>2, <1>3, <2>2, <2>3 DEF Sent
<1>7. ASSUME NEW o \in Orders, Cancel(o) PROVE SentStay
  <2>1. /\ order' = [order EXCEPT ![o].status = "CANCELLED", ![o].coupon = Released(@)]
        /\ order[o].status \notin Sent
    BY <1>7 DEF Cancel, Sent
  <2> DEFINE r1 == [order[o] EXCEPT !.status = "CANCELLED"]
             row == [r1 EXCEPT !.coupon = Released(order[o].coupon)]
  <2>2. row.status = "CANCELLED"
    BY <1>1 DEF OrderRow
  <2>3. order' = [order EXCEPT ![o] = row]
    BY <1>1, <2>1 DEF OrderRow
  <2> HIDE DEF row
  <2> QED
    BY <1>2, <2>1, <2>2, <2>3 DEF Sent
<1>8. ASSUME NEW o \in Orders, Advance(o) PROVE SentStay
  <2>1. PICK step \in {<<"CONFIRMED", "PROCESSING">>, <<"PACKED", "SHIPPED">>,
                       <<"SHIPPED", "DELIVERED">>} :
           /\ order[o].status = step[1]
           /\ order' = [order EXCEPT ![o].status = step[2]]
    BY <1>8 DEF Advance
  <2> DEFINE row == [order[o] EXCEPT !.status = step[2]]
  <2>2. order' = [order EXCEPT ![o] = row] /\ row.status = step[2]
    BY <1>1, <2>1 DEF OrderRow
  <2>3. step[2] \in Sent <=> step[1] \in Sent
    BY DEF Sent
  <2> HIDE DEF row
  <2> QED
    BY <1>2, <2>1, <2>2, <2>3
<1>9. ASSUME NEW p \in Workers, Begin(p) \/ Continue(p) \/ Crash(p) PROVE SentStay
  <2>1. CASE Begin(p)
    BY <1>3, <1>4, <2>1 DEF Begin, ReplayCheckout, BeginRetry, Verify, Deliver
  <2>2. CASE Continue(p)
    <3>1. ASSUME NEW l \in Lines, ListLine(p, l) PROVE SentStay
      BY <1>3, <3>1 DEF ListLine
    <3> QED
      BY <1>3, <1>5, <1>6, <2>2, <3>1
      DEF Continue, OpenSession, ClaimProviderOrder, CreateProviderOrder, AwaitProviderOrder, ListHolds,
        RetryLine, RetryReserve, RetrySession, MarkFailed, ApplyCapture, FinalizeOrder,
        FinalizeHolds, ReadClock, CommitFails, ListLapsed, ReleaseLapsed, RecordEvent
  <2>3. CASE Crash(p)
    BY <1>3, <2>3 DEF Crash
  <2> QED
    BY <1>9, <2>1, <2>2, <2>3
<1>10. ASSUME NEW y \in Payments, Decline(y) \/ Capture(y) PROVE SentStay
  BY <1>3, <1>10 DEF Decline, Capture
<1>11. ASSUME NEW r \in Reservations, Lapse(r) \/ SweepRow(r) PROVE SentStay
  BY <1>3, <1>11 DEF Lapse, SweepRow
<1>12. CASE UNCHANGED vars
  BY <1>3, <1>12 DEF vars
<1> QED
  BY <1>7, <1>8, <1>9, <1>10, <1>11, <1>12 DEF Next

(* What a packing takes from an item of SKU k: the quantity of the line of *)
(* the order that is of this SKU, from the item that line is held on.      *)
LEMMA PackTakesTheLine ==
    ASSUME IInv, HoldsInv, RowsOnLines, NEW o \in Orders, Pack(o),
           NEW l \in LinesOf(o), NEW r \in Stock!LatestOf(l)
    PROVE  /\ resv[r].item \in ItemsOf(l)
           /\ \A i \in ItemsOf(l) :
                 P!Total(resv, Stock!LatestOfOrder(o), i) = IF i = resv[r].item THEN LineQty[l] ELSE 0
<1> DEFINE S == Stock!LatestOfOrder(o)
<1>1. /\ \A s \in S : /\ s \in Reservations /\ resv[s].status # "NONE" /\ resv[s].line \in LinesOf(o)
                      /\ s \in Stock!LatestOf(resv[s].line)
      /\ r \in S /\ resv[r].line = l
  BY DEF Stock!LatestOfOrder, Stock!LatestOf, Stock!OfLine, Stock!Existing, Stock!LinesOf, LinesOf
<1>2. resv[r].item \in ItemsOf(l) /\ resv[r].qty = LineQty[l] /\ r \in Reservations
  BY <1>1 DEF RowsOnLines
<1>3. ASSUME NEW s \in S, resv[s].item \in ItemsOf(l)
      PROVE  s = r
  <2>1. resv[s].line \in LinesOf(o) /\ resv[s].item \in ItemsOf(resv[s].line)
    BY <1>1 DEF RowsOnLines
  <2>2. LineSku[resv[s].line] = LineSku[l]
    BY <1>3, <2>1 DEF ItemsOf
  <2>3. resv[s].line = l
    BY <2>1, <2>2, OrderPaymentAssumption DEF LinesOf
  <2>4. s \in Stock!LatestOf(l) /\ s \in Stock!Existing /\ r \in Stock!Existing
    BY <1>1, <2>3 DEF Stock!Existing
  <2>5. resv[s].at <= resv[r].at /\ resv[r].at <= resv[s].at
    BY <2>4 DEF Stock!LatestOf, Stock!OfLine
  <2>6. resv[s].at \in Nat /\ resv[r].at \in Nat
    BY <1>1 DEF IInv, StockInv, P!RowInv, P!ReservationRow
  <2>7. resv[s].at = resv[r].at
    BY <2>5, <2>6
  <2> QED
    BY <1>1, <2>3, <2>4, <2>7 DEF HoldsInv, Numbered
<1> HIDE DEF S
<1>4. ASSUME NEW i \in ItemsOf(l)
      PROVE  P!Total(resv, S, i) = IF i = resv[r].item THEN LineQty[l] ELSE 0
  <2>1. P!Units(resv, S, i) = P!Units(resv, {r}, i)
    <3>1. \A s \in S : resv[s].item = i => s = r
      BY <1>3, <1>4
    <3> QED
      BY <1>1, <3>1 DEF P!Units
  <2>2. P!Total(resv, S, i) = P!Total(resv, {r}, i)
    BY <2>1 DEF P!Total
  <2>3. resv[r].qty \in 0 .. MaxQty
    BY <1>2 DEF IInv, StockInv, P!RowInv, P!ReservationRow
  <2>4. P!Total(resv, {r}, i) = IF resv[r].item = i THEN resv[r].qty ELSE 0
    BY <1>2, <2>3, P!TotalSingle, InventoryAssumed
  <2> QED
    BY <1>2, <2>2, <2>4
<1> QED
  BY <1>2, <1>4 DEF S

(* The units it takes are as many as the order has of the SKU. *)
LEMMA PackShips ==
    ASSUME IInv, IInv', HoldsInv, LeftInv, NEW o \in Orders, Pack(o)
    PROVE  LeftInv'
<1> DEFINE S == Stock!LatestOfOrder(o)
<1>1. /\ resv \in [Reservations -> P!ReservationRow] /\ order \in [Orders -> OrderRow]
      /\ \A i \in Items : item[i] \in P!ItemRow /\ item[i].onHand \in Nat /\ item'[i].onHand \in Nat
      /\ order[o].status = "PROCESSING"
  BY DEF IInv, StockInv, P!RowInv, P!Items, Items, FlowInv, FlowTyped, P!ItemRow, Pack
<1>2. S \in SUBSET Reservations /\ \A r \in S : resv[r].status # "NONE"
  BY DEF Stock!LatestOfOrder, Stock!LatestOf, Stock!OfLine, Stock!Existing
<1>3. \A i : P!Total(resv, S, i) \in Nat
  BY <1>2, P!UnitsFinite, InventoryAssumed
<1>4. \A i \in Items : item'[i].onHand = item[i].onHand - P!Total(resv, S, i)
  <2>1. item' = [i \in Items |-> [item[i] EXCEPT !.onHand    = @ - P!Total(resv, S, i),
                                                 !.reserved  = @ - P!Total(resv, S, i),
                                                 !.committed = @ - P!Total(resv, S, i)]]
    BY SameSums DEF Pack, Stock!ShipRows, Stock!Items, Items
  <2> HIDE DEF S
  <2> QED
    BY <1>1, <2>1 DEF P!ItemRow
<1>5. RowsOnLines'
  <2>1. resv' = [r \in Reservations |->
                   IF r \in S THEN [resv[r] EXCEPT !.status = "RELEASED"] ELSE resv[r]]
    BY DEF Pack, Stock!ShipRows
  <2> HIDE DEF S
  <2> QED
    BY <1>1, <1>2, <2>1, RowsSetOnLines DEF LeftInv
<1>6. \A q \in Orders : order'[q].status \in Sent <=> (q = o \/ order[q].status \in Sent)
  <2>1. order' = [order EXCEPT ![o].status = "PACKED"]
    BY DEF Pack
  <2> QED
    BY <1>1, <2>1 DEF OrderRow, Sent
<1>7. NothingAdded'
  <2>1. ASSUME NEW i \in Items PROVE item'[i].onHand <= InitialStock
    <3>1. P!Total(resv, S, i) \in Nat /\ item[i].onHand \in Nat /\ item[i].onHand <= InitialStock
      BY <1>1, <1>3 DEF LeftInv, NothingAdded
    <3> HIDE DEF S
    <3>2. item'[i].onHand = item[i].onHand - P!Total(resv, S, i)
      BY <1>4
    <3> QED
      BY <3>1, <3>2, OrderPaymentAssumption
  <2> QED
    BY <2>1 DEF NothingAdded
<1>8. ASSUME NEW k \in Skus
      PROVE  /\ IsFiniteSet(GoneUnits(k)') /\ IsFiniteSet(SentUnits(k)')
             /\ Cardinality(GoneUnits(k)') = Cardinality(SentUnits(k)')
  <2>1. /\ IsFiniteSet(GoneUnits(k)) /\ IsFiniteSet(SentUnits(k))
        /\ Cardinality(GoneUnits(k)) = Cardinality(SentUnits(k))
    BY DEF LeftInv, GoneIsSent
  <2>2. \A l \in Lines : order'[LineOrder[l]].status \in Sent
                           <=> (l \in LinesOf(o) \/ order[LineOrder[l]].status \in Sent)
    BY <1>6, OrderPaymentAssumption DEF LinesOf
  <2>3. CASE ~ \E l \in LinesOf(o) : LineSku[l] = k
    <3>1. ASSUME NEW x \in Warehouses PROVE item'[<<x, k>>].onHand = item[<<x, k>>].onHand
      <4>1. \A r \in S : resv[r].item # <<x, k>>
        <5>1. ASSUME NEW r \in S PROVE resv[r].item # <<x, k>>
          <6>1. resv[r].line \in LinesOf(o) /\ r \in Reservations /\ resv[r].status # "NONE"
            BY DEF Stock!LatestOfOrder, Stock!LatestOf, Stock!OfLine, Stock!Existing, Stock!LinesOf,
                   LinesOf
          <6>2. resv[r].item \in ItemsOf(resv[r].line)
            BY <6>1 DEF LeftInv, RowsOnLines
          <6> QED
            BY <2>3, <6>1, <6>2 DEF ItemsOf
        <5> QED
          BY <5>1
      <4>2. P!Units(resv, S, <<x, k>>) = {}
        BY <4>1 DEF P!Units
      <4>3. P!Total(resv, S, <<x, k>>) = 0
        BY <4>2, SameCardinality, FS_EmptySet DEF P!Total
      <4>4. <<x, k>> \in Items
        BY DEF Items
      <4> HIDE DEF S
      <4> QED
        BY <1>1, <1>4, <4>3, <4>4
    <3>2. GoneUnits(k)' = GoneUnits(k)
      BY <3>1 DEF GoneUnits
    <3>3. SentUnits(k)' = SentUnits(k)
      BY <2>2, <2>3 DEF SentUnits
    <3> QED
      BY <2>1, <3>2, <3>3
  <2>4. ASSUME NEW l \in LinesOf(o), LineSku[l] = k
        PROVE  /\ IsFiniteSet(GoneUnits(k)') /\ IsFiniteSet(SentUnits(k)')
               /\ Cardinality(GoneUnits(k)') = Cardinality(SentUnits(k)')
    <3>1. PICK r : r \in Stock!LatestOf(l)
      BY DEF Pack
    <3>2. PICK x \in Warehouses : resv[r].item = <<x, k>>
      BY <2>4, <3>1, PackTakesTheLine DEF LeftInv, ItemsOf
    <3>3. l \in Lines /\ LineOrder[l] = o /\ LineQty[l] \in Nat /\ LineQty[l] <= MaxQty
      BY OrderPaymentAssumption DEF LinesOf
    <3> DEFINE n == item[<<x, k>>].onHand
               m == item'[<<x, k>>].onHand
               Out == {x} \X ((m + 1) .. n)
               In == {l} \X {j \in 1 .. MaxQty : j <= LineQty[l]}
    <3>4. /\ n \in Nat /\ m \in Nat /\ m = n - LineQty[l] /\ n <= InitialStock
          /\ \A y \in Warehouses : y # x => item'[<<y, k>>].onHand = item[<<y, k>>].onHand
      <4>1. \A y \in Warehouses : P!Total(resv, S, <<y, k>>) = IF y = x THEN LineQty[l] ELSE 0
        <5>1. \A y \in Warehouses : <<y, k>> \in ItemsOf(l)
          BY <2>4 DEF ItemsOf
        <5>2. \A i \in ItemsOf(l) :
                 P!Total(resv, S, i) = IF i = resv[r].item THEN LineQty[l] ELSE 0
          BY <3>1, PackTakesTheLine DEF LeftInv
        <5> HIDE DEF S
        <5> QED
          BY <3>2, <5>1, <5>2
      <4>2. \A y \in Warehouses : <<y, k>> \in Items
        BY DEF Items
      <4>3. n <= InitialStock
        BY <4>2 DEF LeftInv, NothingAdded
      <4> HIDE DEF S
      <4>4. \A y \in Warehouses : item'[<<y, k>>].onHand
                                    = item[<<y, k>>].onHand - IF y = x THEN LineQty[l] ELSE 0
        BY <1>4, <4>1, <4>2
      <4>5. \A y \in Warehouses : item[<<y, k>>].onHand \in Nat /\ item'[<<y, k>>].onHand \in Nat
        BY <1>1, <4>2
      <4> QED
        BY <4>3, <4>4, <4>5
    <3>5. GoneUnits(k)' = GoneUnits(k) \cup Out /\ GoneUnits(k) \cap Out = {}
      <4>1. \A u \in Out : u[1] = x /\ u[2] \in 1 .. InitialStock /\ u[2] > m /\ ~ (u[2] > n)
        BY <3>3, <3>4, OrderPaymentAssumption
      <4>2. \A u \in Warehouses \X (1 .. InitialStock) :
               u[2] > item'[<<u[1], k>>].onHand <=> (u[2] > item[<<u[1], k>>].onHand \/ u \in Out)
        <5>1. ASSUME NEW y \in Warehouses, NEW j \in 1 .. InitialStock
              PROVE  j > item'[<<y, k>>].onHand
                       <=> (j > item[<<y, k>>].onHand \/ (y = x /\ j \in (m + 1) .. n))
          <6>1. CASE y # x
            BY <3>4, <6>1
          <6>2. CASE y = x
            BY <3>3, <3>4, <6>2, OrderPaymentAssumption
          <6> QED
            BY <6>1, <6>2
        <5> HIDE DEF n, m
        <5> QED
          BY <5>1
      <4>3. Out \subseteq Warehouses \X (1 .. InitialStock)
        <5> HIDE DEF n, m
        <5>1. \A u \in Out : u = <<u[1], u[2]>>
          OBVIOUS
        <5> QED
          BY <4>1, <5>1
      <4> HIDE DEF Out
      <4>4. GoneUnits(k)' = GoneUnits(k) \cup Out
        BY <4>2, <4>3 DEF GoneUnits
      <4>5. GoneUnits(k) \cap Out = {}
        BY <4>1 DEF GoneUnits
      <4> QED
        BY <4>4, <4>5
    <3>6. SentUnits(k)' = SentUnits(k) \cup In /\ SentUnits(k) \cap In = {}
      <4>1. \A j \in LinesOf(o) : LineSku[j] = k => j = l
        BY <2>4, OrderPaymentAssumption DEF LinesOf
      <4>2. order[LineOrder[l]].status \notin Sent
        BY <1>1, <3>3 DEF Sent
      <4>3. SentUnits(k)' = SentUnits(k) \cup In
        BY <2>2, <2>4, <3>3, <4>1 DEF SentUnits
      <4>4. SentUnits(k) \cap In = {}
        BY <4>2 DEF SentUnits
      <4> QED
        BY <4>3, <4>4
    <3>7. IsFiniteSet(Out) /\ Cardinality(Out) = LineQty[l]
      <4>1. IsFiniteSet((m + 1) .. n) /\ Cardinality((m + 1) .. n) = n - m
        <5> m <= n
          BY <3>3, <3>4
        <5> HIDE DEF m, n
        <5> QED
          BY <3>4, NumbersBetween
      <4>2. n - m = LineQty[l]
        BY <3>3, <3>4
      <4> DEFINE N == (m + 1) .. n
      <4>3. IsFiniteSet(N) /\ Cardinality(N) = LineQty[l]
        BY <4>1, <4>2
      <4> HIDE DEF N, m, n
      <4>4. IsFiniteSet({x} \X N) /\ Cardinality({x} \X N) = Cardinality(N)
        BY <4>3, PairsOfOne
      <4> QED
        BY <4>3, <4>4 DEF N
    <3>8. IsFiniteSet(In) /\ Cardinality(In) = LineQty[l]
      <4> DEFINE q == LineQty[l]
                 N == {j \in 1 .. MaxQty : j <= q}
      <4>1. q \in Nat /\ q <= MaxQty /\ MaxQty \in Nat
        BY <3>3, OrderPaymentAssumption
      <4>2. IsFiniteSet(N) /\ Cardinality(N) = q
        <5> HIDE DEF q
        <5> QED
          BY <4>1, FirstUnits
      <4> HIDE DEF N
      <4>3. IsFiniteSet({l} \X N) /\ Cardinality({l} \X N) = Cardinality(N)
        BY <4>2, PairsOfOne
      <4> QED
        BY <4>2, <4>3 DEF N
    <3> HIDE DEF Out, In
    <3>9. /\ IsFiniteSet(GoneUnits(k) \cup Out)
          /\ Cardinality(GoneUnits(k) \cup Out) = Cardinality(GoneUnits(k)) + LineQty[l]
      BY <2>1, <3>5, <3>7, CardinalityOfSum
    <3>10. /\ IsFiniteSet(SentUnits(k) \cup In)
           /\ Cardinality(SentUnits(k) \cup In) = Cardinality(SentUnits(k)) + LineQty[l]
      BY <2>1, <3>6, <3>8, CardinalityOfSum
    <3> QED
      BY <2>1, <3>5, <3>6, <3>9, <3>10
  <2> QED
    BY <2>3, <2>4
<1> QED
  BY <1>5, <1>7, <1>8 DEF LeftInv, GoneIsSent

(* Every step keeps the two sides of ShippedIsPacked equal. *)
LEMMA LeftNext == IInv /\ HoldsInv /\ LeftInv /\ IInv' /\ [Next]_vars => LeftInv'
<1> SUFFICES ASSUME IInv, HoldsInv, LeftInv, IInv', [Next]_vars PROVE LeftInv'
  OBVIOUS
<1>1. CASE \E o \in Orders : Pack(o)
  BY <1>1, PackShips
<1>2. CASE \A o \in Orders : ~ Pack(o)
  <2>1. RowsOnLines' /\ OnHandStays /\ SentStay
    BY <1>2, OnlyPackingShips, OnlyPackingSends DEF LeftInv, IInv
  <2>2. NothingAdded'
    BY <2>1 DEF LeftInv, NothingAdded, OnHandStays
  <2>3. ASSUME NEW k \in Skus PROVE GoneUnits(k)' = GoneUnits(k) /\ SentUnits(k)' = SentUnits(k)
    <3>1. \A x \in Warehouses : item'[<<x, k>>].onHand = item[<<x, k>>].onHand
      BY <2>1 DEF OnHandStays, Items
    <3>2. \A l \in Lines : order'[LineOrder[l]].status \in Sent <=> order[LineOrder[l]].status \in Sent
      BY <2>1, OrderPaymentAssumption DEF SentStay
    <3> QED
      BY <3>1, <3>2 DEF GoneUnits, SentUnits
  <2>4. GoneIsSent'
    BY <2>3 DEF LeftInv, GoneIsSent
  <2> QED
    BY <2>1, <2>2, <2>4 DEF LeftInv
<1> QED
  BY <1>1, <1>2

(* The units of a SKU that have left the warehouses are, one for one, those *)
(* of the orders that were packed: no race ships a line twice, ships it     *)
(* from another SKU, or leaves a packed line behind.                        *)
THEOREM PackedOnce == Spec => []ShippedIsPacked
<1>1. Init => IInv /\ HoldsInv /\ LeftInv
  <2> SUFFICES ASSUME Init PROVE LeftInv
    BY InitStock, InitFlow, InitHolds DEF IInv
  <2>1. \A k \in Skus, u \in Warehouses \X (1 .. InitialStock) : ~ (u[2] > item[<<u[1], k>>].onHand)
    BY OrderPaymentAssumption DEF Init, Items
  <2>2. \A l \in Lines : order[LineOrder[l]].status \notin Sent
    BY OrderPaymentAssumption DEF Init, Sent
  <2>3. \A k \in Skus : GoneUnits(k) = {} /\ SentUnits(k) = {}
    BY <2>1, <2>2 DEF GoneUnits, SentUnits
  <2>4. GoneIsSent
    BY <2>3, FS_EmptySet DEF GoneIsSent
  <2> QED
    BY <2>4, OrderPaymentAssumption DEF Init, LeftInv, RowsOnLines, NothingAdded
<1>2. (IInv /\ HoldsInv /\ LeftInv) /\ [Next]_vars => (IInv /\ HoldsInv /\ LeftInv)'
  BY StockNext, FlowNext, HoldsNext, LeftNext DEF IInv
<1>3. IInv /\ HoldsInv /\ LeftInv => ShippedIsPacked
  BY DEF LeftInv, GoneIsSent, GoneUnits, SentUnits, Sent, ShippedIsPacked
<1> QED
  BY <1>1, <1>2, <1>3, PTL DEF Spec

=============================================================================
