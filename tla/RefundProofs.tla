---------------------------- MODULE RefundProofs ----------------------------
(***************************************************************************)
(* What the returns of an order and their refunds keep, for any number of  *)
(* returns, lines, entries, attempts and calls, and any behaviour of the   *)
(* provider.                                                               *)
(***************************************************************************)
EXTENDS Refunds, Counting

LiveSet == {t \in Returns : Live(t)}
LiveOnce == {t \in Returns : Live(t) /\ ListsLinesOnce(t)}
Restocked(l) == {u \in UnitsOf(ret, Returns, l) : ret[u[1]].items[u[2]].restocked}

NewIsEmpty == \A t \in Returns : ret[t].status = "NONE" => \A s \in Slots : ret[t].items[s] = NoItem

ReturnInv == ReturnsTypeOK /\ NewIsEmpty /\ ReturnsFitTheOrder /\ RestockedOnce

------------------------------------------------------------------------------
(* Counting units.                                                         *)

(* The units of a set of returns are finitely many. *)
LEMMA UnitsFinite ==
    ASSUME NEW rows, NEW T \in SUBSET Returns, NEW l
    PROVE  /\ IsFiniteSet(UnitsOf(rows, T, l))
           /\ Cardinality(UnitsOf(rows, T, l)) \in Nat
<1> DEFINE B == (T \X Slots) \X (1 .. MaxQty)
           U == UnitsOf(rows, T, l)
           f == [u \in U |-> <<<<u[1], u[2]>>, u[3]>>]
<1>1. IsFiniteSet(B)
  <2>1. IsFiniteSet(T) /\ IsFiniteSet(Slots)
    BY ReturnsAssumption, FS_Subset
  <2>2. MaxQty \in Int /\ 1 \in Int
    BY ReturnsAssumption
  <2>3. IsFiniteSet(1 .. MaxQty)
    BY <2>2, FS_Interval
  <2> QED
    BY <2>1, <2>3, FS_Product
<1>2. f \in Injection(U, B)
  <2>1. \A u \in U : u[1] \in T /\ u[2] \in Slots /\ u[3] \in 1 .. MaxQty
    BY DEF UnitsOf
  <2>2. \A u \in U : u = <<u[1], u[2], u[3]>> /\ f[u] = <<<<u[1], u[2]>>, u[3]>>
    <3>1. \A u \in T \X Slots \X (1 .. MaxQty) : u = <<u[1], u[2], u[3]>>
      OBVIOUS
    <3>2. U \subseteq T \X Slots \X (1 .. MaxQty)
      BY DEF UnitsOf
    <3> HIDE DEF U
    <3> QED
      BY <3>1, <3>2
  <2>3. \A u, v \in U : f[u] = f[v] => u[1] = v[1] /\ u[2] = v[2] /\ u[3] = v[3]
    BY <2>2
  <2>4. \A u, v \in U : f[u] = f[v] => u = v
    BY <2>2, <2>3
  <2>5. f \in [U -> B]
    <3> HIDE DEF U
    <3> QED
      BY <2>1
  <2> HIDE DEF f, U, B
  <2> QED
    BY <2>5, <2>4 DEF Injection, IsInjective
<1>3. IsFiniteSet(U)
  BY <1>1, <1>2, FS_Injection
<1> QED
  BY <1>3, FS_CardinalityType

(* Fewer returns have no more units. *)
LEMMA UnitsGrow ==
    ASSUME NEW rows, NEW T \in SUBSET Returns, NEW S \in SUBSET T, NEW l
    PROVE  Cardinality(UnitsOf(rows, S, l)) <= Cardinality(UnitsOf(rows, T, l))
<1>1. UnitsOf(rows, S, l) \in SUBSET UnitsOf(rows, T, l)
  BY DEF UnitsOf
<1> QED
  BY <1>1, UnitsFinite, FS_Subset

OnlyEntry(rows, t, l, s, q) ==
    \A r \in Slots : rows[t].items[r].line = l => r = s /\ rows[t].items[r].qty = q

(* An entry of quantity q has no more than q units. *)
LEMMA UnitsOfEntry ==
    ASSUME NEW rows, NEW t \in Returns, NEW l, NEW s \in Slots, NEW q \in Nat,
           OnlyEntry(rows, t, l, s, q)
    PROVE  Cardinality(UnitsOf(rows, {t}, l)) <= q
<1> DEFINE U == UnitsOf(rows, {t}, l)
           f == [u \in U |-> u[3]]
<1>1. \A u \in U : u = <<t, s, u[3]>> /\ u[3] \in 1 .. MaxQty /\ u[3] <= q
  BY DEF UnitsOf, OnlyEntry
<1>2. f \in Injection(U, 1 .. q)
  <2>1. \A u \in U : f[u] \in 1 .. q
    <3> MaxQty \in Nat
      BY ReturnsAssumption
    <3> HIDE DEF U
    <3> QED
      BY <1>1
  <2>2. \A u, v \in U : f[u] = f[v] => u = v
    BY <1>1
  <2> HIDE DEF U
  <2>3. f \in [U -> 1 .. q]
    BY <2>1
  <2> HIDE DEF f
  <2> QED
    BY <2>2, <2>3 DEF Injection, IsInjective
<1>3. IsFiniteSet(1 .. q) /\ Cardinality(1 .. q) = q
  <2>1. q \in Int /\ 1 \in Int
    OBVIOUS
  <2>2. IsFiniteSet(1 .. q) /\ Cardinality(1 .. q) = IF 1 > q THEN 0 ELSE q - 1 + 1
    BY <2>1, FS_Interval
  <2> QED
    BY <2>2
<1>4. Cardinality(U) <= Cardinality(1 .. q)
  BY <1>2, <1>3, FS_Injection
<1> QED
  BY <1>3, <1>4

------------------------------------------------------------------------------
(* The steps of a return.                                                  *)

(* A step that leaves the entries alone and wakes no return. *)
LEMMA UnitsStay ==
    ASSUME ReturnInv, ReturnsTypeOK', NewIsEmpty',
           \A t \in Returns : \A s \in Slots :
              /\ ret'[t].items[s].line = ret[t].items[s].line
              /\ ret'[t].items[s].qty = ret[t].items[s].qty,
           \A t \in Returns : Live(t)' => Live(t),
           RestockedOnce'
    PROVE  ReturnInv'
<1>1. \A T, l : UnitsOf(ret', T \cap Returns, l) = UnitsOf(ret, T \cap Returns, l)
  BY DEF UnitsOf
<1>2. LiveOnce' \subseteq LiveOnce /\ LiveOnce' \subseteq Returns /\ LiveOnce \subseteq Returns
  <2>1. ASSUME NEW t \in Returns, NEW l PROVE EntriesOf(t, l)' = EntriesOf(t, l)
    BY DEF EntriesOf
  <2> QED
    BY <2>1 DEF LiveOnce, ListsLinesOnce
<1>3. ASSUME NEW l \in Lines
      PROVE  Cardinality(UnitsOf(ret', LiveOnce', l)) <= LineQty[l]
  <2>1. UnitsOf(ret', LiveOnce', l) = UnitsOf(ret, LiveOnce', l)
    <3>1. LiveOnce' \cap Returns = LiveOnce'
      BY <1>2
    <3> QED
      BY <1>1, <3>1
  <2>2. Cardinality(UnitsOf(ret, LiveOnce', l)) <= Cardinality(UnitsOf(ret, LiveOnce, l))
    BY <1>2, UnitsGrow
  <2>3. Cardinality(UnitsOf(ret, LiveOnce, l)) <= LineQty[l]
    BY DEF ReturnInv, ReturnsFitTheOrder, LiveOnce
  <2>4. /\ Cardinality(UnitsOf(ret, LiveOnce', l)) \in Nat
        /\ Cardinality(UnitsOf(ret, LiveOnce, l)) \in Nat /\ LineQty[l] \in Nat
    BY <1>2, UnitsFinite, ReturnsAssumption
  <2> QED
    BY <2>1, <2>2, <2>3, <2>4
<1>4. ReturnsFitTheOrder'
  BY <1>3 DEF ReturnsFitTheOrder, LiveOnce
<1> QED
  BY <1>4 DEF ReturnInv

(* A change of the status of one return. *)
LEMMA StatusMoves ==
    ASSUME ReturnInv, NEW t \in Returns, NEW st \in ReturnStatus \ {"NONE"},
           ret[t].status # "NONE", st \in {"REJECTED", "CANCELLED"} \/ Live(t),
           ret' = [ret EXCEPT ![t].status = st], UNCHANGED shelf
    PROVE  ReturnInv'
<1> DEFINE row == [ret[t] EXCEPT !.status = st]
<1>1. row \in ReturnRow /\ row.status = st /\ row.items = ret[t].items
  BY DEF ReturnInv, ReturnsTypeOK, ReturnRow
<1>2. ret' = [ret EXCEPT ![t] = row]
  OBVIOUS
<1> HIDE DEF row
<1>3. \A v \in Returns : /\ ret'[v].items = ret[v].items
                         /\ ret'[v].status = IF v = t THEN st ELSE ret[v].status
  BY <1>1, <1>2 DEF ReturnInv, ReturnsTypeOK
<1>4. ReturnsTypeOK' /\ NewIsEmpty'
  BY <1>1, <1>2, <1>3 DEF ReturnInv, ReturnsTypeOK, NewIsEmpty
<1>5. \A v \in Returns : Live(v)' => Live(v)
  BY <1>3 DEF Live
<1>6. \A l : UnitsOf(ret', Returns, l) = UnitsOf(ret, Returns, l)
  BY <1>3 DEF UnitsOf
<1>7. ASSUME NEW l \in Lines
      PROVE  {u \in UnitsOf(ret', Returns, l) : ret'[u[1]].items[u[2]].restocked}
               = {u \in UnitsOf(ret, Returns, l) : ret[u[1]].items[u[2]].restocked}
  BY <1>3, <1>6 DEF UnitsOf
<1>8. RestockedOnce'
  BY <1>7 DEF ReturnInv, RestockedOnce
<1> QED
  BY <1>3, <1>4, <1>5, <1>8, UnitsStay

(* A request is made: what it adds to a line is what is left of it. *)
LEMMA RequestKeeps ==
    ASSUME ReturnInv, NEW t \in Returns, NEW items \in Requests, RequestReturn(t, items)
    PROVE  ReturnInv'
<1> DEFINE row == [status |-> "REQUESTED", items |-> items]
<1>1. /\ row \in ReturnRow /\ ret' = [ret EXCEPT ![t] = row] /\ shelf' = shelf
      /\ \A s \in Slots : items[s].restocked = FALSE
  <2>1. items \in [Slots -> {NoItem} \cup [line : Lines, qty : 1 .. MaxQty, restocked : {FALSE}]]
    BY DEF Requests
  <2>2. ASSUME NEW s \in Slots PROVE items[s] \in ReturnItem /\ items[s].restocked = FALSE
    <3>1. MaxQty \in Nat
      BY ReturnsAssumption
    <3>2. NoItem \in ReturnItem /\ NoItem.restocked = FALSE
      <4>1. 0 \in 0 .. MaxQty /\ NoLine \in Lines \cup {NoLine} /\ FALSE \in BOOLEAN
        BY <3>1
      <4> QED
        BY <4>1 DEF NoItem, ReturnItem
    <3>3. ASSUME NEW x \in [line : Lines, qty : 1 .. MaxQty, restocked : {FALSE}]
          PROVE  x \in ReturnItem /\ x.restocked = FALSE
      <4>1. x = [line |-> x.line, qty |-> x.qty, restocked |-> x.restocked]
        OBVIOUS
      <4>2. x.line \in Lines /\ x.qty \in 1 .. MaxQty /\ x.restocked = FALSE
        OBVIOUS
      <4>3. x.qty \in 0 .. MaxQty
        BY <3>1, <4>2
      <4> QED
        BY <4>1, <4>2, <4>3 DEF ReturnItem
    <3>4. items[s] = NoItem \/ items[s] \in [line : Lines, qty : 1 .. MaxQty, restocked : {FALSE}]
      BY <2>1
    <3> QED
      BY <3>2, <3>3, <3>4
  <2>3. items \in [Slots -> ReturnItem]
    BY <2>1, <2>2
  <2> QED
    BY <2>2, <2>3 DEF ReturnRow, ReturnStatus, RequestReturn
<1>2. /\ ret'[t] = row
      /\ \A v \in Returns : v # t => ret'[v] = ret[v]
      /\ ret[t].status = "NONE" /\ \A s \in Slots : ret[t].items[s] = NoItem
      /\ ret \in [Returns -> ReturnRow] /\ shelf \in [Lines -> Nat]
  BY <1>1 DEF ReturnInv, ReturnsTypeOK, RequestReturn, NewIsEmpty
<1>3. ReturnsTypeOK' /\ NewIsEmpty'
  BY <1>1, <1>2 DEF ReturnInv, ReturnsTypeOK, NewIsEmpty
<1>4. ASSUME NEW l \in Lines
      PROVE  Cardinality(UnitsOf(ret', LiveOnce', l)) <= LineQty[l]
  <2> DEFINE Old == UnitsOf(ret, LiveOnce, l)
             Mine == UnitsOf(ret', {t}, l)
             All == UnitsOf(ret', LiveOnce', l)
  <2>1. /\ IsFiniteSet(Old) /\ IsFiniteSet(Mine) /\ IsFiniteSet(All)
        /\ Cardinality(Old) \in Nat /\ Cardinality(Mine) \in Nat /\ Cardinality(All) \in Nat
        /\ Returned(l) \in Nat /\ LineQty[l] \in Nat
    <3>1. LiveOnce \in SUBSET Returns /\ LiveOnce' \in SUBSET Returns /\ {t} \in SUBSET Returns
          /\ {v \in Returns : Live(v)} \in SUBSET Returns
      BY DEF LiveOnce
    <3> QED
      BY <3>1, UnitsFinite, ReturnsAssumption DEF Returned
  <2>2. \A v \in Returns : v # t /\ v \in LiveOnce' => v \in LiveOnce
    <3>1. ASSUME NEW v \in Returns, v # t PROVE \A k : EntriesOf(v, k)' = EntriesOf(v, k)
      BY <1>2, <3>1 DEF EntriesOf
    <3> QED
      BY <1>2, <3>1 DEF LiveOnce, Live, ListsLinesOnce
  <2>3. Cardinality(Old) <= LineQty[l] /\ Cardinality(Old) <= Returned(l)
    <3>1. LiveOnce \in SUBSET {v \in Returns : Live(v)}
      BY DEF LiveOnce
    <3> QED
      BY <3>1, UnitsGrow DEF ReturnInv, ReturnsFitTheOrder, LiveOnce, Returned
  <2>4. CASE \E s \in Slots : items[s].line = l /\ t \in LiveOnce'
    <3>1. PICK s \in Slots : items[s].line = l
      BY <2>4
    <3>2. items[s].qty \in Nat /\ items[s].qty <= LineQty[l] - Returned(l)
      <4>1. items[s].line # NoLine
        BY <3>1, ReturnsAssumption
      <4> QED
        BY <1>1, <3>1, <4>1, ReturnsAssumption DEF RequestReturn, ReturnRow, ReturnItem
    <3>3. \A r \in Slots : ret'[t].items[r].line = l => r = s /\ ret'[t].items[r].qty = items[s].qty
      <4>1. EntriesOf(t, l)' = {r \in Slots : items[r].line = l}
        BY <1>2 DEF EntriesOf
      <4>2. Cardinality({r \in Slots : items[r].line = l}) <= 1
        BY <2>4, <4>1 DEF LiveOnce, ListsLinesOnce
      <4>3. IsFiniteSet({r \in Slots : items[r].line = l})
        BY ReturnsAssumption, FS_Subset
      <4>4. Cardinality({r \in Slots : items[r].line = l}) = 1
        <5>1. {r \in Slots : items[r].line = l} # {}
          BY <3>1
        <5>2. /\ Cardinality({r \in Slots : items[r].line = l}) # 0
              /\ Cardinality({r \in Slots : items[r].line = l}) \in Nat
          BY <4>3, <5>1, FS_EmptySet, FS_CardinalityType
        <5> QED
          BY <4>2, <5>2
      <4>5. PICK x : {r \in Slots : items[r].line = l} = {x}
        BY <4>3, <4>4, FS_Singleton
      <4>6. x = s
        BY <3>1, <4>5
      <4> QED
        BY <1>2, <4>5, <4>6
    <3>4. Cardinality(Mine) <= items[s].qty
      <4> HIDE DEF row
      <4> DEFINE q == items[s].qty
      <4>1. q \in Nat /\ OnlyEntry(ret', t, l, s, q)
        BY <3>2, <3>3 DEF OnlyEntry
      <4> HIDE DEF q
      <4>2. Cardinality(UnitsOf(ret', {t}, l)) <= q
        BY <4>1, UnitsOfEntry
      <4> QED
        BY <4>2 DEF q
    <3>5. All \in SUBSET (Old \cup Mine)
      BY <1>2, <2>2 DEF UnitsOf, LiveOnce
    <3>6. IsFiniteSet(Old \cup Mine) /\ Cardinality(Old \cup Mine) <= Cardinality(Old) + Cardinality(Mine)
      BY <2>1, CardinalityOfSum
    <3>7. Cardinality(All) <= Cardinality(Old \cup Mine) /\ Cardinality(Old \cup Mine) \in Nat
      BY <3>5, <3>6, FS_Subset, FS_CardinalityType
    <3> QED
      BY <2>1, <2>3, <3>2, <3>4, <3>6, <3>7
  <2>5. CASE \A s \in Slots : items[s].line = l => t \notin LiveOnce'
    <3>1. All \in SUBSET Old
      BY <1>2, <2>2, <2>5 DEF UnitsOf, LiveOnce
    <3>2. Cardinality(All) <= Cardinality(Old)
      BY <2>1, <3>1, FS_Subset
    <3> QED
      BY <2>1, <2>3, <3>2
  <2> QED
    BY <2>4, <2>5
<1>5. ReturnsFitTheOrder'
  BY <1>4 DEF ReturnsFitTheOrder, LiveOnce
<1>6. \A l \in Lines : Restocked(l)' = Restocked(l)
  BY <1>1, <1>2 DEF Restocked, UnitsOf, NoItem
<1>7. RestockedOnce'
  BY <1>1, <1>6 DEF ReturnInv, RestockedOnce, Restocked
<1> QED
  BY <1>3, <1>5, <1>7 DEF ReturnInv

(* An inspection: an item that is claimed was not claimed before. *)
LEMMA InspectKeeps ==
    ASSUME ReturnInv, NEW t \in Returns, NEW says, \A s \in Slots : says[s] \in 0 .. 2,
           Inspect(t, says)
    PROVE  ReturnInv'
<1> DEFINE item(s) == [ret[t].items[s] EXCEPT !.restocked = ret[t].items[s].restocked \/ says[s] > 0]
           row == [status |-> "REFUND_PENDING", items |-> [s \in Slots |-> item(s)]]
<1>1. /\ ret' = [ret EXCEPT ![t] = row] /\ ret[t].status = "RECEIVED"
      /\ shelf' = [l \in Lines |-> shelf[l] + PutBack(t, l, says)]
      /\ ret \in [Returns -> ReturnRow] /\ shelf \in [Lines -> Nat]
      /\ \A v \in Returns : ret[v].items \in [Slots -> ReturnItem]
  BY DEF Inspect, ReturnInv, ReturnsTypeOK, ReturnRow
<1>2. \A s \in Slots :
         /\ item(s) \in ReturnItem
         /\ item(s).line = ret[t].items[s].line /\ item(s).qty = ret[t].items[s].qty
         /\ item(s).restocked = (ret[t].items[s].restocked \/ says[s] > 0)
  <2> TAKE s \in Slots
  <2> DEFINE x == ret[t].items[s]
             b == x.restocked \/ says[s] > 0
  <2>1. x \in ReturnItem /\ b \in BOOLEAN
    BY <1>1 DEF ReturnItem
  <2>2. item(s) = [x EXCEPT !.restocked = b]
    OBVIOUS
  <2> HIDE DEF item, x, b
  <2>3. /\ item(s) \in ReturnItem /\ item(s).line = x.line /\ item(s).qty = x.qty
        /\ item(s).restocked = b
    BY <2>1, <2>2 DEF ReturnItem
  <2> QED
    BY <2>3 DEF x, b
<1> HIDE DEF item
<1>3. row \in ReturnRow
  BY <1>2 DEF ReturnRow, ReturnStatus
<1>4. /\ \A v \in Returns : v # t => ret'[v] = ret[v]
      /\ ret'[t].status = "REFUND_PENDING" /\ \A s \in Slots : ret'[t].items[s] = item(s)
  BY <1>1
<1>5. \A l \in Lines : IsFiniteSet(UnitsOf(ret, {t}, l)) /\ PutBack(t, l, says) \in Nat
  <2>1. ASSUME NEW l \in Lines
        PROVE  {u \in UnitsOf(ret, {t}, l) : says[u[2]] > 0 /\ ~ ret[t].items[u[2]].restocked}
                  \in SUBSET UnitsOf(ret, {t}, l)
    OBVIOUS
  <2> QED
    BY <2>1, UnitsFinite, FS_Subset, FS_CardinalityType DEF PutBack
<1>6. ReturnsTypeOK'
  <2>1. ret' \in [Returns -> ReturnRow]
    BY <1>1, <1>3
  <2>2. shelf' \in [Lines -> Nat]
    BY <1>1, <1>5
  <2> QED
    BY <2>1, <2>2 DEF ReturnsTypeOK
<1>7. NewIsEmpty'
  BY <1>4 DEF NewIsEmpty, ReturnInv
<1>8. /\ \A v \in Returns : \A s \in Slots : /\ ret'[v].items[s].line = ret[v].items[s].line
                                             /\ ret'[v].items[s].qty = ret[v].items[s].qty
      /\ \A v \in Returns : Live(v)' => Live(v)
  BY <1>1, <1>2, <1>4 DEF Live
<1>9. ASSUME NEW l \in Lines PROVE shelf'[l] = Cardinality(Restocked(l)')
  <2> DEFINE P == {u \in UnitsOf(ret, {t}, l) : says[u[2]] > 0 /\ ~ ret[t].items[u[2]].restocked}
  <2>1. UnitsOf(ret', Returns, l) = UnitsOf(ret, Returns, l)
    BY <1>8 DEF UnitsOf
  <2>2. Restocked(l)' = Restocked(l) \cup P
    <3>1. \A u \in UnitsOf(ret, Returns, l) :
             /\ u[1] \in Returns /\ u[2] \in Slots
             /\ u \in UnitsOf(ret, {t}, l) <=> u[1] = t
      BY DEF UnitsOf
    <3>2. UnitsOf(ret, {t}, l) \subseteq UnitsOf(ret, Returns, l)
      BY DEF UnitsOf
    <3>3. ASSUME NEW u \in UnitsOf(ret, Returns, l)
          PROVE  ret'[u[1]].items[u[2]].restocked <=> (ret[u[1]].items[u[2]].restocked \/ u \in P)
      <4>1. CASE u[1] = t
        <5>1. u[2] \in Slots /\ u \in UnitsOf(ret, {t}, l)
          BY <3>1, <4>1
        <5>2. /\ ret'[t].items[u[2]] = item(u[2])
              /\ item(u[2]).restocked = (ret[t].items[u[2]].restocked \/ says[u[2]] > 0)
          BY <1>2, <1>4, <5>1
        <5>3. u \in P <=> says[u[2]] > 0 /\ ~ ret[t].items[u[2]].restocked
          BY <5>1
        <5> QED
          BY <4>1, <5>2, <5>3
      <4>2. CASE u[1] # t
        BY <1>4, <3>1, <4>2
      <4> QED
        BY <4>1, <4>2
    <3> HIDE DEF P
    <3>4. P \subseteq UnitsOf(ret, Returns, l)
      BY <3>2 DEF P
    <3> QED
      BY <2>1, <3>3, <3>4 DEF Restocked
  <2>3. Restocked(l) \cap P = {}
    BY DEF Restocked, UnitsOf
  <2>4. IsFiniteSet(Restocked(l)) /\ IsFiniteSet(P)
    <3>1. Restocked(l) \in SUBSET UnitsOf(ret, Returns, l) /\ P \in SUBSET UnitsOf(ret, {t}, l)
      BY DEF Restocked
    <3> QED
      BY <3>1, UnitsFinite, FS_Subset
  <2>5. shelf[l] = Cardinality(Restocked(l)) /\ shelf'[l] = shelf[l] + Cardinality(P)
    BY <1>1 DEF ReturnInv, RestockedOnce, Restocked, PutBack
  <2> HIDE DEF P
  <2> QED
    BY <2>2, <2>3, <2>4, <2>5, CardinalityOfSum
<1>10. RestockedOnce'
  BY <1>9 DEF RestockedOnce, Restocked
<1> QED
  BY <1>6, <1>7, <1>8, <1>10, UnitsStay

(* Every step of ReturnRequestService and ReturnStatusService. *)
LEMMA ReturnStepKeeps ==
    ASSUME ReturnInv, ReturnStep
    PROVE  ReturnInv'
<1>1. PICK t \in Returns :
        \/ \E items \in Requests : RequestReturn(t, items)
        \/ \E from \in {Undecided, {"REQUESTED"}, {"APPROVED"}, {"APPROVED", "IN_TRANSIT"}} :
             \E to \in {"CANCELLED", "UNDER_REVIEW", "APPROVED", "REJECTED", "IN_TRANSIT", "RECEIVED"} :
               Transition(t, from, to)
        \/ \E says \in [Entries(t) -> 0 .. 2] :
              Inspect(t, [s \in Slots |-> IF s \in Entries(t) THEN says[s] ELSE 0])
  BY DEF ReturnStep, CancelReturn, Review, Approve, Reject, MarkInTransit, MarkReceived
<1>2. ASSUME NEW items \in Requests, RequestReturn(t, items) PROVE ReturnInv'
  BY <1>2, RequestKeeps
<1>3. ASSUME NEW from \in {Undecided, {"REQUESTED"}, {"APPROVED"}, {"APPROVED", "IN_TRANSIT"}},
             NEW to \in {"CANCELLED", "UNDER_REVIEW", "APPROVED", "REJECTED", "IN_TRANSIT", "RECEIVED"},
             Transition(t, from, to)
      PROVE  ReturnInv'
  <2>1. /\ ret[t].status \in from /\ ret' = [ret EXCEPT ![t].status = to] /\ UNCHANGED shelf
        /\ to \in ReturnStatus \ {"NONE"}
    BY <1>3 DEF Transition, ReturnStatus
  <2>2. ret[t].status # "NONE" /\ Live(t)
    BY <2>1 DEF Undecided, Live
  <2> QED
    BY <2>1, <2>2, StatusMoves
<1>4. ASSUME NEW says \in [Entries(t) -> 0 .. 2],
             Inspect(t, [s \in Slots |-> IF s \in Entries(t) THEN says[s] ELSE 0])
      PROVE  ReturnInv'
  BY <1>4, InspectKeeps
<1> QED
  BY <1>1, <1>2, <1>3, <1>4

------------------------------------------------------------------------------
(* The money.                                                              *)

Paid == {"REFUND_INITIATED", "COMPLETED"}

MoneyTyped ==
    /\ refund \in [Refunds -> RefundRow]
    /\ remote \in [Refunds -> {"none", "sent"} \cup Verdicts]
    /\ told \in SUBSET (Refunds \X {"SUCCEEDED", "FAILED"})
    /\ call \in [Admins -> Call]
    /\ crashes \in 0 .. MaxCrashes

(* A row belongs to a return that has moved on, and the provider knows of  *)
(* no refund without a row.                                                *)
RowsFit ==
    \A f \in Refunds :
        /\ refund[f].status # "NONE" => refund[f].ret \in Returns /\ ret[refund[f].ret].status \in Paid
        /\ refund[f].status = "SUCCEEDED" => ret[refund[f].ret].status = "COMPLETED"
        /\ refund[f].status \in {"UNKNOWN", "FAILED"} => refund[f].failed
        /\ refund[f].amount <= Captured
        /\ remote[f] # "none" => refund[f].status # "NONE"

OneRow ==
    \A f, g \in Refunds :
        refund[f].status # "NONE" /\ refund[g].status # "NONE" /\ refund[f].ret = refund[g].ret => f = g

(* What a call remembers: its return, its row, that its request has not    *)
(* left yet, that the provider has processed the refund.                   *)
CallFits(c, rows, at) ==
    /\ c.op \in {"attempts", "create"} => c.ret \in Returns
    /\ c.op \notin {"idle", "attempts", "create"} => c.refund \in Refunds /\ rows[c.refund].status # "NONE"
    /\ c.op = "send" => at[c.refund] = "none"
    /\ c.op = "apply" /\ c.verdict = "processed" => at[c.refund] = "processed"

CallsFit == \A a \in Admins : CallFits(call[a], refund, remote)

SendersAlone ==
    \A a, b \in Admins :
        call[a].op = "send" /\ call[b].op = "send" /\ call[a].refund = call[b].refund => a = b

PaidOut(t) ==
    \E f \in Refunds : /\ refund[f].status # "NONE" /\ refund[f].ret = t
                       /\ remote[f] = "processed" /\ <<f, "SUCCEEDED">> \in told

ClosedIsPaidOut == \A t \in Returns : ret[t].status = "COMPLETED" => PaidOut(t)

MoneyInv ==
    /\ MoneyTyped /\ RowsFit /\ OneRow /\ CallsFit /\ SendersAlone
    /\ ClosedIsPaidOut /\ BooksFitThePayment

IInv == ReturnInv /\ MoneyInv

------------------------------------------------------------------------------
(* Counting money.                                                         *)

(* The captured amount is a number. *)
LEMMA CapturedIsNat == Captured \in Nat
<1>1. IsFiniteSet(Lines) /\ MaxOrdered \in Nat
  BY ReturnsAssumption, RefundsAssumption
<1>2. IsFiniteSet(1 .. MaxOrdered)
  <2> MaxOrdered \in Int /\ 1 \in Int
    BY <1>1
  <2> QED
    BY FS_Interval
<1>3. IsFiniteSet(Lines \X (1 .. MaxOrdered))
  BY <1>1, <1>2, FS_Product
<1>4. {u \in Lines \X (1 .. MaxOrdered) : u[2] <= LineQty[u[1]]} \in SUBSET (Lines \X (1 .. MaxOrdered))
  OBVIOUS
<1> QED
  BY <1>3, <1>4, FS_Subset, FS_CardinalityType DEF Captured

(* What a return asks for is a number. *)
LEMMA WantedIsNat ==
    ASSUME NEW t
    PROVE  Wanted(t) \in Nat
<1>1. IsFiniteSet(Slots) /\ MaxQty \in Nat
  BY ReturnsAssumption
<1>2. IsFiniteSet(1 .. MaxQty)
  <2> MaxQty \in Int /\ 1 \in Int
    BY <1>1
  <2> QED
    BY FS_Interval
<1>3. IsFiniteSet(Slots \X (1 .. MaxQty))
  BY <1>1, <1>2, FS_Product
<1>4. {u \in Slots \X (1 .. MaxQty) : u[2] <= ret[t].items[u[1]].qty} \in SUBSET (Slots \X (1 .. MaxQty))
  OBVIOUS
<1> QED
  BY <1>3, <1>4, FS_Subset, FS_CardinalityType DEF Wanted

(* So is a sum of refunds. *)
LEMMA MoneyIsFinite ==
    ASSUME NEW rows, NEW S \in SUBSET Refunds
    PROVE  IsFiniteSet(Money(rows, S)) /\ Cardinality(Money(rows, S)) \in Nat
<1>1. IsFiniteSet(S) /\ Captured \in Nat
  BY RefundsAssumption, FS_Subset, CapturedIsNat
<1>2. IsFiniteSet(1 .. Captured)
  <2> Captured \in Int /\ 1 \in Int
    BY <1>1
  <2> QED
    BY FS_Interval
<1>3. IsFiniteSet(S \X (1 .. Captured))
  BY <1>1, <1>2, FS_Product
<1>4. Money(rows, S) \in SUBSET (S \X (1 .. Captured))
  BY DEF Money
<1> QED
  BY <1>3, <1>4, FS_Subset, FS_CardinalityType

(* One refund stands for its amount. *)
LEMMA MoneyOfOne ==
    ASSUME NEW rows, NEW f \in Refunds, NEW q \in Nat, rows[f].amount = q
    PROVE  Cardinality(Money(rows, {f})) <= q
<1> DEFINE M == Money(rows, {f})
           g == [u \in M |-> u[2]]
<1>1. \A u \in M : u = <<f, u[2]>> /\ u[2] \in 1 .. Captured /\ u[2] <= q
  BY DEF Money
<1>2. g \in Injection(M, 1 .. q)
  <2>1. \A u \in M : g[u] \in 1 .. q
    <3> Captured \in Nat
      BY CapturedIsNat
    <3> HIDE DEF M
    <3> QED
      BY <1>1
  <2>2. \A u, v \in M : g[u] = g[v] => u = v
    BY <1>1
  <2> HIDE DEF M
  <2>3. g \in [M -> 1 .. q]
    BY <2>1
  <2> HIDE DEF g
  <2> QED
    BY <2>2, <2>3 DEF Injection, IsInjective
<1>3. IsFiniteSet(1 .. q) /\ Cardinality(1 .. q) = q
  <2>1. q \in Int /\ 1 \in Int
    OBVIOUS
  <2>2. IsFiniteSet(1 .. q) /\ Cardinality(1 .. q) = IF 1 > q THEN 0 ELSE q - 1 + 1
    BY <2>1, FS_Interval
  <2> QED
    BY <2>2
<1>4. Cardinality(M) <= Cardinality(1 .. q)
  BY <1>2, <1>3, FS_Injection
<1> QED
  BY <1>3, <1>4

(* A new refund adds no more than its amount. *)
LEMMA MoneyOfMore ==
    ASSUME NEW rows, NEW more, NEW S \in SUBSET Refunds, NEW f \in Refunds, NEW q \in Nat,
           more[f].amount = q, \A g \in S : more[g].amount = rows[g].amount
    PROVE  Cardinality(Money(more, S \cup {f})) <= Cardinality(Money(rows, S)) + q
<1>1. Money(more, S \cup {f}) = Money(rows, S) \cup Money(more, {f})
  <2>1. \A u \in Refunds \X (1 .. Captured) :
           u \in Money(more, S \cup {f}) <=> u \in Money(rows, S) \/ u \in Money(more, {f})
    <3> TAKE u \in Refunds \X (1 .. Captured)
    <3>1. CASE u[1] \in S
      BY <3>1 DEF Money
    <3>2. CASE u[1] \notin S
      BY <3>2 DEF Money
    <3> QED
      BY <3>1, <3>2
  <2>2. /\ Money(more, S \cup {f}) \subseteq Refunds \X (1 .. Captured)
        /\ Money(rows, S) \subseteq Refunds \X (1 .. Captured)
        /\ Money(more, {f}) \subseteq Refunds \X (1 .. Captured)
    BY DEF Money
  <2> QED
    BY <2>1, <2>2
<1>2. /\ IsFiniteSet(Money(rows, S)) /\ IsFiniteSet(Money(more, {f}))
      /\ Cardinality(Money(rows, S)) \in Nat /\ Cardinality(Money(more, {f})) \in Nat
      /\ Cardinality(Money(more, S \cup {f})) \in Nat
  <2>1. {f} \in SUBSET Refunds /\ S \cup {f} \in SUBSET Refunds
    OBVIOUS
  <2> QED
    BY <2>1, MoneyIsFinite
<1>3. Cardinality(Money(rows, S) \cup Money(more, {f}))
        <= Cardinality(Money(rows, S)) + Cardinality(Money(more, {f}))
  BY <1>2, CardinalityOfSum
<1>4. Cardinality(Money(more, {f})) <= q
  BY MoneyOfOne
<1> DEFINE A == Cardinality(Money(rows, S))
           B == Cardinality(Money(more, {f}))
           C == Cardinality(Money(more, S \cup {f}))
<1>5. A \in Nat /\ B \in Nat /\ C \in Nat /\ C <= A + B /\ B <= q
  BY <1>1, <1>2, <1>3, <1>4
<1>6. C <= A + q
  <2> HIDE DEF A, B, C
  <2> QED
    BY <1>5
<1> QED
  BY <1>6

------------------------------------------------------------------------------
(* Steps.                                                                  *)

(* A step of a call that writes nothing. *)
LEMMA CallMoves ==
    ASSUME IInv, NEW a \in Admins, NEW c \in Call, CallFits(c, refund, remote), c.op # "send",
           call' = [call EXCEPT ![a] = c], UNCHANGED <<returnVars, moneyVars>>,
           crashes' \in 0 .. MaxCrashes
    PROVE  IInv'
<1>1. /\ UNCHANGED <<ret, shelf, refund, remote, told>>
      /\ MoneyTyped /\ RowsFit /\ OneRow /\ CallsFit /\ SendersAlone /\ ClosedIsPaidOut
      /\ BooksFitThePayment
  BY DEF returnVars, moneyVars, IInv, MoneyInv
<1>2. MoneyTyped'
  BY <1>1 DEF MoneyTyped
<1>3. \A b \in Admins : call'[b] = IF b = a THEN c ELSE call[b]
  BY <1>1 DEF MoneyTyped
<1>4. CallsFit' /\ SendersAlone'
  BY <1>1, <1>3 DEF CallsFit, SendersAlone
<1>5. RowsFit' /\ OneRow' /\ ClosedIsPaidOut'
  BY <1>1 DEF RowsFit, OneRow, ClosedIsPaidOut, PaidOut
<1>6. BooksFitThePayment'
  BY <1>1 DEF BooksFitThePayment, Sum, Counted, Money
<1>7. ReturnInv'
  <2>1. \A t : Live(t)' = Live(t) /\ \A l : EntriesOf(t, l)' = EntriesOf(t, l)
    BY <1>1 DEF Live, EntriesOf
  <2> QED
    BY <1>1, <2>1 DEF IInv, ReturnInv, ReturnsTypeOK, NewIsEmpty, ReturnsFitTheOrder, RestockedOnce,
       ListsLinesOnce
<1> QED
  BY <1>2, <1>4, <1>5, <1>6, <1>7 DEF IInv, MoneyInv

(* A step of the provider. *)
LEMMA RemoteMoves ==
    ASSUME IInv, NEW f \in Refunds, NEW v \in Verdicts \cup {"none"}, remote[f] \in {"sent", "pending"},
           remote' = [remote EXCEPT ![f] = v], UNCHANGED <<returnVars, refund, told, call, crashes>>
    PROVE  IInv'
<1>1. /\ UNCHANGED <<ret, shelf, refund, told, call, crashes>>
      /\ MoneyTyped /\ RowsFit /\ OneRow /\ CallsFit /\ SendersAlone /\ ClosedIsPaidOut
      /\ BooksFitThePayment
  BY DEF returnVars, IInv, MoneyInv
<1>2. /\ \A g \in Refunds : remote'[g] = IF g = f THEN v ELSE remote[g]
      /\ MoneyTyped'
  BY <1>1 DEF MoneyTyped
<1>3. CallsFit'
  BY <1>1, <1>2 DEF CallsFit, CallFits
<1>4. RowsFit' /\ ClosedIsPaidOut'
  BY <1>1, <1>2 DEF RowsFit, ClosedIsPaidOut, PaidOut
<1>5. OneRow' /\ SendersAlone'
  BY <1>1 DEF OneRow, SendersAlone
<1>6. BooksFitThePayment'
  BY <1>1 DEF BooksFitThePayment, Sum, Counted, Money
<1>7. ReturnInv'
  <2>1. \A t : Live(t)' = Live(t) /\ \A l : EntriesOf(t, l)' = EntriesOf(t, l)
    BY <1>1 DEF Live, EntriesOf
  <2> QED
    BY <1>1, <2>1 DEF IInv, ReturnInv, ReturnsTypeOK, NewIsEmpty, ReturnsFitTheOrder, RestockedOnce,
       ListsLinesOnce
<1> QED
  BY <1>2, <1>3, <1>4, <1>5, <1>6, <1>7 DEF IInv, MoneyInv

(* A request leaves: nothing was known of its refund, and no other call is *)
(* about to send it.                                                       *)
LEMMA SendKeeps ==
    ASSUME IInv, NEW a \in Admins, SendCreate(a)
    PROVE  IInv'
<1> DEFINE r == call[a].refund
           c == [call[a] EXCEPT !.op = "await"]
<1>1. /\ UNCHANGED <<ret, shelf, refund, told, crashes>>
      /\ call[a].op = "send" /\ remote' = [remote EXCEPT ![r] = "sent"] /\ call' = [call EXCEPT ![a] = c]
      /\ MoneyTyped /\ RowsFit /\ OneRow /\ CallsFit /\ SendersAlone /\ ClosedIsPaidOut
      /\ BooksFitThePayment
  BY DEF returnVars, IInv, MoneyInv, SendCreate, At, Goto, Become
<1>2. r \in Refunds /\ refund[r].status # "NONE" /\ remote[r] = "none"
  BY <1>1 DEF CallsFit, CallFits
<1>3. c \in Call /\ c.op = "await" /\ c.refund = r
  BY <1>1 DEF MoneyTyped, Call
<1> HIDE DEF r, c
<1>4. /\ \A g \in Refunds : remote'[g] = IF g = r THEN "sent" ELSE remote[g]
      /\ \A b \in Admins : call'[b] = IF b = a THEN c ELSE call[b]
      /\ MoneyTyped'
  BY <1>1, <1>2, <1>3 DEF MoneyTyped
<1>5. CallsFit'
  <2> SUFFICES ASSUME NEW b \in Admins PROVE CallFits(call'[b], refund', remote')
    BY DEF CallsFit
  <2>1. CASE b = a
    BY <1>1, <1>2, <1>3, <1>4, <2>1 DEF CallFits
  <2>2. CASE b # a
    <3>1. CallFits(call[b], refund, remote) /\ call'[b] = call[b]
      BY <1>1, <1>4, <2>2 DEF CallsFit
    <3>2. call[b].op = "send" => call[b].refund # r
      BY <1>1, <2>2 DEF SendersAlone, r
    <3> QED
      BY <1>1, <1>2, <1>4, <3>1, <3>2 DEF CallFits
  <2> QED
    BY <2>1, <2>2
<1>6. SendersAlone'
  BY <1>1, <1>3, <1>4 DEF SendersAlone
<1>7. RowsFit' /\ ClosedIsPaidOut'
  <2>1. RowsFit'
    BY <1>1, <1>2, <1>4 DEF RowsFit
  <2>2. \A f \in Refunds : remote[f] = "processed" => remote'[f] = "processed"
    BY <1>2, <1>4
  <2>3. \A t \in Returns : PaidOut(t) => PaidOut(t)'
    BY <1>1, <2>2 DEF PaidOut
  <2> QED
    BY <1>1, <2>1, <2>3 DEF ClosedIsPaidOut
<1>8. OneRow' /\ BooksFitThePayment'
  BY <1>1 DEF OneRow, BooksFitThePayment, Sum, Counted, Money
<1>9. ReturnInv'
  <2>1. \A t : Live(t)' = Live(t) /\ \A l : EntriesOf(t, l)' = EntriesOf(t, l)
    BY <1>1 DEF Live, EntriesOf
  <2> QED
    BY <1>1, <2>1 DEF IInv, ReturnInv, ReturnsTypeOK, NewIsEmpty, ReturnsFitTheOrder, RestockedOnce,
       ListsLinesOnce
<1> QED
  BY <1>4, <1>5, <1>6, <1>7, <1>8, <1>9 DEF IInv, MoneyInv

(* What a step may do to the rows of the returns and the refunds. *)
RowsMove ==
    /\ \A f \in Refunds :
          /\ refund'[f].ret = refund[f].ret /\ refund'[f].amount = refund[f].amount
          /\ refund'[f].status = "NONE" <=> refund[f].status = "NONE"
          /\ refund[f].failed => refund'[f].failed
          /\ refund'[f].status \in {"UNKNOWN", "FAILED"} => refund'[f].failed
          /\ refund'[f].status = "SUCCEEDED" => ret'[refund[f].ret].status = "COMPLETED"
    /\ \A t \in Returns :
          /\ ret[t].status \in Paid => ret'[t].status \in Paid
          /\ ret'[t].status = "COMPLETED" => ret[t].status = "COMPLETED" \/ PaidOut(t)'
    /\ told \in SUBSET told'
    /\ UNCHANGED remote

(* As long as no attempt has failed, the rows on the books stay the same. *)
LEMMA BooksStay ==
    ASSUME MoneyInv, MoneyTyped', RowsMove
    PROVE  BooksFitThePayment'
<1> SUFFICES ASSUME \A f \in Refunds : ~ refund'[f].failed
             PROVE  Sum(Counted)' <= Captured
  BY DEF BooksFitThePayment
<1>1. \A f \in Refunds : ~ refund[f].failed /\ refund[f].status \notin {"UNKNOWN", "FAILED"}
                          /\ refund'[f].status \notin {"UNKNOWN", "FAILED"}
  BY DEF RowsMove, MoneyInv, RowsFit
<1>2. Counted' = Counted
  <2>1. \A f \in Refunds : refund[f].status \in RefundStatus /\ refund'[f].status \in RefundStatus
    BY DEF MoneyInv, MoneyTyped, RefundRow
  <2> QED
    BY <1>1, <2>1 DEF Counted, RowsMove, RefundStatus
<1>3. Money(refund', Counted) = Money(refund, Counted)
  <2>1. Counted \in SUBSET Refunds
    BY DEF Counted
  <2>2. \A u \in Counted \X (1 .. Captured) : refund'[u[1]].amount = refund[u[1]].amount
    BY <2>1 DEF RowsMove
  <2> QED
    BY <2>2 DEF Money
<1>4. Sum(Counted) <= Captured
  BY <1>1 DEF MoneyInv, BooksFitThePayment
<1> QED
  BY <1>2, <1>3, <1>4 DEF Sum

(* Such a step keeps what is said of the rows. *)
LEMMA RowsKeep ==
    ASSUME MoneyInv, MoneyTyped', RowsMove, CallsFit', SendersAlone'
    PROVE  MoneyInv'
<1>1. MoneyTyped /\ RowsFit /\ OneRow /\ ClosedIsPaidOut
  BY DEF MoneyInv
<1>2. RowsFit'
  <2> SUFFICES ASSUME NEW f \in Refunds
               PROVE  /\ refund'[f].status # "NONE" =>
                            refund'[f].ret \in Returns /\ ret'[refund'[f].ret].status \in Paid
                      /\ refund'[f].status = "SUCCEEDED" => ret'[refund'[f].ret].status = "COMPLETED"
                      /\ refund'[f].status \in {"UNKNOWN", "FAILED"} => refund'[f].failed
                      /\ refund'[f].amount <= Captured
                      /\ remote'[f] # "none" => refund'[f].status # "NONE"
    BY DEF RowsFit
  <2>1. /\ refund'[f].ret = refund[f].ret /\ refund'[f].amount = refund[f].amount
        /\ refund'[f].status = "NONE" <=> refund[f].status = "NONE"
        /\ refund'[f].status \in {"UNKNOWN", "FAILED"} => refund'[f].failed
        /\ refund'[f].status = "SUCCEEDED" => ret'[refund[f].ret].status = "COMPLETED"
        /\ remote' = remote
        /\ \A t \in Returns : ret[t].status \in Paid => ret'[t].status \in Paid
    BY DEF RowsMove
  <2>2. /\ refund[f].status # "NONE" => refund[f].ret \in Returns /\ ret[refund[f].ret].status \in Paid
        /\ refund[f].amount <= Captured
        /\ remote[f] # "none" => refund[f].status # "NONE"
    BY <1>1 DEF RowsFit
  <2> QED
    BY <2>1, <2>2
<1>3. OneRow'
  BY <1>1 DEF OneRow, RowsMove
<1>4. ClosedIsPaidOut'
  <2> SUFFICES ASSUME NEW t \in Returns, ret'[t].status = "COMPLETED"
               PROVE  PaidOut(t)'
    BY DEF ClosedIsPaidOut
  <2>1. CASE ret[t].status = "COMPLETED"
    <3>1. PICK f \in Refunds : /\ refund[f].status # "NONE" /\ refund[f].ret = t
                               /\ remote[f] = "processed" /\ <<f, "SUCCEEDED">> \in told
      BY <1>1, <2>1 DEF ClosedIsPaidOut, PaidOut
    <3>2. /\ refund'[f].status # "NONE" /\ refund'[f].ret = t
          /\ remote'[f] = "processed" /\ <<f, "SUCCEEDED">> \in told'
      BY <3>1 DEF RowsMove
    <3> QED
      BY <3>2 DEF PaidOut
  <2>2. CASE ret[t].status # "COMPLETED"
    BY <2>2 DEF RowsMove
  <2> QED
    BY <2>1, <2>2
<1>5. BooksFitThePayment'
  BY BooksStay
<1> QED
  BY <1>2, <1>3, <1>4, <1>5 DEF MoneyInv

(* The calls stay as they are when one of them ends. *)
LEMMA CallsKeep ==
    ASSUME MoneyInv, NEW a \in Admins, call' = [call EXCEPT ![a] = Idle], UNCHANGED remote,
           \A f \in Refunds : refund[f].status # "NONE" => refund'[f].status # "NONE"
    PROVE  CallsFit' /\ SendersAlone' /\ call' \in [Admins -> Call]
<1>1. Idle \in Call /\ Idle.op = "idle"
  BY DEF Idle, Call, Verdicts
<1>2. /\ call \in [Admins -> Call] /\ CallsFit /\ SendersAlone
      /\ \A b \in Admins : call'[b] = IF b = a THEN Idle ELSE call[b]
  BY DEF MoneyInv, MoneyTyped
<1>3. CallsFit'
  BY <1>1, <1>2 DEF CallsFit, CallFits
<1> QED
  BY <1>1, <1>2, <1>3 DEF SendersAlone

(* A step of a return is not about one whose refund has begun. *)
LEMMA ReturnStepSpares ==
    ASSUME ReturnInv, ReturnStep
    PROVE  \A t \in Returns : \/ ret'[t].status = ret[t].status
                              \/ ret[t].status \notin Paid /\ ret'[t].status \notin Paid
<1>1. ret \in [Returns -> ReturnRow]
  BY DEF ReturnInv, ReturnsTypeOK
<1>2. PICK t \in Returns :
        \/ \E items \in Requests : RequestReturn(t, items)
        \/ \E from \in {Undecided, {"REQUESTED"}, {"APPROVED"}, {"APPROVED", "IN_TRANSIT"}} :
             \E to \in {"CANCELLED", "UNDER_REVIEW", "APPROVED", "REJECTED", "IN_TRANSIT", "RECEIVED"} :
               Transition(t, from, to)
        \/ \E says \in [Entries(t) -> 0 .. 2] :
              Inspect(t, [s \in Slots |-> IF s \in Entries(t) THEN says[s] ELSE 0])
  BY DEF ReturnStep, CancelReturn, Review, Approve, Reject, MarkInTransit, MarkReceived
<1>3. ASSUME NEW items \in Requests, RequestReturn(t, items)
      PROVE  /\ ret[t].status \notin Paid /\ ret'[t].status \notin Paid
             /\ \A v \in Returns : v # t => ret'[v] = ret[v]
  BY <1>1, <1>3 DEF RequestReturn, Paid
<1>4. ASSUME NEW from \in {Undecided, {"REQUESTED"}, {"APPROVED"}, {"APPROVED", "IN_TRANSIT"}},
             NEW to \in {"CANCELLED", "UNDER_REVIEW", "APPROVED", "REJECTED", "IN_TRANSIT", "RECEIVED"},
             Transition(t, from, to)
      PROVE  /\ ret[t].status \notin Paid /\ ret'[t].status \notin Paid
             /\ \A v \in Returns : v # t => ret'[v] = ret[v]
  <2>1. ret[t].status \in from /\ ret' = [ret EXCEPT ![t].status = to]
    BY <1>4 DEF Transition
  <2>2. from \cap Paid = {} /\ to \notin Paid
    BY DEF Undecided, Paid
  <2>3. ret'[t].status = to /\ \A v \in Returns : v # t => ret'[v] = ret[v]
    BY <1>1, <2>1 DEF ReturnRow
  <2> QED
    BY <2>1, <2>2, <2>3
<1>5. ASSUME NEW says \in [Entries(t) -> 0 .. 2],
             Inspect(t, [s \in Slots |-> IF s \in Entries(t) THEN says[s] ELSE 0])
      PROVE  /\ ret[t].status \notin Paid /\ ret'[t].status \notin Paid
             /\ \A v \in Returns : v # t => ret'[v] = ret[v]
  BY <1>1, <1>5 DEF Inspect, Paid
<1> QED
  BY <1>2, <1>3, <1>4, <1>5

(* A step of the returns leaves the money alone. *)
LEMMA ReturnsMove ==
    ASSUME IInv, ReturnStep, UNCHANGED <<moneyVars, call, crashes>>
    PROVE  IInv'
<1>1. /\ UNCHANGED <<refund, remote, told, call, crashes>> /\ ReturnInv /\ MoneyInv
      /\ MoneyTyped /\ CallsFit /\ SendersAlone /\ ClosedIsPaidOut /\ RowsFit
  BY DEF moneyVars, IInv, MoneyInv
<1>2. ReturnInv'
  BY <1>1, ReturnStepKeeps
<1>3. MoneyTyped' /\ CallsFit' /\ SendersAlone'
  BY <1>1 DEF MoneyTyped, CallsFit, SendersAlone
<1>4. \A t \in Returns : /\ ret[t].status \in Paid => ret'[t].status = ret[t].status
                         /\ ret'[t].status = "COMPLETED" => ret[t].status = "COMPLETED"
  BY <1>1, ReturnStepSpares DEF Paid
<1>5. RowsMove
  BY <1>1, <1>4 DEF RowsMove, RowsFit
<1>6. MoneyInv'
  BY <1>1, <1>3, <1>5, RowsKeep
<1> QED
  BY <1>2, <1>6 DEF IInv

Writes(f, st, b) == refund' = [refund EXCEPT ![f].status = st, ![f].failed = b]

(* A row gets a status. *)
LEMMA StatusWritten ==
    ASSUME MoneyTyped, NEW f \in Refunds, NEW st \in RefundStatus, NEW b \in BOOLEAN,
           Writes(f, st, b)
    PROVE  /\ refund' \in [Refunds -> RefundRow]
           /\ \A g \in Refunds :
                 /\ refund'[g].ret = refund[g].ret /\ refund'[g].amount = refund[g].amount
                 /\ refund'[g].status = IF g = f THEN st ELSE refund[g].status
                 /\ refund'[g].failed = IF g = f THEN b ELSE refund[g].failed
<1> DEFINE old == refund[f]
           new == [status |-> st, ret |-> old.ret, amount |-> old.amount,
                   attempt |-> old.attempt, failed |-> b]
<1>1. refund \in [Refunds -> RefundRow] /\ old \in RefundRow
  BY DEF MoneyTyped
<1>2. new \in RefundRow
  BY <1>1 DEF RefundRow
<1>3. refund' = [refund EXCEPT ![f] = new]
  <2> DEFINE m == [refund EXCEPT ![f].status = st]
             half == [old EXCEPT !.status = st]
  <2>1. refund' = [m EXCEPT ![f].failed = b]
    BY DEF Writes
  <2>2. m = [refund EXCEPT ![f] = half]
    BY <1>1
  <2>3. new = [half EXCEPT !.failed = b]
    <3> HIDE DEF old
    <3>1. half = [status |-> st, ret |-> old.ret, amount |-> old.amount,
                  attempt |-> old.attempt, failed |-> old.failed]
      BY <1>1 DEF RefundRow
    <3> HIDE DEF half
    <3> QED
      BY <3>1
  <2> HIDE DEF new, half
  <2>4. /\ DOMAIN m = Refunds /\ m[f] = half
        /\ \A g \in Refunds : g # f => m[g] = refund[g]
    BY <1>1, <2>2
  <2> HIDE DEF m
  <2>5. refund' = [g \in Refunds |-> IF g = f THEN [m[f] EXCEPT !.failed = b] ELSE m[g]]
    BY <2>1, <2>4
  <2> QED
    BY <1>1, <2>3, <2>4, <2>5
<1>4. /\ new.ret = old.ret /\ new.amount = old.amount /\ new.status = st /\ new.failed = b
  OBVIOUS
<1> HIDE DEF new
<1>5. \A g \in Refunds : refund'[g] = IF g = f THEN new ELSE refund[g]
  BY <1>1, <1>3
<1> QED
  BY <1>1, <1>2, <1>3, <1>4, <1>5

(* PROCESSING and UNKNOWN, written whatever the status has become. *)
LEMMA MarkKeeps ==
    ASSUME IInv, NEW a \in Admins, MarkProcessing(a) \/ MarkUnknown(a)
    PROVE  IInv'
<1> DEFINE r == call[a].refund
           st == IF MarkUnknown(a) THEN "UNKNOWN" ELSE "PROCESSING"
           b == IF MarkUnknown(a) THEN TRUE ELSE refund[r].failed
<1>1. /\ UNCHANGED <<ret, shelf, remote, told, crashes>> /\ call' = [call EXCEPT ![a] = Idle]
      /\ MoneyInv /\ MoneyTyped /\ CallsFit /\ SendersAlone /\ RowsFit /\ ReturnInv
  BY DEF returnVars, IInv, MoneyInv, MarkProcessing, MarkUnknown, Become
<1>2. r \in Refunds /\ refund[r].status # "NONE" /\ refund[r] \in RefundRow
  BY <1>1 DEF CallsFit, CallFits, MarkProcessing, MarkUnknown, At, MoneyTyped
<1>3. Writes(r, st, b)
  <2>1. CASE MarkUnknown(a)
    BY <2>1 DEF MarkUnknown, Writes
  <2>2. CASE ~ MarkUnknown(a)
    <3>1. refund' = [refund EXCEPT ![r].status = "PROCESSING"]
      BY <2>2 DEF MarkProcessing
    <3> HIDE DEF r
    <3>2. [refund EXCEPT ![r].status = "PROCESSING"]
            = [refund EXCEPT ![r].status = "PROCESSING", ![r].failed = refund[r].failed]
      BY <1>1, <1>2 DEF MoneyTyped, RefundRow
    <3> QED
      BY <2>2, <3>1, <3>2 DEF Writes
  <2> QED
    BY <2>1, <2>2
<1>4. st \in {"UNKNOWN", "PROCESSING"} /\ b \in BOOLEAN /\ (st = "UNKNOWN" => b) /\ (refund[r].failed => b)
  BY <1>2 DEF RefundRow
<1> HIDE DEF st, b, r
<1>5. /\ refund' \in [Refunds -> RefundRow]
      /\ \A g \in Refunds :
            /\ refund'[g].ret = refund[g].ret /\ refund'[g].amount = refund[g].amount
            /\ refund'[g].status = IF g = r THEN st ELSE refund[g].status
            /\ refund'[g].failed = IF g = r THEN b ELSE refund[g].failed
  <2>1. st \in RefundStatus
    BY <1>4 DEF RefundStatus
  <2> QED
    BY <1>1, <1>2, <1>3, <1>4, <2>1, StatusWritten
<1>6. RowsMove
  <2>1. \A f \in Refunds :
          /\ refund'[f].ret = refund[f].ret /\ refund'[f].amount = refund[f].amount
          /\ refund'[f].status = "NONE" <=> refund[f].status = "NONE"
          /\ refund[f].failed => refund'[f].failed
          /\ refund'[f].status \in {"UNKNOWN", "FAILED"} => refund'[f].failed
          /\ refund'[f].status = "SUCCEEDED" => ret'[refund[f].ret].status = "COMPLETED"
    <3> TAKE f \in Refunds
    <3>1. CASE f = r
      BY <1>2, <1>4, <1>5, <3>1
    <3>2. CASE f # r
      BY <1>1, <1>5, <3>2 DEF RowsFit
    <3> QED
      BY <3>1, <3>2
  <2> QED
    BY <1>1, <2>1 DEF RowsMove
<1>7. CallsFit' /\ SendersAlone' /\ call' \in [Admins -> Call]
  <2>1. \A f \in Refunds : refund[f].status # "NONE" => refund'[f].status # "NONE"
    BY <1>6 DEF RowsMove
  <2> QED
    BY <1>1, <2>1, CallsKeep
<1>8. MoneyTyped'
  BY <1>1, <1>5, <1>7 DEF MoneyTyped
<1>9. MoneyInv'
  BY <1>1, <1>6, <1>7, <1>8, RowsKeep
<1>10. ReturnInv'
  <2>1. \A t : Live(t)' = Live(t) /\ \A l : EntriesOf(t, l)' = EntriesOf(t, l)
    BY <1>1 DEF Live, EntriesOf
  <2> QED
    BY <1>1, <2>1 DEF ReturnInv, ReturnsTypeOK, NewIsEmpty, ReturnsFitTheOrder, RestockedOnce,
       ListsLinesOnce
<1> QED
  BY <1>9, <1>10 DEF IInv

(* FAILED: with a reason, and only from an open status. *)
LEMMA FailKeeps ==
    ASSUME IInv, NEW a \in Admins, MarkFailed(a)
    PROVE  IInv'
<1> DEFINE r == call[a].refund
<1>1. /\ UNCHANGED <<ret, shelf, remote, crashes>> /\ call' = [call EXCEPT ![a] = Idle]
      /\ MoneyInv /\ MoneyTyped /\ CallsFit /\ SendersAlone /\ RowsFit /\ ReturnInv
      /\ Resolve(r, "FAILED")
  BY DEF returnVars, IInv, MoneyInv, MarkFailed, Become
<1>2. r \in Refunds /\ refund[r].status # "NONE" /\ refund[r] \in RefundRow
  BY <1>1 DEF CallsFit, CallFits, MarkFailed, At, MoneyTyped
<1> HIDE DEF r
<1>3. /\ refund' \in [Refunds -> RefundRow] /\ told' \in SUBSET (Refunds \X {"SUCCEEDED", "FAILED"})
      /\ told \in SUBSET told'
      /\ \A f \in Refunds :
          /\ refund'[f].ret = refund[f].ret /\ refund'[f].amount = refund[f].amount
          /\ refund'[f].status = "NONE" <=> refund[f].status = "NONE"
          /\ refund[f].failed => refund'[f].failed
          /\ refund'[f].status \in {"UNKNOWN", "FAILED"} => refund'[f].failed
          /\ refund'[f].status = "SUCCEEDED" => ret'[refund[f].ret].status = "COMPLETED"
  <2>1. CASE UNCHANGED <<refund, told>>
    BY <1>1, <2>1 DEF MoneyTyped, RowsFit
  <2>2. CASE /\ Writes(r, "FAILED", TRUE)
             /\ told' = told \cup {<<r, "FAILED">>}
    <3>1. /\ refund' \in [Refunds -> RefundRow]
          /\ \A g \in Refunds :
                /\ refund'[g].ret = refund[g].ret /\ refund'[g].amount = refund[g].amount
                /\ refund'[g].status = IF g = r THEN "FAILED" ELSE refund[g].status
                /\ refund'[g].failed = IF g = r THEN TRUE ELSE refund[g].failed
      <4>1. "FAILED" \in RefundStatus /\ TRUE \in BOOLEAN
        BY DEF RefundStatus
      <4> QED
        BY <1>1, <1>2, <2>2, <4>1, StatusWritten
    <3>2. told' \in SUBSET (Refunds \X {"SUCCEEDED", "FAILED"}) /\ told \in SUBSET told'
      BY <1>1, <1>2, <2>2 DEF MoneyTyped
    <3>3. ASSUME NEW f \in Refunds
          PROVE  /\ refund'[f].status = "NONE" <=> refund[f].status = "NONE"
                 /\ refund[f].failed => refund'[f].failed
                 /\ refund'[f].status \in {"UNKNOWN", "FAILED"} => refund'[f].failed
                 /\ refund'[f].status = "SUCCEEDED" => ret'[refund[f].ret].status = "COMPLETED"
      <4>1. CASE f = r
        BY <1>2, <3>1, <4>1
      <4>2. CASE f # r
        <5>1. /\ refund[f].status = "SUCCEEDED" => ret[refund[f].ret].status = "COMPLETED"
              /\ refund[f].status \in {"UNKNOWN", "FAILED"} => refund[f].failed
              /\ ret' = ret
          BY <1>1 DEF RowsFit
        <5>2. refund'[f].status = refund[f].status /\ refund'[f].failed = refund[f].failed
          BY <3>1, <4>2
        <5> QED
          BY <5>1, <5>2
      <4> QED
        BY <4>1, <4>2
    <3> QED
      BY <3>1, <3>2, <3>3
  <2> QED
    <3>1. (refund[r].failed \/ "FAILED" = "FAILED") = TRUE
      OBVIOUS
    <3> QED
      BY <1>1, <2>1, <2>2, <3>1 DEF Resolve, Writes
<1>6. RowsMove
  BY <1>1, <1>3 DEF RowsMove
<1>7. CallsFit' /\ SendersAlone' /\ call' \in [Admins -> Call]
  <2>1. \A f \in Refunds : refund[f].status # "NONE" => refund'[f].status # "NONE"
    BY <1>6 DEF RowsMove
  <2> QED
    BY <1>1, <2>1, CallsKeep
<1>8. MoneyTyped'
  BY <1>1, <1>3, <1>7 DEF MoneyTyped
<1>9. MoneyInv'
  BY <1>1, <1>6, <1>7, <1>8, RowsKeep
<1>10. ReturnInv'
  <2>1. \A t : Live(t)' = Live(t) /\ \A l : EntriesOf(t, l)' = EntriesOf(t, l)
    BY <1>1 DEF Live, EntriesOf
  <2> QED
    BY <1>1, <2>1 DEF ReturnInv, ReturnsTypeOK, NewIsEmpty, ReturnsFitTheOrder, RestockedOnce,
       ListsLinesOnce
<1> QED
  BY <1>9, <1>10 DEF IInv

(* SUCCEEDED: what the provider has processed closes the return with the   *)
(* refund.                                                                 *)
LEMMA SuccessKeeps ==
    ASSUME IInv, NEW a \in Admins, MarkSucceeded(a)
    PROVE  IInv'
<1>r. PICK r : r = call[a].refund
  OBVIOUS
<1>t. PICK t : t = refund[r].ret
  OBVIOUS
<1>1. /\ UNCHANGED <<shelf, remote, crashes>> /\ call' = [call EXCEPT ![a] = Idle]
      /\ MoneyInv /\ MoneyTyped /\ CallsFit /\ SendersAlone /\ RowsFit /\ ReturnInv
      /\ Resolve(r, "SUCCEEDED") /\ call[a].op = "apply" /\ call[a].verdict = "processed"
      /\ ret' = IF refund' # refund /\ ret[t].status = "REFUND_INITIATED"
                THEN [ret EXCEPT ![t].status = "COMPLETED"] ELSE ret
  BY <1>r, <1>t DEF IInv, MoneyInv, MarkSucceeded, Become, At
<1>2. r \in Refunds /\ refund[r].status # "NONE" /\ refund[r] \in RefundRow /\ remote[r] = "processed"
  BY <1>1, <1>r DEF CallsFit, CallFits, MoneyTyped
<1>3. t \in Returns /\ ret[t].status \in Paid
  BY <1>1, <1>2, <1>t DEF RowsFit
<1>4. CASE UNCHANGED <<refund, told>>
  <2>1. ret' = ret
    BY <1>1, <1>4
  <2>2. RowsMove
    BY <1>1, <1>4, <2>1 DEF RowsMove, RowsFit
  <2>3. CallsFit' /\ SendersAlone' /\ call' \in [Admins -> Call]
    BY <1>1, <1>4, CallsKeep
  <2>4. MoneyTyped'
    BY <1>1, <1>4, <2>3 DEF MoneyTyped
  <2>5. MoneyInv'
    BY <1>1, <2>2, <2>3, <2>4, RowsKeep
  <2>6. ReturnInv'
    <3>1. \A v : Live(v)' = Live(v) /\ \A l : EntriesOf(v, l)' = EntriesOf(v, l)
      BY <2>1 DEF Live, EntriesOf
    <3> QED
      BY <1>1, <2>1, <3>1 DEF ReturnInv, ReturnsTypeOK, NewIsEmpty, ReturnsFitTheOrder, RestockedOnce,
         ListsLinesOnce
  <2> QED
    BY <2>5, <2>6 DEF IInv
<1>5. CASE /\ refund[r].status \in Open
           /\ Writes(r, "SUCCEEDED", refund[r].failed)
           /\ told' = told \cup {<<r, "SUCCEEDED">>}
  <2>1. /\ refund' \in [Refunds -> RefundRow]
        /\ \A g \in Refunds :
              /\ refund'[g].ret = refund[g].ret /\ refund'[g].amount = refund[g].amount
              /\ refund'[g].status = IF g = r THEN "SUCCEEDED" ELSE refund[g].status
              /\ refund'[g].failed = IF g = r THEN refund[r].failed ELSE refund[g].failed
    <3>1. "SUCCEEDED" \in RefundStatus /\ refund[r].failed \in BOOLEAN
      BY <1>2 DEF RefundStatus, RefundRow
    <3> QED
      BY <1>1, <1>2, <1>5, <3>1, StatusWritten
  <2>2. /\ told' \in SUBSET (Refunds \X {"SUCCEEDED", "FAILED"}) /\ told \in SUBSET told'
        /\ <<r, "SUCCEEDED">> \in told'
    BY <1>1, <1>2, <1>5 DEF MoneyTyped
  <2>3. refund' # refund
    <3>1. refund'[r].status # refund[r].status
      BY <1>2, <1>5, <2>1 DEF Open
    <3> QED
      BY <3>1
  <2>4. /\ ReturnInv' /\ ret'[t].status = "COMPLETED"
        /\ \A v \in Returns : v # t => ret'[v].status = ret[v].status
    <3>1. CASE ret[t].status = "REFUND_INITIATED"
      <4>1. ret' = [ret EXCEPT ![t].status = "COMPLETED"]
        BY <1>1, <2>3, <3>1
      <4>2. Live(t) /\ "COMPLETED" \in ReturnStatus \ {"NONE"} /\ ret[t].status # "NONE"
        BY <3>1 DEF Live, ReturnStatus
      <4>3. ReturnInv'
        BY <1>1, <1>3, <4>1, <4>2, StatusMoves
      <4>4. /\ ret'[t].status = "COMPLETED"
            /\ \A v \in Returns : v # t => ret'[v].status = ret[v].status
        <5>1. ret \in [Returns -> ReturnRow]
          BY <1>1 DEF ReturnInv, ReturnsTypeOK
        <5> QED
          BY <1>3, <4>1, <5>1 DEF ReturnRow
      <4> QED
        BY <4>3, <4>4
    <3>2. CASE ret[t].status = "COMPLETED"
      <4>1. ret' = ret
        BY <1>1, <3>2
      <4>2. \A v : Live(v)' = Live(v) /\ \A l : EntriesOf(v, l)' = EntriesOf(v, l)
        BY <4>1 DEF Live, EntriesOf
      <4>3. ReturnInv'
        BY <1>1, <4>1, <4>2 DEF ReturnInv, ReturnsTypeOK, NewIsEmpty, ReturnsFitTheOrder, RestockedOnce,
           ListsLinesOnce
      <4> QED
        BY <3>2, <4>1, <4>3
    <3> QED
      BY <1>3, <3>1, <3>2 DEF Paid
  <2>5. PaidOut(t)'
    <3>1. refund'[r].status # "NONE" /\ refund'[r].ret = t /\ remote'[r] = "processed"
      BY <1>1, <1>2, <1>t, <2>1
    <3> QED
      BY <1>2, <2>2, <3>1 DEF PaidOut
  <2>6. \A f \in Refunds :
          /\ refund'[f].ret = refund[f].ret /\ refund'[f].amount = refund[f].amount
          /\ refund'[f].status = "NONE" <=> refund[f].status = "NONE"
          /\ refund[f].failed => refund'[f].failed
          /\ refund'[f].status \in {"UNKNOWN", "FAILED"} => refund'[f].failed
          /\ refund'[f].status = "SUCCEEDED" => ret'[refund[f].ret].status = "COMPLETED"
    <3> TAKE f \in Refunds
    <3>1. CASE f = r
      BY <1>2, <1>t, <2>1, <2>4, <3>1
    <3>2. CASE f # r
      <4>1. refund[f].status = "SUCCEEDED" =>
               refund[f].ret \in Returns /\ ret[refund[f].ret].status = "COMPLETED"
        BY <1>1 DEF RowsFit
      <4>2. refund[f].status = "SUCCEEDED" => ret'[refund[f].ret].status = "COMPLETED"
        BY <2>4, <4>1
      <4>3. refund[f].status \in {"UNKNOWN", "FAILED"} => refund[f].failed
        BY <1>1 DEF RowsFit
      <4> QED
        BY <2>1, <3>2, <4>2, <4>3
    <3> QED
      BY <3>1, <3>2
  <2>7. \A v \in Returns : /\ ret[v].status \in Paid => ret'[v].status \in Paid
                           /\ ret'[v].status = "COMPLETED" => ret[v].status = "COMPLETED" \/ PaidOut(v)'
    <3> TAKE v \in Returns
    <3>1. CASE v = t
      BY <2>4, <2>5, <3>1 DEF Paid
    <3>2. CASE v # t
      BY <2>4, <3>2
    <3> QED
      BY <3>1, <3>2
  <2>8. RowsMove
    BY <1>1, <2>2, <2>6, <2>7 DEF RowsMove
  <2>9. CallsFit' /\ SendersAlone' /\ call' \in [Admins -> Call]
    <3>1. \A f \in Refunds : refund[f].status # "NONE" => refund'[f].status # "NONE"
      BY <2>6
    <3> QED
      BY <1>1, <3>1, CallsKeep
  <2>10. MoneyTyped'
    BY <1>1, <2>1, <2>2, <2>9 DEF MoneyTyped
  <2>11. MoneyInv'
    BY <1>1, <2>8, <2>9, <2>10, RowsKeep
  <2> QED
    BY <2>4, <2>11 DEF IInv
<1> QED
  <2>1. (refund[r].failed \/ "SUCCEEDED" = "FAILED") = refund[r].failed
    BY <1>2 DEF RefundRow
  <2> QED
    BY <1>1, <1>4, <1>5, <2>1 DEF Resolve, Writes

Creates(a, t, f, q, n, c) ==
    /\ q = Capped(t) /\ q > 0 /\ n \in Nat
    /\ ret[t].status = "REFUND_PENDING" /\ refund[f].status = "NONE"
    /\ ret' = [ret EXCEPT ![t].status = "REFUND_INITIATED"]
    /\ refund' = [refund EXCEPT ![f] = [status |-> "PENDING", ret |-> t, amount |-> q,
                                       attempt |-> n, failed |-> FALSE]]
    /\ c \in Call /\ c.op = "send" /\ c.refund = f /\ call' = [call EXCEPT ![a] = c]
    /\ UNCHANGED <<shelf, remote, told, crashes>>

(* A refund is created: it takes no more than what is left, and the return *)
(* moves on, so that it has no other.                                      *)
LEMMA CreateKeeps ==
    ASSUME IInv, NEW a \in Admins, NEW t \in Returns, NEW f \in Refunds, NEW q, NEW n, NEW c,
           Creates(a, t, f, q, n, c)
    PROVE  IInv'
<1> USE DEF Creates
<1> DEFINE row == [status |-> "PENDING", ret |-> t, amount |-> q, attempt |-> n, failed |-> FALSE]
<1>1. /\ UNCHANGED <<shelf, remote, told, crashes>>
      /\ MoneyTyped /\ CallsFit /\ SendersAlone /\ RowsFit /\ OneRow /\ ClosedIsPaidOut
      /\ BooksFitThePayment /\ ReturnInv
  BY DEF IInv, MoneyInv
<1>2. Sum(Counted) \in Nat /\ Captured \in Nat /\ Counted \in SUBSET Refunds
  BY MoneyIsFinite, CapturedIsNat DEF Sum, Counted
<1>3. q \in Nat /\ q <= Captured - Sum(Counted)
  <2>1. Wanted(t) \in Nat /\ RefundableBalance = Captured - Sum(Counted)
    BY WantedIsNat DEF RefundableBalance
  <2>2. q = IF Wanted(t) > RefundableBalance THEN RefundableBalance ELSE Wanted(t)
    BY DEF Capped
  <2> QED
    BY <1>2, <2>1, <2>2
<1>4. row \in RefundRow /\ row.status = "PENDING" /\ row.ret = t /\ row.amount = q /\ row.failed = FALSE
  BY <1>3 DEF RefundRow, RefundStatus
<1> HIDE DEF row
<1>5. /\ \A g \in Refunds : refund'[g] = IF g = f THEN row ELSE refund[g]
      /\ \A b \in Admins : call'[b] = IF b = a THEN c ELSE call[b]
      /\ MoneyTyped'
  BY <1>1, <1>4 DEF MoneyTyped, row
<1>6. remote[f] = "none" /\ \A g \in Refunds : refund[g].status # "NONE" => refund[g].ret # t
  BY <1>1 DEF RowsFit, Paid
<1>7. /\ ReturnInv' /\ ret'[t].status = "REFUND_INITIATED"
      /\ \A v \in Returns : v # t => ret'[v].status = ret[v].status
  <2>1. Live(t) /\ "REFUND_INITIATED" \in ReturnStatus \ {"NONE"}
    BY DEF Live, ReturnStatus
  <2>2. ReturnInv'
    BY <1>1, <2>1, StatusMoves
  <2>3. ret \in [Returns -> ReturnRow]
    BY <1>1 DEF ReturnInv, ReturnsTypeOK
  <2> QED
    BY <2>2, <2>3 DEF ReturnRow
<1>8. CallsFit'
  <2> SUFFICES ASSUME NEW b \in Admins PROVE CallFits(call'[b], refund', remote')
    BY DEF CallsFit
  <2>1. CASE b = a
    BY <1>1, <1>4, <1>5, <1>6, <2>1 DEF CallFits
  <2>2. CASE b # a
    <3>1. CallFits(call[b], refund, remote) /\ call'[b] = call[b]
      BY <1>1, <1>5, <2>2 DEF CallsFit
    <3>2. \A g \in Refunds : refund[g].status # "NONE" => refund'[g].status # "NONE"
      BY <1>4, <1>5
    <3> QED
      BY <1>1, <3>1, <3>2 DEF CallFits
  <2> QED
    BY <2>1, <2>2
<1>9. SendersAlone'
  <2>1. \A b \in Admins : call[b].op = "send" => call[b].refund # f
    BY <1>1 DEF CallsFit, CallFits
  <2> QED
    BY <1>1, <1>5, <2>1 DEF SendersAlone
<1>10. RowsFit'
  <2> SUFFICES ASSUME NEW g \in Refunds
               PROVE  /\ refund'[g].status # "NONE" =>
                            refund'[g].ret \in Returns /\ ret'[refund'[g].ret].status \in Paid
                      /\ refund'[g].status = "SUCCEEDED" => ret'[refund'[g].ret].status = "COMPLETED"
                      /\ refund'[g].status \in {"UNKNOWN", "FAILED"} => refund'[g].failed
                      /\ refund'[g].amount <= Captured
                      /\ remote'[g] # "none" => refund'[g].status # "NONE"
    BY DEF RowsFit
  <2>1. CASE g = f
    BY <1>1, <1>2, <1>3, <1>4, <1>5, <1>6, <1>7, <2>1 DEF Paid
  <2>2. CASE g # f
    <3>1. /\ refund[g].status # "NONE" => refund[g].ret \in Returns /\ ret[refund[g].ret].status \in Paid
          /\ refund[g].status = "SUCCEEDED" => ret[refund[g].ret].status = "COMPLETED"
          /\ refund[g].status \in {"UNKNOWN", "FAILED"} => refund[g].failed
          /\ refund[g].amount <= Captured
          /\ remote[g] # "none" => refund[g].status # "NONE"
      BY <1>1 DEF RowsFit
    <3>2. refund[g].status # "NONE" => ret'[refund[g].ret].status = ret[refund[g].ret].status
      BY <1>6, <1>7, <3>1
    <3>3. refund'[g] = refund[g] /\ remote'[g] = remote[g]
      BY <1>1, <1>5, <2>2
    <3> QED
      BY <3>1, <3>2, <3>3
  <2> QED
    BY <2>1, <2>2
<1>11. OneRow'
  BY <1>1, <1>4, <1>5, <1>6 DEF OneRow
<1>12. ClosedIsPaidOut'
  <2> SUFFICES ASSUME NEW v \in Returns, ret'[v].status = "COMPLETED" PROVE PaidOut(v)'
    BY DEF ClosedIsPaidOut
  <2>1. v # t /\ ret[v].status = "COMPLETED"
    BY <1>7
  <2>2. PICK g \in Refunds : /\ refund[g].status # "NONE" /\ refund[g].ret = v
                             /\ remote[g] = "processed" /\ <<g, "SUCCEEDED">> \in told
    BY <1>1, <2>1 DEF ClosedIsPaidOut, PaidOut
  <2>3. refund'[g] = refund[g]
    BY <1>5, <2>2
  <2> QED
    BY <1>1, <2>2, <2>3 DEF PaidOut
<1>13. BooksFitThePayment'
  <2> SUFFICES ASSUME \A g \in Refunds : ~ refund'[g].failed
               PROVE  Sum(Counted)' <= Captured
    BY DEF BooksFitThePayment
  <2>1. Counted' = Counted \cup {f}
    BY <1>4, <1>5 DEF Counted
  <2>2. Cardinality(Money(refund', Counted \cup {f})) <= Cardinality(Money(refund, Counted)) + q
    <3>1. refund'[f].amount = q
      BY <1>4, <1>5
    <3>2. \A g \in Counted : refund'[g].amount = refund[g].amount
      <4> f \notin Counted
        BY DEF Counted
      <4> QED
        BY <1>2, <1>5
    <3> QED
      BY <1>2, <1>3, <3>1, <3>2, MoneyOfMore
  <2>3. Cardinality(Money(refund', Counted \cup {f})) \in Nat
    BY <1>2, MoneyIsFinite
  <2> DEFINE A == Cardinality(Money(refund', Counted \cup {f}))
             B == Cardinality(Money(refund, Counted))
  <2>4. A \in Nat /\ B \in Nat /\ A <= B + q /\ q <= Captured - B
    BY <1>2, <1>3, <2>2, <2>3 DEF Sum
  <2>5. A <= Captured
    <3> HIDE DEF A, B
    <3> QED
      BY <1>2, <1>3, <2>4
  <2> QED
    BY <2>1, <2>5 DEF Sum
<1> QED
  BY <1>5, <1>7, <1>8, <1>9, <1>10, <1>11, <1>12, <1>13 DEF IInv, MoneyInv

(* The transaction of initiate(). *)
LEMMA CreateRefundKeeps ==
    ASSUME IInv, NEW a \in Admins, CreateRefund(a)
    PROVE  IInv'
<1>t. PICK t : t = call[a].ret
  OBVIOUS
<1>1. MoneyTyped /\ CallsFit /\ crashes' = crashes /\ call[a].op = "create"
  BY DEF IInv, MoneyInv, CreateRefund, At
<1>2. t \in Returns /\ call[a] \in Call
  BY <1>t, <1>1 DEF CallsFit, CallFits, MoneyTyped
<1>3. CASE call' = [call EXCEPT ![a] = Idle] /\ UNCHANGED <<ret, refund>>
  <2>1. Idle \in Call /\ Idle.op = "idle"
    BY DEF Idle, Call, Verdicts
  <2>2. CallFits(Idle, refund, remote)
    BY <2>1 DEF CallFits
  <2>3. UNCHANGED <<returnVars, moneyVars>> /\ crashes' \in 0 .. MaxCrashes
    BY <1>1, <1>3 DEF CreateRefund, returnVars, moneyVars, MoneyTyped
  <2> QED
    BY <1>3, <2>1, <2>2, <2>3, CallMoves
<1>4. ASSUME NEW f \in Refunds, refund[f].status = "NONE", Capped(t) > 0,
             ret[t].status = "REFUND_PENDING",
             ret' = [ret EXCEPT ![t].status = "REFUND_INITIATED"],
             refund' = [refund EXCEPT ![f] = [status |-> "PENDING", ret |-> t, amount |-> Capped(t),
                                              attempt |-> call[a].attempt, failed |-> FALSE]],
             call' = [call EXCEPT ![a] = [call[a] EXCEPT !.op = "send", !.refund = f]]
      PROVE  IInv'
  <2> DEFINE c == [op |-> "send", ret |-> call[a].ret, refund |-> f, attempt |-> call[a].attempt,
                   verdict |-> call[a].verdict]
             n == call[a].attempt
             q == Capped(t)
  <2>1. c = [call[a] EXCEPT !.op = "send", !.refund = f]
    <3> DEFINE h == call[a]
    <3>1. h \in Call
      BY <1>2
    <3> HIDE DEF h
    <3> DEFINE m == [h EXCEPT !.op = "send"]
    <3>2. m = [op |-> "send", ret |-> h.ret, refund |-> h.refund,
               attempt |-> h.attempt, verdict |-> h.verdict]
      BY <3>1 DEF Call
    <3> HIDE DEF m
    <3>3. [m EXCEPT !.refund = f] = [op |-> "send", ret |-> h.ret, refund |-> f,
                                     attempt |-> h.attempt, verdict |-> h.verdict]
      BY <3>2
    <3> QED
      BY <3>3 DEF h, m
  <2>2. c \in Call /\ c.op = "send" /\ c.refund = f /\ n \in Nat
    BY <1>2 DEF Call
  <2>3. call' = [call EXCEPT ![a] = c]
    BY <1>4, <2>1
  <2>4. UNCHANGED <<shelf, remote, told, crashes>>
    BY DEF CreateRefund
  <2>5. refund' = [refund EXCEPT ![f] = [status |-> "PENDING", ret |-> t, amount |-> q,
                                         attempt |-> n, failed |-> FALSE]]
    BY <1>4
  <2>6. q = Capped(t) /\ q > 0
    BY <1>4
  <2>7. Creates(a, t, f, q, n, c)
    <3> HIDE DEF c, n, q
    <3> QED
      BY <1>2, <1>4, <2>2, <2>3, <2>4, <2>5, <2>6 DEF Creates
  <2> HIDE DEF c, n, q
  <2> QED
    BY <1>2, <2>7, CreateKeeps
<1> QED
  BY <1>t, <1>3, <1>4 DEF CreateRefund, Become

(* The steps of a call that write nothing: what it remembers stays true.   *)
LEMMA ReadsKeep ==
    ASSUME IInv, NEW a \in Admins,
           \/ LookAtAttempts(a) \/ CreateAnswered(a) \/ CreateThrows(a)
           \/ LookupFinds(a) \/ LookupFindsNone(a) \/ LookupThrows(a) \/ Crash(a)
           \/ (\E t \in Returns : BeginInitiate(a, t)) \/ (\E f \in Refunds : BeginRecover(a, f))
    PROVE  IInv'
<1> DEFINE Step(c) == c \in Call /\ CallFits(c, refund, remote) /\ c.op # "send"
                      /\ call' = [call EXCEPT ![a] = c]
<1>1. /\ call[a] \in Call /\ CallFits(call[a], refund, remote)
      /\ remote \in [Refunds -> {"none", "sent"} \cup Verdicts]
      /\ UNCHANGED <<returnVars, moneyVars>>
      /\ crashes' \in 0 .. MaxCrashes
  <2>1. MoneyTyped /\ CallsFit /\ MaxCrashes \in Nat
    BY RefundsAssumption DEF IInv, MoneyInv
  <2>2. UNCHANGED <<returnVars, moneyVars>>
    BY DEF LookAtAttempts, CreateAnswered, CreateThrows, LookupFinds, LookupFindsNone, LookupThrows,
       Crash, BeginInitiate, BeginRecover
  <2>3. crashes' = crashes \/ (crashes' = crashes + 1 /\ crashes < MaxCrashes)
    BY DEF LookAtAttempts, CreateAnswered, CreateThrows, LookupFinds, LookupFindsNone, LookupThrows,
       Crash, BeginInitiate, BeginRecover
  <2>4. crashes \in 0 .. MaxCrashes
    BY <2>1 DEF MoneyTyped
  <2>5. crashes' \in 0 .. MaxCrashes
    BY <2>1, <2>3, <2>4
  <2> QED
    BY <2>1, <2>2, <2>5 DEF MoneyTyped, CallsFit
<1> DEFINE h == call[a]
<1>2. /\ h.op \in {"idle", "attempts", "create", "send", "await", "reconcile", "lookup", "apply",
                   "unknown"}
      /\ h.ret \in Returns \cup {NoReturn} /\ h.refund \in Refunds \cup {NoRefund}
      /\ h.attempt \in Nat /\ h.verdict \in Verdicts
      /\ h = [op |-> h.op, ret |-> h.ret, refund |-> h.refund, attempt |-> h.attempt,
              verdict |-> h.verdict]
  BY <1>1 DEF Call
<1>3. Idle \in Call /\ Idle.op = "idle" /\ CallFits(Idle, refund, remote)
  BY DEF Idle, Call, Verdicts, CallFits
<1>4. CASE call' = [call EXCEPT ![a] = Idle]
  <2>1. Step(Idle)
    BY <1>3, <1>4
  <2> QED
    BY <1>1, <2>1, CallMoves
<1>5. CASE \E o \in {"reconcile", "unknown"} :
              /\ h.op \in {"send", "await", "reconcile"} /\ call' = [call EXCEPT ![a] = [h EXCEPT !.op = o]]
  <2>1. PICK o \in {"reconcile", "unknown"} :
           h.op \in {"send", "await", "reconcile"} /\ call' = [call EXCEPT ![a] = [h EXCEPT !.op = o]]
    BY <1>5
  <2> DEFINE c == [op |-> o, ret |-> h.ret, refund |-> h.refund, attempt |-> h.attempt,
                   verdict |-> h.verdict]
  <2>2. c = [h EXCEPT !.op = o]
    BY <1>1 DEF Call
  <2>3. c \in Call
    BY <1>2 DEF Call
  <2>4. CallFits(c, refund, remote)
    BY <1>1, <2>1 DEF CallFits
  <2>5. c.op # "send"
    OBVIOUS
  <2>6. call' = [call EXCEPT ![a] = c]
    BY <2>1, <2>2
  <2> HIDE DEF c
  <2> QED
    BY <1>1, <2>3, <2>4, <2>5, <2>6, CallMoves
<1>6. CASE \E v \in Verdicts :
              /\ h.op \in {"await", "reconcile", "lookup"} /\ (v = "processed" => remote[h.refund] = v)
              /\ call' = [call EXCEPT ![a] = [h EXCEPT !.op = "apply", !.verdict = v]]
  <2>1. PICK v \in Verdicts :
           /\ h.op \in {"await", "reconcile", "lookup"} /\ (v = "processed" => remote[h.refund] = v)
           /\ call' = [call EXCEPT ![a] = [h EXCEPT !.op = "apply", !.verdict = v]]
    BY <1>6
  <2> DEFINE c == [op |-> "apply", ret |-> h.ret, refund |-> h.refund, attempt |-> h.attempt,
                   verdict |-> v]
             m == [h EXCEPT !.op = "apply"]
  <2>2. c = [h EXCEPT !.op = "apply", !.verdict = v]
    <3>1. m = [op |-> "apply", ret |-> h.ret, refund |-> h.refund, attempt |-> h.attempt,
               verdict |-> h.verdict]
      BY <1>1 DEF Call
    <3>2. [h EXCEPT !.op = "apply", !.verdict = v] = [m EXCEPT !.verdict = v]
      OBVIOUS
    <3> HIDE DEF m
    <3>3. c = [m EXCEPT !.verdict = v]
      BY <3>1
    <3> QED
      BY <3>2, <3>3
  <2>3. c \in Call
    BY <1>2 DEF Call
  <2>4. CallFits(c, refund, remote)
    BY <1>1, <2>1 DEF CallFits
  <2>5. c.op # "send"
    OBVIOUS
  <2>6. call' = [call EXCEPT ![a] = c]
    BY <2>1, <2>2
  <2> HIDE DEF c
  <2> QED
    BY <1>1, <2>3, <2>4, <2>5, <2>6, CallMoves
<1>7. CASE LookAtAttempts(a)
  <2> DEFINE n == Cardinality(AttemptsOf(h.ret)) + 1
             m == [h EXCEPT !.op = "create"]
             c == [op |-> "create", ret |-> h.ret, refund |-> h.refund, attempt |-> n,
                   verdict |-> h.verdict]
  <2>1. n \in Nat
    <3>1. AttemptsOf(h.ret) \in SUBSET Refunds
      BY DEF AttemptsOf
    <3> QED
      BY <3>1, RefundsAssumption, FS_Subset, FS_CardinalityType
  <2>2. c = [h EXCEPT !.op = "create", !.attempt = n]
    <3>1. m = [op |-> "create", ret |-> h.ret, refund |-> h.refund, attempt |-> h.attempt,
               verdict |-> h.verdict]
      BY <1>1 DEF Call
    <3>2. [h EXCEPT !.op = "create", !.attempt = n] = [m EXCEPT !.attempt = n]
      OBVIOUS
    <3> HIDE DEF m, n
    <3>3. c = [m EXCEPT !.attempt = n]
      BY <3>1
    <3> QED
      BY <3>2, <3>3
  <2>3. call' = [call EXCEPT ![a] = c] \/ call' = [call EXCEPT ![a] = Idle]
    BY <1>7, <2>2 DEF LookAtAttempts, Become
  <2> HIDE DEF n
  <2>4. c \in Call
    BY <1>2, <2>1 DEF Call
  <2>5. h.op = "attempts"
    BY <1>7 DEF LookAtAttempts, At
  <2>6. CallFits(c, refund, remote)
    BY <1>1, <2>5 DEF CallFits
  <2>7. c.op # "send"
    OBVIOUS
  <2> HIDE DEF c
  <2> QED
    BY <1>1, <1>4, <2>3, <2>4, <2>6, <2>7, CallMoves
<1>8. ASSUME NEW t \in Returns, BeginInitiate(a, t) PROVE IInv'
  <2> DEFINE c == [op |-> "attempts", ret |-> t, refund |-> NoRefund, attempt |-> 0,
                   verdict |-> "pending"]
  <2>1. c \in Call
    BY DEF Call, Verdicts
  <2>2. CallFits(c, refund, remote) /\ c.op # "send"
    BY DEF CallFits
  <2>3. call' = [call EXCEPT ![a] = c]
    <3> DEFINE m == [Idle EXCEPT !.op = "attempts"]
    <3>1. m = [op |-> "attempts", ret |-> NoReturn, refund |-> NoRefund, attempt |-> 0,
               verdict |-> "pending"]
      BY DEF Idle
    <3>2. [Idle EXCEPT !.op = "attempts", !.ret = t] = [m EXCEPT !.ret = t]
      OBVIOUS
    <3> HIDE DEF m
    <3>3. c = [m EXCEPT !.ret = t]
      BY <3>1
    <3> HIDE DEF c
    <3> QED
      BY <1>8, <3>2, <3>3 DEF BeginInitiate, Become
  <2> HIDE DEF c
  <2> QED
    BY <1>1, <2>1, <2>2, <2>3, CallMoves
<1>9. ASSUME NEW f \in Refunds, BeginRecover(a, f) PROVE IInv'
  <2> DEFINE c == [op |-> "lookup", ret |-> NoReturn, refund |-> f, attempt |-> 0,
                   verdict |-> "pending"]
  <2>1. c \in Call
    BY DEF Call, Verdicts
  <2>2. CallFits(c, refund, remote) /\ c.op # "send"
    BY <1>9 DEF CallFits, BeginRecover
  <2>3. call' = [call EXCEPT ![a] = c]
    <3> DEFINE m == [Idle EXCEPT !.op = "lookup"]
    <3>1. m = [op |-> "lookup", ret |-> NoReturn, refund |-> NoRefund, attempt |-> 0,
               verdict |-> "pending"]
      BY DEF Idle
    <3>2. [Idle EXCEPT !.op = "lookup", !.refund = f] = [m EXCEPT !.refund = f]
      OBVIOUS
    <3> HIDE DEF m
    <3>3. c = [m EXCEPT !.refund = f]
      BY <3>1
    <3> HIDE DEF c
    <3> QED
      BY <1>9, <3>2, <3>3 DEF BeginRecover, Become
  <2> HIDE DEF c
  <2> QED
    BY <1>1, <2>1, <2>2, <2>3, CallMoves
<1>10. CASE CreateAnswered(a) \/ LookupFinds(a)
  <2>1. /\ h.op \in {"await", "reconcile", "lookup"} /\ remote[h.refund] \in Verdicts
        /\ call' = [call EXCEPT ![a] = [h EXCEPT !.op = "apply", !.verdict = remote[h.refund]]]
    BY <1>10 DEF CreateAnswered, LookupFinds, At, Hear, Become
  <2>2. PICK v \in Verdicts : v = remote[h.refund]
    BY <2>1
  <2> QED
    BY <1>6, <2>1, <2>2
<1>11. CASE LookupFindsNone(a)
  <2>1. CASE call' = [call EXCEPT ![a] = Idle]
    BY <1>4, <2>1
  <2>2. CASE h.op = "reconcile" /\ Hear(a, "failed")
    <3>1. "failed" \in Verdicts
      BY DEF Verdicts
    <3> QED
      BY <1>6, <2>2, <3>1 DEF Hear, Become
  <2> QED
    BY <1>11, <2>1, <2>2 DEF LookupFindsNone, At, Become
<1>12. CASE CreateThrows(a) \/ LookupThrows(a)
  BY <1>4, <1>5, <1>12 DEF CreateThrows, LookupThrows, At, Goto, Become
<1>13. CASE Crash(a)
  BY <1>4, <1>13 DEF Crash, Become
<1> QED
  BY <1>7, <1>8, <1>9, <1>10, <1>11, <1>12, <1>13

(* The provider. *)
LEMMA ProviderKeeps ==
    ASSUME IInv, NEW f \in Refunds, Arrive(f) \/ Settle(f)
    PROVE  IInv'
<1>1. UNCHANGED <<returnVars, refund, told, call, crashes>> /\ remote[f] \in {"sent", "pending"}
  BY DEF Arrive, Settle
<1>2. PICK v \in Verdicts \cup {"none"} : remote' = [remote EXCEPT ![f] = v]
  BY DEF Arrive, Settle, Verdicts
<1> QED
  BY <1>1, <1>2, RemoteMoves

------------------------------------------------------------------------------
(* Every behaviour keeps the invariant: a return whose refund has begun is *)
(* REFUND_INITIATED or COMPLETED, so that it has one row and one request.  *)
THEOREM Inductive == Spec => []IInv
<1>1. Init => IInv
  <2> SUFFICES ASSUME Init PROVE IInv
    OBVIOUS
  <2>1. /\ ret = [t \in Returns |-> [status |-> "NONE", items |-> [s \in Slots |-> NoItem]]]
        /\ shelf = [l \in Lines |-> 0]
        /\ refund = [f \in Refunds |-> [status |-> "NONE", ret |-> NoReturn, amount |-> 0,
                                        attempt |-> 0, failed |-> FALSE]]
        /\ remote = [f \in Refunds |-> "none"] /\ told = {}
        /\ call = [a \in Admins |-> Idle] /\ crashes = 0
    BY DEF Init, ReturnsInit
  <2>2. NoItem \in ReturnItem /\ NoItem.line = NoLine /\ NoItem.restocked = FALSE
    <3>1. 0 \in 0 .. MaxQty /\ NoLine \in Lines \cup {NoLine} /\ FALSE \in BOOLEAN
      BY ReturnsAssumption
    <3> QED
      BY <3>1 DEF NoItem, ReturnItem
  <2>3. ReturnsTypeOK /\ NewIsEmpty
    BY <2>1, <2>2 DEF ReturnsTypeOK, NewIsEmpty, ReturnRow, ReturnStatus
  <2>4. ASSUME NEW l \in Lines, NEW T \in SUBSET Returns PROVE UnitsOf(ret, T, l) = {}
    <3>1. \A u \in T \X Slots \X (1 .. MaxQty) : ret[u[1]].items[u[2]].line # l
      BY <2>1, <2>2, ReturnsAssumption
    <3> QED
      BY <3>1 DEF UnitsOf
  <2>5. Cardinality({}) = 0
    BY FS_EmptySet
  <2>6. ReturnsFitTheOrder
    <3>1. ASSUME NEW l \in Lines
          PROVE  Cardinality(UnitsOf(ret, {t \in Returns : Live(t) /\ ListsLinesOnce(t)}, l)) <= LineQty[l]
      <4>1. UnitsOf(ret, {t \in Returns : Live(t) /\ ListsLinesOnce(t)}, l) = {}
        BY <2>4
      <4>2. LineQty[l] \in Nat
        BY ReturnsAssumption
      <4> QED
        BY <2>5, <4>1, <4>2
    <3> QED
      BY <3>1 DEF ReturnsFitTheOrder
  <2>7. RestockedOnce
    <3>1. ASSUME NEW l \in Lines
          PROVE  {u \in UnitsOf(ret, Returns, l) : ret[u[1]].items[u[2]].restocked} = {}
      BY <2>4
    <3> QED
      BY <2>1, <2>5, <3>1 DEF RestockedOnce
  <2>8. Idle \in Call /\ Idle.op = "idle"
    BY DEF Idle, Call, Verdicts
  <2>9. MoneyTyped /\ Captured \in Nat
    BY <2>1, <2>8, RefundsAssumption, CapturedIsNat DEF MoneyTyped, RefundRow, RefundStatus
  <2>10. RowsFit /\ OneRow /\ CallsFit /\ SendersAlone /\ ClosedIsPaidOut
    BY <2>1, <2>8, <2>9 DEF RowsFit, OneRow, CallsFit, CallFits, SendersAlone, ClosedIsPaidOut
  <2>11. BooksFitThePayment
    <3>1. Counted = {}
      BY <2>1 DEF Counted
    <3>2. Money(refund, {}) = {}
      BY DEF Money
    <3> QED
      BY <2>5, <2>9, <3>1, <3>2 DEF BooksFitThePayment, Sum
  <2> QED
    BY <2>3, <2>6, <2>7, <2>9, <2>10, <2>11 DEF IInv, ReturnInv, MoneyInv
<1>2. IInv /\ [Next]_vars => IInv'
  <2> SUFFICES ASSUME IInv, [Next]_vars PROVE IInv'
    OBVIOUS
  <2>1. CASE ReturnStep /\ UNCHANGED <<moneyVars, call, crashes>>
    BY <2>1, ReturnsMove
  <2>2. ASSUME NEW a \in Admins, NEW t \in Returns, BeginInitiate(a, t) PROVE IInv'
    BY <2>2, ReadsKeep
  <2>3. ASSUME NEW a \in Admins, NEW f \in Refunds, BeginRecover(a, f) PROVE IInv'
    BY <2>3, ReadsKeep
  <2>4. ASSUME NEW a \in Admins, Continue(a) \/ Crash(a) PROVE IInv'
    BY <2>4, ReadsKeep, CreateRefundKeeps, SendKeeps, SuccessKeeps, FailKeeps, MarkKeeps DEF Continue
  <2>5. ASSUME NEW f \in Refunds, Arrive(f) \/ Settle(f) PROVE IInv'
    BY <2>5, ProviderKeeps
  <2>6. CASE UNCHANGED vars
    <3>1. UNCHANGED <<ret, shelf, refund, remote, told, call, crashes>>
      BY <2>6 DEF vars
    <3>2. ReturnInv'
      <4>1. \A t : Live(t)' = Live(t) /\ \A l : EntriesOf(t, l)' = EntriesOf(t, l)
        BY <3>1 DEF Live, EntriesOf
      <4> QED
        BY <3>1, <4>1 DEF IInv, ReturnInv, ReturnsTypeOK, NewIsEmpty, ReturnsFitTheOrder,
           RestockedOnce, ListsLinesOnce
    <3>3. MoneyInv'
      <4>1. MoneyTyped' /\ RowsFit' /\ OneRow' /\ CallsFit' /\ SendersAlone'
        BY <3>1 DEF IInv, MoneyInv, MoneyTyped, RowsFit, OneRow, CallsFit, SendersAlone
      <4>2. ClosedIsPaidOut' /\ BooksFitThePayment'
        BY <3>1 DEF IInv, MoneyInv, ClosedIsPaidOut, PaidOut, BooksFitThePayment, Sum, Counted, Money
      <4> QED
        BY <4>1, <4>2 DEF MoneyInv
    <3> QED
      BY <3>2, <3>3 DEF IInv
  <2> QED
    BY <2>1, <2>2, <2>3, <2>4, <2>5, <2>6 DEF Next
<1> QED
  BY <1>1, <1>2, PTL DEF Spec

(* Every row, request and call has its type, and a call names what it is   *)
(* about: a return, or a refund that has a row.                            *)
THEOREM TypeCorrect == Spec => []TypeOK
<1>1. IInv => TypeOK
  BY DEF IInv, ReturnInv, MoneyInv, MoneyTyped, RowsFit, CallsFit, CallFits, TypeOK
<1> QED
  BY <1>1, Inductive, PTL

(* Live requests that name no line twice never want back more of it than   *)
(* was ordered (ReturnRequestService.create under its advisory lock).      *)
THEOREM RequestsFit == Spec => []ReturnsFitTheOrder
<1>1. IInv => ReturnsFitTheOrder
  BY DEF IInv, ReturnInv
<1> QED
  BY <1>1, Inductive, PTL

(* Each returned item is put back on sale at most once, and only if an     *)
(* inspection said so (the claim on restockedAt).                          *)
THEOREM ItemsGoBackOnce == Spec => []RestockedOnce
<1>1. IInv => RestockedOnce
  BY DEF IInv, ReturnInv
<1> QED
  BY <1>1, Inductive, PTL

(* However many calls are in flight, lost, repeated or given up, one       *)
(* refund of a return at most is made at the provider.                     *)
THEOREM NoSecondRefund == Spec => []OneRefundPerReturn
<1>1. IInv => OneRefundPerReturn
  <2> SUFFICES ASSUME IInv, NEW f \in Refunds, NEW g \in Refunds,
                      Moved(f), Moved(g), refund[f].ret = refund[g].ret
               PROVE  f = g
    BY DEF OneRefundPerReturn
  <2>1. refund[f].status # "NONE" /\ refund[g].status # "NONE"
    BY DEF IInv, MoneyInv, RowsFit, Moved
  <2> QED
    BY <2>1 DEF IInv, MoneyInv, OneRow
<1> QED
  BY <1>1, Inductive, PTL

(* A return is closed, and its customer told, exactly when the provider    *)
(* has processed its refund and the row says so.                           *)
THEOREM ClosedIsRefunded == Spec => []ClosedMeansRefunded
<1>1. IInv => ClosedMeansRefunded
  <2> SUFFICES ASSUME IInv PROVE ClosedMeansRefunded
    OBVIOUS
  <2>1. ASSUME NEW t \in Returns, ret[t].status = "COMPLETED"
        PROVE  \E f \in AttemptsOf(t) : remote[f] = "processed" /\ <<f, "SUCCEEDED">> \in told
    BY <2>1 DEF IInv, MoneyInv, ClosedIsPaidOut, PaidOut, AttemptsOf
  <2>2. \A f \in Refunds : refund[f].status = "SUCCEEDED" => ret[refund[f].ret].status = "COMPLETED"
    BY DEF IInv, MoneyInv, RowsFit
  <2> QED
    BY <2>1, <2>2 DEF ClosedMeansRefunded
<1> QED
  BY <1>1, Inductive, PTL

(* What the books call refunded or under way never exceeds the captured    *)
(* payment, as long as no attempt has failed (RefundCalculationService).   *)
THEOREM BooksBalance == Spec => []BooksFitThePayment
<1>1. IInv => BooksFitThePayment
  BY DEF IInv, MoneyInv
<1> QED
  BY <1>1, Inductive, PTL

------------------------------------------------------------------------------
(* The money that has moved.  A refund is made for what its return lists,  *)
(* and what is listed does not change: so the refunds that have moved are  *)
(* covered by the units of as many live returns, and those by the order.   *)

AskedFor ==
    \A f \in Refunds : refund[f].status # "NONE" => refund[f].amount <= Wanted(refund[f].ret)

UnitsHaveALine ==
    \A t \in Returns : \A s \in Slots : ret[t].items[s].line = NoLine => ret[t].items[s].qty = 0

(* What a request lists stays as it is.  A slot is filled with a line and  *)
(* a quantity, or not at all.                                              *)
LEMMA ListsStay ==
    ASSUME IInv, [Next]_vars, NEW t \in Returns
    PROVE  \A s \in Slots :
             \/ /\ ret'[t].items[s].line = ret[t].items[s].line
                /\ ret'[t].items[s].qty = ret[t].items[s].qty
             \/ /\ ret[t].status = "NONE"
                /\ ret'[t].items[s].line = NoLine => ret'[t].items[s].qty = 0
<1>1. ret \in [Returns -> ReturnRow]
  BY DEF IInv, ReturnInv, ReturnsTypeOK
<1>2. CASE \E v \in Returns : \E st : ret' = [ret EXCEPT ![v].status = st]
  BY <1>1, <1>2 DEF ReturnRow
<1>3. ASSUME NEW v \in Returns, NEW items \in Requests, RequestReturn(v, items)
      PROVE  \A s \in Slots :
             \/ /\ ret'[t].items[s].line = ret[t].items[s].line
                /\ ret'[t].items[s].qty = ret[t].items[s].qty
             \/ /\ ret[t].status = "NONE"
                /\ ret'[t].items[s].line = NoLine => ret'[t].items[s].qty = 0
  <2>1. ret' = [ret EXCEPT ![v] = [status |-> "REQUESTED", items |-> items]] /\ ret[v].status = "NONE"
    BY <1>3 DEF RequestReturn
  <2>2. \A s \in Slots : items[s].line = NoLine => items[s].qty = 0
    <3>1. \A s \in Slots : items[s] = NoItem \/ items[s].line \in Lines
      <4>1. items \in [Slots -> {NoItem} \cup [line : Lines, qty : 1 .. MaxQty, restocked : {FALSE}]]
        BY DEF Requests
      <4> QED
        BY <4>1
    <3>2. NoItem.qty = 0 /\ NoLine \notin Lines
      BY ReturnsAssumption DEF NoItem
    <3> QED
      BY <3>1, <3>2
  <2> QED
    BY <1>1, <2>1, <2>2
<1>4. ASSUME NEW v \in Returns, NEW says, Inspect(v, says)
      PROVE  \A s \in Slots : /\ ret'[t].items[s].line = ret[t].items[s].line
                              /\ ret'[t].items[s].qty = ret[t].items[s].qty
  <2>1. \A s \in Slots : ret[v].items[s] \in ReturnItem
    BY <1>1 DEF ReturnRow
  <2>2. \A s \in Slots : /\ [ret[v].items[s] EXCEPT !.restocked = @ \/ says[s] > 0].line = ret[v].items[s].line
                         /\ [ret[v].items[s] EXCEPT !.restocked = @ \/ says[s] > 0].qty = ret[v].items[s].qty
    BY <2>1 DEF ReturnItem
  <2> QED
    BY <1>1, <1>4, <2>2 DEF Inspect
<1>5. CASE ReturnStep
  BY <1>2, <1>3, <1>4, <1>5 DEF ReturnStep, CancelReturn, Review, Approve, Reject, MarkInTransit,
     MarkReceived, Transition
<1>6. CASE UNCHANGED ret
  BY <1>6
<1>7. ASSUME NEW a \in Admins, Continue(a) \/ Crash(a)
      PROVE  UNCHANGED ret \/ \E v \in Returns : \E st : ret' = [ret EXCEPT ![v].status = st]
  <2>1. CallsFit /\ RowsFit
    BY DEF IInv, MoneyInv
  <2>2. CASE CreateRefund(a)
    <3>1. At(a, "create")
      BY <2>2, Zenon DEF CreateRefund
    <3>2. call[a].ret \in Returns
      BY <2>1, <3>1 DEF At, CallsFit, CallFits
    <3>3. ret' = ret \/ ret' = [ret EXCEPT ![call[a].ret].status = "REFUND_INITIATED"]
      BY <2>2, Zenon DEF CreateRefund
    <3> QED
      BY <3>2, <3>3
  <2>3. CASE MarkSucceeded(a)
    <3>1. refund[call[a].refund].ret \in Returns
      BY <2>1, <2>3 DEF MarkSucceeded, At, CallsFit, CallFits, RowsFit
    <3> QED
      BY <2>3, <3>1 DEF MarkSucceeded
  <2>4. CASE ~ (CreateRefund(a) \/ MarkSucceeded(a))
    BY <1>7, <2>4 DEF Continue, Crash, LookAtAttempts, SendCreate, CreateAnswered, CreateThrows,
       LookupFinds, LookupFindsNone, LookupThrows, MarkFailed, MarkProcessing, MarkUnknown, returnVars
  <2> QED
    BY <2>2, <2>3, <2>4
<1> QED
  BY <1>2, <1>5, <1>6, <1>7
     DEF Next, vars, BeginInitiate, BeginRecover, Arrive, Settle, returnVars

(* A row keeps its return and its amount; a new one is made for a return   *)
(* that exists, and for no more than is wanted.                            *)
LEMMA AmountsStay ==
    ASSUME IInv, [Next]_vars, NEW f \in Refunds, refund'[f].status # "NONE"
    PROVE  \/ /\ refund[f].status # "NONE"
              /\ refund'[f].ret = refund[f].ret /\ refund'[f].amount = refund[f].amount
           \/ /\ refund'[f].ret \in Returns /\ ret[refund'[f].ret].status # "NONE"
              /\ refund'[f].amount <= Wanted(refund'[f].ret)
<1>1. MoneyTyped /\ CallsFit
  BY DEF IInv, MoneyInv
<1>2. refund \in [Refunds -> RefundRow]
  BY <1>1 DEF MoneyTyped
<1>3. CASE UNCHANGED refund
  BY <1>3
<1>4. ASSUME NEW g \in Refunds, NEW st, refund[g].status # "NONE",
             refund' = [refund EXCEPT ![g].status = st]
      PROVE  /\ refund[f].status # "NONE"
             /\ refund'[f].ret = refund[f].ret /\ refund'[f].amount = refund[f].amount
  BY <1>2, <1>4 DEF RefundRow
<1>5. ASSUME NEW g \in Refunds, NEW st, NEW b, refund[g].status # "NONE", Writes(g, st, b)
      PROVE  /\ refund[f].status # "NONE"
             /\ refund'[f].ret = refund[f].ret /\ refund'[f].amount = refund[f].amount
  BY <1>2, <1>5 DEF RefundRow, Writes
<1>6. ASSUME NEW a \in Admins, MarkSucceeded(a) \/ MarkFailed(a) \/ MarkProcessing(a) \/ MarkUnknown(a)
      PROVE  \/ UNCHANGED refund
             \/ \E g \in Refunds : /\ refund[g].status # "NONE"
                                   /\ \/ \E st : refund' = [refund EXCEPT ![g].status = st]
                                      \/ \E st, b : Writes(g, st, b)
  <2>1. call[a].refund \in Refunds /\ refund[call[a].refund].status # "NONE"
    BY <1>1, <1>6 DEF MarkSucceeded, MarkFailed, MarkProcessing, MarkUnknown, At, CallsFit, CallFits
  <2> QED
    BY <1>6, <2>1 DEF MarkSucceeded, MarkFailed, MarkProcessing, MarkUnknown, Resolve, Writes
<1>7. ASSUME NEW a \in Admins, CreateRefund(a)
      PROVE  \/ UNCHANGED refund
             \/ /\ refund[f].status # "NONE"
                /\ refund'[f].ret = refund[f].ret /\ refund'[f].amount = refund[f].amount
             \/ /\ refund'[f].ret \in Returns /\ ret[refund'[f].ret].status # "NONE"
                /\ refund'[f].amount <= Wanted(refund'[f].ret)
  <2>1. CASE UNCHANGED refund
    BY <2>1
  <2> DEFINE t == call[a].ret
  <2>2. t \in Returns
    <3>1. At(a, "create")
      BY <1>7, Zenon DEF CreateRefund
    <3> QED
      BY <1>1, <3>1 DEF At, CallsFit, CallFits
  <2>3. ASSUME NEW g \in Refunds, ret[t].status = "REFUND_PENDING",
               refund' = [refund EXCEPT ![g] = [status |-> "PENDING", ret |-> t, amount |-> Capped(t),
                                                attempt |-> call[a].attempt, failed |-> FALSE]]
        PROVE  \/ /\ refund[f].status # "NONE"
                  /\ refund'[f].ret = refund[f].ret /\ refund'[f].amount = refund[f].amount
               \/ /\ refund'[f].ret \in Returns /\ ret[refund'[f].ret].status # "NONE"
                  /\ refund'[f].amount <= Wanted(refund'[f].ret)
    <3>1. CASE f # g
      BY <1>2, <2>3, <3>1
    <3>2. CASE f = g
      <4>1. refund'[f].ret = t /\ refund'[f].amount = Capped(t)
        BY <1>2, <2>3, <3>2
      <4>2. Wanted(t) \in Nat /\ RefundableBalance \in Int
        <5> Counted \in SUBSET Refunds
          BY DEF Counted
        <5> QED
          BY WantedIsNat, CapturedIsNat, MoneyIsFinite DEF RefundableBalance, Sum
      <4>3. Capped(t) <= Wanted(t)
        BY <4>2 DEF Capped
      <4> QED
        BY <2>2, <2>3, <4>1, <4>3
    <3> QED
      BY <3>1, <3>2
  <2>4. \/ UNCHANGED refund
        \/ /\ ret[t].status = "REFUND_PENDING"
           /\ \E g \in Refunds :
                refund' = [refund EXCEPT ![g] = [status |-> "PENDING", ret |-> t, amount |-> Capped(t),
                                                 attempt |-> call[a].attempt, failed |-> FALSE]]
    <3>1. PICK u : u = t
      OBVIOUS
    <3>2. PICK F : F = {g \in Refunds : refund[g].status = "NONE"}
      OBVIOUS
    <3>3. \/ UNCHANGED refund
          \/ /\ ret[u].status = "REFUND_PENDING"
             /\ \E g \in F :
                refund' = [refund EXCEPT ![g] = [status |-> "PENDING", ret |-> u, amount |-> Capped(u),
                                                 attempt |-> call[a].attempt, failed |-> FALSE]]
      BY <1>7, <3>1, <3>2, Zenon DEF CreateRefund
    <3> QED
      BY <3>1, <3>2, <3>3
  <2> HIDE DEF t
  <2> QED
    BY <2>1, <2>3, <2>4
<1>8. ASSUME NEW a \in Admins, Continue(a) \/ Crash(a),
             ~ (CreateRefund(a) \/ MarkSucceeded(a) \/ MarkFailed(a) \/ MarkProcessing(a) \/ MarkUnknown(a))
      PROVE  UNCHANGED refund
  BY <1>8 DEF Continue, Crash, LookAtAttempts, SendCreate, CreateAnswered, CreateThrows,
     LookupFinds, LookupFindsNone, LookupThrows, moneyVars
<1>9. ASSUME NEW a \in Admins, Continue(a) \/ Crash(a)
      PROVE  \/ /\ refund[f].status # "NONE"
                /\ refund'[f].ret = refund[f].ret /\ refund'[f].amount = refund[f].amount
             \/ /\ refund'[f].ret \in Returns /\ ret[refund'[f].ret].status # "NONE"
                /\ refund'[f].amount <= Wanted(refund'[f].ret)
  <2>1. CASE MarkSucceeded(a) \/ MarkFailed(a) \/ MarkProcessing(a) \/ MarkUnknown(a)
    BY <1>3, <1>4, <1>5, <1>6, <2>1
  <2>2. CASE CreateRefund(a)
    BY <1>3, <1>7, <2>2
  <2> QED
    BY <1>3, <1>8, <1>9, <2>1, <2>2
<1>10. CASE ~ \E a \in Admins : Continue(a) \/ Crash(a)
  <2>1. \/ UNCHANGED <<moneyVars, call, crashes>>
        \/ \E v \in Admins, w \in Returns : BeginInitiate(v, w)
        \/ \E v \in Admins, g \in Refunds : BeginRecover(v, g)
        \/ \E g \in Refunds : Arrive(g) \/ Settle(g)
        \/ UNCHANGED vars
    BY <1>10, Zenon DEF Next
  <2>2. CASE UNCHANGED <<moneyVars, call, crashes>> \/ UNCHANGED vars
    BY <1>3, <2>2 DEF vars, moneyVars
  <2>3. ASSUME NEW v \in Admins, NEW w \in Returns, BeginInitiate(v, w)
        PROVE  UNCHANGED refund
    BY <2>3 DEF BeginInitiate, moneyVars
  <2>4. ASSUME NEW v \in Admins, NEW g \in Refunds, BeginRecover(v, g)
        PROVE  UNCHANGED refund
    BY <2>4 DEF BeginRecover, moneyVars
  <2>5. ASSUME NEW g \in Refunds, Arrive(g) \/ Settle(g)
        PROVE  UNCHANGED refund
    BY <2>5 DEF Arrive, Settle
  <2> QED
    BY <1>3, <2>1, <2>2, <2>3, <2>4, <2>5
<1> QED
  BY <1>9, <1>10

(* So no row ever stands for more than its return lists. *)
LEMMA AskedStays ==
    ASSUME IInv, AskedFor, UnitsHaveALine, [Next]_vars
    PROVE  AskedFor' /\ UnitsHaveALine'
<1>1. ASSUME NEW t \in Returns, ret[t].status # "NONE"
      PROVE  Wanted(t)' = Wanted(t)
  <2>1. \A s \in Slots : ret'[t].items[s].qty = ret[t].items[s].qty
    BY <1>1, ListsStay
  <2>2. {u \in Slots \X (1 .. MaxQty) : u[2] <= ret'[t].items[u[1]].qty}
          = {u \in Slots \X (1 .. MaxQty) : u[2] <= ret[t].items[u[1]].qty}
    BY <2>1
  <2> QED
    BY <2>2 DEF Wanted
<1>2. ASSUME NEW f \in Refunds, refund'[f].status # "NONE"
      PROVE  \E t \in Returns : /\ refund'[f].ret = t /\ ret[t].status # "NONE"
                                /\ refund'[f].amount <= Wanted(t)
  <2>1. CASE /\ refund[f].status # "NONE"
             /\ refund'[f].ret = refund[f].ret /\ refund'[f].amount = refund[f].amount
    <3>1. refund[f].ret \in Returns /\ ret[refund[f].ret].status # "NONE"
      BY <2>1 DEF IInv, MoneyInv, RowsFit, Paid
    <3> QED
      BY <2>1, <3>1 DEF AskedFor
  <2>2. CASE /\ refund'[f].ret \in Returns /\ ret[refund'[f].ret].status # "NONE"
             /\ refund'[f].amount <= Wanted(refund'[f].ret)
    BY <2>2
  <2> QED
    BY <1>2, <2>1, <2>2, AmountsStay
<1>3. ASSUME NEW f \in Refunds, refund'[f].status # "NONE"
      PROVE  refund'[f].amount <= Wanted(refund[f].ret)'
  <2>1. PICK t \in Returns : /\ refund'[f].ret = t /\ ret[t].status # "NONE"
                             /\ refund'[f].amount <= Wanted(t)
    BY <1>2, <1>3
  <2>2. Wanted(refund[f].ret)' = Wanted(t)'
    BY <2>1 DEF Wanted
  <2> QED
    BY <1>1, <2>1, <2>2
<1>4. UnitsHaveALine'
  BY ListsStay DEF UnitsHaveALine
<1> QED
  BY <1>3, <1>4 DEF AskedFor

(* The units of the returns that count, and the units ordered. *)
ReturnedUnits ==
    {u \in LiveOnce \X Slots \X (1 .. MaxQty) : u[3] <= ret[u[1]].items[u[2]].qty}
OrderedUnits == {u \in Lines \X (1 .. MaxOrdered) : u[2] <= LineQty[u[1]]}

(* Line by line, the live returns hold no more units than were ordered. *)
LEMMA ReturnedFitsOrdered ==
    ASSUME IInv, UnitsHaveALine
    PROVE  /\ IsFiniteSet(ReturnedUnits)
           /\ Cardinality(ReturnedUnits) <= Captured
<1> DEFINE p == [u \in ReturnedUnits |-> ret[u[1]].items[u[2]].line]
           q == [u \in OrderedUnits |-> u[1]]
<1>1. IsFiniteSet(ReturnedUnits)
  <2>1. IsFiniteSet(LiveOnce) /\ IsFiniteSet(Slots)
    BY ReturnsAssumption, FS_Subset DEF LiveOnce
  <2>2. IsFiniteSet(1 .. MaxQty)
    <3> MaxQty \in Int /\ 1 \in Int
      BY ReturnsAssumption
    <3> QED
      BY FS_Interval
  <2>3. IsFiniteSet((LiveOnce \X Slots) \X (1 .. MaxQty))
    BY <2>1, <2>2, FS_Product
  <2> DEFINE g == [u \in ReturnedUnits |-> <<<<u[1], u[2]>>, u[3]>>]
  <2>4. ReturnedUnits \subseteq LiveOnce \X Slots \X (1 .. MaxQty)
    BY DEF ReturnedUnits
  <2>5. g \in [ReturnedUnits -> (LiveOnce \X Slots) \X (1 .. MaxQty)]
    BY <2>4
  <2>6. \A u, v \in ReturnedUnits : g[u] = g[v] => u = v
    <3>1. \A u, v \in LiveOnce \X Slots \X (1 .. MaxQty) :
             <<<<u[1], u[2]>>, u[3]>> = <<<<v[1], v[2]>>, v[3]>> => u = v
      OBVIOUS
    <3> QED
      BY <2>4, <3>1
  <2> HIDE DEF g
  <2> QED
    BY <2>3, <2>5, <2>6, FitsInSmaller
<1>2. IsFiniteSet(OrderedUnits) /\ Cardinality(OrderedUnits) = Captured
  <2>1. IsFiniteSet(1 .. MaxOrdered)
    <3> MaxOrdered \in Int /\ 1 \in Int
      BY RefundsAssumption
    <3> QED
      BY FS_Interval
  <2>2. IsFiniteSet(Lines \X (1 .. MaxOrdered))
    BY <2>1, ReturnsAssumption, FS_Product
  <2> QED
    BY <2>2, FS_Subset DEF OrderedUnits, Captured
<1>3. p \in [ReturnedUnits -> Lines]
  <2>1. ASSUME NEW u \in ReturnedUnits
        PROVE  ret[u[1]].items[u[2]].line \in Lines
    <3>1. u[1] \in Returns /\ u[2] \in Slots /\ u[3] \in 1 .. MaxQty /\ u[3] <= ret[u[1]].items[u[2]].qty
      BY DEF ReturnedUnits, LiveOnce
    <3>2. ret[u[1]].items[u[2]] \in ReturnItem
      BY <3>1 DEF IInv, ReturnInv, ReturnsTypeOK, ReturnRow
    <3>3. ret[u[1]].items[u[2]].qty # 0
      BY <3>1, ReturnsAssumption
    <3> QED
      BY <3>1, <3>2, <3>3 DEF UnitsHaveALine, ReturnItem
  <2> QED
    BY <2>1
<1>4. q \in [OrderedUnits -> Lines]
  BY DEF OrderedUnits
<1>5. ASSUME NEW l \in Lines
      PROVE  Cardinality(Group(ReturnedUnits, p, l)) <= Cardinality(Group(OrderedUnits, q, l))
  <2>1. Group(ReturnedUnits, p, l) = UnitsOf(ret, LiveOnce, l)
    BY DEF Group, ReturnedUnits, UnitsOf
  <2>2. Cardinality(UnitsOf(ret, LiveOnce, l)) <= LineQty[l]
    BY DEF IInv, ReturnInv, ReturnsFitTheOrder, LiveOnce
  <2>3. LineQty[l] \in Nat /\ MaxOrdered \in Nat /\ LineQty[l] <= MaxOrdered
    BY ReturnsAssumption, RefundsAssumption
  <2> DEFINE n == LineQty[l]
             K == {k \in 1 .. MaxOrdered : k <= n}
  <2>4. IsFiniteSet(K) /\ Cardinality(K) = n
    <3> n \in Nat /\ n <= MaxOrdered
      BY <2>3
    <3> HIDE DEF n
    <3> QED
      BY <2>3, FirstUnits
  <2>5. Group(OrderedUnits, q, l) = {l} \X K
    BY DEF Group, OrderedUnits
  <2>6. Cardinality({l} \X K) = Cardinality(K)
    <3> HIDE DEF K
    <3> QED
      BY <2>4, PairsOfOne
  <2>7. Cardinality(Group(OrderedUnits, q, l)) = n
    BY <2>4, <2>5, <2>6
  <2> QED
    BY <2>1, <2>2, <2>7
<1> HIDE DEF p, q
<1> QED
  BY <1>1, <1>2, <1>3, <1>4, <1>5, CountedByGroups

(* Return by return, what has moved is covered by the units it lists. *)
LEMMA MovedFitsReturned ==
    ASSUME IInv, AskedFor, UnitsHaveALine
    PROVE  Sum({f \in Refunds : Moved(f) /\ ListsLinesOnce(refund[f].ret)}) <= Captured
<1> DEFINE S == {f \in Refunds : Moved(f) /\ ListsLinesOnce(refund[f].ret)}
           A == Money(refund, S)
           p == [a \in A |-> refund[a[1]].ret]
           q == [u \in ReturnedUnits |-> u[1]]
<1>1. ASSUME NEW f \in S
      PROVE  f \in Refunds /\ refund[f].status # "NONE" /\ refund[f].ret \in LiveOnce
  <2>1. refund[f].status # "NONE"
    BY DEF Moved, IInv, MoneyInv, RowsFit
  <2>2. refund[f].ret \in Returns /\ Live(refund[f].ret)
    BY <2>1 DEF IInv, MoneyInv, RowsFit, Paid, Live
  <2> QED
    BY <2>1, <2>2 DEF LiveOnce
<1>2. S \in SUBSET Refunds /\ LiveOnce \in SUBSET Returns
  BY DEF LiveOnce
<1>3. IsFiniteSet(A) /\ Cardinality(A) \in Nat
  <2> HIDE DEF S
  <2> QED
    BY <1>2, MoneyIsFinite
<1>4. A \subseteq S \X (1 .. Captured)
  BY DEF Money
<1> HIDE DEF S
<1>5. p \in [A -> LiveOnce]
  <2> HIDE DEF A
  <2> QED
    BY <1>1, <1>4
<1>6. q \in [ReturnedUnits -> LiveOnce]
  BY DEF ReturnedUnits
<1>7. ASSUME NEW t \in LiveOnce
      PROVE  Cardinality(Group(A, p, t)) <= Cardinality(Group(ReturnedUnits, q, t))
  <2>1. IsFiniteSet(Group(ReturnedUnits, q, t)) /\ Cardinality(Group(ReturnedUnits, q, t)) \in Nat
    BY ReturnedFitsOrdered, FS_Subset, FS_CardinalityType DEF Group
  <2>2. CASE ~ \E f \in S : refund[f].ret = t
    <3>1. Group(A, p, t) = {}
      <4> HIDE DEF A
      <4>1. \A a \in A : a[1] \in S
        BY <1>4
      <4> QED
        BY <2>2, <4>1 DEF Group
    <3>2. Cardinality(Group(A, p, t)) = 0
      BY <3>1, FS_EmptySet
    <3> HIDE DEF A, p, q
    <3> QED
      BY <2>1, <3>2
  <2>3. ASSUME NEW f \in S, refund[f].ret = t
        PROVE  Cardinality(Group(A, p, t)) <= Cardinality(Group(ReturnedUnits, q, t))
    <3>1. \A g \in S : refund[g].ret = t => g = f
      BY <1>1, <2>3 DEF IInv, MoneyInv, OneRow
    <3>2. Group(A, p, t) \in SUBSET Money(refund, {f})
      BY <2>3, <3>1 DEF Group, Money
    <3>3. refund[f].amount \in Nat /\ refund[f].amount <= Wanted(t)
      BY <1>1, <2>3 DEF IInv, MoneyInv, MoneyTyped, RefundRow, AskedFor
    <3> DEFINE n == refund[f].amount
    <3>4. Cardinality(Money(refund, {f})) <= n
      <4> f \in Refunds
        BY <1>1
      <4> QED
        BY <3>3, MoneyOfOne
    <3>5. /\ IsFiniteSet(Money(refund, {f}))
          /\ Cardinality(Group(A, p, t)) <= Cardinality(Money(refund, {f}))
          /\ Cardinality(Group(A, p, t)) \in Nat /\ Cardinality(Money(refund, {f})) \in Nat
      <4>1. {f} \in SUBSET Refunds
        BY <1>1
      <4> QED
        BY <3>2, <4>1, MoneyIsFinite, FS_Subset, FS_CardinalityType
    <3>6. Wanted(t) <= Cardinality(Group(ReturnedUnits, q, t))
      <4> DEFINE W == {u \in Slots \X (1 .. MaxQty) : u[2] <= ret[t].items[u[1]].qty}
                 h == [w \in W |-> <<t, w[1], w[2]>>]
      <4>1. h \in [W -> Group(ReturnedUnits, q, t)]
        <5> SUFFICES ASSUME NEW w \in W
                     PROVE  <<t, w[1], w[2]>> \in Group(ReturnedUnits, q, t)
          OBVIOUS
        <5>1. <<t, w[1], w[2]>> \in ReturnedUnits
          BY DEF ReturnedUnits
        <5> QED
          BY <5>1 DEF Group
      <4>2. \A v, w \in W : h[v] = h[w] => v = w
        OBVIOUS
      <4> HIDE DEF W, h, q
      <4>3. Cardinality(W) <= Cardinality(Group(ReturnedUnits, q, t))
        BY <2>1, <4>1, <4>2, FitsInSmaller
      <4> QED
        BY <4>3 DEF W, Wanted
    <3>7. Wanted(t) \in Nat
      BY WantedIsNat
    <3>8. n \in Nat /\ n <= Wanted(t)
      BY <3>3
    <3> HIDE DEF n, A, p, q
    <3> QED
      BY <2>1, <3>4, <3>5, <3>6, <3>7, <3>8
  <2> QED
    BY <2>2, <2>3
<1>8. Cardinality(A) <= Cardinality(ReturnedUnits)
  <2> HIDE DEF A, p, q
  <2> QED
    BY <1>3, <1>5, <1>6, <1>7, ReturnedFitsOrdered, CountedByGroups
<1>9. Cardinality(ReturnedUnits) \in Nat /\ Cardinality(ReturnedUnits) <= Captured /\ Captured \in Nat
  BY ReturnedFitsOrdered, CapturedIsNat, FS_CardinalityType
<1>10. Cardinality(A) <= Captured
  <2> HIDE DEF A
  <2> QED
    BY <1>3, <1>8, <1>9
<1> QED
  BY <1>10 DEF S, Sum

(* Whatever has failed, become unknown, been lost or repeated, the money   *)
(* moved at the provider for returns that name no line twice stays within  *)
(* the payment: initiate() caps a refund, but what bounds their sum is     *)
(* that no return gets a second one and the requests fit the order.        *)
THEOREM MoneyFits == Spec => []MoneyFitsThePayment
<1>1. Init => AskedFor /\ UnitsHaveALine
  BY DEF Init, ReturnsInit, NoItem, AskedFor, UnitsHaveALine
<1>2. IInv /\ AskedFor /\ UnitsHaveALine /\ [Next]_vars => (AskedFor /\ UnitsHaveALine)'
  BY AskedStays
<1>3. IInv /\ AskedFor /\ UnitsHaveALine => MoneyFitsThePayment
  BY MovedFitsReturned DEF MoneyFitsThePayment
<1> QED
  BY <1>1, <1>2, <1>3, Inductive, PTL DEF Spec

=============================================================================
