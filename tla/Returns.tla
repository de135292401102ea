------------------------------ MODULE Returns ------------------------------
(***************************************************************************)
(* Return requests of one delivered order (ReturnRequestService,           *)
(* ReturnStatusService, the eligibility rule they share) and the stock an  *)
(* inspection puts back.  Refunds.tla adds the money.                      *)
(*                                                                         *)
(* Simplifications: the order stays DELIVERED and its return window open;  *)
(* every unit costs one unit of money, so the refund of a return is the    *)
(* number of its units; a status read before a conditional update on the   *)
(* same status is one step with it, for no status ever comes back.         *)
(***************************************************************************)
EXTENDS Integers, FiniteSets

CONSTANTS
    Returns,   \* ids of ReturnRequest rows
    Lines,     \* order lines
    LineQty,   \* units ordered of each line
    Slots,     \* positions in the items list of a request
    NoLine,    \* an unused position
    MaxQty     \* bound on the quantity of one entry

ASSUME ReturnsAssumption ==
    /\ IsFiniteSet(Returns) /\ IsFiniteSet(Slots) /\ IsFiniteSet(Lines)
    /\ NoLine \notin Lines
    /\ LineQty \in [Lines -> Nat \ {0}]
    /\ MaxQty \in Nat \ {0}

VARIABLES
    ret,    \* ReturnRequest rows with their ReturnItem rows
    shelf   \* units of each line put back on sale by inspections

returnVars == <<ret, shelf>>

ReturnStatus == {"NONE", "REQUESTED", "UNDER_REVIEW", "APPROVED", "REJECTED", "CANCELLED",
                 "IN_TRANSIT", "RECEIVED", "REFUND_PENDING", "REFUND_INITIATED", "COMPLETED"}

ReturnItem == [line      : Lines \cup {NoLine},
               qty       : 0 .. MaxQty,
               restocked : BOOLEAN]    \* restockedAt is set

ReturnRow == [status : ReturnStatus, items : [Slots -> ReturnItem]]

ReturnsTypeOK ==
    /\ ret \in [Returns -> ReturnRow]
    /\ shelf \in [Lines -> Nat]

------------------------------------------------------------------------------
NoItem == [line |-> NoLine, qty |-> 0, restocked |-> FALSE]

ReturnsInit ==
    /\ ret = [t \in Returns |-> [status |-> "NONE", items |-> [s \in Slots |-> NoItem]]]
    /\ shelf = [l \in Lines |-> 0]

Live(t) == ret[t].status \notin {"NONE", "REJECTED", "CANCELLED"}

Entries(t) == {s \in Slots : ret[t].items[s].line # NoLine}
EntriesOf(t, l) == {s \in Slots : ret[t].items[s].line = l}

(* An entry of quantity q stands for q units <<t, s, 1>> .. <<t, s, q>>.    *)
UnitsOf(rows, T, l) ==
    {u \in T \X Slots \X (1 .. MaxQty) : /\ rows[u[1]].items[u[2]].line = l
                                         /\ u[3] <= rows[u[1]].items[u[2]].qty}

(* alreadyReturned of a line: what live returns list of it already. *)
Returned(l) == Cardinality(UnitsOf(ret, {t \in Returns : Live(t)}, l))

(* The item lists a client may send: one entry at least, in any combination. *)
Requests ==
    {items \in [Slots -> {NoItem} \cup [line : Lines, qty : 1 .. MaxQty, restocked : {FALSE}]] :
        \E s \in Slots : items[s] # NoItem}

(* Fault: the remaining quantity is the one read before the transaction,   *)
(* when the other requests had not been made.                              *)
RequestReturnUnlocked(t, items) ==
    /\ ret[t].status = "NONE"
    /\ \A s \in Slots : items[s].line # NoLine => items[s].qty <= LineQty[items[s].line]
    /\ ret' = [ret EXCEPT ![t] = [status |-> "REQUESTED", items |-> items]]
    /\ UNCHANGED shelf

(* create(): under the advisory lock of the order each ENTRY is compared   *)
(* with what is left of its line; the check before the transaction is the  *)
(* same on older rows and refuses nothing this one accepts at that moment. *)
RequestReturn(t, items) ==
    /\ ret[t].status = "NONE"
    /\ \A s \in Slots : items[s].line # NoLine =>
          items[s].qty <= LineQty[items[s].line] - Returned(items[s].line)
    /\ ret' = [ret EXCEPT ![t] = [status |-> "REQUESTED", items |-> items]]
    /\ UNCHANGED shelf

Transition(t, from, to) ==
    /\ ret[t].status \in from
    /\ ret' = [ret EXCEPT ![t].status = to]
    /\ UNCHANGED shelf

Undecided == {"REQUESTED", "UNDER_REVIEW"}

CancelReturn(t) == Transition(t, Undecided, "CANCELLED")
Review(t)       == Transition(t, {"REQUESTED"}, "UNDER_REVIEW")
Approve(t)      == Transition(t, Undecided, "APPROVED")
Reject(t)       == Transition(t, Undecided, "REJECTED")
MarkInTransit(t) == Transition(t, {"APPROVED"}, "IN_TRANSIT")
MarkReceived(t) == Transition(t, {"APPROVED", "IN_TRANSIT"}, "RECEIVED")

(* Fault: an inspection restocks for each entry that says so, without the claim. *)
PutBackEachTime(t, l, says) ==
    Cardinality({u \in UnitsOf(ret, {t}, l) \X (1 .. 2) : u[2] <= says[u[1][2]]})

(* inspect(): every item is inspected together; says[s] is how many of the *)
(* submitted entries say RESTOCK of item s, for an item may be listed more *)
(* than once.  The claim on restockedAt lets the first of them through.    *)
PutBack(t, l, says) ==
    Cardinality({u \in UnitsOf(ret, {t}, l) : /\ says[u[2]] > 0
                                             /\ ~ ret[t].items[u[2]].restocked})

Inspect(t, says) ==
    /\ ret[t].status = "RECEIVED"
    /\ ret' = [ret EXCEPT ![t] =
                 [status |-> "REFUND_PENDING",
                  items  |-> [s \in Slots |->
                                [ret[t].items[s] EXCEPT !.restocked = @ \/ says[s] > 0]]]]
    /\ shelf' = [l \in Lines |-> shelf[l] + PutBack(t, l, says)]

ReturnStep ==
    \E t \in Returns :
        \/ \E items \in Requests : RequestReturn(t, items)
        \/ CancelReturn(t)
        \/ Review(t)
        \/ Approve(t)
        \/ Reject(t)
        \/ MarkInTransit(t)
        \/ MarkReceived(t)
        \/ \E says \in [Entries(t) -> 0 .. 2] :
              Inspect(t, [s \in Slots |-> IF s \in Entries(t) THEN says[s] ELSE 0])

------------------------------------------------------------------------------
ListsLinesOnce(t) == \A l \in Lines : Cardinality(EntriesOf(t, l)) <= 1

(* However many requests are made, cancelled, rejected and made again, and *)
(* in whatever order, the live ones never want back more of a line than    *)
(* was ordered, among those that name no line twice: the check is made per *)
(* entry, so a request that does name one twice may pass with too much.    *)
ReturnsFitTheOrder ==
    \A l \in Lines :
        Cardinality(UnitsOf(ret, {t \in Returns : Live(t) /\ ListsLinesOnce(t)}, l)) <= LineQty[l]

(* Each returned item goes back on sale at most once, and only if an       *)
(* inspection said so: what is on the shelf of a line is exactly the items *)
(* whose restocking was claimed, however often the inspection is sent.     *)
RestockedOnce ==
    \A l \in Lines :
        shelf[l] = Cardinality({u \in UnitsOf(ret, Returns, l) : ret[u[1]].items[u[2]].restocked})
==============================================================================
