------------------------------ MODULE Refunds ------------------------------
(***************************************************************************)
(* Refunding the returns of one order (RefundService, the balance of       *)
(* RefundCalculationService) at a payment provider whose answers may be    *)
(* lost and whose lookups may fail.                                        *)
(*                                                                         *)
(* A call is an initiate() or a recover() in flight: op names the read,    *)
(* transaction or provider request it makes next.  A crash, or a database  *)
(* error in an update that nothing catches, loses it; the request it has   *)
(* sent to the provider is not lost with it.                               *)
(***************************************************************************)
EXTENDS Returns

CONSTANTS
    MaxOrdered,          \* bound on the units of a line
    Refunds,             \* ids of Refund rows, which are also the receipts
    Admins,              \* calls in flight
    NoReturn, NoRefund,
    MaxCrashes           \* bound on the calls that are cut short

ASSUME RefundsAssumption ==
    /\ IsFiniteSet(Refunds)
    /\ NoReturn \notin Returns /\ NoRefund \notin Refunds
    /\ MaxCrashes \in Nat /\ MaxOrdered \in Nat
    /\ \A l \in Lines : LineQty[l] <= MaxOrdered

VARIABLES
    refund,     \* Refund rows
    remote,     \* the create request of each receipt at the provider, and what became of it
    told,       \* outbox rows REFUND_SUCCEEDED and REFUND_FAILED
    call,       \* the calls in flight
    crashes

moneyVars == <<refund, remote, told>>
vars == <<ret, shelf, refund, remote, told, call, crashes>>

(* The payment covers every ordered unit, a return asks for its own units. *)
Captured == Cardinality({u \in Lines \X (1 .. MaxOrdered) : u[2] <= LineQty[u[1]]})
Wanted(t) == Cardinality({u \in Slots \X (1 .. MaxQty) : u[2] <= ret[t].items[u[1]].qty})

RefundStatus == {"NONE", "PENDING", "PROCESSING", "SUCCEEDED", "FAILED", "UNKNOWN"}
Verdicts == {"pending", "processed", "failed"}

RefundRow == [status  : RefundStatus,
              ret     : Returns \cup {NoReturn},
              amount  : Nat,
              attempt : Nat,      \* the suffix of idempotencyKey; 1 has none
              failed  : BOOLEAN]  \* failureReason is set

Call == [op      : {"idle", "attempts", "create", "send", "await", "reconcile", "lookup", "apply",
                    "unknown"},
         ret     : Returns \cup {NoReturn},
         refund  : Refunds \cup {NoRefund},
         attempt : Nat,
         verdict : Verdicts]

TypeOK ==
    /\ ReturnsTypeOK
    /\ refund \in [Refunds -> RefundRow]
    /\ remote \in [Refunds -> {"none", "sent"} \cup Verdicts]
    /\ told \subseteq Refunds \X {"SUCCEEDED", "FAILED"}
    /\ call \in [Admins -> Call]
    /\ crashes \in 0 .. MaxCrashes
    /\ \A a \in Admins :  \* a call names what it is about
          /\ call[a].op \in {"attempts", "create"} => call[a].ret \in Returns
          /\ call[a].op \notin {"idle", "attempts", "create"} =>
                call[a].refund \in Refunds /\ refund[call[a].refund].status # "NONE"
    /\ \A f \in Refunds :
          /\ refund[f].status # "NONE" => refund[f].ret \in Returns
          /\ refund[f].amount <= Captured

------------------------------------------------------------------------------
Idle == [op |-> "idle", ret |-> NoReturn, refund |-> NoRefund, attempt |-> 0, verdict |-> "pending"]

Init ==
    /\ ReturnsInit
    /\ refund = [f \in Refunds |-> [status |-> "NONE", ret |-> NoReturn, amount |-> 0,
                                    attempt |-> 0, failed |-> FALSE]]
    /\ remote = [f \in Refunds |-> "none"]
    /\ told = {}
    /\ call = [a \in Admins |-> Idle]
    /\ crashes = 0

At(a, op) == call[a].op = op
Become(a, c) == call' = [call EXCEPT ![a] = c]
Goto(a, op) == Become(a, [call[a] EXCEPT !.op = op])

(* Fault: the outcome of a refund still pending at the provider is taken for granted. *)
HearOptimist(a, v) ==
    Become(a, [call[a] EXCEPT !.op = "apply", !.verdict = IF v = "pending" THEN "processed" ELSE v])

(* applyProviderOutcome() is called with what the provider says. *)
Hear(a, v) == Become(a, [call[a] EXCEPT !.op = "apply", !.verdict = v])

AttemptsOf(t) == {f \in Refunds : refund[f].status # "NONE" /\ refund[f].ret = t}
LatestOf(t) == {f \in AttemptsOf(t) : \A g \in AttemptsOf(t) : refund[g].attempt <= refund[f].attempt}

(* Fault: only refunds that have succeeded reduce the balance. *)
CountedLate == {f \in Refunds : refund[f].status = "SUCCEEDED"}

(* The units of money the refunds in S stand for. *)
Money(rows, S) == {u \in S \X (1 .. Captured) : u[2] <= rows[u[1]].amount}
Sum(S) == Cardinality(Money(refund, S))
Counted == {f \in Refunds : refund[f].status \in {"PENDING", "PROCESSING", "SUCCEEDED"}}

(* getRefundableBalance(): an UNKNOWN refund does not count, like a FAILED one. *)
RefundableBalance == Captured - Sum(Counted)

(* Fault: the amount asked for is not capped by the balance. *)
CappedNot(t) == Wanted(t)

Capped(t) == IF Wanted(t) > RefundableBalance THEN RefundableBalance ELSE Wanted(t)

------------------------------------------------------------------------------
(* initiate().                                                             *)

BeginInitiate(a, t) ==
    /\ At(a, "idle") /\ ret[t].status = "REFUND_PENDING"
    /\ Become(a, [Idle EXCEPT !.op = "attempts", !.ret = t])
    /\ UNCHANGED <<returnVars, moneyVars, crashes>>

(* An attempt that succeeded or is under way is returned, one of unknown   *)
(* outcome refuses the call, a failed one is followed by a numbered retry. *)
LookAtAttempts(a) ==
    LET t == call[a].ret IN
    /\ At(a, "attempts")
    /\ IF \A f \in LatestOf(t) : refund[f].status = "FAILED"
       THEN Become(a, [call[a] EXCEPT !.op = "create", !.attempt = Cardinality(AttemptsOf(t)) + 1])
       ELSE Become(a, Idle)
    /\ UNCHANGED <<returnVars, moneyVars, crashes>>

(* The transaction under the advisory lock of the payment.  A row with the *)
(* same key is returned; nothing refundable, or a return that has moved on,*)
(* rolls back.  Otherwise the row is created and the return moves.         *)
CreateRefund(a) ==
    LET t == call[a].ret
        taken == \E f \in AttemptsOf(t) : refund[f].attempt = call[a].attempt
        free == {f \in Refunds : refund[f].status = "NONE"}
        creates == ~ taken /\ Capped(t) > 0 /\ ret[t].status = "REFUND_PENDING"
    IN  /\ At(a, "create")
        /\ \/ /\ ~ creates \/ free = {}    \* free = {} is the bound on rows
              /\ Become(a, Idle)
              /\ UNCHANGED <<ret, refund>>
           \/ /\ creates
              /\ ret' = [ret EXCEPT ![t].status = "REFUND_INITIATED"]
              /\ \E f \in free :
                    /\ refund' = [refund EXCEPT ![f] =
                                    [status |-> "PENDING", ret |-> t, amount |-> Capped(t),
                                     attempt |-> call[a].attempt, failed |-> FALSE]]
                    /\ Become(a, [call[a] EXCEPT !.op = "send", !.refund = f])
        /\ UNCHANGED <<shelf, remote, told, crashes>>

(* callProviderAndResolve(): the request leaves, and is answered, or the   *)
(* call throws, whatever has become of the request.                        *)
SendCreate(a) ==
    /\ At(a, "send")
    /\ remote' = [remote EXCEPT ![call[a].refund] = "sent"]
    /\ Goto(a, "await")
    /\ UNCHANGED <<returnVars, refund, told, crashes>>

CreateAnswered(a) ==
    /\ At(a, "await") /\ remote[call[a].refund] \in Verdicts
    /\ Hear(a, remote[call[a].refund])
    /\ UNCHANGED <<returnVars, moneyVars, crashes>>

CreateThrows(a) ==
    /\ At(a, "send") \/ At(a, "await")
    /\ Goto(a, "reconcile")
    /\ UNCHANGED <<returnVars, moneyVars, crashes>>

------------------------------------------------------------------------------
(* Asking the provider for the receipt: reconcileAfterThrownError() and    *)
(* recover() differ in what they make of an answer other than a refund.    *)

BeginRecover(a, f) ==
    /\ At(a, "idle") /\ refund[f].status \in {"UNKNOWN", "PROCESSING"}
    /\ Become(a, [Idle EXCEPT !.op = "lookup", !.refund = f])
    /\ UNCHANGED <<returnVars, moneyVars, crashes>>

LookupFinds(a) ==
    /\ At(a, "reconcile") \/ At(a, "lookup")
    /\ remote[call[a].refund] \in Verdicts
    /\ Hear(a, remote[call[a].refund])
    /\ UNCHANGED <<returnVars, moneyVars, crashes>>

LookupFindsNone(a) ==
    /\ At(a, "reconcile") \/ At(a, "lookup")
    /\ remote[call[a].refund] \notin Verdicts
    /\ \/ At(a, "reconcile") /\ Hear(a, "failed")
       \/ At(a, "lookup") /\ Become(a, Idle)
    /\ UNCHANGED <<returnVars, moneyVars, crashes>>

LookupThrows(a) ==
    /\ \/ At(a, "reconcile") /\ Goto(a, "unknown")
       \/ At(a, "lookup") /\ Become(a, Idle)
    /\ UNCHANGED <<returnVars, moneyVars, crashes>>

------------------------------------------------------------------------------
(* Writing the outcome.                                                    *)

Open == {"PENDING", "PROCESSING", "UNKNOWN"}

(* markSucceeded(), markFailed(): conditional, with an outbox row.  Where  *)
(* that row exists already its duplicate key aborts the transaction.       *)
Resolve(f, st) ==
    IF refund[f].status \in Open /\ <<f, st>> \notin told
    THEN /\ refund' = [refund EXCEPT ![f].status = st, ![f].failed = @ \/ st = "FAILED"]
         /\ told' = told \cup {<<f, st>>}
    ELSE UNCHANGED <<refund, told>>

MarkSucceeded(a) ==
    LET f == call[a].refund
        t == refund[f].ret
    IN  /\ At(a, "apply") /\ call[a].verdict = "processed"
        /\ Resolve(f, "SUCCEEDED")
        /\ ret' = IF refund' # refund /\ ret[t].status = "REFUND_INITIATED"
                  THEN [ret EXCEPT ![t].status = "COMPLETED"] ELSE ret
        /\ Become(a, Idle)
        /\ UNCHANGED <<shelf, remote, crashes>>

(* Fault: a failed attempt puts the return back to REFUND_PENDING, so that *)
(* it can be tried again at once.                                          *)
MarkFailedReopens(a) ==
    LET t == refund[call[a].refund].ret IN
    /\ At(a, "apply") /\ call[a].verdict = "failed"
    /\ Resolve(call[a].refund, "FAILED")
    /\ ret' = IF ret[t].status = "REFUND_INITIATED"
              THEN [ret EXCEPT ![t].status = "REFUND_PENDING"] ELSE ret
    /\ Become(a, Idle)
    /\ UNCHANGED <<shelf, remote, crashes>>

MarkFailed(a) ==
    /\ At(a, "apply") /\ call[a].verdict = "failed"
    /\ Resolve(call[a].refund, "FAILED")
    /\ Become(a, Idle)
    /\ UNCHANGED <<returnVars, remote, crashes>>

(* A refund still pending at the provider is written PROCESSING, whatever  *)
(* its status has become since the provider was asked.                     *)
MarkProcessing(a) ==
    /\ At(a, "apply") /\ call[a].verdict = "pending"
    /\ refund' = [refund EXCEPT ![call[a].refund].status = "PROCESSING"]
    /\ Become(a, Idle)
    /\ UNCHANGED <<returnVars, remote, told, crashes>>

MarkUnknown(a) ==
    /\ At(a, "unknown")
    /\ refund' = [refund EXCEPT ![call[a].refund].status = "UNKNOWN",
                                ![call[a].refund].failed = TRUE]
    /\ Become(a, Idle)
    /\ UNCHANGED <<returnVars, remote, told, crashes>>

Crash(a) ==
    /\ ~ At(a, "idle") /\ crashes < MaxCrashes
    /\ Become(a, Idle)
    /\ crashes' = crashes + 1
    /\ UNCHANGED <<returnVars, moneyVars>>

------------------------------------------------------------------------------
(* The provider (external): a request on its way arrives or is lost, and a *)
(* pending refund is settled.                                              *)

Arrive(f) ==
    /\ remote[f] = "sent"
    /\ \E v \in Verdicts \cup {"none"} : remote' = [remote EXCEPT ![f] = v]
    /\ UNCHANGED <<returnVars, refund, told, call, crashes>>

Settle(f) ==
    /\ remote[f] = "pending"
    /\ \E v \in {"processed", "failed"} : remote' = [remote EXCEPT ![f] = v]
    /\ UNCHANGED <<returnVars, refund, told, call, crashes>>

------------------------------------------------------------------------------
Continue(a) ==
    \/ LookAtAttempts(a) \/ CreateRefund(a) \/ SendCreate(a)
    \/ CreateAnswered(a) \/ CreateThrows(a)
    \/ LookupFinds(a) \/ LookupFindsNone(a) \/ LookupThrows(a)
    \/ MarkSucceeded(a) \/ MarkFailed(a) \/ MarkProcessing(a) \/ MarkUnknown(a)

Next ==
    \/ ReturnStep /\ UNCHANGED <<moneyVars, call, crashes>>
    \/ \E a \in Admins, t \in Returns : BeginInitiate(a, t)
    \/ \E a \in Admins, f \in Refunds : BeginRecover(a, f)
    \/ \E a \in Admins : Continue(a) \/ Crash(a)
    \/ \E f \in Refunds : Arrive(f) \/ Settle(f)

Spec == Init /\ [][Next]_vars

(* An admin asks again and again about an open refund and the provider can *)
(* be reached at some time; a request arrives or is lost, and is settled.  *)
FairSpec ==
    /\ Spec
    /\ \A a \in Admins : WF_vars(Continue(a))
    /\ \A f \in Refunds : /\ WF_vars(Arrive(f))
                          /\ WF_vars(Settle(f))
                          /\ SF_vars(\E a \in Admins : BeginRecover(a, f))
                          /\ SF_vars(\E a \in Admins : call[a].refund = f /\ LookupFinds(a))

------------------------------------------------------------------------------
Moved(f) == remote[f] \in {"pending", "processed"}

(* A return is refunded at the provider at most once, though requests may  *)
(* arrive after their caller has given them up and called the attempt      *)
(* FAILED: several initiate() calls, lost answers and retries included.    *)
OneRefundPerReturn ==
    \A f, g \in Refunds :
        Moved(f) /\ Moved(g) /\ refund[f].ret = refund[g].ret => f = g

(* The customer is told that the money is on its way, and the return is    *)
(* closed, only when the provider has processed it; and a refund recorded  *)
(* as SUCCEEDED has closed its return.                                     *)
ClosedMeansRefunded ==
    /\ \A t \in Returns : ret[t].status = "COMPLETED" =>
          \E f \in AttemptsOf(t) : remote[f] = "processed" /\ <<f, "SUCCEEDED">> \in told
    /\ \A f \in Refunds : refund[f].status = "SUCCEEDED" => ret[refund[f].ret].status = "COMPLETED"

(* The refunds on the books never exceed the captured payment, whatever    *)
(* the returns list and however many are refunded at once, as long as no   *)
(* attempt has failed or become unknown: one that has is not counted.      *)
BooksFitThePayment ==
    (\A f \in Refunds : ~ refund[f].failed) => Sum(Counted) <= Captured

(* The money moved at the provider never exceeds it either, whatever has   *)
(* failed or become unknown, for returns that name no line twice.          *)
MoneyFitsThePayment ==
    Sum({f \in Refunds : Moved(f) /\ ListsLinesOnce(refund[f].ret)}) <= Captured

(* What recover() promises ("Safe to call any number of times"): a refund  *)
(* the provider was still processing is decided in the end.                *)
ProcessingIsResolved ==
    \A f \in Refunds :
        refund[f].status = "PROCESSING" ~> refund[f].status \in {"SUCCEEDED", "FAILED"}
==============================================================================
