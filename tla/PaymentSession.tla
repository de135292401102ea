--------------------------- MODULE PaymentSession ---------------------------
(***************************************************************************)
(* How a payment attempt of one order gets its order at the provider       *)
(* (PaymentService.createOrRecoverPaymentSession, ensureProviderOrder,     *)
(* awaitConcurrentProviderOrder) when requests to the provider and their   *)
(* answers can be lost or late and any caller can crash.                   *)
(*                                                                         *)
(* A call to the provider is made outside every transaction: sending it,   *)
(* its arrival there and its answer are steps of their own.  OrderPayment  *)
(* has what surrounds this: the cancellation of the order after an attempt *)
(* was given up, and what becomes of an attempt that can be paid.  A call  *)
(* that ends with an error of the database is, for the rows, a crash.      *)
(***************************************************************************)
EXTENDS Integers, FiniteSets

CONSTANTS
    Payments,      \* Payment rows of the order: its attempts
    RemoteOrders,  \* create requests to the provider, and the orders they make there
    Workers,       \* requests in flight
    NoPayment, NoRemote,
    MaxPolls,      \* CONCURRENT_CLAIM_POLL_ATTEMPTS
    MaxCrashes     \* bound on the number of requests a crash interrupts

ASSUME PaymentSessionAssumption ==
    /\ IsFiniteSet(Payments)
    /\ NoPayment \notin Payments
    /\ NoRemote \notin RemoteOrders
    /\ MaxPolls \in Nat \ {0}
    /\ MaxCrashes \in Nat

VARIABLES
    pay,       \* Payment rows
    remote,    \* create requests and remote orders
    sessions,  \* the sessions handed to the customer: an attempt and a remote order
    call,      \* requests in flight
    crashes    \* how many requests a crash has interrupted

vars == <<pay, remote, sessions, call, crashes>>

PaymentRow == [status : {"NONE", "CREATED", "PENDING", "CAPTURED", "FAILED"},
               remote : RemoteOrders \cup {NoRemote},   \* providerOrderId
               at     : Nat]                            \* createdAt, as a rank

ActiveStatuses == {"CREATED", "PENDING"}

RemoteOrder == [state   : {"unused", "sent", "made", "lost"},
                receipt : Payments \cup {NoPayment}]

Call == [op     : {"idle", "ensure", "create", "await", "reconcile", "giveUp", "persist",
                   "poll", "lookup", "adopt"},
         pay    : Payments \cup {NoPayment},
         remote : RemoteOrders \cup {NoRemote},
         polls  : 0 .. MaxPolls]

TypeOK ==
    /\ pay \in [Payments -> PaymentRow]
    /\ remote \in [RemoteOrders -> RemoteOrder]
    /\ sessions \subseteq Payments \X RemoteOrders
    /\ call \in [Workers -> Call]
    /\ crashes \in 0 .. MaxCrashes

------------------------------------------------------------------------------
Idle == [op |-> "idle", pay |-> NoPayment, remote |-> NoRemote, polls |-> 0]

Init ==
    /\ pay = [y \in Payments |-> [status |-> "NONE", remote |-> NoRemote, at |-> 0]]
    /\ remote = [x \in RemoteOrders |-> [state |-> "unused", receipt |-> NoPayment]]
    /\ sessions = {}
    /\ call = [p \in Workers |-> Idle]
    /\ crashes = 0

At(p, op) == call[p].op = op
Become(p, c) == call' = [call EXCEPT ![p] = c]
Goto(p, op) == Become(p, [call[p] EXCEPT !.op = op])
Keep(p, op, x) == Become(p, [call[p] EXCEPT !.op = op, !.remote = x])

(* The call ends with an error for the customer. *)
Refuse(p) == Become(p, Idle)

(* toSession(): the call ends with a session the customer can pay. *)
HandOut(p, x) ==
    /\ sessions' = sessions \cup {<<call[p].pay, x>>}
    /\ Become(p, Idle)

Attempts == {y \in Payments : pay[y].status # "NONE"}
Latest == {y \in Attempts : \A z \in Attempts : pay[z].at <= pay[y].at}
Reusable == {y \in Latest : pay[y].status \in ActiveStatuses}

(* A call that has read an attempt and the provider order it had then. *)
Ensure(y, x) == [op |-> "ensure", pay |-> y, remote |-> x, polls |-> 0]

(* What the provider has under the receipt of an attempt. *)
Made(y) == {x \in RemoteOrders : remote[x].state = "made" /\ remote[x].receipt = y}

------------------------------------------------------------------------------
(* Fault: an attempt without a provider order is not thought worth reusing. *)
OpenSessionAnew(p) ==
    /\ At(p, "idle")
    /\ \/ \E y \in Reusable : /\ pay[y].remote # NoRemote
                              /\ Become(p, Ensure(y, pay[y].remote))
                              /\ UNCHANGED pay
       \/ /\ \A y \in Reusable : pay[y].remote = NoRemote
          /\ \E y \in Payments \ Attempts :
               /\ pay' = [pay EXCEPT ![y] = [status |-> "CREATED", remote |-> NoRemote,
                                             at |-> Cardinality(Attempts) + 1]]
               /\ Become(p, Ensure(y, NoRemote))
    /\ UNCHANGED <<remote, sessions, crashes>>

(* createOrRecoverPaymentSession(), its transaction under the order's       *)
(* advisory lock: the latest attempt while it is active, or a new one.      *)
(* The status of the order is not read again under the lock, so a retry     *)
(* that read it earlier may find the latest attempt captured.               *)
OpenSession(p) ==
    /\ At(p, "idle")
    /\ \/ \E y \in Reusable : /\ Become(p, Ensure(y, pay[y].remote))
                              /\ UNCHANGED pay
       \/ /\ Reusable = {}
          /\ \E y \in Payments \ Attempts :
               /\ pay' = [pay EXCEPT ![y] = [status |-> "CREATED", remote |-> NoRemote,
                                             at |-> Cardinality(Attempts) + 1]]
               /\ Become(p, Ensure(y, NoRemote))
    /\ UNCHANGED <<remote, sessions, crashes>>

(* ensureProviderOrder(): an attempt that had its provider order when it was read. *)
ReuseSession(p) ==
    /\ At(p, "ensure") /\ call[p].remote # NoRemote
    /\ HandOut(p, call[p].remote)
    /\ UNCHANGED <<pay, remote, crashes>>

(* Fault: the claim is made from what was read, not by a conditional update. *)
ClaimUnconditional(p) ==
    LET y == call[p].pay IN
    /\ At(p, "ensure") /\ call[p].remote = NoRemote
    /\ pay' = [pay EXCEPT ![y].status = "PENDING"]
    /\ Goto(p, "create")
    /\ UNCHANGED <<remote, sessions, crashes>>

(* Otherwise it claims the right to create one: CREATED -> PENDING, once.   *)
(* Who does not get it waits for who did.                                   *)
Claim(p) ==
    LET y == call[p].pay
        free == pay[y].status = "CREATED" /\ pay[y].remote = NoRemote
    IN  /\ At(p, "ensure") /\ call[p].remote = NoRemote
        /\ \/ /\ free
              /\ pay' = [pay EXCEPT ![y].status = "PENDING"]
              /\ Goto(p, "create")
           \/ /\ ~ free
              /\ Goto(p, "poll")
              /\ UNCHANGED pay
        /\ UNCHANGED <<remote, sessions, crashes>>

------------------------------------------------------------------------------
(* The claimant.                                                           *)

(* createOrder(): the request leaves, its receipt is the id of the attempt. *)
SendCreate(p) ==
    /\ At(p, "create")
    /\ \E x \in RemoteOrders :
         /\ remote[x].state = "unused"
         /\ remote' = [remote EXCEPT ![x] = [state |-> "sent", receipt |-> call[p].pay]]
         /\ Keep(p, "await", x)
    /\ UNCHANGED <<pay, sessions, crashes>>

(* The answer comes back. *)
CreateAnswered(p) ==
    /\ At(p, "await") /\ remote[call[p].remote].state = "made"
    /\ Goto(p, "persist")
    /\ UNCHANGED <<pay, remote, sessions, crashes>>

(* Or the call fails: at once, or while the request is on its way or done. *)
CreateFailed(p) ==
    /\ At(p, "create") \/ At(p, "await")
    /\ Keep(p, "reconcile", NoRemote)
    /\ UNCHANGED <<pay, remote, sessions, crashes>>

(* The id is written to the row and the session returned; an error of the   *)
(* database, before the update or after it at the audit record, is caught   *)
(* like one of the provider.                                                *)
Persist(p) ==
    LET y == call[p].pay
        x == call[p].remote
        written == pay' = [pay EXCEPT ![y].remote = x]
    IN  /\ At(p, "persist")
        /\ \/ written /\ HandOut(p, x)
           \/ (written \/ UNCHANGED pay) /\ Keep(p, "reconcile", NoRemote) /\ UNCHANGED sessions
        /\ UNCHANGED <<remote, crashes>>

(* fetchOrderByReceipt() finds an order, finds none, or cannot be reached. *)
ReconcileFinds(p) ==
    /\ At(p, "reconcile")
    /\ \E x \in Made(call[p].pay) : Keep(p, "adopt", x)
    /\ UNCHANGED <<pay, remote, sessions, crashes>>

ReconcileFindsNone(p) ==
    /\ At(p, "reconcile") /\ Made(call[p].pay) = {}
    /\ Goto(p, "giveUp")
    /\ UNCHANGED <<pay, remote, sessions, crashes>>

ReconcileUnreachable(p) ==
    /\ At(p, "reconcile")
    /\ Refuse(p)
    /\ UNCHANGED <<pay, remote, sessions, crashes>>

(* Fault: the attempt is failed whatever it has become since. *)
GiveUpUnconditional(p) ==
    LET y == call[p].pay IN
    /\ At(p, "giveUp")
    /\ pay' = [pay EXCEPT ![y].status = "FAILED"]
    /\ Refuse(p)
    /\ UNCHANGED <<remote, sessions, crashes>>

(* None there: the attempt fails, if it is still active. *)
GiveUp(p) ==
    LET y == call[p].pay IN
    /\ At(p, "giveUp")
    /\ pay' = [pay EXCEPT ![y].status = IF @ \in ActiveStatuses THEN "FAILED" ELSE @]
    /\ Refuse(p)
    /\ UNCHANGED <<remote, sessions, crashes>>

------------------------------------------------------------------------------
(* awaitConcurrentProviderOrder().                                         *)

(* Fault: the number of polls is not bounded. *)
PollForever(p) ==
    LET y == call[p].pay IN
    /\ At(p, "poll")
    /\ IF pay[y].remote # NoRemote THEN HandOut(p, pay[y].remote)
       ELSE /\ IF pay[y].status \in ActiveStatuses
               THEN Become(p, [call[p] EXCEPT !.polls = @ + 1]) ELSE Refuse(p)
            /\ UNCHANGED sessions
    /\ UNCHANGED <<pay, remote, crashes>>

(* One look at the row: it has its order, it is over, or wait on. *)
Poll(p) ==
    LET y == call[p].pay IN
    /\ At(p, "poll") /\ call[p].polls < MaxPolls
    /\ IF pay[y].remote # NoRemote THEN HandOut(p, pay[y].remote)
       ELSE /\ IF pay[y].status \in ActiveStatuses
               THEN Become(p, [call[p] EXCEPT !.polls = @ + 1]) ELSE Refuse(p)
            /\ UNCHANGED sessions
    /\ UNCHANGED <<pay, remote, crashes>>

PollsAreOver(p) ==
    /\ At(p, "poll") /\ call[p].polls = MaxPolls
    /\ Goto(p, "lookup")
    /\ UNCHANGED <<pay, remote, sessions, crashes>>

(* Fault: any order the provider lists is taken, its receipt is not compared. *)
LookupFindsAny(p) ==
    /\ At(p, "lookup")
    /\ \E y \in Payments : \E x \in Made(y) : Keep(p, "adopt", x)
    /\ UNCHANGED <<pay, remote, sessions, crashes>>

(* Fault: what the provider has is not looked at. *)
LookupIgnored(p) ==
    /\ At(p, "lookup") /\ Made(call[p].pay) # {}
    /\ Refuse(p)
    /\ UNCHANGED <<pay, remote, sessions, crashes>>

(* fetchOrderByReceipt() as a last resort, which never creates anything. *)
LookupFinds(p) ==
    /\ At(p, "lookup")
    /\ \E x \in Made(call[p].pay) : Keep(p, "adopt", x)
    /\ UNCHANGED <<pay, remote, sessions, crashes>>

LookupInVain(p) ==
    /\ At(p, "lookup")   \* none there, or the provider cannot be reached
    /\ Refuse(p)
    /\ UNCHANGED <<pay, remote, sessions, crashes>>

(* What a lookup found is written to the row, whatever its status is now;   *)
(* the claimant's audit record may fail after that.                         *)
Adopt(p) ==
    LET y == call[p].pay IN
    /\ At(p, "adopt")
    /\ pay' = [pay EXCEPT ![y].remote = call[p].remote]
    /\ HandOut(p, call[p].remote) \/ (Refuse(p) /\ UNCHANGED sessions)
    /\ UNCHANGED <<remote, crashes>>

------------------------------------------------------------------------------
(* The provider, the customer, and crashes.                                *)

(* A request arrives, however late, or is lost. *)
Make(x) ==
    /\ remote[x].state = "sent"
    /\ remote' = [remote EXCEPT ![x].state = "made"]
    /\ UNCHANGED <<pay, sessions, call, crashes>>

Lose(x) ==
    /\ remote[x].state = "sent"
    /\ remote' = [remote EXCEPT ![x].state = "lost"]
    /\ UNCHANGED <<pay, sessions, call, crashes>>

(* An attempt the customer has a session for is captured or declined (OrderPayment). *)
Settle(y) ==
    /\ pay[y].status \in ActiveStatuses
    /\ \E x \in RemoteOrders : <<y, x>> \in sessions
    /\ \E status \in {"CAPTURED", "FAILED"} : pay' = [pay EXCEPT ![y].status = status]
    /\ UNCHANGED <<remote, sessions, call, crashes>>

Crash(p) ==
    /\ ~ At(p, "idle") /\ crashes < MaxCrashes
    /\ Become(p, Idle)
    /\ crashes' = crashes + 1
    /\ UNCHANGED <<pay, remote, sessions>>

------------------------------------------------------------------------------
Continue(p) ==
    \/ ReuseSession(p) \/ Claim(p)
    \/ SendCreate(p) \/ CreateAnswered(p) \/ CreateFailed(p) \/ Persist(p)
    \/ ReconcileFinds(p) \/ ReconcileFindsNone(p) \/ ReconcileUnreachable(p) \/ GiveUp(p)
    \/ Poll(p) \/ PollsAreOver(p) \/ LookupFinds(p) \/ LookupInVain(p) \/ Adopt(p)

Next ==
    \/ \E p \in Workers : OpenSession(p) \/ Continue(p) \/ Crash(p)
    \/ \E x \in RemoteOrders : Make(x) \/ Lose(x)
    \/ \E y \in Payments : Settle(y)

Spec == Init /\ [][Next]_vars

(* A request goes on unless it crashes; what was sent arrives or is lost;   *)
(* the customer retries for as long as there is something to try; and a     *)
(* provider that is asked again and again for an order it has answers once. *)
Fairness ==
    /\ \A p \in Workers : WF_vars(Continue(p))
    /\ \A x \in RemoteOrders : WF_vars(Make(x) \/ Lose(x))
    /\ SF_vars(\E p \in Workers : OpenSession(p))
    /\ SF_vars(\E p \in Workers : ReconcileFinds(p) \/ LookupFinds(p))

FairSpec == Spec /\ Fairness

------------------------------------------------------------------------------
(* Properties.                                                             *)

(* "createOrder() must never be called twice for the SAME Payment attempt": *)
(* no two requests carry the receipt of one attempt, however many callers,  *)
(* retries, lost answers and crashes there were.                            *)
OneCreatePerAttempt ==
    \A x, z \in RemoteOrders :
        remote[x].receipt = remote[z].receipt /\ remote[x].receipt # NoPayment => x = z

(* Every session a customer was ever given is for the provider order that   *)
(* was made for that very attempt, and the row still names it: what the     *)
(* customer pays is found again when the webhook arrives.                   *)
SessionsNameTheirOrder ==
    \A s \in sessions : /\ pay[s[1]].remote = s[2]
                        /\ s[2] \in Made(s[1])

(* However many tabs open sessions at once, at most one attempt of the      *)
(* order is active: a new one is opened only after the last has ended.  (An *)
(* old session may still be payable at the provider after its attempt has   *)
(* failed; the code takes nothing back there.)                              *)
OneActiveAttempt ==
    \A y, z \in Payments :
        pay[y].status \in ActiveStatuses /\ pay[z].status \in ActiveStatuses => y = z

(* A capture is not undone by a claimant that concludes late that its       *)
(* provider order never existed, although another caller has found it and   *)
(* the customer has paid.                                                   *)
CaptureStands ==
    [][\A y \in Payments : pay[y].status = "CAPTURED" => pay'[y].status = "CAPTURED"]_vars

(* A provider order that was made is not forgotten, in spite of lost        *)
(* answers and a crash of the claimant: the attempt gets it while active.   *)
LostResponseIsRecovered ==
    \A y \in Payments, x \in RemoteOrders :
        x \in Made(y) /\ pay[y].status \in ActiveStatuses ~>
            pay[y].remote = x \/ pay[y].status \notin ActiveStatuses
==============================================================================
