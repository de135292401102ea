------------------------ MODULE PaymentSessionProofs ------------------------
(***************************************************************************)
(* The claim of PaymentSession does what it is for: one create request per *)
(* attempt, sessions that name the order made for their attempt, and one   *)
(* attempt at a time, for any number of attempts, callers, polls and       *)
(* crashes.                                                                *)
(***************************************************************************)
EXTENDS PaymentSession, FiniteSetTheorems, TLAPS

(* A request is unused as long as it carries no receipt. *)
SentRequestsHaveAReceipt ==
    \A x \in RemoteOrders : remote[x].state = "unused" <=> remote[x].receipt = NoPayment

(* Nothing was sent for an attempt that nobody has claimed, and nobody is   *)
(* about to send for it.                                                    *)
UnclaimedIsUntouched ==
    \A y \in Payments : pay[y].status \in {"NONE", "CREATED"} =>
        /\ \A x \in RemoteOrders : remote[x].receipt # y
        /\ \A p \in Workers : call[p].op = "create" => call[p].pay # y

(* The right to create belongs to one caller, who has not used it yet. *)
ClaimIsExclusive ==
    \A p \in Workers : call[p].op = "create" =>
        /\ \A x \in RemoteOrders : remote[x].receipt # call[p].pay
        /\ \A q \in Workers : call[q].op = "create" /\ call[q].pay = call[p].pay => q = p

(* What a call has read or found is still so. *)
CallsRememberRight ==
    \A p \in Workers :
        /\ call[p].op # "idle" => call[p].pay \in Attempts
        /\ call[p].op = "ensure" /\ call[p].remote # NoRemote =>
              call[p].remote = pay[call[p].pay].remote
        /\ call[p].op = "await" =>
              /\ call[p].remote \in RemoteOrders
              /\ remote[call[p].remote].receipt = call[p].pay
        /\ call[p].op \in {"persist", "adopt"} => call[p].remote \in Made(call[p].pay)

(* A row names an order that was made for it. *)
RowsNameTheirOrder ==
    \A y \in Payments : pay[y].remote # NoRemote => pay[y].remote \in Made(y)

(* Attempts are ranked in the order of their creation, and only the last of *)
(* them can be active.                                                      *)
OnlyTheLatestIsActive ==
    /\ \A y \in Attempts : pay[y].at <= Cardinality(Attempts)
    /\ \A y \in Attempts : pay[y].status \in ActiveStatuses => y \in Latest

(* The claim protocol. *)
ClaimInv ==
    /\ SentRequestsHaveAReceipt
    /\ UnclaimedIsUntouched
    /\ ClaimIsExclusive
    /\ OneCreatePerAttempt

(* What the rows, the calls and the customers name. *)
NamesInv ==
    /\ CallsRememberRight
    /\ RowsNameTheirOrder
    /\ SessionsNameTheirOrder

(* The attempts of the order. *)
AttemptsInv == OnlyTheLatestIsActive /\ OneActiveAttempt

(* The inductive invariant. *)
IInv == TypeOK /\ ClaimInv /\ NamesInv /\ AttemptsInv

------------------------------------------------------------------------------
(* What the invariant says of one caller.                                  *)

(* What CallsRememberRight and ClaimIsExclusive ask of a call c that takes  *)
(* no claim.                                                                *)
Remembers(c) ==
    /\ c.op # "create"
    /\ c.op # "idle" => c.pay \in Attempts
    /\ c.op = "ensure" /\ c.remote # NoRemote => c.remote = pay[c.pay].remote
    /\ c.op = "await" => /\ c.remote \in RemoteOrders
                         /\ remote[c.remote].receipt = c.pay
    /\ c.op \in {"persist", "adopt"} => c.remote \in Made(c.pay)

(* Fields of a request in flight. *)
LEMMA CallFields ==
    ASSUME TypeOK, NEW p \in Workers
    PROVE  /\ call[p] \in Call
           /\ call[p].pay \in Payments \cup {NoPayment}
           /\ call[p].remote \in RemoteOrders \cup {NoRemote}
           /\ call[p].polls \in 0 .. MaxPolls
BY DEF TypeOK, Call

(* The provider has at most one order for an attempt. *)
LEMMA MadeIsUnique ==
    ASSUME TypeOK, OneCreatePerAttempt, NEW y \in Payments, NEW x \in Made(y), NEW z \in Made(y)
    PROVE  x = z
BY PaymentSessionAssumption DEF OneCreatePerAttempt, Made

(* A call that takes no claim and changes no row, except that an attempt    *)
(* without a provider order gets one made for it, keeps the invariant.      *)
LEMMA CallMoves ==
    ASSUME IInv, NEW p \in Workers, NEW c \in Call, Remembers(c), Become(p, c),
           pay' \in [Payments -> PaymentRow], remote' = remote, crashes' \in 0 .. MaxCrashes,
           \A y \in Payments :
              /\ pay'[y].status = pay[y].status /\ pay'[y].at = pay[y].at
              /\ \/ pay'[y].remote = pay[y].remote
                 \/ pay[y].remote = NoRemote /\ pay'[y].remote \in Made(y),
           \A s \in sessions' : \/ s \in sessions
                                \/ s \in Payments \X RemoteOrders /\ pay'[s[1]].remote = s[2]
    PROVE  IInv'
<1>1. TypeOK /\ ClaimInv /\ NamesInv /\ AttemptsInv
  BY DEF IInv
<1>2. /\ call \in [Workers -> Call]
      /\ call' = [call EXCEPT ![p] = c]
  BY <1>1 DEF TypeOK, Become
<1>3. \A q \in Workers : call'[q] = IF q = p THEN c ELSE call[q]
  BY <1>2
<1>4. TypeOK'
  <2>1. sessions' \subseteq Payments \X RemoteOrders
    BY <1>1 DEF TypeOK
  <2> QED
    BY <1>1, <1>2, <2>1 DEF TypeOK
<1>5. /\ Attempts' = Attempts
      /\ \A y : Made(y)' = Made(y)
  BY DEF Attempts, Made
<1>6. ClaimInv'
  <2>1. SentRequestsHaveAReceipt' /\ OneCreatePerAttempt'
    BY <1>1 DEF ClaimInv, SentRequestsHaveAReceipt, OneCreatePerAttempt
  <2>2. UnclaimedIsUntouched'
    BY <1>1, <1>3 DEF ClaimInv, UnclaimedIsUntouched, Remembers
  <2>3. ClaimIsExclusive'
    BY <1>1, <1>3 DEF ClaimInv, ClaimIsExclusive, Remembers
  <2> QED
    BY <2>1, <2>2, <2>3 DEF ClaimInv
<1>7. NamesInv'
  <2>1. RowsNameTheirOrder'
    BY <1>1, <1>5 DEF NamesInv, RowsNameTheirOrder
  <2>2. \A q \in Workers : Remembers(call[q]) \/ call[q].op = "create"
    BY <1>1 DEF NamesInv, CallsRememberRight, Remembers
  <2>3. \A y \in Payments : pay[y].remote # NoRemote => pay'[y].remote = pay[y].remote
    OBVIOUS
  <2>4. Attempts \subseteq Payments
    BY DEF Attempts
  <2>5. CallsRememberRight'
    <3> SUFFICES ASSUME NEW q \in Workers
                 PROVE  /\ call'[q].op # "idle" => call'[q].pay \in Attempts
                        /\ call'[q].op = "ensure" /\ call'[q].remote # NoRemote =>
                              call'[q].remote = pay'[call'[q].pay].remote
                        /\ call'[q].op = "await" =>
                              /\ call'[q].remote \in RemoteOrders
                              /\ remote[call'[q].remote].receipt = call'[q].pay
                        /\ call'[q].op \in {"persist", "adopt"} =>
                              call'[q].remote \in Made(call'[q].pay)
      BY <1>5 DEF CallsRememberRight
    <3>1. CASE q = p
      BY <1>3, <2>3, <2>4, <3>1 DEF Remembers
    <3>2. CASE q # p
      BY <1>1, <1>3, <2>3, <2>4, <3>2 DEF NamesInv, CallsRememberRight
    <3> QED
      BY <3>1, <3>2
  <2>6. SessionsNameTheirOrder'
    <3> SUFFICES ASSUME NEW s \in sessions'
                 PROVE  pay'[s[1]].remote = s[2] /\ s[2] \in Made(s[1])
      BY <1>5 DEF SessionsNameTheirOrder
    <3>1. s[1] \in Payments /\ s[2] \in RemoteOrders
      BY <1>4 DEF TypeOK
    <3>2. pay'[s[1]].remote = s[2]
      BY <1>1, <2>3, <3>1, PaymentSessionAssumption DEF NamesInv, SessionsNameTheirOrder
    <3>3. s[2] # NoRemote
      BY <3>1, PaymentSessionAssumption
    <3> QED
      BY <1>5, <2>1, <3>1, <3>2, <3>3 DEF RowsNameTheirOrder
  <2> QED
    BY <2>1, <2>5, <2>6 DEF NamesInv
<1>8. AttemptsInv'
  <2>1. Latest' = Latest
    BY <1>5 DEF Latest, Attempts
  <2>2. OnlyTheLatestIsActive'
    BY <1>1, <1>5, <2>1 DEF AttemptsInv, OnlyTheLatestIsActive, Attempts
  <2>3. OneActiveAttempt'
    BY <1>1 DEF AttemptsInv, OneActiveAttempt
  <2> QED
    BY <2>2, <2>3 DEF AttemptsInv
<1> QED
  BY <1>4, <1>6, <1>7, <1>8 DEF IInv

(* A call that changes no row, or only hands out the session a row names. *)
LEMMA OnlyCallMoves ==
    ASSUME IInv, NEW p \in Workers, NEW c \in Call, Remembers(c), Become(p, c),
           UNCHANGED <<pay, remote>>, crashes' \in 0 .. MaxCrashes,
           \/ UNCHANGED sessions
           \/ \E y \in Payments, x \in RemoteOrders :
                 pay[y].remote = x /\ sessions' = sessions \cup {<<y, x>>}
    PROVE  IInv'
<1>1. pay' = pay /\ pay' \in [Payments -> PaymentRow] /\ remote' = remote
  BY DEF IInv, TypeOK
<1>2. \A y \in Payments :
        /\ pay'[y].status = pay[y].status /\ pay'[y].at = pay[y].at
        /\ pay'[y].remote = pay[y].remote
  BY <1>1
<1>3. \A s \in sessions' : \/ s \in sessions
                           \/ s \in Payments \X RemoteOrders /\ pay'[s[1]].remote = s[2]
  BY <1>1
<1> QED
  BY <1>1, <1>2, <1>3, CallMoves

(* An active attempt that ends, alone or with the call that ends it, keeps  *)
(* the invariant.                                                           *)
LEMMA AttemptEnds ==
    ASSUME IInv, NEW y \in Payments, pay[y].status \in ActiveStatuses,
           NEW status \in {"CAPTURED", "FAILED"}, pay' = [pay EXCEPT ![y].status = status],
           call' \in [Workers -> Call], \A q \in Workers : call'[q] \in {call[q], Idle},
           UNCHANGED <<remote, sessions, crashes>>
    PROVE  IInv'
<1>1. TypeOK /\ ClaimInv /\ NamesInv /\ AttemptsInv
  BY DEF IInv
<1>2. /\ pay' \in [Payments -> PaymentRow]
      /\ \A z \in Payments : /\ pay'[z].status = IF z = y THEN status ELSE pay[z].status
                             /\ pay'[z].remote = pay[z].remote
                             /\ pay'[z].at = pay[z].at
  BY <1>1 DEF TypeOK, PaymentRow
<1>3. TypeOK'
  BY <1>1, <1>2 DEF TypeOK
<1>4. /\ Attempts' = Attempts
      /\ \A z : Made(z)' = Made(z)
  BY <1>2 DEF Attempts, Made, ActiveStatuses
<1>5. ClaimInv'
  <2>1. SentRequestsHaveAReceipt' /\ OneCreatePerAttempt'
    BY <1>1 DEF ClaimInv, SentRequestsHaveAReceipt, OneCreatePerAttempt
  <2>2. \A q \in Workers : call'[q].op = "create" => call'[q] = call[q]
    BY DEF Idle
  <2>3. UnclaimedIsUntouched'
    BY <1>1, <1>2, <2>2 DEF ClaimInv, UnclaimedIsUntouched
  <2>4. ClaimIsExclusive'
    BY <1>1, <2>2 DEF ClaimInv, ClaimIsExclusive
  <2> QED
    BY <2>1, <2>3, <2>4 DEF ClaimInv
<1>6. NamesInv'
  <2>1. RowsNameTheirOrder' /\ SessionsNameTheirOrder'
    BY <1>1, <1>2, <1>4 DEF NamesInv, RowsNameTheirOrder, SessionsNameTheirOrder, TypeOK
  <2>2. Attempts \subseteq Payments
    BY DEF Attempts
  <2>3. CallsRememberRight'
    BY <1>1, <1>2, <1>4, <2>2 DEF NamesInv, CallsRememberRight, Idle
  <2> QED
    BY <2>1, <2>3 DEF NamesInv
<1>7. AttemptsInv'
  <2>1. Latest' = Latest
    BY <1>2, <1>4 DEF Latest, Attempts
  <2>2. OnlyTheLatestIsActive'
    BY <1>1, <1>2, <1>4, <2>1 DEF AttemptsInv, OnlyTheLatestIsActive, Attempts, ActiveStatuses
  <2>3. OneActiveAttempt'
    BY <1>1, <1>2 DEF AttemptsInv, OneActiveAttempt, ActiveStatuses
  <2> QED
    BY <2>2, <2>3 DEF AttemptsInv
<1> QED
  BY <1>3, <1>5, <1>6, <1>7 DEF IInv

(* A request of the provider that arrives or is lost keeps the invariant. *)
LEMMA RequestArrives ==
    ASSUME IInv, NEW x \in RemoteOrders, Make(x) \/ Lose(x)
    PROVE  IInv'
<1>1. TypeOK /\ ClaimInv /\ NamesInv /\ AttemptsInv
  BY DEF IInv
<1>2. /\ UNCHANGED <<pay, sessions, call, crashes>>
      /\ remote' \in [RemoteOrders -> RemoteOrder]
      /\ \A z \in RemoteOrders :
            /\ remote'[z].receipt = remote[z].receipt
            /\ remote'[z].state = "unused" <=> remote[z].state = "unused"
            /\ remote[z].state = "made" => remote'[z].state = "made"
  BY <1>1 DEF Make, Lose, TypeOK, RemoteOrder
<1>3. TypeOK'
  BY <1>1, <1>2 DEF TypeOK
<1>4. ClaimInv'
  BY <1>1, <1>2 DEF ClaimInv, SentRequestsHaveAReceipt, UnclaimedIsUntouched, ClaimIsExclusive,
                   OneCreatePerAttempt
<1>5. /\ Attempts' = Attempts
      /\ Latest' = Latest
      /\ \A y : Made(y) \subseteq Made(y)'
  BY <1>2 DEF Attempts, Latest, Made
<1>6. CallsRememberRight'
  <2> SUFFICES ASSUME NEW p \in Workers
               PROVE  /\ call[p].op # "idle" => call[p].pay \in Attempts
                      /\ call[p].op = "ensure" /\ call[p].remote # NoRemote =>
                            call[p].remote = pay[call[p].pay].remote
                      /\ call[p].op = "await" =>
                            /\ call[p].remote \in RemoteOrders
                            /\ remote'[call[p].remote].receipt = call[p].pay
                      /\ call[p].op \in {"persist", "adopt"} =>
                            call[p].remote \in Made(call[p].pay)'
    BY <1>2, <1>5 DEF CallsRememberRight
  <2> QED
    BY <1>1, <1>2, <1>5 DEF NamesInv, CallsRememberRight
<1>7. RowsNameTheirOrder' /\ SessionsNameTheirOrder'
  BY <1>1, <1>2, <1>5 DEF NamesInv, RowsNameTheirOrder, SessionsNameTheirOrder
<1>8. AttemptsInv'
  BY <1>1, <1>2, <1>5 DEF AttemptsInv, OnlyTheLatestIsActive, OneActiveAttempt
<1> QED
  BY <1>3, <1>4, <1>6, <1>7, <1>8 DEF IInv, NamesInv

(* The claim succeeds for one caller: what nobody had touched it may create. *)
LEMMA ClaimSucceeds ==
    ASSUME IInv, NEW p \in Workers, Claim(p), pay[call[p].pay].status = "CREATED",
           pay' = [pay EXCEPT ![call[p].pay].status = "PENDING"], Goto(p, "create")
    PROVE  IInv'
<1> DEFINE y == call[p].pay
<1>1. TypeOK /\ ClaimInv /\ NamesInv /\ AttemptsInv
  BY DEF IInv
<1>2. /\ call[p].op = "ensure"
      /\ UNCHANGED <<remote, sessions, crashes>>
      /\ call' = [call EXCEPT ![p] = [call[p] EXCEPT !.op = "create"]]
      /\ y \in Attempts /\ y \in Payments
  BY <1>1 DEF Claim, At, Goto, Become, NamesInv, CallsRememberRight, Attempts
<1>3. /\ call' \in [Workers -> Call]
      /\ call'[p].op = "create" /\ call'[p].pay = y
      /\ \A q \in Workers : q # p => call'[q] = call[q]
  BY <1>1, <1>2 DEF TypeOK, Call
<1>4. /\ pay' \in [Payments -> PaymentRow]
      /\ \A z \in Payments : /\ pay'[z].status = IF z = y THEN "PENDING" ELSE pay[z].status
                             /\ pay'[z].remote = pay[z].remote
                             /\ pay'[z].at = pay[z].at
  BY <1>1, <1>2 DEF TypeOK, PaymentRow
<1>5. TypeOK'
  BY <1>1, <1>2, <1>3, <1>4 DEF TypeOK
<1>6. /\ Attempts' = Attempts
      /\ \A z : Made(z)' = Made(z)
  BY <1>2, <1>4 DEF Attempts, Made
<1>7. ClaimInv'
  <2>1. SentRequestsHaveAReceipt' /\ OneCreatePerAttempt'
    BY <1>1, <1>2 DEF ClaimInv, SentRequestsHaveAReceipt, OneCreatePerAttempt
  <2>2. UnclaimedIsUntouched'
    BY <1>1, <1>2, <1>3, <1>4 DEF ClaimInv, UnclaimedIsUntouched
  <2>3. /\ \A x \in RemoteOrders : remote[x].receipt # y
        /\ \A q \in Workers : call[q].op = "create" => call[q].pay # y
    BY <1>1, <1>2 DEF ClaimInv, UnclaimedIsUntouched
  <2>4. ClaimIsExclusive'
    BY <1>1, <1>2, <1>3, <2>3 DEF ClaimInv, ClaimIsExclusive
  <2> QED
    BY <2>1, <2>2, <2>4 DEF ClaimInv
<1>8. NamesInv'
  <2>1. RowsNameTheirOrder' /\ SessionsNameTheirOrder'
    BY <1>1, <1>2, <1>4, <1>6 DEF NamesInv, RowsNameTheirOrder, SessionsNameTheirOrder, TypeOK
  <2>2. Attempts \subseteq Payments
    BY DEF Attempts
  <2>3. CallsRememberRight'
    BY <1>1, <1>2, <1>3, <1>4, <1>6, <2>2 DEF NamesInv, CallsRememberRight
  <2> QED
    BY <2>1, <2>3 DEF NamesInv
<1>9. AttemptsInv'
  <2>1. Latest' = Latest
    BY <1>4, <1>6 DEF Latest, Attempts
  <2>2. OnlyTheLatestIsActive'
    BY <1>1, <1>2, <1>4, <1>6, <2>1 DEF AttemptsInv, OnlyTheLatestIsActive, Attempts, ActiveStatuses
  <2>3. OneActiveAttempt'
    BY <1>1, <1>2, <1>4 DEF AttemptsInv, OneActiveAttempt, ActiveStatuses
  <2> QED
    BY <2>2, <2>3 DEF AttemptsInv
<1> QED
  BY <1>5, <1>7, <1>8, <1>9 DEF IInv

(* The claimant uses its right. *)
LEMMA RequestSent ==
    ASSUME IInv, NEW p \in Workers, SendCreate(p)
    PROVE  IInv'
<1> DEFINE y == call[p].pay
<1>1. TypeOK /\ ClaimInv /\ NamesInv /\ AttemptsInv
  BY DEF IInv
<1>2. PICK x \in RemoteOrders :
        /\ remote[x].state = "unused"
        /\ remote' = [remote EXCEPT ![x] = [state |-> "sent", receipt |-> y]]
        /\ call' = [call EXCEPT ![p] = [call[p] EXCEPT !.op = "await", !.remote = x]]
  BY DEF SendCreate, Keep, Become
<1>3. /\ call[p].op = "create"
      /\ UNCHANGED <<pay, sessions, crashes>>
      /\ y \in Attempts /\ y \in Payments
  BY <1>1 DEF SendCreate, At, NamesInv, CallsRememberRight, Attempts
<1>4. /\ call' \in [Workers -> Call]
      /\ call'[p].op = "await" /\ call'[p].pay = y /\ call'[p].remote = x
      /\ \A q \in Workers : q # p => call'[q] = call[q]
  BY <1>1, <1>2 DEF TypeOK, Call
<1>5. /\ remote' \in [RemoteOrders -> RemoteOrder]
      /\ remote'[x].state = "sent" /\ remote'[x].receipt = y
      /\ \A z \in RemoteOrders : z # x => remote'[z] = remote[z]
  BY <1>1, <1>2, <1>3 DEF TypeOK, RemoteOrder
<1>6. TypeOK'
  BY <1>1, <1>3, <1>4, <1>5 DEF TypeOK
<1>7. /\ Attempts' = Attempts
      /\ Latest' = Latest
      /\ \A z : Made(z)' = Made(z)
  BY <1>2, <1>3, <1>5 DEF Attempts, Latest, Made
<1>8. ClaimInv'
  <2>1. /\ \A z \in RemoteOrders : remote[z].receipt # y
        /\ \A q \in Workers : call[q].op = "create" /\ call[q].pay = y => q = p
        /\ pay[y].status \notin {"NONE", "CREATED"}
    BY <1>1, <1>3 DEF ClaimInv, ClaimIsExclusive, UnclaimedIsUntouched
  <2>2. SentRequestsHaveAReceipt'
    BY <1>1, <1>3, <1>5, PaymentSessionAssumption DEF ClaimInv, SentRequestsHaveAReceipt
  <2>3. OneCreatePerAttempt'
    BY <1>1, <1>5, <2>1 DEF ClaimInv, OneCreatePerAttempt
  <2>4. UnclaimedIsUntouched'
    BY <1>1, <1>3, <1>4, <1>5, <2>1 DEF ClaimInv, UnclaimedIsUntouched
  <2>5. ClaimIsExclusive'
    BY <1>1, <1>4, <1>5, <2>1 DEF ClaimInv, ClaimIsExclusive
  <2> QED
    BY <2>2, <2>3, <2>4, <2>5 DEF ClaimInv
<1>9. NamesInv'
  <2>1. RowsNameTheirOrder' /\ SessionsNameTheirOrder'
    BY <1>1, <1>3, <1>7 DEF NamesInv, RowsNameTheirOrder, SessionsNameTheirOrder
  <2>2. \A q \in Workers : call[q].op = "await" => call[q].remote # x
    <3> SUFFICES ASSUME NEW q \in Workers, call[q].op = "await", call[q].remote = x
                 PROVE  FALSE
      OBVIOUS
    <3>1. call[q].pay = remote[x].receipt /\ call[q].pay \in Payments
      BY <1>1 DEF NamesInv, CallsRememberRight, Attempts
    <3> QED
      BY <1>1, <1>2, <3>1, PaymentSessionAssumption DEF ClaimInv, SentRequestsHaveAReceipt
  <2>3. CallsRememberRight'
    BY <1>1, <1>3, <1>4, <1>5, <1>7, <2>2 DEF NamesInv, CallsRememberRight
  <2> QED
    BY <2>1, <2>3 DEF NamesInv
<1>10. AttemptsInv'
  BY <1>1, <1>3, <1>7 DEF AttemptsInv, OnlyTheLatestIsActive, OneActiveAttempt
<1> QED
  BY <1>6, <1>8, <1>9, <1>10 DEF IInv

(* A new attempt is only made when none is active, and is then the latest. *)
LEMMA AttemptCreated ==
    ASSUME IInv, NEW p \in Workers, Reusable = {}, NEW y \in Payments \ Attempts,
           pay' = [pay EXCEPT ![y] = [status |-> "CREATED", remote |-> NoRemote,
                                      at |-> Cardinality(Attempts) + 1]],
           call' = [call EXCEPT ![p] = Ensure(y, NoRemote)],
           UNCHANGED <<remote, sessions, crashes>>
    PROVE  IInv'
<1>1. TypeOK /\ ClaimInv /\ NamesInv /\ AttemptsInv
  BY DEF IInv
<1>2. /\ IsFiniteSet(Attempts)
      /\ Cardinality(Attempts) \in Nat
      /\ Attempts \subseteq Payments
      /\ pay[y].status = "NONE"
  BY PaymentSessionAssumption, FS_Subset, FS_CardinalityType DEF Attempts
<1>3. /\ pay' \in [Payments -> PaymentRow]
      /\ pay'[y].status = "CREATED" /\ pay'[y].remote = NoRemote
      /\ pay'[y].at = Cardinality(Attempts) + 1
      /\ \A z \in Payments : z # y => pay'[z] = pay[z]
  BY <1>1, <1>2 DEF TypeOK, PaymentRow
<1>4. /\ call' \in [Workers -> Call]
      /\ call'[p].op = "ensure" /\ call'[p].pay = y /\ call'[p].remote = NoRemote
      /\ \A q \in Workers : q # p => call'[q] = call[q]
  BY <1>1, PaymentSessionAssumption DEF TypeOK, Call, Ensure
<1>5. TypeOK'
  BY <1>1, <1>3, <1>4 DEF TypeOK
<1>6. /\ Attempts' = Attempts \cup {y}
      /\ \A z : Made(z)' = Made(z)
  BY <1>2, <1>3 DEF Attempts, Made
<1>7. Cardinality(Attempts') = Cardinality(Attempts) + 1
  BY <1>2, <1>6, FS_AddElement
<1>8. /\ \A x \in RemoteOrders : remote[x].receipt # y
      /\ \A q \in Workers : call[q].op # "idle" => call[q].pay # y
      /\ pay[y].remote = NoRemote
  BY <1>1, <1>2 DEF ClaimInv, NamesInv, UnclaimedIsUntouched, CallsRememberRight,
                    RowsNameTheirOrder, Made
<1>9. ClaimInv'
  <2>1. SentRequestsHaveAReceipt' /\ OneCreatePerAttempt'
    BY <1>1 DEF ClaimInv, SentRequestsHaveAReceipt, OneCreatePerAttempt
  <2>2. UnclaimedIsUntouched'
    BY <1>1, <1>3, <1>4, <1>8 DEF ClaimInv, UnclaimedIsUntouched
  <2>3. ClaimIsExclusive'
    BY <1>1, <1>4 DEF ClaimInv, ClaimIsExclusive
  <2> QED
    BY <2>1, <2>2, <2>3 DEF ClaimInv
<1>10. NamesInv'
  <2>1. RowsNameTheirOrder'
    BY <1>1, <1>3, <1>6 DEF NamesInv, RowsNameTheirOrder
  <2>2. SessionsNameTheirOrder'
    <3> SUFFICES ASSUME NEW s \in sessions
                 PROVE  pay'[s[1]].remote = s[2] /\ s[2] \in Made(s[1])
      BY <1>6 DEF SessionsNameTheirOrder
    <3>1. /\ s[1] \in Payments
          /\ pay[s[1]].remote = s[2] /\ s[2] \in Made(s[1])
      BY <1>1 DEF TypeOK, NamesInv, SessionsNameTheirOrder
    <3>2. s[1] # y
      BY <1>8, <3>1 DEF Made
    <3> QED
      BY <1>3, <3>1, <3>2
  <2>3. CallsRememberRight'
    BY <1>1, <1>2, <1>3, <1>4, <1>6, <1>8 DEF NamesInv, CallsRememberRight
  <2> QED
    BY <2>1, <2>2, <2>3 DEF NamesInv
<1>11. AttemptsInv'
  <2>1. \A z \in Attempts : pay[z].status \notin ActiveStatuses
    BY <1>1 DEF AttemptsInv, OnlyTheLatestIsActive, Reusable
  <2>2. \A z \in Payments : z # y => pay'[z].status \notin ActiveStatuses
    BY <1>3, <2>1 DEF Attempts, ActiveStatuses
  <2>3. OneActiveAttempt'
    BY <2>2 DEF OneActiveAttempt
  <2>4. \A z \in Attempts' : pay'[z].at <= Cardinality(Attempts) + 1
    <3> SUFFICES ASSUME NEW z \in Attempts, z # y
                 PROVE  pay[z].at <= Cardinality(Attempts) + 1
      BY <1>2, <1>3, <1>6
    <3>1. pay[z].at \in Nat /\ pay[z].at <= Cardinality(Attempts)
      BY <1>1, <1>2 DEF AttemptsInv, OnlyTheLatestIsActive, TypeOK, PaymentRow
    <3> QED
      BY <1>2, <3>1
  <2>5. y \in Latest'
    BY <1>3, <1>6, <2>4 DEF Latest
  <2>6. OnlyTheLatestIsActive'
    BY <1>2, <1>6, <1>7, <2>2, <2>4, <2>5 DEF OnlyTheLatestIsActive
  <2> QED
    BY <2>3, <2>6 DEF AttemptsInv
<1> QED
  BY <1>5, <1>9, <1>10, <1>11 DEF IInv

------------------------------------------------------------------------------
(* The steps.                                                              *)

(* Opening a session: reuse the active attempt or make a new one. *)
LEMMA OpenSessionStep ==
    ASSUME IInv, NEW p \in Workers, OpenSession(p)
    PROVE  IInv'
<1>1. TypeOK
  BY DEF IInv
<1>2. CASE \E y \in Reusable : /\ Become(p, Ensure(y, pay[y].remote))
                               /\ UNCHANGED pay
  <2>1. PICK y \in Reusable : Become(p, Ensure(y, pay[y].remote))
    BY <1>2
  <2> DEFINE c == Ensure(y, pay[y].remote)
  <2>2. y \in Attempts /\ y \in Payments
    BY DEF Reusable, Latest, Attempts
  <2>3. c \in Call
    BY <1>1, <2>2, PaymentSessionAssumption DEF TypeOK, PaymentRow, Call, Ensure
  <2>4. Remembers(c)
    BY <2>2 DEF Remembers, Ensure
  <2> HIDE DEF c
  <2>5. /\ Become(p, c)
        /\ UNCHANGED <<pay, remote, sessions, crashes>>
    BY <1>2, <2>1 DEF OpenSession, c
  <2> QED
    BY <1>1, <2>3, <2>4, <2>5, OnlyCallMoves DEF TypeOK
<1>3. CASE /\ Reusable = {}
           /\ \E y \in Payments \ Attempts :
                /\ pay' = [pay EXCEPT ![y] = [status |-> "CREATED", remote |-> NoRemote,
                                              at |-> Cardinality(Attempts) + 1]]
                /\ Become(p, Ensure(y, NoRemote))
  BY <1>3, AttemptCreated DEF OpenSession, Become
<1> QED
  BY <1>2, <1>3 DEF OpenSession

(* The calls between the claim and the answer that only move on, are        *)
(* refused, or hand out what the row names.                                 *)
LEMMA MovingOnStep ==
    ASSUME IInv, NEW p \in Workers,
           \/ ReuseSession(p)
           \/ CreateAnswered(p) \/ CreateFailed(p)
           \/ ReconcileFinds(p) \/ ReconcileFindsNone(p) \/ ReconcileUnreachable(p)
           \/ Poll(p) \/ PollsAreOver(p) \/ LookupFinds(p) \/ LookupInVain(p)
           \/ Crash(p)
    PROVE  IInv'
<1> DEFINE y == call[p].pay
<1>1. TypeOK /\ ClaimInv /\ NamesInv /\ AttemptsInv
  BY DEF IInv
<1>2. /\ UNCHANGED <<pay, remote>>
      /\ crashes' \in 0 .. MaxCrashes
  BY <1>1, PaymentSessionAssumption
     DEF TypeOK, ReuseSession, CreateAnswered, CreateFailed, ReconcileFinds, ReconcileFindsNone,
         ReconcileUnreachable, Poll, PollsAreOver, LookupFinds, LookupInVain, Crash
<1>3. /\ call[p] \in Call
      /\ y \in Payments \cup {NoPayment}
      /\ call[p].polls \in 0 .. MaxPolls
      /\ call[p].remote \in RemoteOrders \cup {NoRemote}
  BY <1>1, CallFields
<1>4. call[p].op # "idle" => y \in Attempts /\ y \in Payments
  BY <1>1 DEF NamesInv, CallsRememberRight, Attempts
<1>5. ASSUME NEW op \in {"persist", "reconcile", "giveUp", "lookup", "adopt"},
             NEW x \in RemoteOrders \cup {NoRemote},
             Become(p, [call[p] EXCEPT !.op = op, !.remote = x]),
             call[p].op # "idle", op \in {"persist", "adopt"} => x \in Made(y),
             UNCHANGED sessions
      PROVE  IInv'
  <2> DEFINE c == [call[p] EXCEPT !.op = op, !.remote = x]
  <2>1. /\ c \in Call
        /\ c.op = op /\ c.pay = y /\ c.remote = x
    BY <1>3, <1>5 DEF Call
  <2>2. Remembers(c)
    BY <1>4, <1>5, <2>1 DEF Remembers
  <2> HIDE DEF c
  <2>3. Become(p, c)
    BY <1>5 DEF c
  <2> QED
    BY <1>2, <1>5, <2>1, <2>2, <2>3, OnlyCallMoves
<1>6. ASSUME Become(p, Idle),
             \/ UNCHANGED sessions
             \/ \E z \in Payments, x \in RemoteOrders :
                   pay[z].remote = x /\ sessions' = sessions \cup {<<z, x>>}
      PROVE  IInv'
  <2>1. Idle \in Call /\ Remembers(Idle)
    BY PaymentSessionAssumption DEF Idle, Call, Remembers
  <2> QED
    BY <1>2, <1>6, <2>1, OnlyCallMoves
<1>7. CASE ReuseSession(p)
  <2>1. /\ Become(p, Idle)
        /\ sessions' = sessions \cup {<<y, call[p].remote>>}
        /\ call[p].op = "ensure" /\ call[p].remote # NoRemote
    BY <1>7 DEF ReuseSession, HandOut, At
  <2>2. pay[y].remote = call[p].remote
    BY <1>1, <2>1 DEF NamesInv, CallsRememberRight
  <2> QED
    BY <1>3, <1>4, <1>6, <2>1, <2>2
<1>8. CASE CreateAnswered(p)
  <2>1. /\ call[p].op = "await" /\ UNCHANGED sessions
        /\ call[p].remote \in RemoteOrders
        /\ call[p].remote \in Made(y)
    BY <1>1, <1>8 DEF CreateAnswered, At, NamesInv, CallsRememberRight, Made
  <2>2. Become(p, [call[p] EXCEPT !.op = "persist", !.remote = call[p].remote])
    BY <1>3, <1>8 DEF CreateAnswered, Goto, Call
  <2> QED
    BY <1>5, <2>1, <2>2
<1>9. CASE CreateFailed(p)
  BY <1>5, <1>9 DEF CreateFailed, Keep, At
<1>10. CASE ReconcileFinds(p)
  <2>1. PICK x \in Made(y) : Keep(p, "adopt", x)
    BY <1>10 DEF ReconcileFinds
  <2>2. x \in RemoteOrders
    BY DEF Made
  <2> QED
    BY <1>5, <1>10, <2>1, <2>2 DEF ReconcileFinds, Keep, At
<1>11. CASE ReconcileFindsNone(p)
  <2>1. Become(p, [call[p] EXCEPT !.op = "giveUp", !.remote = call[p].remote])
    BY <1>3, <1>11 DEF ReconcileFindsNone, Goto, Call
  <2> QED
    BY <1>3, <1>5, <1>11, <2>1 DEF ReconcileFindsNone, At
<1>12. CASE ReconcileUnreachable(p)
  BY <1>6, <1>12 DEF ReconcileUnreachable, Refuse
<1>13. CASE Poll(p)
  <2>1. CASE pay[y].remote # NoRemote
    <3>1. /\ Become(p, Idle)
          /\ sessions' = sessions \cup {<<y, pay[y].remote>>}
          /\ y \in Payments
      BY <1>4, <1>13, <2>1 DEF Poll, HandOut, At
    <3>2. pay[y].remote \in RemoteOrders
      BY <1>1, <2>1, <3>1 DEF TypeOK, PaymentRow
    <3> QED
      BY <1>6, <3>1, <3>2
  <2>2. CASE pay[y].remote = NoRemote /\ pay[y].status \notin ActiveStatuses
    BY <1>6, <1>13, <2>2 DEF Poll, Refuse
  <2>3. CASE pay[y].remote = NoRemote /\ pay[y].status \in ActiveStatuses
    <3> DEFINE c == [call[p] EXCEPT !.polls = @ + 1]
    <3>1. /\ Become(p, c) /\ UNCHANGED sessions
          /\ call[p].op = "poll" /\ call[p].polls < MaxPolls
      BY <1>13, <2>3 DEF Poll, At
    <3>2. /\ c \in Call
          /\ c.op = "poll" /\ c.pay = y
      BY <1>3, <3>1, PaymentSessionAssumption DEF Call
    <3>3. Remembers(c)
      BY <1>4, <3>1, <3>2 DEF Remembers
    <3> HIDE DEF c
    <3> QED
      BY <1>2, <3>1, <3>2, <3>3, OnlyCallMoves
  <2> QED
    BY <2>1, <2>2, <2>3
<1>14. CASE PollsAreOver(p)
  <2>1. Become(p, [call[p] EXCEPT !.op = "lookup", !.remote = call[p].remote])
    BY <1>3, <1>14 DEF PollsAreOver, Goto, Call
  <2> QED
    BY <1>3, <1>5, <1>14, <2>1 DEF PollsAreOver, At
<1>15. CASE LookupFinds(p)
  <2>1. PICK x \in Made(y) : Keep(p, "adopt", x)
    BY <1>15 DEF LookupFinds
  <2>2. x \in RemoteOrders
    BY DEF Made
  <2> QED
    BY <1>5, <1>15, <2>1, <2>2 DEF LookupFinds, Keep, At
<1>16. CASE LookupInVain(p)
  BY <1>6, <1>16 DEF LookupInVain, Refuse
<1>17. CASE Crash(p)
  BY <1>6, <1>17 DEF Crash
<1> QED
  BY <1>7, <1>8, <1>9, <1>10, <1>11, <1>12, <1>13, <1>14, <1>15, <1>16, <1>17

(* Writing the provider order to the row: it is the one already there, if any. *)
LEMMA WriteStep ==
    ASSUME IInv, NEW p \in Workers, Persist(p) \/ Adopt(p)
    PROVE  IInv'
<1> DEFINE y == call[p].pay
           x == call[p].remote
<1>1. TypeOK /\ ClaimInv /\ NamesInv /\ AttemptsInv
  BY DEF IInv
<1>2. /\ call[p].op \in {"persist", "adopt"}
      /\ UNCHANGED <<remote, crashes>>
  BY DEF Persist, Adopt, At
<1>3. /\ y \in Attempts /\ y \in Payments
      /\ x \in Made(y) /\ x \in RemoteOrders
  BY <1>1, <1>2 DEF NamesInv, CallsRememberRight, Attempts, Made
<1>4. pay[y].remote = NoRemote \/ pay[y].remote = x
  BY <1>1, <1>3, MadeIsUnique DEF NamesInv, RowsNameTheirOrder, ClaimInv
<1>5. pay' = [pay EXCEPT ![y].remote = x] \/ pay' = pay
  BY DEF Persist, Adopt
<1>6. /\ pay' \in [Payments -> PaymentRow]
      /\ \A z \in Payments :
            /\ pay'[z].status = pay[z].status /\ pay'[z].at = pay[z].at
            /\ \/ pay'[z].remote = pay[z].remote
               \/ pay[z].remote = NoRemote /\ pay'[z].remote \in Made(z)
  BY <1>1, <1>3, <1>4, <1>5 DEF TypeOK, PaymentRow
<1>7. crashes' \in 0 .. MaxCrashes /\ remote' = remote
  BY <1>1, <1>2 DEF TypeOK
<1>8. PICK c \in {Idle, [call[p] EXCEPT !.op = "reconcile", !.remote = NoRemote]} : Become(p, c)
  BY DEF Persist, Adopt, HandOut, Keep, Refuse
<1>9. c \in Call /\ Remembers(c)
  <2>1. Idle \in Call /\ Remembers(Idle)
    BY PaymentSessionAssumption DEF Idle, Call, Remembers
  <2>2. ASSUME c = [call[p] EXCEPT !.op = "reconcile", !.remote = NoRemote]
        PROVE  c \in Call /\ Remembers(c)
    BY <1>1, <1>3, <2>2, CallFields DEF Call, Remembers
  <2> QED
    BY <1>8, <2>1, <2>2
<1>10. \A s \in sessions' : \/ s \in sessions
                            \/ s \in Payments \X RemoteOrders /\ pay'[s[1]].remote = s[2]
  <2>1. CASE /\ pay' = [pay EXCEPT ![y].remote = x]
             /\ sessions' = sessions \cup {<<y, x>>}
    <3>1. pay'[y].remote = x
      BY <1>1, <1>3, <2>1 DEF TypeOK, PaymentRow
    <3> QED
      BY <1>3, <2>1, <3>1
  <2>2. CASE UNCHANGED sessions
    BY <2>2
  <2> QED
    BY <2>1, <2>2 DEF Persist, Adopt, HandOut
<1> QED
  BY <1>6, <1>7, <1>8, <1>9, <1>10, CallMoves

(* The claim: one caller may create, the others wait. *)
LEMMA ClaimStep ==
    ASSUME IInv, NEW p \in Workers, Claim(p)
    PROVE  IInv'
<1> DEFINE c == [call[p] EXCEPT !.op = "poll"]
<1>1. CASE UNCHANGED pay /\ Goto(p, "poll")
  <2>1. /\ TypeOK /\ call[p] \in Call
        /\ call[p].op = "ensure" /\ call[p].pay \in Attempts
    BY CallFields DEF IInv, Claim, At, NamesInv, CallsRememberRight
  <2>2. c \in Call /\ Remembers(c)
    BY <2>1 DEF Call, Remembers
  <2>3. /\ Become(p, c)
        /\ UNCHANGED <<pay, remote, sessions, crashes>>
    BY <1>1 DEF Claim, Goto
  <2> HIDE DEF c
  <2> QED
    BY <2>1, <2>2, <2>3, OnlyCallMoves DEF TypeOK
<1>2. CASE /\ pay[call[p].pay].status = "CREATED"
           /\ pay' = [pay EXCEPT ![call[p].pay].status = "PENDING"]
           /\ Goto(p, "create")
  BY <1>2, ClaimSucceeds
<1> QED
  BY <1>1, <1>2 DEF Claim

(* Giving up touches an active attempt only. *)
LEMMA GiveUpStep ==
    ASSUME IInv, NEW p \in Workers, GiveUp(p)
    PROVE  IInv'
<1> DEFINE y == call[p].pay
<1>1. /\ TypeOK
      /\ call[p].op = "giveUp" /\ y \in Payments
  BY DEF IInv, GiveUp, At, NamesInv, CallsRememberRight, Attempts
<1>2. /\ call' = [call EXCEPT ![p] = Idle]
      /\ UNCHANGED <<remote, sessions, crashes>>
  BY DEF GiveUp, Refuse, Become
<1>3. Idle \in Call /\ Remembers(Idle)
  BY PaymentSessionAssumption DEF Idle, Call, Remembers
<1>4. CASE pay[y].status \in ActiveStatuses
  <2>1. pay' = [pay EXCEPT ![y].status = "FAILED"]
    BY <1>4 DEF GiveUp
  <2>2. call' \in [Workers -> Call] /\ \A q \in Workers : call'[q] \in {call[q], Idle}
    BY <1>1, <1>2, <1>3 DEF TypeOK
  <2> QED
    BY <1>1, <1>2, <1>4, <2>1, <2>2, AttemptEnds
<1>5. CASE pay[y].status \notin ActiveStatuses
  <2>1. pay' = pay
    BY <1>1, <1>5 DEF GiveUp, TypeOK, PaymentRow
  <2> QED
    BY <1>1, <1>2, <1>3, <2>1, OnlyCallMoves DEF Become, TypeOK
<1> QED
  BY <1>4, <1>5

(* So does the outcome of a payment. *)
LEMMA SettleStep ==
    ASSUME IInv, NEW y \in Payments, Settle(y)
    PROVE  IInv'
<1>1. PICK status \in {"CAPTURED", "FAILED"} : pay' = [pay EXCEPT ![y].status = status]
  BY DEF Settle
<1>2. /\ pay[y].status \in ActiveStatuses
      /\ UNCHANGED <<remote, sessions, call, crashes>>
  BY DEF Settle
<1>3. call' \in [Workers -> Call] /\ \A q \in Workers : call'[q] \in {call[q], Idle}
  BY <1>2 DEF IInv, TypeOK
<1> QED
  BY <1>1, <1>2, <1>3, AttemptEnds

------------------------------------------------------------------------------
(* Inductiveness and the theorems.                                         *)

(* Nothing exists at first. *)
LEMMA InitIInv == Init => IInv
<1> SUFFICES ASSUME Init PROVE IInv
  OBVIOUS
<1>1. TypeOK
  BY PaymentSessionAssumption DEF Init, TypeOK, PaymentRow, RemoteOrder, Call, Idle
<1>2. Attempts = {}
  BY DEF Init, Attempts
<1>3. ClaimInv
  BY PaymentSessionAssumption DEF Init, Idle, ClaimInv, SentRequestsHaveAReceipt,
     UnclaimedIsUntouched, ClaimIsExclusive, OneCreatePerAttempt
<1>4. NamesInv
  BY DEF Init, Idle, NamesInv, CallsRememberRight, RowsNameTheirOrder, SessionsNameTheirOrder
<1>5. AttemptsInv
  BY <1>2 DEF Init, AttemptsInv, OnlyTheLatestIsActive, OneActiveAttempt, ActiveStatuses
<1> QED
  BY <1>1, <1>3, <1>4, <1>5 DEF IInv

(* Every step keeps the invariant. *)
LEMMA NextIInv == IInv /\ [Next]_vars => IInv'
<1> SUFFICES ASSUME IInv, [Next]_vars PROVE IInv'
  OBVIOUS
<1>1. ASSUME NEW p \in Workers, OpenSession(p) PROVE IInv'
  BY <1>1, OpenSessionStep
<1>2. ASSUME NEW p \in Workers, Continue(p) PROVE IInv'
  <2>1. CASE Claim(p)
    BY <2>1, ClaimStep
  <2>2. CASE SendCreate(p)
    BY <2>2, RequestSent
  <2>3. CASE Persist(p) \/ Adopt(p)
    BY <2>3, WriteStep
  <2>4. CASE GiveUp(p)
    BY <2>4, GiveUpStep
  <2> QED
    BY <1>2, <2>1, <2>2, <2>3, <2>4, MovingOnStep DEF Continue
<1>3. ASSUME NEW p \in Workers, Crash(p) PROVE IInv'
  BY <1>3, MovingOnStep
<1>4. ASSUME NEW x \in RemoteOrders, Make(x) \/ Lose(x) PROVE IInv'
  BY <1>4, RequestArrives
<1>5. ASSUME NEW y \in Payments, Settle(y) PROVE IInv'
  BY <1>5, SettleStep
<1>6. CASE UNCHANGED vars
  BY <1>6 DEF vars, IInv, TypeOK, ClaimInv, SentRequestsHaveAReceipt, UnclaimedIsUntouched,
     ClaimIsExclusive, OneCreatePerAttempt, NamesInv, CallsRememberRight, RowsNameTheirOrder,
     SessionsNameTheirOrder, AttemptsInv, OnlyTheLatestIsActive, OneActiveAttempt, Attempts,
     Latest, Made
<1> QED
  BY <1>1, <1>2, <1>3, <1>4, <1>5, <1>6 DEF Next

(* The inductive invariant holds in every reachable state: what callers,    *)
(* rows and the provider know of an attempt fits together.                  *)
THEOREM Inductive == Spec => []IInv
<1>1. Init => IInv
  BY InitIInv
<1>2. IInv /\ [Next]_vars => IInv'
  BY NextIInv
<1> QED
  BY <1>1, <1>2, PTL DEF Spec

(* Rows, requests and calls always have their types. *)
THEOREM TypeCorrect == Spec => []TypeOK
<1>1. IInv => TypeOK
  BY DEF IInv
<1> QED
  BY <1>1, Inductive, PTL

(* createOrder() is called at most once for an attempt, by whatever number  *)
(* of concurrent or repeated requests, and in spite of any crashes.         *)
THEOREM CreateIsCalledOnce == Spec => []OneCreatePerAttempt
<1>1. IInv => OneCreatePerAttempt
  BY DEF IInv, ClaimInv
<1> QED
  BY <1>1, Inductive, PTL

(* Whatever session a customer was given is for the provider order of that  *)
(* attempt, and the row names it from then on.                              *)
THEOREM SessionsAreRight == Spec => []SessionsNameTheirOrder
<1>1. IInv => SessionsNameTheirOrder
  BY DEF IInv, NamesInv
<1> QED
  BY <1>1, Inductive, PTL

(* Concurrent retries never open two attempts of one order. *)
THEOREM OneAttemptAtATime == Spec => []OneActiveAttempt
<1>1. IInv => OneActiveAttempt
  BY DEF IInv, AttemptsInv
<1> QED
  BY <1>1, Inductive, PTL

(* A captured attempt stays captured, whoever comes late with another view  *)
(* of it: every change of a status is conditional on the status it replaces. *)
THEOREM CaptureIsFinal == Spec => CaptureStands
<1> DEFINE Stands == \A y \in Payments : pay[y].status = "CAPTURED" => pay'[y].status = "CAPTURED"
<1>1. ASSUME TypeOK, [Next]_vars PROVE Stands
  <2>1. pay \in [Payments -> PaymentRow]
    BY <1>1 DEF TypeOK
  <2>2. ASSUME UNCHANGED pay PROVE Stands
    BY <2>2
  <2>3. ASSUME NEW z \in Payments, pay[z].status # "CAPTURED",
               NEW r, pay' = [pay EXCEPT ![z] = r]
        PROVE  Stands
    BY <2>1, <2>3
  <2>4. ASSUME NEW z \in Payments, NEW x, pay' = [pay EXCEPT ![z].remote = x] PROVE Stands
    BY <2>1, <2>4 DEF PaymentRow
  <2>5. ASSUME NEW p \in Workers, OpenSession(p) PROVE Stands
    BY <2>2, <2>3, <2>5 DEF OpenSession, Attempts
  <2>6. ASSUME NEW p \in Workers, Continue(p) PROVE Stands
    <3>1. CASE Claim(p)
      BY <2>1, <2>2, <3>1 DEF Claim
    <3>2. CASE Persist(p) \/ Adopt(p)
      BY <2>1, <2>2, <3>2 DEF Persist, Adopt, PaymentRow
    <3>3. CASE GiveUp(p)
      BY <2>1, <3>3 DEF GiveUp, ActiveStatuses, PaymentRow
    <3>4. CASE UNCHANGED pay
      BY <2>2, <3>4
    <3> QED
      BY <2>6, <3>1, <3>2, <3>3, <3>4 DEF Continue, ReuseSession, SendCreate, CreateAnswered,
         CreateFailed, ReconcileFinds, ReconcileFindsNone, ReconcileUnreachable, Poll,
         PollsAreOver, LookupFinds, LookupInVain
  <2>7. ASSUME NEW y \in Payments, Settle(y) PROVE Stands
    BY <2>1, <2>7 DEF Settle, ActiveStatuses, PaymentRow
  <2> QED
    BY <1>1, <2>2, <2>5, <2>6, <2>7 DEF Next, vars, Crash, Make, Lose
<1> QED
  BY <1>1, TypeCorrect, PTL DEF Spec, CaptureStands

==============================================================================
