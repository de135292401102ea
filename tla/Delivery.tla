------------------------------ MODULE Delivery ------------------------------
(***************************************************************************)
(* From an outbox row to the customer: OutboxWorkerService dispatches the  *)
(* events that transactions have recorded, NotificationService turns each  *)
(* into an in-app notification and an email row, EmailDeliveryWorkerService*)
(* sends the emails.                                                       *)
(*                                                                         *)
(* The two workers are one algorithm over two tables: look for a due row,  *)
(* claim it with a conditional update, do the work, write the outcome.  So *)
(* a job is a row of either queue, and a tick is the timer callback of one *)
(* worker in one replica, which never overlaps itself (isRunning).         *)
(*                                                                         *)
(* Simplifications: a tick handles one row, a longer list only delays the  *)
(* rest; a backoff is the arbitrary time until the row is looked at again; *)
(* "PROCESSING for more than five minutes" is the flag old.                *)
(***************************************************************************)
EXTENDS Integers, FiniteSets

CONSTANTS
    Events,       \* outbox keys
    AlwaysSent,   \* those whose type no preference suppresses
    Replicas,     \* API processes that run the workers
    MaxAttempts,  \* of each queue
    NoJob,
    MaxTroubles   \* bound on ticks that are lost or overtaken

Queues == {"outbox", "mail"}
Jobs == Queues \X Events
Ticks == Queues \X Replicas

ASSUME DeliveryAssumption ==
    /\ AlwaysSent \subseteq Events
    /\ IsFiniteSet(Replicas)
    /\ MaxAttempts \in [Queues -> Nat \ {0}]
    /\ NoJob \notin Jobs
    /\ MaxTroubles \in Nat

VARIABLES
    job,     \* OutboxEvent rows and Notification rows of channel EMAIL
    inApp,   \* events with a Notification row of channel IN_APP
    tick,    \* the workers
    troubles

vars == <<job, inApp, tick, troubles>>

(* PROCESSED of the one table and SENT of the other are both "DONE".       *)
JobRow == [status   : {"NONE", "PENDING", "PROCESSING", "DONE", "FAILED"},
           attempts : Nat,
           old      : BOOLEAN,
           returned : Nat,   \* history: how often it was put back to PENDING
           effects  : Nat]   \* history: dispatches completed, mails accepted

Tick == [op   : {"idle", "reclaim", "claim", "work", "finish", "fail"},
         on   : Jobs \cup {NoJob},
         seen : Nat]         \* attempts of the row, as it was read

TypeOK ==
    /\ job \in [Jobs -> JobRow]
    /\ inApp \subseteq Events
    /\ tick \in [Ticks -> Tick]
    /\ troubles \in 0 .. MaxTroubles
    /\ \A j \in Jobs :
          /\ job[j].attempts <= MaxAttempts[j[1]]
          /\ job[j].status \in {"PENDING", "PROCESSING"} => job[j].attempts < MaxAttempts[j[1]]
    /\ \A x \in Ticks : tick[x].op # "idle" =>
          /\ tick[x].on \in Jobs /\ tick[x].on[1] = x[1]
          /\ tick[x].seen < MaxAttempts[x[1]]

------------------------------------------------------------------------------
Idle == [op |-> "idle", on |-> NoJob, seen |-> 0]

Init ==
    /\ job = [j \in Jobs |-> [status |-> "NONE", attempts |-> 0, old |-> FALSE,
                              returned |-> 0, effects |-> 0]]
    /\ inApp = {}
    /\ tick = [x \in Ticks |-> Idle]
    /\ troubles = 0

At(x, op) == tick[x].op = op
Become(x, c) == tick' = [tick EXCEPT ![x] = c]
Goto(x, op) == Become(x, [tick[x] EXCEPT !.op = op])

Fresh(row) == [row EXCEPT !.status = "PENDING"]

(* The ticks that have claimed a row and not yet written its outcome. *)
Working(j) == {x \in Ticks : tick[x].on = j /\ tick[x].op \in {"work", "finish", "fail"}}

------------------------------------------------------------------------------
(* OutboxService.record(), in the transaction of the business change. *)
Publish(e) ==
    /\ job[<<"outbox", e>>].status = "NONE"
    /\ job' = [job EXCEPT ![<<"outbox", e>>] = Fresh(@)]
    /\ UNCHANGED <<inApp, tick, troubles>>

(* Fault: only rows that have failed before are looked at. *)
LookStaleRetried(x, j) ==
    /\ At(x, "idle") /\ j[1] = x[1]
    /\ job[j].status = "PROCESSING" /\ job[j].old /\ job[j].attempts > 0
    /\ Become(x, [op |-> "reclaim", on |-> j, seen |-> job[j].attempts])
    /\ UNCHANGED <<job, inApp, troubles>>

(* recoverStaleProcessing(), its read; the row is put back without a look  *)
(* at what has become of it (PutBack).                                     *)
LookStale(x, j) ==
    /\ At(x, "idle") /\ j[1] = x[1]
    /\ job[j].status = "PROCESSING" /\ job[j].old
    /\ Become(x, [op |-> "reclaim", on |-> j, seen |-> job[j].attempts])
    /\ UNCHANGED <<job, inApp, troubles>>

(* processBatchOnce(): the list of due rows, read before any is claimed. *)
Look(x, j) ==
    /\ At(x, "idle") /\ j[1] = x[1]
    /\ job[j].status = "PENDING"
    /\ Become(x, [op |-> "claim", on |-> j, seen |-> job[j].attempts])
    /\ UNCHANGED <<job, inApp, troubles>>

(* Fault: the row is claimed without a look at its status. *)
ClaimBlindly(x) ==
    /\ At(x, "claim")
    /\ job' = [job EXCEPT ![tick[x].on].status = "PROCESSING", ![tick[x].on].old = FALSE]
    /\ Goto(x, "work")
    /\ UNCHANGED <<inApp, troubles>>

(* The conditional update PENDING to PROCESSING; losing it skips the row. *)
Claim(x) ==
    LET j == tick[x].on IN
    /\ At(x, "claim")
    /\ \/ /\ job[j].status = "PENDING"
          /\ job' = [job EXCEPT ![j].status = "PROCESSING", ![j].old = FALSE]
          /\ Goto(x, "work")
       \/ /\ job[j].status # "PENDING"
          /\ Become(x, Idle)
          /\ UNCHANGED job
    /\ UNCHANGED <<inApp, troubles>>

Performed(row) == [row EXCEPT !.effects = @ + 1]

(* dispatchFromOutboxEvent(): the in-app row first, then the email row, by *)
(* the preferences of the moment.  A row that exists already is kept as it *)
(* is: its key is unique.  An error leaves out the rest.                   *)
Dispatch(x) ==
    LET j == tick[x].on
        e == j[2]
        wanted == IF e \in AlwaysSent THEN {{"IN_APP", "EMAIL"}} ELSE SUBSET {"IN_APP", "EMAIL"}
        mail == <<"mail", e>>
        Queued(row) == IF row.status = "NONE" THEN Fresh(row) ELSE row
    IN  /\ At(x, "work") /\ x[1] = "outbox"
        /\ \E want \in wanted, fails \in BOOLEAN :
             \E made \in IF fails THEN {{}, want \cap {"IN_APP"}, want} ELSE {want} :
                /\ inApp' = IF "IN_APP" \in made THEN inApp \cup {e} ELSE inApp
                /\ job' = [job EXCEPT ![mail] = IF "EMAIL" \in made THEN Queued(@) ELSE @,
                                      ![j] = IF fails THEN @ ELSE Performed(@)]
                /\ Goto(x, IF fails THEN "fail" ELSE "finish")
        /\ UNCHANGED troubles

(* emailProvider.send(): the server takes the mail or not, and the call    *)
(* may throw in either case.                                               *)
Send(x) ==
    LET j == tick[x].on IN
    /\ At(x, "work") /\ x[1] = "mail"
    /\ \/ /\ job' = [job EXCEPT ![j] = Performed(@)]
          /\ Goto(x, "finish") \/ Goto(x, "fail")
       \/ Goto(x, "fail") /\ UNCHANGED job
    /\ UNCHANGED <<inApp, troubles>>

(* The outcome is written whoever owns the row by now; an error of this    *)
(* update is caught like one of the work.                                  *)
Finish(x) ==
    LET j == tick[x].on IN
    /\ At(x, "finish")
    /\ \/ /\ job' = [job EXCEPT ![j].status = "DONE", ![j].old = FALSE]
          /\ Become(x, Idle)
       \/ Goto(x, "fail") /\ UNCHANGED job
    /\ UNCHANGED <<inApp, troubles>>

(* handleFailure(): back to PENDING until the attempts are used up. *)
Retried(row, q, n) ==
    LET last == n >= MaxAttempts[q] IN
    [status |-> IF last THEN "FAILED" ELSE "PENDING", attempts |-> n, old |-> FALSE,
     returned |-> row.returned + (IF last THEN 0 ELSE 1), effects |-> row.effects]

(* Fault: a stale row is taken for one whose outcome only was not written. *)
PutBackAsDone(x) ==
    LET j == tick[x].on IN
    /\ At(x, "fail") \/ At(x, "reclaim")
    /\ job' = [job EXCEPT ![j] = IF At(x, "reclaim") THEN [@ EXCEPT !.status = "DONE"]
                                 ELSE Retried(@, j[1], tick[x].seen + 1)]
    /\ Become(x, Idle)
    /\ UNCHANGED <<inApp, troubles>>

(* A failed or reclaimed row goes back by the count this tick has read,    *)
(* and whatever the status is by now.                                      *)
PutBack(x) ==
    LET j == tick[x].on IN
    /\ At(x, "fail") \/ At(x, "reclaim")
    /\ job' = [job EXCEPT ![j] = Retried(@, j[1], tick[x].seen + 1)]
    /\ Become(x, Idle)
    /\ UNCHANGED <<inApp, troubles>>

(* The process stops, or an error outside the inner try ends the tick. *)
Lost(x) ==
    /\ ~ At(x, "idle") /\ troubles < MaxTroubles
    /\ Become(x, Idle)
    /\ troubles' = troubles + 1
    /\ UNCHANGED <<job, inApp>>

(* Five minutes pass on a claimed row, after its owner was lost or while   *)
(* it is still at work.                                                    *)
Age(j) ==
    /\ job[j].status = "PROCESSING" /\ ~ job[j].old
    /\ job' = [job EXCEPT ![j].old = TRUE]
    /\ \/ Working(j) = {} /\ UNCHANGED troubles
       \/ Working(j) # {} /\ troubles < MaxTroubles /\ troubles' = troubles + 1
    /\ UNCHANGED <<inApp, tick>>

------------------------------------------------------------------------------
Continue(x) == Claim(x) \/ Dispatch(x) \/ Send(x) \/ Finish(x) \/ PutBack(x)

Next ==
    \/ \E e \in Events : Publish(e)
    \/ \E x \in Ticks, j \in Jobs : LookStale(x, j) \/ Look(x, j)
    \/ \E x \in Ticks : Continue(x) \/ Lost(x)
    \/ \E j \in Jobs : Age(j)

Spec == Init /\ [][Next]_vars

(* A tick that has begun goes on; the timers look at every due or stale    *)
(* row again and again; time passes on a row nobody works on.              *)
FairSpec ==
    /\ Spec
    /\ \A x \in Ticks : WF_vars(Continue(x))
    /\ \A j \in Jobs : /\ SF_vars(\E r \in Replicas : Look(<<j[1], r>>, j))
                       /\ SF_vars(\E r \in Replicas : LookStale(<<j[1], r>>, j))
                       /\ WF_vars(Working(j) = {} /\ Age(j))

------------------------------------------------------------------------------
(* A mail is sent, and an event dispatched, once and then once more at     *)
(* most for each time its row was put back to PENDING: two replicas never  *)
(* do the work of one claim twice, and an owner that was taken for dead    *)
(* adds no more than the reclaim that took it for dead.                    *)
WorkIsCounted == \A j \in Jobs : job[j].effects <= 1 + job[j].returned

(* What is marked done was done, though owners overwrite each other: the   *)
(* mail of a SENT row was accepted, and a PROCESSED event of a type that   *)
(* must reach the customer has both its notifications.                     *)
NothingIsLost ==
    /\ \A j \in Jobs : job[j].status = "DONE" => job[j].effects > 0
    /\ \A e \in AlwaysSent : job[<<"outbox", e>>].status = "DONE" =>
          e \in inApp /\ job[<<"mail", e>>].status # "NONE"

(* No row stays in flight: whatever fails, crashes or stalls, each is done *)
(* or given up after its last attempt, and stays so.                       *)
EveryJobSettles == \A j \in Jobs : <>[](job[j].status \in {"NONE", "DONE", "FAILED"})
==============================================================================
