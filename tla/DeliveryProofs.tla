--------------------------- MODULE DeliveryProofs ---------------------------
(***************************************************************************)
(* What the two delivery workers keep, for any number of events, replicas, *)
(* attempts and troubles.                                                  *)
(***************************************************************************)
EXTENDS Delivery, FiniteSetTheorems, TLAPS

(* A row that is due will be claimed once; a claim not yet worked off may  *)
(* have its effect.                                                        *)
Owed(row) == row.effects + (IF row.status = "PENDING" THEN 1 ELSE 0)
Doing(q, j) == IF q.op = "work" /\ q.on = j THEN 1 ELSE 0
AtWork(j) == {x \in Ticks : tick[x].op = "work" /\ tick[x].on = j}

Counted == \A j \in Jobs : Owed(job[j]) + Cardinality(AtWork(j)) <= 1 + job[j].returned

RowFits(row, q) ==
    /\ row.attempts <= MaxAttempts[q]
    /\ row.status \in {"PENDING", "PROCESSING"} => row.attempts < MaxAttempts[q]
    /\ row.status = "DONE" => row.effects > 0
    /\ row.status = "NONE" => row.attempts = 0

TickFits(q, x) ==
    q.op # "idle" => q.on \in Jobs /\ q.on[1] = x[1] /\ q.seen < MaxAttempts[x[1]]

Types ==
    /\ job \in [Jobs -> JobRow]
    /\ inApp \subseteq Events
    /\ tick \in [Ticks -> Tick]
    /\ troubles \in 0 .. MaxTroubles
    /\ \A j \in Jobs : RowFits(job[j], j[1])
    /\ \A x \in Ticks : TickFits(tick[x], x)

(* Nobody looks at a row before it is there, and what is about to be       *)
(* marked as done was done.                                                *)
Evidence ==
    /\ \A j \in Jobs : job[j].status = "NONE" =>
          job[j].effects = 0 /\ \A x \in Ticks : tick[x].op # "idle" => tick[x].on # j
    /\ \A x \in Ticks : tick[x].op = "finish" => job[tick[x].on].effects > 0
    /\ \A e \in AlwaysSent : job[<<"outbox", e>>].effects > 0 =>
          e \in inApp /\ job[<<"mail", e>>].status # "NONE"

IInv == Types /\ Counted /\ Evidence

------------------------------------------------------------------------------
(* There are finitely many workers. *)
LEMMA WorkIsFinite ==
    ASSUME NEW j
    PROVE  IsFiniteSet(AtWork(j)) /\ Cardinality(AtWork(j)) \in Nat
<1>1. Queues = {"outbox"} \cup {"mail"} /\ IsFiniteSet({"outbox"})
  BY FS_Singleton DEF Queues
<1>2. IsFiniteSet(Queues)
  BY <1>1, FS_AddElement
<1>3. IsFiniteSet(Ticks)
  BY <1>2, FS_Product, DeliveryAssumption DEF Ticks
<1> QED
  BY <1>3, FS_Subset, FS_CardinalityType DEF AtWork

(* The claims on each row, when one tick changes. *)
LEMMA AtWorkMoves ==
    ASSUME Types, NEW x \in Ticks, NEW c \in Tick, tick' = [tick EXCEPT ![x] = c], NEW j \in Jobs
    PROVE  /\ Cardinality(AtWork(j)) \in Nat
           /\ Cardinality(AtWork(j)') = Cardinality(AtWork(j)) - Doing(tick[x], j) + Doing(c, j)
<1>2. IsFiniteSet(AtWork(j)) /\ Cardinality(AtWork(j)) \in Nat
  BY WorkIsFinite
<1>3. tick'[x] = c /\ \A y \in Ticks : y # x => tick'[y] = tick[y]
  BY DEF Types
<1>4. x \in AtWork(j) <=> Doing(tick[x], j) = 1
  BY DEF AtWork, Doing
<1>5. AtWork(j)' = IF Doing(c, j) = 1 THEN AtWork(j) \cup {x} ELSE AtWork(j) \ {x}
  BY <1>3 DEF AtWork, Doing
<1>6. Doing(c, j) \in {0, 1} /\ Doing(tick[x], j) \in {0, 1}
  BY DEF Doing
<1>7. /\ Cardinality(AtWork(j) \cup {x}) =
            IF x \in AtWork(j) THEN Cardinality(AtWork(j)) ELSE Cardinality(AtWork(j)) + 1
      /\ Cardinality(AtWork(j) \ {x}) =
            IF x \in AtWork(j) THEN Cardinality(AtWork(j)) - 1 ELSE Cardinality(AtWork(j))
  BY <1>2, FS_AddElement, FS_RemoveElement
<1> QED
  BY <1>2, <1>4, <1>5, <1>6, <1>7

(* A step of one tick: no row is owed more than it was, except one that is *)
(* made.                                                                   *)
LEMMA TickStep ==
    ASSUME IInv, NEW x \in Ticks, NEW c \in Tick, Become(x, c), TickFits(c, x),
           troubles' \in 0 .. MaxTroubles,
           inApp \subseteq inApp', inApp' \subseteq Events,
           job' \in [Jobs -> JobRow],
           \A j \in Jobs :
              /\ RowFits(job'[j], j[1])
              /\ job[j].effects <= job'[j].effects
              /\ job'[j].status = "NONE" => job'[j] = job[j] /\ (c.op # "idle" => c.on # j)
              /\ \/ Owed(job'[j]) + Doing(c, j) + job[j].returned
                       <= Owed(job[j]) + Doing(tick[x], j) + job'[j].returned
                 \/ job[j].status = "NONE" /\ Owed(job'[j]) + Doing(c, j) <= 1 + job'[j].returned,
           c.op = "finish" => job'[c.on].effects > 0,
           \A e \in AlwaysSent : job'[<<"outbox", e>>].effects > 0 =>
              e \in inApp' /\ job'[<<"mail", e>>].status # "NONE"
    PROVE  IInv'
<1>1. /\ tick' = [tick EXCEPT ![x] = c]
      /\ tick' \in [Ticks -> Tick] /\ tick'[x] = c
      /\ \A y \in Ticks : y # x => tick'[y] = tick[y]
  BY DEF Become, IInv, Types
<1>2. Types'
  BY <1>1 DEF IInv, Types, RowFits, TickFits
<1>3. ASSUME NEW j \in Jobs
      PROVE  Owed(job'[j]) + Cardinality(AtWork(j)') <= 1 + job'[j].returned
  <2>1. /\ Cardinality(AtWork(j)) \in Nat
        /\ Cardinality(AtWork(j)') = Cardinality(AtWork(j)) - Doing(tick[x], j) + Doing(c, j)
    BY <1>1, AtWorkMoves DEF IInv
  <2>2. /\ Doing(c, j) \in {0, 1} /\ Doing(tick[x], j) \in {0, 1}
        /\ Owed(job[j]) \in Nat /\ Owed(job'[j]) \in Nat
        /\ job[j].returned \in Nat /\ job'[j].returned \in Nat
    BY DEF Doing, Owed, IInv, Types, JobRow
  <2>3. Owed(job[j]) + Cardinality(AtWork(j)) <= 1 + job[j].returned
    BY DEF IInv, Counted
  <2>4. CASE Owed(job'[j]) + Doing(c, j) + job[j].returned
                <= Owed(job[j]) + Doing(tick[x], j) + job'[j].returned
    BY <2>1, <2>2, <2>3, <2>4
  <2>5. CASE job[j].status = "NONE" /\ Owed(job'[j]) + Doing(c, j) <= 1 + job'[j].returned
    <3>1. AtWork(j) = {} /\ Doing(tick[x], j) = 0
      BY <2>5 DEF IInv, Evidence, AtWork, Doing
    <3>2. Cardinality(AtWork(j)) = 0
      BY <3>1, FS_EmptySet
    <3> QED
      BY <2>1, <2>2, <2>5, <3>1, <3>2
  <2> QED
    BY <2>4, <2>5
<1>4. Counted'
  BY <1>3 DEF Counted, Owed, AtWork
<1>5. Evidence'
  <2>1. ASSUME NEW j \in Jobs, job'[j].status = "NONE"
        PROVE  job'[j].effects = 0 /\ \A y \in Ticks : tick'[y].op # "idle" => tick'[y].on # j
    BY <1>1, <2>1 DEF IInv, Evidence
  <2>2. ASSUME NEW y \in Ticks, tick'[y].op = "finish"
        PROVE  job'[tick'[y].on].effects > 0
    <3>1. CASE y = x
      BY <1>1, <2>2, <3>1
    <3>2. CASE y # x
      <4>1. tick'[y] = tick[y] /\ tick[y].on \in Jobs /\ job[tick[y].on].effects > 0
        BY <1>1, <2>2, <3>2 DEF IInv, Types, TickFits, Evidence
      <4>2. job[tick[y].on].effects \in Nat /\ job'[tick[y].on].effects \in Nat
        BY <4>1 DEF IInv, Types, JobRow
      <4> QED
        BY <4>1, <4>2
    <3> QED
      BY <3>1, <3>2
  <2> QED
    BY <2>1, <2>2 DEF Evidence
<1> QED
  BY <1>2, <1>4, <1>5 DEF IInv

(* The new record of a tick and the new row it writes go together. *)
Owes(x, c, j, row) ==
    /\ RowFits(row, j[1]) /\ row.status # "NONE" /\ job[j].status # "NONE"
    /\ \A k \in Jobs : k # j => Doing(c, k) <= Doing(tick[x], k)
    /\ Owed(row) + Doing(c, j) + job[j].returned <= Owed(job[j]) + Doing(tick[x], j) + row.returned
    /\ c.op # "idle" => c.on = j
    /\ job[j].effects <= row.effects
    /\ c.op = "finish" => row.effects > 0
    /\ \A e \in AlwaysSent : j = <<"outbox", e>> /\ row.effects > 0 =>
          e \in inApp /\ job[<<"mail", e>>].status # "NONE"

(* A step of one tick that writes one row, and makes none. *)
LEMMA RowStep ==
    ASSUME IInv, NEW x \in Ticks, NEW c \in Tick, Become(x, c), TickFits(c, x),
           NEW j \in Jobs, NEW row \in JobRow, job' = [job EXCEPT ![j] = row],
           troubles' \in 0 .. MaxTroubles, UNCHANGED inApp,
           Owes(x, c, j, row)
    PROVE  IInv'
<1>1. \A k \in Jobs : job'[k] = IF k = j THEN row ELSE job[k]
  BY DEF IInv, Types
<1>2. job' \in [Jobs -> JobRow] /\ job[j].effects <= row.effects
  BY DEF IInv, Types, Owes
<1>3. \A k \in Jobs :
         /\ RowFits(job'[k], k[1])
         /\ job[k].effects <= job'[k].effects
         /\ job'[k].status = "NONE" => job'[k] = job[k] /\ (c.op # "idle" => c.on # k)
  BY <1>1 DEF IInv, Types, JobRow, Owes
<1>4. ASSUME NEW k \in Jobs
      PROVE  Owed(job'[k]) + Doing(c, k) + job[k].returned
                <= Owed(job[k]) + Doing(tick[x], k) + job'[k].returned
  <2>1. CASE k = j
    BY <1>1, <2>1 DEF Owes
  <2>2. CASE k # j
    <3>1. job'[k] = job[k] /\ Owed(job[k]) \in Nat /\ job[k].returned \in Nat
      BY <1>1, <2>2 DEF IInv, Types, JobRow, Owed
    <3>2. Doing(c, k) <= Doing(tick[x], k) /\ Doing(c, k) \in Nat /\ Doing(tick[x], k) \in Nat
      BY <2>2 DEF Doing, Owes
    <3> QED
      BY <3>1, <3>2
  <2> QED
    BY <2>1, <2>2
<1>5. c.op = "finish" => job'[c.on].effects > 0
  BY <1>1 DEF Owes
<1>6. ASSUME NEW e \in AlwaysSent, job'[<<"outbox", e>>].effects > 0
      PROVE  e \in inApp' /\ job'[<<"mail", e>>].status # "NONE"
  <2>1. <<"outbox", e>> \in Jobs /\ <<"mail", e>> \in Jobs
    BY DeliveryAssumption DEF Jobs, Queues
  <2>2. e \in inApp /\ job[<<"mail", e>>].status # "NONE"
    BY <1>1, <1>6, <2>1 DEF IInv, Evidence, Owes
  <2> QED
    BY <1>1, <2>1, <2>2 DEF Owes
<1> QED
  BY <1>2, <1>3, <1>4, <1>5, <1>6, TickStep DEF IInv, Types

(* A step of one tick that writes no row. *)
LEMMA TickOnly ==
    ASSUME IInv, NEW x \in Ticks, NEW c \in Tick, Become(x, c), TickFits(c, x),
           UNCHANGED <<job, inApp>>, troubles' \in 0 .. MaxTroubles,
           c.op \notin {"work", "finish"},
           c.op # "idle" => job[c.on].status # "NONE"
    PROVE  IInv'
<1>1. ASSUME NEW j \in Jobs
      PROVE  /\ RowFits(job'[j], j[1])
             /\ job[j].effects <= job'[j].effects
             /\ job'[j].status = "NONE" => job'[j] = job[j] /\ (c.op # "idle" => c.on # j)
             /\ Owed(job'[j]) + Doing(c, j) + job[j].returned
                   <= Owed(job[j]) + Doing(tick[x], j) + job'[j].returned
  <2>1. /\ Owed(job[j]) \in Nat /\ job[j].returned \in Nat /\ job[j].effects \in Nat
        /\ Doing(c, j) = 0 /\ Doing(tick[x], j) \in Nat
    BY DEF IInv, Types, JobRow, Owed, Doing
  <2>2. RowFits(job[j], j[1])
    BY DEF IInv, Types
  <2> QED
    BY <2>1, <2>2
<1>2. inApp \subseteq inApp' /\ inApp' \subseteq Events /\ job' \in [Jobs -> JobRow]
  BY DEF IInv, Types
<1>3. \A e \in AlwaysSent : job'[<<"outbox", e>>].effects > 0 =>
         e \in inApp' /\ job'[<<"mail", e>>].status # "NONE"
  BY DEF IInv, Evidence
<1> QED
  BY <1>1, <1>2, <1>3, TickStep

------------------------------------------------------------------------------
(* What a tick knows of the row it is about. *)
LEMMA Facts ==
    ASSUME IInv, NEW x \in Ticks, tick[x].op # "idle"
    PROVE  /\ tick[x].on \in Jobs /\ job[tick[x].on] \in JobRow /\ tick[x] \in Tick
           /\ tick[x].on[1] = x[1] /\ tick[x].seen \in Nat
           /\ tick[x].seen < MaxAttempts[x[1]] /\ MaxAttempts[x[1]] \in Nat \ {0}
           /\ RowFits(job[tick[x].on], x[1])
           /\ job[tick[x].on].status # "NONE"
           /\ troubles \in 0 .. MaxTroubles
           /\ \A e \in AlwaysSent : tick[x].on = <<"outbox", e>> /\ job[tick[x].on].effects > 0 =>
                 e \in inApp /\ job[<<"mail", e>>].status # "NONE"
<1>1. /\ tick[x].on \in Jobs /\ tick[x] \in Tick /\ tick[x].on[1] = x[1]
      /\ tick[x].seen < MaxAttempts[x[1]] /\ tick[x].seen \in Nat
      /\ troubles \in 0 .. MaxTroubles
  BY DEF IInv, Types, TickFits, Tick
<1>2. x[1] \in Queues
  BY DEF Ticks
<1>3. job[tick[x].on] \in JobRow /\ RowFits(job[tick[x].on], x[1])
  BY <1>1 DEF IInv, Types
<1>4. job[tick[x].on].status # "NONE"
  BY <1>1 DEF IInv, Evidence
<1> QED
  BY <1>1, <1>2, <1>3, <1>4, DeliveryAssumption DEF IInv, Evidence

(* Looking for a row. *)
LEMMA LookKeeps ==
    ASSUME IInv, NEW x \in Ticks, NEW j \in Jobs, LookStale(x, j) \/ Look(x, j)
    PROVE  IInv'
<1> DEFINE c(op) == [op |-> op, on |-> j, seen |-> job[j].attempts]
<1>1. /\ j[1] = x[1] /\ job[j].status \in {"PROCESSING", "PENDING"}
      /\ UNCHANGED <<job, inApp, troubles>> /\ troubles \in 0 .. MaxTroubles
      /\ job[j] \in JobRow /\ RowFits(job[j], j[1])
  <2>1. j[1] = x[1]
    BY DEF LookStale, Look, Jobs, Ticks
  <2> QED
    BY <2>1 DEF LookStale, Look, IInv, Types
<1>2. /\ c("reclaim") \in Tick /\ c("claim") \in Tick
      /\ TickFits(c("reclaim"), x) /\ TickFits(c("claim"), x)
  BY <1>1 DEF Tick, TickFits, RowFits, JobRow
<1>3. Become(x, c("reclaim")) \/ Become(x, c("claim"))
  BY DEF LookStale, Look
<1> QED
  BY <1>1, <1>2, <1>3, TickOnly

(* The claim. *)
LEMMA ClaimKeeps ==
    ASSUME IInv, NEW x \in Ticks, Claim(x)
    PROVE  IInv'
<1> DEFINE j == tick[x].on
           claimed == [job[j] EXCEPT !.status = "PROCESSING"]
           row == [claimed EXCEPT !.old = FALSE]
           c == [tick[x] EXCEPT !.op = "work"]
<1>1. tick[x].op = "claim" /\ UNCHANGED <<inApp, troubles>>
  BY DEF Claim, At
<1>2. CASE job[j].status = "PENDING" /\ Goto(x, "work")
           /\ job' = [job EXCEPT ![j].status = "PROCESSING", ![j].old = FALSE]
  <2>1. job' = [job EXCEPT ![j] = row] /\ Become(x, c)
    BY <1>1, <1>2, Facts DEF Goto
  <2>2. /\ c \in Tick /\ TickFits(c, x) /\ c.op = "work" /\ c.on = j
    BY <1>1, Facts DEF Tick, TickFits
  <2>3. claimed \in JobRow /\ claimed.status = "PROCESSING" /\ claimed.effects = job[j].effects
        /\ claimed.attempts = job[j].attempts /\ claimed.returned = job[j].returned
    BY <1>1, Facts DEF JobRow
  <2>4. row \in JobRow /\ row.status = "PROCESSING" /\ row.effects = job[j].effects
        /\ row.attempts = job[j].attempts /\ row.returned = job[j].returned
    <3> HIDE DEF claimed
    <3> QED
      BY <2>3 DEF JobRow
  <2>5. RowFits(row, j[1])
    BY <1>1, <1>2, <2>4, Facts DEF RowFits
  <2>6. Doing(c, j) = 1 /\ Doing(tick[x], j) = 0 /\ \A k \in Jobs : k # j => Doing(c, k) <= Doing(tick[x], k)
    BY <1>1, <2>2 DEF Doing
  <2>7. Owed(row) + 1 = Owed(job[j]) /\ Owed(row) \in Nat /\ Owed(job[j]) \in Nat
        /\ job[j].effects \in Nat /\ job[j].returned \in Nat
    <3>1. job[j] \in JobRow
      BY <1>1, Facts
    <3> HIDE DEF row, j
    <3> QED
      BY <1>2, <2>4, <3>1 DEF Owed, JobRow
  <2> HIDE DEF row, c
  <2>8. Owed(row) + Doing(c, j) + job[j].returned <= Owed(job[j]) + Doing(tick[x], j) + row.returned
    BY <2>4, <2>6, <2>7
  <2>9. Owes(x, c, j, row)
    <3>1. \A e \in AlwaysSent : j = <<"outbox", e>> /\ job[j].effects > 0 =>
             e \in inApp /\ job[<<"mail", e>>].status # "NONE"
      BY <1>1, Facts
    <3>2. job[j].status # "NONE"
      BY <1>1, Facts
    <3> HIDE DEF j
    <3> QED
      BY <2>2, <2>4, <2>5, <2>6, <2>7, <2>8, <3>1, <3>2 DEF Owes
  <2>10. j \in Jobs /\ troubles' \in 0 .. MaxTroubles
    BY <1>1, Facts
  <2> HIDE DEF j
  <2> QED
    BY <1>1, <2>1, <2>2, <2>4, <2>9, <2>10, RowStep
<1>3. CASE Become(x, Idle) /\ UNCHANGED job
  <2>1. Idle \in Tick /\ TickFits(Idle, x) /\ Idle.op = "idle"
    BY DEF Idle, Tick, TickFits
  <2> QED
    BY <1>1, <1>3, <2>1, Facts, TickOnly
<1> QED
  BY <1>2, <1>3 DEF Claim

(* A claimed row is worked off: the tick gives up its claim, and the row   *)
(* may have an effect more.                                                *)
LEMMA Worked ==
    ASSUME IInv, NEW x \in Ticks, tick[x].op = "work", NEW op \in {"finish", "fail"}
    PROVE  LET j == tick[x].on
               c == [tick[x] EXCEPT !.op = op]
               row == Performed(job[j])
           IN  /\ c \in Tick /\ TickFits(c, x) /\ c.op = op /\ c.on = j
               /\ \A k \in Jobs : Doing(c, k) = 0
               /\ Doing(tick[x], j) = 1
               /\ row \in JobRow /\ row.status = job[j].status /\ row.returned = job[j].returned
               /\ row.effects = job[j].effects + 1 /\ row.effects > 0
               /\ RowFits(row, j[1])
               /\ Owed(row) = Owed(job[j]) + 1 /\ Owed(job[j]) \in Nat
               /\ job[j].effects \in Nat /\ job[j].returned \in Nat
<1> DEFINE j == tick[x].on
           c == [tick[x] EXCEPT !.op = op]
           row == Performed(job[j])
<1>1. c \in Tick /\ TickFits(c, x) /\ c.op = op /\ c.on = j
  BY Facts DEF Tick, TickFits
<1>2. /\ row \in JobRow /\ row.status = job[j].status /\ row.returned = job[j].returned
      /\ row.effects = job[j].effects + 1 /\ row.attempts = job[j].attempts
      /\ job[j].effects \in Nat /\ job[j].returned \in Nat
  BY Facts DEF JobRow, Performed
<1>3. \A k \in Jobs : Doing(c, k) = 0
  BY <1>1 DEF Doing
<1>4. Doing(tick[x], j) = 1
  BY DEF Doing
<1>5. RowFits(row, j[1])
  <2>1. RowFits(job[j], j[1])
    BY Facts
  <2> HIDE DEF row, j
  <2> QED
    BY <1>2, <2>1 DEF RowFits
<1>6. Owed(row) = Owed(job[j]) + 1 /\ Owed(job[j]) \in Nat
  BY <1>2 DEF Owed
<1> QED
  BY <1>1, <1>2, <1>3, <1>4, <1>5, <1>6

(* The mail server takes a mail, or not. *)
LEMMA SendKeeps ==
    ASSUME IInv, NEW x \in Ticks, Send(x)
    PROVE  IInv'
<1> DEFINE j == tick[x].on
           c(op) == [tick[x] EXCEPT !.op = op]
<1>1. tick[x].op = "work" /\ UNCHANGED <<inApp, troubles>> /\ x[1] = "mail"
  BY DEF Send, At
<1>2. /\ j \in Jobs /\ j[1] = "mail" /\ job[j].status # "NONE" /\ troubles \in 0 .. MaxTroubles
  BY <1>1, Facts
<1>3. CASE job' = [job EXCEPT ![j] = Performed(job[j])] /\ (Goto(x, "finish") \/ Goto(x, "fail"))
  <2>1. PICK op \in {"finish", "fail"} : Become(x, c(op))
    BY <1>3 DEF Goto
  <2>2. /\ c(op) \in Tick /\ TickFits(c(op), x) /\ c(op).op = op /\ c(op).on = j
        /\ \A k \in Jobs : Doing(c(op), k) = 0
        /\ Doing(tick[x], j) = 1
        /\ Performed(job[j]) \in JobRow /\ Performed(job[j]).status = job[j].status
        /\ Performed(job[j]).returned = job[j].returned
        /\ Performed(job[j]).effects = job[j].effects + 1 /\ Performed(job[j]).effects > 0
        /\ RowFits(Performed(job[j]), j[1])
        /\ Owed(Performed(job[j])) = Owed(job[j]) + 1 /\ Owed(job[j]) \in Nat
        /\ job[j].effects \in Nat /\ job[j].returned \in Nat
    BY <1>1, Worked
  <2>3. \A k \in Jobs : Doing(tick[x], k) \in Nat
    BY DEF Doing
  <2>4. \A e \in AlwaysSent : j # <<"outbox", e>>
    BY <1>2
  <2> HIDE DEF c, j
  <2>5. Owes(x, c(op), j, Performed(job[j]))
    BY <1>2, <2>2, <2>3, <2>4 DEF Owes
  <2> QED
    BY <1>1, <1>2, <1>3, <2>1, <2>2, <2>5, RowStep
<1>4. CASE Goto(x, "fail") /\ UNCHANGED job
  <2>1. Become(x, c("fail")) /\ c("fail") \in Tick /\ TickFits(c("fail"), x)
        /\ c("fail").op = "fail" /\ c("fail").on = j
    BY <1>1, <1>4, Worked DEF Goto
  <2> HIDE DEF c
  <2> QED
    BY <1>1, <1>2, <1>4, <2>1, TickOnly
<1> QED
  BY <1>1, <1>3, <1>4 DEF Send

(* A row that was not there is made. *)
LEMMA Made ==
    ASSUME IInv, NEW k \in Jobs, job[k].status = "NONE"
    PROVE  LET row == Fresh(job[k])
           IN  /\ row \in JobRow /\ row.status = "PENDING" /\ row.effects = 0
               /\ row.returned = job[k].returned /\ row.returned \in Nat
               /\ RowFits(row, k[1]) /\ Owed(row) = 1 /\ job[k].effects = 0
<1> DEFINE row == Fresh(job[k])
<1>1. job[k] \in JobRow /\ job[k].attempts = 0 /\ job[k].effects = 0
  BY DEF IInv, Types, RowFits, Evidence
<1>2. /\ row \in JobRow /\ row.status = "PENDING" /\ row.effects = 0 /\ row.attempts = 0
      /\ row.returned = job[k].returned /\ row.returned \in Nat
  BY <1>1 DEF JobRow, Fresh
<1>3. k[1] \in Queues
  BY DEF Jobs
<1>4. MaxAttempts[k[1]] \in Nat \ {0}
  BY <1>3, DeliveryAssumption
<1> QED
  BY <1>1, <1>2, <1>4 DEF RowFits, Owed

(* The dispatch of an event: it may make the row of a mail, whether it     *)
(* fails or not.                                                           *)
LEMMA DispatchKeeps ==
    ASSUME IInv, NEW x \in Ticks, Dispatch(x)
    PROVE  IInv'
<1> DEFINE j == tick[x].on
           e == j[2]
           mail == <<"mail", e>>
           wanted == IF e \in AlwaysSent THEN {{"IN_APP", "EMAIL"}} ELSE SUBSET {"IN_APP", "EMAIL"}
           Queued(row) == IF row.status = "NONE" THEN Fresh(row) ELSE row
           c(op) == [tick[x] EXCEPT !.op = op]
<1>1. /\ tick[x].op = "work" /\ x[1] = "outbox" /\ UNCHANGED troubles
  BY DEF Dispatch, At
<1>2. /\ j = <<"outbox", e>> /\ e \in Events /\ j \in Jobs /\ mail \in Jobs /\ mail # j
      /\ job[j].status # "NONE" /\ troubles \in 0 .. MaxTroubles
  BY <1>1, Facts DEF Jobs, Queues
<1>3. PICK want \in wanted, fails \in BOOLEAN :
        \E made \in IF fails THEN {{}, want \cap {"IN_APP"}, want} ELSE {want} :
           /\ inApp' = IF "IN_APP" \in made THEN inApp \cup {e} ELSE inApp
           /\ job' = [job EXCEPT ![mail] = IF "EMAIL" \in made THEN Queued(job[mail]) ELSE job[mail],
                                 ![j] = IF fails THEN job[j] ELSE Performed(job[j])]
           /\ Become(x, c(IF fails THEN "fail" ELSE "finish"))
  BY <1>2 DEF Dispatch, Goto
<1>4. PICK made \in IF fails THEN {{}, want \cap {"IN_APP"}, want} ELSE {want} :
           /\ inApp' = IF "IN_APP" \in made THEN inApp \cup {e} ELSE inApp
           /\ job' = [job EXCEPT ![mail] = IF "EMAIL" \in made THEN Queued(job[mail]) ELSE job[mail],
                                 ![j] = IF fails THEN job[j] ELSE Performed(job[j])]
           /\ Become(x, c(IF fails THEN "fail" ELSE "finish"))
  BY <1>3
<1> DEFINE op == IF fails THEN "fail" ELSE "finish"
           jrow == IF fails THEN job[j] ELSE Performed(job[j])
           mrow == IF "EMAIL" \in made THEN Queued(job[mail]) ELSE job[mail]
<1>5. /\ c(op) \in Tick /\ TickFits(c(op), x) /\ c(op).op = op /\ c(op).on = j
      /\ \A k \in Jobs : Doing(c(op), k) = 0
      /\ Doing(tick[x], j) = 1
      /\ Performed(job[j]) \in JobRow /\ Performed(job[j]).status = job[j].status
      /\ Performed(job[j]).returned = job[j].returned
      /\ Performed(job[j]).effects = job[j].effects + 1 /\ Performed(job[j]).effects > 0
      /\ RowFits(Performed(job[j]), j[1])
      /\ Owed(Performed(job[j])) = Owed(job[j]) + 1 /\ Owed(job[j]) \in Nat
      /\ job[j].effects \in Nat /\ job[j].returned \in Nat
  BY <1>1, Worked
<1>6. /\ jrow \in JobRow /\ jrow.status # "NONE" /\ RowFits(jrow, j[1])
      /\ jrow.returned = job[j].returned /\ Owed(jrow) \in Nat /\ Owed(jrow) <= Owed(job[j]) + 1
      /\ job[j].effects <= jrow.effects
      /\ ~ fails => jrow.effects > 0
      /\ fails => jrow = job[j]
  <2>1. CASE fails
    <3>1. job[j] \in JobRow /\ RowFits(job[j], j[1])
      BY <1>2 DEF IInv, Types
    <3> QED
      BY <1>2, <1>5, <2>1, <3>1
  <2>2. CASE ~ fails
    <3> HIDE DEF j
    <3> QED
      BY <1>2, <1>5, <2>2
  <2> QED
    BY <2>1, <2>2
<1>7. CASE job[mail].status = "NONE" /\ "EMAIL" \in made
  <2>1. mrow = Fresh(job[mail])
    BY <1>7
  <2>2. /\ mrow \in JobRow /\ mrow.status = "PENDING" /\ mrow.effects = 0 /\ job[mail].effects = 0
        /\ mrow.returned \in Nat /\ RowFits(mrow, mail[1]) /\ Owed(mrow) = 1
    BY <1>2, <1>7, <2>1, Made
  <2> HIDE DEF mrow, jrow, c, mail, j, op
  <2>3. \A k \in Jobs : job'[k] = IF k = j THEN jrow ELSE IF k = mail THEN mrow ELSE job[k]
    BY <1>2, <1>4 DEF IInv, Types, mrow, jrow
  <2>4. job' \in [Jobs -> JobRow]
    BY <1>2, <1>4, <1>6, <2>2 DEF IInv, Types, mrow, jrow
  <2>5. ASSUME NEW k \in Jobs
        PROVE  /\ RowFits(job'[k], k[1])
               /\ job[k].effects <= job'[k].effects
               /\ job'[k].status = "NONE" => job'[k] = job[k] /\ (c(op).op # "idle" => c(op).on # k)
               /\ \/ Owed(job'[k]) + Doing(c(op), k) + job[k].returned
                        <= Owed(job[k]) + Doing(tick[x], k) + job'[k].returned
                  \/ job[k].status = "NONE" /\ Owed(job'[k]) + Doing(c(op), k) <= 1 + job'[k].returned
    <3>1. /\ Owed(job[k]) \in Nat /\ job[k].returned \in Nat /\ job[k].effects \in Nat
          /\ RowFits(job[k], k[1]) /\ Doing(tick[x], k) \in Nat
      BY DEF IInv, Types, JobRow, Owed, Doing
    <3>2. CASE k = j
      BY <1>5, <1>6, <2>3, <3>1, <3>2
    <3>3. CASE k = mail
      BY <1>2, <1>5, <1>7, <2>2, <2>3, <3>1, <3>3
    <3>4. CASE k # j /\ k # mail
      BY <1>5, <2>3, <3>1, <3>4
    <3> QED
      BY <3>2, <3>3, <3>4
  <2>6. mrow.status # "NONE"
    BY <2>2
  <2>7. ASSUME NEW a \in AlwaysSent, job'[<<"outbox", a>>].effects > 0
        PROVE  a \in inApp' /\ job'[<<"mail", a>>].status # "NONE"
    <3>1. a \in Events /\ <<"outbox", a>> \in Jobs /\ <<"mail", a>> \in Jobs
      BY DeliveryAssumption DEF Jobs, Queues
    <3>2. CASE a = e
      <4>1. <<"mail", a>> = mail /\ <<"outbox", a>> = j
        BY <1>2, <3>2 DEF mail, j
      <4>2. fails => e \in inApp
        BY <1>2, <1>6, <2>3, <2>7, <3>2, <4>1 DEF IInv, Evidence
      <4>3. ~ fails => "IN_APP" \in made
        BY <1>3, <1>4, <3>2
      <4> QED
        BY <1>2, <1>4, <2>3, <2>6, <3>2, <4>1, <4>2, <4>3
    <3>3. CASE a # e
      <4>1. <<"mail", a>> # mail /\ <<"outbox", a>> # j /\ <<"outbox", a>> # mail /\ <<"mail", a>> # j
        BY <1>2, <3>3 DEF mail, j
      <4>2. a \in inApp /\ job[<<"mail", a>>].status # "NONE"
        BY <2>3, <2>7, <3>1, <4>1 DEF IInv, Evidence
      <4> QED
        BY <1>4, <2>3, <3>1, <4>1, <4>2
    <3> QED
      BY <3>2, <3>3
  <2>8. c(op).op = "finish" => job'[c(op).on].effects > 0
    BY <1>2, <1>5, <1>6, <2>3 DEF op
  <2>9. inApp \subseteq inApp' /\ inApp' \subseteq Events /\ troubles' \in 0 .. MaxTroubles
    BY <1>1, <1>2, <1>4 DEF IInv, Types
  <2>10. Become(x, c(op))
    BY <1>4 DEF op
  <2> QED
    BY <1>5, <2>4, <2>5, <2>7, <2>8, <2>9, <2>10, TickStep
<1>8. CASE ~ (job[mail].status = "NONE" /\ "EMAIL" \in made)
  <2> HIDE DEF jrow, c, mail, j, op
  <2>1. \A k \in Jobs : job'[k] = IF k = j THEN jrow ELSE job[k]
    BY <1>2, <1>4, <1>8 DEF IInv, Types, jrow
  <2>2. job' \in [Jobs -> JobRow]
    <3>1. \A k \in Jobs : job'[k] \in JobRow
      BY <1>6, <2>1 DEF IInv, Types
    <3>2. job' = [k \in Jobs |-> job'[k]]
      BY <1>4 DEF IInv, Types
    <3> QED
      BY <3>1, <3>2
  <2>3. ASSUME NEW k \in Jobs
        PROVE  /\ RowFits(job'[k], k[1])
               /\ job[k].effects <= job'[k].effects
               /\ job'[k].status = "NONE" => job'[k] = job[k] /\ (c(op).op # "idle" => c(op).on # k)
               /\ Owed(job'[k]) + Doing(c(op), k) + job[k].returned
                     <= Owed(job[k]) + Doing(tick[x], k) + job'[k].returned
    <3>1. /\ Owed(job[k]) \in Nat /\ job[k].returned \in Nat /\ job[k].effects \in Nat
          /\ RowFits(job[k], k[1]) /\ Doing(tick[x], k) \in Nat
      BY DEF IInv, Types, JobRow, Owed, Doing
    <3>2. CASE k = j
      BY <1>5, <1>6, <2>1, <3>1, <3>2
    <3>3. CASE k # j
      BY <1>5, <2>1, <3>1, <3>3
    <3> QED
      BY <3>2, <3>3
  <2>4. ASSUME NEW a \in AlwaysSent, job'[<<"outbox", a>>].effects > 0
        PROVE  a \in inApp' /\ job'[<<"mail", a>>].status # "NONE"
    <3>1. a \in Events /\ <<"outbox", a>> \in Jobs /\ <<"mail", a>> \in Jobs /\ <<"mail", a>> # j
      BY <1>2, DeliveryAssumption DEF Jobs, Queues
    <3>2. CASE job[<<"outbox", a>>].effects > 0
      BY <1>4, <2>1, <3>1, <3>2 DEF IInv, Evidence
    <3>3. CASE ~ (job[<<"outbox", a>>].effects > 0)
      <4>1. <<"outbox", a>> = j /\ ~ fails
        BY <1>6, <2>1, <2>4, <3>1, <3>3
      <4>2. a = e
        BY <1>2, <4>1
      <4>3. made = {"IN_APP", "EMAIL"}
        BY <1>3, <1>4, <4>1, <4>2
      <4>4. job[mail].status # "NONE" /\ mail = <<"mail", a>>
        BY <1>8, <4>2, <4>3 DEF mail
      <4> QED
        BY <1>4, <2>1, <3>1, <4>2, <4>3, <4>4
    <3> QED
      BY <3>2, <3>3
  <2>5. c(op).op = "finish" => job'[c(op).on].effects > 0
    BY <1>2, <1>5, <1>6, <2>1 DEF op
  <2>6. inApp \subseteq inApp' /\ inApp' \subseteq Events /\ troubles' \in 0 .. MaxTroubles
    BY <1>1, <1>2, <1>4 DEF IInv, Types
  <2>7. Become(x, c(op))
    BY <1>4 DEF op
  <2> QED
    BY <1>5, <2>2, <2>3, <2>4, <2>5, <2>6, <2>7, TickStep
<1> QED
  BY <1>7, <1>8

(* The outcome is written, or the update fails. *)
LEMMA FinishKeeps ==
    ASSUME IInv, NEW x \in Ticks, Finish(x)
    PROVE  IInv'
<1> DEFINE j == tick[x].on
           done == [job[j] EXCEPT !.status = "DONE"]
           row == [done EXCEPT !.old = FALSE]
           c == [tick[x] EXCEPT !.op = "fail"]
<1>1. /\ tick[x].op = "finish" /\ UNCHANGED <<inApp, troubles>>
      /\ j \in Jobs /\ job[j] \in JobRow /\ job[j].status # "NONE" /\ RowFits(job[j], j[1])
      /\ troubles \in 0 .. MaxTroubles /\ job[j].effects > 0
  BY Facts DEF Finish, At, IInv, Evidence
<1>2. CASE Become(x, Idle) /\ job' = [job EXCEPT ![j].status = "DONE", ![j].old = FALSE]
  <2>1. job' = [job EXCEPT ![j] = row]
    BY <1>1, <1>2
  <2>2. /\ done \in JobRow /\ done.status = "DONE" /\ done.effects = job[j].effects
        /\ done.attempts = job[j].attempts /\ done.returned = job[j].returned
    BY <1>1 DEF JobRow
  <2>3. /\ row \in JobRow /\ row.status = "DONE" /\ row.effects = job[j].effects
        /\ row.attempts = job[j].attempts /\ row.returned = job[j].returned
    <3> HIDE DEF done
    <3> QED
      BY <2>2 DEF JobRow
  <2>4. Idle \in Tick /\ TickFits(Idle, x) /\ Idle.op = "idle"
    BY DEF Idle, Tick, TickFits
  <2> HIDE DEF row
  <2>5. RowFits(row, j[1])
    BY <1>1, <2>3 DEF RowFits
  <2>6. /\ Owed(row) <= Owed(job[j]) /\ Owed(row) \in Nat /\ Owed(job[j]) \in Nat
        /\ job[j].effects \in Nat /\ job[j].returned \in Nat
    BY <1>1, <2>3 DEF Owed, JobRow
  <2>7. \A k \in Jobs : Doing(Idle, k) = 0 /\ Doing(tick[x], k) = 0
    BY <1>1, <2>4 DEF Doing
  <2>8. Owes(x, Idle, j, row)
    <3>1. \A e \in AlwaysSent : j = <<"outbox", e>> /\ job[j].effects > 0 =>
             e \in inApp /\ job[<<"mail", e>>].status # "NONE"
      BY <1>1, Facts
    <3> HIDE DEF j
    <3> QED
      BY <1>1, <2>3, <2>4, <2>5, <2>6, <2>7, <3>1 DEF Owes
  <2> HIDE DEF j
  <2> QED
    BY <1>1, <1>2, <2>1, <2>3, <2>4, <2>8, RowStep
<1>3. CASE Goto(x, "fail") /\ UNCHANGED job
  <2>1. Become(x, c) /\ c \in Tick /\ TickFits(c, x) /\ c.op = "fail" /\ c.on = j
    BY <1>1, <1>3, Facts DEF Goto, Tick, TickFits
  <2> HIDE DEF c
  <2> QED
    BY <1>1, <1>3, <2>1, TickOnly
<1> QED
  BY <1>2, <1>3 DEF Finish

(* What handleFailure() makes of a row. *)
LEMMA RetriedRow ==
    ASSUME NEW row \in JobRow, NEW q \in Queues, NEW n \in Nat \ {0}, n <= MaxAttempts[q]
    PROVE  LET new == Retried(row, q, n)
           IN  /\ new \in JobRow /\ new.status # "NONE" /\ RowFits(new, q)
               /\ new.effects = row.effects
               /\ Owed(new) + row.returned <= Owed(row) + new.returned
<1> DEFINE new == Retried(row, q, n)
           last == n >= MaxAttempts[q]
<1>1. MaxAttempts[q] \in Nat \ {0} /\ row.returned \in Nat /\ row.effects \in Nat
  BY DeliveryAssumption DEF JobRow
<1>2. /\ new.status = IF last THEN "FAILED" ELSE "PENDING"
      /\ new.attempts = n /\ new.effects = row.effects
      /\ new.returned = row.returned + (IF last THEN 0 ELSE 1)
  BY DEF Retried
<1>3. new \in JobRow
  BY <1>1 DEF Retried, JobRow
<1>4. RowFits(new, q) /\ Owed(new) + row.returned <= Owed(row) + new.returned
  <2> HIDE DEF new
  <2>1. CASE last
    BY <1>1, <1>2, <2>1 DEF RowFits, Owed
  <2>2. CASE ~ last
    BY <1>1, <1>2, <2>2 DEF RowFits, Owed
  <2> QED
    BY <2>1, <2>2
<1> QED
  BY <1>2, <1>3, <1>4

(* A row goes back, or is given up. *)
LEMMA PutBackKeeps ==
    ASSUME IInv, NEW x \in Ticks, PutBack(x)
    PROVE  IInv'
<1> DEFINE j == tick[x].on
           row == Retried(job[j], j[1], tick[x].seen + 1)
<1>1. /\ tick[x].op \in {"fail", "reclaim"} /\ UNCHANGED <<inApp, troubles>>
      /\ Become(x, Idle) /\ job' = [job EXCEPT ![j] = row]
  BY DEF PutBack, At
<1>2. /\ j \in Jobs /\ job[j] \in JobRow /\ job[j].status # "NONE" /\ troubles \in 0 .. MaxTroubles
      /\ tick[x].seen + 1 \in Nat \ {0} /\ tick[x].seen + 1 <= MaxAttempts[j[1]]
  BY <1>1, Facts
<1>3. j[1] \in Queues
  BY <1>2 DEF Jobs
<1>4. /\ row \in JobRow /\ row.status # "NONE" /\ RowFits(row, j[1])
      /\ row.effects = job[j].effects
      /\ Owed(row) + job[j].returned <= Owed(job[j]) + row.returned
  BY <1>2, <1>3, RetriedRow
<1>5. Idle \in Tick /\ TickFits(Idle, x) /\ Idle.op = "idle"
  BY DEF Idle, Tick, TickFits
<1>6. \A k \in Jobs : Doing(Idle, k) = 0 /\ Doing(tick[x], k) = 0
  BY <1>1, <1>5 DEF Doing
<1> HIDE DEF row
<1>7. /\ Owed(row) \in Nat /\ Owed(job[j]) \in Nat
      /\ job[j].effects \in Nat /\ job[j].returned \in Nat /\ row.returned \in Nat
  BY <1>2, <1>4 DEF Owed, JobRow
<1>8. Owes(x, Idle, j, row)
  <2>1. \A e \in AlwaysSent : j = <<"outbox", e>> /\ job[j].effects > 0 =>
           e \in inApp /\ job[<<"mail", e>>].status # "NONE"
    BY <1>1, Facts
  <2> HIDE DEF j
  <2> QED
    BY <1>2, <1>4, <1>5, <1>6, <1>7, <2>1 DEF Owes
<1> HIDE DEF j
<1> QED
  BY <1>1, <1>2, <1>4, <1>5, <1>8, RowStep

(* A tick is lost. *)
LEMMA LostKeeps ==
    ASSUME IInv, NEW x \in Ticks, Lost(x)
    PROVE  IInv'
<1>1. Idle \in Tick /\ TickFits(Idle, x) /\ Idle.op = "idle"
  BY DEF Idle, Tick, TickFits
<1>2. troubles' \in 0 .. MaxTroubles
  BY DeliveryAssumption DEF Lost, IInv, Types
<1> QED
  BY <1>1, <1>2, TickOnly DEF Lost

(* Two steps change a row but no tick. *)
LEMMA RowOnly ==
    ASSUME IInv, NEW j \in Jobs, NEW row \in JobRow, job' = [job EXCEPT ![j] = row],
           UNCHANGED <<inApp, tick>>, troubles' \in 0 .. MaxTroubles,
           RowFits(row, j[1]), row.status # "NONE", row.effects = job[j].effects,
           \/ Owed(row) + job[j].returned <= Owed(job[j]) + row.returned
           \/ job[j].status = "NONE" /\ Owed(row) <= 1 + row.returned
    PROVE  IInv'
<1>1. \A k \in Jobs : job'[k] = IF k = j THEN row ELSE job[k]
  BY DEF IInv, Types
<1>2. Types'
  BY <1>1 DEF IInv, Types, RowFits, TickFits
<1>3. \A k \in Jobs : AtWork(k)' = AtWork(k)
  BY DEF AtWork
<1>4. ASSUME NEW k \in Jobs
      PROVE  Owed(job'[k]) + Cardinality(AtWork(k)) <= 1 + job'[k].returned
  <2>1. Owed(job[k]) + Cardinality(AtWork(k)) <= 1 + job[k].returned
    BY DEF IInv, Counted
  <2>2. CASE k # j
    BY <1>1, <2>1, <2>2
  <2>3. CASE k = j /\ Owed(row) + job[j].returned <= Owed(job[j]) + row.returned
    <3>3. Cardinality(AtWork(j)) \in Nat
      BY WorkIsFinite
    <3>4. /\ Owed(row) \in Nat /\ Owed(job[j]) \in Nat
          /\ job[j].returned \in Nat /\ row.returned \in Nat
      BY DEF IInv, Types, JobRow, Owed
    <3> QED
      BY <1>1, <2>1, <2>3, <3>3, <3>4
  <2>4. CASE k = j /\ job[j].status = "NONE" /\ Owed(row) <= 1 + row.returned
    <3>1. AtWork(j) = {}
      BY <2>4 DEF IInv, Evidence, AtWork
    <3>2. Cardinality(AtWork(j)) = 0 /\ Owed(row) \in Nat /\ row.returned \in Nat
      BY <3>1, FS_EmptySet DEF JobRow, Owed
    <3> QED
      BY <1>1, <2>4, <3>2
  <2> QED
    BY <2>2, <2>3, <2>4
<1>5. Counted'
  BY <1>3, <1>4 DEF Counted, Owed
<1>6. Evidence'
  <2>1. \A k \in Jobs : job'[k].effects = job[k].effects /\ (job'[k].status = "NONE" => job[k].status = "NONE")
    BY <1>1
  <2>2. \A a \in AlwaysSent : <<"outbox", a>> \in Jobs /\ <<"mail", a>> \in Jobs
    BY DeliveryAssumption DEF Jobs, Queues
  <2>3. \A x \in Ticks : tick[x].op = "finish" => tick[x].on \in Jobs
    BY DEF IInv, Types, TickFits
  <2> QED
    BY <2>1, <2>2, <2>3 DEF IInv, Evidence
<1> QED
  BY <1>2, <1>5, <1>6 DEF IInv

(* An event is recorded. *)
LEMMA PublishKeeps ==
    ASSUME IInv, NEW e \in Events, Publish(e)
    PROVE  IInv'
<1> DEFINE j == <<"outbox", e>>
           row == Fresh(job[j])
<1>1. /\ j \in Jobs /\ job[j].status = "NONE" /\ job' = [job EXCEPT ![j] = row]
      /\ UNCHANGED <<inApp, tick>> /\ troubles' \in 0 .. MaxTroubles
  BY DEF Publish, Jobs, Queues, IInv, Types
<1>2. /\ row \in JobRow /\ row.status = "PENDING" /\ row.effects = 0
      /\ row.returned \in Nat /\ RowFits(row, j[1]) /\ Owed(row) = 1 /\ job[j].effects = 0
  BY <1>1, Made
<1> HIDE DEF row, j
<1>3. Owed(row) <= 1 + row.returned
  BY <1>2
<1> QED
  BY <1>1, <1>2, <1>3, RowOnly

(* Time passes. *)
LEMMA AgeKeeps ==
    ASSUME IInv, NEW j \in Jobs, Age(j)
    PROVE  IInv'
<1> DEFINE row == [job[j] EXCEPT !.old = TRUE]
<1>1. /\ job' = [job EXCEPT ![j] = row] /\ UNCHANGED <<inApp, tick>>
      /\ job[j].status = "PROCESSING" /\ job[j] \in JobRow /\ RowFits(job[j], j[1])
  BY DEF Age, IInv, Types
<1>2. troubles' \in 0 .. MaxTroubles
  BY DeliveryAssumption DEF Age, IInv, Types
<1>3. /\ row \in JobRow /\ row.status = "PROCESSING" /\ row.effects = job[j].effects
      /\ row.attempts = job[j].attempts /\ row.returned = job[j].returned /\ row.returned \in Nat
  BY <1>1 DEF JobRow
<1> HIDE DEF row
<1>4. RowFits(row, j[1]) /\ Owed(row) = Owed(job[j]) /\ Owed(row) \in Nat
  BY <1>1, <1>3 DEF RowFits, Owed, JobRow
<1>5. Owed(row) + job[j].returned <= Owed(job[j]) + row.returned
  BY <1>3, <1>4
<1> QED
  BY <1>1, <1>2, <1>3, <1>4, <1>5, RowOnly

------------------------------------------------------------------------------
(* The theorems.                                                           *)

(* The queues begin empty. *)
LEMMA InitIInv == Init => IInv
<1> SUFFICES ASSUME Init
             PROVE  IInv
  OBVIOUS
<1>1. ASSUME NEW j \in Jobs
      PROVE  job[j] \in JobRow /\ RowFits(job[j], j[1]) /\ job[j].status = "NONE"
             /\ job[j].effects = 0 /\ job[j].returned = 0
  <2>1. MaxAttempts[j[1]] \in Nat \ {0}
    BY DeliveryAssumption DEF Jobs
  <2> QED
    BY <2>1 DEF Init, JobRow, RowFits
<1>2. ASSUME NEW x \in Ticks PROVE tick[x] \in Tick /\ TickFits(tick[x], x) /\ tick[x].op = "idle"
  BY DEF Init, Tick, TickFits, Idle
<1>3. Types
  <2>1. job = [j \in Jobs |-> job[j]] /\ tick = [x \in Ticks |-> tick[x]]
    BY DEF Init
  <2>2. job \in [Jobs -> JobRow] /\ tick \in [Ticks -> Tick]
    BY <1>1, <1>2, <2>1
  <2> QED
    BY <1>1, <1>2, <2>2, DeliveryAssumption DEF Init, Types
<1>4. Counted
  <2>1. ASSUME NEW j \in Jobs PROVE Cardinality(AtWork(j)) = 0
    <3>1. AtWork(j) = {}
      BY <1>2 DEF AtWork
    <3> QED
      BY <3>1, FS_EmptySet
  <2> QED
    BY <1>1, <2>1 DEF Counted, Owed
<1>5. Evidence
  <2>1. \A a \in AlwaysSent : <<"outbox", a>> \in Jobs
    BY DeliveryAssumption DEF Jobs, Queues
  <2> QED
    BY <1>1, <1>2, <2>1 DEF Evidence
<1> QED
  BY <1>3, <1>4, <1>5 DEF IInv

(* Every step keeps the invariant. *)
LEMMA NextIInv == IInv /\ [Next]_vars => IInv'
<1> SUFFICES ASSUME IInv, [Next]_vars
             PROVE  IInv'
  OBVIOUS
<1>1. ASSUME NEW e \in Events, Publish(e) PROVE IInv'
  BY <1>1, PublishKeeps
<1>2. ASSUME NEW x \in Ticks, NEW j \in Jobs, LookStale(x, j) \/ Look(x, j) PROVE IInv'
  BY <1>2, LookKeeps
<1>3. ASSUME NEW x \in Ticks, Continue(x) PROVE IInv'
  BY <1>3, ClaimKeeps, DispatchKeeps, SendKeeps, FinishKeeps, PutBackKeeps DEF Continue
<1>4. ASSUME NEW x \in Ticks, Lost(x) PROVE IInv'
  BY <1>4, LostKeeps
<1>5. ASSUME NEW j \in Jobs, Age(j) PROVE IInv'
  BY <1>5, AgeKeeps
<1>6. CASE UNCHANGED vars
  BY <1>6 DEF vars, IInv, Types, Counted, Evidence, RowFits, TickFits, Owed, AtWork
<1> QED
  BY <1>1, <1>2, <1>3, <1>4, <1>5, <1>6 DEF Next

(* The inductive invariant of the two queues. *)
THEOREM Inductive == Spec => []IInv
BY InitIInv, NextIInv, PTL DEF Spec

(* The rows of both workers and their ticks keep their types, and a row    *)
(* that is due or claimed has attempts left.                               *)
THEOREM TypeCorrect == Spec => []TypeOK
<1>1. IInv => TypeOK
  BY DEF IInv, Types, TypeOK, RowFits, TickFits
<1> QED
  BY Inductive, <1>1, PTL

(* OutboxWorkerService and EmailDeliveryWorkerService do the work of a row *)
(* once, and once more at most for each time it was put back.              *)
THEOREM WorkIsDoneOncePerReturn == Spec => []WorkIsCounted
<1>1. IInv => WorkIsCounted
  <2> SUFFICES ASSUME IInv, NEW j \in Jobs
               PROVE  job[j].effects <= 1 + job[j].returned
    BY DEF WorkIsCounted
  <2>1. Owed(job[j]) + Cardinality(AtWork(j)) <= 1 + job[j].returned
    BY DEF IInv, Counted
  <2>2. Cardinality(AtWork(j)) \in Nat
    BY WorkIsFinite DEF IInv
  <2>3. Owed(job[j]) >= job[j].effects /\ Owed(job[j]) \in Nat
        /\ job[j].effects \in Nat /\ job[j].returned \in Nat
    BY DEF IInv, Types, JobRow, Owed
  <2> QED
    BY <2>1, <2>2, <2>3
<1> QED
  BY Inductive, <1>1, PTL

(* Nothing is marked as sent or processed that was not.                    *)
THEOREM DoneMeansDone == Spec => []NothingIsLost
<1>1. IInv => NothingIsLost
  <2> SUFFICES ASSUME IInv
               PROVE  NothingIsLost
    OBVIOUS
  <2>1. \A j \in Jobs : job[j].status = "DONE" => job[j].effects > 0
    BY DEF IInv, Types, RowFits
  <2>2. \A a \in AlwaysSent : <<"outbox", a>> \in Jobs
    BY DeliveryAssumption DEF Jobs, Queues
  <2> QED
    BY <2>1, <2>2 DEF IInv, Evidence, NothingIsLost
<1> QED
  BY Inductive, <1>1, PTL

=============================================================================
