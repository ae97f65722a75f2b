---------------------------- MODULE ClientsProofs ----------------------------
(***************************************************************************)
(* Proofs about what those who use the service are promised.               *)
(*                                                                         *)
(* Payments, for any keys, amounts, durations, ranges, lags and bounds.    *)
(* None of its properties is inductive.  What carries them: a credited     *)
(* order is and stays paid; between the two commits of a settlement the    *)
(* order in hand is paid and not credited yet; the range in hand begins at *)
(* the block after the checkpoint, and once it is read all of it was given *)
(* to processLogs or was missing from the answer.                          *)
(*                                                                         *)
(* AlertRules, for any keys, requests, limits, cache life and cooldown:    *)
(* the row of a rule and its entry in the copy both hold its last firing;  *)
(* the copy has every rule made before it was read, and none deleted       *)
(* before; and a request that has been counted holds a place although no   *)
(* rule.                                                                   *)
(*                                                                         *)
(* Digest, for every heartbeat and any number of days, checks, deaths and  *)
(* lost answers: a check that goes to mark a busy day has sent its digest; *)
(* the digests of a day that is neither marked nor about to be have        *)
(* arrived only as often as a death or a lost answer undid them; and the   *)
(* quiet days so far are the latest marked ones, whether the row or a      *)
(* check knows of them.                                                    *)
(*                                                                         *)
(* MCClients: a behaviour of the whole is one of each of the three.        *)
(***************************************************************************)
EXTENDS MCClients, FiniteSetTheorems, TLAPS

\* An instance has a Cardinality of its own, which is the same.
LEMMA HooksCount == \A S : Hooks!Cardinality(S) = Cardinality(S) /\ Hooks!IsFiniteSet(S) = IsFiniteSet(S)
BY DEF Hooks!Cardinality, Hooks!IsFiniteSet, Cardinality, IsFiniteSet

LEMMA DailyCounts == \A S : Daily!Cardinality(S) = Cardinality(S) /\ Daily!IsFiniteSet(S) = IsFiniteSet(S)
BY DEF Daily!Cardinality, Daily!IsFiniteSet, Cardinality, IsFiniteSet

----------------------------------------------------------------------------
(* The billing of keys.                                                     *)

Order == [key : Keys, amount : Amounts, status : Statuses, created : Int]
Transfer == [block : Int, amount : Amounts, order : Nat]

\* The records a poller may be at, without what its logs are.
JobType ==
  /\ job.stage \in {"idle", "range", "settle", "upgrade", "expire"}
  /\ job.stage = "range" =>
       /\ job.from \in Nat /\ job.latest \in Nat
       /\ job.from <= job.latest /\ job.latest <= now
  /\ job.stage \in {"settle", "upgrade"} =>
       /\ job = [stage |-> job.stage, todo |-> job.todo, byMicro |-> job.byMicro,
                 end |-> job.end, latest |-> job.latest]
       /\ job.end \in Nat /\ job.latest \in Nat
       /\ job.end <= job.latest /\ job.latest <= now

PaymentsType ==
  /\ now \in Nat
  /\ transfers \in Seq(Transfer)
  /\ orders \in Seq(Order)
  /\ expiresAt \in [Keys -> Int]
  /\ checkpoint \in Nat \cup {None}
  /\ watched \in Nat \cup {None}
  /\ crashes \in Nat
  /\ credits \in Seq(Nat)
  /\ served \in [Keys -> Int]
  /\ JobType

\* What the two commits of a settlement keep between them.
CreditedArePaid == Credited \subseteq Paid
OrderInHand == job.stage = "upgrade" => Matched \in Paid \ Credited

----------------------------------------------------------------------------
(* Types.                                                                   *)

LEMMA EndIsInRange ==
  ASSUME NEW from \in Nat, NEW latest \in Nat, from <= latest
  PROVE  EndOf(from, latest) \in Nat /\ from <= EndOf(from, latest) /\ EndOf(from, latest) <= latest
BY PaymentsAssumption DEF PaymentsAssumption, EndOf

LEMMA HeadsAreReached ==
  ASSUME now \in Nat, NEW h \in Heads
  PROVE  h \in Nat /\ h <= now
BY PaymentsAssumption DEF PaymentsAssumption, Heads

LEMMA OrderFields ==
  ASSUME orders \in Seq(Order), NEW o \in DOMAIN orders
  PROVE  /\ o \in Nat /\ o \in 1 .. Len(orders)
         /\ orders[o] = [key |-> orders[o].key, amount |-> orders[o].amount,
                         status |-> orders[o].status, created |-> orders[o].created]
         /\ orders[o].key \in Keys /\ orders[o].amount \in Amounts
         /\ orders[o].status \in Statuses /\ orders[o].created \in Int
<1>1. o \in 1 .. Len(orders) /\ o \in Nat
  OBVIOUS
<1>2. orders[o] \in Order
  BY <1>1
<1> QED
  BY <1>1, <1>2 DEF Order

LEMMA OrdersWithAStatus ==
  ASSUME orders \in Seq(Order), NEW S \in SUBSET DOMAIN orders, NEW status \in Statuses,
         NEW new, new = [o \in DOMAIN orders |-> IF o \in S THEN [orders[o] EXCEPT !.status = status] ELSE orders[o]]
  PROVE  /\ new \in Seq(Order) /\ Len(new) = Len(orders) /\ DOMAIN new = DOMAIN orders
         /\ \A o \in DOMAIN orders :
              /\ new[o].key = orders[o].key
              /\ new[o].status = IF o \in S THEN status ELSE orders[o].status
<1>1. ASSUME NEW o \in DOMAIN orders
      PROVE  /\ new[o] \in Order
             /\ new[o].key = orders[o].key
             /\ new[o].status = IF o \in S THEN status ELSE orders[o].status
  <2>1. /\ orders[o] = [key |-> orders[o].key, amount |-> orders[o].amount,
                        status |-> orders[o].status, created |-> orders[o].created]
        /\ orders[o] \in Order
    BY OrderFields DEF Order
  <2>2. CASE o \in S
    <3>1. new[o] = [key |-> orders[o].key, amount |-> orders[o].amount,
                    status |-> status, created |-> orders[o].created]
      BY <2>1, <2>2
    <3> QED
      BY <2>2, <3>1, OrderFields DEF Order
  <2>3. CASE o \notin S
    BY <2>1, <2>3
  <2> QED
    BY <2>2, <2>3
<1>2. DOMAIN orders = 1 .. Len(orders) /\ Len(orders) \in Nat
  OBVIOUS
<1>3. new \in [1 .. Len(orders) -> Order]
  BY <1>1, <1>2
<1>4. new \in Seq(Order) /\ Len(new) = Len(orders)
  BY <1>2, <1>3
<1> QED
  BY <1>1, <1>2, <1>3, <1>4

\* What a settlement and an expiry change of the orders: a status, nothing else.
LEMMA SettledOrders ==
  ASSUME orders \in Seq(Order), SettleLog
  PROVE  /\ orders' \in Seq(Order) /\ DOMAIN orders' = DOMAIN orders
         /\ \A o \in DOMAIN orders : orders'[o].key = orders[o].key
         /\ \/ /\ Matched \in Pending /\ job' = [job EXCEPT !.stage = "upgrade"]
               /\ Paid' = Paid \cup {Matched}
            \/ /\ orders' = orders /\ job' = [job EXCEPT !.todo = Tail(@)]
<1> DEFINE S == {Matched}
<1>1. CASE Matched \in Pending
  <2>1. orders' = WithStatus("paid", Matched) /\ job' = [job EXCEPT !.stage = "upgrade"]
    BY <1>1 DEF SettleLog, MaySettle, AfterSettling
  <2>2. S \in SUBSET DOMAIN orders /\ "paid" \in Statuses
    BY <1>1 DEF Pending, Statuses
  <2>3. orders' = [o \in DOMAIN orders |-> IF o \in S THEN [orders[o] EXCEPT !.status = "paid"] ELSE orders[o]]
    BY <2>1, <2>2 DEF WithStatus
  <2>4. /\ orders' \in Seq(Order) /\ DOMAIN orders' = DOMAIN orders
        /\ \A o \in DOMAIN orders :
             /\ orders'[o].key = orders[o].key
             /\ orders'[o].status = IF o \in S THEN "paid" ELSE orders[o].status
    <3> HIDE DEF S
    <3> QED
      BY <2>2, <2>3, OrdersWithAStatus
  <2>5. Paid' = Paid \cup {Matched}
    BY <2>2, <2>4 DEF Paid
  <2>6. \A o \in DOMAIN orders : orders'[o].key = orders[o].key
    BY <2>4
  <2> QED
    BY <1>1, <2>1, <2>4, <2>5, <2>6
<1>2. CASE Matched \notin Pending
  BY <1>2 DEF SettleLog, MaySettle
<1> QED
  BY <1>1, <1>2

LEMMA ExpiredOrders ==
  ASSUME orders \in Seq(Order), Expire
  PROVE  /\ orders' \in Seq(Order) /\ DOMAIN orders' = DOMAIN orders
         /\ \A o \in DOMAIN orders : orders'[o].key = orders[o].key
         /\ Paid' = Paid
<1> DEFINE S == {o \in Pending : orders[o].created < now - OrderExpiry}
<1>1. S \in SUBSET DOMAIN orders /\ "expired" \in Statuses
  BY DEF Pending, Statuses
<1>2. orders' = [o \in DOMAIN orders |-> IF o \in S THEN [orders[o] EXCEPT !.status = "expired"] ELSE orders[o]]
  BY DEF Expire
<1>3. /\ orders' \in Seq(Order) /\ DOMAIN orders' = DOMAIN orders
      /\ \A o \in DOMAIN orders :
           /\ orders'[o].key = orders[o].key
           /\ orders'[o].status = IF o \in S THEN "expired" ELSE orders[o].status
  <2> HIDE DEF S
  <2> QED
    BY <1>1, <1>2, OrdersWithAStatus
<1>4. Paid' = Paid
  BY <1>3 DEF Paid, Pending
<1> QED
  BY <1>3, <1>4

LEMMA PaymentsTypeInit == Init => PaymentsType
BY DEF Init, PaymentsType, JobType, Idle, None, Order, Transfer

LEMMA PaymentsTypeStep ==
  ASSUME PaymentsType, OrderInHand, [Next]_vars
  PROVE  PaymentsType'
<1> USE DEF PaymentsType
<1>1. ASSUME NEW k \in Keys, CreateOrder(k)
      PROVE  PaymentsType'
  <2>1. UNCHANGED <<now, transfers, checkpoint, job, crashes, history>>
    BY <1>1 DEF CreateOrder
  <2>2. orders' \in Seq(Order)
    BY <1>1 DEF CreateOrder, Drawn, Untaken, Order, Statuses
  <2>3. expiresAt' \in [Keys -> Int]
    BY <1>1 DEF CreateOrder, Downgraded, None
  <2> QED
    BY <2>1, <2>2, <2>3 DEF JobType, history
<1>2. ASSUME NEW k \in Keys, UseKey(k)
      PROVE  PaymentsType'
  BY <1>2 DEF UseKey, Downgraded, None, JobType, history
<1>3. ASSUME NEW o \in DOMAIN orders, Pay(o)
      PROVE  PaymentsType'
  <2>1. UNCHANGED <<now, orders, expiresAt, checkpoint, job, crashes, history>>
    BY <1>3 DEF Pay
  <2>2. [block |-> now + 1, amount |-> orders[o].amount, order |-> o] \in Transfer
    BY OrderFields DEF Transfer
  <2>3. transfers' \in Seq(Transfer)
    BY <1>3, <2>2 DEF Pay
  <2> QED
    BY <2>1, <2>3 DEF JobType, history
<1>4. CASE Tick
  <2>1. UNCHANGED <<now, transfers, orders, expiresAt, crashes, history>>
    BY <1>4 DEF Tick
  <2>2. PICK latest \in Heads :
          LET from == IF checkpoint = None THEN latest ELSE checkpoint + 1
          IN IF from > latest
             THEN checkpoint' = latest /\ job' = [stage |-> "expire"]
             ELSE UNCHANGED checkpoint /\ job' = [stage |-> "range", from |-> from, latest |-> latest]
    BY <1>4 DEF Tick
  <2>3. latest \in Nat /\ latest <= now
    BY HeadsAreReached
  <2>4. JobType' /\ checkpoint' \in Nat \cup {None}
    BY <2>1, <2>2, <2>3 DEF JobType, None
  <2> QED
    BY <2>1, <2>4 DEF history
<1>5. CASE TickFails
  BY <1>5 DEF TickFails, JobType, Idle, history
<1>6. CASE ReadRange
  <2>1. UNCHANGED <<now, transfers, orders, expiresAt, checkpoint, crashes, credits, served, watched>> /\ job.stage = "range"
    BY <1>6 DEF ReadRange
  <2>2. \E todo, by : job' = [stage |-> "settle", todo |-> todo, byMicro |-> by,
                              end |-> EndOf(job.from, job.latest), latest |-> job.latest]
    BY <1>6 DEF ReadRange
  <2>3. EndOf(job.from, job.latest) \in Nat /\ EndOf(job.from, job.latest) <= job.latest
    BY <2>1, EndIsInRange DEF JobType
  <2>4. JobType'
    BY <2>1, <2>2, <2>3 DEF JobType
  <2> QED
    BY <2>1, <2>4
<1>7. CASE SettleLog
  <2>1. UNCHANGED <<now, transfers, expiresAt, checkpoint, crashes, history>> /\ job.stage = "settle"
    BY <1>7 DEF SettleLog
  <2>2. job' = [job EXCEPT !.stage = "upgrade"] \/ job' = [job EXCEPT !.todo = Tail(@)]
    BY <1>7 DEF SettleLog, AfterSettling
  <2>3. JobType'
    BY <2>1, <2>2 DEF JobType
  <2>4. orders' \in Seq(Order)
    BY <1>7, SettledOrders
  <2> QED
    BY <2>1, <2>3, <2>4 DEF history
<1>8. CASE Upgrade
  <2>1. UNCHANGED <<now, transfers, orders, checkpoint, crashes, examined, missed, served, watched>> /\ job.stage = "upgrade"
    BY <1>8 DEF Upgrade
  <2>2. Matched \in DOMAIN orders
    BY <2>1 DEF OrderInHand, Paid
  <2>3. orders[Matched].key \in Keys /\ Matched \in Nat
    BY <2>2, OrderFields
  <2>4. Base(orders[Matched].key) + ProDuration \in Int
    BY <2>3, PaymentsAssumption DEF Base, PaymentsAssumption
  <2>5. expiresAt' \in [Keys -> Int]
    BY <1>8, <2>4 DEF Upgrade
  <2>6. credits' \in Seq(Nat)
    BY <1>8, <2>3 DEF Upgrade
  <2>7. job' = [job EXCEPT !.stage = "settle", !.todo = Tail(@)]
    BY <1>8 DEF Upgrade
  <2>8. JobType'
    BY <2>1, <2>7 DEF JobType
  <2> QED
    BY <2>1, <2>5, <2>6, <2>8
<1>9. CASE FinishRange
  <2>1. UNCHANGED <<now, transfers, orders, expiresAt, crashes, credits, examined, missed, served>> /\ job.stage = "settle"
    BY <1>9 DEF FinishRange
  <2>2. checkpoint' = job.end /\ watched' \in {watched, job.end}
    BY <1>9 DEF FinishRange, Marked
  <2>3. job' = IF job.end < job.latest THEN [stage |-> "range", from |-> job.end + 1, latest |-> job.latest]
                                       ELSE [stage |-> "expire"]
    BY <1>9 DEF FinishRange
  <2>4. JobType'
    BY <2>1, <2>3 DEF JobType
  <2> QED
    BY <2>1, <2>2, <2>4 DEF JobType
<1>10. CASE Expire
  <2>1. UNCHANGED <<now, transfers, expiresAt, checkpoint, crashes, history>> /\ job' = Idle
    BY <1>10 DEF Expire
  <2>2. orders' \in Seq(Order)
    BY <1>10, ExpiredOrders
  <2> QED
    BY <2>1, <2>2 DEF JobType, Idle, history
<1>11. CASE Crash
  BY <1>11 DEF Crash, JobType, Idle, history
<1>12. CASE TimePasses
  <2>1. UNCHANGED <<transfers, orders, expiresAt, checkpoint, job, crashes, credits, watched>> /\ now' = now + 1
    BY <1>12 DEF TimePasses
  <2>2. served' \in [Keys -> Int]
    BY <1>12 DEF TimePasses
  <2> QED
    BY <2>1, <2>2 DEF JobType
<1>13. CASE UNCHANGED vars
  BY <1>13 DEF vars, JobType
<1> QED
  BY <1>1, <1>2, <1>3, <1>4, <1>5, <1>6, <1>7, <1>8, <1>9, <1>10, <1>11, <1>12, <1>13 DEF Next

----------------------------------------------------------------------------
(* Settlements.  A step is the first commit of one, the second, a death, or *)
(* leaves them alone.                                                       *)

FirstCommit ==
  /\ job.stage = "settle" /\ job'.stage = "upgrade"
  /\ Matched \in Pending /\ Matched' = Matched
  /\ Paid' = Paid \cup {Matched} /\ UNCHANGED <<credits, crashes>>
SecondCommit ==
  /\ job.stage = "upgrade" /\ job'.stage = "settle"
  /\ Paid' = Paid /\ credits' = Append(credits, Matched) /\ UNCHANGED crashes
Death == Paid' = Paid /\ credits' = credits /\ job'.stage = "idle" /\ crashes' = crashes + 1
NoCommit ==
  /\ Paid' = Paid /\ UNCHANGED <<credits, crashes>>
  /\ \/ job.stage # "upgrade" /\ job'.stage # "upgrade"
     \/ UNCHANGED <<job, transfers>>

LEMMA AStepOfASettlement ==
  ASSUME PaymentsType, OrderInHand, [Next]_vars
  PROVE  FirstCommit \/ SecondCommit \/ Death \/ NoCommit
<1> USE DEF PaymentsType
<1>1. ASSUME NEW k \in Keys, CreateOrder(k)
      PROVE  NoCommit
  <2>1. PICK a \in Drawn : orders' = Append(orders, [key |-> k, amount |-> a, status |-> "pending", created |-> now])
    BY <1>1 DEF CreateOrder
  <2>2. UNCHANGED <<job, transfers, credits, crashes>>
    BY <1>1 DEF CreateOrder, history
  <2>3. Paid' = Paid
    <3>1. DOMAIN orders' = 1 .. Len(orders) + 1 /\ DOMAIN orders = 1 .. Len(orders)
      BY <2>1
    <3>2. \A o \in 1 .. Len(orders) : orders'[o] = orders[o]
      BY <2>1
    <3>3. orders'[Len(orders) + 1].status # "paid"
      BY <2>1
    <3> QED
      BY <3>1, <3>2, <3>3 DEF Paid
  <2> QED
    BY <2>2, <2>3 DEF NoCommit
<1>2. ASSUME NEW k \in Keys, UseKey(k)
      PROVE  NoCommit
  BY <1>2 DEF UseKey, NoCommit, Paid, history
<1>3. ASSUME NEW o \in DOMAIN orders, Pay(o)
      PROVE  NoCommit
  BY <1>3 DEF Pay, NoCommit, Paid, history, Awaiting, Synchronous
<1>4. CASE Tick
  <2>1. job.stage = "idle" /\ job'.stage \in {"expire", "range"}
    BY <1>4 DEF Tick, Idle
  <2> QED
    BY <1>4, <2>1 DEF Tick, NoCommit, Paid, history
<1>5. CASE TickFails
  BY <1>5 DEF TickFails, Idle, NoCommit, Paid, history
<1>6. CASE ReadRange
  <2>1. \E todo, by : job' = [stage |-> "settle", todo |-> todo, byMicro |-> by,
                              end |-> EndOf(job.from, job.latest), latest |-> job.latest]
    BY <1>6 DEF ReadRange
  <2>2. job'.stage = "settle"
    BY <2>1
  <2>3. job.stage = "range" /\ UNCHANGED <<orders, credits, crashes>>
    BY <1>6 DEF ReadRange
  <2> QED
    BY <2>2, <2>3 DEF NoCommit, Paid
<1>7. CASE SettleLog
  <2>1. job.stage = "settle" /\ UNCHANGED <<transfers, credits, crashes>>
    BY <1>7 DEF SettleLog, history
  <2>2. CASE Matched \in Pending /\ job' = [job EXCEPT !.stage = "upgrade"] /\ Paid' = Paid \cup {Matched}
    <3>1. job'.stage = "upgrade" /\ job'.todo = job.todo /\ job'.byMicro = job.byMicro
      BY <2>1, <2>2 DEF JobType
    <3>2. Matched' = Matched
      BY <2>1, <3>1 DEF Matched
    <3> QED
      BY <2>1, <2>2, <3>1, <3>2 DEF FirstCommit
  <2>3. CASE orders' = orders /\ job' = [job EXCEPT !.todo = Tail(@)]
    <3>1. job'.stage = "settle"
      BY <2>1, <2>3 DEF JobType
    <3> QED
      BY <2>1, <2>3, <3>1 DEF NoCommit, Paid
  <2> QED
    BY <1>7, <2>2, <2>3, SettledOrders
<1>8. CASE Upgrade
  <2>1. job.stage = "upgrade" /\ UNCHANGED <<orders, crashes>> /\ credits' = Append(credits, Matched)
    BY <1>8 DEF Upgrade
  <2>2. job'.stage = "settle"
    BY <1>8, <2>1 DEF Upgrade, JobType
  <2> QED
    BY <2>1, <2>2 DEF SecondCommit, Paid
<1>9. CASE FinishRange
  <2>1. job.stage = "settle" /\ job'.stage \in {"range", "expire"}
    BY <1>9 DEF FinishRange
  <2> QED
    BY <1>9, <2>1 DEF FinishRange, NoCommit, Paid
<1>10. CASE Expire
  <2>1. Paid' = Paid
    BY <1>10, ExpiredOrders
  <2> QED
    BY <1>10, <2>1 DEF Expire, Idle, NoCommit, history
<1>11. CASE Crash
  BY <1>11 DEF Crash, Idle, Death, Paid, history
<1>12. CASE TimePasses
  BY <1>12 DEF TimePasses, NoCommit, Paid
<1>13. CASE UNCHANGED vars
  BY <1>13 DEF vars, NoCommit, Paid
<1> QED
  BY <1>1, <1>2, <1>3, <1>4, <1>5, <1>6, <1>7, <1>8, <1>9, <1>10, <1>11, <1>12, <1>13 DEF Next

LEMMA AppendedCredit ==
  ASSUME PaymentsType, Matched \in Paid, credits' = Append(credits, Matched)
  PROVE  /\ DOMAIN credits' = 1 .. Len(credits) + 1 /\ DOMAIN credits = 1 .. Len(credits)
         /\ \A i \in 1 .. Len(credits) : credits'[i] = credits[i]
         /\ credits'[Len(credits) + 1] = Matched
         /\ Credited' = Credited \cup {Matched}
<1>1. Matched \in Nat /\ credits \in Seq(Nat)
  BY DEF PaymentsType, Paid
<1>2. /\ DOMAIN credits' = 1 .. Len(credits) + 1 /\ DOMAIN credits = 1 .. Len(credits)
      /\ \A i \in 1 .. Len(credits) : credits'[i] = credits[i]
      /\ credits'[Len(credits) + 1] = Matched
      /\ Len(credits) \in Nat
  BY <1>1
<1>3. Credited' = Credited \cup {Matched}
  <2>1. \A x : x \in Credited <=> \E i \in 1 .. Len(credits) : x = credits[i]
    BY <1>2 DEF Credited
  <2>2. \A x : x \in Credited' <=> \E i \in 1 .. Len(credits) + 1 : x = credits'[i]
    BY <1>2 DEF Credited
  <2>3. \A i : i \in 1 .. Len(credits) + 1 <=> i \in 1 .. Len(credits) \/ i = Len(credits) + 1
    BY <1>2
  <2> QED
    BY <1>2, <2>1, <2>2, <2>3
<1> QED
  BY <1>2, <1>3

LEMMA CreditsStep ==
  ASSUME PaymentsType, CreditedArePaid, OrderInHand, CreditedOnce, [Next]_vars
  PROVE  CreditedArePaid' /\ OrderInHand' /\ CreditedOnce'
<1> USE DEF PaymentsType
<1>1. CASE FirstCommit
  <2>1. Credited' = Credited
    BY <1>1 DEF FirstCommit, Credited
  <2>2. Matched \notin Paid
    BY <1>1 DEF FirstCommit, Pending, Paid
  <2> QED
    BY <1>1, <2>1, <2>2 DEF FirstCommit, CreditedArePaid, OrderInHand, CreditedOnce
<1>2. CASE SecondCommit
  <2>1. Matched \in Paid \ Credited /\ credits' = Append(credits, Matched)
    BY <1>2 DEF SecondCommit, OrderInHand
  <2>2. Matched \in Nat
    BY <2>1 DEF Paid
  <2>3. /\ DOMAIN credits' = 1 .. Len(credits) + 1 /\ DOMAIN credits = 1 .. Len(credits)
        /\ \A i \in 1 .. Len(credits) : credits'[i] = credits[i]
        /\ credits'[Len(credits) + 1] = Matched
        /\ Credited' = Credited \cup {Matched}
    BY <2>1, <2>2, AppendedCredit
  <2>5. CreditedOnce'
    BY <2>1, <2>3 DEF CreditedOnce, Credited
  <2> QED
    BY <1>2, <2>1, <2>3, <2>5 DEF SecondCommit, CreditedArePaid, OrderInHand
<1>3. CASE Death
  <2>1. Credited' = Credited
    BY <1>3 DEF Death, Credited
  <2> QED
    BY <1>3, <2>1 DEF Death, CreditedArePaid, OrderInHand, CreditedOnce
<1>4. CASE NoCommit
  <2>1. Credited' = Credited
    BY <1>4 DEF NoCommit, Credited
  <2>2. OrderInHand'
    BY <1>4, <2>1 DEF NoCommit, OrderInHand, Matched
  <2> QED
    BY <1>4, <2>1, <2>2 DEF NoCommit, CreditedArePaid, CreditedOnce
<1> QED
  BY <1>1, <1>2, <1>3, <1>4, AStepOfASettlement

\* A paid order that is not credited is the one in hand, or a death's.
LEMMA PaidAndCreditedStep ==
  ASSUME PaymentsType, CreditedArePaid, OrderInHand, [Next]_vars,
         PaidOrderIsCreditedUnlessInterrupted
  PROVE  PaidOrderIsCreditedUnlessInterrupted'
<1> USE DEF PaymentsType
<1> DEFINE due == Paid \ Credited
<1>1. IsFiniteSet(due) /\ Cardinality(due) \in Nat
  <2>1. due \in SUBSET (1 .. Len(orders)) /\ Len(orders) \in Nat
    BY DEF Paid
  <2>2. IsFiniteSet(1 .. Len(orders))
    BY <2>1, FS_Interval
  <2>3. IsFiniteSet(due)
    BY <2>1, <2>2, FS_Subset
  <2> QED
    BY <2>3, FS_CardinalityType
<1>2. Cardinality(due) <= crashes + (IF job.stage = "upgrade" THEN 1 ELSE 0)
  BY DEF PaidOrderIsCreditedUnlessInterrupted
<1>a. SUFFICES Cardinality(due') <= crashes' + (IF job'.stage = "upgrade" THEN 1 ELSE 0)
  BY DEF PaidOrderIsCreditedUnlessInterrupted
<1>3. CASE FirstCommit
  <2>1. due' = due \cup {Matched}
    <3>1. Credited' = Credited /\ Matched \notin Credited
      BY <1>3 DEF FirstCommit, Credited, CreditedArePaid, Pending, Paid
    <3> QED
      BY <1>3, <3>1 DEF FirstCommit
  <2>2. Matched \notin due
    BY <1>3 DEF FirstCommit, Pending, Paid
  <2> HIDE DEF due
  <2>3. Cardinality(due \cup {Matched}) = Cardinality(due) + 1
    BY <1>1, <2>2, FS_AddElement
  <2> QED
    BY <1>1, <1>2, <1>3, <2>1, <2>3 DEF FirstCommit
<1>4. CASE SecondCommit
  <2>1. Matched \in due
    BY <1>4 DEF SecondCommit, OrderInHand
  <2>2. due' = due \ {Matched}
    <3>1. Credited' = Credited \cup {Matched}
      BY <1>4, <2>1, AppendedCredit DEF SecondCommit
    <3> QED
      BY <1>4, <3>1 DEF SecondCommit
  <2>3. Cardinality(due \ {Matched}) = Cardinality(due) - 1
    BY <1>1, <2>1, FS_RemoveElement
  <2> HIDE DEF due
  <2> QED
    BY <1>1, <1>2, <1>4, <2>2, <2>3 DEF SecondCommit
<1>5. CASE Death
  <2>1. due' = due
    BY <1>5 DEF Death, Credited
  <2> HIDE DEF due
  <2> QED
    BY <1>1, <1>2, <1>5, <2>1 DEF Death
<1>6. CASE NoCommit
  <2>1. due' = due
    BY <1>6 DEF NoCommit, Credited
  <2> HIDE DEF due
  <2> QED
    BY <1>2, <1>6, <2>1 DEF NoCommit
<1> QED
  BY <1>3, <1>4, <1>5, <1>6, AStepOfASettlement

----------------------------------------------------------------------------
(* Paid time.                                                               *)

Remaining(k) == IF expiresAt[k] > now THEN expiresAt[k] - now ELSE 0
Bought(k) == Cardinality(CreditsOf(k)) * ProDuration

LEMMA CreditsAreCounted ==
  ASSUME PaymentsType, NEW k \in Keys
  PROVE  /\ IsFiniteSet(CreditsOf(k)) /\ Cardinality(CreditsOf(k)) \in Nat
         /\ Bought(k) \in Int
<1>1. CreditsOf(k) \in SUBSET (1 .. Len(credits)) /\ Len(credits) \in Nat
  BY DEF PaymentsType, CreditsOf
<1>2. IsFiniteSet(1 .. Len(credits))
  BY <1>1, FS_Interval
<1>3. IsFiniteSet(CreditsOf(k))
  BY <1>1, <1>2, FS_Subset
<1>4. Cardinality(CreditsOf(k)) \in Nat
  BY <1>3, FS_CardinalityType
<1>5. ProDuration \in Nat
  BY PaymentsAssumption DEF PaymentsAssumption
<1> QED
  BY <1>3, <1>4, <1>5 DEF Bought

\* Credits are never taken back, and an order stays its key's.
LEMMA BoughtStays ==
  ASSUME PaymentsType, CreditedArePaid, credits' = credits, NEW k \in Keys,
         DOMAIN orders \subseteq DOMAIN orders',
         \A o \in DOMAIN orders : orders'[o].key = orders[o].key
  PROVE  Bought(k)' = Bought(k)
<1>1. \A i \in DOMAIN credits : credits[i] \in DOMAIN orders
  BY DEF CreditedArePaid, Credited, Paid
<1>2. CreditsOf(k)' = CreditsOf(k)
  BY <1>1 DEF CreditsOf
<1> QED
  BY <1>2 DEF Bought

LEMMA PaidTimeStep ==
  ASSUME PaymentsType, CreditedArePaid, OrderInHand, [Next]_vars, PaidTimeIsServed
  PROVE  PaidTimeIsServed'
<1> USE DEF PaymentsType
<1>1. \A k \in Keys : served[k] + Remaining(k) = Bought(k)
  BY DEF PaidTimeIsServed, Remaining, Bought
<1>2. SUFFICES ASSUME NEW k \in Keys
              PROVE  served'[k] + Remaining(k)' = Bought(k)'
  BY DEF PaidTimeIsServed, Remaining, Bought
<1>3. CASE Upgrade
  <2>1. job.stage = "upgrade" /\ UNCHANGED <<now, orders, served>> /\ credits' = Append(credits, Matched)
    BY <1>3 DEF Upgrade
  <2>2. Matched \in Paid /\ Matched \in DOMAIN orders
    BY <2>1 DEF OrderInHand, Paid
  <2> DEFINE payer == orders[Matched].key
  <2>3. expiresAt' = [expiresAt EXCEPT ![payer] = Base(payer) + ProDuration] /\ payer \in Keys
    BY <1>3, <2>2, OrderFields DEF Upgrade
  <2>4. ProDuration \in Nat
    BY PaymentsAssumption DEF PaymentsAssumption
  <2>5. /\ DOMAIN credits' = 1 .. Len(credits) + 1 /\ DOMAIN credits = 1 .. Len(credits)
        /\ \A i \in 1 .. Len(credits) : credits'[i] = credits[i]
        /\ credits'[Len(credits) + 1] = Matched
    BY <2>1, <2>2, AppendedCredit
  <2>6. Len(credits) \in Nat
    OBVIOUS
  <2>7. \A i : i \in 1 .. Len(credits) + 1 <=> i \in 1 .. Len(credits) \/ i = Len(credits) + 1
    BY <2>6
  <2>8. CASE k = payer
    <3>1. CreditsOf(k)' = CreditsOf(k) \cup {Len(credits) + 1}
      BY <2>1, <2>5, <2>7, <2>8 DEF CreditsOf
    <3>2. Len(credits) + 1 \notin CreditsOf(k)
      BY <2>5, <2>6 DEF CreditsOf
    <3> DEFINE C == CreditsOf(k)
    <3>3. IsFiniteSet(C) /\ Cardinality(C) \in Nat
      BY CreditsAreCounted
    <3>4. Cardinality(C \cup {Len(credits) + 1}) = Cardinality(C) + 1
      <4>1. Len(credits) + 1 \notin C
        BY <3>2
      <4> HIDE DEF C
      <4> QED
        BY <3>3, <4>1, FS_AddElement
    <3>5. \A n \in Nat, d \in Nat : (n + 1) * d = n * d + d
      OBVIOUS
    <3>6. Bought(k)' = Bought(k) + ProDuration
      <4>1. Bought(k) = Cardinality(C) * ProDuration
        BY DEF Bought
      <4>2. Bought(k)' = Cardinality(C \cup {Len(credits) + 1}) * ProDuration
        BY <3>1 DEF Bought
      <4> HIDE DEF C
      <4> QED
        BY <2>4, <3>3, <3>4, <3>5, <4>1, <4>2
    <3>7. Remaining(k)' = Remaining(k) + ProDuration
      BY <2>1, <2>3, <2>4, <2>8 DEF Remaining, Base, None
    <3> QED
      BY <1>1, <2>1, <2>4, <3>6, <3>7, CreditsAreCounted DEF Remaining
  <2>9. CASE k # payer
    <3>1. CreditsOf(k)' = CreditsOf(k)
      BY <2>1, <2>5, <2>7, <2>9 DEF CreditsOf
    <3>2. Bought(k)' = Bought(k)
      BY <3>1 DEF Bought
    <3>3. Remaining(k)' = Remaining(k)
      BY <2>1, <2>3, <2>9 DEF Remaining
    <3> QED
      BY <1>1, <2>1, <3>2, <3>3
  <2> QED
    BY <2>8, <2>9
<1>4. ASSUME NEW q \in Keys, CreateOrder(q)
      PROVE  served'[k] + Remaining(k)' = Bought(k)'
  <2>1. PICK a \in Drawn : orders' = Append(orders, [key |-> q, amount |-> a, status |-> "pending", created |-> now])
    BY <1>4 DEF CreateOrder
  <2>2. Bought(k)' = Bought(k)
    <3>1. DOMAIN orders \subseteq DOMAIN orders' /\ \A o \in DOMAIN orders : orders'[o].key = orders[o].key
      BY <2>1
    <3>2. credits' = credits
      BY <1>4 DEF CreateOrder, history
    <3> QED
      BY <3>1, <3>2, BoughtStays
  <2>3. UNCHANGED <<now, served>> /\ expiresAt' = [expiresAt EXCEPT ![q] = Downgraded(q)]
    BY <1>4 DEF CreateOrder, history
  <2>4. Remaining(k)' = Remaining(k)
    BY <2>3 DEF Remaining, Downgraded, None
  <2> QED
    BY <1>1, <2>2, <2>3, <2>4
<1>5. ASSUME NEW q \in Keys, UseKey(q)
      PROVE  served'[k] + Remaining(k)' = Bought(k)'
  <2>1. UNCHANGED <<now, orders, credits, served>> /\ expiresAt' = [expiresAt EXCEPT ![q] = Downgraded(q)]
    BY <1>5 DEF UseKey, history
  <2>2. Remaining(k)' = Remaining(k)
    BY <2>1 DEF Remaining, Downgraded, None
  <2>3. Bought(k)' = Bought(k)
    BY <2>1, BoughtStays
  <2> QED
    BY <1>1, <2>1, <2>2, <2>3
<1>6. CASE TimePasses
  <2>1. UNCHANGED <<orders, expiresAt, credits>> /\ now' = now + 1
    BY <1>6 DEF TimePasses
  <2>2. served'[k] = IF expiresAt[k] > now THEN served[k] + 1 ELSE served[k]
    BY <1>6 DEF TimePasses
  <2>3. Bought(k)' = Bought(k)
    BY <2>1, BoughtStays
  <2>4. expiresAt[k] \in Int /\ served[k] \in Int /\ now \in Nat
    OBVIOUS
  <2>5. served'[k] + Remaining(k)' = served[k] + Remaining(k)
    BY <2>1, <2>2, <2>4 DEF Remaining
  <2> QED
    BY <1>1, <2>3, <2>5
<1>7. ASSUME UNCHANGED <<now, expiresAt, credits, served>>, DOMAIN orders' = DOMAIN orders,
             \A o \in DOMAIN orders : orders'[o].key = orders[o].key
      PROVE  served'[k] + Remaining(k)' = Bought(k)'
  <2>1. Remaining(k)' = Remaining(k)
    BY <1>7 DEF Remaining
  <2>2. Bought(k)' = Bought(k)
    BY <1>7, BoughtStays
  <2> QED
    BY <1>1, <1>7, <2>1, <2>2
<1>8. CASE SettleLog
  BY <1>7, <1>8, SettledOrders DEF SettleLog, history
<1>9. CASE Expire
  BY <1>7, <1>9, ExpiredOrders DEF Expire, history
<1>10. ASSUME NEW o \in DOMAIN orders, Pay(o)
       PROVE  served'[k] + Remaining(k)' = Bought(k)'
  BY <1>7, <1>10 DEF Pay, history
<1>11. CASE Tick \/ TickFails \/ Crash \/ FinishRange
  BY <1>7, <1>11 DEF Tick, TickFails, Crash, FinishRange, history
<1>12. CASE ReadRange
  BY <1>7, <1>12 DEF ReadRange
<1>13. CASE UNCHANGED vars
  BY <1>7, <1>13 DEF vars
<1> QED
  BY <1>3, <1>4, <1>5, <1>6, <1>8, <1>9, <1>10, <1>11, <1>12, <1>13 DEF Next

----------------------------------------------------------------------------
(* What the poller has read.                                                *)

ReadTo(b) ==
  \A t \in DOMAIN transfers :
    watched # None /\ transfers[t].block \in watched + 1 .. b => t \in examined \cup missed
RangeInHand ==
  /\ checkpoint <= now
  /\ checkpoint = None <=> watched = None
  /\ job.stage = "range" /\ checkpoint # None => job.from = checkpoint + 1
  /\ job.stage \in {"settle", "upgrade"} => ReadTo(job.end)

LEMMA RangeStep ==
  ASSUME PaymentsType, RangeInHand, NoTransferPassedBy, [Next]_vars
  PROVE  RangeInHand' /\ NoTransferPassedBy'
<1> USE DEF PaymentsType
<1>1. ReadTo(checkpoint)
  BY DEF ReadTo, NoTransferPassedBy
<1>2. SUFFICES RangeInHand' /\ ReadTo(checkpoint)'
  BY DEF ReadTo, NoTransferPassedBy
<1>3. ASSUME UNCHANGED <<now, transfers, checkpoint, examined, missed, watched>>,
             job' = job \/ job'.stage \in {"idle", "expire"}
      PROVE  RangeInHand' /\ ReadTo(checkpoint)'
  BY <1>1, <1>3 DEF RangeInHand, ReadTo
<1>4. ASSUME NEW k \in Keys, CreateOrder(k) \/ UseKey(k)
      PROVE  RangeInHand' /\ ReadTo(checkpoint)'
  BY <1>3, <1>4 DEF CreateOrder, UseKey, history
<1>5. ASSUME NEW o \in DOMAIN orders, Pay(o)
      PROVE  RangeInHand' /\ ReadTo(checkpoint)'
  <2>1. UNCHANGED <<now, checkpoint, job, examined, missed, watched>> /\ job.stage \notin {"settle", "upgrade"}
    BY <1>5 DEF Pay, history, Awaiting, Synchronous
  <2>2. transfers' = Append(transfers, [block |-> now + 1, amount |-> orders[o].amount, order |-> o])
    BY <1>5 DEF Pay
  <2>3. /\ \A t \in DOMAIN transfers' : t \in DOMAIN transfers \/ t = Len(transfers) + 1
        /\ \A t \in DOMAIN transfers : transfers'[t] = transfers[t]
        /\ transfers'[Len(transfers) + 1].block = now + 1
    BY <2>2
  <2>4. ReadTo(checkpoint)'
    <3>1. now + 1 \notin watched + 1 .. checkpoint
      BY DEF RangeInHand, None
    <3> QED
      BY <1>1, <2>1, <2>3, <3>1 DEF ReadTo
  <2> QED
    BY <2>1, <2>4 DEF RangeInHand
<1>6. CASE Tick
  <2>1. UNCHANGED <<now, transfers, examined, missed, watched>>
    BY <1>6 DEF Tick, history
  <2>2. PICK latest \in Heads :
          LET from == IF checkpoint = None THEN latest ELSE checkpoint + 1
          IN IF from > latest
             THEN checkpoint' = latest /\ job' = [stage |-> "expire"]
             ELSE UNCHANGED checkpoint /\ job' = [stage |-> "range", from |-> from, latest |-> latest]
    BY <1>6 DEF Tick
  <2>3. latest \in Nat /\ latest <= now
    BY HeadsAreReached
  <2>4. CASE checkpoint' = latest /\ job' = [stage |-> "expire"] /\ checkpoint # None /\ latest <= checkpoint
    <3>1. RangeInHand'
      BY <2>1, <2>3, <2>4 DEF RangeInHand, None
    <3>2. ReadTo(checkpoint)'
      <4>1. \A b : b \in watched + 1 .. latest => b \in watched + 1 .. checkpoint
        BY <2>3, <2>4 DEF None
      <4> QED
        BY <1>1, <2>1, <2>4, <4>1 DEF ReadTo
    <3> QED
      BY <3>1, <3>2
  <2>5. CASE /\ UNCHANGED checkpoint
             /\ job' = [stage |-> "range", from |-> IF checkpoint = None THEN latest ELSE checkpoint + 1, latest |-> latest]
    <3>1. RangeInHand'
      BY <2>1, <2>5 DEF RangeInHand
    <3>2. ReadTo(checkpoint)'
      BY <1>1, <2>1, <2>5 DEF ReadTo
    <3> QED
      BY <3>1, <3>2
  <2> QED
    BY <2>2, <2>3, <2>4, <2>5 DEF None
<1>7. CASE TickFails
  BY <1>3, <1>7 DEF TickFails, Idle, history
<1>8. CASE ReadRange
  <2> DEFINE end == EndOf(job.from, job.latest)
             mined == {t \in DOMAIN transfers : transfers[t].block \in job.from .. end}
  <2>1. UNCHANGED <<now, transfers, checkpoint, watched>> /\ job.stage = "range"
    BY <1>8 DEF ReadRange
  <2>2. PICK there : /\ \E todo, by : job' = [stage |-> "settle", todo |-> todo, byMicro |-> by,
                                             end |-> end, latest |-> job.latest]
                     /\ examined' = examined \cup there /\ missed' = missed \cup (mined \ there)
    BY <1>8 DEF ReadRange
  <2>3. job'.stage = "settle" /\ job'.end = end
    BY <2>2
  <2>4. end \in Nat /\ job.from \in Nat
    BY <2>1, EndIsInRange DEF JobType
  <2>5. ReadTo(checkpoint)'
    BY <1>1, <2>1, <2>2 DEF ReadTo
  <2>6. ReadTo(job.end)'
    <3> SUFFICES ASSUME NEW t \in DOMAIN transfers, watched # None, transfers[t].block \in watched + 1 .. end
                 PROVE  t \in examined' \cup missed'
      BY <2>1, <2>3 DEF ReadTo
    <3>1. checkpoint # None /\ job.from = checkpoint + 1
      BY <2>1 DEF RangeInHand
    <3>2. transfers[t].block \in watched + 1 .. checkpoint \/ t \in mined
      BY <2>4, <3>1 DEF None
    <3> HIDE DEF mined
    <3> QED
      BY <1>1, <2>2, <3>2 DEF ReadTo
  <2> QED
    BY <2>1, <2>3, <2>5, <2>6 DEF RangeInHand
<1>9. CASE SettleLog
  <2>1. UNCHANGED <<now, transfers, checkpoint, examined, missed, watched>> /\ job.stage = "settle"
    BY <1>9 DEF SettleLog, history
  <2>2. job' = [job EXCEPT !.stage = "upgrade"] \/ job' = [job EXCEPT !.todo = Tail(@)]
    BY <1>9 DEF SettleLog, AfterSettling
  <2>3. job'.stage \in {"settle", "upgrade"} /\ job'.end = job.end
    BY <2>1, <2>2 DEF JobType
  <2> QED
    BY <1>1, <2>1, <2>3 DEF RangeInHand, ReadTo
<1>10. CASE Upgrade
  <2>1. UNCHANGED <<now, transfers, checkpoint, examined, missed, watched>> /\ job.stage = "upgrade"
    BY <1>10 DEF Upgrade
  <2>2. job'.stage = "settle" /\ job'.end = job.end
    BY <1>10, <2>1 DEF Upgrade, JobType
  <2> QED
    BY <1>1, <2>1, <2>2 DEF RangeInHand, ReadTo
<1>11. CASE FinishRange
  <2>1. UNCHANGED <<now, transfers, examined, missed>> /\ job.stage = "settle" /\ checkpoint' = job.end
    BY <1>11 DEF FinishRange, Marked
  <2>2. watched' = IF watched = None THEN job.end ELSE watched
    BY <1>11 DEF FinishRange
  <2>3. job'.stage = "expire" \/ (job'.stage = "range" /\ job'.from = job.end + 1)
    BY <1>11 DEF FinishRange
  <2>4. job.end \in Nat /\ job.end <= now
    BY <2>1 DEF JobType
  <2>5. ReadTo(checkpoint)'
    <3>1. ReadTo(job.end)
      BY <2>1 DEF RangeInHand
    <3>2. job.end + 1 .. job.end = {}
      BY <2>4
    <3>3. CASE watched = None
      BY <2>1, <2>2, <3>2, <3>3 DEF ReadTo
    <3>4. CASE watched # None
      BY <2>1, <2>2, <3>1, <3>4 DEF ReadTo
    <3> QED
      BY <3>3, <3>4
  <2>6. RangeInHand'
    BY <2>1, <2>2, <2>3, <2>4 DEF RangeInHand, None
  <2> QED
    BY <2>5, <2>6
<1>12. CASE Expire
  BY <1>3, <1>12 DEF Expire, Idle, history
<1>13. CASE Crash
  BY <1>3, <1>13 DEF Crash, Idle, history
<1>14. CASE TimePasses
  <2>1. UNCHANGED <<transfers, checkpoint, job, examined, missed, watched>> /\ now' = now + 1
    BY <1>14 DEF TimePasses
  <2> QED
    BY <1>1, <2>1 DEF RangeInHand, ReadTo, None
<1>15. CASE UNCHANGED vars
  BY <1>3, <1>15 DEF vars
<1> QED
  BY <1>4, <1>5, <1>6, <1>7, <1>8, <1>9, <1>10, <1>11, <1>12, <1>13, <1>14, <1>15 DEF Next

----------------------------------------------------------------------------
(* The theorems about billing.                                              *)

PaymentsInv ==
  /\ PaymentsType
  /\ CreditedArePaid /\ OrderInHand /\ CreditedOnce
  /\ PaidOrderIsCreditedUnlessInterrupted
  /\ PaidTimeIsServed
  /\ RangeInHand /\ NoTransferPassedBy

LEMMA PaymentsInit == Init => PaymentsInv
<1> SUFFICES ASSUME Init PROVE PaymentsInv
  OBVIOUS
<1>1. PaymentsType
  BY PaymentsTypeInit
<1>2. DOMAIN orders = {} /\ DOMAIN credits = {} /\ DOMAIN transfers = {} /\ job.stage = "idle"
  BY DEF Init, Idle
<1>3. Paid = {} /\ Credited = {}
  BY <1>2 DEF Paid, Credited
<1>4. CreditedArePaid /\ OrderInHand /\ CreditedOnce
  BY <1>2, <1>3 DEF CreditedArePaid, OrderInHand, CreditedOnce
<1>5. PaidOrderIsCreditedUnlessInterrupted
  <2>1. Paid \ Credited = {}
    BY <1>3
  <2>2. Cardinality({}) = 0
    BY FS_EmptySet
  <2> QED
    BY <1>2, <2>1, <2>2 DEF PaidOrderIsCreditedUnlessInterrupted, Init
<1>6. PaidTimeIsServed
  <2> SUFFICES ASSUME NEW k \in Keys
               PROVE  served[k] + (IF expiresAt[k] > now THEN expiresAt[k] - now ELSE 0)
                        = Cardinality(CreditsOf(k)) * ProDuration
    BY DEF PaidTimeIsServed
  <2>1. CreditsOf(k) = {}
    BY <1>2 DEF CreditsOf
  <2>2. Cardinality(CreditsOf(k)) = 0
    BY <2>1, FS_EmptySet
  <2>3. served[k] = 0 /\ expiresAt[k] = -1 /\ now = 0
    BY DEF Init, None
  <2> QED
    BY <2>2, <2>3, PaymentsAssumption DEF PaymentsAssumption
<1>7. RangeInHand /\ NoTransferPassedBy
  BY <1>2 DEF RangeInHand, NoTransferPassedBy, Init, None
<1> QED
  BY <1>1, <1>4, <1>5, <1>6, <1>7 DEF PaymentsInv

LEMMA PaymentsStep ==
  ASSUME PaymentsInv, [Next]_vars
  PROVE  PaymentsInv'
BY PaymentsTypeStep, CreditsStep, PaidAndCreditedStep, PaidTimeStep, RangeStep DEF PaymentsInv

LEMMA PaymentsInvHolds == Spec => []PaymentsInv
<1>1. PaymentsInv /\ [Next]_vars => PaymentsInv'
  BY PaymentsStep
<1> QED
  BY <1>1, PaymentsInit, PTL DEF Spec

\* processLogs: no order is credited twice, however often ranges are read again
\* and whoever else pays its amount.
THEOREM OrdersAreCreditedOnce == Spec => []CreditedOnce
<1>1. PaymentsInv => CreditedOnce
  BY DEF PaymentsInv
<1> QED
  BY <1>1, PaymentsInvHolds, PTL

\* markOrderPaid and upgradeToPro: at most one paid order is without its credit
\* for each death of the process, besides the one in hand.
THEOREM PaidOrdersAreCredited == Spec => []PaidOrderIsCreditedUnlessInterrupted
<1>1. PaymentsInv => PaidOrderIsCreditedUnlessInterrupted
  BY DEF PaymentsInv
<1> QED
  BY <1>1, PaymentsInvHolds, PTL

\* upgradeToPro and the downgrade on use: what a key was pro for and what lies
\* ahead of it are together what its credits bought.
THEOREM BoughtTimeIsServed == Spec => []PaidTimeIsServed
<1>1. PaymentsInv => PaidTimeIsServed
  BY DEF PaymentsInv
<1> QED
  BY <1>1, PaymentsInvHolds, PTL

\* tickOnce: the checkpoint passes no transfer that was not given to processLogs,
\* unless the endpoint that answered lacked it, even when it moves backwards.
THEOREM TransfersAreRead == Spec => []NoTransferPassedBy
<1>1. PaymentsInv => NoTransferPassedBy
  BY DEF PaymentsInv
<1> QED
  BY <1>1, PaymentsInvHolds, PTL

----------------------------------------------------------------------------
(* The webhook rules.                                                       *)

Request ==
  {Hooks!Waiting} \cup [stage : {"body", "host"}, key : HookKeys, max : Nat]

RulesType ==
  /\ hookNow \in Nat
  /\ tier \in [HookKeys -> {"free", "pro"}]
  /\ rulesAt \in {Hooks!Never} \cup 0 .. hookNow
  /\ \E n \in Nat : DOMAIN created = 1 .. n
  /\ created \in [DOMAIN created -> 0 .. hookNow]
  /\ deleted \in [DOMAIN created -> {Hooks!Never} \cup 0 .. hookNow]
  /\ firings \in [DOMAIN created -> SUBSET (0 .. hookNow)]
  /\ DOMAIN rules \subseteq DOMAIN created
  /\ rules \in [DOMAIN rules -> [key : HookKeys, lastFired : {Hooks!Never} \cup 0 .. hookNow]]
  /\ DOMAIN cache \subseteq DOMAIN created
  /\ cache \in [DOMAIN cache -> {Hooks!Never} \cup 0 .. hookNow]
  /\ request \in [Requests -> Request]
  /\ \A q \in Requests : request[q] # Hooks!Waiting => request[q].max <= ProMax

\* last is the last of the firings of r, if there is any.
IsLastFiring(last, r) ==
  /\ last \in firings[r] \cup {Hooks!Never}
  /\ \A t \in firings[r] : t <= last

\* markFired keeps the row and the copy alike.
RowsKnow == \A r \in DOMAIN rules : IsLastFiring(rules[r].lastFired, r)
CopyKnows == \A r \in DOMAIN cache : IsLastFiring(cache[r], r)

\* A copy has the rules there were when it was read.
CopyIsOfItsMoment ==
  /\ \A r \in DOMAIN rules : deleted[r] = Hooks!Never
  /\ \A r \in DOMAIN rules : rulesAt # Hooks!Never /\ created[r] < rulesAt => r \in DOMAIN cache
  /\ \A r \in DOMAIN cache : rulesAt # Hooks!Never /\ (deleted[r] # Hooks!Never => rulesAt <= deleted[r])

\* Requests of a key that have been counted and not stored.
Counted(k) == {q \in Requests : request[q].stage = "host" /\ request[q].key = k}
PlacesAreHeld ==
  \A k \in HookKeys : Cardinality(Hooks!RulesOf(k)) + Cardinality(Counted(k)) <= ProMax + Cardinality(Requests) - 1

RulesInv ==
  /\ RulesType
  /\ RowsKnow
  /\ CopyKnows
  /\ CopyIsOfItsMoment
  /\ Hooks!FiresOncePerCooldown
  /\ Hooks!DeletedRuleFallsSilent

----------------------------------------------------------------------------
(* The webhook rules at the start.                                          *)

LEMMA Sizes ==
  ASSUME Hooks!AlertRulesAssumption
  PROVE  /\ FreeMax \in Nat /\ ProMax \in Nat /\ CacheTTL \in Nat /\ Cooldown \in Nat
         /\ Hooks!Never \in Int /\ Hooks!Never < -CacheTTL /\ Hooks!Never < -Cooldown /\ Hooks!Never < 0
BY DEF Hooks!AlertRulesAssumption, Hooks!Never

LEMMA RulesInit ==
  ASSUME Hooks!AlertRulesAssumption, Hooks!Init
  PROVE  RulesInv
<1>1. DOMAIN Hooks!Empty = {}
  BY DEF Hooks!Empty
<1>2. DOMAIN created = {} /\ DOMAIN rules = {} /\ DOMAIN cache = {} /\ DOMAIN firings = {}
  BY <1>1 DEF Hooks!Init
<1>3. RulesType
  <2>1. 0 \in Nat /\ DOMAIN created = 1 .. 0
    BY <1>2
  <2> QED
    BY <2>1, <1>1, <1>2 DEF RulesType, Hooks!Init, Request, Hooks!Empty
<1> QED
  BY <1>2, <1>3 DEF RulesInv, RowsKnow, CopyKnows, CopyIsOfItsMoment, Hooks!FiresOncePerCooldown, Hooks!DeletedRuleFallsSilent, Hooks!Init

----------------------------------------------------------------------------
(* Their steps.                                                             *)

\* A request is authenticated, counted or refused: no rule knows of it.
LEMMA RequestsKeep ==
  ASSUME Hooks!AlertRulesAssumption, RulesInv,
         UNCHANGED <<hookNow, rules, cache, rulesAt, created, deleted, firings>>,
         tier' \in [HookKeys -> {"free", "pro"}],
         request' \in [Requests -> Request],
         \A q \in Requests : request'[q] # Hooks!Waiting => request'[q].max <= ProMax
  PROVE  RulesInv'
<1>1. RulesType'
  BY DEF RulesInv, RulesType
<1>2. (RowsKnow /\ CopyKnows /\ CopyIsOfItsMoment)'
  BY DEF RulesInv, RowsKnow, CopyKnows, CopyIsOfItsMoment, IsLastFiring
<1>3. (Hooks!FiresOncePerCooldown /\ Hooks!DeletedRuleFallsSilent)'
  BY DEF RulesInv, Hooks!FiresOncePerCooldown, Hooks!DeletedRuleFallsSilent
<1> QED
  BY <1>1, <1>2, <1>3 DEF RulesInv

LEMMA AuthenticateKeeps ==
  ASSUME Hooks!AlertRulesAssumption, RulesInv, NEW q \in Requests, NEW k \in HookKeys, Hooks!Authenticate(q, k)
  PROVE  RulesInv'
<1> DEFINE new == [stage |-> "body", key |-> k, max |-> Hooks!Limit(tier[k])]
<1>1. Hooks!Limit(tier[k]) \in Nat /\ Hooks!Limit(tier[k]) <= ProMax
  BY Sizes DEF Hooks!AlertRulesAssumption, Hooks!Limit
<1>2. new \in Request
  BY <1>1 DEF Request
<1>3. request' = [request EXCEPT ![q] = new]
  BY DEF Hooks!Authenticate
<1>4. new.max <= ProMax
  BY <1>1
<1> HIDE DEF new
<1>5. /\ request' \in [Requests -> Request]
      /\ \A p \in Requests : request'[p] # Hooks!Waiting => request'[p].max <= ProMax
  BY <1>2, <1>3, <1>4 DEF RulesInv, RulesType
<1> QED
  BY <1>5, RequestsKeep DEF Hooks!Authenticate, RulesInv, RulesType

LEMMA CheckLimitKeeps ==
  ASSUME Hooks!AlertRulesAssumption, RulesInv, NEW q \in Requests, Hooks!CheckLimit(q)
  PROVE  RulesInv'
<1> DEFINE new == IF Hooks!MayCreate(q) THEN [request[q] EXCEPT !.stage = "host"] ELSE Hooks!Waiting
<1>1. request[q] \in [stage : {"body", "host"}, key : HookKeys, max : Nat] /\ request[q].max <= ProMax
  BY DEF Hooks!CheckLimit, RulesInv, RulesType, Request, Hooks!Waiting
<1>2. new \in Request /\ (new # Hooks!Waiting => new.max <= ProMax)
  BY <1>1 DEF Request
<1>3. request' = [request EXCEPT ![q] = new]
  BY DEF Hooks!CheckLimit
<1> HIDE DEF new
<1>4. /\ request' \in [Requests -> Request]
      /\ \A p \in Requests : request'[p] # Hooks!Waiting => request'[p].max <= ProMax
  BY <1>2, <1>3 DEF RulesInv, RulesType
<1> QED
  BY <1>4, RequestsKeep DEF Hooks!CheckLimit, RulesInv, RulesType

LEMMA RefuseKeeps ==
  ASSUME Hooks!AlertRulesAssumption, RulesInv, NEW q \in Requests, Hooks!Refuse(q)
  PROVE  RulesInv'
<1>1. /\ request' \in [Requests -> Request]
      /\ \A p \in Requests : request'[p] # Hooks!Waiting => request'[p].max <= ProMax
  BY DEF Hooks!Refuse, RulesInv, RulesType, Request
<1> QED
  BY <1>1, RequestsKeep DEF Hooks!Refuse, RulesInv, RulesType

LEMMA ChangeTierKeeps ==
  ASSUME Hooks!AlertRulesAssumption, RulesInv, NEW k \in HookKeys, Hooks!ChangeTier(k)
  PROVE  RulesInv'
<1>1. tier' \in [HookKeys -> {"free", "pro"}]
  BY DEF Hooks!ChangeTier, RulesInv, RulesType
<1> QED
  BY <1>1, RequestsKeep DEF Hooks!ChangeTier, RulesInv, RulesType

\* The id of a rule is a new one.
LEMMA NextId ==
  ASSUME RulesType
  PROVE  /\ Cardinality(DOMAIN created) \in Nat
         /\ DOMAIN created \cup {Cardinality(DOMAIN created) + 1} = 1 .. Cardinality(DOMAIN created) + 1
         /\ Cardinality(DOMAIN created) + 1 \notin DOMAIN created
<1>1. PICK n \in Nat : DOMAIN created = 1 .. n
  BY DEF RulesType
<1>2. Cardinality(DOMAIN created) = n
  BY <1>1, FS_Interval
<1> QED
  BY <1>1, <1>2

LEMMA StoreKeeps ==
  ASSUME Hooks!AlertRulesAssumption, RulesInv, NEW q \in Requests, Hooks!Store(q)
  PROVE  RulesInv'
<1> DEFINE id == Cardinality(DOMAIN created) + 1
           row == [key |-> request[q].key, lastFired |-> Hooks!Never]
<1>1. id \in Nat /\ id \notin DOMAIN created /\ \E n \in Nat : DOMAIN created \cup {id} = 1 .. n
  BY NextId DEF RulesInv
<1>2. /\ rules' = Hooks!With(rules, id, row) /\ created' = Hooks!With(created, id, hookNow)
      /\ deleted' = Hooks!With(deleted, id, Hooks!Never) /\ firings' = Hooks!With(firings, id, {})
      /\ request' = [request EXCEPT ![q] = Hooks!Waiting]
      /\ UNCHANGED <<hookNow, tier, cache, rulesAt>>
  BY HooksCount DEF Hooks!Store
<1>3. row \in [key : HookKeys, lastFired : {Hooks!Never} \cup 0 .. hookNow]
  <2>1. request[q].key \in HookKeys
    BY DEF Hooks!Store, RulesInv, RulesType, Request, Hooks!Waiting
  <2> QED
    BY <2>1
<1>4. /\ DOMAIN deleted = DOMAIN created /\ DOMAIN firings = DOMAIN created
      /\ DOMAIN rules \subseteq DOMAIN created /\ DOMAIN cache \subseteq DOMAIN created
  BY DEF RulesInv, RulesType
<1>5. row.lastFired = Hooks!Never
  OBVIOUS
<1> HIDE DEF id, row
<1>6. /\ DOMAIN rules' = DOMAIN rules \cup {id} /\ rules'[id] = row
      /\ \A r \in DOMAIN rules : rules'[r] = rules[r]
  BY <1>1, <1>2, <1>4 DEF Hooks!With
<1>7. /\ DOMAIN created' = DOMAIN created \cup {id} /\ created'[id] = hookNow
      /\ \A r \in DOMAIN created : created'[r] = created[r]
  BY <1>1, <1>2, <1>4 DEF Hooks!With
<1>8. /\ DOMAIN deleted' = DOMAIN created \cup {id} /\ deleted'[id] = Hooks!Never
      /\ \A r \in DOMAIN created : deleted'[r] = deleted[r]
  BY <1>1, <1>2, <1>4 DEF Hooks!With
<1>9. /\ DOMAIN firings' = DOMAIN created \cup {id} /\ firings'[id] = {}
      /\ \A r \in DOMAIN created : firings'[r] = firings[r]
  BY <1>1, <1>2, <1>4 DEF Hooks!With
<1>10. RulesType'
  <2>1. /\ created' \in [DOMAIN created' -> 0 .. hookNow']
        /\ deleted' \in [DOMAIN created' -> {Hooks!Never} \cup 0 .. hookNow']
        /\ firings' \in [DOMAIN created' -> SUBSET (0 .. hookNow')]
    <3>1. created' = [r \in DOMAIN created' |-> created'[r]]
          /\ deleted' = [r \in DOMAIN deleted' |-> deleted'[r]]
          /\ firings' = [r \in DOMAIN firings' |-> firings'[r]]
      BY <1>2 DEF Hooks!With
    <3> QED
      BY <3>1, <1>2, <1>7, <1>8, <1>9 DEF RulesInv, RulesType
  <2>2. rules' \in [DOMAIN rules' -> [key : HookKeys, lastFired : {Hooks!Never} \cup 0 .. hookNow']]
    <3>1. rules' = [r \in DOMAIN rules' |-> rules'[r]]
      BY <1>2 DEF Hooks!With
    <3> QED
      BY <3>1, <1>2, <1>3, <1>6 DEF RulesInv, RulesType
  <2>3. /\ request' \in [Requests -> Request]
        /\ \A p \in Requests : request'[p] # Hooks!Waiting => request'[p].max <= ProMax
    BY <1>2 DEF RulesInv, RulesType, Request
  <2>4. \E n \in Nat : DOMAIN created' = 1 .. n
    BY <1>1, <1>7
  <2> QED
    BY <2>1, <2>2, <2>3, <2>4, <1>2, <1>4, <1>6, <1>7 DEF RulesInv, RulesType
<1>11. RowsKnow' /\ CopyKnows'
  BY <1>1, <1>2, <1>4, <1>5, <1>6, <1>9 DEF RulesInv, RowsKnow, CopyKnows, IsLastFiring
<1>12. CopyIsOfItsMoment'
  <2>1. rulesAt # Hooks!Never => rulesAt <= hookNow
    BY DEF RulesInv, RulesType
  <2>2. ~(rulesAt' # Hooks!Never /\ created'[id] < rulesAt')
    BY <2>1, <1>2, <1>7, Sizes DEF RulesInv, RulesType
  <2> QED
    BY <2>2, <1>1, <1>2, <1>4, <1>6, <1>7, <1>8 DEF RulesInv, CopyIsOfItsMoment
<1>13. Hooks!FiresOncePerCooldown' /\ Hooks!DeletedRuleFallsSilent'
  BY <1>1, <1>4, <1>8, <1>9 DEF RulesInv, Hooks!FiresOncePerCooldown, Hooks!DeletedRuleFallsSilent
<1> QED
  BY <1>10, <1>11, <1>12, <1>13 DEF RulesInv

LEMMA DeleteKeeps ==
  ASSUME Hooks!AlertRulesAssumption, RulesInv, NEW r, Hooks!Delete(r)
  PROVE  RulesInv'
<1>1. /\ r \in DOMAIN rules /\ r \in DOMAIN created
      /\ DOMAIN rules' = DOMAIN rules \ {r} /\ \A s \in DOMAIN rules' : rules'[s] = rules[s]
      /\ rules' = [s \in DOMAIN rules' |-> rules'[s]]
  BY DEF Hooks!Delete, Hooks!Without, RulesInv, RulesType
<1>2. /\ DOMAIN deleted' = DOMAIN created /\ deleted'[r] = hookNow
      /\ \A s \in DOMAIN created \ {r} : deleted'[s] = deleted[s]
      /\ deleted' \in [DOMAIN created -> {Hooks!Never} \cup 0 .. hookNow]
  BY <1>1 DEF Hooks!Delete, RulesInv, RulesType
<1>3. UNCHANGED <<hookNow, tier, cache, rulesAt, request, created, firings>>
  BY DEF Hooks!Delete
<1>4. RulesType'
  <2>1. rules' \in [DOMAIN rules' -> [key : HookKeys, lastFired : {Hooks!Never} \cup 0 .. hookNow']]
    BY <1>1, <1>3 DEF RulesInv, RulesType
  <2> QED
    BY <2>1, <1>1, <1>2, <1>3 DEF RulesInv, RulesType
<1>5. RowsKnow' /\ CopyKnows'
  BY <1>1, <1>3 DEF RulesInv, RowsKnow, CopyKnows, IsLastFiring
<1>6. CopyIsOfItsMoment'
  <2>1. rulesAt # Hooks!Never => rulesAt <= hookNow
    BY DEF RulesInv, RulesType
  <2> QED
    BY <2>1, <1>1, <1>2, <1>3 DEF RulesInv, RulesType, CopyIsOfItsMoment
<1>7. Hooks!FiresOncePerCooldown'
  BY <1>3 DEF RulesInv, Hooks!FiresOncePerCooldown
<1>8. Hooks!DeletedRuleFallsSilent'
  <2> SUFFICES ASSUME NEW s \in DOMAIN firings, NEW t \in firings[s], deleted'[s] # Hooks!Never
               PROVE  t <= deleted'[s] + CacheTTL
    BY <1>3 DEF Hooks!DeletedRuleFallsSilent
  <2>1. s \in DOMAIN created /\ t \in 0 .. hookNow
    BY DEF RulesInv, RulesType
  <2>2. CASE s = r
    BY <2>1, <2>2, <1>2, Sizes DEF RulesInv, RulesType
  <2>3. CASE s # r
    BY <2>1, <2>3, <1>2 DEF RulesInv, Hooks!DeletedRuleFallsSilent
  <2> QED
    BY <2>2, <2>3
<1> QED
  BY <1>4, <1>5, <1>6, <1>7, <1>8 DEF RulesInv

LEMMA RestartKeeps ==
  ASSUME Hooks!AlertRulesAssumption, RulesInv, Hooks!Restart
  PROVE  RulesInv'
<1>1. DOMAIN cache' = {} /\ cache' = [r \in {} |-> Hooks!Never]
  BY DEF Hooks!Restart, Hooks!Empty
<1>2. UNCHANGED <<hookNow, tier, rules, created, deleted, firings>> /\ rulesAt' = Hooks!Never
  BY DEF Hooks!Restart
<1>3. request' = [q \in Requests |-> Hooks!Waiting]
  BY DEF Hooks!Restart
<1>4. RulesType'
  BY <1>1, <1>2, <1>3 DEF RulesInv, RulesType, Request
<1>5. (RowsKnow /\ CopyKnows /\ CopyIsOfItsMoment)'
  BY <1>1, <1>2 DEF RulesInv, RowsKnow, CopyKnows, CopyIsOfItsMoment, IsLastFiring
<1>6. (Hooks!FiresOncePerCooldown /\ Hooks!DeletedRuleFallsSilent)'
  BY <1>2 DEF RulesInv, Hooks!FiresOncePerCooldown, Hooks!DeletedRuleFallsSilent
<1> QED
  BY <1>4, <1>5, <1>6 DEF RulesInv

LEMMA TimePassesKeeps ==
  ASSUME Hooks!AlertRulesAssumption, RulesInv, Hooks!TimePasses
  PROVE  RulesInv'
<1>1. UNCHANGED <<tier, rules, cache, rulesAt, request, created, deleted, firings>>
  BY DEF Hooks!TimePasses
<1>2. hookNow' \in Nat /\ 0 .. hookNow \subseteq 0 .. hookNow'
  BY DEF Hooks!TimePasses, RulesInv, RulesType
<1>3. RulesType'
  <2>1. rules' \in [DOMAIN rules' -> [key : HookKeys, lastFired : {Hooks!Never} \cup 0 .. hookNow']]
    <3>1. [key : HookKeys, lastFired : {Hooks!Never} \cup 0 .. hookNow] \subseteq
          [key : HookKeys, lastFired : {Hooks!Never} \cup 0 .. hookNow']
      BY <1>2
    <3> QED
      BY <3>1, <1>1 DEF RulesInv, RulesType
  <2> QED
    BY <2>1, <1>1, <1>2 DEF RulesInv, RulesType
<1>4. (RowsKnow /\ CopyKnows /\ CopyIsOfItsMoment)'
  BY <1>1 DEF RulesInv, RowsKnow, CopyKnows, CopyIsOfItsMoment, IsLastFiring
<1>5. (Hooks!FiresOncePerCooldown /\ Hooks!DeletedRuleFallsSilent)'
  BY <1>1 DEF RulesInv, Hooks!FiresOncePerCooldown, Hooks!DeletedRuleFallsSilent
<1> QED
  BY <1>3, <1>4, <1>5 DEF RulesInv

\* What checkRules goes by: read afresh or not, it knows the last firings, has
\* every rule older than the life of the copy, and none deleted before that.
LEMMA CurrentIsFit ==
  ASSUME Hooks!AlertRulesAssumption, RulesInv
  PROVE  /\ DOMAIN Hooks!Current \subseteq DOMAIN created
         /\ Hooks!Current \in [DOMAIN Hooks!Current -> {Hooks!Never} \cup 0 .. hookNow]
         /\ \A r \in DOMAIN Hooks!Current : IsLastFiring(Hooks!Current[r], r)
         /\ \A r \in DOMAIN Hooks!Current : deleted[r] # Hooks!Never => hookNow <= deleted[r] + CacheTTL
         /\ \A r \in DOMAIN rules : created[r] + CacheTTL < hookNow => r \in DOMAIN Hooks!Current
<1>1. CASE Hooks!Stale
  <2>1. Hooks!Current = [r \in DOMAIN rules |-> rules[r].lastFired]
    BY <1>1 DEF Hooks!Current
  <2> QED
    BY <2>1 DEF RulesInv, RulesType, RowsKnow, CopyIsOfItsMoment
<1>2. CASE ~Hooks!Stale
  <2>1. Hooks!Current = cache /\ rulesAt # Hooks!Never /\ hookNow - rulesAt <= CacheTTL
    BY <1>2, Sizes DEF Hooks!Current, Hooks!Stale, RulesInv, RulesType
  <2>2. rulesAt \in 0 .. hookNow
    BY <2>1 DEF RulesInv, RulesType
  <2>3. ASSUME NEW r \in DOMAIN Hooks!Current, deleted[r] # Hooks!Never
        PROVE  hookNow <= deleted[r] + CacheTTL
    <3>1. deleted[r] \in 0 .. hookNow /\ rulesAt <= deleted[r]
      BY <2>1, <2>3 DEF RulesInv, RulesType, CopyIsOfItsMoment
    <3> QED
      BY <3>1, <2>1, <2>2, Sizes DEF RulesInv, RulesType
  <2>4. ASSUME NEW r \in DOMAIN rules, created[r] + CacheTTL < hookNow
        PROVE  r \in DOMAIN Hooks!Current
    <3>1. created[r] < rulesAt
      BY <2>1, <2>2, <2>4, Sizes DEF RulesInv, RulesType
    <3> QED
      BY <3>1, <2>1 DEF RulesInv, CopyIsOfItsMoment
  <2> QED
    BY <2>1, <2>3, <2>4 DEF RulesInv, RulesType, CopyKnows
<1> QED
  BY <1>1, <1>2

LEMMA CheckRulesKeeps ==
  ASSUME Hooks!AlertRulesAssumption, RulesInv, NEW matching, Hooks!CheckRules(matching)
  PROVE  RulesInv'
<1> DEFINE fired == {r \in DOMAIN Hooks!Current \cap matching : Hooks!Due(r)}
<1>1. /\ cache' = [r \in DOMAIN Hooks!Current |-> IF r \in fired THEN hookNow ELSE Hooks!Current[r]]
      /\ rulesAt' = IF Hooks!Stale THEN hookNow ELSE rulesAt
      /\ rules' = [r \in DOMAIN rules |-> IF r \in fired THEN [rules[r] EXCEPT !.lastFired = hookNow] ELSE rules[r]]
      /\ firings' = [r \in DOMAIN firings |-> IF r \in fired THEN firings[r] \cup {hookNow} ELSE firings[r]]
      /\ UNCHANGED <<hookNow, tier, request, created, deleted>>
  BY DEF Hooks!CheckRules, Hooks!MarkFired
<1>2. fired \subseteq DOMAIN Hooks!Current /\ \A r \in fired : hookNow - Hooks!Current[r] >= Cooldown
  BY DEF Hooks!Due
<1> HIDE DEF fired
<1>3. /\ DOMAIN firings = DOMAIN created /\ DOMAIN rules \subseteq DOMAIN created
      /\ firings \in [DOMAIN created -> SUBSET (0 .. hookNow)] /\ hookNow \in Nat
  BY DEF RulesInv, RulesType
<1>4. RulesType'
  <2>1. rulesAt' \in {Hooks!Never} \cup 0 .. hookNow
    BY <1>1 DEF RulesInv, RulesType
  <2>2. rules' \in [DOMAIN rules -> [key : HookKeys, lastFired : {Hooks!Never} \cup 0 .. hookNow]]
    <3>1. hookNow \in {Hooks!Never} \cup 0 .. hookNow
      BY <1>3
    <3>2. \A r \in DOMAIN rules : rules[r] \in [key : HookKeys, lastFired : {Hooks!Never} \cup 0 .. hookNow]
      BY DEF RulesInv, RulesType
    <3>3. \A r \in DOMAIN rules :
            [rules[r] EXCEPT !.lastFired = hookNow] \in [key : HookKeys, lastFired : {Hooks!Never} \cup 0 .. hookNow]
      BY <3>1, <3>2
    <3> QED
      BY <1>1, <3>2, <3>3
  <2>3. cache' \in [DOMAIN Hooks!Current -> {Hooks!Never} \cup 0 .. hookNow]
    BY <1>1, <1>3, CurrentIsFit
  <2>4. firings' \in [DOMAIN created -> SUBSET (0 .. hookNow)]
    BY <1>1, <1>3
  <2> QED
    BY <1>1, <2>1, <2>2, <2>3, <2>4, CurrentIsFit DEF RulesInv, RulesType
<1>5. \A r \in DOMAIN created :
        firings'[r] = IF r \in fired THEN firings[r] \cup {hookNow} ELSE firings[r]
  BY <1>1, <1>3
<1>6. \A r \in DOMAIN created : \A t \in firings[r] : t \in 0 .. hookNow /\ t <= hookNow
  BY <1>3
<1>7. RowsKnow'
  <2> SUFFICES ASSUME NEW r \in DOMAIN rules
               PROVE  IsLastFiring(rules[r].lastFired, r)'
    BY <1>1 DEF RowsKnow
  <2>1. r \in DOMAIN created /\ IsLastFiring(rules[r].lastFired, r)
    BY <1>3 DEF RulesInv, RowsKnow
  <2>2. CASE r \in fired
    <3>1. rules'[r].lastFired = hookNow
      BY <1>1, <2>2 DEF RulesInv, RulesType
    <3> QED
      BY <3>1, <2>1, <2>2, <1>1, <1>3, <1>5, <1>6 DEF IsLastFiring
  <2>3. CASE r \notin fired
    BY <2>1, <2>3, <1>1, <1>5 DEF IsLastFiring
  <2> QED
    BY <2>2, <2>3
<1>8. CopyKnows'
  <2> SUFFICES ASSUME NEW r \in DOMAIN Hooks!Current
               PROVE  IsLastFiring(cache[r], r)'
    BY <1>1 DEF CopyKnows
  <2>1. r \in DOMAIN created /\ IsLastFiring(Hooks!Current[r], r)
    BY CurrentIsFit
  <2>2. CASE r \in fired
    BY <2>1, <2>2, <1>1, <1>3, <1>5, <1>6 DEF IsLastFiring
  <2>3. CASE r \notin fired
    BY <2>1, <2>3, <1>1, <1>5 DEF IsLastFiring
  <2> QED
    BY <2>2, <2>3
<1>9. CopyIsOfItsMoment'
  <2>1. CASE Hooks!Stale
    <3>1. Hooks!Current = [r \in DOMAIN rules |-> rules[r].lastFired]
      BY <2>1 DEF Hooks!Current
    <3>2. DOMAIN cache' = DOMAIN rules /\ DOMAIN rules' = DOMAIN rules
      BY <3>1, <1>1
    <3>3. rulesAt' # Hooks!Never
      BY <2>1, <1>1, <1>3, Sizes
    <3> QED
      BY <3>2, <3>3, <1>1 DEF RulesInv, CopyIsOfItsMoment
  <2>2. CASE ~Hooks!Stale
    <3>1. Hooks!Current = cache
      BY <2>2 DEF Hooks!Current
    <3>2. DOMAIN cache' = DOMAIN cache /\ DOMAIN rules' = DOMAIN rules /\ rulesAt' = rulesAt
      BY <3>1, <2>2, <1>1
    <3> QED
      BY <3>2, <1>1 DEF RulesInv, CopyIsOfItsMoment
  <2> QED
    BY <2>1, <2>2
<1>10. Hooks!FiresOncePerCooldown'
  <2> SUFFICES ASSUME NEW r \in DOMAIN created, NEW s \in firings'[r], NEW t \in firings'[r], s < t
               PROVE  t - s >= Cooldown
    BY <1>1, <1>3 DEF Hooks!FiresOncePerCooldown
  <2>1. /\ \A u \in firings'[r] : u \in firings[r] \/ (r \in fired /\ u = hookNow)
        /\ \A u \in firings[r] : u \in 0 .. hookNow
    BY <1>5, <1>3
  <2>2. s \in 0 .. hookNow /\ t \in 0 .. hookNow
    BY <2>1, <1>3
  <2>3. CASE s \in firings[r] /\ t \in firings[r]
    BY <2>3, <1>3 DEF RulesInv, Hooks!FiresOncePerCooldown
  <2>4. CASE t \notin firings[r]
    <3>1. r \in fired /\ t = hookNow /\ s \in firings[r]
      BY <2>4, <2>1, <1>3
    <3>2. s <= Hooks!Current[r] /\ Hooks!Current[r] \in {Hooks!Never} \cup 0 .. hookNow /\ s \in 0 .. hookNow
      BY <3>1, <1>2, <1>6, CurrentIsFit DEF IsLastFiring
    <3> QED
      BY <3>1, <3>2, <1>2, <1>3, Sizes
  <2>5. CASE s \notin firings[r]
    <3>1. s = hookNow
      BY <2>5, <2>1
    <3> QED
      BY <3>1, <2>2, <1>3
  <2> QED
    BY <2>3, <2>4, <2>5
<1>11. Hooks!DeletedRuleFallsSilent'
  <2> SUFFICES ASSUME NEW r \in DOMAIN created, NEW t \in firings'[r], deleted[r] # Hooks!Never
               PROVE  t <= deleted[r] + CacheTTL
    BY <1>1, <1>3 DEF Hooks!DeletedRuleFallsSilent
  <2>1. CASE t \in firings[r]
    BY <2>1, <1>3 DEF RulesInv, Hooks!DeletedRuleFallsSilent
  <2>2. CASE t \notin firings[r]
    BY <2>2, <1>2, <1>5, CurrentIsFit
  <2> QED
    BY <2>1, <2>2
<1> QED
  BY <1>4, <1>7, <1>8, <1>9, <1>10, <1>11 DEF RulesInv

LEMMA RulesStep ==
  ASSUME Hooks!AlertRulesAssumption, RulesInv, [Hooks!Next]_Hooks!vars
  PROVE  RulesInv'
<1>1. CASE UNCHANGED Hooks!vars
  BY <1>1 DEF Hooks!vars, RulesInv, RulesType, RowsKnow, CopyKnows, CopyIsOfItsMoment, IsLastFiring,
              Hooks!FiresOncePerCooldown, Hooks!DeletedRuleFallsSilent
<1>2. CASE Hooks!Next
  BY <1>2, AuthenticateKeeps, CheckLimitKeeps, StoreKeeps, RefuseKeeps, DeleteKeeps, ChangeTierKeeps,
     CheckRulesKeeps, RestartKeeps, TimePassesKeeps DEF Hooks!Next
<1> QED
  BY <1>1, <1>2

LEMMA RulesInvHolds ==
  ASSUME Hooks!AlertRulesAssumption
  PROVE  Hooks!Spec => []RulesInv
<1>1. Hooks!Init => RulesInv
  BY RulesInit
<1>2. RulesInv /\ [Hooks!Next]_Hooks!vars => RulesInv'
  BY RulesStep
<1> QED
  BY <1>1, <1>2, PTL DEF Hooks!Spec

----------------------------------------------------------------------------
(* What a matching event finds.                                             *)

\* A rule that is not called has been, less than a cooldown ago.
LEMMA MatchIsHeardStep ==
  ASSUME Hooks!AlertRulesAssumption, RulesInv, NEW matching \in SUBSET (DOMAIN rules), Hooks!CheckRules(matching),
         NEW r \in matching, created[r] + CacheTTL < hookNow
  PROVE  \E t \in firings'[r] : hookNow - t < Cooldown \/ t = hookNow
<1> DEFINE fired == {x \in DOMAIN Hooks!Current \cap matching : Hooks!Due(x)}
<1>1. firings' = [x \in DOMAIN firings |-> IF x \in fired THEN firings[x] \cup {hookNow} ELSE firings[x]]
  BY DEF Hooks!CheckRules
<1>2. r \in DOMAIN firings /\ r \in DOMAIN Hooks!Current /\ hookNow \in Nat
  BY CurrentIsFit DEF RulesInv, RulesType
<1>3. CASE Hooks!Due(r)
  <2>1. r \in fired
    BY <1>2, <1>3
  <2> HIDE DEF fired
  <2>2. hookNow \in firings'[r]
    BY <2>1, <1>1, <1>2
  <2> QED
    BY <2>2
<1>4. CASE ~Hooks!Due(r)
  <2>1. r \notin fired
    BY <1>4
  <2> HIDE DEF fired
  <2>2. firings'[r] = firings[r]
    BY <2>1, <1>1, <1>2
  <2>3. Hooks!Current[r] \in firings[r] \cup {Hooks!Never} /\ Hooks!Current[r] \in {Hooks!Never} \cup 0 .. hookNow
    BY <1>2, CurrentIsFit DEF IsLastFiring
  <2>4. hookNow - Hooks!Current[r] < Cooldown
    BY <1>4, <1>2, <2>3, Sizes DEF Hooks!Due
  <2>5. Hooks!Current[r] # Hooks!Never
    BY <2>4, <1>2, Sizes
  <2> QED
    BY <2>2, <2>3, <2>4, <2>5
<1> QED
  BY <1>3, <1>4

----------------------------------------------------------------------------
(* The limit.                                                               *)

LEMMA PlacesAreFinite ==
  ASSUME Hooks!AlertRulesAssumption, RulesType, NEW k
  PROVE  /\ IsFiniteSet(Hooks!RulesOf(k)) /\ Cardinality(Hooks!RulesOf(k)) \in Nat
         /\ IsFiniteSet(Counted(k)) /\ Cardinality(Counted(k)) \in Nat
         /\ Cardinality(Counted(k)) <= Cardinality(Requests)
         /\ Cardinality(Requests) \in Nat /\ Cardinality(Requests) >= 1
<1>1. IsFiniteSet(DOMAIN created)
  <2>1. PICK n \in Nat : DOMAIN created = 1 .. n
    BY DEF RulesType
  <2>2. IsFiniteSet(1 .. n)
    BY FS_Interval
  <2> QED
    BY <2>1, <2>2
<1>2. Hooks!RulesOf(k) \subseteq DOMAIN created
  BY DEF Hooks!RulesOf, RulesType
<1>3. IsFiniteSet(Requests) /\ Requests # {}
  BY HooksCount DEF Hooks!AlertRulesAssumption
<1>4. Counted(k) \subseteq Requests
  BY DEF Counted
<1>5. IsFiniteSet(Hooks!RulesOf(k)) /\ IsFiniteSet(Counted(k)) /\ Cardinality(Counted(k)) <= Cardinality(Requests)
  BY <1>1, <1>2, <1>3, <1>4, FS_Subset
<1>6. Cardinality(Hooks!RulesOf(k)) \in Nat /\ Cardinality(Counted(k)) \in Nat /\ Cardinality(Requests) \in Nat
  BY <1>3, <1>5, FS_CardinalityType
<1>7. Cardinality(Requests) # 0
  BY <1>3, FS_EmptySet
<1> QED
  BY <1>5, <1>6, <1>7

\* Fewer rules and fewer counted requests take no more places.
LEMMA FewerPlaces ==
  ASSUME Hooks!AlertRulesAssumption, RulesInv, PlacesAreHeld, NEW k \in HookKeys,
         Hooks!RulesOf(k)' \subseteq Hooks!RulesOf(k), Counted(k)' \subseteq Counted(k)
  PROVE  Cardinality(Hooks!RulesOf(k))' + Cardinality(Counted(k))' <= ProMax + Cardinality(Requests) - 1
<1>1. /\ IsFiniteSet(Hooks!RulesOf(k)) /\ IsFiniteSet(Counted(k))
      /\ Cardinality(Hooks!RulesOf(k)) \in Nat /\ Cardinality(Counted(k)) \in Nat
  BY PlacesAreFinite DEF RulesInv
<1>2. /\ Cardinality(Hooks!RulesOf(k)') <= Cardinality(Hooks!RulesOf(k)) /\ Cardinality(Hooks!RulesOf(k)') \in Nat
      /\ Cardinality(Counted(k)') <= Cardinality(Counted(k)) /\ Cardinality(Counted(k)') \in Nat
  BY <1>1, FS_Subset, FS_CardinalityType
<1>3. Cardinality(Hooks!RulesOf(k)) + Cardinality(Counted(k)) <= ProMax + Cardinality(Requests) - 1
  BY DEF PlacesAreHeld
<1>4. Cardinality(Requests) \in Nat
  BY PlacesAreFinite DEF RulesInv
<1> QED
  BY <1>1, <1>2, <1>3, <1>4, Sizes

LEMMA CheckLimitHoldsPlaces ==
  ASSUME Hooks!AlertRulesAssumption, RulesInv, RulesInv', PlacesAreHeld, NEW q \in Requests, Hooks!CheckLimit(q), NEW k \in HookKeys
  PROVE  Cardinality(Hooks!RulesOf(k))' + Cardinality(Counted(k))' <= ProMax + Cardinality(Requests) - 1
<1>1. Hooks!RulesOf(k)' = Hooks!RulesOf(k)
  BY DEF Hooks!CheckLimit, Hooks!RulesOf
<1>2. request' = [request EXCEPT ![q] = IF Hooks!MayCreate(q) THEN [@ EXCEPT !.stage = "host"] ELSE Hooks!Waiting]
  BY DEF Hooks!CheckLimit
<1>3. /\ request[q] \in [stage : {"body", "host"}, key : HookKeys, max : Nat] /\ request[q].max <= ProMax
      /\ DOMAIN request = Requests
  BY DEF Hooks!CheckLimit, RulesInv, RulesType, Request, Hooks!Waiting
<1>4. CASE Hooks!MayCreate(q) /\ request[q].key = k
  <2>1. Cardinality(Hooks!RulesOf(k)) < ProMax
    BY <1>3, <1>4, HooksCount, Sizes, PlacesAreFinite DEF Hooks!MayCreate, RulesInv
  <2>2. /\ IsFiniteSet(Requests) /\ Counted(k)' \subseteq Requests
    BY HooksCount DEF Hooks!AlertRulesAssumption, Counted
  <2>3. /\ Cardinality(Counted(k)') <= Cardinality(Requests) /\ Cardinality(Counted(k)') \in Nat
        /\ Cardinality(Requests) \in Nat
    BY <2>2, FS_Subset, FS_CardinalityType
  <2> QED
    BY <2>1, <2>3, <1>1, Sizes, PlacesAreFinite DEF RulesInv
<1>5. CASE ~(Hooks!MayCreate(q) /\ request[q].key = k)
  <2>1. Counted(k)' \subseteq Counted(k)
    BY <1>2, <1>3, <1>5 DEF Counted, Hooks!Waiting
  <2> QED
    BY <2>1, <1>1, FewerPlaces
<1> QED
  BY <1>4, <1>5

LEMMA StoreHoldsPlaces ==
  ASSUME Hooks!AlertRulesAssumption, RulesInv, PlacesAreHeld, NEW q \in Requests, Hooks!Store(q), NEW k \in HookKeys
  PROVE  Cardinality(Hooks!RulesOf(k))' + Cardinality(Counted(k))' <= ProMax + Cardinality(Requests) - 1
<1> DEFINE id == Cardinality(DOMAIN created) + 1
           row == [key |-> request[q].key, lastFired |-> Hooks!Never]
<1>1. rules' = Hooks!With(rules, id, row) /\ request' = [request EXCEPT ![q] = Hooks!Waiting]
  BY HooksCount DEF Hooks!Store
<1>2. id \notin DOMAIN rules /\ DOMAIN request = Requests
  BY NextId DEF RulesInv, RulesType
<1>3. row.key = request[q].key
  OBVIOUS
<1> HIDE DEF id, row
<1>4. Counted(k)' = Counted(k) \ {q}
  BY <1>1, <1>2 DEF Counted, Hooks!Waiting
<1>5. CASE request[q].key = k
  <2>1. Hooks!RulesOf(k)' = Hooks!RulesOf(k) \cup {id} /\ id \notin Hooks!RulesOf(k)
    BY <1>1, <1>2, <1>3, <1>5 DEF Hooks!RulesOf, Hooks!With
  <2>2. q \in Counted(k)
    BY <1>5 DEF Hooks!Store, Counted
  <2>3. /\ Cardinality(Hooks!RulesOf(k)') = Cardinality(Hooks!RulesOf(k)) + 1
        /\ Cardinality(Counted(k)') = Cardinality(Counted(k)) - 1
    <3>1. IsFiniteSet(Hooks!RulesOf(k)) /\ IsFiniteSet(Counted(k))
      BY PlacesAreFinite DEF RulesInv
    <3>2. Cardinality(Hooks!RulesOf(k) \cup {id}) = Cardinality(Hooks!RulesOf(k)) + 1
      BY <2>1, <3>1, FS_AddElement
    <3>3. Cardinality(Counted(k) \ {q}) = Cardinality(Counted(k)) - 1
      BY <2>2, <3>1, FS_RemoveElement
    <3> QED
      BY <1>4, <2>1, <3>2, <3>3
  <2>4. Cardinality(Hooks!RulesOf(k)) + Cardinality(Counted(k)) <= ProMax + Cardinality(Requests) - 1
    BY DEF PlacesAreHeld
  <2>5. Cardinality(Hooks!RulesOf(k)) \in Nat /\ Cardinality(Counted(k)) \in Nat /\ Cardinality(Requests) \in Nat
    BY PlacesAreFinite DEF RulesInv
  <2> QED
    BY <2>3, <2>4, <2>5, Sizes
<1>6. CASE request[q].key # k
  <2>1. Hooks!RulesOf(k)' = Hooks!RulesOf(k)
    BY <1>1, <1>2, <1>3, <1>6 DEF Hooks!RulesOf, Hooks!With
  <2> QED
    BY <2>1, <1>4, FewerPlaces
<1> QED
  BY <1>5, <1>6

LEMMA PlacesStep ==
  ASSUME Hooks!AlertRulesAssumption, RulesInv, PlacesAreHeld, [Hooks!Next]_Hooks!vars
  PROVE  PlacesAreHeld'
<1> SUFFICES ASSUME NEW k \in HookKeys
             PROVE  Cardinality(Hooks!RulesOf(k))' + Cardinality(Counted(k))' <= ProMax + Cardinality(Requests) - 1
  BY DEF PlacesAreHeld
<1>1. RulesInv'
  BY RulesStep
<1>2. DOMAIN request = Requests
  BY DEF RulesInv, RulesType
<1>3. CASE UNCHANGED Hooks!vars
  <2>1. Hooks!RulesOf(k)' = Hooks!RulesOf(k) /\ Counted(k)' = Counted(k)
    BY <1>3 DEF Hooks!vars, Hooks!RulesOf, Counted
  <2> QED
    BY <2>1, FewerPlaces
<1>4. ASSUME NEW q \in Requests, (\E j \in HookKeys : Hooks!Authenticate(q, j)) \/ Hooks!Refuse(q)
      PROVE  Cardinality(Hooks!RulesOf(k))' + Cardinality(Counted(k))' <= ProMax + Cardinality(Requests) - 1
  <2>1. Hooks!RulesOf(k)' = Hooks!RulesOf(k) /\ Counted(k)' \subseteq Counted(k)
    BY <1>2, <1>4 DEF Hooks!Authenticate, Hooks!Refuse, Hooks!RulesOf, Counted, Hooks!Waiting
  <2> QED
    BY <2>1, FewerPlaces
<1>5. ASSUME NEW r, Hooks!Delete(r)
      PROVE  Cardinality(Hooks!RulesOf(k))' + Cardinality(Counted(k))' <= ProMax + Cardinality(Requests) - 1
  <2>1. Hooks!RulesOf(k)' \subseteq Hooks!RulesOf(k) /\ Counted(k)' = Counted(k)
    BY <1>5 DEF Hooks!Delete, Hooks!Without, Hooks!RulesOf, Counted
  <2> QED
    BY <2>1, FewerPlaces
<1>6. ASSUME NEW matching, Hooks!CheckRules(matching)
      PROVE  Cardinality(Hooks!RulesOf(k))' + Cardinality(Counted(k))' <= ProMax + Cardinality(Requests) - 1
  <2>1. DOMAIN rules' = DOMAIN rules /\ \A r \in DOMAIN rules : rules'[r].key = rules[r].key
    BY <1>6 DEF Hooks!CheckRules, Hooks!MarkFired, RulesInv, RulesType
  <2>2. Hooks!RulesOf(k)' = Hooks!RulesOf(k) /\ Counted(k)' = Counted(k)
    BY <1>6, <2>1 DEF Hooks!CheckRules, Hooks!RulesOf, Counted
  <2> QED
    BY <2>2, FewerPlaces
<1>7. CASE Hooks!Restart
  <2>1. Hooks!RulesOf(k)' = Hooks!RulesOf(k) /\ Counted(k)' \subseteq Counted(k)
    BY <1>7 DEF Hooks!Restart, Hooks!RulesOf, Counted, Hooks!Waiting
  <2> QED
    BY <2>1, FewerPlaces
<1>8. CASE Hooks!TimePasses \/ \E j \in HookKeys : Hooks!ChangeTier(j)
  <2>1. Hooks!RulesOf(k)' = Hooks!RulesOf(k) /\ Counted(k)' = Counted(k)
    BY <1>8 DEF Hooks!TimePasses, Hooks!ChangeTier, Hooks!RulesOf, Counted
  <2> QED
    BY <2>1, FewerPlaces
<1> QED
  BY <1>1, <1>3, <1>4, <1>5, <1>6, <1>7, <1>8, CheckLimitHoldsPlaces, StoreHoldsPlaces DEF Hooks!Next

----------------------------------------------------------------------------
(* What the rules promise.                                                  *)

\* checkRules: a webhook is called at most once per cooldown, whatever is
\* reloaded, restarted, created or deleted in between.
LEMMA RulesFireOncePerCooldown ==
  ASSUME Hooks!AlertRulesAssumption
  PROVE  Hooks!Spec => []Hooks!FiresOncePerCooldown
<1>1. RulesInv => Hooks!FiresOncePerCooldown
  BY DEF RulesInv
<1> QED
  BY <1>1, RulesInvHolds, PTL

\* DELETE /v1/alerts: a deleted rule calls no one once the copy of the rules
\* made before is out of date.
LEMMA DeletedRulesFallSilent ==
  ASSUME Hooks!AlertRulesAssumption
  PROVE  Hooks!Spec => []Hooks!DeletedRuleFallsSilent
<1>1. RulesInv => Hooks!DeletedRuleFallsSilent
  BY DEF RulesInv
<1> QED
  BY <1>1, RulesInvHolds, PTL

\* checkRules: an event that matches a rule older than the copy may be is
\* ignored only within a cooldown of a call.
LEMMA MatchesAreHeard ==
  ASSUME Hooks!AlertRulesAssumption
  PROVE  Hooks!Spec => Hooks!MatchIsHeard
<1> DEFINE Heard ==
      \A matching \in SUBSET (DOMAIN rules) : Hooks!CheckRules(matching) =>
        \A r \in matching : created[r] + CacheTTL < hookNow =>
          \E t \in firings'[r] : hookNow - t < Cooldown \/ t = hookNow
<1>1. RulesInv /\ [Hooks!Next]_Hooks!vars => [Heard]_Hooks!vars
  BY MatchIsHeardStep
<1> HIDE DEF Heard
<1>2. Hooks!Spec => [][Heard]_Hooks!vars
  BY <1>1, RulesInvHolds, PTL DEF Hooks!Spec
<1> QED
  BY <1>2 DEF Heard, Hooks!MatchIsHeard

\* POST /v1/alerts: a key has more rules than its tier allows only by as many
\* requests as were under way together with the one that found room.
LEMMA LimitsAreExceededOnlyTogether ==
  ASSUME Hooks!AlertRulesAssumption
  PROVE  Hooks!Spec => []Hooks!LimitIsExceededOnlyTogether
<1>1. Hooks!Init => PlacesAreHeld
  <2> SUFFICES ASSUME Hooks!Init, NEW k \in HookKeys
               PROVE  Cardinality(Hooks!RulesOf(k)) + Cardinality(Counted(k)) <= ProMax + Cardinality(Requests) - 1
    BY DEF PlacesAreHeld
  <2>1. Hooks!RulesOf(k) = {} /\ Counted(k) = {}
    BY DEF Hooks!Init, Hooks!RulesOf, Counted, Hooks!Empty, Hooks!Waiting
  <2>2. Cardinality(Requests) \in Nat /\ Cardinality(Requests) >= 1
    BY RulesInit, PlacesAreFinite DEF RulesInv
  <2> QED
    BY <2>1, <2>2, FS_EmptySet, Sizes
<1>2. RulesInv /\ PlacesAreHeld /\ [Hooks!Next]_Hooks!vars => PlacesAreHeld'
  BY PlacesStep
<1>3. RulesInv /\ PlacesAreHeld => Hooks!LimitIsExceededOnlyTogether
  <2> SUFFICES ASSUME RulesInv, PlacesAreHeld, NEW k \in HookKeys
               PROVE  Cardinality(Hooks!RulesOf(k)) <= ProMax + Cardinality(Requests) - 1
    BY HooksCount DEF Hooks!LimitIsExceededOnlyTogether
  <2>1. Cardinality(Hooks!RulesOf(k)) + Cardinality(Counted(k)) <= ProMax + Cardinality(Requests) - 1
    BY DEF PlacesAreHeld
  <2>2. Cardinality(Hooks!RulesOf(k)) \in Nat /\ Cardinality(Counted(k)) \in Nat /\ Cardinality(Requests) \in Nat
    BY PlacesAreFinite DEF RulesInv
  <2> QED
    BY <2>1, <2>2, Sizes
<1> QED
  BY <1>1, <1>2, <1>3, RulesInvHolds, PTL DEF Hooks!Spec

----------------------------------------------------------------------------
(* The daily digest.                                                        *)

Message == [day : Nat, quiet : Nat, busy : BOOLEAN]
Check == [stage : {"sending", "marking", "counting"}, day : Nat, quiet : Nat, busy : BOOLEAN]

DigestType ==
  /\ today \in Nat /\ today >= 1
  /\ lastDay \in Nat /\ quietDays \in Nat
  /\ deaths \in Nat /\ lost \in Nat
  /\ 0 \notin busy
  /\ check \in {Daily!Idle} \cup Check
  /\ DOMAIN arrived \subseteq Message
  /\ arrived \in [DOMAIN arrived -> Nat]

\* A check is about a day that is not marked before it marks it.
CheckIsOfAnOpenDay ==
  check.stage \in {"sending", "marking"} => /\ lastDay < check.day
                                            /\ check.busy = (check.day \in busy)

\* The digest of a busy day is out before the day is marked.
SentBeforeMarked ==
  check.stage = "marking" /\ check.day \in busy => Daily!ArrivalsFor(check.day) # {}

AboutToBeMarked(d) == check.stage = "marking" /\ check.day = d
UnmarkedWereUndone ==
  \A m \in DOMAIN arrived :
    lastDay < m.day /\ ~AboutToBeMarked(m.day) => arrived[m] <= deaths + lost

DigestInv ==
  /\ DigestType
  /\ CheckIsOfAnOpenDay
  /\ SentBeforeMarked
  /\ UnmarkedWereUndone
  /\ Daily!MarkedMeansArrived
  /\ Daily!ArrivesOnceUnlessInterrupted

LEMMA DigestInit ==
  ASSUME Daily!DigestAssumption, Daily!Init
  PROVE  DigestInv
<1>1. DigestType
  BY DEF Daily!Init, DigestType, Daily!Days, Daily!Idle
<1>2. lastDay \notin busy /\ DOMAIN arrived = {} /\ check.stage = "idle"
  BY DEF Daily!Init, Daily!Days, Daily!Idle
<1> QED
  BY <1>1, <1>2 DEF DigestInv, CheckIsOfAnOpenDay, SentBeforeMarked, UnmarkedWereUndone,
                    Daily!MarkedMeansArrived, Daily!ArrivesOnceUnlessInterrupted

\* Where a check stands.
LEMMA CheckInHand ==
  ASSUME DigestType, check.stage \in {"sending", "marking", "counting"}
  PROVE  check \in Check
BY DEF DigestType, Daily!Idle

\* One more arrival of a message.
LEMMA OneMoreArrival ==
  ASSUME DigestType, NEW m \in Message, arrived' = Daily!Count(arrived, m)
  PROVE  /\ DOMAIN arrived' = DOMAIN arrived \cup {m}
         /\ arrived' \in [DOMAIN arrived' -> Nat]
         /\ \A x \in DOMAIN arrived : x # m => arrived'[x] = arrived[x]
         /\ arrived'[m] = IF m \in DOMAIN arrived THEN arrived[m] + 1 ELSE 1
BY DEF DigestType, Daily!Count

\* Only the day that is marked, or given up, matters to what has arrived.
LEMMA NothingArrives ==
  ASSUME DigestInv, UNCHANGED <<busy, arrived>>, DigestType', CheckIsOfAnOpenDay',
         lastDay <= lastDay', deaths + lost <= deaths' + lost',
         SentBeforeMarked', Daily!MarkedMeansArrived',
         \A d \in Nat : AboutToBeMarked(d) /\ ~AboutToBeMarked(d)' =>
                          d <= lastDay' \/ deaths + lost + 1 <= deaths' + lost'
  PROVE  DigestInv'
<1>1. UnmarkedWereUndone'
  <2> SUFFICES ASSUME NEW m \in DOMAIN arrived, lastDay' < m.day, ~AboutToBeMarked(m.day)'
               PROVE  arrived[m] <= deaths' + lost'
    BY DEF UnmarkedWereUndone
  <2>1. /\ m.day \in Nat /\ arrived[m] \in Nat /\ lastDay \in Nat /\ lastDay' \in Nat
        /\ deaths \in Nat /\ lost \in Nat /\ deaths' \in Nat /\ lost' \in Nat
    BY DEF DigestInv, DigestType, Message
  <2>2. CASE AboutToBeMarked(m.day)
    <3>1. deaths + lost + 1 <= deaths' + lost'
      BY <2>1, <2>2
    <3>2. arrived[m] <= 1 + deaths + lost
      BY DEF DigestInv, Daily!ArrivesOnceUnlessInterrupted
    <3> QED
      BY <3>1, <3>2, <2>1
  <2>3. CASE ~AboutToBeMarked(m.day)
    <3>1. arrived[m] <= deaths + lost
      BY <2>1, <2>3 DEF DigestInv, UnmarkedWereUndone
    <3> QED
      BY <3>1, <2>1
  <2> QED
    BY <2>2, <2>3
<1>2. Daily!ArrivesOnceUnlessInterrupted'
  <2> SUFFICES ASSUME NEW m \in DOMAIN arrived
               PROVE  arrived[m] <= 1 + deaths' + lost'
    BY DEF Daily!ArrivesOnceUnlessInterrupted
  <2>1. arrived[m] <= 1 + deaths + lost
    BY DEF DigestInv, Daily!ArrivesOnceUnlessInterrupted
  <2> QED
    BY <2>1 DEF DigestInv, DigestType
<1> QED
  BY <1>1, <1>2 DEF DigestInv

LEMMA BeginCheckKeeps ==
  ASSUME Daily!DigestAssumption, DigestInv, Daily!BeginCheck
  PROVE  DigestInv'
<1> DEFINE new == [stage |-> Daily!FirstStage(today - 1 \in busy, quietDays + 1),
                   day |-> today - 1, quiet |-> quietDays + 1, busy |-> today - 1 \in busy]
<1>1. check' = new /\ UNCHANGED <<busy, arrived, lastDay, deaths, lost, today, quietDays>> /\ check = Daily!Idle
  BY DEF Daily!BeginCheck
<1>2. new.stage \in {"sending", "marking"} /\ (today - 1 \in busy => new.stage = "sending")
  BY DEF Daily!FirstStage, Daily!ToSend
<1>3. today - 1 \in Nat /\ quietDays + 1 \in Nat /\ (today - 1 \in busy) \in BOOLEAN
  BY DEF DigestInv, DigestType
<1>4. new \in Check /\ new.day = today - 1 /\ new.busy = (today - 1 \in busy)
  BY <1>2, <1>3 DEF Check
<1>5. lastDay < today - 1
  BY <1>3 DEF Daily!BeginCheck, Daily!Reported, DigestInv, DigestType
<1> HIDE DEF new
<1>6. DigestType'
  BY <1>1, <1>4 DEF DigestInv, DigestType
<1>7. CheckIsOfAnOpenDay'
  BY <1>1, <1>4, <1>5 DEF CheckIsOfAnOpenDay
<1>8. SentBeforeMarked' /\ Daily!MarkedMeansArrived'
  BY <1>1, <1>2, <1>4 DEF SentBeforeMarked, Daily!MarkedMeansArrived, Daily!ArrivalsFor, DigestInv
<1>9. \A d : ~AboutToBeMarked(d)
  BY <1>1 DEF AboutToBeMarked, Daily!Idle
<1> QED
  BY <1>1, <1>6, <1>7, <1>8, <1>9, NothingArrives DEF DigestInv, DigestType

\* A message arrives, whether its sender learns of it or not.
LEMMA ArrivalKeeps ==
  ASSUME DigestInv, check.stage = "sending",
         arrived' = Daily!Count(arrived, [day |-> check.day, quiet |-> check.quiet, busy |-> check.busy]),
         UNCHANGED <<today, busy, lastDay, quietDays, deaths>>,
         \/ check' = [check EXCEPT !.stage = "marking"] /\ UNCHANGED lost
         \/ check' = Daily!Idle /\ lost' = lost + 1
  PROVE  DigestInv'
<1> DEFINE m == [day |-> check.day, quiet |-> check.quiet, busy |-> check.busy]
<1>1. check \in Check
  BY CheckInHand DEF DigestInv
<1>2. m \in Message /\ m.day = check.day
  BY <1>1 DEF Check, Message
<1>3. arrived' = Daily!Count(arrived, m)
  OBVIOUS
<1> HIDE DEF m
<1>4. /\ DOMAIN arrived' = DOMAIN arrived \cup {m}
      /\ arrived' \in [DOMAIN arrived' -> Nat]
      /\ \A x \in DOMAIN arrived : x # m => arrived'[x] = arrived[x]
      /\ arrived'[m] = IF m \in DOMAIN arrived THEN arrived[m] + 1 ELSE 1
  BY <1>2, <1>3, OneMoreArrival DEF DigestInv
<1>5. lastDay < check.day /\ deaths \in Nat /\ lost \in Nat /\ lost' \in Nat /\ lost <= lost'
  BY DEF DigestInv, DigestType, CheckIsOfAnOpenDay
<1>6. arrived'[m] <= 1 + deaths + lost
  <2>1. CASE m \in DOMAIN arrived
    <3>1. arrived[m] <= deaths + lost /\ arrived[m] \in Nat
      BY <1>2, <1>5, <2>1 DEF DigestInv, DigestType, UnmarkedWereUndone, AboutToBeMarked
    <3> QED
      BY <3>1, <2>1, <1>4, <1>5
  <2>2. CASE m \notin DOMAIN arrived
    BY <2>2, <1>4, <1>5
  <2> QED
    BY <2>1, <2>2
<1>7. /\ check' \in {Daily!Idle} \cup Check
      /\ check' = Daily!Idle \/ (check'.stage = "marking" /\ check'.day = check.day /\ check'.busy = check.busy)
  BY <1>1 DEF Check
<1>8. DigestType'
  BY <1>2, <1>4, <1>5, <1>7 DEF DigestInv, DigestType
<1>9. CheckIsOfAnOpenDay'
  BY <1>7 DEF DigestInv, CheckIsOfAnOpenDay, Daily!Idle
<1>10. SentBeforeMarked' /\ Daily!MarkedMeansArrived'
  <2>1. \A d : Daily!ArrivalsFor(d) \subseteq Daily!ArrivalsFor(d)'
    BY <1>4 DEF Daily!ArrivalsFor
  <2>2. SentBeforeMarked'
    <3>1. check'.stage = "marking" => check'.day = check.day
      BY <1>7 DEF Daily!Idle
    <3> QED
      BY <3>1, <1>2, <1>4 DEF SentBeforeMarked, Daily!ArrivalsFor
  <2> QED
    BY <2>1, <2>2 DEF DigestInv, Daily!MarkedMeansArrived, Daily!ArrivalsFor
<1>11. Daily!ArrivesOnceUnlessInterrupted'
  <2> SUFFICES ASSUME NEW x \in DOMAIN arrived \cup {m}
               PROVE  arrived'[x] <= 1 + deaths + lost'
    BY <1>4 DEF Daily!ArrivesOnceUnlessInterrupted
  <2>1. CASE x = m
    BY <2>1, <1>4, <1>5, <1>6
  <2>2. CASE x # m
    <3>1. arrived'[x] = arrived[x] /\ arrived[x] <= 1 + deaths + lost /\ arrived[x] \in Nat
      BY <2>2, <1>4 DEF DigestInv, DigestType, Daily!ArrivesOnceUnlessInterrupted
    <3> QED
      BY <3>1, <1>5
  <2> QED
    BY <2>1, <2>2
<1>12. UnmarkedWereUndone'
  <2> SUFFICES ASSUME NEW x \in DOMAIN arrived \cup {m}, lastDay < x.day, ~AboutToBeMarked(x.day)'
               PROVE  arrived'[x] <= deaths + lost'
    BY <1>4 DEF UnmarkedWereUndone
  <2>1. CASE x = m
    <3>1. lost' = lost + 1
      BY <2>1, <1>2, <1>7 DEF AboutToBeMarked, Daily!Idle
    <3> QED
      BY <3>1, <2>1, <1>4, <1>5, <1>6
  <2>2. CASE x # m
    <3>1. arrived'[x] = arrived[x] /\ arrived[x] <= deaths + lost /\ arrived[x] \in Nat
      BY <2>2, <1>4 DEF DigestInv, DigestType, UnmarkedWereUndone, AboutToBeMarked
    <3> QED
      BY <3>1, <1>5
  <2> QED
    BY <2>1, <2>2
<1> QED
  BY <1>8, <1>9, <1>10, <1>11, <1>12 DEF DigestInv

LEMMA SentKeeps ==
  ASSUME DigestInv, Daily!Sent
  PROVE  DigestInv'
BY ArrivalKeeps DEF Daily!Sent

LEMMA SendFailsKeeps ==
  ASSUME DigestInv, Daily!SendFails
  PROVE  DigestInv'
<1>1. CASE UNCHANGED <<arrived, lost>>
  <2>1. /\ check' = Daily!Idle /\ check.stage = "sending"
        /\ UNCHANGED <<today, busy, lastDay, quietDays, arrived, deaths, lost>>
    BY <1>1 DEF Daily!SendFails
  <2>2. DigestType' /\ CheckIsOfAnOpenDay' /\ SentBeforeMarked' /\ Daily!MarkedMeansArrived'
    BY <2>1 DEF DigestInv, DigestType, CheckIsOfAnOpenDay, SentBeforeMarked, Daily!MarkedMeansArrived, Daily!ArrivalsFor, Daily!Idle
  <2>3. \A d : ~AboutToBeMarked(d)
    BY <2>1 DEF AboutToBeMarked
  <2> QED
    BY <2>1, <2>2, <2>3, NothingArrives DEF DigestInv, DigestType
<1>2. CASE ~UNCHANGED <<arrived, lost>>
  BY <1>2, ArrivalKeeps DEF Daily!SendFails
<1> QED
  BY <1>1, <1>2

LEMMA MarkDayKeeps ==
  ASSUME DigestInv, Daily!MarkDay
  PROVE  DigestInv'
<1>1. check \in Check /\ check.stage = "marking"
  BY CheckInHand DEF Daily!MarkDay, DigestInv
<1>2. /\ lastDay' = check.day /\ check' = [check EXCEPT !.stage = "counting"]
      /\ UNCHANGED <<today, busy, quietDays, arrived, deaths, lost>>
  BY DEF Daily!MarkDay
<1>3. check' \in Check /\ check'.stage = "counting" /\ check.day \in Nat
  BY <1>1, <1>2 DEF Check
<1>4. lastDay < check.day
  BY <1>1 DEF DigestInv, CheckIsOfAnOpenDay
<1>5. DigestType' /\ CheckIsOfAnOpenDay' /\ SentBeforeMarked'
  BY <1>2, <1>3 DEF DigestInv, DigestType, CheckIsOfAnOpenDay, SentBeforeMarked
<1>6. Daily!MarkedMeansArrived'
  BY <1>1, <1>2 DEF DigestInv, SentBeforeMarked, Daily!MarkedMeansArrived, Daily!ArrivalsFor
<1>7. \A d \in Nat : AboutToBeMarked(d) => d <= lastDay'
  BY <1>2, <1>3 DEF AboutToBeMarked
<1> QED
  BY <1>2, <1>3, <1>4, <1>5, <1>6, <1>7, NothingArrives DEF DigestInv, DigestType

LEMMA CountQuietKeeps ==
  ASSUME Daily!DigestAssumption, DigestInv, Daily!CountQuiet
  PROVE  DigestInv'
<1>1. check \in Check /\ check.stage = "counting"
  BY CheckInHand DEF Daily!CountQuiet, DigestInv
<1>2. /\ check' = Daily!Idle /\ quietDays' = Daily!QuietAfter(check.busy, check.quiet)
      /\ UNCHANGED <<today, busy, lastDay, arrived, deaths, lost>>
  BY DEF Daily!CountQuiet
<1>3. quietDays' \in Nat
  BY <1>1, <1>2 DEF Check, Daily!QuietAfter
<1>4. DigestType' /\ CheckIsOfAnOpenDay' /\ SentBeforeMarked' /\ Daily!MarkedMeansArrived'
  BY <1>2, <1>3 DEF DigestInv, DigestType, CheckIsOfAnOpenDay, SentBeforeMarked, Daily!MarkedMeansArrived, Daily!ArrivalsFor, Daily!Idle
<1>5. \A d : ~AboutToBeMarked(d)
  BY <1>1 DEF AboutToBeMarked
<1> QED
  BY <1>2, <1>4, <1>5, NothingArrives DEF DigestInv, DigestType

LEMMA DeathKeeps ==
  ASSUME DigestInv, Daily!Death
  PROVE  DigestInv'
<1>1. /\ check' = Daily!Idle /\ deaths' = deaths + 1
      /\ UNCHANGED <<today, busy, lastDay, quietDays, arrived, lost>>
  BY DEF Daily!Death
<1>2. DigestType' /\ CheckIsOfAnOpenDay' /\ SentBeforeMarked' /\ Daily!MarkedMeansArrived'
  BY <1>1 DEF DigestInv, DigestType, CheckIsOfAnOpenDay, SentBeforeMarked, Daily!MarkedMeansArrived, Daily!ArrivalsFor, Daily!Idle
<1>3. deaths + lost + 1 <= deaths' + lost' /\ deaths + lost <= deaths' + lost'
  BY <1>1 DEF DigestInv, DigestType
<1> QED
  BY <1>1, <1>2, <1>3, NothingArrives DEF DigestInv, DigestType

LEMMA NextDayKeeps ==
  ASSUME DigestInv, Daily!NextDay
  PROVE  DigestInv'
<1>1. today' = today + 1 /\ UNCHANGED <<busy, lastDay, quietDays, check, arrived, deaths, lost>>
  BY DEF Daily!NextDay
<1>2. DigestType' /\ CheckIsOfAnOpenDay' /\ SentBeforeMarked' /\ Daily!MarkedMeansArrived'
  BY <1>1 DEF DigestInv, DigestType, CheckIsOfAnOpenDay, SentBeforeMarked, Daily!MarkedMeansArrived, Daily!ArrivalsFor
<1>3. \A d : AboutToBeMarked(d)' = AboutToBeMarked(d)
  BY <1>1 DEF AboutToBeMarked
<1> QED
  BY <1>1, <1>2, <1>3, NothingArrives DEF DigestInv, DigestType

LEMMA DigestInvHolds ==
  ASSUME Daily!DigestAssumption
  PROVE  Daily!Spec => []DigestInv
<1>1. Daily!Init => DigestInv
  BY DigestInit
<1>2. DigestInv /\ [Daily!Next]_Daily!vars => DigestInv'
  <2> SUFFICES ASSUME DigestInv, [Daily!Next]_Daily!vars
               PROVE  DigestInv'
    OBVIOUS
  <2>1. CASE UNCHANGED Daily!vars
    BY <2>1 DEF Daily!vars, DigestInv, DigestType, CheckIsOfAnOpenDay, SentBeforeMarked, UnmarkedWereUndone,
                AboutToBeMarked, Daily!MarkedMeansArrived, Daily!ArrivesOnceUnlessInterrupted, Daily!ArrivalsFor
  <2> QED
    BY <2>1, BeginCheckKeeps, SentKeeps, SendFailsKeeps, MarkDayKeeps, CountQuietKeeps, DeathKeeps, NextDayKeeps
       DEF Daily!Next
<1> QED
  BY <1>1, <1>2, PTL DEF Daily!Spec

----------------------------------------------------------------------------
(* The days a heartbeat counts.                                             *)

\* The n latest days of S; a streak when they are that many and none was busy.
Latest(S, n) == {d \in S : Cardinality({e \in S : e > d}) < n}
Streak(S, n) == Latest(S, n) \cap busy = {} /\ Cardinality(Latest(S, n)) = n
UpTo(m) == {d \in marked \cup {m.day} : d <= m.day}

MarkedInOrder == marked \in SUBSET Nat /\ \A d \in marked : d <= lastDay
MessagesInOrder ==
  /\ \A m \in DOMAIN arrived : m.day < today
  /\ check.stage # "idle" => check.day < today
  /\ check.stage \in {"sending", "marking"} =>
       check.quiet = quietDays + 1 /\ \A m \in DOMAIN arrived : m.day <= check.day

\* Between the two rows it is the check that knows the quiet days.
QuietDaysAreAStreak ==
  deaths = 0 =>
    IF check.stage = "counting" THEN ~check.busy => Streak(marked, check.quiet)
    ELSE Streak(marked, quietDays)

MessagesToldOfStreaks ==
  \A m \in DOMAIN arrived : deaths = 0 /\ ~m.busy => Streak(UpTo(m), m.quiet)

StreakInv == DigestInv /\ MarkedInOrder /\ MessagesInOrder /\ QuietDaysAreAStreak /\ MessagesToldOfStreaks

\* No days at all are a streak.
LEMMA NoDays ==
  ASSUME NEW S, IsFiniteSet(S)
  PROVE  Streak(S, 0)
<1>1. \A d \in S : Cardinality({e \in S : e > d}) \in Nat
  <2> TAKE d \in S
  <2>1. {e \in S : e > d} \in SUBSET S
    OBVIOUS
  <2> HIDE DEF Streak
  <2> QED
    BY <2>1, FS_Subset, FS_CardinalityType
<1>2. Latest(S, 0) = {}
  BY <1>1 DEF Latest
<1> QED
  BY <1>2, FS_EmptySet DEF Streak

\* A later quiet day continues a streak.
LEMMA StreakGrows ==
  ASSUME NEW S \in SUBSET Nat, IsFiniteSet(S), NEW n \in Nat, Streak(S, n),
         NEW d \in Nat, \A e \in S : e < d, d \notin busy
  PROVE  Streak(S \cup {d}, n + 1)
<1> DEFINE After(T, x) == {e \in T : e > x}
<1>1. \A x \in S : Cardinality(After(S \cup {d}, x)) = Cardinality(After(S, x)) + 1 /\ Cardinality(After(S, x)) \in Nat
  <2> TAKE x \in S
  <2>1. After(S, x) \in SUBSET S /\ d \notin After(S, x) /\ After(S \cup {d}, x) = After(S, x) \cup {d}
    OBVIOUS
  <2> HIDE DEF After
  <2>2. IsFiniteSet(After(S, x)) /\ Cardinality(After(S, x)) \in Nat
    BY <2>1, FS_Subset, FS_CardinalityType
  <2> QED
    BY <2>1, <2>2, FS_AddElement
<1>2. After(S \cup {d}, d) = {} /\ d \notin S
  <2>1. \A e \in S \cup {d} : ~(e > d)
    OBVIOUS
  <2> QED
    BY <2>1
<1>3. \A m \in Nat : \A T : Latest(T, m) = {x \in T : Cardinality(After(T, x)) < m}
  BY DEF Latest
<1> HIDE DEF After
<1>4. Latest(S \cup {d}, n + 1) = Latest(S, n) \cup {d}
  <2>1. Cardinality(After(S \cup {d}, d)) < n + 1
    BY <1>2, FS_EmptySet
  <2>2. \A x \in S : Cardinality(After(S \cup {d}, x)) < n + 1 <=> Cardinality(After(S, x)) < n
    BY <1>1
  <2>3. n + 1 \in Nat
    OBVIOUS
  <2> QED
    BY <1>3, <2>1, <2>2, <2>3
<1>5. Latest(S, n) \in SUBSET S
  BY DEF Latest
<1>6. IsFiniteSet(Latest(S, n)) /\ d \notin Latest(S, n)
  BY <1>2, <1>5, FS_Subset
<1>7. Latest(S, n) \cap busy = {} /\ Cardinality(Latest(S, n)) = n
  BY DEF Streak
<1>8. Cardinality(Latest(S, n) \cup {d}) = n + 1
  BY <1>6, <1>7, FS_AddElement
<1> QED
  BY <1>4, <1>7, <1>8 DEF Streak

LEMMA MarkedIsFinite ==
  ASSUME DigestType, MarkedInOrder
  PROVE  IsFiniteSet(marked)
BY FS_BoundedSetOfNaturals DEF DigestType, MarkedInOrder

LEMMA StreakStart ==
  ASSUME Daily!DigestAssumption, Daily!Init
  PROVE  StreakInv
<1>1. DigestInv /\ marked = {} /\ quietDays = 0 /\ DOMAIN arrived = {} /\ check.stage = "idle"
  BY DigestInit DEF Daily!Init, Daily!Idle
<1>2. Streak(marked, quietDays)
  BY <1>1, NoDays, FS_EmptySet
<1> QED
  BY <1>1, <1>2 DEF StreakInv, MarkedInOrder, MessagesInOrder, QuietDaysAreAStreak, MessagesToldOfStreaks

\* A step that marks no day, tells nothing and finishes no check.
LEMMA StreakKept ==
  ASSUME StreakInv, DigestInv', UNCHANGED <<busy, marked, lastDay, quietDays, arrived>>,
         deaths' = deaths \/ deaths' = deaths + 1, MessagesInOrder',
         deaths' = 0 => (check'.stage = "counting") = (check.stage = "counting"),
         deaths' = 0 /\ check.stage = "counting" => check' = check
  PROVE  StreakInv'
<1>1. deaths' = 0 => deaths = 0
  BY DEF StreakInv, DigestInv, DigestType
<1>2. \A S, n : Streak(S, n)' = Streak(S, n)
  BY DEF Streak, Latest
<1>3. MarkedInOrder'
  BY DEF StreakInv, MarkedInOrder
<1>4. QuietDaysAreAStreak'
  <2>1. CASE deaths' = 0 /\ check.stage = "counting"
    BY <2>1, <1>1 DEF StreakInv, QuietDaysAreAStreak, Streak, Latest
  <2>2. CASE deaths' = 0 /\ check.stage # "counting"
    <3>1. check'.stage # "counting" /\ Streak(marked, quietDays)
      BY <2>2, <1>1 DEF StreakInv, QuietDaysAreAStreak
    <3> QED
      BY <3>1 DEF QuietDaysAreAStreak, Streak, Latest
  <2>3. CASE deaths' # 0
    BY <2>3 DEF QuietDaysAreAStreak
  <2> QED
    BY <2>1, <2>2, <2>3
<1>5. MessagesToldOfStreaks'
  BY <1>1 DEF StreakInv, MessagesToldOfStreaks, UpTo, Streak, Latest
<1> QED
  BY <1>3, <1>4, <1>5 DEF StreakInv

LEMMA StreakBeginCheck ==
  ASSUME Daily!DigestAssumption, StreakInv, Daily!BeginCheck
  PROVE  StreakInv'
<1>1. /\ check'.stage \in {"sending", "marking"} /\ check'.day = today - 1 /\ check'.quiet = quietDays + 1
      /\ check.stage = "idle"
      /\ UNCHANGED <<today, busy, marked, lastDay, quietDays, arrived, deaths>>
  BY DEF Daily!BeginCheck, Daily!FirstStage, Daily!Idle
<1>2. MessagesInOrder'
  BY <1>1 DEF StreakInv, MessagesInOrder, DigestInv, DigestType, Message
<1>3. DigestInv'
  BY BeginCheckKeeps DEF StreakInv
<1> QED
  BY <1>1, <1>2, <1>3, StreakKept

\* A digest that is sent tells of the streak its day continues.
LEMMA StreakArrival ==
  ASSUME StreakInv, DigestInv', check.stage = "sending",
         arrived' = Daily!Count(arrived, [day |-> check.day, quiet |-> check.quiet, busy |-> check.busy]),
         UNCHANGED <<today, busy, marked, lastDay, quietDays, deaths>>,
         check' = [check EXCEPT !.stage = "marking"] \/ check' = Daily!Idle
  PROVE  StreakInv'
<1> DEFINE m == [day |-> check.day, quiet |-> check.quiet, busy |-> check.busy]
<1>1. check \in Check
  BY CheckInHand DEF StreakInv, DigestInv
<1>2. m \in Message /\ m.day = check.day /\ m.quiet = check.quiet /\ m.busy = check.busy
  BY <1>1 DEF Check, Message
<1>3. arrived' = Daily!Count(arrived, m)
  OBVIOUS
<1>4. check' = Daily!Idle \/ (check'.stage = "marking" /\ check'.day = check.day /\ check'.quiet = check.quiet)
  BY <1>1 DEF Check
<1> HIDE DEF m
<1>5. DOMAIN arrived' = DOMAIN arrived \cup {m}
  BY <1>2, <1>3, OneMoreArrival DEF StreakInv, DigestInv
<1>6. check.day < today /\ check.quiet = quietDays + 1 /\ \A x \in DOMAIN arrived : x.day <= check.day
  BY DEF StreakInv, MessagesInOrder
<1>7. check.day \in Nat /\ lastDay \in Nat /\ quietDays \in Nat
  BY <1>1 DEF Check, StreakInv, DigestInv, DigestType
<1>8. MessagesInOrder'
  <2>1. \A x \in DOMAIN arrived' : x.day <= check.day /\ x.day < today
    BY <1>2, <1>5, <1>6, <1>7 DEF StreakInv, MessagesInOrder
  <2> QED
    BY <2>1, <1>4, <1>6 DEF MessagesInOrder, Daily!Idle
<1>9. MarkedInOrder' /\ QuietDaysAreAStreak'
  <2>1. check'.stage # "counting"
    BY <1>4 DEF Daily!Idle
  <2> QED
    BY <2>1 DEF StreakInv, MarkedInOrder, QuietDaysAreAStreak, Streak, Latest
<1>10. ASSUME deaths = 0, ~m.busy
       PROVE  Streak(UpTo(m), m.quiet)
  <2>1. marked \in SUBSET Nat /\ \A e \in marked : e < check.day
    BY <1>7 DEF StreakInv, MarkedInOrder, DigestInv, CheckIsOfAnOpenDay
  <2>2. check.day \notin busy
    BY <1>10, <1>2 DEF StreakInv, DigestInv, CheckIsOfAnOpenDay
  <2>3. Streak(marked, quietDays) /\ IsFiniteSet(marked)
    BY <1>10, MarkedIsFinite DEF StreakInv, QuietDaysAreAStreak, DigestInv
  <2>4. UpTo(m) = marked \cup {check.day}
    BY <2>1, <1>2, <1>7 DEF UpTo
  <2> QED
    BY <2>1, <2>2, <2>3, <2>4, <1>2, <1>6, <1>7, StreakGrows
<1>11. MessagesToldOfStreaks'
  BY <1>5, <1>10 DEF StreakInv, MessagesToldOfStreaks, UpTo, Streak, Latest
<1> QED
  BY <1>8, <1>9, <1>11 DEF StreakInv

LEMMA StreakSent ==
  ASSUME StreakInv, Daily!Sent
  PROVE  StreakInv'
BY StreakArrival, SentKeeps DEF Daily!Sent, StreakInv

LEMMA StreakSendFails ==
  ASSUME StreakInv, Daily!SendFails
  PROVE  StreakInv'
<1>1. DigestInv'
  BY SendFailsKeeps DEF StreakInv
<1>2. CASE UNCHANGED <<arrived, lost>>
  <2>1. /\ check' = Daily!Idle /\ check.stage = "sending"
        /\ UNCHANGED <<marked, today, busy, lastDay, quietDays, arrived, deaths>>
    BY <1>2 DEF Daily!SendFails
  <2>2. MessagesInOrder'
    BY <2>1 DEF StreakInv, MessagesInOrder, Daily!Idle
  <2>3. check'.stage # "counting" /\ check.stage # "counting"
    BY <2>1 DEF Daily!Idle
  <2> QED
    BY <1>1, <2>1, <2>2, <2>3, StreakKept
<1>3. CASE ~UNCHANGED <<arrived, lost>>
  BY <1>1, <1>3, StreakArrival DEF Daily!SendFails
<1> QED
  BY <1>2, <1>3

LEMMA StreakMarkDay ==
  ASSUME StreakInv, Daily!MarkDay
  PROVE  StreakInv'
<1>1. DigestInv'
  BY MarkDayKeeps DEF StreakInv
<1>2. check \in Check /\ check.stage = "marking"
  BY CheckInHand DEF Daily!MarkDay, StreakInv, DigestInv
<1>3. /\ lastDay' = check.day /\ marked' = marked \cup {check.day}
      /\ UNCHANGED <<today, busy, quietDays, arrived, deaths>>
      /\ check'.stage = "counting" /\ check'.day = check.day /\ check'.busy = check.busy /\ check'.quiet = check.quiet
  BY <1>2 DEF Daily!MarkDay, Check
<1>4. check.day \in Nat /\ lastDay \in Nat /\ quietDays \in Nat /\ lastDay < check.day
  BY <1>2 DEF Check, StreakInv, DigestInv, DigestType, CheckIsOfAnOpenDay
<1>5. marked \in SUBSET Nat /\ (\A e \in marked : e < check.day) /\ IsFiniteSet(marked)
  BY <1>4, MarkedIsFinite DEF StreakInv, MarkedInOrder, DigestInv
<1>6. MarkedInOrder'
  <2>1. \A e \in marked \cup {check.day} : e \in Nat /\ e <= check.day
    BY <1>4, <1>5
  <2> QED
    BY <2>1, <1>3 DEF MarkedInOrder
<1>7. MessagesInOrder'
  BY <1>2, <1>3 DEF StreakInv, MessagesInOrder
<1>8. QuietDaysAreAStreak'
  <2> SUFFICES ASSUME deaths = 0, ~check.busy
               PROVE  Streak(marked \cup {check.day}, quietDays + 1)'
    <3>1. check'.quiet = quietDays + 1
      BY <1>2, <1>3 DEF StreakInv, MessagesInOrder
    <3> QED
      BY <3>1, <1>3 DEF QuietDaysAreAStreak, Streak, Latest
  <2>1. check.day \notin busy
    BY <1>2 DEF StreakInv, DigestInv, CheckIsOfAnOpenDay
  <2>2. Streak(marked, quietDays)
    BY <1>2 DEF StreakInv, QuietDaysAreAStreak
  <2>3. Streak(marked \cup {check.day}, quietDays + 1)
    BY <1>4, <1>5, <2>1, <2>2, StreakGrows
  <2> QED
    BY <2>3, <1>3, <1>4 DEF Streak, Latest
<1>9. MessagesToldOfStreaks'
  <2>1. ASSUME NEW m \in DOMAIN arrived
        PROVE  UpTo(m)' = UpTo(m)
    <3>1. m.day \in Nat /\ m.day <= check.day
      BY <1>2 DEF StreakInv, DigestInv, DigestType, Message, MessagesInOrder
    <3> QED
      BY <3>1, <1>3, <1>4 DEF UpTo
  <2> QED
    BY <2>1, <1>3 DEF StreakInv, MessagesToldOfStreaks, Streak, Latest
<1> QED
  BY <1>1, <1>6, <1>7, <1>8, <1>9 DEF StreakInv

LEMMA StreakCountQuiet ==
  ASSUME Daily!DigestAssumption, StreakInv, Daily!CountQuiet
  PROVE  StreakInv'
<1>1. DigestInv'
  BY CountQuietKeeps DEF StreakInv
<1>2. /\ check.stage = "counting" /\ check'.stage = "idle" /\ quietDays' = Daily!QuietAfter(check.busy, check.quiet)
      /\ UNCHANGED <<marked, today, busy, lastDay, arrived, deaths>>
  BY DEF Daily!CountQuiet, Daily!Idle
<1>3. MarkedInOrder' /\ MessagesInOrder' /\ MessagesToldOfStreaks'
  BY <1>2 DEF StreakInv, MarkedInOrder, MessagesInOrder, MessagesToldOfStreaks, UpTo, Streak, Latest
<1>4. QuietDaysAreAStreak'
  <2> SUFFICES ASSUME deaths = 0
               PROVE  Streak(marked, quietDays)'
    BY <1>2 DEF QuietDaysAreAStreak, Streak, Latest
  <2>1. CASE quietDays' = 0
    <3>1. Streak(marked, 0)
      BY NoDays, MarkedIsFinite DEF StreakInv, DigestInv
    <3> QED
      BY <3>1, <2>1, <1>2 DEF Streak, Latest
  <2>2. CASE quietDays' # 0
    <3>1. ~check.busy /\ quietDays' = check.quiet
      BY <2>2, <1>2 DEF Daily!QuietAfter
    <3>2. Streak(marked, check.quiet)
      BY <3>1, <1>2 DEF StreakInv, QuietDaysAreAStreak
    <3> QED
      BY <3>1, <3>2, <1>2 DEF Streak, Latest
  <2> QED
    BY <2>1, <2>2
<1> QED
  BY <1>1, <1>3, <1>4 DEF StreakInv

LEMMA StreakDeath ==
  ASSUME StreakInv, Daily!Death
  PROVE  StreakInv'
<1>1. DigestInv'
  BY DeathKeeps DEF StreakInv
<1>2. /\ check'.stage = "idle" /\ deaths' = deaths + 1
      /\ UNCHANGED <<marked, today, busy, lastDay, quietDays, arrived>>
  BY DEF Daily!Death, Daily!Idle
<1>3. MessagesInOrder' /\ deaths' # 0
  BY <1>2 DEF StreakInv, DigestInv, DigestType, MessagesInOrder
<1> QED
  BY <1>1, <1>2, <1>3, StreakKept

LEMMA StreakNextDay ==
  ASSUME StreakInv, Daily!NextDay
  PROVE  StreakInv'
<1>1. DigestInv'
  BY NextDayKeeps DEF StreakInv
<1>2. today' = today + 1 /\ UNCHANGED <<marked, busy, lastDay, quietDays, check, arrived, deaths>>
  BY DEF Daily!NextDay
<1>3. MessagesInOrder'
  <2>1. \A m \in DOMAIN arrived : m.day \in Nat
    BY DEF StreakInv, DigestInv, DigestType, Message
  <2>2. check.stage # "idle" => check.day \in Nat
    BY DEF StreakInv, DigestInv, DigestType, Check, Daily!Idle
  <2> QED
    BY <1>2, <2>1, <2>2 DEF StreakInv, DigestInv, DigestType, MessagesInOrder
<1> QED
  BY <1>1, <1>2, <1>3, StreakKept

LEMMA StreakInvHolds ==
  ASSUME Daily!DigestAssumption
  PROVE  Daily!Spec => []StreakInv
<1>1. Daily!Init => StreakInv
  BY StreakStart
<1>2. StreakInv /\ [Daily!Next]_Daily!vars => StreakInv'
  <2> SUFFICES ASSUME StreakInv, [Daily!Next]_Daily!vars
               PROVE  StreakInv'
    OBVIOUS
  <2>1. CASE UNCHANGED Daily!vars
    <3>1. DigestInv' /\ MessagesInOrder'
      BY <2>1 DEF StreakInv, Daily!vars, DigestInv, DigestType, CheckIsOfAnOpenDay, SentBeforeMarked, UnmarkedWereUndone,
                  AboutToBeMarked, Daily!MarkedMeansArrived, Daily!ArrivesOnceUnlessInterrupted, Daily!ArrivalsFor, MessagesInOrder
    <3> QED
      BY <2>1, <3>1, StreakKept DEF Daily!vars
  <2> QED
    BY <2>1, StreakBeginCheck, StreakSent, StreakSendFails, StreakMarkDay, StreakCountQuiet, StreakDeath, StreakNextDay
       DEF Daily!Next
<1> QED
  BY <1>1, <1>2, PTL DEF Daily!Spec

----------------------------------------------------------------------------
(* What the digest promises.                                                *)
\* markReported: a busy day is marked only when its digest has arrived, through
\* failed sends, deaths and a midnight during the send.
LEMMA BusyDaysAreTold ==
  ASSUME Daily!DigestAssumption
  PROVE  Daily!Spec => []Daily!MarkedMeansArrived
<1>1. DigestInv => Daily!MarkedMeansArrived
  BY DEF DigestInv
<1> QED
  BY <1>1, DigestInvHolds, PTL

\* maybeSendDigest: a digest arrives once, and once more for each death or lost
\* answer.
LEMMA DigestsArriveOnce ==
  ASSUME Daily!DigestAssumption
  PROVE  Daily!Spec => []Daily!ArrivesOnceUnlessInterrupted
<1>1. DigestInv => Daily!ArrivesOnceUnlessInterrupted
  BY DEF DigestInv
<1> QED
  BY <1>1, DigestInvHolds, PTL

\* markReported and the heartbeat's text: the days a heartbeat counts are the
\* latest that were reported, as many as it says, and none of them was busy.
LEMMA HeartbeatsCountReportedDays ==
  ASSUME Daily!DigestAssumption
  PROVE  Daily!Spec => []Daily!HeartbeatCountsReportedDays
<1>1. StreakInv => Daily!HeartbeatCountsReportedDays
  BY DailyCounts DEF StreakInv, MessagesToldOfStreaks, Streak, UpTo, Latest, Daily!HeartbeatCountsReportedDays
<1> QED
  BY <1>1, StreakInvHolds, PTL

----------------------------------------------------------------------------
(* The whole: webhook rules and digest beside the billing.                  *)

\* A behaviour of the whole is one of each part, which rests while others move.
LEMMA HooksPart == MCSpec => Hooks!Spec
<1>1. MCInit => Hooks!Init
  BY DEF MCInit
<1>2. [MCNext]_<<part, billingVars, hooksVars, digestVars>> => [Hooks!Next]_(Hooks!vars)
  BY DEF MCNext, BillingStep, HooksStep, DigestStep, hooksVars, Hooks!vars
<1> QED
  BY <1>1, <1>2, PTL DEF MCSpec, Hooks!Spec

\* The same of the digest's part.
LEMMA DailyPart == MCSpec => Daily!Spec
<1>1. MCInit => Daily!Init
  BY DEF MCInit
<1>2. [MCNext]_<<part, billingVars, hooksVars, digestVars>> => [Daily!Next]_(Daily!vars)
  BY DEF MCNext, BillingStep, HooksStep, DigestStep, digestVars, Daily!vars
<1> QED
  BY <1>1, <1>2, PTL DEF MCSpec, Daily!Spec

\* checkRules and /v1/alerts: whatever is reloaded, restarted, deleted or
\* requested together, a webhook is called once per cooldown, falls silent once
\* deleted, and a key has no more rules than its requests under way explain.
THEOREM RulesAreAlwaysKept == MCSpec => []RulesAreKept
<1>1. Hooks!AlertRulesAssumption
  BY ClientsAssumption
<1>2. /\ Hooks!FiresOncePerCooldown /\ Hooks!DeletedRuleFallsSilent
      /\ Hooks!LimitIsExceededOnlyTogether
      => RulesAreKept
  BY DEF RulesAreKept
<1> QED
  BY <1>1, <1>2, RulesFireOncePerCooldown, DeletedRulesFallSilent, LimitsAreExceededOnlyTogether,
     HooksPart, PTL

\* maybeSendDigest: through failed sends, lost answers, deaths and midnights, a
\* busy day that is marked was told, no message comes more often than that
\* explains, and a heartbeat counts reported quiet days.
THEOREM DigestIsAlwaysTrue == MCSpec => []DigestIsTrue
<1>1. Daily!DigestAssumption
  BY ClientsAssumption
<1>2. /\ Daily!MarkedMeansArrived /\ Daily!ArrivesOnceUnlessInterrupted
      /\ Daily!HeartbeatCountsReportedDays
      => DigestIsTrue
  BY DEF DigestIsTrue
<1> QED
  BY <1>1, <1>2, BusyDaysAreTold, DigestsArriveOnce, HeartbeatsCountReportedDays, DailyPart, PTL

\* checkRules: a match is ignored no longer than the copy and the cooldown allow.
THEOREM MatchesAreAlwaysHeard == MCSpec => MatchIsHeard
<1>1. Hooks!AlertRulesAssumption
  BY ClientsAssumption
<1>2. Hooks!MatchIsHeard => MatchIsHeard
  BY DEF MatchIsHeard
<1> QED
  BY <1>1, <1>2, MatchesAreHeard, HooksPart, PTL
=============================================================================
