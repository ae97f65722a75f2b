------------------------------ MODULE Payments ------------------------------
(***************************************************************************)
(* Billing: orders with a unique amount (db.js), the poller that matches   *)
(* USDC transfers on Base to them and upgrades the paying key              *)
(* (payments.js), and the downgrade on use (api.js).                       *)
(*                                                                         *)
(* One unit of time is one block: block b exists from instant b on.  What  *)
(* runs without an await is cut into its writes, between which only a      *)
(* crash can come.                                                         *)
(***************************************************************************)
EXTENDS Integers, Sequences, FiniteSets
LOCAL INSTANCE SequencesExt
LOCAL INSTANCE FiniteSetsExt

CONSTANTS
  Keys, Amounts,
  MaxRange,       \* MAX_RANGE, in blocks
  OrderExpiry,    \* ORDER_EXPIRY_MS
  ProDuration,    \* PRO_DURATION_DAYS
  Lag,            \* how many blocks an endpoint may be behind another
  AllDrawsTaken,  \* whether 25 random draws may all hit a taken amount
  MaxOrders, MaxPayments, MaxTime, MaxCrashes   \* bounds

ASSUME PaymentsAssumption ==
  /\ MaxRange \in Nat \ {0} /\ ProDuration \in Nat \ {0} /\ OrderExpiry \in Nat /\ Lag \in Nat
  /\ AllDrawsTaken \in BOOLEAN
  /\ {MaxOrders, MaxPayments, MaxTime, MaxCrashes} \subseteq Nat

VARIABLES
  now,
  transfers,   \* the transfers to the receiving address, as [block, amount, order meant]
  orders,      \* table orders, by id
  expiresAt,   \* api_keys.expires_at; a key is pro exactly when it is not None
  checkpoint,  \* meta 'base_payment_checkpoint', or None
  job,         \* what the poller is doing
  crashes,
  credits,     \* history: the order of every upgrade, in their order
  examined,    \* history: the transfers processLogs has been given
  missed,      \* history: those in a range whose answering endpoint lacked them
  served,      \* history: per key, the units of time it was pro
  watched      \* history: the first checkpoint ever written, or None

vars == <<now, transfers, orders, expiresAt, checkpoint, job, crashes, credits, examined, missed, served, watched>>
history == <<credits, examined, missed, served, watched>>

None == -1
Idle == [stage |-> "idle"]
Statuses == {"pending", "paid", "expired"}

Pending == {o \in DOMAIN orders : orders[o].status = "pending"}
WithStatus(status, o) == [orders EXCEPT ![o].status = status]

\* No await: nothing but a crash comes between these steps.
Synchronous == job.stage \in {"settle", "upgrade", "expire"}
Awaiting == ~Synchronous

\* How far an endpoint has the chain.
Heads == {h \in now - Lag .. now : h >= 0}

Init ==
  /\ now = 0
  /\ transfers = <<>>
  /\ orders = <<>>
  /\ expiresAt = [k \in Keys |-> None]
  /\ checkpoint = None
  /\ job = Idle
  /\ crashes = 0
  /\ credits = <<>>
  /\ examined = {}
  /\ missed = {}
  /\ served = [k \in Keys |-> 0]
  /\ watched = None

----------------------------------------------------------------------------
(* The API.                                                                 *)

\* The check made on every authenticated request.
Downgraded(k) == IF expiresAt[k] # None /\ expiresAt[k] < now THEN None ELSE expiresAt[k]

\* createProOrder: a draw is kept when no pending order has the amount.
Untaken == Amounts \ {orders[o].amount : o \in Pending}
Drawn == IF AllDrawsTaken THEN Amounts ELSE Untaken

\* POST /v1/billing/order: refused while the key is pro.
CreateOrder(k) ==
  /\ Awaiting
  /\ Len(orders) < MaxOrders
  /\ expiresAt' = [expiresAt EXCEPT ![k] = Downgraded(k)]
  /\ expiresAt'[k] = None
  /\ \E a \in Drawn :
       orders' = Append(orders, [key |-> k, amount |-> a, status |-> "pending", created |-> now])
  /\ UNCHANGED <<now, transfers, checkpoint, job, crashes, history>>

\* Any other authenticated request.
UseKey(k) ==
  /\ Awaiting
  /\ expiresAt[k] # Downgraded(k)
  /\ expiresAt' = [expiresAt EXCEPT ![k] = Downgraded(k)]
  /\ UNCHANGED <<now, transfers, orders, checkpoint, job, crashes, history>>

----------------------------------------------------------------------------
(* The poller.                                                              *)

\* tickOnce starts, unless one is running: it reads the head and the checkpoint.
Tick ==
  /\ job = Idle
  /\ \E latest \in Heads :
       LET from == IF checkpoint = None THEN latest ELSE checkpoint + 1
       IN IF from > latest
          THEN checkpoint' = latest /\ job' = [stage |-> "expire"]
          ELSE UNCHANGED checkpoint /\ job' = [stage |-> "range", from |-> from, latest |-> latest]
  /\ UNCHANGED <<now, transfers, orders, expiresAt, crashes, history>>

\* A request fails, and the tick with it.
TickFails ==
  /\ job.stage = "range"
  /\ job' = Idle
  /\ UNCHANGED <<now, transfers, orders, expiresAt, checkpoint, crashes, history>>

\* processLogs: pending orders by amount, a later row replacing an earlier one.
ByMicro == [a \in Amounts |-> LET at == {o \in Pending : orders[o].amount = a}
                              IN IF at = {} THEN None ELSE Max(at)]

\* The end of a range.
EndOf(from, latest) ==
  IF latest < from + MaxRange - 1 THEN latest ELSE from + MaxRange - 1

\* getLogsRange, answered by an endpoint that has the chain up to some head.
ReadRange ==
  /\ job.stage = "range"
  /\ \E head \in Heads :
       LET end == EndOf(job.from, job.latest)
           mined == {t \in DOMAIN transfers : transfers[t].block \in job.from .. end}
           there == {t \in mined : transfers[t].block <= head}
       IN /\ job' = [stage |-> "settle", todo |-> SetToSortSeq(there, <), byMicro |-> ByMicro,
                     end |-> end, latest |-> job.latest]
          /\ examined' = examined \cup there
          /\ missed' = missed \cup (mined \ there)
  /\ UNCHANGED <<now, transfers, orders, expiresAt, checkpoint, crashes, credits, served, watched>>

\* markOrderPaid settles a pending order only, and says whether it did.
MaySettle_AnyMatch(o) == o # None
MaySettle(o) == o \in Pending

\* The order the next log pays, or None.
Matched == job.byMicro[transfers[Head(job.todo)].amount]

\* A settled order is followed by the upgrade of its key.
AfterSettling_OfAFreeKey(order) ==
  IF expiresAt[orders[order].key] = None THEN [job EXCEPT !.stage = "upgrade"] ELSE [job EXCEPT !.todo = Tail(@)]
AfterSettling(order) == [job EXCEPT !.stage = "upgrade"]

SettleLog ==
  /\ job.stage = "settle"
  /\ job.todo # <<>>
  /\ IF MaySettle(Matched)
     THEN /\ orders' = WithStatus("paid", Matched)
          /\ job' = AfterSettling(Matched)
     ELSE /\ job' = [job EXCEPT !.todo = Tail(@)]
          /\ UNCHANGED orders
  /\ UNCHANGED <<now, transfers, expiresAt, checkpoint, crashes, history>>

\* upgradeToPro extends from the current expiry, or from now when it is past.
Base_FromNow(k) == now
Base(k) == IF expiresAt[k] # None /\ expiresAt[k] > now THEN expiresAt[k] ELSE now

Upgrade ==
  /\ job.stage = "upgrade"
  /\ LET k == orders[Matched].key
     IN expiresAt' = [expiresAt EXCEPT ![k] = Base(k) + ProDuration]
  /\ credits' = Append(credits, Matched)
  /\ job' = [job EXCEPT !.stage = "settle", !.todo = Tail(@)]
  /\ UNCHANGED <<now, transfers, orders, checkpoint, crashes, examined, missed, served, watched>>

\* The range is marked read, and the next one awaited.
Marked_AtTheHead == job.latest
Marked == job.end
FinishRange ==
  /\ job.stage = "settle"
  /\ job.todo = <<>>
  /\ checkpoint' = Marked
  /\ job' = IF job.end < job.latest THEN [stage |-> "range", from |-> job.end + 1, latest |-> job.latest]
                                    ELSE [stage |-> "expire"]
  /\ watched' = IF watched = None THEN job.end ELSE watched
  /\ UNCHANGED <<now, transfers, orders, expiresAt, crashes, credits, examined, missed, served>>

\* expireStaleOrders ends the tick.
Expire ==
  /\ job.stage = "expire"
  /\ orders' = [o \in DOMAIN orders |->
                  IF o \in Pending /\ orders[o].created < now - OrderExpiry
                  THEN [orders[o] EXCEPT !.status = "expired"] ELSE orders[o]]
  /\ job' = Idle
  /\ UNCHANGED <<now, transfers, expiresAt, checkpoint, crashes, history>>

\* The process dies and is started again.
Crash ==
  /\ job # Idle
  /\ crashes < MaxCrashes
  /\ crashes' = crashes + 1
  /\ job' = Idle
  /\ UNCHANGED <<now, transfers, orders, expiresAt, checkpoint, history>>

----------------------------------------------------------------------------
(* The payers and the clock.                                                *)

\* Someone sends the amount of an order; the next block has the transfer.
Pay(o) ==
  /\ Awaiting
  /\ Len(transfers) < MaxPayments
  /\ now < MaxTime
  /\ transfers' = Append(transfers, [block |-> now + 1, amount |-> orders[o].amount, order |-> o])
  /\ UNCHANGED <<now, orders, expiresAt, checkpoint, job, crashes, history>>

TimePasses ==
  /\ Awaiting
  /\ now < MaxTime
  /\ now' = now + 1
  /\ served' = [k \in Keys |-> IF expiresAt[k] > now THEN served[k] + 1 ELSE served[k]]
  /\ UNCHANGED <<transfers, orders, expiresAt, checkpoint, job, crashes, credits, examined, missed, watched>>

Next ==
  \/ \E k \in Keys : CreateOrder(k) \/ UseKey(k)
  \/ \E o \in DOMAIN orders : Pay(o)
  \/ Tick \/ TickFails \/ ReadRange \/ SettleLog \/ Upgrade \/ FinishRange \/ Expire
  \/ Crash \/ TimePasses

Spec == Init /\ [][Next]_vars

----------------------------------------------------------------------------
(* Properties.                                                              *)

CreditsOf(k) == {i \in DOMAIN credits : orders[credits[i]].key = k}

\* An order is credited once at most, however often the poller is given its
\* transfer, or others of the same amount, again.
CreditedOnce == \A i, j \in DOMAIN credits : credits[i] = credits[j] => i = j

\* Every unit of Pro that was bought is served or still ahead: a renewal loses
\* nothing of the time the key had left, and a downgrade takes none away.
PaidTimeIsServed ==
  \A k \in Keys :
    served[k] + (IF expiresAt[k] > now THEN expiresAt[k] - now ELSE 0)
      = Cardinality(CreditsOf(k)) * ProDuration

\* The checkpoint passes no transfer by: each one mined since the poller first
\* kept a checkpoint was given to processLogs before the checkpoint reached it,
\* unless the endpoint that answered lacked it.
NoTransferPassedBy ==
  \A t \in DOMAIN transfers :
    watched # None /\ transfers[t].block \in watched + 1 .. checkpoint => t \in examined \cup missed

Credited == {credits[i] : i \in DOMAIN credits}
Paid == {o \in DOMAIN orders : orders[o].status = "paid"}
\* Only a death can keep a paid order from its key: there are no more orders
\* paid and not credited than times the process died.
PaidOrderIsCreditedUnlessInterrupted ==
  Cardinality(Paid \ Credited) <= crashes + (IF job.stage = "upgrade" THEN 1 ELSE 0)
=============================================================================
