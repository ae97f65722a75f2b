------------------------------- MODULE Retention -------------------------------
(* What the database keeps, and for how long (db.js). Minutes are folded into *)
(* days, raw transfers are kept for a day or up to a row cap, the largest of  *)
(* each day for months, fee samples as blocks and as counts per fee class.    *)
(* prune is one transaction and six statements that commit by themselves: the *)
(* process may die between any two. Time is in minutes and a transfer is a    *)
(* row of one token; amounts differ, so that "largest" names one transfer.    *)
EXTENDS Integers, Sequences, FiniteSets

CONSTANTS
  Day, Week,       \* minutes in a day, minutes in the days the minute tables keep
  TopKeep,         \* minutes in TOP_KEEP_DAYS
  TOP_PER_BATCH, TOP_PER_DAY, RECENT_MAX,
  HEADER_WINDOW,   \* headers of the live strip, the block time is measured over
  MaxMinute,       \* bound: the clock
  MaxTransfers,    \* bound: transfers indexed, and their amounts
  MaxBatch,        \* bound: transfers of one batch
  MaxLate,         \* bound: corrections of minutes counted before
  MaxSamples,      \* bound: fee samples taken
  MaxWrites        \* bound: transfers, corrections and samples together

ASSUME RetentionAssumption ==
  /\ {Day, Week, TopKeep, RECENT_MAX} \subseteq Nat \ {0}
  /\ {MaxMinute, MaxTransfers, MaxBatch, MaxLate, MaxSamples, MaxWrites, TOP_PER_DAY} \subseteq Nat
  /\ TOP_PER_BATCH \in 1..TOP_PER_DAY /\ HEADER_WINDOW \in Nat /\ HEADER_WINDOW >= 2
  /\ Week % Day = 0 /\ TopKeep % Day = 0

VARIABLES
  now,          \* the wall clock
  blocks,       \* the chain: the minutes a block came in, and none came in the others
  buckets,      \* per minute: what its row sums, 0 without a row
  daily,        \* buckets_daily
  recent,       \* recent: ids of the raw transfers held
  top,          \* top_transfers: ids
  addrs,        \* addr_stats: an address per transfer, by the transfer's id
  addrDays,     \* addr_token_daily: days with a row
  feeSamples,   \* fee_samples: <<block, minute>>
  feeBuckets,   \* fee_buckets: per minute, transactions counted
  pruning,      \* next statement of prune, "no" outside it
  (* history *)
  log,          \* every transfer indexed, by id
  late,         \* per minute: what corrections added to it
  samples,      \* fee samples taken
  shortest      \* the fewest blocks a prune has taken for a week

vars == <<now, blocks, buckets, daily, recent, top, addrs, addrDays, feeSamples, feeBuckets, pruning, log, late,
          samples, shortest>>
Minutes == 0..MaxMinute
DayOf(m) == m \div Day
Days == 0..DayOf(MaxMinute)
(* A sum over minutes, as the number of units in it. *)
Sum(f, S) == Cardinality(UNION {{m} \X (1..f[m]) : m \in S})
Least(a, b) == IF a < b THEN a ELSE b
First(S) == CHOOSE x \in S : \A y \in S : x <= y
Last(S) == CHOOSE x \in S : \A y \in S : y <= x
Room == MaxWrites - Len(log) - Sum(late, Minutes) - samples

Init ==
  /\ now = 0 /\ blocks = {0} /\ pruning = "no" /\ log = <<>> /\ samples = 0 /\ shortest = MaxMinute + 1
  /\ buckets = [m \in Minutes |-> 0] /\ late = buckets /\ feeBuckets = buckets
  /\ daily = [d \in Days |-> 0]
  /\ recent = {} /\ top = {} /\ addrs = {} /\ addrDays = {} /\ feeSamples = {}

Held == {m \in Minutes : buckets[m] > 0}
getCoverage == [a |-> First(Held), b |-> Last(Held)]

(* The instant every window ends at: the newest indexed minute, or now if     *)
(* that is earlier. The tables are cut back from the same instant.            *)
windowEndSec == IF Held = {} THEN now ELSE Least(now, getCoverage.b)

CutFrom_WallClock == now
CutFrom == IF Held = {} THEN now ELSE Least(now, getCoverage.b)

(* ---- writers ---- *)
Largest(l, ids, n) == {i \in ids : Cardinality({j \in ids : l[j].amount > l[i].amount}) < n}
OfDay(l, ids, d) == {i \in ids : DayOf(l[i].ts) = d}

(* Every write of a minute adds to its row, or makes one.                     *)
upBucket(rows, add) == [m \in Minutes |-> rows[m] + (IF m \in DOMAIN add THEN add[m] ELSE 0)]

(* The largest of a batch in each day it touches. *)
topOf(l, ids) == UNION {Largest(l, OfDay(l, ids, d), TOP_PER_BATCH) : d \in Days}

trimRecent(ids) == {i \in ids : i > Last(ids) - RECENT_MAX}

(* One transaction: minutes, addresses, raw rows cut to the cap, largest.     *)
applyBatch ==
  /\ pruning = "no" /\ Len(log) < MaxTransfers
  /\ LET first == IF Held = {} THEN 0 ELSE getCoverage.b
         unused == 1..MaxTransfers \ {log[i].amount : i \in DOMAIN log}
         rows == [ts : first..now, amount : unused]
     IN \E n \in 1..Least(Least(MaxBatch, Room), MaxTransfers - Len(log)) : \E batch \in [1..n -> rows] :
          /\ \A i, j \in 1..n : i < j => batch[i].ts <= batch[j].ts /\ batch[i].amount # batch[j].amount
          /\ log' = log \o batch
          /\ buckets' = upBucket(buckets, [m \in Minutes |-> Cardinality({i \in 1..n : batch[i].ts = m})])
          /\ addrDays' = addrDays \cup {DayOf(batch[i].ts) : i \in 1..n}
          /\ LET ids == Len(log) + 1..Len(log) + n
             IN /\ recent' = trimRecent(recent \cup ids) /\ top' = top \cup topOf(log', ids)
                /\ addrs' = addrs \cup ids
  /\ UNCHANGED <<now, blocks, daily, feeSamples, feeBuckets, pruning, late, samples, shortest>>

(* applyCctpBackfill and applyRouteDeltas add to minutes counted long before, *)
(* which may have been folded into their day already.                         *)
Correct ==
  /\ pruning = "no" /\ Room > 0 /\ Sum(late, Minutes) < MaxLate /\ Held # {}
  /\ \E m \in 0..getCoverage.b :
       buckets' = upBucket(buckets, [n \in {m} |-> 1]) /\ late' = [late EXCEPT ![m] = @ + 1]
  /\ UNCHANGED <<now, blocks, daily, recent, top, addrs, addrDays, feeSamples, feeBuckets, pruning, log, samples, shortest>>

(* A block at the head, dated by the clock of the moment, which may be a     *)
(* minute out: the same block can be sampled again with another minute.       *)
sampleFees == {s \in Minutes \X Minutes : s[1] = Last(blocks) /\ s[2] \in {s[1], s[1] - 1}}

(* A block sampled before keeps its row, and its fees are not counted again,  *)
(* whatever minute the clock of the moment gives it.                          *)
insertFeeSamples ==
  /\ pruning = "no" /\ samples < MaxSamples /\ Room > 0 /\ samples' = samples + 1 /\ Held # {}
  /\ \E sample \in sampleFees :
       IF \E s \in feeSamples : s[1] = sample[1] THEN UNCHANGED <<feeSamples, feeBuckets>>
       ELSE /\ feeSamples' = feeSamples \cup {sample}
            /\ feeBuckets' = [feeBuckets EXCEPT ![sample[2]] = @ + 1]
  /\ UNCHANGED <<now, blocks, buckets, daily, recent, top, addrs, addrDays, pruning, log, late, shortest>>

(* ---- prune ---- *)
Cutoff == CutFrom - Week
Cut(f, from) == [m \in DOMAIN f |-> IF m < from THEN 0 ELSE f[m]]

(* A day is folded over several prunes, so what is folded is added.           *)
rollupDaily_Replaces(before) ==
  [d \in Days |-> LET folded == Sum(buckets, {m \in Held : m < before /\ DayOf(m) = d})
                  IN IF folded = 0 THEN daily[d] ELSE folded]
rollupDaily(before) ==
  [d \in Days |-> daily[d] + Sum(buckets, {m \in Held : m < before /\ DayOf(m) = d})]

(* Folding and deleting are one transaction. *)
RollUp ==
  /\ pruning = "no" /\ pruning' = "addrs" /\ Cardinality(blocks) >= 2
  /\ daily' = rollupDaily(Cutoff) /\ buckets' = Cut(buckets, Cutoff)
  /\ UNCHANGED <<now, blocks, recent, top, addrs, addrDays, feeSamples, feeBuckets, log, late, samples, shortest>>

(* The number of the newest block at or before a minute. A transfer is dated  *)
(* between blocks by the clock of the range read; it counts as one of that    *)
(* block.                                                                     *)
Height(m) == Cardinality({n \in blocks : n <= m})

(* A week as blocks, rounded, for n headers whose stamps are `span` apart: a  *)
(* block takes 200 ms at the least, so some time.                             *)
weekBlocks(n, span) == (2 * Week * (n - 1) + span) \div (2 * span)

(* By block, back from the head the tick saw, which the index has reached. A  *)
(* week is as many blocks as the headers of the live strip make of it: some   *)
(* may be missing, whole seconds put their span out by one, and a halt among  *)
(* them makes a week very few blocks.                                         *)
pruneAddrs ==
  /\ pruning = "addrs" /\ pruning' = "addrDays"
  /\ \E head \in {m \in blocks : \A i \in DOMAIN log : Height(log[i].ts) <= Height(m)} :
     \E headers \in SUBSET {m \in blocks : m <= head /\ Height(head) - Height(m) < HEADER_WINDOW} :
     \E span \in 1..MaxMinute + 1 :
       LET week == weekBlocks(Cardinality(headers), span)
       IN  /\ Cardinality(headers) >= 2 /\ span - (Last(headers) - First(headers)) \in -1..1
           /\ addrs' = {i \in addrs : Height(log[i].ts) >= Height(head) - week}
           /\ shortest' = Least(shortest, week)
  /\ UNCHANGED <<now, blocks, buckets, daily, recent, top, addrDays, feeSamples, feeBuckets, log, late, samples>>

pruneAddrToks ==
  /\ pruning = "addrDays" /\ pruning' = "fees"
  /\ addrDays' = {d \in addrDays : d >= DayOf(CutFrom) - (DayOf(Week) + 1)}
  /\ UNCHANGED <<now, blocks, buckets, daily, recent, top, addrs, feeSamples, feeBuckets, log, late, samples, shortest>>

pruneFees ==
  /\ pruning = "fees" /\ pruning' = "feeBuckets"
  /\ feeSamples' = {s \in feeSamples : s[2] >= Cutoff}
  /\ UNCHANGED <<now, blocks, buckets, daily, recent, top, addrs, addrDays, feeBuckets, log, late, samples, shortest>>

pruneBuckets2 ==
  /\ pruning = "feeBuckets" /\ pruning' = "recent"
  /\ feeBuckets' = Cut(feeBuckets, Cutoff)
  /\ UNCHANGED <<now, blocks, buckets, daily, recent, top, addrs, addrDays, feeSamples, log, late, samples, shortest>>

trimRecentTs ==
  /\ pruning = "recent" /\ pruning' = "trimTop"
  /\ recent' = {i \in recent : log[i].ts >= CutFrom - Day}
  /\ UNCHANGED <<now, blocks, buckets, daily, top, addrs, addrDays, feeSamples, feeBuckets, log, late, samples, shortest>>

trimTop_OfAll ==
  /\ pruning = "trimTop" /\ pruning' = "pruneTop"
  /\ top' = Largest(log, top, TOP_PER_DAY)
  /\ UNCHANGED <<now, blocks, buckets, daily, recent, addrs, addrDays, feeSamples, feeBuckets, log, late, samples, shortest>>
trimTop ==
  /\ pruning = "trimTop" /\ pruning' = "pruneTop"
  /\ top' = UNION {Largest(log, OfDay(log, top, d), TOP_PER_DAY) : d \in Days}
  /\ UNCHANGED <<now, blocks, buckets, daily, recent, addrs, addrDays, feeSamples, feeBuckets, log, late, samples, shortest>>

pruneTop ==
  /\ pruning = "pruneTop" /\ pruning' = "no"
  /\ top' = {i \in top : DayOf(log[i].ts) * Day >= CutFrom - TopKeep}
  /\ UNCHANGED <<now, blocks, buckets, daily, recent, addrs, addrDays, feeSamples, feeBuckets, log, late, samples, shortest>>

(* The process dies between two statements of prune: the rest is not done.    *)
Crash ==
  /\ pruning # "no" /\ pruning' = "no"
  /\ UNCHANGED <<now, blocks, buckets, daily, recent, top, addrs, addrDays, feeSamples, feeBuckets, log, late, samples, shortest>>

TimePasses ==
  /\ pruning = "no" /\ now < MaxMinute /\ now' = now + 1
  /\ blocks' \in {blocks, blocks \cup {now + 1}}
  /\ UNCHANGED <<buckets, daily, recent, top, addrs, addrDays, feeSamples, feeBuckets, pruning, log, late, samples, shortest>>

Next ==
  \/ applyBatch \/ Correct \/ insertFeeSamples \/ TimePasses \/ Crash
  \/ RollUp \/ pruneAddrs \/ pruneAddrToks \/ pruneFees \/ pruneBuckets2
  \/ trimRecentTs \/ trimTop \/ pruneTop

Spec == Init /\ [][Next]_vars

(* ---- readers ---- *)
WrittenIn(m) == Cardinality({i \in DOMAIN log : log[i].ts = m}) + late[m]

getHistory(since) == [m \in {n \in Minutes : n >= since} |-> buckets[m]]

getDailyHistory(d) == daily[d] + Sum(buckets, {m \in Minutes : DayOf(m) = d})

(* The earliest point either table can speak to. *)
dailyRecordBegan == First({d \in Days : daily[d] > 0} \cup {DayOf(m) : m \in Held})

getLargest(limit, since) == Largest(log, {i \in top : log[i].ts >= since}, limit)

feeStats(since) == Cardinality({s \in feeSamples : s[2] >= since})
feeBucketCounts(since) == Sum(feeBuckets, {m \in Minutes : m >= since})

atCap == Cardinality(recent) >= RECENT_MAX

(* A day of the long series is what was ever counted for it, whichever of its *)
(* minutes have been folded, corrected after that, or cut off by a crash; and *)
(* the record is said to begin with the first day anything was counted for.   *)
DailyHistoryIsWhole ==
  /\ \A d \in Days : getDailyHistory(d) = Sum([m \in Minutes |-> WrittenIn(m)], {m \in Minutes : DayOf(m) = d})
  /\ log # <<>> => dailyRecordBegan = First({DayOf(m) : m \in {n \in Minutes : WrittenIn(n) > 0}})

(* A window of raw transfers that lacks one says that the row cap cut it, and *)
(* the cap never cuts more than it must.                                      *)
CapIsToldAndTight ==
  (\E i \in DOMAIN log \ recent : log[i].ts >= windowEndSec - Day) => Cardinality(recent) = RECENT_MAX

(* While the chain stands still the ticks go on and so do the prunes: what    *)
(* the windows over time read, which end at the newest indexed minute, is     *)
(* still held. Addresses are held by block: one goes only when more blocks    *)
(* came since its last than some prune has made of a week.                    *)
WindowsSurviveAHalt ==
  LET end == windowEndSec
      history == getHistory(end - Week)
  IN  /\ \A m \in DOMAIN history : history[m] = WrittenIn(m)
      /\ \A i \in DOMAIN log : log[i].ts >= end - Week => DayOf(log[i].ts) \in addrDays
      /\ \A i \in DOMAIN log : Height(now) - Height(log[i].ts) <= shortest => i \in addrs
      /\ \A i \in DOMAIN log : log[i].ts >= end - Day => i \in recent \/ atCap

(* What the windows read is held, or said to be cut.                          *)
WindowsAreHeld == WindowsSurviveAHalt /\ CapIsToldAndTight

(* The mean and the median beside it are of the same sampled blocks, over any *)
(* window of a day or less.                                                   *)
MeanAndMedianAgree ==
  LET end == windowEndSec
  IN  \A since \in Minutes : since >= end - Day => feeStats(since) = feeBucketCounts(since)

(* Over whole days, the largest transfers served are the largest there were,  *)
(* for as many as a batch contributes to a day.                               *)
LargestOfWholeDays ==
  LET end == windowEndSec
  IN  \A d \in Days : d * Day >= end - TopKeep =>
        getLargest(TOP_PER_BATCH, d * Day) = Largest(log, {i \in DOMAIN log : log[i].ts >= d * Day}, TOP_PER_BATCH)

(* What is served of a day, or of the samples, is true of all there was.      *)
ServedAsItWas == LargestOfWholeDays /\ MeanAndMedianAgree
=============================================================================
