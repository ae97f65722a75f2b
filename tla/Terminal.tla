------------------------------- MODULE Terminal -------------------------------
(* What the terminal serves, from start() through tickOnce() (indexer.js):    *)
(* the snapshot, the supply and its age, the set of flagged addresses with    *)
(* the clock it is judged at, and the adjusted volume it is applied to. Block *)
(* counting itself is in Indexer; here a chunk is one step. A block carries a *)
(* payment to a user or, where bots is true, a transfer each way between two  *)
(* addresses that behave alike: those are noise once both are flagged.        *)
EXTENDS Integers, FiniteSets, FiniteSetsExt

CONSTANTS
  MaxBlock,     \* bound: last block of the chain
  Chains,       \* the chains considered: each block's time and traffic
  MaxBackfill,  \* MAX_BACKFILL
  Chunk,        \* CHUNK
  HeaderSpan,   \* HEADER_SPAN
  PerMinute,    \* chain time in a minute
  MinDays,      \* windowDays of the rule, in chain time
  PerDay,       \* sends the rule allows per unit of chain time
  MaxMoves,     \* bound: changes of the supply
  MaxCrashes    \* bound: deaths of the process

ASSUME TerminalAssumption ==
  /\ {MaxBlock, Chunk, HeaderSpan, PerMinute, MinDays, PerDay} \subseteq Nat \ {0}
  /\ MaxBackfill \in 1..MaxBlock - 1 /\ {MaxMoves, MaxCrashes} \subseteq Nat
  /\ \A c \in Chains : /\ c.stamp \in [1..MaxBlock -> Nat] /\ c.bots \in [1..MaxBlock -> BOOLEAN]
                       /\ \A a, b \in 1..MaxBlock : a < b => c.stamp[a] <= c.stamp[b]
                       /\ c.stamp[1] >= MaxBlock     \* time 0 is long before

VARIABLES
  (* the chain *)
  stamp, bots,   \* per block: its time; whether the two addresses send
  head, supply,  \* newest block; total supply, which names its own moment
  (* the database *)
  checkpoint, indexFrom,
  sent,          \* what each of the two addresses sent: [n, first, last]
  unread,        \* hi of the sent-history pass: the highest block it still has to re-read
  real, adjusted, \* per minute: rvolume and avolume
  clockMeta, suppliesMeta,
  (* the process *)
  phase, latest, start, next,
  spanClock, clockRef, flags, supplies,
  scored,        \* adjustBackfill: adjusted volume of the chunks read so far
  first, last,   \* firstMinute, lastMinute: the minutes of their ends
  snapshot,
  (* history *)
  deaths,
  coldRun,       \* TRUE from a backfill of an empty database until anything interrupts it
  dated,         \* per block, the minute the backfill put it in
  moved          \* minutes out of which or into which a second reading moved a block

chain == <<stamp, bots, head, supply>>
database == <<checkpoint, indexFrom, sent, unread, real, adjusted, clockMeta, suppliesMeta>>
measures == <<spanClock, clockRef, flags, supplies>>
rescore == <<scored, first, last>>
walk == <<latest, start, next, rescore>>
dates == <<dated, moved>>
vars == <<chain, database, phase, walk, measures, snapshot, deaths, coldRun, dates>>

None == -1
Blocks == 1..MaxBlock
minuteOf(t) == t \div PerMinute
Minutes == UNION {0..minuteOf(c.stamp[MaxBlock]) : c \in Chains}
Nothing == [m \in Minutes |-> 0]
NoSends == [n |-> 0, first |-> 0, last |-> 0]

(* ---- the rule ---- *)
(* A clock is the two headers it is measured between; the live sample, used   *)
(* until there is one, stands for a block per unit of time.                   *)
LiveSample == [from |-> None, to |-> None]
Time(c) == IF c = LiveSample THEN 1 ELSE stamp[c.to] - stamp[c.from]
Span(c) == IF c = LiveSample THEN 1 ELSE c.to - c.from
blockTimeBetween(ref, to, old) ==
  IF ref # None /\ to - ref >= HeaderSpan /\ stamp[to] > stamp[ref]
  THEN [from |-> ref, to |-> to] ELSE old

(* More sends than the rate allows over the address's own span, which is      *)
(* never less than the rule's window; in integers, multiplied by Span.        *)
Flagged(s, c) ==
  s.n * Span(c) > PerDay * Max({MinDays * Span(c), (s.last - s.first) * Time(c)})
noisyAddresses(c) == [on |-> Flagged(sent, c), row |-> sent, clock |-> c]

(* refreshNoisy: the set, the clock it was judged at, and that clock on disk. *)
refreshNoisy(c) ==
  /\ flags' = noisyAddresses(c)
  /\ clockMeta' = IF c = LiveSample THEN clockMeta ELSE c

sentHistoryFrom == IF unread # None THEN unread + 1 ELSE indexFrom

(* The far end is looked at again when it is due, and read when it has moved; *)
(* the header may not be served.                                              *)
FarEnd_Once(to, read) ==
  IF clockRef = None /\ read /\ sentHistoryFrom \in 0..to - 1 THEN sentHistoryFrom ELSE clockRef
FarEnd(to, read) ==
  IF read /\ sentHistoryFrom \in 0..to - 1 THEN sentHistoryFrom ELSE clockRef
measureClock(to, read, fallback) ==
  /\ clockRef' = IF FarEnd(to, read) = None THEN fallback ELSE FarEnd(to, read)
  /\ spanClock' = blockTimeBetween(clockRef', to, spanClock)

(* ---- the snapshot ---- *)
Booting == [ok |-> FALSE, supply |-> None, at |-> None, flagged |-> FALSE, row |-> NoSends, clock |-> LiveSample]
dbDerived_LatestClock ==
  [ok |-> TRUE, supply |-> supplies'.is, at |-> supplies'.at,
   flagged |-> flags'.on, row |-> flags'.row, clock |-> spanClock']
dbDerived ==
  [ok |-> TRUE, supply |-> supplies'.is, at |-> supplies'.at,
   flagged |-> flags'.on, row |-> flags'.row, clock |-> flags'.clock]
snapshotFromDb == snapshot' = IF checkpoint' = None THEN Booting ELSE dbDerived
degrade == snapshotFromDb
buildSnapshot == snapshot' = dbDerived

(* ---- writes ---- *)
(* A range is dated by its own two headers, interpolated; where they were not *)
(* served, or the range is a single block, from the head backwards at the     *)
(* live sample's pace.                                                        *)
approxTs(b) == stamp[latest] - (latest - b)
chunkClock(a, z, b) == stamp[a] + ((b - a) * (stamp[z] - stamp[a])) \div (z - a)
tsAt(a, z, served, b) == IF served /\ a < z THEN chunkClock(a, z, b) ELSE approxTs(b)
Dated(a, z, served) == [b \in Blocks |-> IF b \in a..z THEN minuteOf(tsAt(a, z, served, b)) ELSE dated[b]]

Counted(S, at, keepsNoise, m) ==
  Cardinality({b \in S : ~bots[b] /\ at[b] = m}) +
  2 * Cardinality({b \in S : keepsNoise /\ bots[b] /\ at[b] = m})
Sends(S) == {b \in S : bots[b]}
AfterSends(S) ==
  IF Sends(S) = {} THEN sent
  ELSE [n |-> sent.n + Cardinality(Sends(S)),
        first |-> IF sent.n = 0 THEN Min(Sends(S)) ELSE Min({sent.first} \cup Sends(S)),
        last |-> Max({sent.last} \cup Sends(S))]
processLogs(S, at) ==
  /\ real' = [m \in Minutes |-> real[m] + Counted(S, at, TRUE, m)]
  /\ adjusted' = [m \in Minutes |-> adjusted[m] + Counted(S, at, ~flags.on, m)]
  /\ sent' = AfterSends(S)
  /\ checkpoint' = Max(S)

(* A walk reads ranges of a chunk at most: a whole one, or what a refused one *)
(* is halved into (Indexer has the halving; here, any).                       *)
Least(a, b) == IF a < b THEN a ELSE b
Most(a, b) == IF a > b THEN a ELSE b
Ends == next..Least(latest, next + Chunk - 1)

(* Read, dated, and kept on disk with its date. Whether SUPPLY_TTL has run    *)
(* out, and whether the read is answered, is left to chance.                  *)
refreshSupplies == supplies' = [is |-> supply, at |-> supply] /\ suppliesMeta' = supplies'
ReadSupplies == refreshSupplies \/ UNCHANGED <<supplies, suppliesMeta>>

loadPersistedSupplies == suppliesMeta
loadClock == clockMeta

Init ==
  /\ \E c \in Chains : stamp = c.stamp /\ bots = c.bots
  /\ supply = 0 /\ head = MaxBackfill + 1
  /\ clockMeta = LiveSample /\ suppliesMeta = [is |-> None, at |-> None]
  /\ \/ /\ checkpoint = None /\ indexFrom = None /\ unread = None     \* nothing on disk
        /\ sent = NoSends /\ real = Nothing /\ adjusted = Nothing
     \/ \E cp \in 1..MaxBackfill :                                    \* written before sends were counted
          /\ checkpoint = cp /\ indexFrom = 1 /\ unread = cp
          /\ sent = NoSends /\ real = [m \in Minutes |-> Counted(1..cp, [b \in Blocks |-> minuteOf(stamp[b])], TRUE, m)] /\ adjusted = real
  /\ phase = "down" /\ latest = None /\ start = None /\ next = None /\ scored = Nothing
  /\ spanClock = LiveSample /\ clockRef = None /\ flags = [on |-> FALSE, row |-> NoSends, clock |-> LiveSample]
  /\ supplies = suppliesMeta /\ snapshot = Booting /\ deaths = 0 /\ coldRun = FALSE
  /\ first = None /\ last = None /\ dated = [b \in Blocks |-> minuteOf(stamp[b])] /\ moved = {}

(* ---- start ---- *)
(* What is on disk is served before the chain is asked anything.              *)
Boot ==
  /\ phase = "down" /\ phase' = "anchor"
  /\ supplies' = loadPersistedSupplies
  /\ spanClock' = loadClock /\ clockRef' = loadClock.from
  /\ refreshNoisy(spanClock')
  /\ UNCHANGED checkpoint /\ snapshotFromDb
  /\ UNCHANGED <<chain, indexFrom, sent, unread, real, adjusted, suppliesMeta, walk, deaths, coldRun, dates>>

(* The head, and a header behind it for the clock when its own is not served. *)
Anchor(read, behind) ==
  /\ phase = "anchor" /\ phase' = "supplies"
  /\ latest' = head
  /\ measureClock(head, read, IF behind /\ head > HeaderSpan THEN head - HeaderSpan ELSE None)
  /\ refreshNoisy(spanClock')
  /\ UNCHANGED <<chain, checkpoint, indexFrom, sent, unread, real, adjusted, suppliesMeta,
                 start, next, rescore, supplies, snapshot, deaths, coldRun, dates>>
AnchorFails ==
  /\ phase = "anchor" /\ phase' = "wait"
  /\ UNCHANGED <<chain, database, walk, measures, snapshot, deaths, coldRun, dates>>

(* The supply if it is served, and then what is to be backfilled.             *)
BackfillFrom == IF checkpoint = None THEN latest - MaxBackfill ELSE checkpoint + 1
BootSupplies ==
  /\ phase = "supplies"
  /\ ReadSupplies
  /\ UNCHANGED <<checkpoint, flags, spanClock>> /\ snapshotFromDb
  /\ IF BackfillFrom > latest THEN phase' = "wait" /\ UNCHANGED <<start, next>>
     ELSE phase' = "backfill" /\ start' = BackfillFrom /\ next' = BackfillFrom
  /\ coldRun' = (checkpoint = None)
  /\ indexFrom' = IF checkpoint = None THEN BackfillFrom ELSE indexFrom
  /\ UNCHANGED <<chain, sent, unread, real, adjusted, clockMeta, latest, rescore, clockRef, deaths, dates>>

(* A chunk of the backfill. That of an empty database ends by judging who it  *)
(* has met, and is read again if that flags anyone.                           *)
backfill ==
  /\ phase = "backfill"
  /\ \E z \in Ends, served \in BOOLEAN :
       /\ processLogs(next..z, Dated(next, z, served))
       /\ dated' = IF coldRun THEN Dated(next, z, served) ELSE dated
       /\ IF z = latest /\ coldRun
          THEN /\ flags' = [on |-> Flagged(sent', spanClock), row |-> sent', clock |-> spanClock]
               /\ clockMeta' = IF spanClock = LiveSample THEN clockMeta ELSE spanClock
               /\ phase' = IF flags'.on THEN "adjust" ELSE "wait"
               /\ next' = start
          ELSE /\ next' = z + 1
               /\ phase' = IF z < latest THEN "backfill" ELSE "wait"
               /\ UNCHANGED <<flags, clockMeta>>
  /\ UNCHANGED <<chain, indexFrom, unread, suppliesMeta, latest, start, rescore, spanClock, clockRef,
                 supplies, snapshot, deaths, coldRun, moved>>

(* The second reading adds up in memory; only its end writes: zero over the   *)
(* minutes it went through, then its sums, where there is a row to hold them. *)
Rescored(m) == first' <= m /\ m <= last'
setAdjusted_WithoutZeroing(sums) == [m \in Minutes |-> IF sums[m] > 0 THEN sums[m] ELSE adjusted[m]]
setAdjusted(sums) == [m \in Minutes |-> IF Rescored(m) THEN (IF real[m] > 0 THEN sums[m] ELSE 0) ELSE adjusted[m]]

(* Whole chunks this time, each with headers of its own.                      *)
adjustBackfill ==
  /\ phase = "adjust"
  /\ \E z \in {Least(latest, next + Chunk - 1)}, served \in BOOLEAN : \E at \in {Dated(next, z, served)} :
     \E sums \in {[m \in Minutes |-> scored[m] + Counted(next..z, at, ~flags.on, m)]} :
       /\ first' = IF first = None THEN at[next] ELSE Least(first, at[next])
       /\ last' = IF last = None THEN at[z] ELSE Most(last, at[z])
       /\ moved' = moved \cup UNION {{dated[b], at[b]} : b \in {x \in next..z : dated[x] # at[x]}}
       /\ IF z < latest
          THEN scored' = sums /\ next' = z + 1 /\ UNCHANGED <<adjusted, phase>>
          ELSE scored' = Nothing /\ next' = next /\ adjusted' = setAdjusted(sums) /\ phase' = "wait"
  /\ UNCHANGED <<chain, checkpoint, indexFrom, sent, unread, real, clockMeta, suppliesMeta,
                 latest, start, measures, snapshot, deaths, coldRun, dated>>

(* A range that cannot be read ends the walk it is in: a backfill resumes     *)
(* from its checkpoint in a tick, a second reading is not taken up again and  *)
(* has moved nothing.                                                         *)
NoRescore == scored' = Nothing /\ first' = None /\ last' = None
MovesNothing == moved' = IF phase = "adjust" THEN {} ELSE moved
WalkFails ==
  /\ phase \in {"backfill", "adjust"} /\ phase' = "wait"
  /\ start' = None /\ next' = None /\ NoRescore /\ MovesNothing /\ coldRun' = FALSE
  /\ UNCHANGED <<chain, database, latest, measures, snapshot, deaths, dated>>

(* ---- the tick ---- *)
TickHead ==
  /\ phase = "wait" /\ phase' = "headers"
  /\ latest' = head /\ start' = None /\ next' = None /\ NoRescore /\ coldRun' = FALSE
  /\ UNCHANGED <<chain, database, measures, snapshot, deaths, dates>>
Fails ==
  /\ phase' = "wait" /\ start' = None /\ next' = None /\ NoRescore /\ coldRun' = FALSE
  /\ UNCHANGED <<chain, database, latest, measures, deaths, dates>>
  /\ degrade
TickHeadFails == phase = "wait" /\ Fails
TickFails == phase \in {"headers", "index"} /\ Fails

(* The clock, the set if it is due, the supply if it is due; then the blocks. *)
TickHeaders(read, due) ==
  /\ phase = "headers"
  /\ measureClock(latest, read, None)
  /\ IF due THEN refreshNoisy(spanClock') ELSE UNCHANGED <<flags, clockMeta>>
  /\ ReadSupplies
  /\ \E cp \in {IF checkpoint = None THEN latest - 1 ELSE checkpoint} :
       /\ next' = cp + 1 /\ phase' = IF latest > cp THEN "index" ELSE "publish"
  /\ indexFrom' = IF checkpoint = None THEN latest ELSE indexFrom
  /\ UNCHANGED <<chain, checkpoint, sent, unread, real, adjusted, latest, start, rescore, snapshot, deaths, coldRun, dates>>

Index ==
  /\ phase = "index"
  /\ \E z \in Ends, served \in BOOLEAN :
       /\ processLogs(next..z, Dated(next, z, served))
       /\ next' = z + 1 /\ phase' = IF z < latest THEN "index" ELSE "publish"
  /\ UNCHANGED <<chain, indexFrom, unread, clockMeta, suppliesMeta, latest, start, rescore, measures, snapshot, deaths, coldRun, dates>>

(* Built from the headers, and then the sent history is read further down.    *)
Publish(seeded) ==
  /\ phase = "publish" /\ phase' = "wait"
  /\ UNCHANGED <<measures, checkpoint>> /\ buildSnapshot
  /\ \E S \in {Max({indexFrom, unread - Chunk + 1})..unread} :
       IF seeded /\ S # {} THEN sent' = AfterSends(S) /\ unread' = Min(S) - 1
       ELSE UNCHANGED <<sent, unread>>
  /\ next' = None
  /\ UNCHANGED <<chain, indexFrom, real, adjusted, clockMeta, suppliesMeta, latest, start, rescore, deaths, coldRun, dates>>

(* In the middle of a long walk: the supply if it is due, and the snapshot.   *)
progressRefresh ==
  /\ phase \in {"backfill", "index"} /\ checkpoint = next - 1
  /\ ReadSupplies
  /\ UNCHANGED <<checkpoint, flags, spanClock>> /\ snapshotFromDb
  /\ UNCHANGED <<chain, indexFrom, sent, unread, real, adjusted, clockMeta, phase, walk, clockRef, deaths, coldRun, dates>>

(* ---- around it ---- *)
NewBlock ==
  /\ head < MaxBlock /\ head' = head + 1
  /\ UNCHANGED <<stamp, bots, supply, database, phase, walk, measures, snapshot, deaths, coldRun, dates>>
SupplyMoves ==
  /\ supply < MaxMoves /\ supply' = supply + 1
  /\ UNCHANGED <<stamp, bots, head, database, phase, walk, measures, snapshot, deaths, coldRun, dates>>
Crash ==
  /\ phase # "down" /\ deaths < MaxCrashes /\ deaths' = deaths + 1
  /\ phase' = "down" /\ latest' = None /\ start' = None /\ next' = None /\ NoRescore /\ MovesNothing
  /\ spanClock' = LiveSample /\ clockRef' = None /\ flags' = [on |-> FALSE, row |-> NoSends, clock |-> LiveSample]
  /\ supplies' = [is |-> None, at |-> None] /\ snapshot' = Booting /\ coldRun' = FALSE
  /\ UNCHANGED <<chain, database, dated>>

Process ==
  \/ Boot \/ AnchorFails \/ BootSupplies \/ backfill \/ adjustBackfill \/ WalkFails
  \/ TickHead \/ TickHeadFails \/ TickFails \/ Index
  \/ \E x \in BOOLEAN : Publish(x) \/ \E y \in BOOLEAN : Anchor(x, y) \/ TickHeaders(x, y)
Next ==
  \/ Process \/ progressRefresh \/ NewBlock \/ SupplyMoves \/ Crash
Spec == Init /\ [][Next]_vars /\ WF_vars(Process)

(* The timers go on, and the far end and the set fall due again and again; a  *)
(* head and a header asked for again and again are served some time.          *)
FairSpec ==
  /\ Spec /\ SF_vars(TickHead)
  /\ SF_vars(\E y \in BOOLEAN : TickHeaders(TRUE, y))
  /\ SF_vars(\E x \in BOOLEAN : TickHeaders(x, TRUE))

(* What is served can be redone from what is served beside it: a supply is    *)
(* the one of the moment its age counts from, also after a restart, and the   *)
(* flagged set is the one the published clock gives for the rows it was read  *)
(* from. A running process always serves the last clock a set was judged at,  *)
(* whichever process judged it.                                               *)
PublishedAsMeasured ==
  /\ snapshot.supply = snapshot.at /\ supplies.is = supplies.at
  /\ snapshot.flagged = Flagged(snapshot.row, snapshot.clock)
  /\ phase # "down" => flags.clock = clockMeta

(* Adjusted volume is no more than all of it, and once the backfill of an     *)
(* empty database and its second reading have run to the end, it is what the  *)
(* set leaves: in every minute that holds the same blocks in both readings.   *)
(* A range that was read in pieces, or whose headers were not served, in one  *)
(* of the two only may date a block differently (moved); that minute may then *)
(* count it twice or not at all.                                              *)
AdjustedIsWhatTheSetLeaves ==
  /\ \A m \in Minutes \ moved : adjusted[m] <= real[m]
  /\ coldRun /\ phase = "wait" =>
       \A m \in Minutes \ moved : adjusted[m] = Counted(start..latest, dated, ~flags.on, m)

(* A database with something in it is served, whether or not the chain ever   *)
(* answers.                                                                   *)
StoredHistoryIsServed == checkpoint # None ~> snapshot.ok

(* The clock ends up measured from the first block of the sent history, once  *)
(* that is far enough below the head, although every header may have failed   *)
(* and the history went on growing downwards.                                 *)
ClockReachesSentHistory ==
  <>[](\/ sentHistoryFrom = None \/ checkpoint = None
       \/ latest - sentHistoryFrom < HeaderSpan
       \/ flags.clock.from = sentHistoryFrom)

(* What is stored gets to be served, and what was sent before to be dated.    *)
HistoryIsReached == StoredHistoryIsServed /\ ClockReachesSentHistory
=============================================================================
