--------------------------- MODULE IndexerProofs ---------------------------
(***************************************************************************)
(* Proofs about Indexer for every value of its constants.  The inductive   *)
(* invariant IInv says what TypeOK and the checked invariants leave open:  *)
(* which walk may be under way, where it stands relative to the checkpoint,*)
(* and what a committed batch without its checkpoint has done so far.      *)
(***************************************************************************)
EXTENDS Indexer, TLAPS

\* One walk at a time, and only while the process is up: the seed before the
\* timer exists, then whoever holds the flag of nonReentrant.
OneWalk ==
  /\ \A c, d \in Calls : Busy(c) /\ Busy(d) => c = d
  /\ \A c \in Calls : Busy(c) => session # "down" /\ (running \/ session = "backfill")

\* The first block not yet recorded as covered.
Base == IF checkpoint = None THEN indexFrom ELSE checkpoint + 1

\* A walk stands exactly at Base, its pending ranges follow one another, and
\* none of them leaves the chunk or passes the head it was started for.
Shape(j, base) ==
  /\ j.todo # <<>>
  /\ j.upto \in Block
  /\ j.lo = base
  /\ j.lo <= j.todo[1].to
  /\ \A m, n \in 1 .. Len(j.todo) : m < n => j.todo[m].to < j.todo[n].to
  /\ \A n \in 1 .. Len(j.todo) :
       j.todo[n].to <= j.upto /\ j.todo[n].to <= j.lo + Chunk - 1

WalksInShape == \A c \in Calls : Busy(c) => Shape(job[c], Base)

\* The blocks of a batch that is committed but not yet recorded.
InFlight(b) ==
  \E c \in Calls : job[c].phase = "applied" /\ b \in job[c].lo .. Hi(c)

\* Counted at most once where recorded or in flight, and elsewhere only as
\* often as checkpoint writes were lost.
Counted ==
  \A b \in Block :
    applied[b] <= IF b <= checkpoint \/ InFlight(b) THEN lost + 1 ELSE lost

\* A committed batch has added every block its endpoint had.
InFlightCovered ==
  \A b \in Block : InFlight(b) => applied[b] >= 1 \/ b \in short

Opened == checkpoint # None => indexFrom # None /\ indexFrom <= checkpoint

\* Before there is a checkpoint, what was added is in flight or lost its mark.
OrphansOnly ==
  checkpoint = None => \A b \in Block : applied[b] > 0 => b \in orphaned \/ InFlight(b)

IInv ==
  /\ TypeOK
  /\ OneWalk
  /\ WalksInShape
  /\ Counted
  /\ InFlightCovered
  /\ Opened
  /\ NoHole
  /\ IndexFromIsFirst
  /\ OrphansOnly

----------------------------------------------------------------------------
(* The four ways a walk's record changes keep its shape.                    *)

\* The pending ranges end at block numbers.
LEMMA SeqOfPending ==
  ASSUME NEW s \in Seq(Pending)
  PROVE  \A n \in 1 .. Len(s) : s[n].to \in Nat /\ s[n].to \in Block
<1>1. \A n \in 1 .. Len(s) : s[n] \in Pending
  OBVIOUS
<1> QED
  BY <1>1, IndexerAssumption DEF Pending, Block

\* A sequence with a first element is not the empty one.
LEMMA NotEmpty ==
  ASSUME NEW S, NEW s \in Seq(S), 1 \in 1 .. Len(s)
  PROVE  s # <<>>
OBVIOUS

\* A walk begins with its first chunk.
LEMMA WalkBegins ==
  ASSUME NEW from \in Nat, NEW upto \in Block, from <= upto
  PROVE  /\ Walk(from, upto) \in Job
         /\ Shape(Walk(from, upto), from)
<1> DEFINE r == [to |-> Lesser(upto, from + Chunk - 1), depth |-> 0]
<1>1. r \in Pending /\ from <= r.to /\ r.to <= upto /\ r.to <= from + Chunk - 1
  BY IndexerAssumption DEF Pending, Block, Lesser
<1>2. ChunkAt(from, upto) = <<r>>
  BY DEF ChunkAt
<1> HIDE DEF r
<1>3. <<r>> \in Seq(Pending) /\ Len(<<r>>) = 1 /\ <<r>>[1] = r /\ <<r>> # <<>>
  BY <1>1
<1>4. Walk(from, upto) = [phase |-> "range", lo |-> from, upto |-> upto, todo |-> <<r>>, tries |-> 0]
  BY <1>2 DEF Walk
<1>5. upto \in Nat /\ 0 \in 0 .. Attempts
  BY IndexerAssumption DEF Block
<1> QED
  BY <1>1, <1>3, <1>4, <1>5 DEF Job, Shape

\* After a range, the right half waiting for it comes next.
LEMMA NextHalf ==
  ASSUME NEW j \in Job, NEW k \in Job, NEW base \in Nat,
         Shape(j, base), Len(j.todo) > 1,
         k.upto = j.upto, k.lo = j.todo[1].to + 1, k.todo = Tail(j.todo)
  PROVE  Shape(k, j.todo[1].to + 1)
<1>1. /\ j.todo \in Seq(Pending) /\ k.todo \in Seq(Pending)
      /\ Len(k.todo) = Len(j.todo) - 1 /\ Len(j.todo) \in Nat
      /\ \A n \in 1 .. Len(k.todo) : k.todo[n] = j.todo[n + 1]
  BY DEF Job
<1>2. \A n \in 1 .. Len(j.todo) : j.todo[n].to \in Nat
  BY <1>1, SeqOfPending
<1>3. ASSUME NEW m \in 1 .. Len(k.todo)
      PROVE  /\ m + 1 \in 1 .. Len(j.todo)
             /\ k.todo[m] = j.todo[m + 1]
  BY <1>1
<1>4. /\ \A m, n \in 1 .. Len(j.todo) : m < n => j.todo[m].to < j.todo[n].to
      /\ \A n \in 1 .. Len(j.todo) :
           j.todo[n].to <= j.upto /\ j.todo[n].to <= j.lo + Chunk - 1
      /\ j.upto \in Block /\ j.lo <= j.todo[1].to /\ j.lo \in Nat
  BY DEF Shape, Job
<1>5. ASSUME NEW m \in 1 .. Len(k.todo), NEW n \in 1 .. Len(k.todo), m < n
      PROVE  k.todo[m].to < k.todo[n].to
  BY <1>3, <1>4, <1>5
<1>6. ASSUME NEW n \in 1 .. Len(k.todo)
      PROVE  k.todo[n].to <= k.upto /\ k.todo[n].to <= k.lo + Chunk - 1
  <2>1. 1 \in 1 .. Len(j.todo) /\ j.todo[1].to \in Nat
    BY <1>1, <1>2
  <2>2. n + 1 \in 1 .. Len(j.todo) /\ k.todo[n] = j.todo[n + 1]
    BY <1>3
  <2>3. /\ j.todo[n + 1].to \in Nat
        /\ j.todo[n + 1].to <= j.upto /\ j.todo[n + 1].to <= j.lo + Chunk - 1
    BY <2>2, <1>2, <1>4
  <2>4. k.lo = j.todo[1].to + 1 /\ j.lo <= j.todo[1].to /\ j.lo \in Nat
    BY <1>4
  <2> QED
    BY <2>1, <2>2, <2>3, <2>4, IndexerAssumption
<1>7. k.lo <= k.todo[1].to /\ k.todo # <<>>
  <2>1. 1 \in 1 .. Len(j.todo) /\ 2 \in 1 .. Len(j.todo) /\ 1 \in 1 .. Len(k.todo)
    BY <1>1
  <2>2. j.todo[1].to < j.todo[2].to /\ k.todo[1] = j.todo[2]
    BY <2>1, <1>3, <1>4
  <2>3. k.todo # <<>>
    BY <2>1, <1>1, NotEmpty
  <2>4. j.todo[1].to \in Nat /\ j.todo[2].to \in Nat
    BY <2>1, <1>2
  <2> QED
    BY <2>2, <2>3, <2>4
<1> QED
  BY <1>4, <1>5, <1>6, <1>7 DEF Shape

\* After the last range of a chunk, the next chunk comes.
LEMMA NextChunk ==
  ASSUME NEW j \in Job, NEW k \in Job, NEW base \in Nat,
         Shape(j, base), j.todo[1].to < j.upto,
         k.upto = j.upto, k.lo = j.todo[1].to + 1,
         k.todo = ChunkAt(j.todo[1].to + 1, j.upto)
  PROVE  Shape(k, j.todo[1].to + 1)
<1> DEFINE from == j.todo[1].to + 1
<1>1. j.todo \in Seq(Pending) /\ 1 \in 1 .. Len(j.todo) /\ j.upto \in Block
  BY DEF Job, Shape
<1>2. from \in Nat /\ from <= j.upto
  BY <1>1, SeqOfPending DEF Block
<1>3. Shape(Walk(from, j.upto), from)
  BY <1>1, <1>2, WalkBegins
<1>4. /\ Walk(from, j.upto).todo = k.todo
      /\ Walk(from, j.upto).upto = k.upto
      /\ Walk(from, j.upto).lo = k.lo
  BY DEF Walk
<1> QED
  BY <1>3, <1>4 DEF Shape

\* A range that is halved leaves its blocks to its halves.
LEMMA SplitRange ==
  ASSUME NEW j \in Job, NEW k \in Job, NEW base \in Nat, NEW mid \in Int,
         NEW d, Shape(j, base), j.lo < j.todo[1].to,
         mid = j.lo + (j.todo[1].to - j.lo) \div 2,
         k.upto = j.upto, k.lo = j.lo,
         k.todo = <<[to |-> mid, depth |-> d], [to |-> j.todo[1].to, depth |-> d]>>
                    \o Tail(j.todo)
  PROVE  Shape(k, base)
<1>1. /\ j.todo \in Seq(Pending) /\ Len(j.todo) \in Nat /\ 1 \in 1 .. Len(j.todo)
      /\ Len(k.todo) = Len(j.todo) + 1
      /\ k.todo[1].to = mid /\ k.todo[2].to = j.todo[1].to
      /\ \A n \in 3 .. Len(k.todo) : k.todo[n] = j.todo[n - 1]
  BY DEF Job, Shape
<1>2. \A n \in 1 .. Len(j.todo) : j.todo[n].to \in Nat
  BY <1>1, SeqOfPending
<1>3. /\ \A m, n \in 1 .. Len(j.todo) : m < n => j.todo[m].to < j.todo[n].to
      /\ \A n \in 1 .. Len(j.todo) :
           j.todo[n].to <= j.upto /\ j.todo[n].to <= j.lo + Chunk - 1
      /\ j.upto \in Block /\ j.lo = base /\ j.lo \in Nat
  BY DEF Shape, Job
<1>4. j.lo <= mid /\ mid < j.todo[1].to
  BY <1>1, <1>2, <1>3
<1>5. ASSUME NEW n \in 2 .. Len(k.todo)
      PROVE  n - 1 \in 1 .. Len(j.todo) /\ k.todo[n].to = j.todo[n - 1].to
  BY <1>1
<1>6. ASSUME NEW m \in 1 .. Len(k.todo), NEW n \in 1 .. Len(k.todo), m < n
      PROVE  k.todo[m].to < k.todo[n].to
  <2>1. n \in 2 .. Len(k.todo) /\ (m = 1 \/ m \in 2 .. Len(k.todo))
    BY <1>6, <1>1
  <2>2. CASE m \in 2 .. Len(k.todo)
    <3>1. /\ m - 1 \in 1 .. Len(j.todo) /\ k.todo[m].to = j.todo[m - 1].to
          /\ n - 1 \in 1 .. Len(j.todo) /\ k.todo[n].to = j.todo[n - 1].to
      BY <2>1, <2>2, <1>5
    <3>2. m - 1 < n - 1
      BY <1>6, <1>1
    <3> QED
      BY <3>1, <3>2, <1>3
  <2>3. CASE m = 1
    <3>1. j.todo[1].to <= j.todo[n - 1].to
      <4>1. n - 1 \in 1 .. Len(j.todo) /\ (n - 1 = 1 \/ 1 < n - 1)
        BY <2>1, <1>5
      <4>2. CASE n - 1 = 1
        BY <4>1, <4>2, <1>1, <1>2
      <4>3. CASE 1 < n - 1
        <5>1. j.todo[1].to < j.todo[n - 1].to
          BY <4>1, <4>3, <1>1, <1>3
        <5>2. j.todo[1].to \in Nat /\ j.todo[n - 1].to \in Nat
          BY <4>1, <1>1, <1>2
        <5> QED
          BY <5>1, <5>2
      <4> QED
        BY <4>1, <4>2, <4>3
    <3>2. n - 1 \in 1 .. Len(j.todo) /\ k.todo[n].to = j.todo[n - 1].to
      BY <2>1, <1>5
    <3>3. j.todo[1].to \in Nat /\ j.todo[n - 1].to \in Nat
      BY <3>2, <1>1, <1>2
    <3>4. k.todo[m].to = mid
      BY <2>3, <1>1
    <3> QED
      BY <3>1, <3>2, <3>3, <3>4, <1>4
  <2> QED
    BY <2>1, <2>2, <2>3
<1>7. ASSUME NEW n \in 1 .. Len(k.todo)
      PROVE  k.todo[n].to <= k.upto /\ k.todo[n].to <= k.lo + Chunk - 1
  <2>1. CASE n = 1
    BY <2>1, <1>1, <1>2, <1>3, <1>4, IndexerAssumption DEF Block
  <2>2. CASE n \in 2 .. Len(k.todo)
    BY <2>2, <1>3, <1>5
  <2> QED
    BY <2>1, <2>2, <1>1
<1>8. k.todo # <<>>
  BY <1>1
<1> QED
  BY <1>1, <1>3, <1>4, <1>6, <1>7, <1>8 DEF Shape

----------------------------------------------------------------------------
(* What the invariant says of the one walk under way.                       *)

\* A walk under way is the only one; it stands at Base, which is past the
\* checkpoint, and the range in hand ends at a block of the chain.
LEMMA Walking ==
  ASSUME IInv, NEW c \in Calls, Busy(c)
  PROVE  /\ job[c] \in Job /\ Shape(job[c], Base) /\ Base \in Nat
         /\ job[c].todo \in Seq(Pending) /\ 1 \in 1 .. Len(job[c].todo)
         /\ job[c].todo[1] \in Pending
         /\ Hi(c) \in Block /\ job[c].upto \in Block
         /\ job[c].lo = Base /\ Base <= Hi(c) /\ Hi(c) <= job[c].upto
         /\ Hi(c) <= Base + Chunk - 1
         /\ indexFrom # None /\ indexFrom \in Block
         /\ checkpoint \in Block \cup {None} /\ checkpoint < Base
         /\ \A b \in Block : b <= checkpoint \/ b >= Base \/ b < indexFrom
         /\ \A d \in Calls : d # c => ~Busy(d)
         /\ session # "down" /\ (running \/ session = "backfill")
<1>1. job[c] \in Job /\ Shape(job[c], Base)
  BY DEF IInv, TypeOK, WalksInShape
<1>2. job[c].todo \in Seq(Pending) /\ Len(job[c].todo) \in Nat /\ job[c].lo \in Nat
  BY <1>1 DEF Job
<1>3. 1 \in 1 .. Len(job[c].todo)
  <2>1. job[c].todo # <<>>
    BY <1>1 DEF Shape
  <2> QED
    BY <1>2, <2>1
<1>4. job[c].todo[1] \in Pending
  BY <1>2, <1>3
<1>5. /\ job[c].lo = Base /\ job[c].lo <= Hi(c) /\ job[c].upto \in Block
      /\ Hi(c) <= job[c].upto /\ Hi(c) <= job[c].lo + Chunk - 1
  BY <1>1, <1>3 DEF Shape, Hi
<1>6. Hi(c) \in Block
  BY <1>4 DEF Pending, Hi
<1>7. Base \in Nat
  BY <1>2, <1>5
<1>8. checkpoint \in Block \cup {None} /\ indexFrom \in Block \cup {None}
  BY DEF IInv, TypeOK
<1>9. indexFrom # None /\ checkpoint < Base
  BY <1>7, <1>8 DEF IInv, Opened, Base, None, Block
<1>10. \A b \in Block : b <= checkpoint \/ b >= Base \/ b < indexFrom
  BY <1>7, <1>8, <1>9 DEF Base, None, Block
<1>11. /\ \A d \in Calls : d # c => ~Busy(d)
       /\ session # "down" /\ (running \/ session = "backfill")
  BY DEF IInv, OneWalk
<1> QED
  BY <1>1, <1>2, <1>3, <1>4, <1>5, <1>6, <1>7, <1>8, <1>9, <1>10, <1>11

\* Nothing is in flight while no walk has a batch committed.
LEMMA NothingInFlight ==
  ASSUME IInv, NEW c \in Calls, Busy(c), job[c].phase # "applied"
  PROVE  \A b \in Block : ~InFlight(b)
<1>1. \A d \in Calls : d # c => ~Busy(d)
  BY Walking
<1> QED
  BY <1>1 DEF InFlight, Busy

\* Handing the walk of c on to another range keeps it the only one.
LEMMA KeepWalking ==
  ASSUME IInv, NEW c \in Calls, Busy(c), NEW k \in Job, GoOn(c, k),
         k.phase # "idle", Shape(k, Base')
  PROVE  /\ job' \in [Calls -> Job] /\ session' = session /\ running' = running
         /\ OneWalk' /\ WalksInShape'
         /\ job'[c] = k /\ \A d \in Calls : d # c => ~Busy(d)'
<1>1. /\ \A d \in Calls : d # c => ~Busy(d)
      /\ session # "down" /\ (running \/ session = "backfill")
  BY Walking
<1>2. /\ job \in [Calls -> Job] /\ job' = [job EXCEPT ![c] = k]
      /\ session' = session /\ running' = running
  BY DEF IInv, TypeOK, GoOn
<1>3. job'[c] = k /\ \A d \in Calls : d # c => job'[d] = job[d]
  BY <1>2
<1>4. \A d \in Calls : d # c => ~Busy(d)'
  BY <1>1, <1>3 DEF Busy
<1>5. OneWalk'
  BY <1>1, <1>2, <1>4 DEF OneWalk
<1>6. WalksInShape'
  BY <1>3, <1>4 DEF WalksInShape
<1> QED
  BY <1>2, <1>3, <1>4, <1>5, <1>6

\* Ending the walk leaves none.
LEMMA StopWalking ==
  ASSUME IInv, NEW c \in Calls, Busy(c), EndWalk(c)
  PROVE  /\ job' \in [Calls -> Job] /\ running' \in BOOLEAN
         /\ session' \in {"down", "backfill", "firstTick", "polling"}
         /\ OneWalk' /\ WalksInShape'
         /\ \A d \in Calls : ~Busy(d)'
<1>1. \A d \in Calls : d # c => ~Busy(d)
  BY Walking
<1>2. job \in [Calls -> Job] /\ job' = [job EXCEPT ![c] = IdleJob]
  BY DEF IInv, TypeOK, EndWalk
<1>3. IdleJob \in Job /\ IdleJob.phase = "idle"
  <2>1. <<>> \in Seq(Pending) /\ 0 \in 0 .. Attempts /\ 0 \in Nat
    BY IndexerAssumption
  <2> QED
    BY <2>1 DEF IdleJob, Job
<1>4. \A d \in Calls : ~Busy(d)'
  BY <1>1, <1>2, <1>3 DEF Busy
<1>5. OneWalk' /\ WalksInShape'
  BY <1>4 DEF OneWalk, WalksInShape
<1> QED
  BY <1>2, <1>3, <1>4, <1>5 DEF EndWalk

\* The catch of indexRange keeps the ledger: the range in hand is tried
\* again, halved or dropped, with the disk as it was.
LEMMA RetryKeeps ==
  ASSUME IInv, NEW c \in Calls, Busy(c), Retry(c),
         UNCHANGED <<checkpoint, indexFrom>>
  PROVE  /\ job' \in [Calls -> Job] /\ running' \in BOOLEAN
         /\ session' \in {"down", "backfill", "firstTick", "polling"}
         /\ OneWalk' /\ WalksInShape'
         /\ \A d \in Calls : job'[d].phase # "applied"
<1> DEFINE j == job[c]
<1>1. /\ j \in Job /\ Shape(j, Base) /\ Base \in Nat /\ Base' = Base
      /\ session' = session \/ EndWalk(c)
      /\ j.todo \in Seq(Pending) /\ 1 \in 1 .. Len(j.todo) /\ j.todo[1] \in Pending
      /\ Hi(c) = j.todo[1].to /\ j.lo = Base /\ j.lo <= Hi(c) /\ Hi(c) \in Block
  BY Walking DEF Retry, Base, Hi, GoOn, GiveUp
<1>2. CASE EndWalk(c)
  BY <1>2, StopWalking DEF Busy
<1>3. ASSUME NEW k \in Job, GoOn(c, k), k.phase = "range", Shape(k, Base)
      PROVE  /\ job' \in [Calls -> Job] /\ running' \in BOOLEAN
             /\ session' \in {"down", "backfill", "firstTick", "polling"}
             /\ OneWalk' /\ WalksInShape'
             /\ \A d \in Calls : job'[d].phase # "applied"
  <2>1. Shape(k, Base')
    BY <1>1, <1>3
  <2>2. /\ job' \in [Calls -> Job] /\ session' = session /\ running' = running
        /\ OneWalk' /\ WalksInShape'
        /\ job'[c] = k /\ \A d \in Calls : d # c => ~Busy(d)'
    BY <1>3, <2>1, KeepWalking
  <2> QED
    BY <2>2, <1>3 DEF Busy, IInv, TypeOK
<1>4. CASE /\ j.tries + 1 < Attempts
           /\ GoOn(c, [j EXCEPT !.phase = "range", !.tries = @ + 1])
  <2> DEFINE k == [j EXCEPT !.phase = "range", !.tries = @ + 1]
  <2>1. j.tries + 1 \in 0 .. Attempts
    BY <1>1, <1>4, IndexerAssumption DEF Job
  <2>2. k \in Job
    BY <1>1, <2>1 DEF Job
  <2>3. /\ k.phase = "range" /\ k.upto = j.upto /\ k.lo = j.lo /\ k.todo = j.todo
    BY <1>1 DEF Job
  <2>4. Shape(k, Base)
    BY <1>1, <2>3 DEF Shape
  <2> QED
    BY <1>3, <1>4, <2>2, <2>3, <2>4
<1>5. CASE /\ MaySplit(c)
           /\ GoOn(c, [j EXCEPT !.phase = "range", !.tries = 0,
                                !.todo = Halves(c) \o Tail(@)])
  <2> DEFINE k == [j EXCEPT !.phase = "range", !.tries = 0,
                            !.todo = Halves(c) \o Tail(@)]
             d == j.todo[1].depth + 1
             mid == j.lo + (j.todo[1].to - j.lo) \div 2
  <2>1. Halves(c) = <<[to |-> mid, depth |-> d], [to |-> j.todo[1].to, depth |-> d]>>
    BY DEF Halves
  <2>2. /\ j.todo[1].depth < MaxSplitDepth /\ j.lo < j.todo[1].to
        /\ j.todo[1].depth \in 0 .. MaxSplitDepth
        /\ j.lo \in Nat /\ j.todo[1].to \in Block
    BY <1>1, <1>5 DEF MaySplit, Hi, Pending, Job
  <2>3. d \in 0 .. MaxSplitDepth
    BY <2>2, IndexerAssumption
  <2>4. mid \in Block /\ mid \in Int
    BY <2>2, IndexerAssumption DEF Block
  <2>5. [to |-> mid, depth |-> d] \in Pending /\ [to |-> j.todo[1].to, depth |-> d] \in Pending
    BY <2>2, <2>3, <2>4 DEF Pending
  <2>6. Halves(c) \in Seq(Pending)
    BY <2>1, <2>5
  <2>7. Tail(j.todo) \in Seq(Pending)
    BY <1>1
  <2>8. Halves(c) \o Tail(j.todo) \in Seq(Pending)
    BY <2>6, <2>7
  <2>9. 0 \in 0 .. Attempts
    BY IndexerAssumption
  <2>10. k \in Job
    BY <1>1, <2>8, <2>9 DEF Job
  <2>11. /\ k.phase = "range" /\ k.upto = j.upto /\ k.lo = j.lo
         /\ k.todo = Halves(c) \o Tail(j.todo)
    BY <1>1 DEF Job
  <2> HIDE DEF k, d, mid, j
  <2>12. Shape(k, Base)
    BY <1>1, <2>1, <2>2, <2>4, <2>10, <2>11, SplitRange DEF mid
  <2> QED
    BY <1>3, <1>5, <2>10, <2>11, <2>12 DEF k, j
<1> QED
  BY <1>2, <1>4, <1>5 DEF Retry, GiveUp

\* Recording a range passes the walk on to the block after it, or ends it.
LEMMA OnwardKeeps ==
  ASSUME IInv, NEW c \in Calls, Busy(c), Onward(c), checkpoint' = Hi(c)
  PROVE  /\ job' \in [Calls -> Job] /\ running' \in BOOLEAN
         /\ session' \in {"down", "backfill", "firstTick", "polling"}
         /\ OneWalk' /\ WalksInShape'
         /\ \A d \in Calls : job'[d].phase # "applied"
<1> DEFINE j == job[c]
<1>1. /\ j \in Job /\ Shape(j, Base) /\ Base \in Nat
      /\ j.todo \in Seq(Pending) /\ 1 \in 1 .. Len(j.todo)
      /\ Hi(c) = j.todo[1].to /\ Hi(c) \in Block /\ j.upto \in Block
      /\ Hi(c) <= j.upto
  BY Walking DEF Hi
<1>2. Base' = Hi(c) + 1 /\ Base' \in Nat /\ Hi(c) + 1 \in Nat
  BY <1>1 DEF Base, None, Block
<1>3. CASE EndWalk(c)
  BY <1>3, StopWalking DEF Busy
<1> DEFINE k(todo) == [j EXCEPT !.phase = "range", !.lo = Hi(c) + 1, !.todo = todo, !.tries = 0]
<1>4. ASSUME NEW todo \in Seq(Pending)
      PROVE  /\ k(todo) \in Job /\ k(todo).phase = "range" /\ k(todo).upto = j.upto
             /\ k(todo).lo = Hi(c) + 1 /\ k(todo).todo = todo
  <2>1. 0 \in 0 .. Attempts
    BY IndexerAssumption
  <2> QED
    BY <1>1, <1>2, <2>1 DEF Job
<1>5. ASSUME NEW todo \in Seq(Pending), GoOn(c, k(todo)), Shape(k(todo), Hi(c) + 1)
      PROVE  /\ job' \in [Calls -> Job] /\ running' \in BOOLEAN
             /\ session' \in {"down", "backfill", "firstTick", "polling"}
             /\ OneWalk' /\ WalksInShape'
             /\ \A d \in Calls : job'[d].phase # "applied"
  <2>1. Shape(k(todo), Base') /\ k(todo) \in Job /\ k(todo).phase = "range"
    BY <1>2, <1>4, <1>5
  <2> HIDE DEF k
  <2>2. /\ job' \in [Calls -> Job] /\ session' = session /\ running' = running
        /\ OneWalk' /\ WalksInShape'
        /\ job'[c] = k(todo) /\ \A d \in Calls : d # c => ~Busy(d)'
    BY <1>5, <2>1, KeepWalking
  <2> QED
    BY <2>1, <2>2 DEF Busy, IInv, TypeOK
<1>6. CASE Len(j.todo) > 1 /\ GoOn(c, k(Tail(j.todo)))
  <2>1. Tail(j.todo) \in Seq(Pending)
    BY <1>1
  <2>2. /\ k(Tail(j.todo)) \in Job /\ k(Tail(j.todo)).upto = j.upto
        /\ k(Tail(j.todo)).lo = j.todo[1].to + 1
        /\ k(Tail(j.todo)).todo = Tail(j.todo)
    BY <1>1, <1>4, <2>1
  <2> HIDE DEF k, j
  <2>3. Shape(k(Tail(j.todo)), j.todo[1].to + 1)
    BY <1>1, <1>6, <2>2, NextHalf
  <2> QED
    BY <1>1, <1>5, <1>6, <2>1, <2>3
<1>7. CASE Hi(c) < j.upto /\ GoOn(c, k(ChunkAt(Hi(c) + 1, j.upto)))
  <2> DEFINE next == ChunkAt(Hi(c) + 1, j.upto)
  <2>1. Hi(c) + 1 <= j.upto
    BY <1>1, <1>7 DEF Block
  <2>2. Walk(Hi(c) + 1, j.upto) \in Job /\ Walk(Hi(c) + 1, j.upto).todo = next
    BY <1>1, <1>2, <2>1, WalkBegins DEF Walk
  <2>3. next \in Seq(Pending)
    BY <2>2 DEF Job
  <2> HIDE DEF next
  <2>4. /\ k(next) \in Job /\ k(next).upto = j.upto
        /\ k(next).lo = j.todo[1].to + 1 /\ k(next).todo = next
    BY <1>1, <1>4, <2>3
  <2> HIDE DEF k, j
  <2>5. Shape(k(next), j.todo[1].to + 1)
    BY <1>1, <1>7, <2>4, NextChunk DEF next
  <2> QED
    BY <1>1, <1>5, <1>7, <2>3, <2>5 DEF next
<1> QED
  BY <1>3, <1>6, <1>7 DEF Onward

----------------------------------------------------------------------------
(* The invariant holds initially and every action keeps it.                 *)

LEMMA InitHolds == Init => IInv
<1> SUFFICES ASSUME Init PROVE IInv
  OBVIOUS
<1>1. <<>> \in Seq(Pending) /\ 0 \in 0 .. Attempts /\ 0 \in 0 .. MaxCrashes
  BY IndexerAssumption
<1>2. IdleJob \in Job /\ IdleJob.phase = "idle"
  BY <1>1 DEF IdleJob, Job
<1>3. TypeOK
  BY <1>1, <1>2 DEF Init, TypeOK, Block
<1>4. \A c \in Calls : ~Busy(c) /\ job[c].phase # "applied"
  BY <1>2 DEF Init, Busy
<1>5. OneWalk /\ WalksInShape /\ (\A b \in Block : ~InFlight(b))
  BY <1>4 DEF OneWalk, WalksInShape, InFlight
<1>6. Counted /\ InFlightCovered /\ Opened /\ NoHole /\ IndexFromIsFirst /\ OrphansOnly
  BY <1>5 DEF Init, Counted, InFlightCovered, Opened, NoHole, IndexFromIsFirst, OrphansOnly, Block, None
<1> QED
  BY <1>3, <1>5, <1>6 DEF IInv

\* A longer chain changes nothing on this side of it.
LEMMA NewBlockKeeps ==
  ASSUME IInv, NEW e \in Endpoints, NewBlock(e)
  PROVE  IInv'
<1>1. /\ tip \in [Endpoints -> Block] /\ tip[e] < MaxBlock
      /\ tip' = [tip EXCEPT ![e] = @ + 1]
      /\ UNCHANGED <<checkpoint, indexFrom, applied, session, running, job, short, crashes, lost, orphaned>>
  BY DEF IInv, TypeOK, NewBlock, disk
<1>2. tip[e] + 1 \in Block
  BY <1>1, IndexerAssumption DEF Block
<1>3. tip' \in [Endpoints -> Block]
  BY <1>1, <1>2
<1>4. TypeOK'
  BY <1>1, <1>3 DEF IInv, TypeOK
<1>5. OneWalk' /\ WalksInShape'
  BY <1>1 DEF IInv, OneWalk, WalksInShape, Busy, Base
<1>6. Counted' /\ InFlightCovered' /\ OrphansOnly'
  BY <1>1 DEF IInv, Counted, InFlightCovered, OrphansOnly, InFlight, Hi
<1>7. Opened' /\ NoHole' /\ IndexFromIsFirst'
  BY <1>1 DEF IInv, Opened, NoHole, IndexFromIsFirst
<1> QED
  BY <1>4, <1>5, <1>6, <1>7 DEF IInv

\* A committed batch adds each block the endpoint had once, and none of them
\* was recorded before.
LEMMA ReadAndApplyKeeps ==
  ASSUME IInv, NEW c \in Calls, NEW e \in Endpoints, ReadAndApply(c, e)
  PROVE  IInv'
<1> DEFINE k == [job[c] EXCEPT !.phase = "applied"]
<1>1. /\ job[c].phase = "range" /\ Busy(c) /\ GoOn(c, k)
      /\ applied' = [b \in Block |->
           IF b \in job[c].lo .. Hi(c) /\ b <= tip[e] THEN applied[b] + 1 ELSE applied[b]]
      /\ short' = short \cup {b \in job[c].lo .. Hi(c) : b > tip[e]}
      /\ UNCHANGED <<tip, checkpoint, indexFrom, crashes, lost, orphaned>>
  BY DEF ReadAndApply, Busy
<1>2. /\ job[c] \in Job /\ Shape(job[c], Base) /\ Base \in Nat /\ Base' = Base
      /\ Hi(c) \in Block /\ job[c].lo = Base
      /\ indexFrom \in Block /\ checkpoint \in Block \cup {None} /\ checkpoint < Base
      /\ indexFrom <= Base
      /\ \A d \in Calls : d # c => ~Busy(d)
  <2>1. indexFrom <= Base
    BY <1>1, Walking DEF IInv, Opened, Base, Block, None
  <2> QED
    BY <1>1, <2>1, Walking DEF Base
<1>3. k \in Job /\ k.phase = "applied" /\ k.lo = job[c].lo /\ k.todo = job[c].todo
      /\ k.upto = job[c].upto
  BY <1>2 DEF Job
<1>4. Shape(k, Base')
  BY <1>2, <1>3 DEF Shape
<1> HIDE DEF k
<1>5. /\ job' \in [Calls -> Job] /\ session' = session /\ running' = running
      /\ OneWalk' /\ WalksInShape'
      /\ job'[c] = k /\ \A d \in Calls : d # c => ~Busy(d)'
  BY <1>1, <1>3, <1>4, KeepWalking
<1>6. \A b \in Block : b \in job[c].lo .. Hi(c) <=> InFlight(b)'
  <2>1. \A d \in Calls : job'[d].phase = "applied" => d = c
    BY <1>5 DEF Busy
  <2>2. job'[c].phase = "applied" /\ job'[c].lo = job[c].lo /\ Hi(c)' = Hi(c)
    BY <1>3, <1>5 DEF Hi
  <2> QED
    BY <2>1, <2>2 DEF InFlight
<1>7. applied \in [Block -> Nat] /\ short \subseteq Block /\ lost \in Nat /\ tip[e] \in Block
  BY DEF IInv, TypeOK
<1>8. \A b \in Block : applied[b] \in Nat /\ applied'[b] \in Nat /\ applied'[b] >= applied[b]
  BY <1>1, <1>7
<1>9. TypeOK'
  <2>1. applied' \in [Block -> Nat]
    BY <1>1, <1>7
  <2>2. short' \subseteq Block
    <3>1. \A b \in job[c].lo .. Hi(c) : b \in Block
      BY <1>2, IndexerAssumption DEF Block
    <3> QED
      BY <3>1, <1>1, <1>7, Zenon
  <2> QED
    BY <1>1, <1>5, <2>1, <2>2 DEF IInv, TypeOK
<1>10. Counted'
  <2> SUFFICES ASSUME NEW b \in Block
               PROVE  applied'[b] <= IF b <= checkpoint \/ InFlight(b)' THEN lost + 1 ELSE lost
    BY <1>1 DEF Counted
  <2>1. ~InFlight(b)
    BY <1>1, NothingInFlight
  <2>2. applied[b] <= IF b <= checkpoint THEN lost + 1 ELSE lost
    BY <2>1 DEF IInv, Counted
  <2>3. CASE b \in job[c].lo .. Hi(c)
    <3>1. ~(b <= checkpoint) /\ InFlight(b)'
      BY <2>3, <1>2, <1>6 DEF Block, None
    <3>2. applied[b] <= lost /\ applied'[b] <= applied[b] + 1
      BY <2>2, <3>1, <1>1, <1>8
    <3> QED
      BY <3>1, <3>2, <1>7, <1>8
  <2>4. CASE b \notin job[c].lo .. Hi(c)
    <3>1. applied'[b] = applied[b] /\ ~InFlight(b)'
      BY <2>4, <1>1, <1>6
    <3> QED
      BY <3>1, <2>2
  <2> QED
    BY <2>3, <2>4
<1>11. InFlightCovered'
  <2> SUFFICES ASSUME NEW b \in Block, b \in job[c].lo .. Hi(c)
               PROVE  applied'[b] >= 1 \/ b \in short'
    BY <1>6 DEF InFlightCovered
  <2> QED
    BY <1>1, <1>7, <1>8 DEF Block
<1>12. NoHole'
  <2> SUFFICES ASSUME indexFrom # None, NEW b \in indexFrom .. checkpoint
               PROVE  applied'[b] >= 1 \/ b \in short'
    BY <1>1 DEF NoHole
  <2>1. applied[b] >= 1 \/ b \in short
    BY DEF IInv, NoHole
  <2>2. b \in Block
    BY IndexerAssumption, <1>2 DEF Block, None
  <2> QED
    BY <2>1, <2>2, <1>1, <1>8
<1>13. IndexFromIsFirst'
  <2> SUFFICES ASSUME NEW b \in Block, applied'[b] > 0
               PROVE  b >= indexFrom \/ b \in orphaned
    BY <1>1 DEF IndexFromIsFirst
  <2>1. CASE applied[b] > 0
    BY <2>1 DEF IInv, IndexFromIsFirst
  <2>2. CASE ~(applied[b] > 0)
    <3>1. b \in job[c].lo .. Hi(c)
      BY <2>2, <1>1
    <3> QED
      BY <3>1, <1>2 DEF Block
  <2> QED
    BY <2>1, <2>2
<1>15. OrphansOnly'
  <2> SUFFICES ASSUME checkpoint = None, NEW b \in Block, applied'[b] > 0
               PROVE  b \in orphaned \/ InFlight(b)'
    BY <1>1 DEF OrphansOnly
  <2>1. CASE applied[b] > 0
    <3>1. ~InFlight(b)
      BY <1>1, NothingInFlight
    <3> QED
      BY <2>1, <3>1 DEF IInv, OrphansOnly
  <2>2. CASE ~(applied[b] > 0)
    <3>1. b \in job[c].lo .. Hi(c)
      BY <2>2, <1>1
    <3> QED
      BY <3>1, <1>6
  <2> QED
    BY <2>1, <2>2
<1>14. Opened'
  BY <1>1 DEF IInv, Opened
<1> QED
  BY <1>5, <1>9, <1>10, <1>11, <1>12, <1>13, <1>14, <1>15 DEF IInv

\* A checkpoint written records exactly the batch committed before it.
LEMMA MarkKeeps ==
  ASSUME IInv, NEW c \in Calls, Mark(c)
  PROVE  IInv'
<1>1. /\ job[c].phase = "applied" /\ Busy(c) /\ checkpoint' = Hi(c) /\ Onward(c)
      /\ UNCHANGED <<tip, indexFrom, applied, short, crashes, lost, orphaned>>
  BY DEF Mark, Busy
<1>2. /\ Base \in Nat /\ Hi(c) \in Block /\ job[c].lo = Base /\ Base <= Hi(c)
      /\ indexFrom \in Block /\ checkpoint \in Block \cup {None} /\ checkpoint < Base
      /\ indexFrom # None
      /\ \A b \in Block : b <= checkpoint \/ b >= Base \/ b < indexFrom
      /\ \A d \in Calls : d # c => ~Busy(d)
  BY <1>1, Walking
<1>3. /\ job' \in [Calls -> Job] /\ running' \in BOOLEAN
      /\ session' \in {"down", "backfill", "firstTick", "polling"}
      /\ OneWalk' /\ WalksInShape'
      /\ \A d \in Calls : job'[d].phase # "applied"
  BY <1>1, OnwardKeeps
<1>4. \A b \in Block : InFlight(b) <=> b \in Base .. Hi(c)
  BY <1>1, <1>2 DEF InFlight, Busy
<1>5. \A b \in Block : ~InFlight(b)'
  BY <1>3 DEF InFlight
<1>6. applied \in [Block -> Nat] /\ lost \in Nat
  BY DEF IInv, TypeOK
<1>7. TypeOK'
  BY <1>1, <1>2, <1>3 DEF IInv, TypeOK
<1>8. Counted'
  <2> SUFFICES ASSUME NEW b \in Block
               PROVE  applied[b] <= IF b <= Hi(c) THEN lost + 1 ELSE lost
    BY <1>1, <1>5 DEF Counted
  <2>1. applied[b] <= IF b <= checkpoint \/ b \in Base .. Hi(c) THEN lost + 1 ELSE lost
    BY <1>4 DEF IInv, Counted
  <2> QED
    BY <2>1, <1>2, <1>6 DEF Block, None
<1>9. InFlightCovered'
  BY <1>5 DEF InFlightCovered
<1>10. Opened'
  <2>1. indexFrom <= Base
    BY <1>2 DEF IInv, Opened, Base, Block, None
  <2> QED
    BY <2>1, <1>1, <1>2 DEF Opened, Block
<1>11. NoHole'
  <2> SUFFICES ASSUME NEW b \in indexFrom .. Hi(c)
               PROVE  applied[b] >= 1 \/ b \in short
    BY <1>1, <1>2 DEF NoHole
  <2>1. b \in Block
    BY IndexerAssumption, <1>2 DEF Block
  <2>2. CASE b <= checkpoint
    BY <2>2, <1>2 DEF IInv, NoHole, Block, None
  <2>3. CASE b >= Base
    BY <2>1, <2>3, <1>2, <1>4 DEF IInv, InFlightCovered, Block
  <2> QED
    BY <2>1, <2>2, <2>3, <1>2 DEF Block
<1>12. IndexFromIsFirst'
  BY <1>1 DEF IInv, IndexFromIsFirst
<1>13. OrphansOnly'
  BY <1>1, <1>2 DEF OrphansOnly, Block, None
<1> QED
  BY <1>3, <1>7, <1>8, <1>9, <1>10, <1>11, <1>12, <1>13 DEF IInv

\* A walk that leaves the disk alone and ends up with no batch committed:
\* nothing is in flight any more, and the counts are where they were.
LEMMA DiskKeeps ==
  ASSUME IInv, UNCHANGED <<tip, checkpoint, indexFrom, applied, short>>,
         crashes' \in 0 .. MaxCrashes, lost' \in Nat, lost' >= lost,
         orphaned' = orphaned \/ orphaned' = Orphans,
         (\E d \in Calls : job[d].phase = "applied") => orphaned' = Orphans,
         (\E d \in Calls : job[d].phase = "applied") => lost' = lost + 1,
         \A d \in Calls : job'[d].phase # "applied",
         job' \in [Calls -> Job], running' \in BOOLEAN,
         session' \in {"down", "backfill", "firstTick", "polling"},
         OneWalk', WalksInShape'
  PROVE  IInv'
<1>1. \A b \in Block : ~InFlight(b)'
  BY DEF InFlight
<1>2. applied \in [Block -> Nat] /\ lost \in Nat
  BY DEF IInv, TypeOK
<1>3. TypeOK'
  BY DEF IInv, TypeOK, Orphans, Unrecorded
<1>4. Counted'
  <2> SUFFICES ASSUME NEW b \in Block
               PROVE  applied[b] <= IF b <= checkpoint THEN lost' + 1 ELSE lost'
    BY <1>1 DEF Counted
  <2>1. applied[b] <= IF b <= checkpoint \/ InFlight(b) THEN lost + 1 ELSE lost
    BY DEF IInv, Counted
  <2>2. InFlight(b) => lost' = lost + 1
    BY DEF InFlight
  <2>3. applied[b] \in Nat
    BY <1>2
  <2>4. CASE b <= checkpoint
    BY <2>1, <2>3, <2>4, <1>2
  <2>5. CASE ~(b <= checkpoint) /\ InFlight(b)
    BY <2>1, <2>2, <2>3, <2>5, <1>2
  <2>6. CASE ~(b <= checkpoint) /\ ~InFlight(b)
    BY <2>1, <2>3, <2>6, <1>2
  <2> QED
    BY <2>4, <2>5, <2>6
<1>5. InFlightCovered'
  BY <1>1 DEF InFlightCovered
<1>6. Opened' /\ NoHole'
  BY DEF IInv, Opened, NoHole
<1>7. orphaned \subseteq orphaned'
  BY DEF Orphans
<1>8. IndexFromIsFirst'
  BY <1>7 DEF IInv, IndexFromIsFirst
<1>9. OrphansOnly'
  <2> SUFFICES ASSUME checkpoint = None, NEW b \in Block, applied[b] > 0
               PROVE  b \in orphaned'
    BY DEF OrphansOnly
  <2>1. CASE InFlight(b)
    BY <2>1 DEF InFlight, Orphans, Unrecorded
  <2>2. CASE ~InFlight(b)
    BY <1>7, <2>2 DEF IInv, OrphansOnly
  <2> QED
    BY <2>1, <2>2
<1> QED
  BY <1>3, <1>4, <1>5, <1>6, <1>8, <1>9 DEF IInv

LEMMA FailKeeps ==
  ASSUME IInv, NEW c \in Calls, Fail(c)
  PROVE  IInv'
<1>1. /\ job[c].phase = "range" /\ Busy(c) /\ Retry(c)
      /\ UNCHANGED <<tip, checkpoint, indexFrom, applied, short, crashes, lost, orphaned>>
  BY DEF Fail, Busy, disk
<1>2. /\ job' \in [Calls -> Job] /\ running' \in BOOLEAN
      /\ session' \in {"down", "backfill", "firstTick", "polling"}
      /\ OneWalk' /\ WalksInShape'
      /\ \A d \in Calls : job'[d].phase # "applied"
  BY <1>1, RetryKeeps
<1>3. \A d \in Calls : job[d].phase # "applied"
  BY <1>1, Walking DEF Busy
<1>4. lost' \in Nat /\ lost' >= lost /\ crashes' \in 0 .. MaxCrashes
  BY <1>1 DEF IInv, TypeOK
<1> QED
  BY <1>1, <1>2, <1>3, <1>4, DiskKeeps

LEMMA LoseMarkKeeps ==
  ASSUME IInv, NEW c \in Calls, LoseMark(c)
  PROVE  IInv'
<1>1. /\ job[c].phase = "applied" /\ Busy(c) /\ Retry(c) /\ lost' = lost + 1 /\ orphaned' = Orphans
      /\ UNCHANGED <<tip, checkpoint, indexFrom, applied, short, crashes>>
  BY DEF LoseMark, Busy, disk
<1>2. /\ job' \in [Calls -> Job] /\ running' \in BOOLEAN
      /\ session' \in {"down", "backfill", "firstTick", "polling"}
      /\ OneWalk' /\ WalksInShape'
      /\ \A d \in Calls : job'[d].phase # "applied"
  BY <1>1, RetryKeeps
<1>3. lost' \in Nat /\ lost' >= lost /\ crashes' \in 0 .. MaxCrashes
  BY <1>1 DEF IInv, TypeOK
<1> QED
  BY <1>1, <1>2, <1>3, DiskKeeps

\* A death takes the walk with it, and the checkpoint of a batch in flight.
LEMMA CrashKeeps ==
  ASSUME IInv, Crash
  PROVE  IInv'
<1>1. /\ crashes < MaxCrashes /\ crashes' = crashes + 1
      /\ lost' = IF \E c \in Calls : job[c].phase = "applied" THEN lost + 1 ELSE lost
      /\ orphaned' = Orphans
      /\ session' = "down" /\ running' = FALSE
      /\ job' = [c \in Calls |-> IdleJob]
      /\ UNCHANGED <<tip, checkpoint, indexFrom, applied, short>>
  BY DEF Crash, disk
<1>2. IdleJob \in Job /\ IdleJob.phase = "idle"
  <2>1. <<>> \in Seq(Pending) /\ 0 \in 0 .. Attempts
    BY IndexerAssumption
  <2> QED
    BY <2>1 DEF IdleJob, Job
<1>3. /\ job' \in [Calls -> Job] /\ \A d \in Calls : ~Busy(d)' /\ job'[d].phase # "applied"
  BY <1>1, <1>2 DEF Busy
<1>4. OneWalk' /\ WalksInShape'
  BY <1>3 DEF OneWalk, WalksInShape
<1>5. lost \in Nat /\ crashes \in 0 .. MaxCrashes
  BY DEF IInv, TypeOK
<1>6. lost' \in Nat /\ lost' >= lost
      /\ ((\E d \in Calls : job[d].phase = "applied") => lost' = lost + 1)
  BY <1>1, <1>5
<1>7. crashes' \in 0 .. MaxCrashes
  BY <1>1, <1>5, IndexerAssumption
<1>8. running' \in BOOLEAN /\ session' \in {"down", "backfill", "firstTick", "polling"}
  BY <1>1
<1> QED
  BY <1>1, <1>3, <1>4, <1>6, <1>7, <1>8, DiskKeeps

\* No walk is under way when one begins: the seed is the first thing a
\* process does, and a tick needs the flag.
LEMMA NoWalk ==
  ASSUME IInv, session = "down" \/ (~running /\ session # "backfill")
  PROVE  /\ \A d \in Calls : ~Busy(d) /\ job[d].phase # "applied"
         /\ \A b \in Block : ~InFlight(b)
BY DEF IInv, OneWalk, Busy, InFlight

\* A walk that begins at the block after the checkpoint, or that opens the
\* ledger, keeps the invariant.
LEMMA BeginKeeps ==
  ASSUME IInv, NEW c \in Calls, NEW from \in Nat, NEW upto \in Block, from <= upto,
         session = "down" \/ (~running /\ session # "backfill"),
         checkpoint # None => from = checkpoint + 1,
         indexFrom' = IF checkpoint = None THEN from ELSE indexFrom,
         job' = [job EXCEPT ![c] = Walk(from, upto)],
         session' \in {"down", "backfill", "firstTick", "polling"},
         session' # "down", running' \in BOOLEAN, running' \/ session' = "backfill",
         UNCHANGED <<tip, checkpoint, applied, short, crashes, lost, orphaned>>
  PROVE  IInv'
<1>1. /\ \A d \in Calls : ~Busy(d) /\ job[d].phase # "applied"
      /\ \A b \in Block : ~InFlight(b)
  BY NoWalk
<1>2. /\ Walk(from, upto) \in Job /\ Shape(Walk(from, upto), from)
      /\ Walk(from, upto).phase = "range"
  BY WalkBegins DEF Walk
<1>3. /\ job' \in [Calls -> Job] /\ job'[c] = Walk(from, upto)
      /\ \A d \in Calls : d # c => job'[d] = job[d]
  BY <1>2 DEF IInv, TypeOK
<1>4. /\ \A d \in Calls : d # c => ~Busy(d)'
      /\ \A d \in Calls : job'[d].phase # "applied"
  BY <1>1, <1>2, <1>3 DEF Busy
<1>5. OneWalk'
  BY <1>4 DEF OneWalk
<1>6. Base' = from
  BY DEF Base
<1>7. WalksInShape'
  BY <1>2, <1>3, <1>4, <1>6 DEF WalksInShape
<1>8. from \in Block
  BY IndexerAssumption DEF Block
<1>9. TypeOK'
  BY <1>3, <1>8 DEF IInv, TypeOK
<1>10. \A b \in Block : ~InFlight(b)'
  BY <1>4 DEF InFlight
<1>11. Counted'
  BY <1>1, <1>10 DEF IInv, Counted
<1>12. InFlightCovered' /\ OrphansOnly'
  BY <1>1, <1>10 DEF IInv, InFlightCovered, OrphansOnly
<1>13. CASE checkpoint = None
  <2>1. Opened'
    BY <1>13 DEF Opened
  <2>2. NoHole'
    BY <1>13, <1>8 DEF NoHole, None, Block
  <2>3. IndexFromIsFirst'
    BY <1>1, <1>13 DEF IInv, IndexFromIsFirst, OrphansOnly
  <2> QED
    BY <1>5, <1>7, <1>9, <1>11, <1>12, <2>1, <2>2, <2>3 DEF IInv
<1>14. CASE checkpoint # None
  <2>1. UNCHANGED <<checkpoint, indexFrom, applied, short, lost, orphaned>>
    BY <1>14
  <2>2. Opened' /\ NoHole' /\ IndexFromIsFirst'
    BY <2>1 DEF IInv, Opened, NoHole, IndexFromIsFirst
  <2> QED
    BY <1>5, <1>7, <1>9, <1>11, <1>12, <2>2 DEF IInv
<1> QED
  BY <1>13, <1>14

LEMMA StartKeeps ==
  ASSUME IInv, NEW c \in Calls, NEW e \in Endpoints, Start(c, e)
  PROVE  IInv'
<1> DEFINE start == IF checkpoint = None THEN Greater(0, tip[e] - MaxBackfill) ELSE checkpoint + 1
<1>1. /\ session = "down" /\ start <= tip[e] /\ session' = "backfill"
      /\ indexFrom' = IF checkpoint = None THEN start ELSE indexFrom
      /\ job' = [job EXCEPT ![c] = Walk(start, tip[e])]
      /\ UNCHANGED <<tip, checkpoint, applied, running, short, crashes, lost, orphaned>>
  BY DEF Start
<1>2. tip[e] \in Block /\ checkpoint \in Block \cup {None} /\ running \in BOOLEAN
  BY DEF IInv, TypeOK
<1>3. start \in Nat
  BY <1>2, IndexerAssumption DEF Block, Greater, None
<1>4. checkpoint # None => start = checkpoint + 1
  OBVIOUS
<1> HIDE DEF start
<1> QED
  BY <1>1, <1>2, <1>3, <1>4, BeginKeeps

LEMMA BeginTickKeeps ==
  ASSUME IInv, NEW c \in Calls, NEW e \in Endpoints, BeginTick(c, e)
  PROVE  IInv'
<1> DEFINE from == TickFrom(tip[e])
<1>1. /\ ~running /\ session \in {"firstTick", "polling"} /\ from <= tip[e] /\ running'
      /\ running' \in BOOLEAN
      /\ indexFrom' = IF checkpoint = None THEN tip[e] ELSE indexFrom
      /\ job' = [job EXCEPT ![c] = Walk(from, tip[e])]
      /\ UNCHANGED <<tip, checkpoint, applied, session, short, crashes, lost, orphaned>>
  BY DEF BeginTick, MayTick
<1>2. tip[e] \in Block /\ checkpoint \in Block \cup {None}
  BY DEF IInv, TypeOK
<1>3. from \in Nat
  BY <1>2, IndexerAssumption DEF Block, TickFrom, None
<1>4. /\ checkpoint # None => from = checkpoint + 1
      /\ indexFrom' = IF checkpoint = None THEN from ELSE indexFrom
  BY <1>1 DEF TickFrom
<1> HIDE DEF from
<1> QED
  BY <1>1, <1>2, <1>3, <1>4, BeginKeeps

\* start() without a seed and a tick without blocks only move the session on.
LEMMA SessionKeeps ==
  ASSUME IInv, StartWithoutSeed \/ IdleTick
  PROVE  IInv'
<1>1. /\ session = "down" \/ (~running /\ session # "backfill")
      /\ session' \in {"firstTick", "polling"}
      /\ UNCHANGED <<tip, checkpoint, indexFrom, applied, running, job, short, crashes, lost, orphaned>>
  BY DEF StartWithoutSeed, IdleTick, MayTick, disk
<1>2. \A d \in Calls : ~Busy(d) /\ job[d].phase # "applied"
  BY <1>1, NoWalk
<1>3. OneWalk' /\ WalksInShape'
  BY <1>1, <1>2 DEF OneWalk, WalksInShape, Busy
<1>4. /\ job' \in [Calls -> Job] /\ running' \in BOOLEAN
      /\ crashes' \in 0 .. MaxCrashes /\ lost' \in Nat /\ lost' >= lost
  BY <1>1 DEF IInv, TypeOK
<1> QED
  BY <1>1, <1>2, <1>3, <1>4, DiskKeeps

LEMMA StepHolds == IInv /\ [Next]_vars => IInv'
<1> SUFFICES ASSUME IInv, [Next]_vars PROVE IInv'
  OBVIOUS
<1>1. CASE \E e \in Endpoints : NewBlock(e)
  BY <1>1, NewBlockKeeps
<1>2. CASE \E c \in Calls, e \in Endpoints :
             Start(c, e) \/ BeginTick(c, e) \/ ReadAndApply(c, e)
  BY <1>2, StartKeeps, BeginTickKeeps, ReadAndApplyKeeps
<1>3. CASE \E c \in Calls : Mark(c) \/ Fail(c) \/ LoseMark(c)
  BY <1>3, MarkKeeps, FailKeeps, LoseMarkKeeps
<1>4. CASE StartWithoutSeed \/ IdleTick
  BY <1>4, SessionKeeps
<1>5. CASE Crash
  BY <1>5, CrashKeeps
<1>6. CASE UNCHANGED vars
  BY <1>6 DEF vars, IInv, TypeOK, OneWalk, WalksInShape, Counted, InFlightCovered,
              Opened, NoHole, IndexFromIsFirst, OrphansOnly, InFlight, Busy, Base, Hi
<1> QED
  BY <1>1, <1>2, <1>3, <1>4, <1>5, <1>6 DEF Next

----------------------------------------------------------------------------
(* The theorems.                                                            *)

\* The inductive invariant holds in every state the indexer reaches.
THEOREM Invariance == Spec => []IInv
BY InitHolds, StepHolds, PTL DEF Spec

\* Type correctness: in particular no record of a walk ever leaves its
\* bounds (tries, depth of the halving, blocks).
THEOREM TypeCorrect == Spec => []TypeOK
<1>1. IInv => TypeOK
  BY DEF IInv
<1> QED
  BY <1>1, Invariance, PTL

\* No hole: the checkpoint only ever covers blocks whose transfers are in the
\* aggregates, or that the answering endpoint did not have yet.
THEOREM NoHoles == Spec => []NoHole
<1>1. IInv => NoHole
  BY DEF IInv
<1> QED
  BY <1>1, Invariance, PTL

\* Additive aggregates: a block is counted again only where a checkpoint
\* write was lost, never through overlapping ticks, retries or halving.
THEOREM CountedOnce == Spec => []CountedOncePerLostMark
<1>1. IInv => CountedOncePerLostMark
  BY DEF IInv, TypeOK, Counted, CountedOncePerLostMark
<1> QED
  BY <1>1, Invariance, PTL

\* indexer.js, backfill and tickOnce: index_from is the first block indexed, but
\* for the batches that lost their mark before there was a checkpoint.
THEOREM IndexFromFirst == Spec => []IndexFromIsFirst
<1>1. IInv => IndexFromIsFirst
  BY DEF IInv
<1> QED
  BY <1>1, Invariance, PTL

----------------------------------------------------------------------------
(* The indexer implements the journal.                                      *)

\* The journal's 'written' as JournalView takes it from the aggregates.
WrittenBlocks == {b \in Block : applied[b] > 0} \cup short

\* A committed batch writes the run of blocks from the journal's base to the
\* end of the range.
LEMMA BatchWrites ==
  ASSUME IInv, NEW c \in Calls, NEW e \in Endpoints, ReadAndApply(c, e)
  PROVE  JournalView!Write
<1>1. /\ Busy(c) /\ UNCHANGED <<indexFrom, checkpoint>>
      /\ applied' = [b \in Block |->
           IF b \in job[c].lo .. Hi(c) /\ b <= tip[e] THEN applied[b] + 1 ELSE applied[b]]
      /\ short' = short \cup {b \in job[c].lo .. Hi(c) : b > tip[e]}
  BY DEF ReadAndApply, Busy
<1>2. /\ Base \in Nat /\ job[c].lo = Base /\ Hi(c) \in Block
      /\ Base <= Hi(c) /\ Hi(c) <= Base + Chunk - 1
  BY <1>1, Walking
<1>3. applied \in [Block -> Nat] /\ tip[e] \in Block /\ \A b \in Block : applied[b] \in Nat
  BY DEF IInv, TypeOK
<1>4. \A b \in Base .. Hi(c) : b \in Block
  BY <1>2, IndexerAssumption DEF Block
<1>5. \A b \in Block : applied'[b] > 0 <=>
                         applied[b] > 0 \/ (b \in Base .. Hi(c) /\ b <= tip[e])
  BY <1>1, <1>2, <1>3
<1>6. \A b \in Base .. Hi(c) : b <= tip[e] \/ b > tip[e]
  BY <1>3 DEF Block
<1>7. WrittenBlocks' = WrittenBlocks \cup (Base .. Hi(c))
  BY <1>1, <1>2, <1>4, <1>5, <1>6, ZenonT(60) DEF WrittenBlocks
<1>8. JournalView!Base = Base
  BY DEF JournalView!Base, JournalView!None, Base, None
<1>9. Hi(c) \in Base .. Base + Chunk - 1
  BY <1>2, IndexerAssumption DEF Block
<1> QED
  BY <1>1, <1>2, <1>7, <1>8, <1>9 DEF JournalView!Write, WrittenBlocks

\* The checkpoint advances the frontier over blocks that are written.
LEMMA MarkAdvances ==
  ASSUME IInv, NEW c \in Calls, Mark(c)
  PROVE  JournalView!Advance
<1>1. /\ job[c].phase = "applied" /\ Busy(c) /\ checkpoint' = Hi(c)
      /\ UNCHANGED <<indexFrom, applied, short>>
  BY DEF Mark, Busy
<1>2. /\ Base \in Nat /\ job[c].lo = Base /\ Hi(c) \in Block
      /\ Base <= Hi(c) /\ Hi(c) <= Base + Chunk - 1
  BY <1>1, Walking
<1>3. \A b \in Base .. Hi(c) : b \in Block /\ InFlight(b)
  BY <1>1, <1>2, IndexerAssumption DEF Block, InFlight
<1>4. \A b \in Block : applied[b] \in Nat
  BY DEF IInv, TypeOK
<1>5. \A b \in Base .. Hi(c) : applied[b] > 0 \/ b \in short
  BY <1>3, <1>4 DEF IInv, InFlightCovered
<1>6. Base .. Hi(c) \subseteq WrittenBlocks
  BY <1>3, <1>5 DEF WrittenBlocks
<1>7. JournalView!Base = Base
  BY DEF JournalView!Base, JournalView!None, Base, None
<1>8. Hi(c) \in Base .. Base + Chunk - 1
  BY <1>2, IndexerAssumption DEF Block
<1> QED
  BY <1>1, <1>2, <1>6, <1>7, <1>8 DEF JournalView!Advance, WrittenBlocks

\* A walk that begins opens the journal, or changes nothing of it.
LEMMA BeginOpens ==
  ASSUME IInv, NEW c \in Calls, NEW e \in Endpoints, Start(c, e) \/ BeginTick(c, e)
  PROVE  JournalView!Open \/ UNCHANGED JournalView!jvars
<1>1. tip[e] \in Block /\ checkpoint \in Block \cup {None}
  BY DEF IInv, TypeOK
<1>2. UNCHANGED <<checkpoint, applied, short>>
  BY DEF Start, BeginTick
<1>3. IF checkpoint = None THEN indexFrom' \in Nat ELSE indexFrom' = indexFrom
  BY <1>1, IndexerAssumption DEF Start, BeginTick, Greater, Block
<1>4. CASE checkpoint = None
  BY <1>2, <1>3, <1>4 DEF JournalView!Open, JournalView!None, None
<1>5. CASE checkpoint # None
  BY <1>2, <1>3, <1>5 DEF JournalView!jvars
<1> QED
  BY <1>4, <1>5

\* The indexer implements the journal: the stored figures cover one run of
\* blocks, at most a chunk is ever written ahead of the recorded frontier,
\* and the frontier moves only over written blocks.
THEOREM Refinement == Spec => ImplementsJournal
<1>1. Init => JournalView!Init
  BY DEF Init, JournalView!Init, JournalView!None, None
<1>2. IInv /\ [Next]_vars => [JournalView!Next]_JournalView!jvars
  <2> SUFFICES ASSUME IInv, [Next]_vars
               PROVE  JournalView!Next \/ UNCHANGED JournalView!jvars
    OBVIOUS
  <2>1. CASE \E c \in Calls, e \in Endpoints : ReadAndApply(c, e)
    BY <2>1, BatchWrites DEF JournalView!Next
  <2>2. CASE \E c \in Calls : Mark(c)
    BY <2>2, MarkAdvances DEF JournalView!Next
  <2>3. CASE \E c \in Calls, e \in Endpoints : Start(c, e) \/ BeginTick(c, e)
    BY <2>3, BeginOpens DEF JournalView!Next
  <2>4. CASE UNCHANGED <<indexFrom, checkpoint, applied, short>>
    BY <2>4 DEF JournalView!jvars
  <2>5. \/ \E c \in Calls, e \in Endpoints : ReadAndApply(c, e)
        \/ \E c \in Calls : Mark(c)
        \/ \E c \in Calls, e \in Endpoints : Start(c, e) \/ BeginTick(c, e)
        \/ UNCHANGED <<indexFrom, checkpoint, applied, short>>
    BY DEF Next, vars, disk, NewBlock, Fail, LoseMark, StartWithoutSeed, IdleTick, Crash
  <2> QED
    BY <2>1, <2>2, <2>3, <2>4, <2>5
<1> QED
  BY <1>1, <1>2, Invariance, PTL DEF Spec, ImplementsJournal, JournalView!Spec
=============================================================================
