------------------------------ MODULE Indexer ------------------------------
(***************************************************************************)
(* The block ledger of indexer.js: how start(), backfill(), tickOnce(),    *)
(* indexThrough() and indexRange() walk the chain, what applyBatch() and   *)
(* setCheckpoint() leave on disk, and what a crash between the two does.   *)
(*                                                                         *)
(* A block stands for its transfers.  applyBatch is additive (volume =     *)
(* volume + excluded.volume), so the durable aggregates are abstracted to  *)
(* the number of times each block has been added to them.                  *)
(***************************************************************************)
EXTENDS Integers, Sequences

CONSTANTS
  Endpoints,      \* the RPC endpoints tryEndpoints() falls back across
  Calls,          \* concurrent invocations of tick(): the timer's callbacks
  MaxBlock,       \* bound: the highest block an endpoint ever reaches
  MaxBackfill,    \* blocks a cold start seeds
  Chunk,          \* blocks per getLogs request
  MaxSplitDepth,  \* how many times a refused range is halved
  Attempts,       \* tries per range (3 in the code)
  LogCap,         \* largest range, in blocks, the provider answers at all
  MaxCrashes,     \* bound: process deaths
  MaxLost         \* bound: setCheckpoint failures

ASSUME IndexerAssumption ==
  /\ MaxBlock \in Nat /\ MaxBackfill \in Nat /\ MaxSplitDepth \in Nat
  /\ MaxCrashes \in Nat /\ MaxLost \in Nat
  /\ Chunk \in Nat \ {0} /\ Attempts \in Nat \ {0} /\ LogCap \in Nat \ {0}
  /\ Endpoints # {}

VARIABLES
  tip,         \* [Endpoints -> Block]: the newest block each endpoint has
  \* on disk
  checkpoint,  \* meta 'checkpoint': last block recorded as indexed, or None
  indexFrom,   \* meta 'index_from': first block indexed, or None
  applied,     \* [Block -> Nat]: times the block was added to the aggregates
  \* in the process
  session,     \* how far start() has got
  running,     \* the flag inside nonReentrant(tickOnce)
  job,         \* [Calls -> Job]: the walk each invocation is in
  \* history
  short,       \* blocks an accepted answer lacked: its endpoint was behind
  crashes,     \* process deaths so far
  lost,        \* batches committed whose checkpoint write never landed
  orphaned     \* the blocks of those committed before there was a checkpoint

vars == <<tip, checkpoint, indexFrom, applied, session, running, job, short, crashes, lost, orphaned>>
disk == <<checkpoint, indexFrom, applied>>

Block == 0 .. MaxBlock
None == -1

\* A pending range of indexRange's recursion.  Its first block is the block
\* after the range before it, so only its last block is kept.
Pending == [to : Block, depth : 0 .. MaxSplitDepth]

\* A walk: 'lo' is the first block of the range in hand, todo[1] its end, the
\* rest of todo the right halves still to come, 'upto' the head the walk
\* was started for.
Job == [phase : {"idle", "range", "applied"}, lo : Nat, upto : Nat,
        todo : Seq(Pending), tries : 0 .. Attempts]

IdleJob == [phase |-> "idle", lo |-> 0, upto |-> 0, todo |-> <<>>, tries |-> 0]

Lesser(a, b) == IF a < b THEN a ELSE b
Greater(a, b) == IF a > b THEN a ELSE b

Init ==
  /\ tip \in [Endpoints -> Block]
  /\ checkpoint = None
  /\ indexFrom = None
  /\ applied = [b \in Block |-> 0]
  /\ session = "down"
  /\ running = FALSE
  /\ job = [c \in Calls |-> IdleJob]
  /\ short = {}
  /\ crashes = 0
  /\ lost = 0
  /\ orphaned = {}

----------------------------------------------------------------------------
(* The walk: indexThrough and indexRange.                                   *)

\* The chunk indexThrough hands to indexRange at block 'from'.
ChunkAt(from, upto) == <<[to |-> Lesser(upto, from + Chunk - 1), depth |-> 0]>>

\* The call indexThrough(from, upto).
Walk(from, upto) ==
  [phase |-> "range", lo |-> from, upto |-> upto, todo |-> ChunkAt(from, upto), tries |-> 0]

Hi(c) == job[c].todo[1].to
Busy(c) == job[c].phase # "idle"

\* The walk of call c is over: indexThrough returned, true or false.  A seed
\* is followed by the first tick, the first tick by the timer, and a tick
\* releases the flag of nonReentrant.
EndWalk(c) ==
  /\ job' = [job EXCEPT ![c] = IdleJob]
  /\ session' = IF session = "backfill" THEN "firstTick" ELSE "polling"
  /\ running' = FALSE

GoOn(c, next) ==
  /\ job' = [job EXCEPT ![c] = next]
  /\ UNCHANGED <<session, running>>

\* The range in hand is dealt with: on to the right half waiting for it, to
\* the next chunk, or to the end of the walk.
Onward(c) ==
  LET onwards(todo) == [job[c] EXCEPT !.phase = "range", !.lo = Hi(c) + 1,
                                      !.todo = todo, !.tries = 0]
  IN \/ /\ Len(job[c].todo) > 1
        /\ GoOn(c, onwards(Tail(job[c].todo)))
     \/ /\ Len(job[c].todo) = 1
        /\ Hi(c) < job[c].upto
        /\ GoOn(c, onwards(ChunkAt(Hi(c) + 1, job[c].upto)))
     \/ /\ Len(job[c].todo) = 1
        /\ Hi(c) = job[c].upto
        /\ EndWalk(c)

\* getLogsRange answered through endpoint e and applyBatch committed.  The
\* endpoint returns the logs of the blocks it has; a boundary header it
\* lacks only costs the range its clock, so a short answer is accepted.
ReadAndApply(c, e) ==
  /\ job[c].phase = "range"
  /\ Hi(c) - job[c].lo + 1 <= LogCap
  /\ applied' = [b \in Block |->
       IF b \in job[c].lo .. Hi(c) /\ b <= tip[e] THEN applied[b] + 1 ELSE applied[b]]
  /\ short' = short \cup {b \in job[c].lo .. Hi(c) : b > tip[e]}
  /\ GoOn(c, [job[c] EXCEPT !.phase = "applied"])
  /\ UNCHANGED <<tip, checkpoint, indexFrom, crashes, lost, orphaned>>

\* setCheckpoint(to) committed.
Mark(c) ==
  /\ job[c].phase = "applied"
  /\ checkpoint' = Hi(c)
  /\ Onward(c)
  /\ UNCHANGED <<tip, indexFrom, applied, short, crashes, lost, orphaned>>

\* A range that failed is halved down to single blocks, MaxSplitDepth deep.
MaySplit_OneTooDeep(c) == Hi(c) > job[c].lo /\ job[c].todo[1].depth <= MaxSplitDepth
MaySplit_Never(c) == FALSE
MaySplit(c) == Hi(c) > job[c].lo /\ job[c].todo[1].depth < MaxSplitDepth

\* The two halves of the range in hand, each one level deeper.
Halves(c) ==
  LET r == job[c].todo[1]
      mid == job[c].lo + (r.to - job[c].lo) \div 2
  IN <<[to |-> mid, depth |-> r.depth + 1], [to |-> r.to, depth |-> r.depth + 1]>>

\* A range that cannot be had ends the whole walk: what is right of it waits
\* for the next tick.
GiveUp_ThisRangeOnly(c) == Onward(c)
GiveUp(c) == EndWalk(c)

\* The catch of indexRange: try again, then halve, then give up.
Retry(c) ==
  \/ /\ job[c].tries + 1 < Attempts
     /\ GoOn(c, [job[c] EXCEPT !.phase = "range", !.tries = @ + 1])
  \/ /\ job[c].tries + 1 >= Attempts
     /\ MaySplit(c)
     /\ GoOn(c, [job[c] EXCEPT !.phase = "range", !.tries = 0,
                               !.todo = Halves(c) \o Tail(@)])
  \/ /\ job[c].tries + 1 >= Attempts
     /\ ~MaySplit(c)
     /\ GiveUp(c)

\* No endpoint answered the range, one refused its size, or applyBatch threw
\* and was rolled back: nothing reached the disk.
Fail(c) ==
  /\ job[c].phase = "range"
  /\ Retry(c)
  /\ UNCHANGED <<tip, disk, short, crashes, lost, orphaned>>

\* The blocks committed and not recorded, and what becomes of them when their
\* mark is lost: as long as there is no checkpoint the ledger opens anew.
Unrecorded == {b \in Block : \E c \in Calls : job[c].phase = "applied" /\ b \in job[c].lo .. Hi(c)}
Orphans == IF checkpoint = None THEN orphaned \cup Unrecorded ELSE orphaned

\* The batch is committed and setCheckpoint throws: the same catch runs.
LoseMark(c) ==
  /\ job[c].phase = "applied"
  /\ lost < MaxLost
  /\ lost' = lost + 1
  /\ orphaned' = Orphans
  /\ Retry(c)
  /\ UNCHANGED <<tip, disk, short, crashes>>

----------------------------------------------------------------------------
(* The process: start(), the timer's ticks, and its death.                  *)

\* One endpoint's view of the chain grows.
NewBlock(e) ==
  /\ tip[e] < MaxBlock
  /\ tip' = [tip EXCEPT ![e] = @ + 1]
  /\ UNCHANGED <<disk, session, running, job, short, crashes, lost, orphaned>>

\* start() reads the head from e and calls backfill(latest), which does not
\* go through nonReentrant.  A cold database notes where it begins.
Start(c, e) ==
  LET latest == tip[e]
      cold == checkpoint = None
      start == IF cold THEN Greater(0, latest - MaxBackfill) ELSE checkpoint + 1
  IN /\ session = "down"
     /\ start <= latest
     /\ session' = "backfill"
     /\ indexFrom' = IF cold THEN start ELSE indexFrom
     /\ job' = [job EXCEPT ![c] = Walk(start, latest)]
     /\ UNCHANGED <<tip, checkpoint, applied, running, short, crashes, lost, orphaned>>

\* start() with nothing to seed: no endpoint gave a head, or the head is not
\* past the checkpoint.  Either way the first tick follows.
StartWithoutSeed ==
  /\ session = "down"
  /\ session' = "firstTick"
  /\ UNCHANGED <<tip, disk, running, job, short, crashes, lost, orphaned>>

\* tick(): start() calls it once after the seed, then setInterval calls it
\* whether or not the call before has returned.
MayTick_WithoutTheFlag == session \in {"firstTick", "polling"}
MayTick ==
  /\ ~running
  /\ session \in {"firstTick", "polling"}

\* Where a tick goes on: without a checkpoint, at the head itself.
TickFrom_NoNullCase(latest) == checkpoint + 1
TickFrom_TheBlockAfter(latest) == IF checkpoint = None THEN latest ELSE checkpoint + 2
TickFrom(latest) == IF checkpoint = None THEN latest ELSE checkpoint + 1

\* tickOnce with blocks to index up to the head answered by e.
BeginTick(c, e) ==
  LET latest == tip[e]
      from == TickFrom(latest)
  IN /\ MayTick
     /\ ~Busy(c)
     /\ from <= latest
     /\ running' = TRUE
     /\ indexFrom' = IF checkpoint = None THEN latest ELSE indexFrom
     /\ job' = [job EXCEPT ![c] = Walk(from, latest)]
     /\ UNCHANGED <<tip, checkpoint, applied, session, short, crashes, lost, orphaned>>

\* tickOnce that indexes nothing: the head could not be read, or is not past
\* the checkpoint.
IdleTick ==
  /\ MayTick
  /\ session' = "polling"
  /\ UNCHANGED <<tip, disk, running, job, short, crashes, lost, orphaned>>

\* The process dies at any point.  Only the disk survives; a batch whose
\* checkpoint was still to be written has lost it.
Crash ==
  /\ session # "down"
  /\ crashes < MaxCrashes
  /\ crashes' = crashes + 1
  /\ lost' = IF \E c \in Calls : job[c].phase = "applied" THEN lost + 1 ELSE lost
  /\ orphaned' = Orphans
  /\ session' = "down"
  /\ running' = FALSE
  /\ job' = [c \in Calls |-> IdleJob]
  /\ UNCHANGED <<tip, disk, short>>

Next ==
  \/ \E e \in Endpoints : NewBlock(e)
  \/ \E c \in Calls, e \in Endpoints :
       Start(c, e) \/ BeginTick(c, e) \/ ReadAndApply(c, e)
  \/ \E c \in Calls : Mark(c) \/ Fail(c) \/ LoseMark(c)
  \/ StartWithoutSeed
  \/ IdleTick
  \/ Crash

Spec == Init /\ [][Next]_vars

\* The supervisor restarts the process, the timer keeps firing, every await
\* ends (each fetch has a timeout), the chain grows, and an endpoint that is
\* asked again and again for a range it can serve answers in the end.
Fairness ==
  /\ \A e \in Endpoints : WF_vars(NewBlock(e))
  /\ WF_vars(StartWithoutSeed \/ \E c \in Calls, e \in Endpoints : Start(c, e))
  /\ WF_vars(\E c \in Calls, e \in Endpoints : BeginTick(c, e))
  /\ \A c \in Calls :
       /\ WF_vars(Mark(c) \/ Fail(c))
       /\ SF_vars(\E e \in Endpoints : ReadAndApply(c, e))

FairSpec == Spec /\ Fairness

----------------------------------------------------------------------------
(* Properties.                                                              *)

\* Every variable has its type.
TypeOK ==
  /\ tip \in [Endpoints -> Block]
  /\ checkpoint \in Block \cup {None}
  /\ indexFrom \in Block \cup {None}
  /\ applied \in [Block -> Nat]
  /\ short \subseteq Block
  /\ session \in {"down", "backfill", "firstTick", "polling"}
  /\ running \in BOOLEAN
  /\ job \in [Calls -> Job]
  /\ crashes \in 0 .. MaxCrashes
  /\ lost \in Nat
  /\ orphaned \subseteq Block

\* No hole: every block from the first one indexed to the checkpoint is in
\* the aggregates, whatever was refused, split, given up or interrupted on
\* the way, unless an endpoint that did not have it yet answered its range.
NoHole ==
  indexFrom # None =>
    \A b \in indexFrom .. checkpoint : applied[b] >= 1 \/ b \in short

\* A block is added to the additive aggregates once, and once more for each
\* batch whose checkpoint write was lost; overlapping ticks and retries add
\* nothing.
CountedOncePerLostMark ==
  \A b \in Block : applied[b] <= 1 + lost

\* index_from, as its readers (the route and sent-history passes) take it, is
\* the first block this database ever indexed, but for a ledger that lost its
\* first checkpoint: backfill and tickOnce then open it again and overwrite
\* the row, and what lies below comes from the batches whose mark was lost.
IndexFromIsFirst ==
  \A b \in Block : applied[b] > 0 => b >= indexFrom \/ b \in orphaned

\* The indexer implements the journal: one contiguous run of blocks, written
\* at most a chunk ahead of a frontier that only moves over written ground.
JournalView ==
  INSTANCE Journal WITH first <- indexFrom, frontier <- checkpoint,
                        written <- {b \in Block : applied[b] > 0} \cup short
ImplementsJournal == JournalView!Spec

\* No stall: once every endpoint has a block, the checkpoint reaches it in
\* the end, although the provider refuses ranges longer than LogCap (as long
\* as Chunk <= LogCap * 2^MaxSplitDepth).
CatchesUp ==
  \A b \in Block : (\A e \in Endpoints : tip[e] >= b) ~> (checkpoint >= b)

\* The claim at nonReentrant: its flag is all that stands between a long
\* catch-up and volume counted twice.
NeverCountedTwice == \A b \in Block : applied[b] <= 1
=============================================================================
