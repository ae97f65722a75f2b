---------------------------- MODULE RouteHistory ----------------------------
(***************************************************************************)
(* The history passes of indexer.js: four re-reads of blocks indexed under *)
(* older rules, run newest block first after each live pass.  'cctp' adds  *)
(* the CCTP share of mints and burns, 'sent' what each address sent,       *)
(* 'reroute' and 'refile' move mints and burns that touched both routes    *)
(* from the filing of older code (v0, v1) to the per-event rule (v2).      *)
(*                                                                         *)
(* All four write additive columns, so a block is abstracted to how often  *)
(* its share was added and to the rule its mixed events are filed under.   *)
(* An instant is the number of the first block at or after it.             *)
(***************************************************************************)
EXTENDS Integers, Sequences

CONSTANTS
  Endpoints,     \* the RPC endpoints tryEndpoints() falls back across
  MaxBlock,      \* bound: the newest block of the chain
  IndexFrom,     \* meta 'index_from'
  CoverageFrom,  \* the first block of the minutes still held
  PerMinute,     \* blocks in a minute
  MaxSpan,       \* CCTP_BACKFILL_SPAN, SENT_SEED_SPAN
  MinSpan,       \* CCTP_MIN_SPAN
  LogCap,        \* the largest range, in blocks, the provider answers
  PrunedTo,      \* bound: an endpoint may forget the blocks below each
  MaxCrashes     \* bound: deaths of the process

ASSUME RouteHistoryAssumption ==
  /\ MaxBlock \in Nat /\ IndexFrom \in 1 .. MaxBlock /\ CoverageFrom \in IndexFrom .. MaxBlock
  /\ PerMinute \in Nat \ {0} /\ (CoverageFrom = IndexFrom \/ CoverageFrom % PerMinute = 0)
  /\ MinSpan \in Nat \ {0} /\ MaxSpan \in Nat /\ LogCap \in Nat
  /\ MinSpan <= MaxSpan /\ MinSpan <= LogCap
  /\ PrunedTo \subseteq 0 .. MaxBlock /\ MaxCrashes \in Nat /\ Endpoints # {}

VARIABLES
  \* on disk
  checkpoint,  \* meta 'checkpoint'
  meta,        \* per pass, its rows of the meta table
  added,       \* per additive pass, how often a block's share was added
  filed,       \* per block, the rule its mixed mints and burns are filed under
  \* in the process
  step,        \* where the tick is: "down", "index" or the pass whose turn it is
  span,        \* cctpSpan, sentSpan, rerouteSpan, refileSpan
  \* around it
  pruned,      \* per endpoint, the block below which it has forgotten all
  crashes,
  torn         \* whether one came between two meta writes that belong together

vars == <<checkpoint, meta, added, filed, step, span, pruned, crashes, torn>>
disk == <<checkpoint, meta, added, filed>>

None == -2      \* an absent row; no key holds this number
Block == IndexFrom .. MaxBlock
Passes == {"cctp", "sent", "reroute", "refile"}
Additive == {"cctp", "sent"}
Keys == {"liveFrom", "hi", "low", "since", "done"}   \* low: cctp's 'from', refile's 'floor'
Rules == {"unread", "v0", "v1", "v2", "mixed up"}

\* Number(db.getMetaValue(key)): an absent row reads as 0.
Num(v) == IF v = None THEN 0 ELSE v
Greater(a, b) == IF a > b THEN a ELSE b
Lesser(a, b) == IF a < b THEN a ELSE b

MinuteOf(b) == (b \div PerMinute) * PerMinute
NextMinute(b) == MinuteOf(b) + PerMinute

Indexed == {b \in Block : b <= checkpoint}
Done(p) == meta[p].done = 1

----------------------------------------------------------------------------
(* What the code before this one left behind.                               *)

NoRows == [k \in Keys |-> None]
FullyRouted == [NoRows EXCEPT !.liveFrom = 0, !.done = 1]

\* The rows of a pass opened when 'open' was the next block, down to 'hi'.
Under(open, low, hi, since) ==
  [NoRows EXCEPT !.liveFrom = open, !.low = low, !.hi = hi, !.since = since]

Left(cp, cctp, reroute, routed(_), rule(_)) ==
  /\ checkpoint = cp
  /\ meta = [p \in Passes |-> CASE p = "cctp" -> cctp [] p = "reroute" -> reroute [] OTHER -> NoRows]
  /\ added = [p \in Additive |-> [b \in Block |-> IF p = "cctp" /\ b <= cp /\ routed(b) THEN 1 ELSE 0]]
  /\ filed = [b \in Block |-> IF b <= cp THEN rule(b) ELSE "unread"]

\* The instant of a CCTP pass that has come down to block lo.
CctpSince_TheMinute(lo, from) == MinuteOf(lo)
CctpSince(lo, from) == IF lo = from THEN MinuteOf(lo) ELSE NextMinute(lo)

NewDatabase == Left(IndexFrom - 1, NoRows, NoRows, LAMBDA b : FALSE, LAMBDA b : "v0")
BeforeCctp(cp) == Left(cp, NoRows, NoRows, LAMBDA b : FALSE, LAMBDA b : "v0")

\* v0: CCTP measured from block 'open', its pass down to 'hi'.
CctpRows(open, hi) ==
  IF hi = open - 1 THEN Under(open, None, None, NextMinute(hi))
  ELSE Under(open, CoverageFrom, hi, CctpSince(hi + 1, CoverageFrom))
GatewayFirst(cp, open, hi) ==
  Left(cp, CctpRows(open, hi), NoRows, LAMBDA b : b > hi, LAMBDA b : "v0")

\* v1: besides, routes corrected per transaction from 'ropen', and down to 'rhi'.
CctpFirst(cp, open, hi, ropen, rhi) ==
  Left(cp, CctpRows(open, hi), Under(ropen, None, rhi, MinuteOf(Lesser(rhi + 1, ropen - 1))),
       LAMBDA b : b > hi, LAMBDA b : IF b > rhi THEN "v1" ELSE "v0")
CctpFirstFromNew(cp) == Left(cp, FullyRouted, FullyRouted, LAMBDA b : TRUE, LAMBDA b : "v1")

Init ==
  /\ \/ NewDatabase
     \/ \E cp \in Block :
          \/ BeforeCctp(cp)
          \/ CctpFirstFromNew(cp)
          \/ \E open \in CoverageFrom + 1 .. cp + 1 : \E hi \in CoverageFrom - 1 .. open - 1 :
               \/ GatewayFirst(cp, open, hi)
               \/ \E ropen \in open .. cp + 1 : \E rhi \in CoverageFrom - 1 .. ropen - 1 :
                    CctpFirst(cp, open, hi, ropen, rhi)
  /\ step = "down"
  /\ span = [p \in Passes |-> MaxSpan]
  /\ pruned = [e \in Endpoints |-> 0]
  /\ crashes = 0
  /\ torn = FALSE

----------------------------------------------------------------------------
(* Boot: the four inits, each a few separate writes.                        *)

Cold == checkpoint < IndexFrom

\* The rows of a pass after each write of its init.  Closed: nothing to re-read.
Closed(p) ==
  LET told == [meta[p] EXCEPT !.liveFrom = 0] IN <<told, [told EXCEPT !.done = 1]>>
Opened(p) == [meta[p] EXCEPT !.liveFrom = checkpoint + 1]
OpenedAt(p) == [Opened(p) EXCEPT !.hi = checkpoint]

InitCctp ==
  IF Cold THEN Closed("cctp")
  ELSE <<Opened("cctp"), [Opened("cctp") EXCEPT !.since = NextMinute(checkpoint)]>>
InitSent ==
  IF Cold THEN Closed("sent")
  ELSE <<Opened("sent"), OpenedAt("sent"), [OpenedAt("sent") EXCEPT !.since = MinuteOf(checkpoint)]>>
InitReroute ==
  IF Cold THEN Closed("reroute")
  ELSE <<Opened("reroute"), OpenedAt("reroute"), [OpenedAt("reroute") EXCEPT !.since = MinuteOf(checkpoint)]>>

\* Where the v1 filing begins.
RefileFloor_OneLower == IF meta["reroute"].liveFrom = 0 THEN IndexFrom ELSE Num(meta["reroute"].hi)
RefileFloor == IF meta["reroute"].liveFrom = 0 THEN IndexFrom ELSE Num(meta["reroute"].hi) + 1
InitRefile ==
  IF Cold \/ meta["reroute"].liveFrom = None THEN Closed("refile")
  ELSE <<Opened("refile"), OpenedAt("refile"), [OpenedAt("refile") EXCEPT !.low = RefileFloor]>>

\* In this order; refile's looks whether the code before left reroute's rows.
InitTurn == [cctp |-> 1, sent |-> 2, refile |-> 3, reroute |-> 4]
Inits(p) ==
  CASE p = "cctp" -> InitCctp [] p = "sent" -> InitSent
    [] p = "refile" -> InitRefile [] p = "reroute" -> InitReroute

Missing(p) == meta[p].liveFrom = None
Booted(p) == IF Missing(p) THEN Inits(p)[Len(Inits(p))] ELSE meta[p]

Boot ==
  /\ step = "down"
  /\ meta' = [p \in Passes |-> Booted(p)]
  /\ step' = "index"
  /\ UNCHANGED <<checkpoint, added, filed, span, pruned, crashes, torn>>

\* The process dies between two of these writes, the last of them for p.
TornBoot ==
  /\ step = "down" /\ crashes < MaxCrashes
  /\ crashes' = crashes + 1 /\ torn' = TRUE
  /\ \E p \in {q \in Passes : Missing(q)} : \E n \in 1 .. Len(Inits(p)) :
       meta' = [q \in Passes |-> IF InitTurn[q] < InitTurn[p] THEN Booted(q)
                                  ELSE IF q = p THEN Inits(p)[n] ELSE meta[q]]
  /\ meta' # [p \in Passes |-> Booted(p)]
  /\ UNCHANGED <<checkpoint, added, filed, step, span, pruned>>

----------------------------------------------------------------------------
(* The tick: the live pass, then each history pass in its turn.             *)

After(p) ==
  CASE p = "index" -> "cctp" [] p = "cctp" -> "sent" [] p = "sent" -> "reroute"
    [] p = "reroute" -> "refile" [] p = "refile" -> "index"

\* processLogs files what it indexes under the per-event rule.
Index ==
  /\ step = "index"
  /\ \E head \in checkpoint .. MaxBlock :
       LET new == checkpoint + 1 .. head
       IN /\ checkpoint' = head
          /\ added' = [p \in Additive |-> [b \in Block |-> IF b \in new THEN added[p][b] + 1 ELSE added[p][b]]]
          /\ filed' = [b \in Block |-> IF b \in new THEN "v2" ELSE filed[b]]
  /\ step' = After("index")
  /\ UNCHANGED <<meta, span, pruned, crashes, torn>>

\* The block a pass has to reach.
Floor(p) ==
  CASE p = "cctp" -> meta["cctp"].low
    [] p = "sent" -> IndexFrom
    [] p = "reroute" -> Greater(Num(meta["cctp"].low), IndexFrom)
    [] p = "refile" -> Num(meta["refile"].low)
Hi(p) == Num(meta[p].hi)
Lo(p) == Greater(Floor(p), Hi(p) - span[p] + 1)

Closing(p) == step = p /\ ~Done(p)
Planned(p) == p = "cctp" => meta["cctp"].low # None
Active(p) == Closing(p) /\ Planned(p) /\ Hi(p) >= Floor(p)

Skip(p) ==
  /\ step = p /\ Done(p)
  /\ step' = After(p)
  /\ UNCHANGED <<disk, span, pruned, crashes, torn>>

\* cctpBackfillStep the first time: two writes, or none when every block was
\* attributed as it was indexed.
PlannedFrom == Lesser(CoverageFrom, meta["cctp"].liveFrom)
Plan ==
  /\ Closing("cctp") /\ ~Planned("cctp")
  /\ meta' = IF meta["cctp"].liveFrom = 0 THEN [meta EXCEPT !["cctp"].done = 1]
             ELSE [meta EXCEPT !["cctp"].low = PlannedFrom, !["cctp"].hi = meta["cctp"].liveFrom - 1]
  /\ UNCHANGED <<checkpoint, added, filed, step, span, pruned, crashes, torn>>

\* Locating its first block takes reads of its own.
PlanFails ==
  /\ Closing("cctp") /\ ~Planned("cctp") /\ meta["cctp"].liveFrom # 0
  /\ step' = After("cctp")
  /\ UNCHANGED <<disk, span, pruned, crashes, torn>>

TornPlan ==
  /\ Closing("cctp") /\ ~Planned("cctp") /\ meta["cctp"].liveFrom # 0
  /\ crashes < MaxCrashes
  /\ crashes' = crashes + 1 /\ torn' = TRUE
  /\ meta' = [meta EXCEPT !["cctp"].low = PlannedFrom]
  /\ step' = "down"
  /\ span' = [q \in Passes |-> MaxSpan]
  /\ UNCHANGED <<checkpoint, added, filed, pruned>>

\* getBridgeLogsRange builds its clock from two boundary headers and refuses
\* a range whose two ends are one block; the sent seed reads one header.
HasClock(p) == p = "sent" \/ Lo(p) < Hi(p)
Serves(e, p) == pruned[e] <= Lo(p)
Served(p) == \E e \in Endpoints : Serves(e, p)
Readable(p) == Served(p) /\ Hi(p) - Lo(p) < LogCap /\ HasClock(p)

\* The oldest instant the pass reaches once it has come down to Lo(p).
SinceOf(p) ==
  CASE p = "cctp" -> CctpSince(Lo(p), Floor("cctp"))
    [] p = "sent" -> Lo(p)
    [] p = "reroute" -> MinuteOf(Lo(p))
    [] p = "refile" -> None

\* The deltas of refileDeltas, right only for what was filed as it expects.
Refiled(p, rule) == IF rule = (IF p = "reroute" THEN "v0" ELSE "v1") THEN "v2" ELSE "mixed up"

\* The progress committed in the transaction of the chunk.
Progress(p) == Lo(p) - 1

\* A chunk is read and applied; the budget may or may not allow another.
Chunk(p) ==
  /\ Active(p) /\ Readable(p)
  /\ LET blocks == Lo(p) .. Hi(p)
     IN /\ added' = IF p \notin Additive THEN added
                    ELSE [added EXCEPT ![p] = [b \in Block |-> IF b \in blocks THEN @[b] + 1 ELSE @[b]]]
        /\ filed' = IF p \in Additive THEN filed
                    ELSE [b \in Block |-> IF b \in blocks THEN Refiled(p, filed[b]) ELSE filed[b]]
  /\ meta' = [meta EXCEPT ![p].hi = Progress(p), ![p].since = SinceOf(p)]
  /\ span' = [span EXCEPT ![p] = Lesser(MaxSpan, 2 * @)]
  /\ \/ step' = p
     \/ Progress(p) >= Floor(p) /\ step' = After(p)
  /\ UNCHANGED <<checkpoint, pruned, crashes, torn>>

Narrowed_NotOfRefile(p) == IF p = "refile" THEN span[p] ELSE Greater(MinSpan, span[p] \div 2)
Narrowed(p) == Greater(MinSpan, span[p] \div 2)

\* The read fails: refused for now, too large, pruned, or without its clock.
Refused(p) ==
  /\ Active(p)
  /\ span' = [span EXCEPT ![p] = Narrowed(p)]
  /\ step' = After(p)
  /\ UNCHANGED <<disk, pruned, crashes, torn>>

\* historyPruned: when every endpoint fails, for one of them to say that the
\* blocks are gone ends the pass, though another is only busy; but no refusal
\* of another kind does, and only at the smallest span.
SaidPruned(p) == \E e \in Endpoints : ~Serves(e, p)
MayEnd_AtAnySpan(p) == SaidPruned(p)
MayEnd(p) == span[p] <= MinSpan /\ SaidPruned(p)
Exhausted(p) ==
  /\ Active(p) /\ MayEnd(p)
  /\ meta' = [meta EXCEPT ![p].done = 1]
  /\ step' = After(p)
  /\ UNCHANGED <<checkpoint, added, filed, span, pruned, crashes, torn>>

Finish(p) ==
  /\ Closing(p) /\ Planned(p) /\ Hi(p) < Floor(p)
  /\ meta' = [meta EXCEPT ![p].done = 1]
  /\ step' = After(p)
  /\ UNCHANGED <<checkpoint, added, filed, span, pruned, crashes, torn>>

Crash ==
  /\ step # "down" /\ crashes < MaxCrashes
  /\ crashes' = crashes + 1
  /\ step' = "down"
  /\ span' = [p \in Passes |-> MaxSpan]
  /\ UNCHANGED <<disk, pruned, torn>>

\* An endpoint forgets old blocks.
Prune ==
  /\ \E e \in Endpoints, n \in PrunedTo :
       pruned[e] < n /\ pruned' = [pruned EXCEPT ![e] = n]
  /\ UNCHANGED <<disk, step, span, crashes, torn>>

Turn(p) == Skip(p) \/ Chunk(p) \/ Refused(p) \/ Exhausted(p) \/ Finish(p)
Tick == Boot \/ Index \/ Plan \/ PlanFails \/ \E p \in Passes : Turn(p)
Next == Tick \/ TornBoot \/ TornPlan \/ Crash \/ Prune

\* The timer goes on.  What a pass asks for again and again it gets in the end:
\* the blocks where its plan begins, a chunk that some endpoint has, or, when
\* none has it any longer, the word that it is pruned.
Gets(p) ==
  \/ p = "cctp" /\ Plan
  \/ Chunk(p)
  \/ Exhausted(p) /\ ~Served(p)
Fairness == WF_vars(Tick) /\ \A p \in Passes : SF_vars(Gets(p))
Spec == Init /\ [][Next]_vars /\ Fairness

----------------------------------------------------------------------------
(* Properties.                                                              *)

Covered == {b \in Indexed : b >= CoverageFrom}
Behind(p, b) == Planned(p) /\ meta[p].hi # None /\ b > meta[p].hi /\ b >= Floor(p)

\* A block's share is in the aggregates exactly once if it was indexed after
\* the pass was opened or the pass has come past it, and not at all otherwise,
\* wherever the process died: between two writes of a boot or a plan too.
AddedExactlyOnce ==
  \A p \in Additive : meta[p].liveFrom # None =>
    \A b \in Indexed :
      added[p][b] = IF b >= meta[p].liveFrom \/ Behind(p, b) THEN 1 ELSE 0

\* No block's mixed events are moved twice, or by the deltas of a filing they
\* did not have, whatever code left the database behind and whichever of the
\* passes reaches them first, unless a boot was cut short between its writes.
NothingMovedTwice == ~torn => \A b \in Block : filed[b] # "mixed up"

\* No pass counts or moves a block's share again.
NothingTwice == AddedExactlyOnce /\ NothingMovedTwice

\* cctpView's measuredSince: every mint and burn from that instant on carries
\* its route, unless a boot or a plan was cut short.
MeasuredSince ==
  IF meta["cctp"].since # None THEN meta["cctp"].since ELSE IF Done("cctp") THEN CoverageFrom ELSE None
MeasuredSinceIsHonest ==
  ~torn /\ step # "down" /\ MeasuredSince # None =>
    \A b \in Covered : b >= MeasuredSince => added["cctp"][b] = 1

\* What a pass is done with, it has re-read, so far as every endpoint still
\* has it: it gives up blocks on the word of one endpoint that says they are
\* pruned, though another may serve them, and fewer than MinSpan others with
\* them; never on refusals.  Unless a boot or a plan was cut short: a pass
\* without its 'hi' closes at once.
HeldByAll(b) == \A e \in Endpoints : pruned[e] = 0 \/ b > pruned[e] + MinSpan - 2
ReRead(p, b) == IF p \in Additive THEN added[p][b] > 0 ELSE filed[b] # (IF p = "reroute" THEN "v0" ELSE "v1")
GivesUpOnlyWhatOneHasDropped ==
  ~torn => \A p \in Passes : Done(p) => \A b \in Covered : HeldByAll(b) => ReRead(p, b)

\* Every pass is done in the end, or comes down to a last chunk of a single
\* block, which has no clock; but for a refile pass whose boot was cut short
\* before its 'hi', which asks for block 0 alone.
OneBlockLeft(p) == p # "sent" /\ meta[p].hi # None /\ Planned(p) /\ meta[p].hi = Floor(p)
CutShort(p) == torn /\ p = "refile" /\ meta[p].liveFrom # None /\ meta[p].hi = None
PassesEnd == \A p \in Passes : <>(Done(p) \/ OneBlockLeft(p) \/ CutShort(p))
=============================================================================
