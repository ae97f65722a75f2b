------------------------- MODULE RouteHistoryProofs -------------------------
(***************************************************************************)
(* Proofs about RouteHistory for every chain, coverage, span and range     *)
(* limit, any databases older code may have left, and any number of        *)
(* deaths.  None of the properties is inductive.  What carries them: the   *)
(* rows of a pass, read through absent ones, never contradict each other,  *)
(* and 'hi' and the floor of reroute and refile say exactly which blocks   *)
(* are still filed under which older rule.                                 *)
(***************************************************************************)
EXTENDS RouteHistory, TLAPS

RouteType ==
  /\ checkpoint \in IndexFrom - 1 .. MaxBlock
  /\ meta \in [Passes -> [Keys -> Int]]
  /\ added \in [Additive -> [Block -> Nat]]
  /\ filed \in [Block -> Rules]
  /\ step \in Passes \cup {"down", "index"}
  /\ span \in [Passes -> Nat \ {0}]
  /\ pruned \in [Endpoints -> Nat]
  /\ torn \in BOOLEAN

\* The rows of one pass, wherever the process died between its writes.
RowsFit(p) ==
  /\ meta[p].liveFrom \in {None, 0} \cup IndexFrom .. checkpoint + 1
  /\ meta[p].hi \in {None} \cup -1 .. checkpoint
  /\ meta[p].hi # None => meta[p].liveFrom >= IndexFrom /\ meta[p].hi < meta[p].liveFrom
  /\ meta[p].low = None \/ meta[p].low >= 0
  /\ meta[p].done \in {None, 1}
  /\ meta[p].liveFrom = None =>
       /\ step = "down"
       /\ meta[p].low = None /\ meta[p].hi = None /\ meta[p].since = None /\ meta[p].done = None
  /\ p = "cctp" /\ meta[p].low # None =>
       /\ meta[p].liveFrom >= IndexFrom /\ meta[p].low <= meta[p].liveFrom
       /\ IndexFrom <= meta[p].low /\ meta[p].low <= CoverageFrom
  /\ p = "cctp" /\ meta[p].hi # None => meta[p].low # None
AllRowsFit == \A p \in Passes : RowsFit(p)

\* What the rows of a pass hold besides, unless a boot or a plan was cut short.
RowsAreWhole(p) ==
  /\ meta[p].liveFrom = 0 => meta[p].done = 1
  /\ p # "cctp" /\ meta[p].liveFrom >= IndexFrom => meta[p].hi # None
  /\ p = "cctp" /\ meta[p].low # None => meta[p].hi # None
  /\ p = "cctp" /\ meta[p].liveFrom >= IndexFrom => meta[p].since >= 0
  /\ p = "refile" /\ meta[p].liveFrom >= IndexFrom => meta[p].low # None
AllRowsWhole == ~torn => \A p \in Passes : RowsAreWhole(p)

\* What is not indexed has not been touched, and what no pass was opened for
\* has no share of it.
UnreadIsUntouched ==
  \A b \in Block :
    /\ b > checkpoint => filed[b] = "unread" /\ \A p \in Additive : added[p][b] = 0
    /\ \A p \in Additive : meta[p].liveFrom = None => added[p][b] = 0

\* The rows say which blocks are still filed under v0, and which under v1.
FiledAsTheRowsSay ==
  ~torn =>
    /\ meta["reroute"].liveFrom = None => meta["refile"].liveFrom = None
    /\ \A b \in Indexed :
         /\ filed[b] \in {"v0", "v1", "v2"}
         /\ meta["reroute"].liveFrom = None => filed[b] = "v0"
         /\ meta["reroute"].liveFrom # None => (filed[b] = "v0" <=> b <= Num(meta["reroute"].hi))
         /\ meta["refile"].liveFrom = None => filed[b] # "v2"
         /\ meta["refile"].liveFrom # None =>
              (filed[b] = "v1" <=> Num(meta["refile"].low) <= b /\ b <= Num(meta["refile"].hi))

\* From 'since' on, every block is past the pass or was indexed after it opened.
SinceIsReached ==
  ~torn /\ meta["cctp"].liveFrom >= IndexFrom =>
    \A b \in Block : b >= CoverageFrom /\ b >= meta["cctp"].since =>
      b >= meta["cctp"].liveFrom \/ Behind("cctp", b)

RouteInv ==
  /\ RouteType
  /\ AllRowsFit
  /\ AllRowsWhole
  /\ UnreadIsUntouched
  /\ FiledAsTheRowsSay
  /\ SinceIsReached
  /\ AddedExactlyOnce
  /\ GivesUpOnlyWhatOneHasDropped

----------------------------------------------------------------------------
(* Numbers: minutes and the clock of a block.                               *)

\* A block's minute begins no later than it, and the next one after it.
LEMMA MinuteAround ==
  ASSUME NEW b \in Nat
  PROVE  MinuteOf(b) \in Nat /\ MinuteOf(b) <= b /\ b < NextMinute(b)
<1> DEFINE k == PerMinute
<1>1. k \in Nat /\ k > 0
  BY RouteHistoryAssumption
<1>2. b = k * (b \div k) + (b % k) /\ b % k \in 0 .. k - 1 /\ b \div k \in Int
  BY <1>1
<1>3. b \div k >= 0
  BY <1>1
<1>4. (b \div k) * k = k * (b \div k)
  BY <1>2, <1>1
<1>5. (b \div k) * k \in Int
  BY <1>2, <1>1
<1>6. (b \div k) * k >= 0
  BY <1>1, <1>2, <1>3
<1> QED
  BY <1>1, <1>2, <1>4, <1>5, <1>6 DEF MinuteOf, NextMinute

\* What the constants are, in the form the provers use.
LEMMA Bounds ==
  /\ MaxBlock \in Nat /\ IndexFrom \in Nat /\ CoverageFrom \in Nat
  /\ 1 <= IndexFrom /\ IndexFrom <= CoverageFrom /\ CoverageFrom <= MaxBlock
  /\ PerMinute \in Nat /\ MinSpan \in Nat /\ 1 <= MinSpan
  /\ MaxSpan \in Nat /\ MinSpan <= MaxSpan /\ LogCap \in Nat
BY RouteHistoryAssumption

\* A pass's rows and its share, one at a time.
LEMMA RowsTyped ==
  ASSUME RouteType, NEW p \in Passes
  PROVE  /\ meta[p] \in [Keys -> Int]
         /\ \A k \in Keys : meta[p][k] \in Int
         /\ meta[p].liveFrom \in Int /\ meta[p].hi \in Int /\ meta[p].low \in Int
         /\ meta[p].since \in Int /\ meta[p].done \in Int
         /\ span[p] \in Nat /\ span[p] >= 1
BY DEF RouteType, Keys

----------------------------------------------------------------------------
(* Every database the code before may have left.                            *)

\* The rows of a pass as Under and NoRows spell them.
RowsAre(rows, open, low, hi, since, done) ==
  /\ rows \in [Keys -> Int]
  /\ rows.liveFrom = open /\ rows.low = low /\ rows.hi = hi
  /\ rows.since = since /\ rows.done = done

\* The rows older code leaves, key by key.
LEMMA RowsSpelt ==
  /\ RowsAre(NoRows, None, None, None, None, None)
  /\ RowsAre(FullyRouted, 0, None, None, None, 1)
  /\ \A open, low, hi, since \in Int :
       RowsAre(Under(open, low, hi, since), open, low, hi, since, None)
<1>1. RowsAre(NoRows, None, None, None, None, None)
  BY DEF RowsAre, NoRows, Keys, None
<1>2. /\ NoRows \in [Keys -> Int] /\ -2 \in Int
      /\ "liveFrom" \in Keys /\ "low" \in Keys /\ "hi" \in Keys /\ "since" \in Keys /\ "done" \in Keys
  BY <1>1 DEF RowsAre, Keys
<1>3. RowsAre(FullyRouted, 0, None, None, None, 1)
  <2>1. FullyRouted \in [Keys -> Int]
    <3>1. \A r \in [Keys -> Int] : \A v, w \in Int : [r EXCEPT !.liveFrom = v, !.done = w] \in [Keys -> Int]
      BY <1>2
    <3> DEFINE closed(v, w) == [NoRows EXCEPT !.liveFrom = v, !.done = w]
    <3>2. \A v, w \in Int : closed(v, w) \in [Keys -> Int]
      BY <1>2, <3>1
    <3>3. FullyRouted = closed(0, 1)
      BY DEF FullyRouted
    <3> HIDE DEF closed
    <3> QED
      BY <3>2, <3>3
  <2>2. FullyRouted.liveFrom = 0 /\ FullyRouted.done = 1
    BY <1>2 DEF FullyRouted
  <2>3. FullyRouted.low = NoRows.low /\ FullyRouted.hi = NoRows.hi /\ FullyRouted.since = NoRows.since
    BY <1>2 DEF FullyRouted
  <2> QED
    BY <1>1, <2>1, <2>2, <2>3 DEF RowsAre
<1>4. ASSUME NEW open \in Int, NEW low \in Int, NEW hi \in Int, NEW since \in Int
      PROVE  RowsAre(Under(open, low, hi, since), open, low, hi, since, None)
  BY <1>1, <1>2 DEF RowsAre, Under
<1> QED
  BY <1>1, <1>3, <1>4

\* The rows of a CCTP pass that older code had brought down to 'hi'.
LEMMA CctpRowsLeft ==
  ASSUME NEW open \in CoverageFrom + 1 .. MaxBlock + 1, NEW hi \in CoverageFrom - 1 .. open - 1
  PROVE  LET rows == CctpRows(open, hi)
         IN /\ rows \in [Keys -> Int]
            /\ rows.liveFrom = open /\ rows.done = None
            /\ \/ hi = open - 1 /\ rows.low = None /\ rows.hi = None
               \/ rows.low = CoverageFrom /\ rows.hi = hi
            /\ rows.since >= 0
            /\ \A b \in Block : b >= CoverageFrom /\ b >= rows.since => b > hi
<1>1. /\ open \in Nat /\ hi \in Nat /\ hi < open /\ open > CoverageFrom /\ hi + 1 >= CoverageFrom
  BY Bounds
<1>2. \A b \in Nat : MinuteOf(b) \in Nat /\ MinuteOf(b) <= b /\ NextMinute(b) \in Nat /\ b < NextMinute(b)
  BY MinuteAround, Bounds DEF NextMinute
<1>3. /\ MinuteOf(hi + 1) \in Nat /\ NextMinute(hi + 1) \in Nat /\ NextMinute(hi + 1) > hi + 1
      /\ NextMinute(hi) \in Nat /\ NextMinute(hi) > hi
  BY <1>1, <1>2
<1>4. \A b \in Block : b \in Int
  BY Bounds DEF Block
<1>5. CASE hi = open - 1
  <2>1. CctpRows(open, hi) = Under(open, None, None, NextMinute(hi))
    BY <1>5 DEF CctpRows
  <2>2. open \in Int /\ None \in Int /\ NextMinute(hi) \in Int
    BY <1>1, <1>3 DEF None
  <2>3. RowsAre(CctpRows(open, hi), open, None, None, NextMinute(hi), None)
    BY <2>1, <2>2, RowsSpelt
  <2> QED
    BY <2>3, <1>1, <1>3, <1>4, <1>5 DEF RowsAre
<1>6. CASE hi # open - 1
  <2> DEFINE since == CctpSince(hi + 1, CoverageFrom)
  <2>1. CctpRows(open, hi) = Under(open, CoverageFrom, hi, since)
    BY <1>6 DEF CctpRows
  <2>2. /\ since \in Nat
        /\ \A b \in Block : b >= CoverageFrom /\ b >= since => b > hi
    BY <1>1, <1>3, <1>4, Bounds DEF CctpSince
  <2> HIDE DEF since
  <2>3. RowsAre(CctpRows(open, hi), open, CoverageFrom, hi, since, None)
    BY <2>1, <1>1, <2>2, Bounds, RowsSpelt
  <2> QED
    BY <2>2, <2>3, <1>1 DEF RowsAre
<1> QED
  BY <1>5, <1>6

\* What older code did to the blocks: CCTP measured above chi, routes corrected
\* per transaction above rhi.
LeftAt(chi, rhi) ==
  /\ meta \in [Passes -> [Keys -> Int]]
  /\ added \in [Additive -> [Block -> Nat]]
  /\ filed \in [Block -> Rules]
  /\ meta["sent"] = NoRows /\ meta["refile"] = NoRows
  /\ \A b \in Block :
       /\ added["cctp"][b] = IF b <= checkpoint /\ b > chi THEN 1 ELSE 0
       /\ added["sent"][b] = 0
       /\ filed[b] = IF b > checkpoint THEN "unread" ELSE IF b <= rhi THEN "v0" ELSE "v1"

\* The cases of Init, with what each says of CCTP ...
CctpLeft(chi) ==
  \/ meta["cctp"] = NoRows /\ chi = checkpoint
  \/ meta["cctp"] = FullyRouted /\ chi = 0
  \/ \E open \in CoverageFrom + 1 .. checkpoint + 1 : \E hi \in CoverageFrom - 1 .. open - 1 :
       meta["cctp"] = CctpRows(open, hi) /\ chi = hi

\* ... and of the filing.
FilingLeft(rhi) ==
  \/ meta["reroute"] = NoRows /\ rhi = checkpoint
  \/ meta["reroute"] = FullyRouted /\ rhi = 0
  \/ \E open \in CoverageFrom + 1 .. checkpoint + 1 : \E since \in Int :
       /\ rhi \in CoverageFrom - 1 .. open - 1
       /\ meta["reroute"] = Under(open, None, rhi, since)

\* The databases older code leaves, in the form the proof needs.
LEMMA InitCases ==
  ASSUME Init
  PROVE  /\ checkpoint \in IndexFrom - 1 .. MaxBlock
         /\ \E chi, rhi \in Int : LeftAt(chi, rhi) /\ CctpLeft(chi) /\ FilingLeft(rhi)
<1> USE DEF Passes, Additive, Rules
<1>1. NoRows \in [Keys -> Int] /\ FullyRouted \in [Keys -> Int]
  BY RowsSpelt DEF RowsAre
<1>2. \A b \in Block : b \in Int /\ b >= IndexFrom /\ b > 0
  BY Bounds DEF Block
<1>3. CASE NewDatabase
  <2>1. checkpoint = IndexFrom - 1 /\ checkpoint \in IndexFrom - 1 .. MaxBlock /\ checkpoint \in Int
    BY <1>3, Bounds DEF NewDatabase, Left
  <2>2. /\ meta = [p \in Passes |-> CASE p = "cctp" -> NoRows [] p = "reroute" -> NoRows [] OTHER -> NoRows]
        /\ added = [p \in Additive |-> [b \in Block |-> 0]]
        /\ filed = [b \in Block |-> IF b <= checkpoint THEN "v0" ELSE "unread"]
    BY <1>3 DEF NewDatabase, Left
  <2>3. LeftAt(checkpoint, checkpoint)
    BY <1>1, <1>2, <2>1, <2>2 DEF LeftAt
  <2>4. CctpLeft(checkpoint) /\ FilingLeft(checkpoint)
    BY <2>2 DEF CctpLeft, FilingLeft
  <2> QED
    BY <2>1, <2>3, <2>4
<1>4. ASSUME NEW cp \in Block, BeforeCctp(cp)
      PROVE  /\ checkpoint = cp
             /\ LeftAt(checkpoint, checkpoint) /\ CctpLeft(checkpoint) /\ FilingLeft(checkpoint)
  <2>1. /\ checkpoint = cp
        /\ meta = [p \in Passes |-> CASE p = "cctp" -> NoRows [] p = "reroute" -> NoRows [] OTHER -> NoRows]
        /\ added = [p \in Additive |-> [b \in Block |-> 0]]
        /\ filed = [b \in Block |-> IF b <= checkpoint THEN "v0" ELSE "unread"]
    BY <1>4 DEF BeforeCctp, Left
  <2>2. LeftAt(checkpoint, checkpoint)
    BY <1>1, <1>2, <2>1 DEF LeftAt
  <2> QED
    BY <2>1, <2>2 DEF CctpLeft, FilingLeft
<1>5. ASSUME NEW cp \in Block, CctpFirstFromNew(cp)
      PROVE  /\ checkpoint = cp
             /\ LeftAt(0, 0) /\ CctpLeft(0) /\ FilingLeft(0)
  <2>1. /\ checkpoint = cp
        /\ meta = [p \in Passes |-> CASE p = "cctp" -> FullyRouted [] p = "reroute" -> FullyRouted [] OTHER -> NoRows]
        /\ added = [p \in Additive |-> [b \in Block |-> IF p = "cctp" /\ b <= cp THEN 1 ELSE 0]]
        /\ filed = [b \in Block |-> IF b <= checkpoint THEN "v1" ELSE "unread"]
    BY <1>5 DEF CctpFirstFromNew, Left
  <2>2. LeftAt(0, 0)
    BY <1>1, <1>2, <2>1 DEF LeftAt
  <2> QED
    BY <2>1, <2>2 DEF CctpLeft, FilingLeft
<1>6. ASSUME NEW cp \in Block, NEW open \in CoverageFrom + 1 .. cp + 1,
             NEW hi \in CoverageFrom - 1 .. open - 1
      PROVE  /\ hi \in Int /\ cp \in Int /\ CctpRows(open, hi) \in [Keys -> Int]
  <2>1. open \in CoverageFrom + 1 .. MaxBlock + 1 /\ hi \in Int /\ cp \in Int
    BY <1>6, Bounds DEF Block
  <2> QED
    BY <2>1, CctpRowsLeft
<1>7. ASSUME NEW cp \in Block, NEW open \in CoverageFrom + 1 .. cp + 1,
             NEW hi \in CoverageFrom - 1 .. open - 1, GatewayFirst(cp, open, hi)
      PROVE  /\ checkpoint = cp
             /\ LeftAt(hi, checkpoint) /\ CctpLeft(hi) /\ FilingLeft(checkpoint)
  <2>1. /\ checkpoint = cp
        /\ meta = [p \in Passes |-> CASE p = "cctp" -> CctpRows(open, hi) [] p = "reroute" -> NoRows [] OTHER -> NoRows]
        /\ added = [p \in Additive |-> [b \in Block |-> IF p = "cctp" /\ b <= cp /\ b > hi THEN 1 ELSE 0]]
        /\ filed = [b \in Block |-> IF b <= checkpoint THEN "v0" ELSE "unread"]
    BY <1>7 DEF GatewayFirst, Left
  <2>2. hi \in Int /\ cp \in Int /\ CctpRows(open, hi) \in [Keys -> Int]
    BY <1>6
  <2>3. LeftAt(hi, checkpoint)
    BY <1>1, <1>2, <2>1, <2>2 DEF LeftAt
  <2>4. CctpLeft(hi) /\ FilingLeft(checkpoint)
    BY <2>1 DEF CctpLeft, FilingLeft
  <2> QED
    BY <2>1, <2>3, <2>4
<1>8. ASSUME NEW cp \in Block, NEW open \in CoverageFrom + 1 .. cp + 1,
             NEW hi \in CoverageFrom - 1 .. open - 1,
             NEW ropen \in open .. cp + 1, NEW rhi \in CoverageFrom - 1 .. ropen - 1,
             CctpFirst(cp, open, hi, ropen, rhi)
      PROVE  /\ checkpoint = cp /\ rhi \in Int
             /\ LeftAt(hi, rhi) /\ CctpLeft(hi) /\ FilingLeft(rhi)
  <2> DEFINE since == MinuteOf(Lesser(rhi + 1, ropen - 1))
             rrows == Under(ropen, None, rhi, since)
  <2>1. /\ checkpoint = cp
        /\ meta = [p \in Passes |-> CASE p = "cctp" -> CctpRows(open, hi) [] p = "reroute" -> rrows [] OTHER -> NoRows]
        /\ added = [p \in Additive |-> [b \in Block |-> IF p = "cctp" /\ b <= cp /\ b > hi THEN 1 ELSE 0]]
        /\ filed = [b \in Block |-> IF b <= checkpoint THEN IF b > rhi THEN "v1" ELSE "v0" ELSE "unread"]
    BY <1>8 DEF CctpFirst, Left
  <2>2. hi \in Int /\ cp \in Int /\ CctpRows(open, hi) \in [Keys -> Int]
    BY <1>6
  <2>3. /\ ropen \in CoverageFrom + 1 .. cp + 1 /\ ropen \in Int /\ rhi \in Int /\ None \in Int
        /\ Lesser(rhi + 1, ropen - 1) \in Nat
    BY <1>8, Bounds DEF Block, Lesser, None
  <2>4. since \in Int
    BY <2>3, MinuteAround
  <2> HIDE DEF since
  <2>5. rrows \in [Keys -> Int]
    BY <2>3, <2>4, RowsSpelt DEF RowsAre
  <2>6. FilingLeft(rhi)
    <3>1. meta["reroute"] = rrows
      BY <2>1
    <3> QED
      BY <2>1, <2>3, <2>4, <3>1 DEF FilingLeft
  <2> HIDE DEF rrows
  <2>7. LeftAt(hi, rhi)
    BY <1>1, <1>2, <2>1, <2>2, <2>3, <2>5 DEF LeftAt
  <2>8. CctpLeft(hi)
    BY <2>1 DEF CctpLeft
  <2> QED
    BY <2>1, <2>3, <2>6, <2>7, <2>8
<1>9. CASE \E cp \in Block :
             \/ BeforeCctp(cp) \/ CctpFirstFromNew(cp)
             \/ \E open \in CoverageFrom + 1 .. cp + 1 : \E hi \in CoverageFrom - 1 .. open - 1 :
                  \/ GatewayFirst(cp, open, hi)
                  \/ \E ropen \in open .. cp + 1 : \E rhi \in CoverageFrom - 1 .. ropen - 1 :
                       CctpFirst(cp, open, hi, ropen, rhi)
  <2>1. \A cp \in Block : cp \in Int /\ cp \in IndexFrom - 1 .. MaxBlock /\ 0 \in Int
    BY Bounds DEF Block
  <2>2. PICK cp \in Block :
             \/ BeforeCctp(cp) \/ CctpFirstFromNew(cp)
             \/ \E open \in CoverageFrom + 1 .. cp + 1 : \E hi \in CoverageFrom - 1 .. open - 1 :
                  \/ GatewayFirst(cp, open, hi)
                  \/ \E ropen \in open .. cp + 1 : \E rhi \in CoverageFrom - 1 .. ropen - 1 :
                       CctpFirst(cp, open, hi, ropen, rhi)
    BY <1>9
  <2>3. CASE BeforeCctp(cp)
    BY <2>1, <2>3, <1>4
  <2>4. CASE CctpFirstFromNew(cp)
    BY <2>1, <2>4, <1>5
  <2>5. CASE \E open \in CoverageFrom + 1 .. cp + 1 : \E hi \in CoverageFrom - 1 .. open - 1 :
               GatewayFirst(cp, open, hi)
    BY <2>1, <2>5, <1>6, <1>7
  <2>6. CASE \E open \in CoverageFrom + 1 .. cp + 1 : \E hi \in CoverageFrom - 1 .. open - 1 :
               \E ropen \in open .. cp + 1 : \E rhi \in CoverageFrom - 1 .. ropen - 1 :
                 CctpFirst(cp, open, hi, ropen, rhi)
    BY <2>1, <2>6, <1>6, <1>8
  <2> QED
    BY <2>2, <2>3, <2>4, <2>5, <2>6
<1> QED
  BY <1>3, <1>9 DEF Init

\* The invariant holds of every one of them.
LEMMA InitInv == Init => RouteInv
<1> SUFFICES ASSUME Init PROVE RouteInv
  OBVIOUS
<1> USE DEF Passes, Additive
<1>1. /\ step = "down" /\ pruned = [e \in Endpoints |-> 0] /\ torn = FALSE /\ span \in [Passes -> Nat \ {0}]
      /\ checkpoint \in IndexFrom - 1 .. MaxBlock /\ checkpoint \in Int
  <2>1. checkpoint \in IndexFrom - 1 .. MaxBlock
    BY InitCases
  <2>2. step = "down" /\ pruned = [e \in Endpoints |-> 0] /\ torn = FALSE /\ span = [p \in Passes |-> MaxSpan]
    BY DEF Init
  <2> QED
    BY <2>1, <2>2, Bounds
<1>2. PICK chi \in Int, rhi \in Int : LeftAt(chi, rhi) /\ CctpLeft(chi) /\ FilingLeft(rhi)
  BY InitCases
<1>3. RouteType
  BY <1>1, <1>2 DEF LeftAt, RouteType
<1>4. \A b \in Block : b \in Int /\ b >= IndexFrom /\ b > 0
  BY Bounds DEF Block
<1>5. RowsAre(NoRows, None, None, None, None, None) /\ RowsAre(FullyRouted, 0, None, None, None, 1)
  BY RowsSpelt
<1>6. /\ RowsAre(meta["sent"], None, None, None, None, None)
      /\ RowsAre(meta["refile"], None, None, None, None, None)
  BY <1>2, <1>5 DEF LeftAt
<1>7. /\ RowsFit("sent") /\ RowsFit("refile")
      /\ RowsAreWhole("sent") /\ RowsAreWhole("refile")
  BY <1>1, <1>6, Bounds DEF RowsAre, RowsFit, RowsAreWhole, None
<1> DEFINE
      CctpFits ==
        /\ RowsFit("cctp") /\ RowsAreWhole("cctp")
        /\ meta["cctp"].liveFrom = None => chi = checkpoint
        /\ meta["cctp"].done = None \/ meta["cctp"].liveFrom = 0
        /\ meta["cctp"].liveFrom # None =>
             \A b \in Indexed : b > chi <=> b >= meta["cctp"].liveFrom \/ Behind("cctp", b)
        /\ SinceIsReached
      FilingFits ==
        /\ RowsFit("reroute") /\ RowsAreWhole("reroute")
        /\ meta["reroute"].liveFrom = None => rhi = checkpoint
        /\ meta["reroute"].done = None \/ meta["reroute"].liveFrom = 0
        /\ meta["reroute"].liveFrom # None => rhi = Num(meta["reroute"].hi)
<1>8. CctpFits
  <2>1. CASE meta["cctp"] = NoRows /\ chi = checkpoint
    BY <1>1, <1>5, <2>1, Bounds DEF RowsAre, RowsFit, RowsAreWhole, None, SinceIsReached
  <2>2. CASE meta["cctp"] = FullyRouted /\ chi = 0
    BY <1>1, <1>4, <1>5, <2>2, Bounds DEF RowsAre, RowsFit, RowsAreWhole, None, SinceIsReached, Indexed
  <2>3. ASSUME NEW open \in CoverageFrom + 1 .. checkpoint + 1, NEW hi \in CoverageFrom - 1 .. open - 1,
               meta["cctp"] = CctpRows(open, hi), chi = hi
        PROVE  CctpFits
    <3>1. open \in CoverageFrom + 1 .. MaxBlock + 1 /\ open \in Int /\ hi \in Int
      BY <1>1, Bounds
    <3> DEFINE row == meta["cctp"]
    <3>2. /\ row \in [Keys -> Int]
          /\ row.liveFrom = open /\ row.done = None
          /\ \/ hi = open - 1 /\ row.low = None /\ row.hi = None
             \/ row.low = CoverageFrom /\ row.hi = hi
          /\ row.since >= 0 /\ row.since \in Int
          /\ \A b \in Block : b >= CoverageFrom /\ b >= row.since => b > hi
      BY <2>3, <3>1, CctpRowsLeft DEF Keys
    <3>3. RowsFit("cctp") /\ RowsAreWhole("cctp") /\ row.liveFrom # None
      BY <1>1, <3>1, <3>2, Bounds DEF RowsFit, RowsAreWhole, None
    <3>4. \A b \in Block : b > hi <=> b >= row.liveFrom \/ (Planned("cctp") /\ row.hi # None /\ b > row.hi)
      BY <1>4, <3>1, <3>2, Bounds DEF Planned, None
    <3>5. \A b \in Block : Behind("cctp", b) <=> Planned("cctp") /\ row.hi # None /\ b > row.hi
      BY <1>4, <3>1, <3>2, Bounds DEF Planned, Behind, Floor, None
    <3> QED
      BY <2>3, <3>2, <3>3, <3>4, <3>5 DEF SinceIsReached, Indexed
  <2> QED
    BY <1>2, <2>1, <2>2, <2>3 DEF CctpLeft
<1>9. FilingFits
  <2>1. CASE meta["reroute"] = NoRows /\ rhi = checkpoint
    BY <1>1, <1>5, <2>1, Bounds DEF RowsAre, RowsFit, RowsAreWhole, None
  <2>2. CASE meta["reroute"] = FullyRouted /\ rhi = 0
    BY <1>1, <1>4, <1>5, <2>2, Bounds DEF RowsAre, RowsFit, RowsAreWhole, None, Num
  <2>3. ASSUME NEW open \in CoverageFrom + 1 .. checkpoint + 1, NEW since \in Int,
               rhi \in CoverageFrom - 1 .. open - 1, meta["reroute"] = Under(open, None, rhi, since)
        PROVE  FilingFits
    <3>1. open \in Int /\ rhi \in Int /\ None \in Int
      BY <1>1, <2>3, Bounds DEF None
    <3>2. RowsAre(meta["reroute"], open, None, rhi, since, None)
      BY <2>3, <3>1, RowsSpelt
    <3> QED
      BY <1>1, <2>3, <3>1, <3>2, Bounds DEF RowsAre, RowsFit, RowsAreWhole, None, Num
  <2> QED
    BY <1>2, <2>1, <2>2, <2>3 DEF FilingLeft
<1>10. AllRowsFit /\ AllRowsWhole
  BY <1>7, <1>8, <1>9 DEF AllRowsFit, AllRowsWhole
<1>11. UnreadIsUntouched
  BY <1>1, <1>2, <1>4, <1>8 DEF UnreadIsUntouched, LeftAt
<1>12. FiledAsTheRowsSay
  BY <1>1, <1>2, <1>4, <1>6, <1>9 DEF FiledAsTheRowsSay, LeftAt, RowsAre, Indexed, None
<1>13. AddedExactlyOnce
  BY <1>1, <1>2, <1>4, <1>6, <1>8 DEF AddedExactlyOnce, LeftAt, RowsAre, Indexed
<1>14. GivesUpOnlyWhatOneHasDropped
  <2> SUFFICES ASSUME NEW p \in Passes, Done(p), NEW b \in Covered PROVE ReRead(p, b)
    BY DEF GivesUpOnlyWhatOneHasDropped
  <2>1. meta[p].liveFrom = 0 /\ meta[p].done = 1 /\ p \in {"cctp", "reroute"}
    BY <1>6, <1>8, <1>9 DEF Done, RowsAre, None
  <2>2. b \in Indexed /\ b \in Block /\ b \in Int /\ b > 0 /\ b <= checkpoint /\ None # 0
    BY <1>4 DEF Covered, Indexed, None
  <2>3. CASE p = "cctp"
    <3>1. b > chi
      BY <1>8, <2>1, <2>2, <2>3
    <3>2. added["cctp"][b] = 1
      BY <1>2, <2>2, <3>1 DEF LeftAt
    <3> QED
      BY <2>3, <3>2 DEF ReRead
  <2>4. CASE p = "reroute"
    <3>1. rhi = Num(meta["reroute"].hi) /\ meta["reroute"].hi = None
      BY <1>9, <2>1, <2>2, <2>4, Bounds DEF RowsFit, None
    <3>2. filed[b] = "v1"
      BY <1>1, <1>2, <2>2, <3>1 DEF LeftAt, Num
    <3> QED
      BY <2>4, <3>2 DEF ReRead
  <2> QED
    BY <2>1, <2>3, <2>4
<1> QED
  BY <1>3, <1>8, <1>10, <1>11, <1>12, <1>13, <1>14 DEF RouteInv

----------------------------------------------------------------------------
(* Steps that write nothing: a turn passed over, a read refused, a plan     *)
(* that fails, a death between ticks, and history pruned elsewhere.         *)

\* Time leaves fewer blocks held by all, never more.
Forgetting ==
  /\ pruned \in [Endpoints -> Nat] /\ pruned' \in [Endpoints -> Nat]
  /\ \A e \in Endpoints : pruned[e] <= pruned'[e]

LEMMA FewerHeldByAll ==
  ASSUME NEW b \in Int, Forgetting, HeldByAll(b)'
  PROVE  HeldByAll(b)
<1> SUFFICES ASSUME NEW e \in Endpoints PROVE pruned[e] = 0 \/ b > pruned[e] + MinSpan - 2
  BY DEF HeldByAll
<1>1. \A x, y, m \in Int : x <= y /\ b > y + m - 2 => b > x + m - 2
  OBVIOUS
<1>2. /\ MinSpan \in Int /\ pruned[e] \in Int /\ pruned'[e] \in Int
      /\ pruned[e] <= pruned'[e] /\ (pruned'[e] = 0 => pruned[e] = 0)
  BY Bounds DEF Forgetting
<1>3. pruned'[e] = 0 \/ b > pruned'[e] + MinSpan - 2
  BY DEF HeldByAll
<1> QED
  BY <1>1, <1>2, <1>3

\* A step that leaves the disk alone, or only forgets old blocks, keeps it.
LEMMA QuietStep ==
  ASSUME RouteInv, UNCHANGED <<disk, torn>>,
         step' \in Passes \cup {"down", "index"}, step' = step \/ step # "down",
         span' \in [Passes -> Nat \ {0}], Forgetting
  PROVE  RouteInv'
<1> USE DEF disk
<1>1. RouteType'
  BY DEF RouteInv, RouteType, Forgetting
<1>2. AllRowsFit'
  BY DEF RouteInv, AllRowsFit, RowsFit
<1>3. AllRowsWhole'
  BY DEF RouteInv, AllRowsWhole, RowsAreWhole
<1>4. UnreadIsUntouched' /\ FiledAsTheRowsSay'
  BY DEF RouteInv, UnreadIsUntouched, FiledAsTheRowsSay, Indexed
<1>7. /\ UNCHANGED <<checkpoint, meta, added, torn>>
      /\ \A p \in Passes, b \in Int : Behind(p, b)' = Behind(p, b)
  BY DEF Behind, Planned, Floor
<1>5. SinceIsReached' /\ AddedExactlyOnce'
  <2>1. SinceIsReached'
    BY <1>7, Bounds DEF RouteInv, SinceIsReached, Behind, Planned, Floor
  <2>2. AddedExactlyOnce'
    <3> SUFFICES ASSUME NEW p \in Additive, meta'[p].liveFrom # None, NEW b \in Indexed'
                 PROVE  added'[p][b] = IF b >= meta'[p].liveFrom \/ Behind(p, b)' THEN 1 ELSE 0
      BY DEF AddedExactlyOnce
    <3>1. p \in Passes /\ b \in Indexed /\ b \in Int /\ meta[p].liveFrom # None
      BY <1>7, Bounds DEF Additive, Passes, Indexed, Block
    <3>2. added[p][b] = IF b >= meta[p].liveFrom \/ Behind(p, b) THEN 1 ELSE 0
      BY <3>1 DEF RouteInv, AddedExactlyOnce
    <3>3. Behind(p, b)' = Behind(p, b)
      BY <1>7, <3>1
    <3> QED
      BY <1>7, <3>2, <3>3
  <2> QED
    BY <2>1, <2>2
<1>6. GivesUpOnlyWhatOneHasDropped'
  <2>1. SUFFICES ASSUME ~torn', NEW p \in Passes, Done(p)', NEW b \in Covered', HeldByAll(b)'
                 PROVE  ReRead(p, b)'
    BY DEF GivesUpOnlyWhatOneHasDropped
  <2>2. Done(p) /\ b \in Covered /\ b \in Int /\ ~torn
    BY <2>1, Bounds DEF Done, Covered, Indexed, Block
  <2>3. HeldByAll(b)
    BY <2>1, <2>2, FewerHeldByAll
  <2>4. ReRead(p, b)
    BY <2>1, <2>2, <2>3 DEF RouteInv, GivesUpOnlyWhatOneHasDropped
  <2> QED
    BY <2>4 DEF ReRead
<1> QED
  BY <1>1, <1>2, <1>3, <1>4, <1>5, <1>6 DEF RouteInv

----------------------------------------------------------------------------
(* A chunk: where it lies, what it writes.                                  *)

\* A pass that has blocks to read stands above its floor, no higher than the
\* live index, and its next chunk goes no further down than its floor.
LEMMA ActiveReach ==
  ASSUME RouteInv, NEW p \in Passes, Active(p)
  PROVE  /\ Hi(p) \in Int /\ Floor(p) \in Int /\ Lo(p) \in Int
         /\ 0 <= Floor(p) /\ Floor(p) <= Lo(p) /\ Lo(p) <= Hi(p)
         /\ Hi(p) + 1 - span[p] <= Lo(p)
         /\ p # "refile" => IndexFrom <= Floor(p)
         /\ meta[p].liveFrom # None /\ step # "down"
<1>1. RouteType /\ RowsFit(p) /\ RowsFit("cctp") /\ RowsFit("refile")
  BY DEF RouteInv, AllRowsFit, Passes
<1>2. /\ meta[p].hi \in Int /\ meta["cctp"].low \in Int /\ meta["refile"].low \in Int
      /\ meta[p].liveFrom \in Int /\ checkpoint \in Int
      /\ span[p] \in Nat /\ span[p] >= 1
  BY <1>1, RowsTyped, Bounds DEF Passes, RouteType
<1>3. step = p /\ step # "down" /\ meta[p].liveFrom # None
  BY <1>1 DEF Active, Closing, Passes, RowsFit
<1>4. Floor(p) \in Int /\ 0 <= Floor(p) /\ (p # "refile" => IndexFrom <= Floor(p))
  <2>1. CASE p = "cctp"
    BY <1>1, <1>2, <2>1, Bounds DEF Active, Planned, Floor, RowsFit
  <2>2. CASE p = "sent"
    BY <2>2, Bounds DEF Floor
  <2>3. CASE p = "reroute"
    BY <1>1, <1>2, <2>3, Bounds DEF Floor, Num, Greater, RowsFit
  <2>4. CASE p = "refile"
    BY <1>1, <1>2, <2>4, Bounds DEF Floor, Num, RowsFit
  <2> QED
    BY <2>1, <2>2, <2>3, <2>4 DEF Passes
<1>5. Hi(p) \in Int /\ Hi(p) >= Floor(p)
  BY <1>2 DEF Active, Hi, Num
<1> QED
  BY <1>2, <1>3, <1>4, <1>5 DEF Lo, Greater

\* Where a chunk ends, and the instant it publishes, are within bounds.
LEMMA ChunkReach ==
  ASSUME RouteInv, NEW p \in Passes, Active(p), Readable(p)
  PROVE  /\ Hi(p) = meta[p].hi /\ meta[p].hi # None /\ Hi(p) <= checkpoint
         /\ meta[p].liveFrom >= IndexFrom /\ Hi(p) < meta[p].liveFrom
         /\ Progress(p) \in Int /\ Progress(p) >= -1 /\ Progress(p) < Hi(p)
         /\ SinceOf(p) \in Int
<1>1. RouteType /\ RowsFit(p)
  BY DEF RouteInv, AllRowsFit
<1>2. meta[p].hi \in Int /\ meta[p].liveFrom \in Int /\ checkpoint \in Int
  BY <1>1, RowsTyped, Bounds DEF RouteType
<1>3. /\ Hi(p) \in Int /\ Floor(p) \in Int /\ Lo(p) \in Int
      /\ 0 <= Floor(p) /\ Floor(p) <= Lo(p) /\ Lo(p) <= Hi(p)
      /\ p # "refile" => IndexFrom <= Floor(p)
  BY ActiveReach
<1>4. Hi(p) > 0
  BY <1>3, Bounds DEF Readable, HasClock
<1>5. Hi(p) = meta[p].hi /\ meta[p].hi # None
  BY <1>4 DEF Hi, Num
<1>6. Progress(p) \in Int /\ Progress(p) >= -1 /\ Progress(p) < Hi(p)
  BY <1>3 DEF Progress
<1>7. SinceOf(p) \in Int
  <2>1. Lo(p) \in Nat
    BY <1>3
  <2>2. MinuteOf(Lo(p)) \in Int /\ NextMinute(Lo(p)) \in Int
    BY <2>1, MinuteAround, Bounds DEF NextMinute
  <2> QED
    BY <1>3, <2>2 DEF SinceOf, CctpSince, Passes, None
<1> QED
  BY <1>1, <1>2, <1>5, <1>6, <1>7 DEF RowsFit

\* Its rows: the progress and the instant, and no other.
ChunkRows(p) ==
  /\ meta' \in [Passes -> [Keys -> Int]]
  /\ meta'[p].hi = Progress(p) /\ meta'[p].since = SinceOf(p)
  /\ meta'[p].liveFrom = meta[p].liveFrom /\ meta'[p].low = meta[p].low /\ meta'[p].done = meta[p].done
  /\ \A q \in Passes : q # p => meta'[q] = meta[q]

\* What a chunk writes, spelt out per pass.
LEMMA ChunkWrites ==
  ASSUME RouteInv, NEW p \in Passes, Chunk(p)
  PROVE  /\ ChunkRows(p)
         /\ \A q \in Additive : \A b \in Block :
              added'[q][b] = IF q = p /\ b \in Lo(p) .. Hi(p) THEN added[q][b] + 1 ELSE added[q][b]
         /\ \A b \in Block :
              filed'[b] = IF p \notin Additive /\ b \in Lo(p) .. Hi(p) THEN Refiled(p, filed[b]) ELSE filed[b]
         /\ RouteType'
<1>1. RouteType /\ Active(p) /\ Readable(p)
  BY DEF RouteInv, Chunk
<1>2. Progress(p) \in Int /\ SinceOf(p) \in Int
  BY <1>1, ChunkReach
<1>3. meta' = [meta EXCEPT ![p].hi = Progress(p), ![p].since = SinceOf(p)]
  BY DEF Chunk
<1>4. "hi" \in Keys /\ "since" \in Keys /\ "liveFrom" \in Keys /\ "low" \in Keys /\ "done" \in Keys
  BY DEF Keys
<1>5. ChunkRows(p)
  <2> DEFINE row == [[meta[p] EXCEPT !.hi = Progress(p)] EXCEPT !.since = SinceOf(p)]
  <2>1. meta \in [Passes -> [Keys -> Int]]
    BY <1>1 DEF RouteType
  <2>2. meta[p] \in [Keys -> Int]
    BY <2>1
  <2>3. /\ row \in [Keys -> Int] /\ row.hi = Progress(p) /\ row.since = SinceOf(p)
        /\ row.liveFrom = meta[p].liveFrom /\ row.low = meta[p].low /\ row.done = meta[p].done
    BY <1>2, <1>4, <2>2
  <2>4. meta' = [meta EXCEPT ![p] = row]
    BY <1>3, <2>1
  <2> HIDE DEF row
  <2>5. meta' \in [Passes -> [Keys -> Int]] /\ meta'[p] = row /\ \A q \in Passes : q # p => meta'[q] = meta[q]
    BY <2>1, <2>3, <2>4
  <2> QED
    BY <2>3, <2>5 DEF ChunkRows
<1>6. \A q \in Additive : \A b \in Block :
        added'[q][b] = IF q = p /\ b \in Lo(p) .. Hi(p) THEN added[q][b] + 1 ELSE added[q][b]
  BY <1>1 DEF Chunk, RouteType
<1>7. \A b \in Block :
        filed'[b] = IF p \notin Additive /\ b \in Lo(p) .. Hi(p) THEN Refiled(p, filed[b]) ELSE filed[b]
  BY <1>1 DEF Chunk, RouteType
<1>8. RouteType'
  <2>1. added' \in [Additive -> [Block -> Nat]]
    BY <1>1 DEF Chunk, RouteType
  <2>2. filed' \in [Block -> Rules]
    BY <1>1 DEF Chunk, RouteType, Refiled, Rules
  <2>3. span' \in [Passes -> Nat \ {0}]
    <3>1. span[p] \in Nat /\ span[p] >= 1
      BY <1>1, RowsTyped
    <3>2. Lesser(MaxSpan, 2 * span[p]) \in Nat \ {0}
      BY <3>1, Bounds DEF Lesser
    <3> QED
      BY <1>1, <3>2 DEF Chunk, RouteType
  <2>4. step' \in Passes \cup {"down", "index"}
    BY DEF Chunk, After, Passes
  <2> QED
    BY <1>1, <1>5, <2>1, <2>2, <2>3, <2>4 DEF RouteType, Chunk, ChunkRows
<1> QED
  BY <1>5, <1>6, <1>7, <1>8

\* Behind, for the two passes that add, spelt out.
LEMMA BehindSpelt ==
  \A b \in Block :
    /\ Behind("cctp", b) <=> /\ meta["cctp"].low # None /\ meta["cctp"].hi # None
                             /\ b > meta["cctp"].hi /\ b >= meta["cctp"].low
    /\ Behind("sent", b) <=> meta["sent"].hi # None /\ b > meta["sent"].hi /\ b >= IndexFrom
BY DEF Behind, Planned, Floor

\* The same of the next state.
LEMMA BehindSpeltNext ==
  \A b \in Block :
    /\ Behind("cctp", b)' <=> /\ meta'["cctp"].low # None /\ meta'["cctp"].hi # None
                              /\ b > meta'["cctp"].hi /\ b >= meta'["cctp"].low
    /\ Behind("sent", b)' <=> meta'["sent"].hi # None /\ b > meta'["sent"].hi /\ b >= IndexFrom
BY DEF Behind, Planned, Floor

\* A chunk adds or moves what it read and what no chunk read before it.
LEMMA ChunkStep ==
  ASSUME RouteInv, NEW p \in Passes, Chunk(p)
  PROVE  RouteInv'
<1>1. /\ RouteType /\ RouteType' /\ ChunkRows(p) /\ Active(p) /\ Readable(p) /\ Planned(p)
      /\ UNCHANGED <<checkpoint, pruned, torn>>
  BY ChunkWrites DEF RouteInv, Chunk, Active
<1>2. /\ Hi(p) \in Int /\ Floor(p) \in Int /\ Lo(p) \in Int
      /\ 0 <= Floor(p) /\ Floor(p) <= Lo(p) /\ Lo(p) <= Hi(p)
      /\ p # "refile" => IndexFrom <= Floor(p)
      /\ step # "down" /\ meta[p].liveFrom # None
  BY <1>1, ActiveReach
<1>3. /\ Hi(p) = meta[p].hi /\ meta[p].hi # None /\ Hi(p) <= checkpoint
      /\ meta[p].liveFrom >= IndexFrom /\ Hi(p) < meta[p].liveFrom
      /\ Progress(p) = Lo(p) - 1 /\ SinceOf(p) \in Int
  BY <1>1, ChunkReach DEF Progress
<1>4. \A b \in Block : b \in Int /\ b >= IndexFrom /\ b > 0
  BY Bounds DEF Block
<1>5. \A q \in Passes : /\ meta[q].liveFrom \in Int /\ meta[q].hi \in Int /\ meta[q].low \in Int
                         /\ meta[q].since \in Int /\ meta[q].done \in Int /\ RowsFit(q)
                         /\ meta[q].liveFrom # None /\ checkpoint \in Int
  BY <1>1, <1>2, RowsTyped, Bounds DEF RouteInv, AllRowsFit, RowsFit, RouteType
<1>6. AllRowsFit'
  <2> SUFFICES ASSUME NEW q \in Passes PROVE RowsFit(q)'
    BY DEF AllRowsFit
  <2>1. CASE q = p
    BY <1>1, <1>2, <1>3, <1>5, <2>1, Bounds DEF RowsFit, ChunkRows, None
  <2>2. CASE q # p
    BY <1>1, <1>5, <2>2 DEF RowsFit, ChunkRows
  <2> QED
    BY <2>1, <2>2
<1>7. AllRowsWhole'
  <2> SUFFICES ASSUME ~torn, NEW q \in Passes PROVE RowsAreWhole(q)'
    BY <1>1 DEF AllRowsWhole
  <2>1. RowsAreWhole(q)
    BY DEF RouteInv, AllRowsWhole
  <2>2. CASE q = p
    <3>1. meta'[p].hi # None
      BY <1>1, <1>2, <1>3 DEF ChunkRows, None
    <3>2. p = "cctp" => SinceOf(p) >= 0
      <4>1. Lo(p) \in Nat /\ MinuteOf(Lo(p)) \in Nat /\ NextMinute(Lo(p)) \in Nat
        BY <1>2, MinuteAround, Bounds DEF NextMinute
      <4> QED
        BY <4>1 DEF SinceOf, CctpSince
    <3> QED
      BY <1>1, <2>1, <2>2, <3>1, <3>2 DEF RowsAreWhole, ChunkRows
  <2>3. CASE q # p
    BY <1>1, <2>1, <2>3 DEF RowsAreWhole, ChunkRows
  <2> QED
    BY <2>2, <2>3
<1>8. UnreadIsUntouched'
  <2> SUFFICES ASSUME NEW b \in Block
               PROVE  /\ b > checkpoint => filed'[b] = "unread" /\ \A q \in Additive : added'[q][b] = 0
                      /\ \A q \in Additive : meta'[q].liveFrom = None => added'[q][b] = 0
    BY <1>1 DEF UnreadIsUntouched
  <2>1. b > checkpoint => b \notin Lo(p) .. Hi(p)
    BY <1>2, <1>3, <1>4, <1>5
  <2>2. \A q \in Additive : meta'[q].liveFrom = meta[q].liveFrom /\ meta[q].liveFrom # None
    BY <1>1, <1>5 DEF ChunkRows, Additive, Passes
  <2> QED
    BY <2>1, <2>2, ChunkWrites DEF RouteInv, UnreadIsUntouched
<1>9. FiledAsTheRowsSay'
  <2> SUFFICES ASSUME ~torn PROVE FiledAsTheRowsSay'
    BY <1>1 DEF FiledAsTheRowsSay
  <2>1. \A b \in Indexed :
         /\ filed[b] \in {"v0", "v1", "v2"}
         /\ filed[b] = "v0" <=> b <= Num(meta["reroute"].hi)
         /\ filed[b] = "v1" <=> Num(meta["refile"].low) <= b /\ b <= Num(meta["refile"].hi)
    BY <1>5 DEF RouteInv, FiledAsTheRowsSay, Passes
  <2>2. \A b \in Indexed : b \in Block /\ b \in Int
    BY <1>4 DEF Indexed
  <2>3. Indexed' = Indexed
    BY <1>1 DEF Indexed
  <2>4. meta'["reroute"].liveFrom # None /\ meta'["refile"].liveFrom # None
    BY <1>1, <1>5 DEF ChunkRows, Passes
  <2> SUFFICES ASSUME NEW b \in Indexed
               PROVE  /\ filed'[b] \in {"v0", "v1", "v2"}
                      /\ filed'[b] = "v0" <=> b <= Num(meta'["reroute"].hi)
                      /\ filed'[b] = "v1" <=> Num(meta'["refile"].low) <= b /\ b <= Num(meta'["refile"].hi)
    BY <1>1, <2>3, <2>4 DEF FiledAsTheRowsSay, Num
  <2>5. CASE p \in Additive
    <3>1. filed'[b] = filed[b] /\ meta'["reroute"] = meta["reroute"] /\ meta'["refile"] = meta["refile"]
      BY <1>1, <2>2, <2>5, ChunkWrites DEF ChunkRows, Additive, Passes
    <3> QED
      BY <2>1, <3>1
  <2>6. CASE p = "reroute"
    <3>1. /\ meta'["refile"] = meta["refile"]
          /\ Num(meta["reroute"].hi) = Hi(p) /\ Num(meta'["reroute"].hi) = Lo(p) - 1
      BY <1>1, <1>2, <1>3, <2>6, Bounds DEF ChunkRows, Passes, Num, None
    <3>2. filed'[b] = IF b \in Lo(p) .. Hi(p) THEN IF filed[b] = "v0" THEN "v2" ELSE "mixed up" ELSE filed[b]
      BY <2>2, <2>6, ChunkWrites DEF Additive, Refiled
    <3>3. CASE b \in Lo(p) .. Hi(p)
      <4>1. filed[b] = "v0" /\ ~(b <= Lo(p) - 1)
        BY <1>2, <2>1, <2>2, <3>1, <3>3
      <4> QED
        BY <2>1, <3>1, <3>2, <3>3, <4>1
    <3>4. CASE b \notin Lo(p) .. Hi(p)
      <4>1. b <= Hi(p) <=> b <= Lo(p) - 1
        BY <1>2, <2>2, <3>4
      <4> QED
        BY <2>1, <3>1, <3>2, <3>4, <4>1
    <3> QED
      BY <3>3, <3>4
  <2>7. CASE p = "refile"
    <3>1. /\ meta'["reroute"] = meta["reroute"] /\ meta'["refile"].low = meta["refile"].low
          /\ Num(meta["refile"].hi) = Hi(p) /\ Num(meta["refile"].low) = Floor(p)
      BY <1>1, <1>3, <2>7 DEF ChunkRows, Passes, Num, Floor
    <3>2. meta'["refile"].hi = Lo(p) - 1
      BY <1>1, <1>3, <2>7 DEF ChunkRows
    <3>3. Num(meta'["refile"].hi) = Lo(p) - 1
      BY <1>2, <3>2 DEF Num, None
    <3>4. filed'[b] = IF b \in Lo(p) .. Hi(p) THEN IF filed[b] = "v1" THEN "v2" ELSE "mixed up" ELSE filed[b]
      BY <2>2, <2>7, ChunkWrites DEF Additive, Refiled
    <3>5. CASE b \in Lo(p) .. Hi(p)
      <4>1. filed[b] = "v1" /\ ~(b <= Lo(p) - 1)
        BY <1>2, <2>1, <2>2, <3>1, <3>5
      <4> QED
        BY <2>1, <3>1, <3>3, <3>4, <3>5, <4>1
    <3>6. CASE b \notin Lo(p) .. Hi(p)
      <4>1. Floor(p) <= b => (b <= Hi(p) <=> b <= Lo(p) - 1)
        BY <1>2, <2>2, <3>6
      <4> QED
        BY <2>1, <3>1, <3>3, <3>4, <3>6, <4>1
    <3> QED
      BY <3>5, <3>6
  <2> QED
    BY <2>5, <2>6, <2>7 DEF Passes, Additive
<1>10. SinceIsReached'
  <2> SUFFICES ASSUME ~torn, meta'["cctp"].liveFrom >= IndexFrom, NEW b \in Block,
                      b >= CoverageFrom, b >= meta'["cctp"].since
               PROVE  b >= meta'["cctp"].liveFrom \/ Behind("cctp", b)'
    BY <1>1 DEF SinceIsReached
  <2>1. CASE p = "cctp"
    <3>1. Lo(p) \in Nat
      BY <1>2
    <3>2. MinuteOf(Lo(p)) \in Nat /\ NextMinute(Lo(p)) \in Nat /\ Lo(p) < NextMinute(Lo(p))
      BY <3>1, MinuteAround, Bounds DEF NextMinute
    <3>3. /\ meta'["cctp"].low = meta["cctp"].low /\ meta["cctp"].low # None /\ meta["cctp"].low <= CoverageFrom
          /\ meta'["cctp"].hi = Lo(p) - 1 /\ Floor(p) = meta["cctp"].low
          /\ meta'["cctp"].since = IF Lo(p) = Floor(p) THEN MinuteOf(Lo(p)) ELSE NextMinute(Lo(p))
      BY <1>1, <1>3, <1>5, <2>1 DEF ChunkRows, Passes, Planned, Floor, SinceOf, CctpSince, RowsFit
    <3>4. meta'["cctp"].hi # None
      BY <1>2, <3>3 DEF None
    <3>5. b > Lo(p) - 1 /\ b >= meta["cctp"].low
      BY <1>2, <1>4, <1>5, <3>2, <3>3, Bounds DEF Passes
    <3> QED
      BY <3>3, <3>4, <3>5, BehindSpeltNext
  <2>2. CASE p # "cctp"
    <3>1. meta'["cctp"] = meta["cctp"]
      BY <1>1, <2>2 DEF ChunkRows, Passes
    <3>2. b >= meta["cctp"].liveFrom \/ Behind("cctp", b)
      BY <3>1 DEF RouteInv, SinceIsReached
    <3> QED
      BY <3>1, <3>2, BehindSpelt, BehindSpeltNext
  <2> QED
    BY <2>1, <2>2
<1>11. AddedExactlyOnce'
  <2>1. Indexed' = Indexed /\ \A b \in Indexed : b \in Block /\ b \in Int
    BY <1>1, <1>4 DEF Indexed
  <2> SUFFICES ASSUME NEW q \in Additive, NEW b \in Indexed
               PROVE  added'[q][b] = IF b >= meta'[q].liveFrom \/ Behind(q, b)' THEN 1 ELSE 0
    BY <2>1 DEF AddedExactlyOnce
  <2>2. q \in Passes /\ q \in {"cctp", "sent"}
    BY DEF Additive, Passes
  <2>3. added[q][b] = IF b >= meta[q].liveFrom \/ Behind(q, b) THEN 1 ELSE 0
    BY <1>5, <2>2 DEF RouteInv, AddedExactlyOnce
  <2>4. CASE q # p
    <3>1. meta'[q] = meta[q] /\ added'[q][b] = added[q][b]
      BY <1>1, <2>1, <2>2, <2>4, ChunkWrites DEF ChunkRows
    <3>2. Behind(q, b)' <=> Behind(q, b)
      BY <2>1, <2>2, <3>1, BehindSpelt, BehindSpeltNext
    <3> QED
      BY <2>3, <3>1, <3>2
  <2>5. CASE q = p
    <3>1. /\ meta'[p].hi = Lo(p) - 1 /\ meta'[p].low = meta[p].low /\ meta'[p].liveFrom = meta[p].liveFrom
          /\ meta'[p].hi # None
      BY <1>1, <1>2, <1>3 DEF ChunkRows, None
    <3>2. added'[p][b] = IF b \in Lo(p) .. Hi(p) THEN added[p][b] + 1 ELSE added[p][b]
      BY <2>1, <2>5, ChunkWrites
    <3>3. Behind(p, b) <=> b > Hi(p) /\ b >= Floor(p)
      BY <1>1, <1>3 DEF Behind
    <3>4. Behind(p, b)' <=> b > Lo(p) - 1 /\ b >= Floor(p)
      <4>1. CASE p = "cctp"
        BY <1>1, <2>1, <3>1, <4>1, BehindSpeltNext DEF Planned, Floor
      <4>2. CASE p = "sent"
        BY <2>1, <3>1, <4>2, BehindSpeltNext DEF Floor
      <4> QED
        BY <2>2, <2>5, <4>1, <4>2
    <3>5. meta[p].liveFrom \in Int
      BY <1>5
    <3>6. CASE b \in Lo(p) .. Hi(p)
      BY <1>2, <1>3, <2>1, <2>3, <2>5, <3>1, <3>2, <3>3, <3>4, <3>5, <3>6
    <3>7. CASE b > Hi(p)
      BY <1>2, <1>3, <2>1, <2>3, <2>5, <3>1, <3>2, <3>3, <3>4, <3>5, <3>7
    <3>8. CASE b < Lo(p)
      BY <1>2, <1>3, <2>1, <2>3, <2>5, <3>1, <3>2, <3>3, <3>4, <3>5, <3>8
    <3> QED
      BY <1>2, <2>1, <3>6, <3>7, <3>8
  <2> QED
    BY <2>4, <2>5
<1>12. GivesUpOnlyWhatOneHasDropped'
  <2>1. SUFFICES ASSUME ~torn', NEW q \in Passes, Done(q)', NEW b \in Covered', HeldByAll(b)'
                 PROVE  ReRead(q, b)'
    BY DEF GivesUpOnlyWhatOneHasDropped
  <2>2. ~torn /\ b \in Covered /\ b \in Indexed /\ b \in Block /\ HeldByAll(b)
    BY <1>1, <2>1 DEF Covered, Indexed, HeldByAll
  <2>3. Done(q)
    BY <1>1, <2>1 DEF Done, ChunkRows
  <2>4. ReRead(q, b)
    BY <2>2, <2>3 DEF RouteInv, GivesUpOnlyWhatOneHasDropped
  <2>5. CASE q \in Additive
    <3>1. added[q][b] \in Nat /\ added[q][b] > 0
      BY <1>1, <2>2, <2>4, <2>5 DEF RouteType, ReRead
    <3>2. added'[q][b] > 0
      BY <2>2, <2>5, <3>1, ChunkWrites
    <3> QED
      BY <2>5, <3>2 DEF ReRead
  <2>6. CASE q \notin Additive
    <3>1. filed'[b] = filed[b] \/ filed'[b] \in {"v2", "mixed up"}
      BY <2>2, ChunkWrites DEF Refiled
    <3> QED
      BY <2>4, <2>6, <3>1 DEF ReRead
  <2> QED
    BY <2>5, <2>6
<1> QED
  BY <1>1, <1>6, <1>7, <1>8, <1>9, <1>10, <1>11, <1>12 DEF RouteInv

----------------------------------------------------------------------------
(* The end of a pass, at its floor or where the endpoints' history ends.    *)

\* What a pass has come past it has re-read.
LEMMA PastIsReRead ==
  ASSUME RouteInv, ~torn, NEW p \in Passes, step # "down", Planned(p), NEW b \in Covered, b > Hi(p)
  PROVE  ReRead(p, b)
<1>1. /\ b \in Indexed /\ b \in Block /\ b \in Int /\ b >= CoverageFrom /\ b >= IndexFrom /\ b > 0
  BY Bounds DEF Covered, Indexed, Block
<1>2. RouteType /\ RowsFit(p) /\ RowsAreWhole(p) /\ meta[p].liveFrom # None
  BY DEF RouteInv, AllRowsFit, AllRowsWhole, RowsFit
<1>3. meta[p].liveFrom \in Int /\ meta[p].hi \in Int /\ meta[p].low \in Int
  BY <1>2, RowsTyped
<1>4. CASE p \in Additive
  <2>1. b >= meta[p].liveFrom \/ Behind(p, b)
    <3>1. CASE p = "cctp"
      BY <1>1, <1>2, <1>3, <3>1, BehindSpelt, Bounds DEF Planned, Hi, Num, RowsFit, RowsAreWhole
    <3>2. CASE p = "sent"
      BY <1>1, <1>2, <1>3, <3>2, BehindSpelt, Bounds DEF Hi, Num, RowsFit, RowsAreWhole
    <3> QED
      BY <1>4, <3>1, <3>2 DEF Additive
  <2>2. added[p][b] = 1
    BY <1>1, <1>2, <1>4, <2>1 DEF RouteInv, AddedExactlyOnce
  <2> QED
    BY <1>4, <2>2 DEF ReRead
<1>5. CASE p = "reroute"
  BY <1>1, <1>2, <1>3, <1>5 DEF RouteInv, FiledAsTheRowsSay, Hi, ReRead, Num, Additive
<1>6. CASE p = "refile"
  BY <1>1, <1>2, <1>3, <1>6 DEF RouteInv, FiledAsTheRowsSay, Hi, ReRead, Num, Additive
<1> QED
  BY <1>4, <1>5, <1>6 DEF Passes, Additive

\* Marking a pass done keeps it, if the pass has re-read the obtainable.
LEMMA DoneStep ==
  ASSUME RouteInv, NEW p \in Passes, step # "down", torn \/ Planned(p),
         meta' = [meta EXCEPT ![p].done = 1],
         step' \in Passes \cup {"down", "index"},
         UNCHANGED <<checkpoint, added, filed, span, pruned, torn>>,
         ~torn => \A b \in Covered : HeldByAll(b) => b > Hi(p) \/ ReRead(p, b)
  PROVE  RouteInv'
<1>1. RouteType
  BY DEF RouteInv
<1>2. /\ meta' \in [Passes -> [Keys -> Int]]
      /\ meta'[p].done = 1 /\ meta'[p].liveFrom = meta[p].liveFrom /\ meta'[p].low = meta[p].low
      /\ meta'[p].hi = meta[p].hi /\ meta'[p].since = meta[p].since
      /\ \A q \in Passes : q # p => meta'[q] = meta[q]
  <2> DEFINE row == [meta[p] EXCEPT !.done = 1]
  <2>1. meta \in [Passes -> [Keys -> Int]] /\ meta[p] \in [Keys -> Int] /\ 1 \in Int
    BY <1>1 DEF RouteType
  <2>2. "hi" \in Keys /\ "since" \in Keys /\ "liveFrom" \in Keys /\ "low" \in Keys /\ "done" \in Keys
    BY DEF Keys
  <2>3. row.liveFrom = meta[p].liveFrom /\ row.low = meta[p].low /\ row.hi = meta[p].hi
        /\ row.since = meta[p].since /\ row.done = 1 /\ row \in [Keys -> Int]
    BY <2>1, <2>2
  <2>4. meta' = [meta EXCEPT ![p] = row]
    BY <2>1
  <2> HIDE DEF row
  <2> QED
    BY <2>1, <2>3, <2>4
<1>3. \A q \in Passes : /\ meta'[q].liveFrom = meta[q].liveFrom /\ meta'[q].low = meta[q].low
                         /\ meta'[q].hi = meta[q].hi /\ meta'[q].since = meta[q].since
                         /\ q # p => meta'[q].done = meta[q].done
  BY <1>2
<1>4. RouteType'
  BY <1>1, <1>2 DEF RouteType
<1>5. \A q \in Passes : RowsFit(q) /\ meta[q].liveFrom # None
  BY DEF RouteInv, AllRowsFit, RowsFit
<1>6. AllRowsFit' /\ AllRowsWhole'
  <2>1. ASSUME NEW q \in Passes PROVE RowsFit(q)'
    BY <1>2, <1>3, <1>5 DEF RowsFit
  <2>2. ASSUME NEW q \in Passes, ~torn PROVE RowsAreWhole(q)'
    BY <1>2, <1>3, <2>2 DEF RouteInv, AllRowsWhole, RowsAreWhole
  <2> QED
    BY <2>1, <2>2 DEF AllRowsFit, AllRowsWhole
<1>7. UnreadIsUntouched' /\ FiledAsTheRowsSay'
  BY <1>3 DEF RouteInv, UnreadIsUntouched, FiledAsTheRowsSay, Indexed, Passes, Additive
<1>8. SinceIsReached' /\ AddedExactlyOnce'
  <2>1. \A b \in Block : \A q \in Additive : Behind(q, b)' <=> Behind(q, b)
    BY <1>3, BehindSpelt, BehindSpeltNext DEF Passes, Additive
  <2>2. SinceIsReached'
    BY <1>3, <2>1 DEF RouteInv, SinceIsReached, Passes, Additive
  <2>3. AddedExactlyOnce'
    BY <1>3, <2>1 DEF RouteInv, AddedExactlyOnce, Indexed, Passes, Additive
  <2> QED
    BY <2>2, <2>3
<1>9. GivesUpOnlyWhatOneHasDropped'
  <2>1. SUFFICES ASSUME ~torn', NEW q \in Passes, Done(q)', NEW b \in Covered', HeldByAll(b)'
                 PROVE  ReRead(q, b)'
    BY DEF GivesUpOnlyWhatOneHasDropped
  <2>2. ~torn /\ b \in Covered /\ HeldByAll(b)
    BY <2>1 DEF Covered, Indexed, HeldByAll
  <2>3. ReRead(q, b)
    <3>1. CASE q = p
      BY <2>2, <3>1, PastIsReRead
    <3>2. CASE q # p
      BY <1>3, <2>1, <2>2, <3>2 DEF RouteInv, GivesUpOnlyWhatOneHasDropped, Done
    <3> QED
      BY <3>1, <3>2
  <2> QED
    BY <2>3 DEF ReRead
<1> QED
  BY <1>4, <1>6, <1>7, <1>8, <1>9 DEF RouteInv

\* At the smallest span only what the endpoint that said pruned has dropped,
\* and its neighbours, are left.
LEMMA ExhaustedStep ==
  ASSUME RouteInv, NEW p \in Passes, Exhausted(p)
  PROVE  RouteInv'
<1>1. /\ Active(p) /\ Planned(p) /\ step = p /\ step # "down" /\ step' \in Passes \cup {"down", "index"}
  BY DEF Exhausted, Active, Closing, After, Passes
<1>2. /\ Hi(p) \in Int /\ Lo(p) \in Int /\ 0 <= Lo(p) /\ Hi(p) + 1 - span[p] <= Lo(p)
  BY <1>1, ActiveReach
<1>3. PICK e \in Endpoints : ~Serves(e, p)
  BY DEF Exhausted, MayEnd, SaidPruned
<1>6. span[p] \in Int /\ pruned[e] \in Int
  BY <1>3, RowsTyped DEF RouteInv, RouteType
<1>4. span[p] <= MinSpan /\ pruned[e] > Lo(p)
  BY <1>2, <1>3, <1>6 DEF Exhausted, MayEnd, Serves
<1>5. ASSUME NEW b \in Covered, HeldByAll(b) PROVE b > Hi(p)
  <2>1. b \in Int /\ MinSpan \in Int
    BY Bounds DEF Covered, Indexed, Block
  <2>2. b > pruned[e] + MinSpan - 2
    BY <1>2, <1>4, <1>5, <1>6 DEF HeldByAll
  <2>3. \A x, y, m, lo, hi, n \in Int :
          x > y + m - 2 /\ y > lo /\ n <= m /\ hi + 1 - n <= lo => x > hi
    OBVIOUS
  <2> QED
    BY <1>2, <1>4, <1>6, <2>1, <2>2, <2>3
<1> QED
  BY <1>1, <1>5, DoneStep DEF Exhausted

\* A pass that has come past its floor has nothing left.
LEMMA FinishStep ==
  ASSUME RouteInv, NEW p \in Passes, Finish(p)
  PROVE  RouteInv'
<1>1. /\ Planned(p) /\ step = p /\ step # "down" /\ step' \in Passes \cup {"down", "index"}
      /\ Hi(p) < Floor(p)
  BY DEF Finish, Closing, After, Passes
<1>2. ASSUME ~torn, NEW b \in Covered PROVE b > Hi(p) \/ ReRead(p, b)
  <2>1. b \in Indexed /\ b \in Block /\ b \in Int /\ b >= CoverageFrom /\ b >= IndexFrom
    BY Bounds DEF Covered, Indexed, Block
  <2>2. /\ RouteType /\ RowsFit(p) /\ RowsFit("cctp") /\ meta[p].liveFrom # None
        /\ meta["refile"].liveFrom # None
    BY <1>1 DEF RouteInv, AllRowsFit, RowsFit, Passes
  <2>3. Hi(p) \in Int /\ meta["cctp"].low \in Int /\ meta["refile"].low \in Int
    BY <2>2, RowsTyped DEF Hi, Num, Passes
  <2>4. CASE p = "refile"
    BY <1>1, <1>2, <2>1, <2>2, <2>3, <2>4 DEF RouteInv, FiledAsTheRowsSay, ReRead, Additive, Floor, Hi, Num
  <2>5. CASE p # "refile"
    <3>1. Floor(p) <= CoverageFrom /\ Floor(p) \in Int
      BY <1>1, <2>2, <2>3, <2>5, Bounds DEF Floor, Planned, Greater, Num, RowsFit, Passes
    <3> QED
      BY <1>1, <2>1, <2>3, <3>1, Bounds
  <2> QED
    BY <2>4, <2>5
<1> QED
  BY <1>1, <1>2, DoneStep DEF Finish

----------------------------------------------------------------------------
(* Boot: what the inits write, in full or cut short.                        *)

\* A pass's rows after any write of its init ...
BootRow(p, r) ==
  /\ r \in [Keys -> Int]
  /\ \/ /\ r.liveFrom = 0 /\ r.hi = None /\ r.low = None /\ r.done \in {None, 1}
        /\ Cold \/ (p = "refile" /\ meta["reroute"].liveFrom = None)
     \/ /\ ~Cold /\ r.liveFrom = checkpoint + 1 /\ r.hi \in {None, checkpoint} /\ r.done = None
        /\ p = "cctp" => r.hi = None
        /\ \/ r.low = None
           \/ p = "refile" /\ meta["reroute"].liveFrom # None /\ r.low = RefileFloor

\* ... and after the last.
WholeRow(p, r) ==
  /\ r.liveFrom = 0 => r.done = 1
  /\ r.liveFrom # 0 =>
       /\ p # "cctp" => r.hi = checkpoint
       /\ p = "cctp" => r.since = NextMinute(checkpoint) /\ r.low = None
       /\ p = "refile" => r.low = RefileFloor /\ meta["reroute"].liveFrom # None

\* What each write of an init leaves in the rows.
LEMMA InitsWrite ==
  ASSUME RouteInv, NEW p \in Passes, Missing(p)
  PROVE  /\ \A n \in 1 .. Len(Inits(p)) : BootRow(p, Inits(p)[n])
         /\ BootRow(p, Inits(p)[Len(Inits(p))]) /\ WholeRow(p, Inits(p)[Len(Inits(p))])
<1>1. /\ meta[p] \in [Keys -> Int] /\ meta[p].low = None /\ meta[p].hi = None /\ meta[p].done = None
      /\ checkpoint \in Int /\ checkpoint >= -1 /\ (~Cold => checkpoint \in Nat)
  BY Bounds DEF RouteInv, RouteType, AllRowsFit, RowsFit, Missing, Cold
<1>2. "hi" \in Keys /\ "since" \in Keys /\ "liveFrom" \in Keys /\ "low" \in Keys /\ "done" \in Keys
  BY DEF Keys
<1>3. RefileFloor \in Int /\ MinuteOf(checkpoint) \in Int /\ NextMinute(checkpoint) \in Int
  <2>1. meta["reroute"].hi \in Int
    BY RowsTyped DEF RouteInv, Passes
  <2>2. PerMinute \in Nat \ {0}
    BY RouteHistoryAssumption
  <2>3. (checkpoint \div PerMinute) \in Int
    BY <1>1, <2>2
  <2>4. MinuteOf(checkpoint) \in Int
    BY <2>2, <2>3 DEF MinuteOf
  <2> QED
    BY <2>1, <2>2, <2>4, Bounds DEF RefileFloor, Num, NextMinute
<1> DEFINE told == [meta[p] EXCEPT !.liveFrom = 0]
           closed == [told EXCEPT !.done = 1]
           opened == [meta[p] EXCEPT !.liveFrom = checkpoint + 1]
           openedAt == [opened EXCEPT !.hi = checkpoint]
<1>4. /\ told \in [Keys -> Int] /\ told.liveFrom = 0
      /\ told.low = None /\ told.hi = None /\ told.done = None
  BY <1>1, <1>2
<1>5. /\ closed \in [Keys -> Int] /\ closed.liveFrom = 0
      /\ closed.low = None /\ closed.hi = None /\ closed.done = 1
  <2>1. told \in [Keys -> Int] /\ 1 \in Int
    BY <1>4
  <2> HIDE DEF told
  <2> QED
    BY <1>2, <1>4, <2>1
<1>6. /\ opened \in [Keys -> Int] /\ opened.liveFrom = checkpoint + 1
      /\ opened.low = None /\ opened.hi = None /\ opened.done = None
  BY <1>1, <1>2
<1>7. /\ openedAt \in [Keys -> Int] /\ openedAt.liveFrom = checkpoint + 1
      /\ openedAt.low = None /\ openedAt.hi = checkpoint /\ openedAt.done = None
  <2> HIDE DEF opened
  <2> QED
    BY <1>1, <1>2, <1>6
<1>8. \A r \in [Keys -> Int] : \A v \in Int :
        /\ LET s == [r EXCEPT !.since = v]
           IN /\ s \in [Keys -> Int] /\ s.since = v /\ s.liveFrom = r.liveFrom
              /\ s.low = r.low /\ s.hi = r.hi /\ s.done = r.done
        /\ LET s == [r EXCEPT !.low = v]
           IN /\ s \in [Keys -> Int] /\ s.since = r.since /\ s.liveFrom = r.liveFrom
              /\ s.low = v /\ s.hi = r.hi /\ s.done = r.done
  BY <1>2
<1>9. Closed(p) = <<told, closed>> /\ Opened(p) = opened /\ OpenedAt(p) = openedAt
  BY DEF Closed, Opened, OpenedAt
<1> HIDE DEF told, closed, opened, openedAt
<1>10. checkpoint + 1 # 0 \/ Cold
  BY <1>1
<1>11. CASE Cold \/ (p = "refile" /\ meta["reroute"].liveFrom = None)
  <2>1. Inits(p) = <<told, closed>>
    BY <1>9, <1>11 DEF Inits, InitCctp, InitSent, InitRefile, InitReroute, Passes
  <2>2. Len(<<told, closed>>) = 2 /\ <<told, closed>>[1] = told /\ <<told, closed>>[2] = closed
    OBVIOUS
  <2>3. \A n \in 1 .. 2 : n = 1 \/ n = 2
    OBVIOUS
  <2>4. BootRow(p, told) /\ BootRow(p, closed) /\ WholeRow(p, closed)
    BY <1>4, <1>5, <1>11 DEF BootRow, WholeRow
  <2> QED
    BY <2>1, <2>2, <2>3, <2>4
<1>12. CASE ~Cold /\ p = "cctp"
  <2> DEFINE r == [opened EXCEPT !.since = NextMinute(checkpoint)]
  <2>1. Inits(p) = <<opened, r>>
    BY <1>9, <1>12 DEF Inits, InitCctp
  <2>2. /\ r \in [Keys -> Int] /\ r.since = NextMinute(checkpoint) /\ r.liveFrom = checkpoint + 1
        /\ r.low = None /\ r.hi = None /\ r.done = None
    BY <1>3, <1>6, <1>8
  <2> HIDE DEF r
  <2>3. Len(<<opened, r>>) = 2 /\ <<opened, r>>[1] = opened /\ <<opened, r>>[2] = r
    OBVIOUS
  <2>4. \A n \in 1 .. 2 : n = 1 \/ n = 2
    OBVIOUS
  <2>5. BootRow(p, opened) /\ BootRow(p, r) /\ WholeRow(p, r)
    BY <1>6, <1>10, <1>12, <2>2 DEF BootRow, WholeRow
  <2> QED
    BY <2>1, <2>3, <2>4, <2>5
<1>13. CASE ~Cold /\ p \in {"sent", "reroute", "refile"} /\ (p = "refile" => meta["reroute"].liveFrom # None)
  <2> DEFINE r == IF p = "refile" THEN [openedAt EXCEPT !.low = RefileFloor]
                  ELSE [openedAt EXCEPT !.since = MinuteOf(checkpoint)]
  <2>1. Inits(p) = <<opened, openedAt, r>>
    BY <1>9, <1>13 DEF Inits, InitSent, InitReroute, InitRefile
  <2>2. /\ r \in [Keys -> Int] /\ r.liveFrom = checkpoint + 1
        /\ r.low = IF p = "refile" THEN RefileFloor ELSE None
        /\ r.hi = checkpoint /\ r.done = None
    BY <1>3, <1>7, <1>8
  <2> HIDE DEF r
  <2>3. /\ Len(<<opened, openedAt, r>>) = 3 /\ <<opened, openedAt, r>>[1] = opened
        /\ <<opened, openedAt, r>>[2] = openedAt /\ <<opened, openedAt, r>>[3] = r
    OBVIOUS
  <2>4. \A n \in 1 .. 3 : n = 1 \/ n = 2 \/ n = 3
    OBVIOUS
  <2>5. BootRow(p, opened) /\ BootRow(p, openedAt) /\ BootRow(p, r) /\ WholeRow(p, r)
    BY <1>6, <1>7, <1>10, <1>13, <2>2 DEF BootRow, WholeRow
  <2> QED
    BY <2>1, <2>3, <2>4, <2>5
<1> QED
  BY <1>11, <1>12, <1>13 DEF Passes

\* A boot, whole or cut short, keeps the invariant.
LEMMA BootStep ==
  ASSUME RouteInv, step = "down", meta' \in [Passes -> [Keys -> Int]],
         \A p \in Passes : meta'[p] = meta[p] \/ (Missing(p) /\ BootRow(p, meta'[p])),
         step' \in {"down", "index"},
         \A p \in Passes : meta'[p].liveFrom = None => step' = "down",
         UNCHANGED <<checkpoint, added, filed, span, pruned>>,
         torn' \in BOOLEAN, torn => torn',
         ~torn' => \A p \in Passes : Missing(p) => BootRow(p, meta'[p]) /\ WholeRow(p, meta'[p])
  PROVE  RouteInv'
<1>1. RouteType /\ RouteType' /\ checkpoint \in Int /\ checkpoint >= IndexFrom - 1
  BY Bounds DEF RouteInv, RouteType
<1>2. \A p \in Passes :
        /\ RowsFit(p) /\ meta[p].liveFrom \in Int /\ meta[p].hi \in Int /\ meta[p].low \in Int
        /\ meta'[p].liveFrom \in Int /\ meta'[p].hi \in Int /\ meta'[p].low \in Int
        /\ meta'[p].since \in Int /\ meta'[p].done \in Int
  BY <1>1, RowsTyped DEF RouteInv, AllRowsFit, RouteType, Keys
<1>3. \A b \in Block : b \in Int /\ b >= IndexFrom /\ b > 0
  BY Bounds DEF Block
<1>4. Indexed' = Indexed /\ \A b \in Indexed : ~Cold /\ b \in Block /\ b \in Int /\ b > 0 /\ b <= checkpoint
  <2>1. \A b \in Indexed : b \in Block /\ b <= checkpoint
    BY DEF Indexed
  <2>2. IndexFrom \in Int
    BY Bounds
  <2> QED
    BY <1>1, <1>3, <2>1, <2>2 DEF Indexed, Cold
<1>5. RefileFloor \in Int /\ RefileFloor >= 0
  BY <1>2, Bounds DEF RefileFloor, Num, RowsFit, Passes
<1>6. AllRowsFit'
  <2> SUFFICES ASSUME NEW p \in Passes PROVE RowsFit(p)'
    BY DEF AllRowsFit
  <2>1. CASE meta'[p] = meta[p]
    BY <1>2, <2>1 DEF RowsFit
  <2>2. CASE Missing(p) /\ BootRow(p, meta'[p])
    BY <1>1, <1>2, <1>5, <2>2, Bounds DEF RowsFit, BootRow, None, Cold
  <2> QED
    BY <2>1, <2>2
<1>7. AllRowsWhole'
  <2> SUFFICES ASSUME ~torn', NEW p \in Passes PROVE RowsAreWhole(p)'
    BY DEF AllRowsWhole
  <2>1. CASE Missing(p)
    <3>1. BootRow(p, meta'[p]) /\ WholeRow(p, meta'[p])
      BY <2>1
    <3>2. checkpoint >= 0 => NextMinute(checkpoint) >= 0
      BY <1>1, MinuteAround, Bounds DEF NextMinute
    <3> QED
      BY <1>1, <1>2, <1>5, <3>1, <3>2, Bounds DEF BootRow, WholeRow, RowsAreWhole, None, Cold
  <2>2. CASE ~Missing(p)
    BY <2>2 DEF RouteInv, AllRowsWhole, RowsAreWhole
  <2> QED
    BY <2>1, <2>2
<1>8. UnreadIsUntouched'
  <2>1. \A p \in Passes : meta'[p].liveFrom = None => meta[p].liveFrom = None
    BY DEF Missing
  <2> QED
    BY <2>1 DEF RouteInv, UnreadIsUntouched, Additive, Passes
<1>9. FiledAsTheRowsSay'
  <2> SUFFICES ASSUME ~torn' PROVE FiledAsTheRowsSay'
    BY DEF FiledAsTheRowsSay
  <2> DEFINE rr == meta'["reroute"]
             rf == meta'["refile"]
  <2>1. /\ meta["reroute"].liveFrom = None => meta["refile"].liveFrom = None
        /\ \A b \in Indexed :
             /\ filed[b] \in {"v0", "v1", "v2"}
             /\ meta["reroute"].liveFrom = None => filed[b] = "v0"
             /\ meta["reroute"].liveFrom # None => (filed[b] = "v0" <=> b <= Num(meta["reroute"].hi))
             /\ meta["refile"].liveFrom = None => filed[b] # "v2"
             /\ meta["refile"].liveFrom # None =>
                  (filed[b] = "v1" <=> Num(meta["refile"].low) <= b /\ b <= Num(meta["refile"].hi))
    BY DEF RouteInv, FiledAsTheRowsSay
  <2>2. /\ Missing("reroute") => BootRow("reroute", rr) /\ WholeRow("reroute", rr)
        /\ ~Missing("reroute") => rr = meta["reroute"]
        /\ Missing("refile") => BootRow("refile", rf) /\ WholeRow("refile", rf)
        /\ ~Missing("refile") => rf = meta["refile"]
    BY DEF Passes
  <2> HIDE DEF rr, rf
  <2>3. rr.liveFrom # None /\ rf.liveFrom # None
    BY <1>1, <2>2, Bounds DEF BootRow, Missing, None
  <2>4. ASSUME NEW b \in Indexed PROVE filed[b] = "v0" <=> b <= Num(rr.hi)
    <3>1. b \in Int /\ b > 0 /\ b <= checkpoint /\ ~Cold
      BY <1>4
    <3>2. CASE ~Missing("reroute")
      BY <2>1, <2>2, <3>2 DEF Missing
    <3>3. CASE Missing("reroute")
      <4>1. rr.hi = checkpoint
        BY <1>1, <2>2, <3>1, <3>3 DEF BootRow, WholeRow
      <4>2. Num(rr.hi) = checkpoint
        BY <1>1, <4>1, Bounds DEF Num, None
      <4> QED
        BY <2>1, <3>1, <3>3, <4>2 DEF Missing
    <3> QED
      BY <3>2, <3>3
  <2>5. ASSUME NEW b \in Indexed PROVE filed[b] = "v1" <=> Num(rf.low) <= b /\ b <= Num(rf.hi)
    <3>1. CASE ~Missing("refile")
      BY <2>1, <2>2, <3>1 DEF Missing
    <3>2. CASE Missing("refile") /\ rf.liveFrom = 0
      <4>1. b \in Int /\ b > 0 /\ ~Cold
        BY <1>4
      <4>2. rf.hi = None /\ meta["reroute"].liveFrom = None
        BY <1>1, <2>2, <3>2, <4>1, Bounds DEF BootRow, Cold
      <4>3. Num(rf.hi) = 0 /\ filed[b] = "v0"
        BY <2>1, <4>2 DEF Num
      <4> QED
        BY <4>1, <4>3
    <3>3. CASE Missing("refile") /\ rf.liveFrom # 0
      <4>1. rf.hi = checkpoint /\ rf.low = RefileFloor /\ meta["reroute"].liveFrom # None
        BY <2>2, <3>3 DEF WholeRow
      <4>2. Num(rf.hi) = checkpoint /\ Num(rf.low) = RefileFloor
        BY <1>1, <1>5, <4>1, Bounds DEF Num, None
      <4>3. filed[b] = "v1" <=> ~(b <= Num(meta["reroute"].hi))
        BY <2>1, <3>3, <4>1 DEF Missing
      <4>4. b \in Int /\ b >= IndexFrom /\ b <= checkpoint /\ IndexFrom > 0 /\ IndexFrom \in Int
        BY <1>3, <1>4, Bounds
      <4>5. RowsFit("reroute") /\ meta["reroute"].hi \in Int
        BY <1>2 DEF Passes
      <4>6. CASE meta["reroute"].liveFrom = 0
        <5>1. meta["reroute"].hi = None
          BY <4>4, <4>5, <4>6 DEF RowsFit
        <5> QED
          BY <4>2, <4>3, <4>4, <4>6, <5>1 DEF RefileFloor, Num
      <4>7. CASE meta["reroute"].liveFrom # 0
        BY <4>2, <4>3, <4>4, <4>5, <4>7 DEF RefileFloor, Num
      <4> QED
        BY <4>6, <4>7
    <3> QED
      BY <3>1, <3>2, <3>3
  <2> QED
    BY <1>4, <2>1, <2>3, <2>4, <2>5 DEF FiledAsTheRowsSay, rr, rf, Num
<1>10. SinceIsReached'
  <2> SUFFICES ASSUME ~torn', meta'["cctp"].liveFrom >= IndexFrom, NEW b \in Block,
                      b >= CoverageFrom, b >= meta'["cctp"].since
               PROVE  b >= meta'["cctp"].liveFrom \/ Behind("cctp", b)'
    BY DEF SinceIsReached
  <2>1. CASE Missing("cctp")
    <3>1. ~Cold /\ meta'["cctp"].liveFrom = checkpoint + 1 /\ meta'["cctp"].since = NextMinute(checkpoint)
      BY <2>1, Bounds DEF BootRow, WholeRow, Passes
    <3>2. checkpoint \in Nat
      BY <1>1, <3>1, Bounds DEF Cold
    <3>3. NextMinute(checkpoint) \in Int /\ checkpoint < NextMinute(checkpoint)
      BY <3>2, MinuteAround, Bounds DEF NextMinute
    <3> QED
      BY <1>1, <1>3, <3>1, <3>3
  <2>2. CASE ~Missing("cctp")
    <3>1. meta'["cctp"] = meta["cctp"]
      BY <2>2 DEF Passes
    <3>2. b >= meta["cctp"].liveFrom \/ Behind("cctp", b)
      BY <3>1 DEF RouteInv, SinceIsReached
    <3> QED
      BY <3>1, <3>2, BehindSpelt, BehindSpeltNext
  <2> QED
    BY <2>1, <2>2
<1>11. AddedExactlyOnce'
  <2> SUFFICES ASSUME NEW q \in Additive, NEW b \in Indexed, meta'[q].liveFrom # None
               PROVE  added[q][b] = IF b >= meta'[q].liveFrom \/ Behind(q, b)' THEN 1 ELSE 0
    BY <1>4 DEF AddedExactlyOnce
  <2>1. q \in Passes /\ q \in {"cctp", "sent"} /\ b \in Block
    BY <1>4 DEF Additive, Passes
  <2>2. CASE meta'[q] = meta[q]
    <3>1. Behind(q, b)' <=> Behind(q, b)
      BY <2>1, <2>2, BehindSpelt, BehindSpeltNext
    <3> QED
      BY <2>2, <3>1 DEF RouteInv, AddedExactlyOnce
  <2>3. CASE Missing(q) /\ BootRow(q, meta'[q])
    <3>1. ~Cold /\ meta'[q].liveFrom = checkpoint + 1 /\ meta'[q].hi \in {None, checkpoint} /\ meta'[q].low = None
      BY <1>4, <2>1, <2>3 DEF BootRow
    <3>2. ~Behind(q, b)'
      BY <1>1, <1>4, <2>1, <3>1, BehindSpeltNext
    <3>3. added[q][b] = 0
      BY <2>1, <2>3 DEF RouteInv, UnreadIsUntouched, Missing
    <3> QED
      BY <1>1, <1>4, <3>1, <3>2, <3>3
  <2> QED
    BY <2>1, <2>2, <2>3
<1>12. GivesUpOnlyWhatOneHasDropped'
  <2>1. SUFFICES ASSUME ~torn', NEW q \in Passes, Done(q)', NEW b \in Covered', HeldByAll(b)'
                 PROVE  ReRead(q, b)'
    BY DEF GivesUpOnlyWhatOneHasDropped
  <2>2. ~torn /\ b \in Covered /\ b \in Indexed /\ HeldByAll(b) /\ ~Cold
    BY <1>4, <2>1 DEF Covered, Indexed, HeldByAll
  <2>3. CASE ~Missing(q)
    <3>1. Done(q)
      BY <2>1, <2>3 DEF Done
    <3> QED
      BY <2>2, <3>1 DEF RouteInv, GivesUpOnlyWhatOneHasDropped, ReRead
  <2>4. CASE Missing(q)
    <3>1. q = "refile" /\ meta["reroute"].liveFrom = None
      BY <2>1, <2>2, <2>4 DEF BootRow, Done, None
    <3>2. filed[b] = "v0"
      BY <2>2, <3>1 DEF RouteInv, FiledAsTheRowsSay
    <3> QED
      BY <3>1, <3>2 DEF ReRead, Additive
  <2> QED
    BY <2>3, <2>4
<1> QED
  BY <1>1, <1>6, <1>7, <1>8, <1>9, <1>10, <1>11, <1>12 DEF RouteInv

----------------------------------------------------------------------------
(* The live pass.                                                           *)

\* The live pass adds its blocks once, above every pass.
LEMMA IndexStep ==
  ASSUME RouteInv, Index
  PROVE  RouteInv'
<1>1. /\ RouteType /\ step = "index" /\ step' = "cctp" /\ UNCHANGED <<meta, span, pruned, torn>>
  BY DEF RouteInv, Index, After
<1>2. PICK head \in checkpoint .. MaxBlock :
        LET new == checkpoint + 1 .. head
        IN /\ checkpoint' = head
           /\ added' = [p \in Additive |-> [b \in Block |-> IF b \in new THEN added[p][b] + 1 ELSE added[p][b]]]
           /\ filed' = [b \in Block |-> IF b \in new THEN "v2" ELSE filed[b]]
  BY DEF Index
<1> DEFINE New(b) == checkpoint < b /\ b <= checkpoint'
<1>3. checkpoint \in Int /\ checkpoint >= IndexFrom - 1 /\ checkpoint' \in Int /\ checkpoint <= checkpoint' /\ checkpoint' <= MaxBlock
  BY <1>1, <1>2, Bounds DEF RouteType
<1>4. \A b \in Block : b \in Int /\ b >= IndexFrom /\ b > 0
  BY Bounds DEF Block
<1>5. \A b \in Block :
        /\ \A p \in Additive : added'[p][b] = IF New(b) THEN added[p][b] + 1 ELSE added[p][b]
        /\ filed'[b] = IF New(b) THEN "v2" ELSE filed[b]
  BY <1>1, <1>2, <1>3, <1>4
<1>6. \A b \in Indexed' : b \in Block /\ b \in Int /\ (b \in Indexed <=> ~New(b))
  BY <1>3, <1>4 DEF Indexed
<1> HIDE DEF New
<1>7. \A b \in Block : New(b) => /\ filed[b] = "unread" /\ b > checkpoint /\ \A p \in Additive : added[p][b] = 0
  BY <1>3, <1>4 DEF New, RouteInv, UnreadIsUntouched
<1>8. RouteType'
  <2>1. added' \in [Additive -> [Block -> Nat]]
    BY <1>1, <1>2 DEF RouteType
  <2>2. filed' \in [Block -> Rules]
    BY <1>1, <1>2 DEF RouteType, Rules
  <2> QED
    BY <1>1, <1>3, <2>1, <2>2, Bounds DEF RouteType, Passes
<1>9. \A p \in Passes : /\ RowsFit(p) /\ meta[p].liveFrom # None
                         /\ meta[p].liveFrom \in Int /\ meta[p].hi \in Int /\ meta[p].low \in Int
                         /\ meta[p].hi <= checkpoint /\ Num(meta[p].hi) <= Greater(checkpoint, 0)
                         /\ meta[p].liveFrom <= checkpoint + 1
  <2>1. ASSUME NEW p \in Passes
        PROVE  RowsFit(p) /\ meta[p].liveFrom # None /\ meta[p].liveFrom \in Int
               /\ meta[p].hi \in Int /\ meta[p].low \in Int
    BY <1>1, RowsTyped DEF RouteInv, AllRowsFit, RowsFit
  <2>2. ASSUME NEW p \in Passes PROVE meta[p].hi <= checkpoint /\ meta[p].liveFrom <= checkpoint + 1
    BY <1>3, <2>1, Bounds DEF RowsFit, None
  <2>3. ASSUME NEW p \in Passes PROVE Num(meta[p].hi) <= Greater(checkpoint, 0)
    BY <1>3, <2>1, <2>2 DEF Num, Greater
  <2> QED
    BY <2>1, <2>2, <2>3
<1>10. AllRowsFit'
  <2> SUFFICES ASSUME NEW p \in Passes PROVE RowsFit(p)'
    BY DEF AllRowsFit
  <2> QED
    BY <1>1, <1>3, <1>9, Bounds DEF RowsFit
<1>11. AllRowsWhole'
  BY <1>1 DEF RouteInv, AllRowsWhole, RowsAreWhole
<1>12. UnreadIsUntouched'
  <2> SUFFICES ASSUME NEW b \in Block
               PROVE  /\ b > checkpoint' => filed'[b] = "unread" /\ \A q \in Additive : added'[q][b] = 0
                      /\ \A q \in Additive : meta'[q].liveFrom # None
    BY DEF UnreadIsUntouched
  <2>1. b > checkpoint' => b > checkpoint /\ ~New(b)
    BY <1>3, <1>4 DEF New
  <2>2. \A q \in Additive : meta'[q].liveFrom # None
    BY <1>1, <1>9 DEF Additive, Passes
  <2> QED
    BY <1>5, <2>1, <2>2 DEF RouteInv, UnreadIsUntouched
<1>13. FiledAsTheRowsSay'
  <2> SUFFICES ASSUME ~torn, NEW b \in Indexed'
               PROVE  /\ filed'[b] \in {"v0", "v1", "v2"}
                      /\ filed'[b] = "v0" <=> b <= Num(meta["reroute"].hi)
                      /\ filed'[b] = "v1" <=> Num(meta["refile"].low) <= b /\ b <= Num(meta["refile"].hi)
    BY <1>1, <1>9 DEF FiledAsTheRowsSay, Passes, Num
  <2>1. CASE New(b)
    <3>1. filed'[b] = "v2" /\ b > checkpoint /\ b > 0 /\ b \in Int
      BY <1>4, <1>5, <1>6, <1>7, <2>1
    <3>2. ~(b <= Num(meta["reroute"].hi)) /\ ~(b <= Num(meta["refile"].hi))
      BY <1>3, <1>9, <3>1 DEF Passes, Greater, Num
    <3> QED
      BY <3>1, <3>2
  <2>2. CASE ~New(b)
    <3>1. b \in Indexed /\ filed'[b] = filed[b]
      BY <1>5, <1>6, <2>2
    <3> QED
      BY <1>9, <3>1 DEF RouteInv, FiledAsTheRowsSay, Passes
  <2> QED
    BY <2>1, <2>2
<1>14. \A b \in Block : \A q \in Additive : Behind(q, b)' <=> Behind(q, b)
  BY <1>1, BehindSpelt, BehindSpeltNext DEF Additive
<1>15. SinceIsReached'
  BY <1>1, <1>14 DEF RouteInv, SinceIsReached, Additive
<1>16. AddedExactlyOnce'
  <2> SUFFICES ASSUME NEW q \in Additive, NEW b \in Indexed'
               PROVE  added'[q][b] = IF b >= meta[q].liveFrom \/ Behind(q, b) THEN 1 ELSE 0
    BY <1>1, <1>6, <1>14 DEF AddedExactlyOnce
  <2>1. CASE New(b)
    BY <1>3, <1>5, <1>6, <1>7, <1>9, <2>1 DEF Additive, Passes
  <2>2. CASE ~New(b)
    <3>1. b \in Indexed /\ added'[q][b] = added[q][b]
      BY <1>5, <1>6, <2>2
    <3> QED
      BY <1>9, <3>1 DEF RouteInv, AddedExactlyOnce, Additive, Passes
  <2> QED
    BY <2>1, <2>2
<1>17. GivesUpOnlyWhatOneHasDropped'
  <2>1. SUFFICES ASSUME ~torn', NEW q \in Passes, Done(q)', NEW b \in Covered', HeldByAll(b)'
                 PROVE  ReRead(q, b)'
    BY DEF GivesUpOnlyWhatOneHasDropped
  <2>2. b \in Indexed' /\ b \in Block /\ b >= CoverageFrom
    BY <1>6 DEF Covered
  <2>3. CASE New(b)
    <3>1. filed'[b] = "v2" /\ \A p \in Additive : added'[p][b] = 1
      BY <1>5, <1>7, <2>2, <2>3
    <3> QED
      BY <3>1 DEF ReRead
  <2>4. CASE ~New(b)
    <3>1. /\ b \in Indexed /\ filed'[b] = filed[b] /\ \A p \in Additive : added'[p][b] = added[p][b]
      BY <1>5, <1>6, <2>2, <2>4
    <3>2. ReRead(q, b)
      BY <1>1, <2>1, <2>2, <3>1 DEF RouteInv, GivesUpOnlyWhatOneHasDropped, Done, Covered, HeldByAll
    <3> QED
      BY <3>1, <3>2 DEF ReRead
  <2> QED
    BY <2>3, <2>4
<1> QED
  BY <1>8, <1>10, <1>11, <1>12, <1>13, <1>15, <1>16, <1>17 DEF RouteInv

----------------------------------------------------------------------------
(* The plan of the CCTP pass.                                               *)

\* Two rows, or the first of them only when it is cut short.
LEMMA PlanRowsStep ==
  ASSUME RouteInv, step = "cctp", meta["cctp"].low = None, meta["cctp"].liveFrom # 0,
         NEW h, meta' = [meta EXCEPT !["cctp"] = [@ EXCEPT !.low = PlannedFrom, !.hi = h]],
         h = meta["cctp"].liveFrom - 1 \/ (torn' /\ h = None),
         step' \in Passes \cup {"down", "index"}, span' \in [Passes -> Nat \ {0}],
         UNCHANGED <<checkpoint, added, filed, pruned>>,
         torn' \in BOOLEAN, torn => torn'
  PROVE  RouteInv'
<1> DEFINE row == meta["cctp"]
           new == [row EXCEPT !.low = PlannedFrom, !.hi = h]
<1>1. /\ RouteType /\ RowsFit("cctp") /\ row \in [Keys -> Int] /\ row.liveFrom \in Int
      /\ checkpoint \in Int /\ row.liveFrom # None
  BY RowsTyped, Bounds DEF RouteInv, RouteType, AllRowsFit, Passes, RowsFit
<1>2. /\ row.liveFrom >= IndexFrom /\ row.hi = None /\ row.liveFrom <= checkpoint + 1
  BY <1>1, Bounds DEF RowsFit
<1>3. /\ PlannedFrom \in Int /\ IndexFrom <= PlannedFrom /\ PlannedFrom <= CoverageFrom
      /\ PlannedFrom <= row.liveFrom /\ PlannedFrom # None
      /\ h \in Int /\ (h # None => h = row.liveFrom - 1)
  BY <1>1, <1>2, Bounds DEF PlannedFrom, Lesser, None
<1>4. /\ new \in [Keys -> Int] /\ new.low = PlannedFrom /\ new.hi = h
      /\ new.liveFrom = row.liveFrom /\ new.since = row.since /\ new.done = row.done
  <2>1. "hi" \in Keys /\ "since" \in Keys /\ "liveFrom" \in Keys /\ "low" \in Keys /\ "done" \in Keys
    BY DEF Keys
  <2> QED
    BY <1>1, <1>3, <2>1
<1> HIDE DEF new
<1>5. /\ meta' \in [Passes -> [Keys -> Int]] /\ meta'["cctp"] = new
      /\ \A q \in Passes : q # "cctp" => meta'[q] = meta[q]
  <2>1. meta \in [Passes -> [Keys -> Int]] /\ "cctp" \in Passes
    BY <1>1 DEF RouteType, Passes
  <2>2. meta' = [meta EXCEPT !["cctp"] = new]
    BY <2>1 DEF new
  <2> QED
    BY <1>4, <2>1, <2>2
<1>6. RouteType'
  BY <1>1, <1>5 DEF RouteType
<1>7. AllRowsFit'
  <2> SUFFICES ASSUME NEW q \in Passes PROVE RowsFit(q)'
    BY DEF AllRowsFit
  <2>1. CASE q = "cctp"
    BY <1>1, <1>2, <1>3, <1>4, <1>5, <2>1, Bounds DEF RowsFit, None
  <2>2. CASE q # "cctp"
    BY <1>5, <2>2 DEF RowsFit, RouteInv, AllRowsFit
  <2> QED
    BY <2>1, <2>2
<1>8. AllRowsWhole'
  <2> SUFFICES ASSUME ~torn', NEW q \in Passes PROVE RowsAreWhole(q)'
    BY DEF AllRowsWhole
  <2>1. RowsAreWhole(q)
    BY DEF RouteInv, AllRowsWhole
  <2>2. CASE q = "cctp"
    BY <1>1, <1>2, <1>4, <1>5, <2>1, <2>2, Bounds DEF RowsAreWhole, None
  <2>3. CASE q # "cctp"
    BY <1>5, <2>1, <2>3 DEF RowsAreWhole
  <2> QED
    BY <2>2, <2>3
<1>9. /\ meta'["cctp"].liveFrom = row.liveFrom /\ meta'["cctp"].since = row.since
      /\ meta'["cctp"].done = row.done /\ meta'["sent"] = meta["sent"]
      /\ meta'["reroute"] = meta["reroute"] /\ meta'["refile"] = meta["refile"]
  BY <1>4, <1>5 DEF Passes
<1>10. UnreadIsUntouched' /\ FiledAsTheRowsSay'
  BY <1>9 DEF RouteInv, UnreadIsUntouched, FiledAsTheRowsSay, Indexed, Additive
<1>11. ASSUME NEW b \in Block
       PROVE  /\ ~Behind("cctp", b)
              /\ Behind("cctp", b)' => b >= meta'["cctp"].liveFrom
              /\ Behind("sent", b)' <=> Behind("sent", b)
  <2>1. b \in Int
    BY Bounds DEF Block
  <2>2. ~Behind("cctp", b)
    BY <1>2, BehindSpelt
  <2>3. Behind("cctp", b)' => b >= meta'["cctp"].liveFrom
    <3>1. Behind("cctp", b)' => h # None /\ b > h
      BY <1>4, <1>5, BehindSpeltNext
    <3> QED
      BY <1>1, <1>3, <1>9, <2>1, <3>1
  <2>4. Behind("sent", b)' <=> Behind("sent", b)
    BY <1>9, BehindSpelt, BehindSpeltNext
  <2> QED
    BY <2>2, <2>3, <2>4
<1>12. SinceIsReached'
  <2> SUFFICES ASSUME ~torn', meta'["cctp"].liveFrom >= IndexFrom, NEW b \in Block,
                      b >= CoverageFrom, b >= meta'["cctp"].since
               PROVE  b >= meta'["cctp"].liveFrom
    BY DEF SinceIsReached
  <2>1. b >= row.liveFrom \/ Behind("cctp", b)
    BY <1>9 DEF RouteInv, SinceIsReached
  <2>2. ~Behind("cctp", b)
    BY <1>11
  <2> QED
    BY <1>9, <2>1, <2>2
<1>13. AddedExactlyOnce'
  <2> SUFFICES ASSUME NEW q \in Additive, NEW b \in Indexed, meta'[q].liveFrom # None
               PROVE  added[q][b] = IF b >= meta'[q].liveFrom \/ Behind(q, b)' THEN 1 ELSE 0
    BY DEF AddedExactlyOnce, Indexed
  <2>1. /\ b \in Block /\ meta'[q].liveFrom = meta[q].liveFrom
        /\ added[q][b] = IF b >= meta[q].liveFrom \/ Behind(q, b) THEN 1 ELSE 0
    BY <1>9 DEF RouteInv, AddedExactlyOnce, Indexed, Additive
  <2>2. CASE q = "cctp"
    <3>1. ~Behind("cctp", b) /\ (Behind("cctp", b)' => b >= meta'["cctp"].liveFrom)
      BY <1>11, <2>1
    <3> QED
      BY <2>1, <2>2, <3>1
  <2>3. CASE q = "sent"
    <3>1. Behind("sent", b)' <=> Behind("sent", b)
      BY <1>11, <2>1
    <3> QED
      BY <2>1, <2>3, <3>1
  <2> QED
    BY <2>2, <2>3 DEF Additive
<1>14. GivesUpOnlyWhatOneHasDropped'
  <2>1. SUFFICES ASSUME ~torn', NEW q \in Passes, Done(q)', NEW b \in Covered', HeldByAll(b)'
                 PROVE  ReRead(q, b)'
    BY DEF GivesUpOnlyWhatOneHasDropped
  <2>2. ~torn /\ b \in Covered /\ HeldByAll(b) /\ Done(q)
    BY <1>9, <2>1 DEF Covered, Indexed, HeldByAll, Done, Passes
  <2> QED
    BY <2>2 DEF RouteInv, GivesUpOnlyWhatOneHasDropped, ReRead
<1> QED
  BY <1>6, <1>7, <1>8, <1>10, <1>12, <1>13, <1>14 DEF RouteInv

\* The plan of the CCTP pass, whole.
LEMMA PlanStep ==
  ASSUME RouteInv, Plan
  PROVE  RouteInv'
<1>1. /\ step = "cctp" /\ step' = step /\ ~Done("cctp") /\ meta["cctp"].low = None
      /\ UNCHANGED <<checkpoint, added, filed, span, pruned, torn>>
      /\ "cctp" \in Passes /\ RouteType
  BY DEF Plan, Closing, Planned, Passes, RouteInv
<1>2. CASE meta["cctp"].liveFrom = 0
  <2>1. torn
    BY <1>1, <1>2 DEF RouteInv, AllRowsWhole, RowsAreWhole, Done
  <2>2. meta' = [meta EXCEPT !["cctp"].done = 1]
    BY <1>2 DEF Plan
  <2> QED
    BY <1>1, <2>1, <2>2, DoneStep
<1>3. CASE meta["cctp"].liveFrom # 0
  <2> DEFINE h == meta["cctp"].liveFrom - 1
  <2>1. meta' = [meta EXCEPT !["cctp"].low = PlannedFrom, !["cctp"].hi = h]
    BY <1>3 DEF Plan
  <2>2. meta \in [Passes -> [Keys -> Int]] /\ span \in [Passes -> Nat \ {0}] /\ torn \in BOOLEAN
    BY <1>1 DEF RouteType
  <2> HIDE DEF h
  <2>3. meta' = [meta EXCEPT !["cctp"] = [@ EXCEPT !.low = PlannedFrom, !.hi = h]]
    BY <1>1, <2>1, <2>2
  <2> QED
    BY <1>1, <1>3, <2>2, <2>3, PlanRowsStep DEF h
<1> QED
  BY <1>2, <1>3

\* The plan cut after its first row.
LEMMA TornPlanStep ==
  ASSUME RouteInv, TornPlan
  PROVE  RouteInv'
<1>1. /\ step = "cctp" /\ step' = "down" /\ meta["cctp"].low = None /\ meta["cctp"].liveFrom # 0
      /\ UNCHANGED <<checkpoint, added, filed, pruned>> /\ torn' = TRUE
      /\ "cctp" \in Passes /\ RouteType
  BY DEF TornPlan, Closing, Planned, Passes, RouteInv
<1>2. span' \in [Passes -> Nat \ {0}]
  BY Bounds DEF TornPlan
<1>3. meta \in [Passes -> [Keys -> Int]] /\ meta["cctp"] \in [Keys -> Int]
  BY <1>1 DEF RouteType
<1>4. meta["cctp"].hi = None
  BY <1>1 DEF RouteInv, AllRowsFit, RowsFit
<1>5. meta' = [meta EXCEPT !["cctp"] = [@ EXCEPT !.low = PlannedFrom, !.hi = None]]
  <2>1. [meta["cctp"] EXCEPT !.low = PlannedFrom] = [meta["cctp"] EXCEPT !.low = PlannedFrom, !.hi = None]
    <3> DEFINE low == [meta["cctp"] EXCEPT !.low = PlannedFrom]
    <3>1. low = [k \in Keys |-> IF k = "low" THEN PlannedFrom ELSE meta["cctp"][k]]
      BY <1>3 DEF Keys
    <3>2. low.hi = None
      BY <1>3, <1>4 DEF Keys
    <3>3. low = [low EXCEPT !.hi = None]
      BY <3>1, <3>2
    <3> QED
      BY <3>3
  <2> QED
    BY <1>1, <1>3, <2>1 DEF TornPlan
<1> QED
  BY <1>1, <1>2, <1>5, PlanRowsStep DEF Passes

----------------------------------------------------------------------------
(* The theorems.                                                            *)

\* Every step keeps the invariant.
LEMMA RouteInvStep == RouteInv /\ [Next]_vars => RouteInv'
<1> SUFFICES ASSUME RouteInv, [Next]_vars PROVE RouteInv'
  OBVIOUS
<1>1. /\ RouteType /\ meta \in [Passes -> [Keys -> Int]] /\ span \in [Passes -> Nat \ {0}]
      /\ step \in Passes \cup {"down", "index"} /\ pruned \in [Endpoints -> Nat]
  BY DEF RouteInv, RouteType
<1>2. \A p \in Passes \cup {"index"} : After(p) \in Passes \cup {"down", "index"}
  BY DEF After, Passes
<1>13. pruned' = pruned => Forgetting
  <2>1. \A e \in Endpoints : pruned[e] <= pruned[e]
    BY <1>1
  <2> QED
    BY <1>1, <2>1 DEF Forgetting
<1>3. CASE Boot
  <2>1. /\ step = "down" /\ step' = "index" /\ meta' = [p \in Passes |-> Booted(p)]
        /\ UNCHANGED <<checkpoint, added, filed, span, pruned, crashes, torn>> /\ torn \in BOOLEAN
    BY <1>1, <1>3 DEF Boot, RouteType
  <2>2. \A p \in Passes :
          IF Missing(p) THEN BootRow(p, meta'[p]) /\ WholeRow(p, meta'[p]) ELSE meta'[p] = meta[p]
    BY <2>1, InitsWrite DEF Booted
  <2>3. \A p \in Passes : meta'[p] \in [Keys -> Int]
    BY <1>1, <2>2 DEF BootRow
  <2>4. meta' \in [Passes -> [Keys -> Int]]
    BY <2>1, <2>3
  <2>5. \A p \in Passes : meta'[p].liveFrom # None
    BY <1>1, <2>2, Bounds DEF BootRow, Missing, RouteType, None
  <2> QED
    BY <2>1, <2>2, <2>4, <2>5, BootStep
<1>4. CASE TornBoot
  <2>1. /\ step = "down" /\ step' = step /\ torn' = TRUE
        /\ UNCHANGED <<checkpoint, added, filed, span, pruned>>
    BY <1>4 DEF TornBoot
  <2>2. PICK p \in Passes : Missing(p) /\ \E n \in 1 .. Len(Inits(p)) :
          meta' = [q \in Passes |-> IF InitTurn[q] < InitTurn[p] THEN Booted(q)
                                     ELSE IF q = p THEN Inits(p)[n] ELSE meta[q]]
    BY <1>4 DEF TornBoot
  <2>3. PICK n \in 1 .. Len(Inits(p)) :
          meta' = [q \in Passes |-> IF InitTurn[q] < InitTurn[p] THEN Booted(q)
                                     ELSE IF q = p THEN Inits(p)[n] ELSE meta[q]]
    BY <2>2
  <2>4. \A q \in Passes : meta'[q] = meta[q] \/ (Missing(q) /\ BootRow(q, meta'[q]))
    BY <2>2, <2>3, InitsWrite DEF Booted
  <2>5. \A q \in Passes : meta'[q] \in [Keys -> Int]
    BY <1>1, <2>4 DEF BootRow
  <2>6. meta' \in [Passes -> [Keys -> Int]]
    BY <2>3, <2>5
  <2> QED
    BY <2>1, <2>4, <2>6, BootStep
<1>5. CASE Index
  BY <1>5, IndexStep
<1>6. CASE Plan
  BY <1>6, PlanStep
<1>7. CASE TornPlan
  BY <1>7, TornPlanStep
<1>8. CASE PlanFails
  <2>1. step = "cctp" /\ step' = After("cctp") /\ "cctp" \in Passes
    BY <1>8 DEF PlanFails, Closing, Passes
  <2> QED
    BY <1>1, <1>2, <1>8, <2>1, <1>13, QuietStep DEF PlanFails
<1>9. ASSUME NEW p \in Passes, Turn(p) PROVE RouteInv'
  <2>1. CASE Skip(p)
    BY <1>1, <1>2, <2>1, <1>13, QuietStep DEF Skip, Passes
  <2>2. CASE Chunk(p)
    BY <2>2, ChunkStep
  <2>3. CASE Refused(p)
    <3>1. step = p /\ step # "down" /\ step' = After(p)
      BY <2>3 DEF Refused, Active, Closing, Passes
    <3>2. Narrowed(p) \in Nat \ {0}
      <4>1. span[p] \in Nat
        BY <1>1
      <4>2. span[p] \div 2 \in Int
        BY <4>1
      <4> QED
        BY <4>2, Bounds DEF Narrowed, Greater
    <3>3. span' \in [Passes -> Nat \ {0}]
      BY <1>1, <2>3, <3>2 DEF Refused
    <3> QED
      BY <1>1, <1>2, <2>3, <3>1, <3>3, <1>13, QuietStep DEF Refused
  <2>4. CASE Exhausted(p)
    BY <2>4, ExhaustedStep
  <2>5. CASE Finish(p)
    BY <2>5, FinishStep
  <2> QED
    BY <1>9, <2>1, <2>2, <2>3, <2>4, <2>5 DEF Turn
<1>10. CASE Crash
  <2>1. span' \in [Passes -> Nat \ {0}]
    BY <1>10, Bounds DEF Crash
  <2> QED
    BY <1>1, <1>10, <2>1, <1>13, QuietStep DEF Crash
<1>11. CASE Prune
  <2>1. PICK e \in Endpoints, n \in PrunedTo : pruned[e] < n /\ pruned' = [pruned EXCEPT ![e] = n]
    BY <1>11 DEF Prune
  <2>2. n \in Nat
    BY RouteHistoryAssumption
  <2>3. \A d \in Endpoints : pruned[d] \in Nat /\ pruned[d] <= pruned[d]
    BY <1>1
  <2>4. Forgetting
    BY <1>1, <2>1, <2>2, <2>3 DEF Forgetting
  <2> QED
    BY <1>1, <1>11, <2>4, QuietStep DEF Prune
<1>12. CASE UNCHANGED vars
  BY <1>1, <1>12, <1>13, QuietStep DEF vars, disk
<1> QED
  BY <1>3, <1>4, <1>5, <1>6, <1>7, <1>8, <1>9, <1>10, <1>11, <1>12 DEF Next, Tick

\* RouteInv holds of every behaviour, whatever the passes meet.
THEOREM RouteInvariant == Spec => []RouteInv
<1>1. Init => RouteInv
  BY InitInv
<1>2. RouteInv /\ [Next]_vars => RouteInv'
  BY RouteInvStep
<1> QED
  BY <1>1, <1>2, PTL DEF Spec

\* applyCctpBackfill, applyRouteDeltas: a share is added once where the rows
\* say so and nowhere else, and no mixed event is moved twice.
THEOREM NothingIsTwice == Spec => []NothingTwice
<1>1. RouteInv => NothingTwice
  <2> SUFFICES ASSUME RouteInv PROVE NothingTwice
    OBVIOUS
  <2>1. ASSUME ~torn, NEW b \in Block PROVE filed[b] # "mixed up"
    <3>1. b <= checkpoint \/ b > checkpoint
      BY Bounds DEF Block, RouteInv, RouteType
    <3>2. CASE b <= checkpoint
      BY <2>1, <3>2 DEF RouteInv, FiledAsTheRowsSay, Indexed
    <3>3. CASE b > checkpoint
      BY <3>3 DEF RouteInv, UnreadIsUntouched
    <3> QED
      BY <3>1, <3>2, <3>3
  <2> QED
    BY <2>1 DEF RouteInv, NothingTwice, NothingMovedTwice
<1> QED
  BY <1>1, RouteInvariant, PTL

\* cctpView: from the instant published as measuredSince on, every block's
\* mints and burns carry their route.
THEOREM MeasuredSinceHonest == Spec => []MeasuredSinceIsHonest
<1>1. RouteInv => MeasuredSinceIsHonest
  <2> SUFFICES ASSUME RouteInv, ~torn, step # "down", MeasuredSince # None,
                      NEW b \in Covered, b >= MeasuredSince
               PROVE  added["cctp"][b] = 1
    BY DEF MeasuredSinceIsHonest
  <2>1. b \in Indexed /\ b \in Block /\ b \in Int /\ b > 0 /\ b >= CoverageFrom /\ "cctp" \in Passes
    BY Bounds DEF Covered, Indexed, Block, Passes
  <2>2. /\ RouteType /\ RowsFit("cctp") /\ RowsAreWhole("cctp") /\ meta["cctp"].liveFrom # None
        /\ meta["cctp"].liveFrom \in Int
    BY <2>1, RowsTyped DEF RouteInv, AllRowsFit, AllRowsWhole, RowsFit
  <2>3. b >= meta["cctp"].liveFrom \/ Behind("cctp", b)
    <3>1. CASE meta["cctp"].liveFrom = 0
      BY <2>1, <3>1
    <3>2. CASE meta["cctp"].liveFrom # 0
      <4>1. meta["cctp"].liveFrom >= IndexFrom /\ meta["cctp"].since >= 0
        BY <2>2, <3>2, Bounds DEF RowsFit, RowsAreWhole
      <4>2. meta["cctp"].since # None
        BY <4>1 DEF None
      <4> QED
        BY <2>1, <4>1, <4>2 DEF RouteInv, SinceIsReached, MeasuredSince
    <3> QED
      BY <3>1, <3>2
  <2> QED
    BY <2>1, <2>2, <2>3 DEF RouteInv, AddedExactlyOnce, Additive
<1> QED
  BY <1>1, RouteInvariant, PTL

\* historyPruned: a pass that is done has re-read all that every endpoint still
\* has, but for fewer than MinSpan blocks above what one of them has dropped.
THEOREM GivesUpNothingElse == Spec => []GivesUpOnlyWhatOneHasDropped
<1>1. RouteInv => GivesUpOnlyWhatOneHasDropped
  BY DEF RouteInv
<1> QED
  BY <1>1, RouteInvariant, PTL
=============================================================================
