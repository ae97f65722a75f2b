--------------------------- MODULE TerminalProofs ---------------------------
(***************************************************************************)
(* Proofs about what the terminal shows.                                   *)
(*                                                                         *)
(* Terminal, for any chains, chunks, header spans and rules.  That what is *)
(* served was measured as it is dated needs that the clock on disk is the  *)
(* clock the set was judged at, which a restart goes by (DatedInv).  The   *)
(* adjusted volume needs how far a backfill of an empty database has got   *)
(* (ColdRunCounts), that what both readings date alike lies within the     *)
(* minutes the second went through (ReadWithin), as a range's clock never  *)
(* runs backwards (ClockInOrder), and that nobody is flagged before it     *)
(* (NobodyYet).                                                            *)
(*                                                                         *)
(* Entities, for any addresses, words, facts, budgets and bounds.  Six     *)
(* writers change a row, and none but the deriver changes a kind or writes *)
(* an implementation that is gone.  So what is shown of a row is that each *)
(* of the others leaves it as well explained as it was, the recheck by     *)
(* leaving its mark; of the deriver, that what it holds in hand between    *)
(* its rounds is of the right form.                                        *)
(***************************************************************************)
EXTENDS MCTerminal, FiniteSetTheorems, TLAPS

----------------------------------------------------------------------------
(* The dates and clocks of what is served (Terminal).                       *)

\* A set and the clock it was judged at go together, in the process and on disk;
\* so do a supply and its date.
DatedInv ==
  /\ PublishedAsMeasured
  /\ suppliesMeta.is = suppliesMeta.at
  /\ flags.on = Flagged(flags.row, flags.clock)
  /\ phase # "down" /\ spanClock = LiveSample => clockMeta = LiveSample

\* The rule reads the time of blocks, which does not change.
LEMMA RuleStands ==
  ASSUME stamp' = stamp
  PROVE  \A s, c : Flagged(s, c)' = Flagged(s, c)
BY DEF Flagged, Span, Time

\* Who sent nothing is not flagged.
LEMMA NobodyIsFlagged ==
  ASSUME TerminalAssumption
  PROVE  Flagged(NoSends, LiveSample) = FALSE
<1>1. MinDays * 1 \in Nat /\ 0 * 1 = 0 /\ MinDays \in Nat /\ PerDay \in Nat
  BY DEF TerminalAssumption
<1>2. Max({MinDays * 1, 0}) \in Nat
  <2> DEFINE both == {MinDays * 1, 0}
  <2>1. \E x \in both : \A y \in both : x >= y
    BY <1>1
  <2>2. Max(both) \in both
    BY <2>1 DEF Max
  <2> QED
    BY <2>2, <1>1
<1>3. PerDay * Max({MinDays * 1, 0}) \in Nat
  BY <1>1, <1>2
<1>4. ~(0 > PerDay * Max({MinDays * 1, 0}))
  BY <1>3
<1> QED
  BY <1>1, <1>4 DEF Flagged, NoSends, Span, Time

LEMMA DatedInit ==
  ASSUME TerminalAssumption, Init
  PROVE  DatedInv
BY NobodyIsFlagged DEF Init, Booting, DatedInv, PublishedAsMeasured

\* refreshNoisy: the set and its clock are replaced together.
LEMMA RefreshKeeps ==
  ASSUME NEW c, refreshNoisy(c), stamp' = stamp
  PROVE  /\ (flags.on = Flagged(flags.row, flags.clock))'
         /\ flags'.clock = c
         /\ clockMeta' = IF c = LiveSample THEN clockMeta ELSE c
<1>1. flags' = [on |-> Flagged(sent, c), row |-> sent, clock |-> c]
  BY DEF refreshNoisy, noisyAddresses
<1>2. flags'.on = Flagged(sent, c) /\ flags'.row = sent /\ flags'.clock = c
  BY <1>1
<1> QED
  BY <1>2 DEF refreshNoisy, Flagged, Span, Time

\* measureClock: a measured clock is never taken back for the live sample.
LEMMA ClockGoesOn ==
  ASSUME NEW to, NEW served, NEW fallback, measureClock(to, served, fallback), spanClock' = LiveSample
  PROVE  spanClock = LiveSample
BY DEF measureClock, blockTimeBetween, LiveSample

\* dbDerived and the booting snapshot: what is served is what is held.
LEMMA ServedAsHeld ==
  ASSUME TerminalAssumption, stamp' = stamp, (flags.on = Flagged(flags.row, flags.clock))',
         supplies'.is = supplies'.at, snapshot' \in {Booting, dbDerived}
  PROVE  /\ snapshot'.supply = snapshot'.at
         /\ (snapshot.flagged = Flagged(snapshot.row, snapshot.clock))'
<1>1. CASE snapshot' = Booting
  <2>1. Flagged(NoSends, LiveSample)' = FALSE
    BY NobodyIsFlagged, RuleStands
  <2> QED
    BY <1>1, <2>1 DEF Booting
<1>2. CASE snapshot' = dbDerived
  BY <1>2 DEF dbDerived
<1> QED
  BY <1>1, <1>2

\* What neither judges nor publishes leaves both as they were.
LEMMA HeldGoesOn ==
  ASSUME DatedInv, stamp' = stamp, UNCHANGED <<flags, clockMeta, spanClock, snapshot>>,
         supplies'.is = supplies'.at, suppliesMeta'.is = suppliesMeta'.at, phase # "down"
  PROVE  DatedInv'
<1>1. (flags.on = Flagged(flags.row, flags.clock))' /\ (snapshot.flagged = Flagged(snapshot.row, snapshot.clock))'
  BY RuleStands DEF DatedInv, PublishedAsMeasured
<1> QED
  BY <1>1 DEF DatedInv, PublishedAsMeasured

LEMMA SupplyIsDated ==
  ASSUME DatedInv, ReadSupplies
  PROVE  supplies'.is = supplies'.at /\ suppliesMeta'.is = suppliesMeta'.at
BY DEF DatedInv, PublishedAsMeasured, ReadSupplies, refreshSupplies

LEMMA DatedStep ==
  ASSUME TerminalAssumption, DatedInv, [Next]_vars
  PROVE  DatedInv'
<1> USE DEF chain, database, measures, walk
<1>1. CASE Boot
  <2>1. refreshNoisy(clockMeta) /\ stamp' = stamp /\ spanClock' = clockMeta
    BY <1>1 DEF Boot, loadClock
  <2>2. /\ (flags.on = Flagged(flags.row, flags.clock))' /\ flags'.clock = clockMeta /\ clockMeta' = clockMeta
    BY <2>1, RefreshKeeps
  <2>3. supplies'.is = supplies'.at /\ suppliesMeta'.is = suppliesMeta'.at
    BY <1>1 DEF Boot, loadPersistedSupplies, DatedInv
  <2>4. snapshot' \in {Booting, dbDerived}
    BY <1>1 DEF Boot, snapshotFromDb
  <2> QED
    BY <2>1, <2>2, <2>3, <2>4, ServedAsHeld DEF DatedInv, PublishedAsMeasured
<1>2. ASSUME NEW read \in BOOLEAN, NEW behind \in BOOLEAN, Anchor(read, behind)
      PROVE  DatedInv'
  <2> DEFINE back == IF behind /\ head > HeaderSpan THEN head - HeaderSpan ELSE None
  <2>1. /\ measureClock(head, read, back) /\ refreshNoisy(spanClock')
        /\ stamp' = stamp /\ supplies' = supplies /\ suppliesMeta' = suppliesMeta /\ snapshot' = snapshot
        /\ phase # "down"
    BY <1>2 DEF Anchor
  <2> HIDE DEF back
  <2>2. spanClock' = LiveSample => spanClock = LiveSample
    BY <2>1, ClockGoesOn
  <2> DEFINE c == spanClock'
  <2>3. c = spanClock'
    OBVIOUS
  <2> HIDE DEF c
  <2>4. /\ (flags.on = Flagged(flags.row, flags.clock))' /\ flags'.clock = c
        /\ clockMeta' = IF c = LiveSample THEN clockMeta ELSE c
    BY <2>1, <2>3, RefreshKeeps
  <2>5. (snapshot.flagged = Flagged(snapshot.row, snapshot.clock))'
    BY <2>1, RuleStands DEF DatedInv, PublishedAsMeasured
  <2> QED
    BY <2>1, <2>2, <2>3, <2>4, <2>5 DEF DatedInv, PublishedAsMeasured
<1>3. CASE BootSupplies \/ progressRefresh
  <2>1. /\ stamp' = stamp /\ ReadSupplies /\ UNCHANGED <<flags, spanClock, clockMeta>> /\ phase # "down"
        /\ snapshot' \in {Booting, dbDerived}
    BY <1>3 DEF BootSupplies, progressRefresh, snapshotFromDb
  <2>2. (flags.on = Flagged(flags.row, flags.clock))'
    BY <2>1, RuleStands DEF DatedInv
  <2> QED
    BY <2>1, <2>2, SupplyIsDated, ServedAsHeld DEF DatedInv, PublishedAsMeasured
<1>4. CASE backfill
  <2>1. /\ stamp' = stamp /\ UNCHANGED <<supplies, suppliesMeta, snapshot, spanClock>> /\ phase # "down"
        /\ \/ /\ flags' = [on |-> Flagged(sent', spanClock), row |-> sent', clock |-> spanClock]
              /\ clockMeta' = IF spanClock = LiveSample THEN clockMeta ELSE spanClock
           \/ UNCHANGED <<flags, clockMeta>>
    BY <1>4 DEF backfill
  <2>2. CASE UNCHANGED <<flags, clockMeta>>
    BY <2>1, <2>2, HeldGoesOn DEF DatedInv, PublishedAsMeasured
  <2>3. CASE /\ flags' = [on |-> Flagged(sent', spanClock), row |-> sent', clock |-> spanClock]
             /\ clockMeta' = IF spanClock = LiveSample THEN clockMeta ELSE spanClock
    <3>1. flags'.on = Flagged(sent', spanClock) /\ flags'.row = sent' /\ flags'.clock = spanClock
      BY <2>3
    <3>2. (flags.on = Flagged(flags.row, flags.clock))'
      BY <2>1, <3>1 DEF Flagged, Span, Time
    <3>3. (snapshot.flagged = Flagged(snapshot.row, snapshot.clock))'
      BY <2>1, RuleStands DEF DatedInv, PublishedAsMeasured
    <3> QED
      BY <2>1, <2>3, <3>1, <3>2, <3>3 DEF DatedInv, PublishedAsMeasured
  <2> QED
    BY <2>1, <2>2, <2>3
<1>5. CASE TickHeadFails \/ TickFails
  <2>1. /\ stamp' = stamp /\ UNCHANGED <<flags, spanClock, clockMeta, supplies, suppliesMeta>> /\ phase # "down"
        /\ snapshot' \in {Booting, dbDerived}
    BY <1>5 DEF TickHeadFails, TickFails, Fails, degrade, snapshotFromDb
  <2>2. (flags.on = Flagged(flags.row, flags.clock))'
    BY <2>1, RuleStands DEF DatedInv
  <2> QED
    BY <2>1, <2>2, ServedAsHeld DEF DatedInv, PublishedAsMeasured
<1>6. ASSUME NEW read \in BOOLEAN, NEW due \in BOOLEAN, TickHeaders(read, due)
      PROVE  DatedInv'
  <2>1. /\ measureClock(latest, read, None) /\ ReadSupplies
        /\ stamp' = stamp /\ snapshot' = snapshot /\ phase # "down"
        /\ refreshNoisy(spanClock') \/ UNCHANGED <<flags, clockMeta>>
    BY <1>6 DEF TickHeaders
  <2>2. spanClock' = LiveSample => spanClock = LiveSample
    BY <2>1, ClockGoesOn
  <2>3. (snapshot.flagged = Flagged(snapshot.row, snapshot.clock))'
    BY <2>1, RuleStands DEF DatedInv, PublishedAsMeasured
  <2>4. CASE refreshNoisy(spanClock')
    <3> DEFINE c == spanClock'
    <3>1. c = spanClock'
      OBVIOUS
    <3> HIDE DEF c
    <3>2. /\ (flags.on = Flagged(flags.row, flags.clock))' /\ flags'.clock = c
          /\ clockMeta' = IF c = LiveSample THEN clockMeta ELSE c
      BY <2>1, <2>4, <3>1, RefreshKeeps
    <3> QED
      BY <2>1, <2>2, <2>3, <3>1, <3>2, SupplyIsDated DEF DatedInv, PublishedAsMeasured
  <2>5. CASE UNCHANGED <<flags, clockMeta>>
    <3>1. (flags.on = Flagged(flags.row, flags.clock))'
      BY <2>1, <2>5, RuleStands DEF DatedInv
    <3> QED
      BY <2>1, <2>2, <2>3, <2>5, <3>1, SupplyIsDated DEF DatedInv, PublishedAsMeasured
  <2> QED
    BY <2>1, <2>4, <2>5
<1>7. ASSUME NEW seeded \in BOOLEAN, Publish(seeded)
      PROVE  DatedInv'
  <2>1. /\ stamp' = stamp /\ UNCHANGED <<flags, spanClock, clockMeta, supplies, suppliesMeta>> /\ phase # "down"
        /\ snapshot' = dbDerived
    BY <1>7 DEF Publish, buildSnapshot
  <2>2. (flags.on = Flagged(flags.row, flags.clock))'
    BY <2>1, RuleStands DEF DatedInv
  <2> QED
    BY <2>1, <2>2, ServedAsHeld DEF DatedInv, PublishedAsMeasured
<1>8. CASE Crash
  <2>1. /\ flags' = [on |-> FALSE, row |-> NoSends, clock |-> LiveSample] /\ stamp' = stamp /\ phase' = "down"
        /\ supplies' = [is |-> None, at |-> None] /\ suppliesMeta' = suppliesMeta /\ snapshot' = Booting
    BY <1>8 DEF Crash
  <2>2. Flagged(NoSends, LiveSample)' = FALSE
    BY <2>1, NobodyIsFlagged, RuleStands
  <2> QED
    BY <2>1, <2>2 DEF DatedInv, PublishedAsMeasured, Booting
<1>9. CASE AnchorFails \/ adjustBackfill \/ WalkFails \/ TickHead \/ Index
  <2>1. stamp' = stamp /\ UNCHANGED <<flags, clockMeta, spanClock, snapshot, supplies, suppliesMeta>> /\ phase # "down"
    BY <1>9 DEF AnchorFails, adjustBackfill, WalkFails, TickHead, Index
  <2> QED
    BY <2>1, HeldGoesOn DEF DatedInv, PublishedAsMeasured
<1>10. CASE NewBlock \/ SupplyMoves \/ UNCHANGED vars
  <2>1. UNCHANGED <<stamp, flags, clockMeta, spanClock, snapshot, supplies, suppliesMeta, phase>>
    BY <1>10 DEF NewBlock, SupplyMoves, vars
  <2>2. (flags.on = Flagged(flags.row, flags.clock))' /\ (snapshot.flagged = Flagged(snapshot.row, snapshot.clock))'
    BY <2>1, RuleStands DEF DatedInv, PublishedAsMeasured
  <2> QED
    BY <2>1, <2>2 DEF DatedInv, PublishedAsMeasured
<1> QED
  BY <1>1, <1>2, <1>3, <1>4, <1>5, <1>6, <1>7, <1>8, <1>9, <1>10 DEF Next, Process

----------------------------------------------------------------------------
(* The adjusted volume (Terminal).                                          *)

\* A set of blocks counts what its parts count, and noise only adds to it.
LEMMA CountedIsANumber ==
  ASSUME NEW S, IsFiniteSet(S), NEW at, NEW keepsNoise, NEW m
  PROVE  Counted(S, at, keepsNoise, m) \in Nat
<1> DEFINE plain == {b \in S : ~bots[b] /\ at[b] = m}
           noise == {b \in S : keepsNoise /\ bots[b] /\ at[b] = m}
<1>1. plain \in SUBSET S /\ noise \in SUBSET S
  OBVIOUS
<1> HIDE DEF plain, noise
<1>2. Cardinality(plain) \in Nat /\ Cardinality(noise) \in Nat
  BY <1>1, FS_Subset, FS_CardinalityType
<1>3. Cardinality(plain) + 2 * Cardinality(noise) \in Nat
  BY <1>2
<1> QED
  BY <1>3 DEF Counted, plain, noise

LEMMA DisjointSizes ==
  ASSUME NEW S, IsFiniteSet(S), NEW T, IsFiniteSet(T), S \cap T = {}
  PROVE  Cardinality(S \cup T) = Cardinality(S) + Cardinality(T)
<1>1. Cardinality(S \cap T) = 0
  BY FS_EmptySet
<1>2. Cardinality(S) \in Nat /\ Cardinality(T) \in Nat
  BY FS_CardinalityType
<1>3. Cardinality(S \cup T) = Cardinality(S) + Cardinality(T) - Cardinality(S \cap T)
  BY FS_Union
<1> QED
  BY <1>1, <1>2, <1>3

LEMMA CountedApart ==
  ASSUME NEW S, IsFiniteSet(S), NEW T, IsFiniteSet(T), S \cap T = {}, NEW at, NEW keepsNoise, NEW m
  PROVE  Counted(S \cup T, at, keepsNoise, m) = Counted(S, at, keepsNoise, m) + Counted(T, at, keepsNoise, m)
<1> DEFINE plainS == {b \in S : ~bots[b] /\ at[b] = m}
           plainT == {b \in T : ~bots[b] /\ at[b] = m}
           noiseS == {b \in S : keepsNoise /\ bots[b] /\ at[b] = m}
           noiseT == {b \in T : keepsNoise /\ bots[b] /\ at[b] = m}
<1>1. /\ {b \in S \cup T : ~bots[b] /\ at[b] = m} = plainS \cup plainT /\ plainS \cap plainT = {}
      /\ {b \in S \cup T : keepsNoise /\ bots[b] /\ at[b] = m} = noiseS \cup noiseT
      /\ noiseS \cap noiseT = {}
  OBVIOUS
<1>2. plainS \in SUBSET S /\ plainT \in SUBSET T /\ noiseS \in SUBSET S /\ noiseT \in SUBSET T
  OBVIOUS
<1>3. /\ Counted(S \cup T, at, keepsNoise, m) = Cardinality(plainS \cup plainT) + 2 * Cardinality(noiseS \cup noiseT)
      /\ Counted(S, at, keepsNoise, m) = Cardinality(plainS) + 2 * Cardinality(noiseS)
      /\ Counted(T, at, keepsNoise, m) = Cardinality(plainT) + 2 * Cardinality(noiseT)
  BY <1>1 DEF Counted
<1> HIDE DEF plainS, plainT, noiseS, noiseT
<1>4. IsFiniteSet(plainS) /\ IsFiniteSet(plainT) /\ IsFiniteSet(noiseS) /\ IsFiniteSet(noiseT)
  BY <1>2, FS_Subset
<1>5. /\ Cardinality(plainS) \in Nat /\ Cardinality(plainT) \in Nat
      /\ Cardinality(noiseS) \in Nat /\ Cardinality(noiseT) \in Nat
  BY <1>4, FS_CardinalityType
<1>6. Cardinality(plainS \cup plainT) = Cardinality(plainS) + Cardinality(plainT)
  BY <1>1, <1>4, DisjointSizes
<1>7. Cardinality(noiseS \cup noiseT) = Cardinality(noiseS) + Cardinality(noiseT)
  BY <1>1, <1>4, DisjointSizes
<1> QED
  BY <1>3, <1>5, <1>6, <1>7

LEMMA NoiseOnlyAdds ==
  ASSUME NEW S, IsFiniteSet(S), NEW at, NEW keepsNoise \in BOOLEAN, NEW m
  PROVE  Counted(S, at, keepsNoise, m) <= Counted(S, at, TRUE, m)
<1> DEFINE plain == {b \in S : ~bots[b] /\ at[b] = m}
           noise == {b \in S : keepsNoise /\ bots[b] /\ at[b] = m}
           allNoise == {b \in S : bots[b] /\ at[b] = m}
<1>1. plain \in SUBSET S /\ allNoise \in SUBSET S /\ noise \in SUBSET allNoise
  OBVIOUS
<1>2. Counted(S, at, TRUE, m) = Cardinality(plain) + 2 * Cardinality(allNoise)
  BY DEF Counted
<1>3. Counted(S, at, keepsNoise, m) = Cardinality(plain) + 2 * Cardinality(noise)
  BY DEF Counted
<1> HIDE DEF plain, noise, allNoise
<1>4. IsFiniteSet(allNoise) /\ IsFiniteSet(noise) /\ IsFiniteSet(plain)
  BY <1>1, FS_Subset
<1>5. /\ Cardinality(noise) <= Cardinality(allNoise)
      /\ Cardinality(allNoise) \in Nat /\ Cardinality(noise) \in Nat /\ Cardinality(plain) \in Nat
  BY <1>1, <1>4, FS_Subset, FS_CardinalityType
<1>6. Cardinality(plain) + 2 * Cardinality(noise) <= Cardinality(plain) + 2 * Cardinality(allNoise)
  BY <1>5
<1> QED
  BY <1>2, <1>3, <1>6

LEMMA NothingIsCounted ==
  ASSUME NEW S, NEW at, NEW keepsNoise, NEW m, \A b \in S : at[b] # m
  PROVE  Counted(S, at, keepsNoise, m) = 0
<1>1. {b \in S : ~bots[b] /\ at[b] = m} = {} /\ {b \in S : keepsNoise /\ bots[b] /\ at[b] = m} = {}
  OBVIOUS
<1>2. Cardinality({}) = 0
  BY FS_EmptySet
<1> QED
  BY <1>1, <1>2 DEF Counted

\* Two datings of S that put the same blocks in minute m.
Alike(at, other, S, m) == \A b \in S : at[b] = m <=> other[b] = m

LEMMA SameDates ==
  ASSUME NEW S, NEW at, NEW other, NEW keepsNoise, NEW m, Alike(at, other, S, m)
  PROVE  Counted(S, at, keepsNoise, m) = Counted(S, other, keepsNoise, m)
<1>1. {b \in S : ~bots[b] /\ at[b] = m} = {b \in S : ~bots[b] /\ other[b] = m}
  BY DEF Alike
<1>2. {b \in S : keepsNoise /\ bots[b] /\ at[b] = m} = {b \in S : keepsNoise /\ bots[b] /\ other[b] = m}
  BY DEF Alike
<1> QED
  BY <1>1, <1>2 DEF Counted

LEMMA MinutesInOrder ==
  ASSUME TerminalAssumption, NEW x \in Nat, NEW y \in Nat, x <= y
  PROVE  x \div PerMinute \in Nat /\ y \div PerMinute \in Nat /\ x \div PerMinute <= y \div PerMinute
<1> DEFINE k == PerMinute
<1>1. k \in Nat /\ k > 0
  BY DEF TerminalAssumption
<1>2. x \div k \in Int /\ y \div k \in Int
  BY <1>1
<1>3. x = k * (x \div k) + (x % k) /\ x % k \in 0 .. k - 1
  BY <1>1
<1>4. y = k * (y \div k) + (y % k) /\ y % k \in 0 .. k - 1
  BY <1>1
<1>5. ASSUME x \div k > y \div k
      PROVE  FALSE
  <2> DEFINE p == x \div k
             q == y \div k
  <2>1. p \in Int /\ q \in Int /\ p >= q + 1
    BY <1>2, <1>5
  <2>2. x >= k * p /\ y < k * q + k
    BY <1>1, <1>2, <1>3, <1>4
  <2> HIDE DEF p, q
  <2>3. k * (p - (q + 1)) >= 0
    BY <1>1, <2>1
  <2>4. k * (p - (q + 1)) = k * p - (k * q + k)
    BY <1>1, <2>1
  <2>5. k * p \in Int /\ k * q \in Int
    BY <1>1, <2>1
  <2> QED
    BY <1>1, <2>2, <2>3, <2>4, <2>5
<1>6. x \div k >= 0
  <2> DEFINE p == x \div k
             e == x % k
  <2>1. p \in Int /\ x = k * p + e /\ e < k /\ e \in Int
    BY <1>1, <1>2, <1>3
  <2> HIDE DEF p, e
  <2>2. ASSUME p <= -1
        PROVE  FALSE
    <3>1. k * (-1 - p) >= 0 /\ k * (-1 - p) = 0 - k - k * p /\ k * p \in Int
      BY <1>1, <2>1, <2>2
    <3> QED
      BY <1>1, <2>1, <3>1
  <2>3. p >= 0
    BY <2>1, <2>2
  <2> QED
    BY <2>3 DEF p
<1> QED
  BY <1>2, <1>5, <1>6

\* A share of d lies between none and all of it.
LEMMA ShareInRange ==
  ASSUME NEW n \in Nat, n > 0, NEW d \in Nat, NEW x \in 0 .. n
  PROVE  /\ (x * d) \div n \in 0 .. d
         /\ (0 * d) \div n = 0 /\ (n * d) \div n = d
<1>1. \A y \in Nat : /\ y \div n \in Int /\ y % n \in 0 .. n - 1
                    /\ y = n * (y \div n) + (y % n)
  OBVIOUS
<1>2. x * d \in Nat /\ x * d <= n * d /\ n * d \in Nat /\ 0 * d = 0
  <2>1. (n - x) * d >= 0 /\ (n - x) * d = n * d - x * d
    OBVIOUS
  <2>2. x * d \in Nat /\ n * d \in Nat
    OBVIOUS
  <2> QED
    BY <2>1, <2>2
<1>3. \A q, k \in Int, e \in 0 .. n - 1 : n * q + e >= n * k => q >= k
  <2> SUFFICES ASSUME NEW q \in Int, NEW k \in Int, NEW e \in 0 .. n - 1, n * q + e >= n * k, ~(q >= k)
               PROVE  FALSE
    OBVIOUS
  <2>1. k - q - 1 \in Nat
    OBVIOUS
  <2>2. n * (k - q - 1) >= 0 /\ n * (k - q - 1) = n * k - n * q - n
    BY <2>1
  <2>3. n * q \in Int /\ n * k \in Int
    OBVIOUS
  <2> QED
    BY <2>2, <2>3
<1>4. \A q, k \in Int, e \in 0 .. n - 1 : n * q + e <= n * k => q <= k
  <2> SUFFICES ASSUME NEW q \in Int, NEW k \in Int, NEW e \in 0 .. n - 1, n * q + e <= n * k, ~(q <= k)
               PROVE  FALSE
    OBVIOUS
  <2>1. q - k - 1 \in Nat
    OBVIOUS
  <2>2. n * (q - k - 1) >= 0 /\ n * (q - k - 1) = n * q - n * k - n
    BY <2>1
  <2>3. n * q \in Int /\ n * k \in Int
    OBVIOUS
  <2> QED
    BY <2>2, <2>3
<1>5. \A y \in Nat, k \in Nat : /\ y >= n * k => y \div n >= k
                               /\ y <= n * k => y \div n <= k
  <2> SUFFICES ASSUME NEW y \in Nat, NEW k \in Nat
               PROVE  /\ y >= n * k => y \div n >= k
                      /\ y <= n * k => y \div n <= k
    OBVIOUS
  <2> DEFINE q == y \div n
             e == y % n
  <2>1. q \in Int /\ e \in 0 .. n - 1 /\ y = n * q + e /\ k \in Int
    BY <1>1
  <2> HIDE DEF q, e
  <2>2. (y >= n * k => q >= k) /\ (y <= n * k => q <= k)
    BY <1>3, <1>4, <2>1
  <2> QED
    BY <2>2 DEF q
<1>6. n * 0 = 0
  OBVIOUS
<1> DEFINE piece == x * d
           all == n * d
<1>7. piece \in Nat /\ all \in Nat /\ piece <= n * d /\ piece >= n * 0 /\ all = n * d
  BY <1>2, <1>6
<1> HIDE DEF piece, all
<1>8. piece \div n \in Int /\ piece \div n >= 0 /\ piece \div n <= d
  BY <1>1, <1>5, <1>7
<1>9. all \div n \in Int /\ all \div n >= d /\ all \div n <= d
  BY <1>1, <1>5, <1>7
<1>10. 0 \div n \in Int /\ 0 \div n >= 0 /\ 0 \div n <= 0
  BY <1>1, <1>5, <1>6
<1>11. (x * d) \div n \in 0 .. d
  BY <1>8 DEF piece
<1>12. (n * d) \div n = d
  BY <1>9 DEF all
<1> QED
  BY <1>2, <1>10, <1>11, <1>12

LEMMA MaxOfRange ==
  ASSUME NEW a \in Int, NEW b \in Int, a <= b
  PROVE  Max(a .. b) = b /\ Min(a .. b) = a
<1>1. \A x \in a .. b : b >= x /\ a <= x
  OBVIOUS
<1>2. b \in a .. b /\ a \in a .. b
  OBVIOUS
<1>3. \A x \in a .. b : (\A y \in a .. b : x >= y) => x = b
  BY <1>2
<1>4. \A x \in a .. b : (\A y \in a .. b : x <= y) => x = a
  BY <1>2
<1>5. Max(a .. b) = b
  BY <1>1, <1>2, <1>3 DEF Max
<1>6. Min(a .. b) = a
  BY <1>1, <1>2, <1>4 DEF Min
<1> QED
  BY <1>5, <1>6

LEMMA MaxOfTwo ==
  ASSUME NEW a \in Int, NEW b \in Int
  PROVE  Max({a, b}) \in {a, b} /\ Max({a, b}) >= a /\ Max({a, b}) >= b
<1> DEFINE both == {a, b}
<1>1. \E x \in both : \A y \in both : x >= y
  OBVIOUS
<1>2. Max(both) \in both /\ \A y \in both : Max(both) >= y
  BY <1>1 DEF Max
<1> QED
  BY <1>2

\* A clock between two blocks, or none yet.
Clocks == {LiveSample} \cup {c \in [from : Blocks, to : Blocks] : c.from < c.to}

ChainType ==
  /\ stamp \in [Blocks -> Nat]
  /\ \A a, b \in Blocks : a < b => stamp[a] <= stamp[b]
  /\ \A b \in Blocks : stamp[b] >= MaxBlock
  /\ head \in Blocks /\ head > MaxBackfill

StoreType ==
  /\ checkpoint \in {None} \cup Blocks
  /\ indexFrom \in {None} \cup Blocks /\ (checkpoint # None => indexFrom # None)
  /\ unread \in {None} \cup Nat
  /\ real \in [Minutes -> Nat] /\ adjusted \in [Minutes -> Nat]

MeasureType ==
  /\ spanClock \in Clocks /\ clockMeta \in Clocks /\ clockRef \in {None} \cup Blocks
  /\ flags.on \in BOOLEAN

\* Where a walk is: what is read next lies within what was asked for.
WalkType ==
  /\ phase \in {"supplies", "backfill", "adjust", "headers", "index"} => latest \in Blocks
  /\ phase = "supplies" => latest > MaxBackfill
  /\ phase \in {"backfill", "adjust"} => start \in Blocks /\ next \in start .. latest
  /\ phase = "index" => next \in 1 .. latest
  /\ phase \in {"backfill", "index"} => indexFrom # None
  /\ phase \in {"adjust", "publish"} => checkpoint # None
  /\ phase = "adjust" => coldRun
  /\ phase # "adjust" => scored = Nothing
  /\ phase \notin {"adjust", "wait"} => first = None /\ last = None

\* An empty database has nobody to flag.
NobodyYet == checkpoint = None => real = Nothing /\ adjusted = Nothing /\ sent = NoSends /\ ~flags.on

DatesType ==
  /\ dated \in [Blocks -> Nat] /\ scored \in [Minutes -> Nat]
  /\ first \in {None} \cup Nat /\ last \in {None} \cup Nat /\ (first = None => last = None)

\* What both readings date alike lies within the minutes the second went through.
ReadWithin ==
  \A b \in start .. next - 1 : dated[b] \in moved \/ (first <= dated[b] /\ dated[b] <= last)

\* How far a backfill of an empty database has got: every minute is what its
\* blocks make it, first with the noise, then, read again, without.
ColdRunCounts ==
  coldRun =>
    /\ phase \in {"backfill", "adjust", "wait"}
    /\ start \in Blocks /\ latest \in Blocks /\ start <= latest
    /\ phase = "backfill" =>
         /\ ~flags.on
         /\ \A m \in Minutes : real[m] = Counted(start .. next - 1, dated, TRUE, m) /\ adjusted[m] = real[m]
    /\ phase = "adjust" =>
         /\ flags.on
         /\ \A m \in Minutes : real[m] = Counted(start .. latest, dated, TRUE, m) /\ adjusted[m] = real[m]
         /\ \A m \in Minutes \ moved : scored[m] = Counted(start .. next - 1, dated, FALSE, m)
         /\ ReadWithin
    /\ phase = "wait" => \A m \in Minutes \ moved : adjusted[m] = Counted(start .. latest, dated, ~flags.on, m)

LessThanAll == \A m \in Minutes \ moved : adjusted[m] <= real[m]

AdjustedInv ==
  ChainType /\ StoreType /\ MeasureType /\ WalkType /\ NobodyYet /\ DatesType /\ ColdRunCounts /\ LessThanAll

LEMMA FlaggedIsBoolean == \A s, c : Flagged(s, c) \in BOOLEAN
BY DEF Flagged

LEMMA Apart ==
  ASSUME NEW a \in Nat, NEW b \in Nat
  PROVE  a - b \in Int /\ (b < a => a - b \in Nat)
OBVIOUS

LEMMA BothGrow ==
  ASSUME NEW a \in Nat, NEW b \in Nat, a <= b, NEW c \in Nat, NEW d \in Nat, c <= d
  PROVE  b + d \in Nat /\ a + c \in Nat /\ a + c <= b + d
OBVIOUS

LEMMA NoSenderIsFlagged ==
  ASSUME TerminalAssumption, ChainType, NEW c \in Clocks
  PROVE  Flagged(NoSends, c) = FALSE
<1>1. Span(c) \in Nat /\ Time(c) \in Int
  <2>1. CASE c = LiveSample
    BY <2>1 DEF Span, Time
  <2>2. CASE c # LiveSample
    <3>1. c.from \in Blocks /\ c.to \in Blocks /\ c.from < c.to
      BY <2>2 DEF Clocks
    <3>2. stamp[c.from] \in Nat /\ stamp[c.to] \in Nat
      BY <3>1 DEF ChainType
    <3>3. Blocks \subseteq Nat
      BY DEF Blocks, TerminalAssumption
    <3>4. c.from \in Nat /\ c.to \in Nat
      BY <3>1, <3>3
    <3>5. Span(c) = c.to - c.from /\ Time(c) = stamp[c.to] - stamp[c.from]
      BY <2>2 DEF Span, Time
    <3>6. c.to - c.from \in Nat /\ stamp[c.to] - stamp[c.from] \in Int
      BY <3>1, <3>2, <3>4, Apart
    <3> QED
      BY <3>5, <3>6
  <2> QED
    BY <2>1, <2>2
<1> DEFINE s == Span(c)
           t == Time(c)
<1>2. s \in Nat /\ t \in Int
  BY <1>1
<1> HIDE DEF s, t
<1>3. MinDays * s \in Nat /\ 0 * s = 0 /\ (0 - 0) * t = 0
  BY <1>2 DEF TerminalAssumption
<1> DEFINE d == MinDays * s
<1>4. Max({d, 0}) \in Nat
  <2>1. d \in Nat /\ d \in Int /\ 0 \in Int
    BY <1>3
  <2> HIDE DEF d
  <2>2. Max({d, 0}) \in {d, 0}
    BY <2>1, MaxOfTwo
  <2> QED
    BY <2>1, <2>2
<1>5. PerDay * Max({d, 0}) \in Nat
  <2>1. PerDay \in Nat
    BY DEF TerminalAssumption
  <2> HIDE DEF d
  <2> QED
    BY <1>4, <2>1
<1>6. Flagged(NoSends, c) <=> (0 * s > PerDay * Max({d, (0 - 0) * t}))
  BY DEF Flagged, NoSends, s, t
<1>7. Flagged(NoSends, c) <=> (0 > PerDay * Max({d, 0}))
  BY <1>3, <1>6
<1> HIDE DEF d
<1>8. ~(0 > PerDay * Max({d, 0}))
  BY <1>5
<1> QED
  BY <1>7, <1>8, FlaggedIsBoolean

LEMMA AdjustedInit ==
  ASSUME TerminalAssumption, Init
  PROVE  AdjustedInv
<1>1. PICK c \in Chains : stamp = c.stamp /\ bots = c.bots
  BY DEF Init
<1>2. ChainType
  <2>1. /\ stamp \in [1 .. MaxBlock -> Nat] /\ stamp[1] >= MaxBlock /\ MaxBlock \in Nat /\ MaxBlock > 0
        /\ \A a, b \in 1 .. MaxBlock : a < b => stamp[a] <= stamp[b]
    BY <1>1 DEF TerminalAssumption
  <2>2. ASSUME NEW b \in 1 .. MaxBlock
        PROVE  stamp[b] >= MaxBlock
    <3>1. 1 \in 1 .. MaxBlock /\ stamp[1] \in Nat /\ stamp[b] \in Nat /\ (b = 1 \/ 1 < b)
      BY <2>1
    <3>2. b = 1 \/ stamp[1] <= stamp[b]
      BY <2>1, <3>1
    <3> QED
      BY <2>1, <3>1, <3>2
  <2>3. head \in 1 .. MaxBlock /\ head > MaxBackfill
    BY DEF Init, TerminalAssumption
  <2> QED
    BY <2>1, <2>2, <2>3 DEF ChainType, Blocks
<1>d. DatesType
  <2>1. \A b \in Blocks : stamp[b] \in Nat /\ stamp[b] <= stamp[b]
    BY <1>2 DEF ChainType
  <2>2. \A b \in Blocks : stamp[b] \div PerMinute \in Nat
    BY <2>1, MinutesInOrder
  <2>3. dated = [b \in Blocks |-> stamp[b] \div PerMinute] /\ scored = Nothing /\ first = None /\ last = None
    BY DEF Init, minuteOf
  <2> QED
    BY <2>2, <2>3 DEF DatesType, Nothing
<1>3. MeasureType
  BY DEF Init, MeasureType, Clocks
<1>4. Nothing \in [Minutes -> Nat]
  BY DEF Nothing
<1>5. CASE checkpoint = None /\ indexFrom = None /\ unread = None /\ sent = NoSends /\ real = Nothing /\ adjusted = Nothing
  <2>1. StoreType /\ NobodyYet
    BY <1>4, <1>5 DEF Init, StoreType, NobodyYet
  <2>2. LessThanAll
    BY <1>5 DEF LessThanAll, Nothing
  <2> QED
    BY <1>2, <1>3, <1>d, <2>1, <2>2 DEF Init, AdjustedInv, WalkType, ColdRunCounts
<1>6. ASSUME NEW cp \in 1 .. MaxBackfill, checkpoint = cp, indexFrom = 1, unread = cp, sent = NoSends,
             real = [m \in Minutes |-> Counted(1 .. cp, [b \in Blocks |-> minuteOf(stamp[b])], TRUE, m)], adjusted = real
      PROVE  AdjustedInv
  <2>1. cp \in Blocks /\ 1 \in Blocks /\ cp \in Nat /\ 1 \in Int /\ cp \in Int /\ cp # None /\ 1 # None
    BY DEF Blocks, TerminalAssumption, None
  <2>2. IsFiniteSet(1 .. cp)
    BY <2>1, FS_Interval
  <2>3. \A m \in Minutes : Counted(1 .. cp, [b \in Blocks |-> minuteOf(stamp[b])], TRUE, m) \in Nat
    BY <2>2, CountedIsANumber
  <2>4. real \in [Minutes -> Nat] /\ adjusted = real /\ checkpoint = cp /\ indexFrom = 1 /\ unread = cp
    BY <1>6, <2>3
  <2>5. LessThanAll
    BY <2>4 DEF LessThanAll
  <2>6. StoreType /\ NobodyYet
    BY <2>1, <2>4 DEF StoreType, NobodyYet
  <2> QED
    BY <1>2, <1>3, <1>d, <2>5, <2>6 DEF Init, AdjustedInv, WalkType, ColdRunCounts
<1> QED
  BY <1>5, <1>6 DEF Init

\* A range that is read begins at next and ends no later than latest.
LEMMA EndsInRange ==
  ASSUME TerminalAssumption, next \in Int, latest \in Int, next <= latest
  PROVE  /\ Ends \subseteq next .. latest
         /\ Least(latest, next + Chunk - 1) \in next .. latest
<1>1. Chunk \in Nat /\ Chunk > 0
  BY DEF TerminalAssumption
<1>2. Least(latest, next + Chunk - 1) \in next .. latest
  BY <1>1 DEF Least
<1>3. Ends = next .. Least(latest, next + Chunk - 1)
  BY DEF Ends
<1> DEFINE e == Least(latest, next + Chunk - 1)
<1>4. e \in Int /\ e <= latest
  BY <1>2
<1> HIDE DEF e
<1>5. next .. e \subseteq next .. latest
  BY <1>4
<1> QED
  BY <1>2, <1>3, <1>5 DEF e

\* Along a range that is read, dates are in order; elsewhere they stand.
InOrder(at, a, z) ==
  /\ at \in [Blocks -> Nat]
  /\ \A b \in a .. z : at[a] <= at[b] /\ at[b] <= at[z]
  /\ \A b \in Blocks \ (a .. z) : at[b] = dated[b]

LEMMA ClockInOrder ==
  ASSUME TerminalAssumption, ChainType, latest \in Blocks, NEW a \in Blocks, NEW z \in Blocks, z <= latest,
         NEW served, NEW b \in a .. z
  PROVE  /\ tsAt(a, z, served, a) \in Nat /\ tsAt(a, z, served, b) \in Nat /\ tsAt(a, z, served, z) \in Nat
         /\ tsAt(a, z, served, a) <= tsAt(a, z, served, b)
         /\ tsAt(a, z, served, b) <= tsAt(a, z, served, z)
<1>1. Blocks = 1 .. MaxBlock /\ MaxBlock \in Nat /\ Blocks \subseteq Int
  BY DEF Blocks, TerminalAssumption
<1>2. b \in Blocks /\ a <= b /\ b <= z /\ a \in Int /\ z \in Int /\ b \in Int /\ latest \in Int
  BY <1>1
<1>3. stamp[a] \in Nat /\ stamp[z] \in Nat /\ stamp[latest] \in Nat /\ stamp[latest] >= MaxBlock
  BY DEF ChainType
<1>4. CASE served /\ a < z
  <2> DEFINE n == z - a
             d == stamp[z] - stamp[a]
             x == b - a
  <2>1. n \in Nat /\ n > 0 /\ x \in 0 .. n
    BY <1>2, <1>4
  <2>2. d \in Nat
    BY <1>3, <1>4 DEF ChainType
  <2>3. stamp[a] + d = stamp[z]
    BY <1>3
  <2>4. /\ tsAt(a, z, served, b) = stamp[a] + (x * d) \div n
        /\ tsAt(a, z, served, a) = stamp[a] + ((a - a) * d) \div n
        /\ tsAt(a, z, served, z) = stamp[a] + (n * d) \div n
    BY <1>4 DEF tsAt, chunkClock
  <2>5. a - a = 0
    BY <1>2
  <2> HIDE DEF n, d, x
  <2>6. (x * d) \div n \in 0 .. d /\ (0 * d) \div n = 0 /\ (n * d) \div n = d
    BY <2>1, <2>2, ShareInRange
  <2>7. /\ tsAt(a, z, served, a) = stamp[a] + 0 /\ tsAt(a, z, served, z) = stamp[a] + d
    BY <2>4, <2>5, <2>6
  <2> DEFINE share == (x * d) \div n
  <2>8. tsAt(a, z, served, b) = stamp[a] + share /\ share \in 0 .. d
    BY <2>4, <2>6
  <2> HIDE DEF share
  <2>9. \A p, w \in Nat : \A e \in 0 .. w : p + 0 \in Nat /\ p + e \in Nat /\ p + w \in Nat /\ p + 0 <= p + e /\ p + e <= p + w
    OBVIOUS
  <2> DEFINE early == tsAt(a, z, served, a)
             mid == tsAt(a, z, served, b)
             late == tsAt(a, z, served, z)
  <2>10. early = stamp[a] + 0 /\ late = stamp[a] + d /\ mid = stamp[a] + share
    BY <2>7, <2>8
  <2> HIDE DEF early, mid, late
  <2>11. early \in Nat /\ mid \in Nat /\ late \in Nat /\ early <= mid /\ mid <= late
    BY <1>3, <2>2, <2>8, <2>9, <2>10
  <2> QED
    BY <2>11 DEF early, mid, late
<1>5. CASE ~(served /\ a < z)
  <2>1. \A c : tsAt(a, z, served, c) = stamp[latest] - (latest - c)
    BY <1>5 DEF tsAt, approxTs
  <2>2. a >= 1 /\ latest <= MaxBlock
    BY <1>1
  <2>3. \A t, p \in Nat, l, k \in Int : p <= t /\ l <= p /\ k >= 1 => t - (l - k) \in Nat
    OBVIOUS
  <2>4. \A t \in Nat, l, k, g \in Int : k <= g => t - (l - k) <= t - (l - g)
    OBVIOUS
  <2>5. a >= 1 /\ b >= 1 /\ z >= 1
    BY <1>2, <2>2
  <2>6. \A c \in {a, b, z} : stamp[latest] - (latest - c) \in Nat
    BY <1>1, <1>2, <1>3, <2>2, <2>3, <2>5
  <2>7. /\ stamp[latest] - (latest - a) <= stamp[latest] - (latest - b)
        /\ stamp[latest] - (latest - b) <= stamp[latest] - (latest - z)
    BY <1>2, <1>3, <2>4
  <2> QED
    BY <2>1, <2>6, <2>7
<1> QED
  BY <1>4, <1>5

LEMMA RangeIsDated ==
  ASSUME TerminalAssumption, ChainType, DatesType, latest \in Blocks, NEW a \in Blocks, NEW z \in a .. latest, NEW served
  PROVE  InOrder(Dated(a, z, served), a, z)
<1>1. Blocks = 1 .. MaxBlock /\ MaxBlock \in Nat
  BY DEF Blocks, TerminalAssumption
<1>2. z \in Blocks /\ z <= latest /\ a .. z \subseteq Blocks /\ a \in a .. z /\ z \in a .. z
  BY <1>1
<1> DEFINE minute(b) == tsAt(a, z, served, b) \div PerMinute
<1>3. ASSUME NEW b \in a .. z
      PROVE  /\ minute(a) <= minute(b) /\ minute(b) <= minute(z)
             /\ minute(b) \in Nat
  <2>1. /\ tsAt(a, z, served, a) \in Nat /\ tsAt(a, z, served, b) \in Nat /\ tsAt(a, z, served, z) \in Nat
        /\ tsAt(a, z, served, a) <= tsAt(a, z, served, b)
        /\ tsAt(a, z, served, b) <= tsAt(a, z, served, z)
    BY <1>2, ClockInOrder
  <2>2. minute(a) <= minute(b) /\ minute(b) \in Nat
    BY <2>1, MinutesInOrder
  <2>3. minute(b) <= minute(z)
    BY <2>1, MinutesInOrder
  <2> QED
    BY <2>2, <2>3
<1> HIDE DEF minute
<1>4. Dated(a, z, served) = [b \in Blocks |-> IF b \in a .. z THEN minute(b) ELSE dated[b]]
  BY DEF Dated, minuteOf, minute
<1>5. \A b \in Blocks : b \notin a .. z => dated[b] \in Nat
  BY DEF DatesType
<1> QED
  BY <1>2, <1>3, <1>4, <1>5 DEF InOrder

\* processLogs: what a chunk adds, with its noise and as the set leaves it.
LEMMA LogsAdd ==
  ASSUME TerminalAssumption, StoreType, MeasureType, LessThanAll,
         NEW at, NEW a \in Int, NEW b \in Int, a <= b, processLogs(a .. b, at), moved' = moved
  PROVE  /\ checkpoint' = b
         /\ real' \in [Minutes -> Nat] /\ adjusted' \in [Minutes -> Nat]
         /\ LessThanAll'
         /\ \A m \in Minutes : /\ real'[m] = real[m] + Counted(a .. b, at, TRUE, m)
                               /\ adjusted'[m] = adjusted[m] + Counted(a .. b, at, ~flags.on, m)
<1>1. IsFiniteSet(a .. b)
  BY FS_Interval
<1>2. /\ checkpoint' = Max(a .. b)
      /\ real' = [m \in Minutes |-> real[m] + Counted(a .. b, at, TRUE, m)]
      /\ adjusted' = [m \in Minutes |-> adjusted[m] + Counted(a .. b, at, ~flags.on, m)]
  BY DEF processLogs
<1>3. (~flags.on) \in BOOLEAN
  BY DEF MeasureType
<1>4. ASSUME NEW m \in Minutes
      PROVE  /\ Counted(a .. b, at, TRUE, m) \in Nat /\ Counted(a .. b, at, ~flags.on, m) \in Nat
             /\ Counted(a .. b, at, ~flags.on, m) <= Counted(a .. b, at, TRUE, m)
             /\ real[m] \in Nat /\ adjusted[m] \in Nat /\ (m \notin moved => adjusted[m] <= real[m])
  <2>1. Counted(a .. b, at, TRUE, m) \in Nat
    BY <1>1, CountedIsANumber
  <2>2. Counted(a .. b, at, ~flags.on, m) \in Nat
    BY <1>1, CountedIsANumber
  <2>3. Counted(a .. b, at, ~flags.on, m) <= Counted(a .. b, at, TRUE, m)
    BY <1>1, <1>3, NoiseOnlyAdds
  <2> QED
    BY <2>1, <2>2, <2>3 DEF StoreType, LessThanAll
<1>5. \A m \in Minutes : /\ real'[m] = real[m] + Counted(a .. b, at, TRUE, m)
                         /\ adjusted'[m] = adjusted[m] + Counted(a .. b, at, ~flags.on, m)
  BY <1>2
<1>6. ASSUME NEW m \in Minutes
      PROVE  real'[m] \in Nat /\ adjusted'[m] \in Nat /\ (m \notin moved => adjusted'[m] <= real'[m])
  <2> DEFINE all == Counted(a .. b, at, TRUE, m)
             left == Counted(a .. b, at, ~flags.on, m)
  <2>1. all \in Nat /\ left \in Nat /\ left <= all
    BY <1>4
  <2>2. real'[m] = real[m] + all /\ adjusted'[m] = adjusted[m] + left
    BY <1>5
  <2>3. real[m] \in Nat /\ adjusted[m] \in Nat /\ (m \notin moved => adjusted[m] <= real[m])
    BY <1>4
  <2> HIDE DEF all, left
  <2>a. \A p, q \in Nat : p + q \in Nat
    OBVIOUS
  <2>4. real[m] + all \in Nat /\ adjusted[m] + left \in Nat
    BY <2>1, <2>3, <2>a
  <2>5. m \notin moved => adjusted[m] + left <= real[m] + all
    BY <2>1, <2>3, BothGrow
  <2> QED
    BY <2>2, <2>4, <2>5
<1>7. real' \in [Minutes -> Nat] /\ adjusted' \in [Minutes -> Nat]
  BY <1>2, <1>6
<1> QED
  BY <1>2, <1>5, <1>6, <1>7, MaxOfRange DEF LessThanAll

\* refreshNoisy judges nobody on an empty database.
LEMMA JudgedAgain ==
  ASSUME TerminalAssumption, ChainType, MeasureType, NobodyYet, NEW c \in Clocks, refreshNoisy(c)
  PROVE  /\ flags'.on \in BOOLEAN /\ clockMeta' \in Clocks
         /\ checkpoint = None => ~flags'.on
<1>1. flags'.on = Flagged(sent, c)
  BY DEF refreshNoisy, noisyAddresses
<1>2. Flagged(sent, c) \in BOOLEAN
  BY FlaggedIsBoolean
<1>3. clockMeta' \in Clocks
  BY DEF refreshNoisy, MeasureType
<1>4. checkpoint = None => Flagged(sent, c) = FALSE
  BY NoSenderIsFlagged DEF NobodyYet
<1> QED
  BY <1>1, <1>2, <1>3, <1>4

\* measureClock: between blocks of the chain, or as before.
LEMMA ClockIsMeasured ==
  ASSUME TerminalAssumption, StoreType, MeasureType, NEW to \in Blocks, NEW read,
         NEW fallback \in {None} \cup Blocks, measureClock(to, read, fallback)
  PROVE  clockRef' \in {None} \cup Blocks /\ spanClock' \in Clocks
<1>1. Blocks = 1 .. MaxBlock /\ MaxBlock \in Nat /\ HeaderSpan \in Nat /\ HeaderSpan > 0 /\ None = -1
  BY DEF Blocks, TerminalAssumption, None
<1>2. sentHistoryFrom \in 0 .. to - 1 => sentHistoryFrom \in Blocks
  BY <1>1 DEF sentHistoryFrom, StoreType
<1>3. FarEnd(to, read) \in {None} \cup Blocks
  BY <1>2 DEF FarEnd, MeasureType
<1>4. clockRef' \in {None} \cup Blocks
  BY <1>3 DEF measureClock
<1>5. CASE clockRef' # None /\ to - clockRef' >= HeaderSpan /\ stamp[to] > stamp[clockRef']
  <2>1. spanClock' = [from |-> clockRef', to |-> to]
    BY <1>5 DEF measureClock, blockTimeBetween
  <2> DEFINE r == clockRef'
  <2>2. r \in Blocks
    BY <1>4, <1>5
  <2>3. r < to
    <3>1. to - r >= HeaderSpan
      BY <1>5
    <3>2. to \in Int
      BY <1>1
    <3> HIDE DEF r
    <3>3. r \in Int
      BY <1>1, <2>2
    <3> QED
      BY <1>1, <3>1, <3>2, <3>3
  <2> QED
    BY <1>4, <2>1, <2>2, <2>3 DEF Clocks
<1>6. CASE ~(clockRef' # None /\ to - clockRef' >= HeaderSpan /\ stamp[to] > stamp[clockRef'])
  BY <1>4, <1>6 DEF measureClock, blockTimeBetween, MeasureType
<1> QED
  BY <1>5, <1>6

LEMMA CountsStand ==
  ASSUME UNCHANGED <<stamp, bots>>
  PROVE  \A S, at, k, m : Counted(S, at, k, m)' = Counted(S, at, k, m)
BY DEF Counted

LEMMA WholeCountsStand ==
  ASSUME UNCHANGED <<stamp, bots>>
  PROVE  \A S, at, m : Counted(S, at, TRUE, m)' = Counted(S, at, TRUE, m)
BY DEF Counted

LEMMA BareCountsStand ==
  ASSUME UNCHANGED <<stamp, bots>>
  PROVE  \A S, at, m : Counted(S, at, FALSE, m)' = Counted(S, at, FALSE, m)
BY DEF Counted

\* Blocks read so far, and a range more: their counts add up, under dates that
\* agree with each other's for the minute in question.
LEMMA RangesAddUp ==
  ASSUME NEW a \in Int, NEW c \in Int, NEW b \in Int, a <= c, c <= b,
         NEW at, NEW more, NEW all, NEW keepsNoise, NEW m,
         Alike(at, all, a .. c - 1, m), Alike(more, all, c .. b, m)
  PROVE  Counted(a .. b, all, keepsNoise, m) = Counted(a .. c - 1, at, keepsNoise, m) + Counted(c .. b, more, keepsNoise, m)
<1> DEFINE before == a .. c - 1
           range == c .. b
<1>1. before \cap range = {} /\ before \cup range = a .. b
  OBVIOUS
<1>2. IsFiniteSet(before) /\ IsFiniteSet(range)
  BY FS_Interval
<1>3. Alike(at, all, before, m) /\ Alike(more, all, range, m)
  OBVIOUS
<1> HIDE DEF before, range
<1>4. Counted(before, at, keepsNoise, m) = Counted(before, all, keepsNoise, m)
  BY <1>3, SameDates
<1>5. Counted(range, more, keepsNoise, m) = Counted(range, all, keepsNoise, m)
  BY <1>3, SameDates
<1>6. Counted(before \cup range, all, keepsNoise, m) = Counted(before, all, keepsNoise, m) + Counted(range, all, keepsNoise, m)
  BY <1>1, <1>2, CountedApart
<1>7. Counted(before \cup range, all, keepsNoise, m) = Counted(before, at, keepsNoise, m) + Counted(range, more, keepsNoise, m)
  BY <1>4, <1>5, <1>6
<1> QED
  BY <1>1, <1>7 DEF before, range

\* A chunk of the backfill: of an empty database, every minute is what the
\* blocks read so far make it.
LEMMA BackfillKeeps ==
  ASSUME TerminalAssumption, AdjustedInv, backfill
  PROVE  AdjustedInv'
<1> USE DEF chain, walk, rescore, measures, database
<1>1. /\ phase = "backfill" /\ start \in Blocks /\ latest \in Blocks /\ next \in start .. latest
      /\ Blocks \subseteq Int /\ Blocks = 1 .. MaxBlock /\ MaxBlock \in Nat
  BY DEF backfill, AdjustedInv, WalkType, Blocks, TerminalAssumption
<1>w. next \in Int /\ latest \in Int /\ start \in Int /\ next <= latest /\ next \in Blocks
  BY <1>1
<1>2. PICK b \in Ends, served \in BOOLEAN :
        /\ processLogs(next .. b, Dated(next, b, served))
        /\ dated' = IF coldRun THEN Dated(next, b, served) ELSE dated
        /\ IF b = latest /\ coldRun
           THEN /\ flags' = [on |-> Flagged(sent', spanClock), row |-> sent', clock |-> spanClock]
                /\ clockMeta' = IF spanClock = LiveSample THEN clockMeta ELSE spanClock
                /\ phase' = IF flags'.on THEN "adjust" ELSE "wait"
                /\ next' = start
           ELSE /\ next' = b + 1
                /\ phase' = IF b < latest THEN "backfill" ELSE "wait"
                /\ UNCHANGED <<flags, clockMeta>>
  BY DEF backfill
<1>u. UNCHANGED <<stamp, bots, head, indexFrom, unread, latest, start, scored, first, last, spanClock, clockRef,
                  coldRun, moved>>
  BY DEF backfill
<1>v. UNCHANGED <<stamp, bots>>
  BY <1>u
<1>c. b \in next .. latest
  BY <1>2, <1>w, EndsInRange
<1>3. b \in next .. latest /\ b \in Int /\ next <= b /\ b \in Blocks /\ next - 1 \in Int /\ start <= next
  BY <1>1, <1>c, <1>w
<1>a. PICK at : at = Dated(next, b, served)
  OBVIOUS
<1>4. /\ InOrder(at, next, b) /\ processLogs(next .. b, at)
      /\ dated' = IF coldRun THEN at ELSE dated
  BY <1>w, <1>1, <1>2, <1>3, <1>a, RangeIsDated DEF AdjustedInv
<1>6. /\ checkpoint' = b
      /\ real' \in [Minutes -> Nat] /\ adjusted' \in [Minutes -> Nat]
      /\ LessThanAll'
      /\ \A m \in Minutes : /\ real'[m] = real[m] + Counted(next .. b, at, TRUE, m)
                            /\ adjusted'[m] = adjusted[m] + Counted(next .. b, at, ~flags.on, m)
  BY <1>w, <1>3, <1>4, <1>u, LogsAdd DEF AdjustedInv
<1>7. ChainType' /\ b # None
  <2>1. ChainType'
    BY <1>u DEF AdjustedInv, ChainType
  <2>2. b # None
    BY <1>1, <1>3 DEF None
  <2> QED
    BY <2>1, <2>2
<1>8. StoreType'
  <2>1. indexFrom # None
    BY <1>1 DEF AdjustedInv, WalkType
  <2> QED
    BY <1>3, <1>u, <1>6, <2>1 DEF AdjustedInv, StoreType
<1>9. MeasureType'
  <2>1. CASE UNCHANGED <<flags, clockMeta>>
    BY <1>u, <2>1 DEF AdjustedInv, MeasureType
  <2>2. CASE /\ flags' = [on |-> Flagged(sent', spanClock), row |-> sent', clock |-> spanClock]
             /\ clockMeta' = IF spanClock = LiveSample THEN clockMeta ELSE spanClock
    <3>1. flags'.on = Flagged(sent', spanClock)
      BY <2>2
    <3>2. Flagged(sent', spanClock) \in BOOLEAN
      BY DEF Flagged
    <3> QED
      BY <1>u, <2>2, <3>1, <3>2 DEF AdjustedInv, MeasureType
  <2> QED
    BY <1>2, <2>1, <2>2
<1>10. NobodyYet'
  BY <1>6, <1>7 DEF NobodyYet
<1>d. DatesType'
  <2>1. dated' \in [Blocks -> Nat]
    BY <1>4 DEF InOrder, AdjustedInv, DatesType
  <2> QED
    BY <1>u, <2>1 DEF AdjustedInv, DatesType
<1>11. scored = Nothing /\ first = None /\ last = None
  BY <1>1 DEF AdjustedInv, WalkType
<1>12. ASSUME coldRun, NEW m \in Minutes
       PROVE  /\ ~flags.on /\ dated' = at
              /\ real'[m] = Counted(start .. b, at, TRUE, m) /\ adjusted'[m] = real'[m]
  <2>1. ~flags.on /\ real[m] = Counted(start .. next - 1, dated, TRUE, m) /\ adjusted[m] = real[m]
    BY <1>1, <1>12 DEF AdjustedInv, ColdRunCounts
  <2>2. (~flags.on) = TRUE
    BY <2>1
  <2>3. \A x \in start .. next - 1 : x \in Blocks \ (next .. b)
    BY <1>1, <1>w, <1>3
  <2>4. Alike(dated, at, start .. next - 1, m) /\ Alike(at, at, next .. b, m)
    BY <1>4, <2>3 DEF InOrder, Alike
  <2>5. Counted(start .. b, at, TRUE, m)
          = Counted(start .. next - 1, dated, TRUE, m) + Counted(next .. b, at, TRUE, m)
    <3> DEFINE yes == TRUE
    <3> HIDE DEF yes
    <3>1. Counted(start .. b, at, yes, m)
            = Counted(start .. next - 1, dated, yes, m) + Counted(next .. b, at, yes, m)
      BY <1>w, <1>3, <2>4, RangesAddUp
    <3> QED
      BY <3>1 DEF yes
  <2> QED
    BY <1>4, <1>6, <1>12, <2>1, <2>2, <2>5
<1>13. CASE b = latest /\ coldRun
  <2>1. /\ phase' = (IF flags'.on THEN "adjust" ELSE "wait") /\ next' = start
        /\ flags'.on \in BOOLEAN
    BY <1>2, <1>9, <1>13 DEF MeasureType
  <2>2. WalkType'
    BY <1>1, <1>u, <1>6, <1>7, <1>11, <1>13, <2>1 DEF WalkType, Nothing, Minutes
  <2>0. dated' = at
    BY <1>4, <1>13
  <2>3. \A m \in Minutes : (real[m] = Counted(start .. latest, dated, TRUE, m))' /\ adjusted'[m] = real'[m]
    BY <1>u, <1>v, <1>12, <1>13, <2>0, WholeCountsStand
  <2>4. start .. start - 1 = {}
    BY <1>1
  <2>5. \A m \in Minutes : (scored[m] = Counted(start .. next - 1, dated, FALSE, m))'
    <3> DEFINE read == start .. next - 1
    <3>1. \A t, m : Counted({}, t, FALSE, m) = 0
      BY NothingIsCounted
    <3>2. \A t, m : Counted({}, t, FALSE, m)' = 0
      BY <1>v, <3>1, BareCountsStand
    <3>3. \A m \in Minutes : scored'[m] = 0
      BY <1>11, <1>u DEF Nothing
    <3>4. read' = {}
      BY <1>u, <2>1, <2>4
    <3>5. \A m \in Minutes : (scored[m] = Counted(read, dated, FALSE, m))'
      <4> HIDE DEF read
      <4> QED
        BY <3>2, <3>3, <3>4
    <3> QED
      BY <3>5
  <2>6. CASE flags'.on
    <3>1. phase' = "adjust"
      BY <2>1, <2>6
    <3>2. start' \in Blocks /\ latest' \in Blocks /\ start' <= latest'
      BY <1>1, <1>u
    <3>3. ReadWithin'
      <4>1. start' .. next' - 1 = {}
        BY <1>u, <2>1, <2>4
      <4> QED
        BY <4>1 DEF ReadWithin
    <3>4. ColdRunCounts'
      BY <2>3, <2>5, <2>6, <3>1, <3>2, <3>3 DEF ColdRunCounts
    <3> QED
      BY <1>6, <1>7, <1>8, <1>9, <1>10, <1>d, <2>2, <3>4 DEF AdjustedInv
  <2>7. CASE ~flags'.on
    <3>1. phase' = "wait" /\ (~flags.on)' = TRUE
      BY <2>1, <2>7
    <3>2. \A m \in Minutes : (adjusted[m] = Counted(start .. latest, dated, ~flags.on, m))'
      BY <2>3, <3>1
    <3>3. ColdRunCounts'
      BY <1>1, <1>u, <3>1, <3>2 DEF ColdRunCounts
    <3> QED
      BY <1>6, <1>7, <1>8, <1>9, <1>10, <1>d, <2>2, <3>3 DEF AdjustedInv
  <2> QED
    BY <2>6, <2>7
<1>14. CASE ~(b = latest /\ coldRun)
  <2>1. /\ next' = b + 1 /\ phase' = (IF b < latest THEN "backfill" ELSE "wait") /\ flags' = flags
    BY <1>2, <1>14
  <2>2. WalkType'
    BY <1>1, <1>3, <1>u, <1>11, <2>1 DEF WalkType, Nothing, Minutes, AdjustedInv
  <2>3. CASE coldRun
    <3>1. b < latest /\ phase' = "backfill" /\ next' - 1 = b
      <4>1. b < latest
        BY <1>1, <1>3, <1>14, <2>3
      <4>2. (b + 1) - 1 = b
        BY <1>1, <1>3
      <4> QED
        BY <2>1, <4>1, <4>2
    <3>0. dated' = at
      BY <1>4, <2>3
    <3>2. \A m \in Minutes : (real[m] = Counted(start .. next - 1, dated, TRUE, m))' /\ adjusted'[m] = real'[m]
      BY <1>u, <1>v, <1>12, <2>3, <3>0, <3>1, WholeCountsStand
    <3>3. ~flags'.on
      BY <1>1, <2>1, <2>3 DEF AdjustedInv, ColdRunCounts
    <3>4. start' \in Blocks /\ latest' \in Blocks /\ start' <= latest'
      BY <1>1, <1>u
    <3>5. ColdRunCounts'
      BY <3>1, <3>2, <3>3, <3>4 DEF ColdRunCounts
    <3> QED
      BY <1>6, <1>7, <1>8, <1>9, <1>10, <1>d, <2>2, <3>5 DEF AdjustedInv
  <2>4. CASE ~coldRun
    <3>1. ColdRunCounts'
      BY <1>u, <2>4 DEF ColdRunCounts
    <3> QED
      BY <1>6, <1>7, <1>8, <1>9, <1>10, <1>d, <2>2, <3>1 DEF AdjustedInv
  <2> QED
    BY <2>3, <2>4
<1> QED
  BY <1>13, <1>14

\* The second reading: what it adds up without the noise replaces every minute
\* it went through, and of what both readings date alike nothing lies elsewhere.
LEMMA AdjustKeeps ==
  ASSUME TerminalAssumption, AdjustedInv, adjustBackfill
  PROVE  AdjustedInv'
<1> USE DEF chain, walk, rescore, measures, database
<1>0. phase = "adjust" /\ coldRun
  BY DEF adjustBackfill, AdjustedInv, WalkType
<1>1. /\ phase = "adjust" /\ start \in Blocks /\ latest \in Blocks /\ next \in start .. latest
      /\ Blocks \subseteq Int /\ Blocks = 1 .. MaxBlock /\ MaxBlock \in Nat /\ coldRun
  BY <1>0 DEF AdjustedInv, WalkType, Blocks, TerminalAssumption
<1>r. /\ flags.on /\ ReadWithin
      /\ \A m \in Minutes : real[m] = Counted(start .. latest, dated, TRUE, m) /\ adjusted[m] = real[m]
      /\ \A m \in Minutes \ moved : scored[m] = Counted(start .. next - 1, dated, FALSE, m)
  BY <1>0 DEF AdjustedInv, ColdRunCounts
<1>n. (~flags.on) = FALSE
  BY <1>r
<1>w. next \in Int /\ latest \in Int /\ start \in Int /\ next <= latest /\ next \in Blocks
  BY <1>1
<1>b. PICK b : b = Least(latest, next + Chunk - 1)
  OBVIOUS
<1>c. b \in next .. latest
  BY <1>b, <1>w, EndsInRange
<1>3. b \in next .. latest /\ b \in Int /\ next <= b /\ b \in Blocks /\ next - 1 \in Int /\ start <= next
  BY <1>1, <1>c, <1>w
<1>o. PICK served \in BOOLEAN : \E at \in {Dated(next, b, served)} :
      \E sums \in {[m \in Minutes |-> scored[m] + Counted(next .. b, at, ~flags.on, m)]} :
        /\ first' = IF first = None THEN at[next] ELSE Least(first, at[next])
        /\ last' = IF last = None THEN at[b] ELSE Most(last, at[b])
        /\ moved' = moved \cup UNION {{dated[x], at[x]} : x \in {y \in next .. b : dated[y] # at[y]}}
        /\ IF b < latest
           THEN scored' = sums /\ next' = b + 1 /\ UNCHANGED <<adjusted, phase>>
           ELSE scored' = Nothing /\ next' = next /\ adjusted' = setAdjusted(sums) /\ phase' = "wait"
  BY <1>b DEF adjustBackfill
<1>p. \A at : [m \in Minutes |-> scored[m] + Counted(next .. b, at, ~flags.on, m)]
                = [m \in Minutes |-> scored[m] + Counted(next .. b, at, FALSE, m)]
  BY <1>n
<1>q. PICK at \in {Dated(next, b, served)} :
      \E sums \in {[m \in Minutes |-> scored[m] + Counted(next .. b, at, FALSE, m)]} :
        /\ first' = IF first = None THEN at[next] ELSE Least(first, at[next])
        /\ last' = IF last = None THEN at[b] ELSE Most(last, at[b])
        /\ moved' = moved \cup UNION {{dated[x], at[x]} : x \in {y \in next .. b : dated[y] # at[y]}}
        /\ IF b < latest
           THEN scored' = sums /\ next' = b + 1 /\ UNCHANGED <<adjusted, phase>>
           ELSE scored' = Nothing /\ next' = next /\ adjusted' = setAdjusted(sums) /\ phase' = "wait"
  BY <1>o, <1>p
<1>2. PICK sums \in {[m \in Minutes |-> scored[m] + Counted(next .. b, at, FALSE, m)]} :
        /\ first' = IF first = None THEN at[next] ELSE Least(first, at[next])
        /\ last' = IF last = None THEN at[b] ELSE Most(last, at[b])
        /\ moved' = moved \cup UNION {{dated[x], at[x]} : x \in {y \in next .. b : dated[y] # at[y]}}
        /\ IF b < latest
           THEN scored' = sums /\ next' = b + 1 /\ UNCHANGED <<adjusted, phase>>
           ELSE scored' = Nothing /\ next' = next /\ adjusted' = setAdjusted(sums) /\ phase' = "wait"
  BY <1>q
<1>u. UNCHANGED <<stamp, bots, head, checkpoint, indexFrom, unread, real, sent, clockMeta,
                  latest, start, spanClock, clockRef, flags, coldRun, dated>>
  BY DEF adjustBackfill
<1>v. UNCHANGED <<stamp, bots>>
  BY <1>u
<1>t. DatesType /\ StoreType /\ ChainType
  BY DEF AdjustedInv
<1>x. InOrder(Dated(next, b, served), next, b)
  BY <1>w, <1>1, <1>3, <1>t, RangeIsDated
<1>4. InOrder(at, next, b)
  BY <1>q, <1>x
<1>5. \A m \in Minutes : sums[m] = scored[m] + Counted(next .. b, at, FALSE, m)
  BY <1>2
<1>6. moved \subseteq moved' /\ \A x \in next .. b : dated[x] = at[x] \/ (dated[x] \in moved' /\ at[x] \in moved')
  BY <1>2
<1>7. at[next] \in Nat /\ at[b] \in Nat
  BY <1>3, <1>w, <1>4 DEF InOrder
<1>8. /\ first' \in Nat /\ last' \in Nat /\ first' # None
      /\ first' <= at[next] /\ at[b] <= last'
      /\ first # None => first' <= first
      /\ last # None => last <= last'
  <2>1. first \in {None} \cup Nat /\ last \in {None} \cup Nat /\ None \notin Nat
    BY <1>t DEF DatesType, None
  <2>2. \A x, y \in Nat : /\ Least(x, y) \in Nat /\ Least(x, y) <= x /\ Least(x, y) <= y
                         /\ Most(x, y) \in Nat /\ x <= Most(x, y) /\ y <= Most(x, y)
    BY DEF Least, Most
  <2>3. first' = IF first = None THEN at[next] ELSE Least(first, at[next])
    BY <1>2
  <2>4. last' = IF last = None THEN at[b] ELSE Most(last, at[b])
    BY <1>2
  <2>5. at[next] <= at[next] /\ at[b] <= at[b]
    BY <1>7
  <2>6. first' \in Nat /\ first' <= at[next] /\ (first # None => first' <= first)
    BY <1>7, <2>1, <2>2, <2>3, <2>5
  <2>7. last' \in Nat /\ at[b] <= last' /\ (last # None => last <= last')
    BY <1>7, <2>1, <2>2, <2>4, <2>5
  <2> QED
    BY <2>1, <2>6, <2>7
<1>9. \A x \in start .. b : dated[x] \in moved' \/ (first' <= dated[x] /\ dated[x] <= last')
  <2> SUFFICES ASSUME NEW x \in start .. b, dated[x] \notin moved'
               PROVE  first' <= dated[x] /\ dated[x] <= last'
    OBVIOUS
  <2>1. x \in Blocks /\ dated[x] \in Nat
    <3>1. x \in Int /\ start <= x /\ x <= b
      BY <1>w, <1>3
    <3>2. x \in Blocks
      BY <1>1, <1>3, <1>w, <3>1
    <3> QED
      BY <1>t, <3>2 DEF DatesType
  <2>2. CASE x \in next .. b
    <3>1. dated[x] = at[x] /\ at[next] <= at[x] /\ at[x] <= at[b]
      BY <1>4, <1>6, <2>2 DEF InOrder
    <3> QED
      BY <1>7, <1>8, <2>1, <3>1
  <2>3. CASE x \notin next .. b
    <3>1. x \in start .. next - 1
      BY <1>3, <1>w, <2>3
    <3>2. first <= dated[x] /\ dated[x] <= last
      BY <1>6, <1>r, <3>1 DEF ReadWithin
    <3>3. last # None
      BY <1>t, <2>1, <3>2 DEF None
    <3>4. first # None
      BY <1>t, <3>3 DEF DatesType
    <3>5. first \in Nat /\ last \in Nat /\ first' <= first /\ last <= last'
      BY <1>8, <1>t, <3>3, <3>4 DEF DatesType
    <3> QED
      BY <1>8, <2>1, <3>2, <3>5
  <2> QED
    BY <2>2, <2>3
<1>10. \A m \in Minutes \ moved' : sums[m] = Counted(start .. b, dated, FALSE, m)
  <2> SUFFICES ASSUME NEW m \in Minutes \ moved' PROVE sums[m] = Counted(start .. b, dated, FALSE, m)
    OBVIOUS
  <2>1. Alike(at, dated, next .. b, m) /\ Alike(dated, dated, start .. next - 1, m)
    BY <1>6 DEF Alike
  <2>2. scored[m] = Counted(start .. next - 1, dated, FALSE, m)
    BY <1>6, <1>r
  <2>3. Counted(start .. b, dated, FALSE, m)
          = Counted(start .. next - 1, dated, FALSE, m) + Counted(next .. b, at, FALSE, m)
    <3> DEFINE no == FALSE
    <3> HIDE DEF no
    <3>0. /\ start \in Int /\ next \in Int /\ b \in Int /\ start <= next /\ next <= b
      BY <1>w, <1>3
    <3>1. Counted(start .. b, dated, no, m)
            = Counted(start .. next - 1, dated, no, m) + Counted(next .. b, at, no, m)
      BY <2>1, <3>0, RangesAddUp
    <3> QED
      BY <3>1 DEF no
  <2> QED
    BY <1>5, <2>2, <2>3
<1>s. sums \in [Minutes -> Nat]
  <2>1. \A m \in Minutes : Counted(next .. b, at, FALSE, m) \in Nat
    BY <1>3, <1>w, FS_Interval, CountedIsANumber
  <2>2. \A m \in Minutes : scored[m] \in Nat
    BY <1>t DEF DatesType
  <2>3. ASSUME NEW m \in Minutes
        PROVE  scored[m] + Counted(next .. b, at, FALSE, m) \in Nat
    <3> DEFINE more == Counted(next .. b, at, FALSE, m)
    <3>1. more \in Nat /\ scored[m] \in Nat
      BY <2>1, <2>2
    <3> HIDE DEF more
    <3>2. scored[m] + more \in Nat
      BY <3>1
    <3> QED
      BY <3>2 DEF more
  <2>4. sums = [m \in Minutes |-> scored[m] + Counted(next .. b, at, FALSE, m)]
    BY <1>2
  <2> QED
    BY <2>3, <2>4
<1>11. ChainType' /\ MeasureType'
  BY <1>u DEF AdjustedInv, ChainType, MeasureType
<1>d. DatesType'
  <2>1. scored' \in [Minutes -> Nat]
    BY <1>2, <1>s DEF Nothing
  <2> QED
    BY <1>8, <1>t, <1>u, <2>1 DEF DatesType
<1>12. CASE b < latest
  <2>1. scored' = sums /\ next' = b + 1 /\ UNCHANGED <<adjusted, phase>>
    BY <1>2, <1>12
  <2>2. StoreType' /\ NobodyYet'
    BY <1>u, <2>1 DEF AdjustedInv, StoreType, NobodyYet
  <2>l. LessThanAll'
    BY <1>6, <1>u, <2>1 DEF AdjustedInv, LessThanAll
  <2>3. WalkType'
    BY <1>1, <1>3, <1>u, <1>12, <2>1 DEF AdjustedInv, WalkType
  <2>4. next' - 1 = b /\ start' \in Blocks /\ latest' \in Blocks /\ start' <= latest'
    BY <1>1, <1>3, <1>u, <2>1
  <2>5. \A m \in Minutes \ moved' : (scored[m] = Counted(start .. next - 1, dated, FALSE, m))'
    <3>1. PICK S : S = start .. b
      OBVIOUS
    <3>2. PICK t : t = dated
      OBVIOUS
    <3>3. \A m : Counted(S, t, FALSE, m)' = Counted(S, t, FALSE, m)
      BY <1>v, BareCountsStand
    <3>4. \A m \in Minutes \ moved' : scored'[m] = Counted(S, t, FALSE, m)
      BY <1>10, <2>1, <3>1, <3>2
    <3>5. start' .. next' - 1 = S /\ dated' = t
      BY <1>u, <2>4, <3>1, <3>2
    <3> QED
      BY <3>3, <3>4, <3>5
  <2>6. \A m \in Minutes : (real[m] = Counted(start .. latest, dated, TRUE, m))' /\ adjusted'[m] = real'[m]
    <3>1. \A m : Counted(start .. latest, dated, TRUE, m)' = Counted(start .. latest, dated, TRUE, m)
      BY <1>u, <1>v, WholeCountsStand
    <3> QED
      BY <1>r, <1>u, <2>1, <3>1
  <2>7. ReadWithin'
    <3>1. start' .. next' - 1 = start .. b /\ dated' = dated
      BY <1>u, <2>4
    <3> QED
      BY <1>9, <3>1 DEF ReadWithin
  <2>8. ColdRunCounts'
    BY <1>r, <1>1, <1>u, <2>1, <2>4, <2>5, <2>6, <2>7, Minutes' = Minutes DEF ColdRunCounts
  <2> QED
    BY <1>11, <1>d, <2>2, <2>3, <2>8, <2>l DEF AdjustedInv
<1>13. CASE ~(b < latest)
  <2>1. b = latest /\ scored' = Nothing /\ next' = next /\ adjusted' = setAdjusted(sums) /\ phase' = "wait"
    BY <1>2, <1>3, <1>w, <1>13
  <2>a. adjusted' = [m \in Minutes |-> IF first' <= m /\ m <= last' THEN (IF real[m] > 0 THEN sums[m] ELSE 0)
                                                                   ELSE adjusted[m]]
    BY <2>1 DEF setAdjusted, Rescored
  <2>b. IsFiniteSet(start .. latest)
    BY <1>1, FS_Interval
  <2>c. ASSUME NEW m \in Minutes
        PROVE  /\ Counted(start .. latest, dated, FALSE, m) \in Nat
               /\ Counted(start .. latest, dated, FALSE, m) <= Counted(start .. latest, dated, TRUE, m)
    <3> DEFINE no == FALSE
    <3>1. no \in BOOLEAN
      OBVIOUS
    <3> HIDE DEF no
    <3>2. /\ Counted(start .. latest, dated, no, m) \in Nat
          /\ Counted(start .. latest, dated, no, m) <= Counted(start .. latest, dated, TRUE, m)
      BY <2>b, <3>1, CountedIsANumber, NoiseOnlyAdds
    <3> QED
      BY <3>2 DEF no
  <2>2. ASSUME NEW m \in Minutes \ moved'
        PROVE  adjusted'[m] = Counted(start .. latest, dated, FALSE, m)
    <3>0. real[m] \in Nat /\ real[m] = Counted(start .. latest, dated, TRUE, m) /\ adjusted[m] = real[m]
      BY <1>r, <1>t DEF StoreType
    <3>1. CASE first' <= m /\ m <= last'
      <4>1. CASE real[m] > 0
        BY <1>10, <2>1, <2>a, <3>1, <4>1
      <4>2. CASE ~(real[m] > 0)
        <5>1. adjusted'[m] = 0
          BY <2>a, <3>1, <4>2
        <5> DEFINE left == Counted(start .. latest, dated, FALSE, m)
        <5>2. left \in Nat /\ left <= real[m]
          BY <2>c, <3>0
        <5> HIDE DEF left
        <5>3. \A l, w \in Nat : ~(w > 0) /\ l <= w => l = 0
          OBVIOUS
        <5>4. left = 0
          BY <3>0, <4>2, <5>2, <5>3
        <5> QED
          BY <5>1, <5>4 DEF left
      <4> QED
        BY <4>1, <4>2
    <3>2. CASE ~(first' <= m /\ m <= last')
      <4>1. \A x \in start .. latest : dated[x] # m
        BY <1>9, <2>1, <3>2
      <4>2. Counted(start .. latest, dated, FALSE, m) = 0 /\ Counted(start .. latest, dated, TRUE, m) = 0
        BY <4>1, NothingIsCounted
      <4> QED
        BY <2>a, <3>0, <3>2, <4>2
    <3> QED
      BY <3>1, <3>2
  <2>3. adjusted' \in [Minutes -> Nat]
    <3>1. \A m \in Minutes : sums[m] \in Nat /\ adjusted[m] \in Nat
      BY <1>s, <1>t DEF StoreType
    <3> QED
      BY <2>a, <3>1
  <2>4. LessThanAll'
    <3>1. \A m \in Minutes \ moved' : adjusted'[m] <= real'[m]
      BY <1>r, <1>u, <2>2, <2>c
    <3> QED
      BY <3>1 DEF LessThanAll
  <2>8. StoreType' /\ WalkType'
    BY <1>1, <1>u, <2>1, <2>3 DEF AdjustedInv, StoreType, WalkType
  <2>9. ColdRunCounts'
    <3>1. start' \in Blocks /\ latest' \in Blocks /\ start' <= latest' /\ (~flags.on)' = FALSE
      BY <1>n, <1>1, <1>u
    <3>2. \A m \in Minutes \ moved' : (adjusted[m] = Counted(start .. latest, dated, ~flags.on, m))'
      <4>1. PICK S : S = start .. latest
        OBVIOUS
      <4>2. PICK t : t = dated
        OBVIOUS
      <4>3. \A m : Counted(S, t, FALSE, m)' = Counted(S, t, FALSE, m)
        BY <1>v, BareCountsStand
      <4>4. \A m \in Minutes \ moved' : adjusted'[m] = Counted(S, t, FALSE, m)
        BY <2>2, <4>1, <4>2
      <4>5. start' .. latest' = S /\ dated' = t
        BY <1>u, <4>1, <4>2
      <4>6. \A m \in Minutes \ moved' : (adjusted[m] = Counted(start .. latest, dated, FALSE, m))'
        BY <4>3, <4>4, <4>5
      <4> QED
        BY <3>1, <4>6
    <3> QED
      BY <2>1, <3>1, <3>2 DEF ColdRunCounts
  <2>10. NobodyYet'
    BY <1>1, <1>u DEF AdjustedInv, WalkType, NobodyYet
  <2> QED
    BY <1>11, <1>d, <2>4, <2>8, <2>9, <2>10 DEF AdjustedInv
<1> QED
  BY <1>12, <1>13

\* A chunk of a tick, outside any run from empty.
LEMMA IndexKeeps ==
  ASSUME TerminalAssumption, AdjustedInv, Index
  PROVE  AdjustedInv'
<1> USE DEF chain, walk, rescore, measures, database, dates
<1>1. /\ phase = "index" /\ latest \in Blocks /\ next \in 1 .. latest /\ indexFrom # None /\ scored = Nothing
      /\ Blocks \subseteq Int /\ Blocks = 1 .. MaxBlock /\ MaxBlock \in Nat /\ first = None /\ last = None
  BY DEF Index, AdjustedInv, WalkType, Blocks, TerminalAssumption
<1>2. next \in Int /\ latest \in Int /\ next <= latest
  BY <1>1
<1>3. PICK b \in Ends, served \in BOOLEAN :
        /\ processLogs(next .. b, Dated(next, b, served))
        /\ next' = b + 1 /\ phase' = IF b < latest THEN "index" ELSE "publish"
  BY DEF Index
<1>c. b \in next .. latest
  BY <1>2, <1>3, EndsInRange
<1>4. b \in Int /\ next <= b /\ b <= latest /\ b \in Blocks
  BY <1>1, <1>2, <1>c
<1>5. UNCHANGED <<stamp, bots, head, indexFrom, unread, clockMeta, latest, start, scored, first, last, flags,
                  spanClock, clockRef, coldRun, dated, moved>>
  BY DEF Index
<1>7. /\ checkpoint' = b
      /\ real' \in [Minutes -> Nat] /\ adjusted' \in [Minutes -> Nat] /\ LessThanAll'
  BY <1>2, <1>3, <1>4, <1>5, LogsAdd DEF AdjustedInv
<1>n. b # None
  BY <1>1, <1>4 DEF None
<1>8. ChainType' /\ StoreType' /\ MeasureType' /\ NobodyYet' /\ DatesType'
  BY <1>1, <1>4, <1>5, <1>7, <1>n DEF AdjustedInv, ChainType, StoreType, MeasureType, NobodyYet, DatesType
<1>9. WalkType'
  BY <1>1, <1>2, <1>3, <1>4, <1>5, <1>7, <1>n DEF AdjustedInv, WalkType
<1>10. ColdRunCounts'
  BY <1>1, <1>5 DEF AdjustedInv, ColdRunCounts
<1> QED
  BY <1>7, <1>8, <1>9, <1>10 DEF AdjustedInv

\* What leaves the blocks, the set and the walk alone keeps what was counted.
LEMMA ColdRunRests ==
  ASSUME ColdRunCounts,
         UNCHANGED <<stamp, bots, real, adjusted, flags, phase, latest, start, next, scored, first, last, coldRun, dated, moved>>
  PROVE  ColdRunCounts'
<1>1. \A m : (Counted(start .. latest, dated, ~flags.on, m))' = Counted(start .. latest, dated, ~flags.on, m)
  BY DEF Counted
<1>2. \A m : /\ (Counted(start .. latest, dated, TRUE, m))' = Counted(start .. latest, dated, TRUE, m)
             /\ (Counted(start .. next - 1, dated, TRUE, m))' = Counted(start .. next - 1, dated, TRUE, m)
             /\ (Counted(start .. next - 1, dated, FALSE, m))' = Counted(start .. next - 1, dated, FALSE, m)
  BY DEF Counted
<1>3. ReadWithin' <=> ReadWithin
  BY DEF ReadWithin
<1> QED
  BY <1>1, <1>2, <1>3 DEF ColdRunCounts

LEMMA AdjustedStep ==
  ASSUME TerminalAssumption, AdjustedInv, [Next]_vars
  PROVE  AdjustedInv'
<1> USE DEF chain, walk, rescore, measures, database, dates
<1>1. CASE Boot
  <2>1. /\ phase = "down" /\ phase' = "anchor" /\ clockRef' = clockMeta.from /\ spanClock' = clockMeta
        /\ refreshNoisy(clockMeta) /\ clockMeta \in Clocks
        /\ UNCHANGED <<stamp, bots, head, checkpoint, indexFrom, sent, unread, real, adjusted, latest, start, next, scored, first, last, coldRun, dated, moved>>
    BY <1>1 DEF Boot, loadClock, AdjustedInv, MeasureType
  <2>2. flags'.on \in BOOLEAN /\ clockMeta' \in Clocks /\ (checkpoint = None => ~flags'.on)
    BY <2>1, JudgedAgain DEF AdjustedInv
  <2>3. clockMeta.from \in {None} \cup Blocks
    BY <2>1 DEF Clocks, LiveSample
  <2>4. /\ ChainType' /\ StoreType' /\ MeasureType' /\ WalkType' /\ NobodyYet' /\ DatesType' /\ LessThanAll'
    BY <2>1, <2>2, <2>3 DEF AdjustedInv, ChainType, StoreType, MeasureType, WalkType, NobodyYet, DatesType, LessThanAll, Nothing, Minutes
  <2> QED
    BY <2>1, <2>4 DEF AdjustedInv, ColdRunCounts
<1>2. ASSUME NEW read \in BOOLEAN, NEW behind \in BOOLEAN, Anchor(read, behind)
      PROVE  AdjustedInv'
  <2> DEFINE back == IF behind /\ head > HeaderSpan THEN head - HeaderSpan ELSE None
  <2>1. /\ phase = "anchor" /\ phase' = "supplies" /\ latest' = head
        /\ measureClock(head, read, back) /\ refreshNoisy(spanClock')
        /\ UNCHANGED <<stamp, bots, head, checkpoint, indexFrom, sent, unread, real, adjusted, start, next, scored, first, last, coldRun, dated, moved>>
    BY <1>2 DEF Anchor
  <2>2. back \in {None} \cup Blocks /\ head \in Blocks /\ head > MaxBackfill
    BY DEF AdjustedInv, ChainType, Blocks, TerminalAssumption
  <2> HIDE DEF back
  <2>3. clockRef' \in {None} \cup Blocks /\ spanClock' \in Clocks
    BY <2>1, <2>2, ClockIsMeasured DEF AdjustedInv
  <2> DEFINE c == spanClock'
  <2>4. c = spanClock' /\ c \in Clocks
    BY <2>3
  <2> HIDE DEF c
  <2>5. flags'.on \in BOOLEAN /\ clockMeta' \in Clocks /\ (checkpoint = None => ~flags'.on)
    BY <2>1, <2>4, JudgedAgain DEF AdjustedInv
  <2>6. /\ ChainType' /\ StoreType' /\ MeasureType' /\ WalkType' /\ NobodyYet' /\ DatesType' /\ LessThanAll'
    BY <2>1, <2>2, <2>3, <2>5 DEF AdjustedInv, ChainType, StoreType, MeasureType, WalkType, NobodyYet, DatesType, LessThanAll, Nothing, Minutes
  <2> QED
    BY <2>1, <2>6 DEF AdjustedInv, ColdRunCounts
<1>3. CASE BootSupplies
  <2> DEFINE low == IF checkpoint = None THEN latest - MaxBackfill ELSE checkpoint + 1
  <2>1. /\ phase = "supplies"
        /\ IF low > latest THEN phase' = "wait" /\ UNCHANGED <<start, next>>
           ELSE phase' = "backfill" /\ start' = low /\ next' = low
        /\ coldRun' = (checkpoint = None)
        /\ indexFrom' = IF checkpoint = None THEN low ELSE indexFrom
        /\ UNCHANGED <<stamp, bots, head, checkpoint, sent, unread, real, adjusted, clockMeta, latest, scored, first, last, dated, moved,
                       flags, spanClock, clockRef>>
    BY <1>3 DEF BootSupplies, BackfillFrom
  <2>2. /\ latest \in Blocks /\ latest > MaxBackfill /\ scored = Nothing
        /\ Blocks = 1 .. MaxBlock /\ MaxBlock \in Nat /\ MaxBackfill \in Nat /\ MaxBackfill > 0
        /\ checkpoint \in {None} \cup Blocks
    BY <2>1 DEF AdjustedInv, WalkType, StoreType, Blocks, TerminalAssumption
  <2>3. /\ low \in Int /\ low >= 1
        /\ checkpoint = None => low \in Blocks /\ low <= latest /\ low # None
    BY <2>2 DEF None
  <2> HIDE DEF low
  <2>4. /\ ChainType' /\ StoreType' /\ MeasureType' /\ NobodyYet' /\ DatesType' /\ LessThanAll'
    BY <2>1, <2>3 DEF AdjustedInv, ChainType, StoreType, MeasureType, NobodyYet, DatesType, LessThanAll, Nothing, Minutes
  <2>5. CASE low > latest
    <3>1. WalkType'
      BY <2>1, <2>2, <2>3, <2>5 DEF AdjustedInv, StoreType, WalkType, Nothing, Minutes
    <3>3. checkpoint # None
      BY <2>2, <2>3, <2>5
    <3>2. ~coldRun'
      BY <2>1, <3>3, Zenon
    <3> QED
      BY <2>4, <3>1, <3>2 DEF AdjustedInv, ColdRunCounts
  <2>6. CASE ~(low > latest)
    <3>1. phase' = "backfill" /\ start' = low /\ next' = low /\ low \in Blocks /\ low <= latest
      BY <2>1, <2>2, <2>3, <2>6
    <3>2. WalkType'
      BY <2>1, <2>2, <2>3, <3>1 DEF AdjustedInv, StoreType, WalkType, Nothing, Minutes
    <3>3. ASSUME coldRun'
          PROVE  /\ ~flags'.on
                 /\ \A m \in Minutes : (real[m] = Counted(start .. next - 1, dated, TRUE, m))' /\ adjusted'[m] = real'[m]
      <4>1. real = Nothing /\ adjusted = Nothing /\ ~flags.on
        BY <2>1, <3>3 DEF AdjustedInv, NobodyYet
      <4>2. start' .. next' - 1 = {}
        BY <2>3, <3>1
      <4>3. \A t, m : Counted({}, t, TRUE, m) = 0
        BY NothingIsCounted
      <4> QED
        <5> DEFINE read == start .. next - 1
        <5>1. \A t, m : Counted({}, t, TRUE, m)' = 0
          BY <2>1, <4>3, WholeCountsStand
        <5>2. \A m \in Minutes : real'[m] = 0 /\ adjusted'[m] = real'[m] /\ ~flags'.on
          BY <2>1, <4>1 DEF Nothing
        <5>3. \A m \in Minutes : (real[m] = Counted(read, dated, TRUE, m))' /\ adjusted'[m] = real'[m]
          <6>1. read' = {}
            BY <4>2
          <6> HIDE DEF read
          <6> QED
            BY <5>1, <5>2, <6>1
        <5>4. ~flags'.on
          BY <2>1, <4>1
        <5> QED
          BY <5>3, <5>4
    <3>4. ColdRunCounts'
      BY <2>1, <2>2, <3>1, <3>3 DEF ColdRunCounts
    <3> QED
      BY <2>4, <3>2, <3>4 DEF AdjustedInv
  <2> QED
    BY <2>5, <2>6
<1>4. CASE backfill
  BY <1>4, BackfillKeeps
<1>5. CASE adjustBackfill
  BY <1>5, AdjustKeeps
<1>6. CASE Index
  BY <1>6, IndexKeeps
<1>7. CASE AnchorFails \/ WalkFails \/ TickHeadFails \/ TickFails
  <2>1. /\ UNCHANGED <<stamp, bots, head, checkpoint, indexFrom, sent, unread, real, adjusted, clockMeta,
                       latest, flags, spanClock, clockRef, dated>>
        /\ phase' = "wait" /\ phase \in {"anchor", "backfill", "adjust", "wait", "headers", "index"}
    BY <1>7 DEF AnchorFails, WalkFails, TickHeadFails, TickFails, Fails
  <2>2. \/ phase = "anchor" /\ UNCHANGED <<coldRun, moved, scored, first, last>>
        \/ /\ coldRun' = FALSE /\ scored' = Nothing /\ first' = None /\ last' = None
           /\ moved' = moved \/ (phase = "adjust" /\ moved' = {})
    BY <1>7 DEF AnchorFails, WalkFails, TickHeadFails, TickFails, Fails, NoRescore, MovesNothing
  <2>3. phase = "adjust" => \A m \in Minutes : adjusted[m] <= real[m]
    <3> SUFFICES ASSUME phase = "adjust", NEW m \in Minutes PROVE adjusted[m] <= real[m]
      OBVIOUS
    <3>1. adjusted[m] = real[m]
      BY DEF AdjustedInv, WalkType, ColdRunCounts
    <3>2. real[m] \in Nat
      BY DEF AdjustedInv, StoreType
    <3> QED
      BY <3>1, <3>2
  <2>4. LessThanAll'
    BY <2>1, <2>2, <2>3 DEF AdjustedInv, LessThanAll
  <2>5. /\ ChainType' /\ StoreType' /\ MeasureType' /\ NobodyYet'
    BY <2>1 DEF AdjustedInv, ChainType, StoreType, MeasureType, NobodyYet, Nothing, Minutes
  <2>6. WalkType' /\ DatesType'
    <3>1. \/ scored' = scored /\ first' = first /\ last' = last
          \/ scored' = Nothing /\ first' = None /\ last' = None
      BY <2>2
    <3>2. DatesType'
      BY <2>1, <3>1 DEF AdjustedInv, DatesType, Nothing, Minutes
    <3>3. scored' = Nothing
      BY <2>2 DEF AdjustedInv, WalkType
    <3>4. Nothing' = Nothing
      BY DEF Nothing, Minutes, minuteOf
    <3>5. WalkType'
      BY <2>1, <3>3, <3>4 DEF WalkType
    <3> QED
      BY <3>2, <3>5
  <2>7. ~coldRun'
    <3>1. phase = "anchor" => ~coldRun
      BY DEF AdjustedInv, ColdRunCounts
    <3> QED
      BY <2>2, <3>1, Zenon
  <2> QED
    BY <2>4, <2>5, <2>6, <2>7 DEF AdjustedInv, ColdRunCounts
<1>8. CASE TickHead
  <2>1. /\ UNCHANGED <<stamp, bots, head, checkpoint, indexFrom, sent, unread, real, adjusted, clockMeta,
                       flags, spanClock, clockRef, dated, moved>>
        /\ phase = "wait" /\ phase' = "headers" /\ latest' = head /\ coldRun' = FALSE
        /\ scored' = Nothing /\ first' = None /\ last' = None
    BY <1>8 DEF TickHead, NoRescore
  <2>2. /\ ChainType' /\ StoreType' /\ MeasureType' /\ WalkType' /\ NobodyYet' /\ DatesType' /\ LessThanAll'
    BY <2>1 DEF AdjustedInv, ChainType, StoreType, MeasureType, WalkType, NobodyYet, DatesType, LessThanAll, Nothing, Minutes
  <2> QED
    BY <2>1, <2>2 DEF AdjustedInv, ColdRunCounts
<1>9. ASSUME NEW read \in BOOLEAN, NEW due \in BOOLEAN, TickHeaders(read, due)
      PROVE  AdjustedInv'
  <2> DEFINE cp == IF checkpoint = None THEN latest - 1 ELSE checkpoint
  <2>1. /\ phase = "headers" /\ measureClock(latest, read, None)
        /\ refreshNoisy(spanClock') \/ UNCHANGED <<flags, clockMeta>>
        /\ next' = cp + 1 /\ phase' = IF latest > cp THEN "index" ELSE "publish"
        /\ indexFrom' = IF checkpoint = None THEN latest ELSE indexFrom
        /\ UNCHANGED <<stamp, bots, head, checkpoint, sent, unread, real, adjusted, latest, start, scored, first, last, coldRun, dated, moved>>
    BY <1>9 DEF TickHeaders
  <2>2. latest \in Blocks /\ checkpoint \in {None} \cup Blocks /\ Blocks = 1 .. MaxBlock /\ MaxBlock \in Nat /\ None = -1
    BY <2>1 DEF AdjustedInv, WalkType, StoreType, Blocks, TerminalAssumption, None
  <2>3. clockRef' \in {None} \cup Blocks /\ spanClock' \in Clocks
    BY <2>1, <2>2, ClockIsMeasured DEF AdjustedInv
  <2> DEFINE c == spanClock'
  <2>4. c = spanClock' /\ c \in Clocks
    BY <2>3
  <2> HIDE DEF c
  <2>5. flags'.on \in BOOLEAN /\ clockMeta' \in Clocks /\ (checkpoint = None => ~flags'.on)
    <3>1. CASE refreshNoisy(c)
      BY <2>4, <3>1, JudgedAgain DEF AdjustedInv
    <3>2. CASE UNCHANGED <<flags, clockMeta>>
      BY <3>2 DEF AdjustedInv, MeasureType, NobodyYet
    <3> QED
      BY <2>1, <2>4, <3>1, <3>2
  <2>6. cp \in Int /\ cp >= 0 /\ (checkpoint = None => cp = latest - 1)
    BY <2>2
  <2> HIDE DEF cp
  <2>7. WalkType'
    <3>1. phase' = "index" => next' \in 1 .. latest' /\ indexFrom' # None
      BY <2>1, <2>2, <2>6 DEF AdjustedInv, StoreType
    <3>2. phase' = "publish" => checkpoint' # None
      BY <2>1, <2>2, <2>6
    <3> QED
      BY <2>1, <2>2, <3>1, <3>2 DEF AdjustedInv, WalkType, Nothing, Minutes
  <2>8. /\ ChainType' /\ StoreType' /\ MeasureType' /\ NobodyYet' /\ DatesType' /\ LessThanAll'
    BY <2>1, <2>2, <2>3, <2>5 DEF AdjustedInv, ChainType, StoreType, MeasureType, NobodyYet, DatesType, LessThanAll, Nothing, Minutes
  <2> QED
    BY <2>1, <2>7, <2>8 DEF AdjustedInv, ColdRunCounts
<1>10. ASSUME NEW seeded \in BOOLEAN, Publish(seeded)
       PROVE  AdjustedInv'
  <2> DEFINE low == Max({indexFrom, unread - Chunk + 1})
             S == low .. unread
  <2>1. /\ phase = "publish" /\ phase' = "wait" /\ (unread' = unread \/ (S # {} /\ unread' = Min(S) - 1))
        /\ UNCHANGED <<stamp, bots, head, checkpoint, indexFrom, real, adjusted, clockMeta, latest, start, scored, first, last, dated, moved,
                       flags, spanClock, clockRef, coldRun>>
    BY <1>10 DEF Publish
  <2>0. checkpoint # None /\ indexFrom \in Blocks /\ unread \in {None} \cup Nat
    BY <2>1 DEF AdjustedInv, WalkType, StoreType
  <2>2. indexFrom \in Nat /\ indexFrom >= 1 /\ unread \in Int /\ Chunk \in Nat
    BY <2>0 DEF Blocks, TerminalAssumption, None
  <2>3. low \in Int /\ low >= 1
    <3> DEFINE end == unread - Chunk + 1
    <3>1. indexFrom \in Int /\ end \in Int
      BY <2>2
    <3> HIDE DEF end
    <3>2. Max({indexFrom, end}) \in {indexFrom, end} /\ Max({indexFrom, end}) >= indexFrom
      BY <3>1, MaxOfTwo
    <3> QED
      BY <2>2, <3>1, <3>2 DEF end
  <2> HIDE DEF low
  <2>4. S # {} => Min(S) - 1 \in Nat
    BY <2>2, <2>3, MaxOfRange
  <2>5. StoreType'
    BY <2>1, <2>4 DEF AdjustedInv, StoreType
  <2>6. /\ ChainType' /\ MeasureType' /\ NobodyYet' /\ DatesType' /\ LessThanAll' /\ WalkType'
    BY <2>0, <2>1 DEF AdjustedInv, ChainType, MeasureType, NobodyYet, DatesType, LessThanAll, WalkType, Nothing, Minutes
  <2> QED
    BY <2>1, <2>5, <2>6 DEF AdjustedInv, ColdRunCounts
<1>11. CASE progressRefresh \/ SupplyMoves \/ NewBlock \/ UNCHANGED vars
  <2>1. /\ UNCHANGED <<stamp, bots, checkpoint, indexFrom, sent, unread, real, adjusted, clockMeta, phase,
                       latest, start, next, scored, first, last, flags, spanClock, clockRef, coldRun, dated, moved>>
        /\ head' = head \/ (head < MaxBlock /\ head' = head + 1)
    BY <1>11 DEF progressRefresh, SupplyMoves, NewBlock, vars
  <2>2. ChainType'
    BY <2>1 DEF AdjustedInv, ChainType, Blocks, TerminalAssumption
  <2>3. /\ StoreType' /\ MeasureType' /\ NobodyYet' /\ DatesType' /\ LessThanAll' /\ WalkType'
    BY <2>1 DEF AdjustedInv, StoreType, MeasureType, NobodyYet, DatesType, LessThanAll, WalkType, Nothing, Minutes
  <2> QED
    BY <2>1, <2>2, <2>3, ColdRunRests DEF AdjustedInv
<1>12. CASE Crash
  <2>1. /\ UNCHANGED <<stamp, bots, head, checkpoint, indexFrom, sent, unread, real, adjusted, clockMeta, dated>>
        /\ phase' = "down" /\ spanClock' = LiveSample /\ clockRef' = None /\ coldRun' = FALSE
        /\ scored' = Nothing /\ first' = None /\ last' = None
        /\ moved' = moved \/ (phase = "adjust" /\ moved' = {})
    BY <1>12 DEF Crash, NoRescore, MovesNothing
  <2>2. flags'.on = FALSE
    <3>1. flags' = [on |-> FALSE, row |-> NoSends, clock |-> LiveSample]
      BY <1>12 DEF Crash
    <3> QED
      BY <3>1
  <2>3. phase = "adjust" => \A m \in Minutes : adjusted[m] <= real[m]
    <3> SUFFICES ASSUME phase = "adjust", NEW m \in Minutes PROVE adjusted[m] <= real[m]
      OBVIOUS
    <3>1. adjusted[m] = real[m]
      BY DEF AdjustedInv, WalkType, ColdRunCounts
    <3>2. real[m] \in Nat
      BY DEF AdjustedInv, StoreType
    <3> QED
      BY <3>1, <3>2
  <2>4. LessThanAll'
    BY <2>1, <2>3 DEF AdjustedInv, LessThanAll
  <2>5. /\ ChainType' /\ StoreType' /\ MeasureType' /\ NobodyYet' /\ DatesType' /\ WalkType'
    BY <2>1, <2>2 DEF AdjustedInv, ChainType, StoreType, MeasureType, NobodyYet, DatesType, WalkType, Clocks, Nothing, Minutes
  <2> QED
    BY <2>1, <2>4, <2>5 DEF AdjustedInv, ColdRunCounts
<1> QED
  BY <1>1, <1>2, <1>3, <1>4, <1>5, <1>6, <1>7, <1>8, <1>9, <1>10, <1>11, <1>12 DEF Next, Process

----------------------------------------------------------------------------
(* Who is behind an address (Entities).                                     *)

Row ==
  [is : {"guessed", "small", "contract", "wallet"}, says : SUBSET Words, impl : BOOLEAN,
   kind : {Who!None, "validator", "wallet", "token", "multisig", "proxy", "contract"},
   mined : BOOLEAN, settled : BOOLEAN, attempts : Nat]

\* What KindHasItsEvidence asks of one row.
Explained(row, excused) ==
  /\ row.kind = "validator" => row.mined
  /\ row.kind = "token" => "symbol" \in row.says
  /\ row.kind = "proxy" => row.impl
  /\ row.kind = "wallet" => row.is = "wallet"
  /\ row.kind \in {"token", "multisig", "proxy", "contract"} =>
       row.is \in {"contract", "small"} \/ excused

TableType ==
  /\ facts \in [Address -> UNION {MayBe[a] : a \in Address}]
  /\ \A a \in Address : facts[a] \in MayBe[a]
  /\ Who!Rows \subseteq Address
  /\ \A a \in Who!Rows : meta[a] \in Row
  /\ learned \in [Address -> SUBSET Words]

\* What the deriver has in hand.
HandType ==
  /\ DOMAIN codes \subseteq Address
  /\ \A a \in DOMAIN codes : codes[a] \in Who!Codes
  /\ stage = "write" =>
       \A a \in DOMAIN codes : extra[a].says \in SUBSET Words /\ extra[a].impl \in BOOLEAN

\* Of an address without a row nothing was read.
NothingLearnedElsewhere == \A a \in Address \ Who!Rows : learned[a] = {}

EntitiesInv ==
  /\ TableType
  /\ HandType
  /\ NothingLearnedElsewhere
  /\ Who!KindHasItsEvidence
  /\ Who!NameIsKept

LEMMA EvidenceByRow ==
  Who!KindHasItsEvidence <=> \A a \in Who!Rows : Explained(meta[a], a \in corrected)
BY DEF Who!KindHasItsEvidence, Explained

\* classify: each kind is given on its evidence.
LEMMA KindIsGivenOnEvidence ==
  ASSUME NEW mined \in BOOLEAN, NEW code, NEW says, NEW impl \in BOOLEAN,
         NEW kind, kind = Who!Classify(mined, code, says, impl)
  PROVE  /\ kind \in {"validator", "wallet", "token", "multisig", "proxy", "contract"}
         /\ kind = "validator" => mined
         /\ kind = "wallet" => ~Who!IsContractCode(code)
         /\ kind = "token" => "symbol" \in says
         /\ kind = "proxy" => impl
         /\ kind \in {"token", "multisig", "proxy", "contract"} => Who!IsContractCode(code)
<1>1. CASE mined
  <2>1. kind = "validator"
    BY <1>1 DEF Who!Classify
  <2> QED
    BY <1>1, <2>1
<1>2. CASE ~mined /\ ~Who!IsContractCode(code)
  <2>1. kind = "wallet"
    BY <1>2 DEF Who!Classify
  <2> QED
    BY <1>2, <2>1
<1>3. CASE ~mined /\ Who!IsContractCode(code)
  BY <1>3 DEF Who!Classify
<1> QED
  BY <1>1, <1>2, <1>3

\* Between two passes nothing is in hand.
LEMMA NothingIsInHand == DOMAIN <<>> = {}
OBVIOUS

\* What a writer reads before it writes: the row, or a blank one.
LEMMA RowIsRead ==
  ASSUME EntitiesInv, NEW a \in Address
  PROVE  /\ Who!RowOf(a) \in Row
         /\ Who!RowOf(a).says = learned[a]
         /\ Explained(Who!RowOf(a), a \in corrected)
<1>1. Who!Blank \in Row /\ Who!Blank.says = {} /\ Explained(Who!Blank, a \in corrected)
  BY DEF Who!Blank, Row, Explained, Who!None
<1>2. CASE a \in Who!Rows
  BY <1>2, EvidenceByRow DEF EntitiesInv, TableType, Who!NameIsKept, Who!RowOf
<1>3. CASE a \notin Who!Rows
  BY <1>1, <1>3 DEF EntitiesInv, NothingLearnedElsewhere, Who!RowOf
<1> QED
  BY <1>2, <1>3

\* One row is written: the rest of the table stays as it was.
LEMMA RowIsWritten ==
  ASSUME EntitiesInv, NEW a \in Address, NEW row \in Row,
         meta' = Who!With(a, row), UNCHANGED facts, UNCHANGED <<stage, codes, extra>>,
         learned' \in [Address -> SUBSET Words],
         row.says = learned'[a], \A b \in Address \ {a} : learned'[b] = learned[b],
         Explained(row, a \in corrected'), corrected \subseteq corrected'
  PROVE  EntitiesInv'
<1>1. Who!Rows' = Who!Rows \cup {a} /\ meta'[a] = row /\ \A b \in Who!Rows \ {a} : meta'[b] = meta[b]
  BY DEF Who!With, Who!Rows
<1>2. Who!Rows' \subseteq Address /\ \A b \in Who!Rows' : meta'[b] \in Row
  BY <1>1 DEF EntitiesInv, TableType
<1>3. TableType'
  BY <1>2 DEF EntitiesInv, TableType
<1>4. HandType'
  BY DEF EntitiesInv, HandType
<1>5. NothingLearnedElsewhere' /\ Who!NameIsKept'
  BY <1>1, <1>2 DEF EntitiesInv, NothingLearnedElsewhere, Who!NameIsKept, TableType
<1>6. \A b \in Who!Rows' : Explained(meta'[b], b \in corrected')
  <2>1. ASSUME NEW b \in Who!Rows \ {a}
        PROVE  Explained(meta'[b], b \in corrected')
    <3>1. Explained(meta[b], b \in corrected)
      BY EvidenceByRow DEF EntitiesInv
    <3> QED
      BY <1>1, <3>1 DEF Explained
  <2> QED
    BY <1>1, <2>1
<1>7. Who!KindHasItsEvidence'
  BY <1>6 DEF Who!KindHasItsEvidence, Explained
<1> QED
  BY <1>3, <1>4, <1>5, <1>7 DEF EntitiesInv

\* upsertAddressMeta: a row the deriver writes is explained by what it read.
LEMMA UpsertExplains ==
  ASSUME EntitiesInv, stage = "write", NEW a \in DOMAIN codes
  PROVE  /\ Who!Upsert(a) \in Row
         /\ Who!Upsert(a).says = learned[a] \cup extra[a].says
         /\ Explained(Who!Upsert(a), FALSE)
<1>1. a \in Address /\ codes[a] \in Who!Codes
  BY DEF EntitiesInv, HandType
<1>2. extra[a].says \in SUBSET Words /\ extra[a].impl \in BOOLEAN
  BY DEF EntitiesInv, HandType
<1>3. Who!RowOf(a) \in Row /\ Who!RowOf(a).says = learned[a]
  BY <1>1, RowIsRead
<1> DEFINE kind == Who!Classify(a \in miners, codes[a], extra[a].says, extra[a].impl)
<1>4. /\ kind \in {"validator", "wallet", "token", "multisig", "proxy", "contract"}
      /\ kind = "validator" => a \in miners
      /\ kind = "wallet" => ~Who!IsContractCode(codes[a])
      /\ kind = "token" => "symbol" \in extra[a].says
      /\ kind = "proxy" => extra[a].impl
      /\ kind \in {"token", "multisig", "proxy", "contract"} => Who!IsContractCode(codes[a])
  <2>1. (a \in miners) \in BOOLEAN
    OBVIOUS
  <2> QED
    BY <1>2, <2>1, KindIsGivenOnEvidence, ZenonT(30)
<1>5. /\ Who!Upsert(a) \in Row
      /\ Who!Upsert(a).says = learned[a] \cup extra[a].says
      /\ Who!Upsert(a).is = Who!Is(codes[a]) /\ Who!Upsert(a).impl = extra[a].impl /\ Who!Upsert(a).kind = kind
      /\ a \in miners => Who!Upsert(a).mined
  <2>1. Who!Is(codes[a]) \in {"contract", "wallet"}
    BY DEF Who!Is
  <2> DEFINE mined == Who!RowOf(a).mined \/ a \in miners
  <2>2. Who!Upsert(a) = [Who!RowOf(a) EXCEPT !.is = Who!Is(codes[a]), !.says = @ \cup extra[a].says,
                       !.impl = extra[a].impl, !.kind = kind, !.mined = mined]
    BY DEF Who!Upsert
  <2>3. mined \in BOOLEAN /\ (a \in miners => mined)
    BY <1>3 DEF Row
  <2> HIDE DEF kind, mined
  <2> QED
    BY <1>2, <1>3, <1>4, <2>1, <2>2, <2>3, ZenonT(30) DEF Row
<1> HIDE DEF kind
<1>6. Explained(Who!Upsert(a), FALSE)
  BY <1>4, <1>5 DEF Explained, Who!Is
<1> QED
  BY <1>5, <1>6

LEMMA EntitiesInit ==
  ASSUME Who!EntitiesAssumption, Who!Init
  PROVE  EntitiesInv
<1>1. facts \in [Address -> UNION {MayBe[a] : a \in Address}] /\ \A a \in Address : facts[a] \in MayBe[a]
  BY DEF Who!Init
<1>2. PICK old \in SUBSET {a \in Address : facts[a].code = "delegated"} :
        /\ meta = [a \in old |->
             [Who!Blank EXCEPT !.is = "small", !.kind = Who!Classify(FALSE, "contract", facts[a].says, FALSE),
                           !.says = facts[a].says]]
        /\ learned = [a \in Address |-> IF a \in old THEN facts[a].says ELSE {}]
  BY DEF Who!Init
<1>3. Who!Rows = old /\ old \subseteq Address
  BY <1>2 DEF Who!Rows
<1>4. \A a \in Address : facts[a].says \in SUBSET Words
  BY <1>1 DEF Who!EntitiesAssumption
<1>5. ASSUME NEW a \in old
      PROVE  meta[a] \in Row /\ meta[a].says = learned[a] /\ Explained(meta[a], FALSE)
  <2> DEFINE kind == Who!Classify(FALSE, "contract", facts[a].says, FALSE)
  <2>1. /\ kind \in {"token", "contract"}
        /\ kind = "token" => "symbol" \in facts[a].says
    BY DEF Who!Classify, Who!IsContractCode
  <2> HIDE DEF kind
  <2>2. meta[a] = [Who!Blank EXCEPT !.is = "small", !.kind = kind, !.says = facts[a].says]
    BY <1>2 DEF kind
  <2>3. /\ meta[a] = [is |-> "small", says |-> facts[a].says, impl |-> FALSE, kind |-> kind, mined |-> FALSE,
                      settled |-> FALSE, attempts |-> 0]
    BY <2>2 DEF Who!Blank
  <2>4. a \in Address /\ learned[a] = facts[a].says
    BY <1>2, <1>3
  <2> QED
    BY <1>4, <2>1, <2>3, <2>4 DEF Row, Explained
<1>6. TableType /\ NothingLearnedElsewhere /\ Who!NameIsKept
  BY <1>1, <1>2, <1>3, <1>4, <1>5 DEF TableType, NothingLearnedElsewhere, Who!NameIsKept
<1>7. Who!KindHasItsEvidence
  BY <1>3, <1>5 DEF Who!KindHasItsEvidence, Explained
<1>8. HandType
  BY NothingIsInHand DEF Who!Init, HandType
<1> QED
  BY <1>6, <1>7, <1>8 DEF EntitiesInv

\* The steps that leave the table alone.
LEMMA TableRests ==
  ASSUME EntitiesInv, UNCHANGED <<facts, meta, learned, corrected>>, HandType'
  PROVE  EntitiesInv'
BY DEF EntitiesInv, TableType, NothingLearnedElsewhere, Who!KindHasItsEvidence, Who!NameIsKept, Who!Rows

LEMMA DeriveKeeps ==
  ASSUME EntitiesInv, Who!Derive
  PROVE  EntitiesInv'
<1>1. PICK written \in SUBSET DOMAIN codes :
        /\ meta' = [a \in Who!Rows \cup written |-> IF a \in written THEN Who!Upsert(a) ELSE meta[a]]
        /\ learned' = [a \in Address |-> learned[a] \cup IF a \in written THEN extra[a].says ELSE {}]
        /\ corrected' = corrected \ written
  BY DEF Who!Derive
<1>2. stage = "write" /\ UNCHANGED facts /\ codes' = <<>> /\ stage' = "idle"
  BY DEF Who!Derive
<1>3. written \subseteq Address /\ \A a \in written : extra[a].says \in SUBSET Words
  BY <1>1, <1>2 DEF EntitiesInv, HandType
<1>4. Who!Rows' = Who!Rows \cup written /\ Who!Rows \subseteq Address
  BY <1>1 DEF Who!Rows, EntitiesInv, TableType
<1>5. ASSUME NEW a \in written
      PROVE  meta'[a] \in Row /\ meta'[a].says = learned'[a] /\ Explained(meta'[a], a \in corrected')
  <2>1. meta'[a] = Who!Upsert(a) /\ learned'[a] = learned[a] \cup extra[a].says
    BY <1>1, <1>3
  <2>2. Who!Upsert(a) \in Row /\ Who!Upsert(a).says = learned[a] \cup extra[a].says /\ Explained(Who!Upsert(a), FALSE)
    BY <1>1, <1>2, UpsertExplains
  <2>3. Explained(Who!Upsert(a), a \in corrected')
    BY <2>2 DEF Explained
  <2> QED
    BY <2>1, <2>2, <2>3
<1>6. ASSUME NEW a \in Who!Rows \ written
      PROVE  meta'[a] \in Row /\ meta'[a].says = learned'[a] /\ Explained(meta'[a], a \in corrected')
  <2>1. meta'[a] = meta[a] /\ learned'[a] = learned[a] /\ (a \in corrected' <=> a \in corrected)
    BY <1>1, <1>4 DEF EntitiesInv, TableType
  <2>2. meta[a] \in Row /\ meta[a].says = learned[a] /\ Explained(meta[a], a \in corrected)
    BY EvidenceByRow DEF EntitiesInv, TableType, Who!NameIsKept
  <2> QED
    BY <2>1, <2>2
<1>7. learned' \in [Address -> SUBSET Words]
  BY <1>1, <1>3 DEF EntitiesInv, TableType
<1>8. TableType'
  BY <1>2, <1>3, <1>4, <1>5, <1>6, <1>7 DEF EntitiesInv, TableType
<1>9. NothingLearnedElsewhere' /\ Who!NameIsKept'
  <2>1. \A a \in Address \ Who!Rows' : learned'[a] = learned[a] /\ a \notin Who!Rows
    BY <1>1, <1>4 DEF EntitiesInv, TableType
  <2> QED
    BY <1>4, <1>5, <1>6, <2>1 DEF EntitiesInv, NothingLearnedElsewhere, Who!NameIsKept
<1>10. Who!KindHasItsEvidence'
  BY <1>4, <1>5, <1>6 DEF Who!KindHasItsEvidence, Explained
<1>11. HandType'
  BY <1>2, NothingIsInHand DEF HandType
<1> QED
  BY <1>8, <1>9, <1>10, <1>11 DEF EntitiesInv

LEMMA ProbeKeeps ==
  ASSUME Who!EntitiesAssumption, EntitiesInv, NEW a \in Address, Who!Probe(a)
  PROVE  EntitiesInv'
<1>1. UNCHANGED <<facts, stage, codes, extra, corrected>>
  BY DEF Who!Probe, Who!deriver
<1>2. Who!RowOf(a) \in Row /\ Who!RowOf(a).says = learned[a] /\ Explained(Who!RowOf(a), a \in corrected)
  BY RowIsRead
<1>3. PICK replies \in SUBSET Words :
        LET said == replies \cap facts[a].says
        IN  IF replies # {}
            THEN /\ meta' = Who!With(a, Who!SetIdentity(a, said))
                 /\ learned' = [learned EXCEPT ![a] = @ \cup said]
            ELSE /\ meta' = Who!With(a, Who!NoteIdentityAttempt(a))
                 /\ UNCHANGED learned
  BY DEF Who!Probe
<1>4. learned \in [Address -> SUBSET Words]
  BY DEF EntitiesInv, TableType
<1>5. CASE replies # {}
  <2> DEFINE said == replies \cap facts[a].says
  <2>1. meta' = Who!With(a, Who!SetIdentity(a, said)) /\ learned' = [learned EXCEPT ![a] = @ \cup said]
    BY <1>3, <1>5
  <2>2. said \subseteq Words
    OBVIOUS
  <2> HIDE DEF said
  <2>3. Who!SetIdentity(a, said) = [Who!RowOf(a) EXCEPT !.says = @ \cup said, !.settled = TRUE]
    BY DEF Who!SetIdentity
  <2>4. Who!SetIdentity(a, said) \in Row
    BY <1>2, <2>2, <2>3 DEF Row
  <2>5. Who!SetIdentity(a, said).says = learned[a] \cup said /\ Explained(Who!SetIdentity(a, said), a \in corrected)
    BY <1>2, <2>3 DEF Row, Explained
  <2>6. learned' \in [Address -> SUBSET Words] /\ learned'[a] = learned[a] \cup said
        /\ \A b \in Address \ {a} : learned'[b] = learned[b]
    BY <1>4, <2>1, <2>2
  <2> QED
    BY <1>1, <2>1, <2>4, <2>5, <2>6, RowIsWritten
<1>6. CASE replies = {}
  <2>1. meta' = Who!With(a, Who!NoteIdentityAttempt(a)) /\ UNCHANGED learned
    BY <1>3, <1>6
  <2> DEFINE settles == Who!RowOf(a).settled \/ (a \in Who!Rows /\ Who!RowOf(a).attempts + 1 >= MaxAttempts)
  <2>2. Who!NoteIdentityAttempt(a) = [Who!RowOf(a) EXCEPT !.attempts = @ + 1, !.settled = settles]
    BY DEF Who!NoteIdentityAttempt
  <2>3. settles \in BOOLEAN
    BY <1>2 DEF Row
  <2> HIDE DEF settles
  <2>4. Who!NoteIdentityAttempt(a) \in Row
    <3>1. Who!RowOf(a).attempts + 1 \in Nat
      BY <1>2 DEF Row
    <3> QED
      BY <1>2, <2>2, <2>3, <3>1 DEF Row
  <2>5. Who!NoteIdentityAttempt(a).says = learned[a] /\ Explained(Who!NoteIdentityAttempt(a), a \in corrected)
    BY <1>2, <2>2 DEF Row, Explained
  <2> QED
    BY <1>1, <1>4, <2>1, <2>4, <2>5, RowIsWritten
<1> QED
  BY <1>5, <1>6

LEMMA AttributeKeeps ==
  ASSUME Who!EntitiesAssumption, EntitiesInv, NEW a \in Address, Who!Attribute(a)
  PROVE  EntitiesInv'
<1>1. UNCHANGED <<facts, stage, codes, extra, learned, corrected>>
  BY DEF Who!Attribute, Who!deriver, Who!history
<1>2. PICK found \in {FALSE, facts[a].slot} : meta' = Who!With(a, [Who!RowOf(a) EXCEPT !.impl = @ \/ found])
  BY DEF Who!Attribute
<1>3. Who!RowOf(a) \in Row /\ Who!RowOf(a).says = learned[a] /\ Explained(Who!RowOf(a), a \in corrected)
  BY RowIsRead
<1> DEFINE row == [Who!RowOf(a) EXCEPT !.impl = @ \/ found]
<1>4. row \in Row /\ row.says = learned[a] /\ Explained(row, a \in corrected)
  BY <1>3 DEF Row, Explained
<1>5. learned \in [Address -> SUBSET Words]
  BY DEF EntitiesInv, TableType
<1> HIDE DEF row
<1>6. meta' = Who!With(a, row)
  BY <1>2 DEF row
<1> QED
  BY <1>1, <1>4, <1>5, <1>6, RowIsWritten

LEMMA DiscoverKeeps ==
  ASSUME EntitiesInv, NEW a \in Address, Who!Discover(a)
  PROVE  EntitiesInv'
<1>1. UNCHANGED <<facts, stage, codes, extra, learned, corrected>> /\ a \notin Who!Rows
  BY DEF Who!Discover, Who!deriver, Who!history
<1> DEFINE row == [Who!Blank EXCEPT !.is = Who!Is(facts[a].code)]
<1>2. meta' = Who!With(a, row)
  BY DEF Who!Discover
<1>3. Who!Is(facts[a].code) \in {"contract", "wallet"}
  BY DEF Who!Is
<1>4. row \in Row /\ row.says = {} /\ Explained(row, a \in corrected)
  BY <1>3 DEF Who!Blank, Row, Explained, Who!None
<1>5. learned \in [Address -> SUBSET Words] /\ learned[a] = {}
  BY <1>1 DEF EntitiesInv, TableType, NothingLearnedElsewhere
<1> HIDE DEF row
<1> QED
  BY <1>1, <1>2, <1>4, <1>5, RowIsWritten

LEMMA RecheckKeeps ==
  ASSUME EntitiesInv, NEW a \in Address, Who!Recheck(a)
  PROVE  EntitiesInv'
<1>1. /\ UNCHANGED <<facts, stage, codes, extra, learned>> /\ a \in Who!Rows
      /\ meta[a].is = "small" /\ corrected' = corrected \cup {a}
  BY DEF Who!Recheck, Who!deriver
<1> DEFINE row == [meta[a] EXCEPT !.is = "wallet"]
<1>2. meta' = Who!With(a, row)
  BY <1>1 DEF Who!Recheck, Who!With, Who!Rows
<1>3. Who!RowOf(a) = meta[a]
  BY <1>1 DEF Who!RowOf
<1>4. meta[a] \in Row /\ meta[a].says = learned[a] /\ Explained(meta[a], a \in corrected)
  BY <1>3, RowIsRead
<1>5. row \in Row /\ row.says = learned[a] /\ Explained(row, a \in corrected')
  BY <1>1, <1>4 DEF Row, Explained
<1>6. learned \in [Address -> SUBSET Words]
  BY DEF EntitiesInv, TableType
<1> HIDE DEF row
<1> QED
  BY <1>1, <1>2, <1>5, <1>6, RowIsWritten

LEMMA EntitiesStep ==
  ASSUME Who!EntitiesAssumption, EntitiesInv, [Who!Next]_Who!vars
  PROVE  EntitiesInv'
<1>1. CASE Who!ReadCodes
  <2>1. UNCHANGED <<facts, meta, learned, corrected>> /\ stage' = "extra"
    BY <1>1 DEF Who!ReadCodes, Who!history
  <2>2. PICK answered \in SUBSET (Top \cup Miners) : codes' = [a \in answered |-> facts[a].code]
    BY <1>1 DEF Who!ReadCodes, Who!Samples
  <2>3. answered \subseteq Address /\ \A a \in Address : facts[a].code \in Who!Codes
    BY DEF EntitiesInv, TableType, Who!EntitiesAssumption
  <2>4. HandType'
    BY <2>1, <2>2, <2>3 DEF HandType
  <2> QED
    BY <2>1, <2>4, TableRests
<1>2. CASE Who!ReadExtra
  <2>1. UNCHANGED <<facts, meta, learned, corrected, codes>>
    BY <1>2 DEF Who!ReadExtra, Who!history
  <2>2. PICK answered \in SUBSET Who!Calls :
          extra' = [a \in DOMAIN codes |->
            [says |-> {w \in facts[a].says : <<a, w>> \in answered},
             impl |-> facts[a].impl /\ <<a, "implementation">> \in answered]]
    BY <1>2 DEF Who!ReadExtra
  <2>3. \A a \in Address : facts[a].says \subseteq Words
    BY DEF EntitiesInv, TableType, Who!EntitiesAssumption
  <2>4. ASSUME NEW a \in DOMAIN codes
        PROVE  extra'[a].says \in SUBSET Words /\ extra'[a].impl \in BOOLEAN
    <3>1. a \in Address
      BY DEF EntitiesInv, HandType
    <3>2. extra'[a] = [says |-> {w \in facts[a].says : <<a, w>> \in answered},
                       impl |-> facts[a].impl /\ <<a, "implementation">> \in answered]
      BY <2>2
    <3> QED
      BY <2>3, <3>1, <3>2
  <2>5. HandType'
    BY <2>1, <2>4 DEF EntitiesInv, HandType
  <2> QED
    BY <2>1, <2>5, TableRests
<1>3. CASE Who!Derive
  BY <1>3, DeriveKeeps
<1>4. CASE Who!DeriverFails
  <2>1. UNCHANGED <<facts, meta, learned, corrected>> /\ codes' = <<>>
    BY <1>4 DEF Who!DeriverFails, Who!history
  <2>2. HandType'
    BY <2>1, NothingIsInHand DEF HandType
  <2> QED
    BY <2>1, <2>2, TableRests
<1>5. CASE Who!BeginProbe \/ Who!ProbeFails
  <2>1. UNCHANGED <<facts, meta, learned, corrected, stage, codes, extra>>
    BY <1>5 DEF Who!BeginProbe, Who!ProbeFails, Who!deriver, Who!history
  <2>2. HandType'
    BY <2>1 DEF EntitiesInv, HandType
  <2> QED
    BY <2>1, <2>2, TableRests
<1>6. ASSUME NEW a \in Address, Who!Probe(a)
      PROVE  EntitiesInv'
  BY <1>6, ProbeKeeps
<1>7. ASSUME NEW a \in Address, Who!Attribute(a)
      PROVE  EntitiesInv'
  BY <1>7, AttributeKeeps
<1>8. ASSUME NEW a \in Address, Who!Discover(a)
      PROVE  EntitiesInv'
  BY <1>8, DiscoverKeeps
<1>9. ASSUME NEW a \in Address, Who!Recheck(a)
      PROVE  EntitiesInv'
  BY <1>9, RecheckKeeps
<1>10. ASSUME NEW a \in Address, NEW f \in MayBe[a], Who!Upgrade(a, f)
       PROVE  EntitiesInv'
  <2>1. UNCHANGED <<meta, learned, corrected, stage, codes, extra>> /\ facts' = [facts EXCEPT ![a] = f]
    BY <1>10 DEF Who!Upgrade, Who!deriver, Who!history
  <2>2. facts' \in [Address -> UNION {MayBe[b] : b \in Address}] /\ \A b \in Address : facts'[b] \in MayBe[b]
    BY <2>1 DEF EntitiesInv, TableType
  <2> QED
    BY <2>1, <2>2 DEF EntitiesInv, TableType, HandType, NothingLearnedElsewhere, Who!KindHasItsEvidence, Who!NameIsKept, Who!Rows
<1>11. CASE UNCHANGED Who!vars
  <2>1. UNCHANGED <<facts, meta, learned, corrected, stage, codes, extra>>
    BY <1>11 DEF Who!vars, Who!deriver, Who!history
  <2>2. HandType'
    BY <2>1 DEF EntitiesInv, HandType
  <2> QED
    BY <2>1, <2>2, TableRests
<1> QED
  BY <1>1, <1>2, <1>3, <1>4, <1>5, <1>6, <1>7, <1>8, <1>9, <1>10, <1>11 DEF Who!Next, Who!DerivePass, Who!ProbePass, Who!Others

----------------------------------------------------------------------------
(* The two halves together: whichever runs, the other rests.                *)

LEMMA FiguresAlways == MCFair => [](DatedInv /\ AdjustedInv)
<1>1. MCInit => DatedInv /\ AdjustedInv
  BY TerminalAssumption, DatedInit, AdjustedInit DEF MCInit
<1>2. DatedInv /\ AdjustedInv /\ [MCNext]_allVars => (DatedInv /\ AdjustedInv)'
  <2>1. [MCNext]_allVars => [Next]_vars
    BY DEF MCNext, FiguresStep, WhoStep, allVars
  <2> QED
    BY <2>1, TerminalAssumption, DatedStep, AdjustedStep
<1> QED
  BY <1>1, <1>2, PTL DEF MCFair

LEMMA WhoAlways == MCFair => []EntitiesInv
<1>1. MCInit => EntitiesInv
  BY WhoAssumption, EntitiesInit DEF MCInit
<1>2. EntitiesInv /\ [MCNext]_allVars => EntitiesInv'
  <2>1. [MCNext]_allVars => [Who!Next]_Who!vars
    BY DEF MCNext, FiguresStep, WhoStep, allVars, whoVars, Who!vars, Who!deriver, Who!history
  <2> QED
    BY <2>1, WhoAssumption, EntitiesStep
<1> QED
  BY <1>1, <1>2, PTL DEF MCFair

\* indexer.js, snapshotFromDb and refreshNoisy: whatever died, failed or was late,
\* a served supply is of the date it is served with, and a served set is the one
\* its clock and its rows give.
THEOREM AlwaysPublishedAsMeasured == MCFair => []PublishedAsMeasured
<1>1. DatedInv => PublishedAsMeasured
  BY DEF DatedInv
<1> QED
  BY <1>1, FiguresAlways, PTL

\* indexer.js, backfill and adjustBackfill: in every minute whose blocks both readings
\* put there, the second leaves exactly what is not noise, on any chain, whole seconds
\* shared by blocks included, however the ranges were cut and whichever header failed.
THEOREM AdjustedIsAlwaysWhatTheSetLeaves == MCFair => []AdjustedIsWhatTheSetLeaves
<1>1. AdjustedInv => AdjustedIsWhatTheSetLeaves
  BY DEF AdjustedInv, LessThanAll, ColdRunCounts, AdjustedIsWhatTheSetLeaves
<1> QED
  BY <1>1, FiguresAlways, PTL

\* explain, upsertAddressMeta and setIdentity: whatever missed an answer and whoever
\* wrote last, what an address is called to be has its evidence in the row it is
\* shown with, and a name any writer has read is kept.
THEOREM RowIsAlwaysExplained == MCFair => []RowIsExplained
<1>1. EntitiesInv => RowIsExplained
  BY DEF EntitiesInv, RowIsExplained
<1> QED
  BY <1>1, WhoAlways, PTL
=============================================================================
