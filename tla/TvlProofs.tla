----------------------------- MODULE TvlProofs -----------------------------
(***************************************************************************)
(* Proofs about the two halves of a TVL pass.                              *)
(*                                                                         *)
(* TvlScan, for any addresses, tokens, code, registry and limits.  What a  *)
(* pass reads was selected from the tables as they were, and stored in     *)
(* tables the others wrote since.  So what is shown of a stored reading is *)
(* shown of those in hand as well, and of who is still to be read.         *)
(***************************************************************************)
EXTENDS MCTvlScan, FiniteSetTheorems, WellFoundedInduction, TLAPS

----------------------------------------------------------------------------
(* The scan of the balances.                                                *)

ScanType ==
  /\ code \in [Address -> {"contract", "small", "delegated", "none"}]
  /\ held \in [Address -> [Tokens -> Int]]
  /\ meta \in [Address -> {"unknown", "contract", "wallet", "guessed"}]
  /\ strays \subseteq Address
  /\ DOMAIN rows \subseteq Keys /\ DOMAIN got \subseteq Keys
  /\ \A k \in DOMAIN rows : rows[k] = [bal |-> rows[k].bal, age |-> rows[k].age]
  /\ cursors = [fast |-> cursors.fast, slow |-> cursors.slow, recheck |-> cursors.recheck]
  /\ cursors.recheck \in Nat

\* Between two scans a pass holds nothing.
NothingInHand == pc # "scan" => left = {} /\ got = <<>>

\* A balance that an address held in a contract of the symbol.
IsHeld(k, amount) == \E t \in Tokens : SymbolOf[t] = k[2] /\ amount = held[k[1]][t]
ReadingsAreHeld == \A k \in DOMAIN rows : k[1] \notin everMoved => IsHeld(k, rows[k].bal)
AnswersAreHeld == \A k \in DOMAIN got : k[1] \notin everMoved => IsHeld(k, got[k])

\* Who has a reading, is about to get one or is still to be read.
Excused(a) == a \in Registry \cup strays
RowsOfContracts == \A k \in DOMAIN rows : Excused(k[1]) \/ IsContract(k[1])
AnswersOfContracts == \A k \in DOMAIN got : Excused(k[1]) \/ IsContract(k[1])
TargetsAreContracts == \A a \in left : a \in Address /\ (Excused(a) \/ IsContract(a))

\* Whom the recheck has still to find out.
StillToRecheck == \A a \in Address : meta[a] = "contract" /\ ~HasCode(a) => code[a] = "delegated" /\ a > cursors.recheck

ScanInv ==
  /\ ScanType /\ NothingInHand
  /\ ReadingsAreHeld /\ AnswersAreHeld
  /\ RowsOfContracts /\ AnswersOfContracts /\ TargetsAreContracts
  /\ StillToRecheck

\* A set of positions in a list has a last one.
LEMMA LastPosition ==
  ASSUME NEW n \in Nat, NEW T \in SUBSET (1 .. n), T # {}
  PROVE  \E t \in T : \A u \in T : u <= t
<1> DEFINE fromEnd == {n - t : t \in T}
<1>1. fromEnd \subseteq Nat /\ fromEnd # {}
  <2>1. \A t \in T : t \in 1 .. n
    OBVIOUS
  <2>2. \A t \in 1 .. n : n - t \in Nat
    OBVIOUS
  <2>3. \A t \in T : n - t \in Nat
    BY <2>1, <2>2
  <2> QED
    BY <2>3
<1>2. PICK d \in fromEnd : \A e \in fromEnd : <<e, d>> \notin OpToRel(<, Nat)
  <2> HIDE DEF fromEnd
  <2> QED
    BY <1>1, NatLessThanWellFounded, WFMin
<1>3. \A e \in fromEnd : ~(e < d)
  BY <1>1, <1>2 DEF OpToRel
<1>4. PICK t \in T : d = n - t
  BY <1>2
<1>5. \A u \in T : u <= t
  <2> TAKE u \in T
  <2>1. n - u \in fromEnd
    OBVIOUS
  <2>2. ~(n - u < n - t)
    BY <2>1, <1>3, <1>4
  <2>3. u \in Nat /\ t \in Nat
    OBVIOUS
  <2> QED
    BY <2>2, <2>3
<1> QED
  BY <1>5

\* What is stored of a symbol is a balance in one of its contracts.
LEMMA StoredIsHeld ==
  ASSUME TvlScanAssumption, NEW a \in Address, NEW answered \in SUBSET Tokens,
         NEW s \in {SymbolOf[t] : t \in answered}
  PROVE  IsHeld(<<a, s>>, BalanceOf(a, s, answered))
<1> DEFINE those == {t \in answered : SymbolOf[t] = s}
<1>1. those # {}
  OBVIOUS
<1>2. PICK n \in Nat : Tokens = 1 .. n
  BY DEF TvlScanAssumption, Tokens
<1>3. \E t \in those : \A u \in those : u <= t
  BY <1>1, <1>2, LastPosition
<1>4. \E t \in answered : SymbolOf[t] = s /\ \A u \in answered : SymbolOf[u] = s => u <= t
  BY <1>3
<1> QED
  BY <1>4 DEF BalanceOf, IsHeld

LEMMA ForemostAreOfThem ==
  /\ \A n, S : Foremost(n, S, Staler) \subseteq S
  /\ \A n, S : Foremost(n, S, WorthMore) \subseteq S
  /\ \A n, S : Foremost(n, S, <) \subseteq S
BY DEF Foremost

\* selectTargets: whoever is read is listed, has a counted reading or is a contract.
LEMMA TargetsAreSelected ==
  ASSUME Select
  PROVE  left' \subseteq Registry \cup Holders \cup Contracts
<1>1. PICK sweep \in {Foremost(IF Sweep < AlwaysTop THEN Sweep ELSE AlwaysTop, Holders, Staler)},
          slow \in {Lane(SlowLane, cursors.slow, SlowSlice)} :
        \E hot \in {Foremost(AlwaysTop - Cardinality(sweep), Contracts, WorthMore)},
           fast \in {Lane(FastLane, cursors.fast, FastSlice + SlowSlice - Cardinality(slow.members))} :
          left' = Targets(<<Registry, sweep, hot, fast.members, slow.members>>)
  BY DEF Select
<1>2. PICK hot \in {Foremost(AlwaysTop - Cardinality(sweep), Contracts, WorthMore)},
          fast \in {Lane(FastLane, cursors.fast, FastSlice + SlowSlice - Cardinality(slow.members))} :
        left' = Targets(<<Registry, sweep, hot, fast.members, slow.members>>)
  BY <1>1
<1>3. sweep \subseteq Holders /\ hot \subseteq Contracts
  BY <1>1, <1>2 DEF Foremost
<1>4. \A c, n : Lane(FastLane, c, n).members \subseteq Contracts /\ Lane(SlowLane, c, n).members \subseteq Contracts
  BY DEF Lane, Foremost, FastLane, SlowLane
<1>5. fast.members \subseteq Contracts /\ slow.members \subseteq Contracts
  BY <1>1, <1>2, <1>4
<1> DEFINE sources == <<Registry, sweep, hot, fast.members, slow.members>>
<1>6. Targets(sources) \subseteq UNION {sources[i] : i \in DOMAIN sources}
  BY DEF Targets, Foremost
<1>7. DOMAIN sources = 1 .. 5 /\ \A i \in 1 .. 5 : i = 1 \/ i = 2 \/ i = 3 \/ i = 4 \/ i = 5
  OBVIOUS
<1>8. \A i \in DOMAIN sources : sources[i] \subseteq Registry \cup Holders \cup Contracts
  <2> TAKE i \in DOMAIN sources
  <2>1. i \in {1, 2, 3, 4, 5}
    BY <1>7
  <2> QED
    BY <2>1, <1>3, <1>5
<1> QED
  BY <1>2, <1>6, <1>8


LEMMA KeyIsAPair ==
  ASSUME NEW k \in Keys
  PROVE  k[1] \in Address /\ k[2] \in Symbols /\ k = <<k[1], k[2]>>
BY DEF Keys

LEMMA ScanInit ==
  ASSUME TvlScanAssumption, Init
  PROVE  ScanInv
<1>1. PICK known \in SUBSET Contracts :
        rows = [k \in {k \in Keys : k[1] \in known \cup strays} |->
                  [bal |-> BalanceOf(k[1], k[2], Tokens), age |-> 1]]
  BY DEF Init
<1>2. meta \in [Address -> {"unknown", "contract", "wallet"}] /\ code \in [Address -> Codes]
  BY DEF Init
<1>3. \A a \in Address : meta[a] \in MayBeKnownAs(code[a])
  BY DEF Init
<1>4. strays \subseteq Address
  BY DEF Init
<1>5. ScanType
  <2>1. held \in [Address -> [Tokens -> Int]]
    BY DEF Init
  <2>2. DOMAIN rows \subseteq Keys /\ \A k \in DOMAIN rows : rows[k] = [bal |-> rows[k].bal, age |-> rows[k].age]
    BY <1>1
  <2>3. DOMAIN got \subseteq Keys
    BY DEF Init
  <2>4. cursors = [fast |-> cursors.fast, slow |-> cursors.slow, recheck |-> cursors.recheck] /\ cursors.recheck \in Nat
    BY DEF Init
  <2> QED
    BY <1>2, <1>4, <2>1, <2>2, <2>3, <2>4 DEF ScanType, TvlScanAssumption
<1>6. ReadingsAreHeld
  <2> SUFFICES ASSUME NEW k \in DOMAIN rows
               PROVE  IsHeld(k, rows[k].bal)
    BY DEF ReadingsAreHeld
  <2>1. k \in Keys /\ rows[k].bal = BalanceOf(k[1], k[2], Tokens)
    BY <1>1
  <2>2. k[1] \in Address /\ k[2] \in {SymbolOf[t] : t \in Tokens} /\ k = <<k[1], k[2]>>
    BY <2>1, KeyIsAPair DEF Symbols
  <2> QED
    BY <2>1, <2>2, StoredIsHeld
<1>7. RowsOfContracts
  BY <1>1 DEF RowsOfContracts, Excused, Contracts
<1>8. left = {} /\ DOMAIN got = {} /\ pc = "idle" /\ got = <<>> /\ cursors.recheck = 0
  BY DEF Init
<1>9. StillToRecheck
  <2> SUFFICES ASSUME NEW a \in Address, meta[a] = "contract", ~HasCode(a)
               PROVE  code[a] = "delegated" /\ a > cursors.recheck
    BY DEF StillToRecheck
  <2>1. code[a] # "none"
    BY <1>3 DEF MayBeKnownAs
  <2>2. code[a] \in {"contract", "small", "delegated", "none"}
    BY <1>2 DEF TvlScanAssumption
  <2>3. a > 0
    BY DEF Address
  <2> QED
    BY <1>8, <2>1, <2>2, <2>3 DEF HasCode
<1> QED
  BY <1>5, <1>6, <1>7, <1>8, <1>9 DEF ScanInv, NothingInHand, AnswersAreHeld, AnswersOfContracts, TargetsAreContracts

\* An action that leaves the chain, the readings and the recheck alone, and turns
\* no contract to something else, keeps what is said of readings.
LEMMA ReadingsRest ==
  ASSUME ScanInv, UNCHANGED <<held, everMoved, rows, got>>
  PROVE  ReadingsAreHeld' /\ AnswersAreHeld'
BY DEF ScanInv, ReadingsAreHeld, AnswersAreHeld, IsHeld

LEMMA ContractsRest ==
  ASSUME ScanInv, UNCHANGED <<rows, got, left, strays>>,
         \A a \in Address : IsContract(a) => IsContract(a)'
  PROVE  RowsOfContracts' /\ AnswersOfContracts' /\ TargetsAreContracts'
BY KeyIsAPair DEF ScanInv, ScanType, RowsOfContracts, AnswersOfContracts, TargetsAreContracts, Excused

LEMMA DiscoverKeeps ==
  ASSUME TvlScanAssumption, ScanInv, Discover
  PROVE  ScanInv'
<1>1. PICK answered \in SUBSET {a \in seen \cup moving : meta[a] = "unknown"} :
        meta' = [a \in Address |->
          IF a \in answered THEN IF HasCode(a) THEN "contract" ELSE "wallet" ELSE meta[a]]
  BY DEF Discover
<1>2. UNCHANGED <<code, held, everMoved, strays, rows, cursors, left, got>> /\ pc = "idle" /\ pc' = "recheck"
  BY DEF Discover, chain
<1>3. ScanType'
  BY <1>1, <1>2 DEF ScanInv, ScanType
<1>4. \A a \in Address : IsContract(a) => IsContract(a)'
  BY <1>1 DEF IsContract
<1>5. StillToRecheck'
  BY <1>1, <1>2 DEF ScanInv, StillToRecheck, HasCode
<1>6. NothingInHand'
  BY <1>2 DEF ScanInv, NothingInHand
<1> QED
  BY <1>2, <1>3, <1>4, <1>5, <1>6, ReadingsRest, ContractsRest DEF ScanInv

LEMMA RecheckKeeps ==
  ASSUME TvlScanAssumption, ScanInv, Recheck
  PROVE  ScanInv'
<1>1. PICK last \in Suspects \cup {cursors.recheck} :
        LET answered == {a \in Suspects : a <= last}
            wallets == {a \in answered : code[a] = "delegated"}
        IN  /\ meta' = [a \in Address |-> IF a \in wallets THEN "wallet" ELSE meta[a]]
            /\ rows' = [k \in DOMAIN rows \ Leaving(wallets) |-> rows[k]]
            /\ cursors' = [cursors EXCEPT !.recheck = IF Suspects = {} THEN Done ELSE last]
  BY DEF Recheck
<1>2. UNCHANGED <<code, held, everMoved, strays, left, got>> /\ pc = "recheck" /\ pc' = "select"
  BY DEF Recheck, chain
<1> DEFINE wallets == {a \in {a \in Suspects : a <= last} : code[a] = "delegated"}
<1>3. /\ meta' = [a \in Address |-> IF a \in wallets THEN "wallet" ELSE meta[a]]
      /\ rows' = [k \in DOMAIN rows \ Leaving(wallets) |-> rows[k]]
      /\ cursors' = [cursors EXCEPT !.recheck = IF Suspects = {} THEN Done ELSE last]
  BY <1>1
<1>4. \A a \in Address : a \in wallets <=> meta[a] = "contract" /\ code[a] = "delegated" /\ a > cursors.recheck /\ a <= last
  BY DEF Suspects
<1>5. last \in Nat /\ Done \in Nat
  BY <1>1 DEF Suspects, Address, Done, TvlScanAssumption, ScanInv, ScanType
<1> HIDE DEF wallets
<1>6. left = {} /\ DOMAIN got = {} /\ got = <<>>
  BY <1>2 DEF ScanInv, NothingInHand
<1>7. DOMAIN rows' \subseteq DOMAIN rows /\ \A k \in DOMAIN rows' : rows'[k] = rows[k] /\ k[1] \notin wallets
  BY <1>3 DEF Leaving
<1>8. cursors'.recheck = (IF Suspects = {} THEN Done ELSE last) /\ cursors' = [fast |-> cursors'.fast, slow |-> cursors'.slow, recheck |-> cursors'.recheck]
  BY <1>3 DEF ScanInv, ScanType
<1>9. ScanType'
  BY <1>2, <1>3, <1>5, <1>7, <1>8 DEF ScanInv, ScanType
<1>10. ReadingsAreHeld'
  BY <1>2, <1>7 DEF ScanInv, ReadingsAreHeld, IsHeld
<1>11. RowsOfContracts'
  BY <1>2, <1>3, <1>7, KeyIsAPair DEF ScanInv, ScanType, RowsOfContracts, Excused, IsContract
<1>12. StillToRecheck'
  <2> SUFFICES ASSUME NEW a \in Address, meta'[a] = "contract", ~HasCode(a)
               PROVE  code[a] = "delegated" /\ a > cursors'.recheck
    BY <1>2 DEF StillToRecheck, HasCode
  <2>1. meta[a] = "contract" /\ a \notin wallets
    BY <1>3
  <2>2. code[a] = "delegated" /\ a > cursors.recheck
    BY <2>1 DEF ScanInv, StillToRecheck
  <2>3. a \in Suspects /\ ~(a <= last)
    BY <1>4, <2>1, <2>2 DEF Suspects
  <2>4. a \in Nat
    BY DEF Address
  <2> QED
    BY <1>5, <1>8, <2>2, <2>3, <2>4
<1> QED
  BY <1>2, <1>6, <1>9, <1>10, <1>11, <1>12 DEF ScanInv, NothingInHand, AnswersAreHeld, AnswersOfContracts, TargetsAreContracts

LEMMA SelectKeeps ==
  ASSUME TvlScanAssumption, ScanInv, Select
  PROVE  ScanInv'
<1>1. UNCHANGED <<code, held, everMoved, strays, meta, rows, cursors>> /\ got' = <<>> /\ pc' = "scan"
  BY DEF Select, chain, tables
<1>2. left' \subseteq Registry \cup Holders \cup Contracts
  BY TargetsAreSelected
<1>3. TargetsAreContracts'
  <2> SUFFICES ASSUME NEW a \in left'
               PROVE  a \in Address /\ (a \in Registry \cup strays \/ IsContract(a))
    BY <1>1 DEF TargetsAreContracts, Excused, IsContract
  <2>1. CASE a \in Registry
    BY <2>1 DEF TvlScanAssumption
  <2>2. CASE a \in Holders
    <3>1. PICK k \in DOMAIN rows : a = k[1]
      BY <2>2 DEF Holders, Counted
    <3> QED
      BY <3>1, KeyIsAPair DEF ScanInv, ScanType, RowsOfContracts, Excused
  <2>3. CASE a \in Contracts
    BY <2>3 DEF Contracts
  <2> QED
    BY <1>2, <2>1, <2>2, <2>3
<1>4. DOMAIN got' = {}
  BY <1>1
<1> QED
  BY <1>1, <1>3, <1>4 DEF ScanInv, ScanType, NothingInHand, ReadingsAreHeld, AnswersAreHeld, IsHeld, RowsOfContracts, AnswersOfContracts,
    Excused, IsContract, StillToRecheck, HasCode

LEMMA ReadKeeps ==
  ASSUME TvlScanAssumption, ScanInv, NEW a \in Address, Read(a)
  PROVE  ScanInv'
<1>1. PICK answered \in SUBSET Tokens :
        got' = [k \in DOMAIN got \cup DOMAIN Reading(a, answered) |->
                  IF k \in DOMAIN got THEN got[k] ELSE Reading(a, answered)[k]]
  BY DEF Read
<1>2. UNCHANGED <<code, held, everMoved, strays, meta, rows, cursors, pc>> /\ pc = "scan" /\ a \in left /\ left' = left \ {a}
  BY DEF Read, chain, tables
<1>3. DOMAIN Reading(a, answered) = {a} \X {SymbolOf[t] : t \in answered}
  BY DEF Reading
<1>4. \A k \in DOMAIN Reading(a, answered) : k \in Keys /\ k[1] = a /\ IsHeld(k, Reading(a, answered)[k])
  <2> TAKE k \in DOMAIN Reading(a, answered)
  <2>1. k[1] = a /\ k[2] \in {SymbolOf[t] : t \in answered} /\ k = <<a, k[2]>>
    BY <1>3
  <2>2. k \in Keys
    BY <2>1 DEF Keys, Symbols
  <2>3. Reading(a, answered)[k] = BalanceOf(a, k[2], answered)
    BY <1>3 DEF Reading
  <2> QED
    BY <2>1, <2>2, <2>3, StoredIsHeld
<1>5. \A k \in DOMAIN got' : (k \in DOMAIN got /\ got'[k] = got[k]) \/ (k \in Keys /\ k[1] = a /\ IsHeld(k, got'[k]))
  BY <1>1, <1>4
<1>6. ScanType'
  BY <1>2, <1>5 DEF ScanInv, ScanType
<1>7. AnswersAreHeld'
  BY <1>2, <1>5 DEF ScanInv, AnswersAreHeld, IsHeld
<1>8. AnswersOfContracts'
  BY <1>2, <1>5 DEF ScanInv, AnswersOfContracts, TargetsAreContracts, Excused, IsContract
<1> QED
  BY <1>2, <1>6, <1>7, <1>8 DEF ScanInv, NothingInHand, ReadingsAreHeld, IsHeld, RowsOfContracts, TargetsAreContracts, Excused, IsContract,
    StillToRecheck, HasCode

LEMMA StoreKeeps ==
  ASSUME TvlScanAssumption, ScanInv, Store
  PROVE  ScanInv'
<1>1. PICK n \in 1 .. 3 : cursors' = CursorsAfter(n) /\ pc' = IF n < 3 THEN "idle" ELSE "probe"
  BY DEF Store
<1>2. UNCHANGED <<code, held, everMoved, strays, meta, left>> /\ rows' = Stored /\ got' = <<>> /\ left = {} /\ pc' # "scan"
  BY <1>1 DEF Store, chain
<1>3. \A k \in DOMAIN rows' : /\ rows'[k] = [bal |-> rows'[k].bal, age |-> rows'[k].age]
                             /\ \/ k \in DOMAIN rows /\ rows'[k].bal = rows[k].bal
                                \/ k \in DOMAIN got /\ rows'[k].bal = got[k]
  <2> DEFINE latest == [k \in DOMAIN rows \cup DOMAIN got |->
                          IF k \in DOMAIN got THEN [bal |-> got[k], age |-> MaxAddress * Cardinality(Symbols) + 1]
                          ELSE rows[k]]
             rank(i) == Cardinality({latest[k].age : k \in {k \in DOMAIN latest : latest[k].age <= i}})
  <2>1. rows' = [k \in DOMAIN latest |-> [latest[k] EXCEPT !.age = rank(@)]]
    BY <1>2 DEF Stored
  <2>2. \A k \in DOMAIN latest : /\ latest[k] = [bal |-> latest[k].bal, age |-> latest[k].age]
                                /\ \/ k \in DOMAIN rows /\ latest[k].bal = rows[k].bal
                                   \/ k \in DOMAIN got /\ latest[k].bal = got[k]
    BY DEF ScanInv, ScanType
  <2> HIDE DEF latest, rank
  <2>3. \A k \in DOMAIN latest : rows'[k] = [bal |-> latest[k].bal, age |-> rank(latest[k].age)]
    BY <2>1, <2>2
  <2>4. DOMAIN rows' = DOMAIN latest
    BY <2>1
  <2> QED
    BY <2>2, <2>3, <2>4
<1>4. DOMAIN rows' \subseteq Keys /\ DOMAIN got' = {}
  BY <1>2, <1>3 DEF ScanInv, ScanType
<1>5. cursors' = [fast |-> cursors'.fast, slow |-> cursors'.slow, recheck |-> cursors'.recheck] /\ cursors'.recheck = cursors.recheck
  <2>1. n = 1 \/ n = 2 \/ n = 3
    OBVIOUS
  <2>2. \/ cursors' = cursors
        \/ cursors' = [cursors EXCEPT !.fast = next.fast]
        \/ cursors' = [cursors EXCEPT !.fast = next.fast, !.slow = next.slow]
    BY <1>1, <2>1 DEF CursorsAfter
  <2>3. cursors = [fast |-> cursors.fast, slow |-> cursors.slow, recheck |-> cursors.recheck]
    BY DEF ScanInv, ScanType
  <2> QED
    BY <2>2, <2>3
<1>6. ScanType'
  BY <1>2, <1>3, <1>4, <1>5 DEF ScanInv, ScanType
<1>7. ReadingsAreHeld'
  <2> SUFFICES ASSUME NEW k \in DOMAIN rows', k[1] \notin everMoved
               PROVE  IsHeld(k, rows'[k].bal)
    BY <1>2 DEF ReadingsAreHeld, IsHeld
  <2> QED
    BY <1>3 DEF ScanInv, ReadingsAreHeld, AnswersAreHeld
<1>8. RowsOfContracts'
  BY <1>2, <1>3 DEF ScanInv, RowsOfContracts, AnswersOfContracts, Excused, IsContract
<1> QED
  BY <1>2, <1>4, <1>5, <1>6, <1>7, <1>8 DEF ScanInv, NothingInHand, AnswersAreHeld, AnswersOfContracts, TargetsAreContracts, StillToRecheck, HasCode

LEMMA ProbeKeeps ==
  ASSUME TvlScanAssumption, ScanInv, Probe
  PROVE  ScanInv'
<1>1. PICK asked \in SUBSET {a \in Holders \ Registry : meta[a] = "unknown"} :
        meta' = [a \in Address |-> IF a \in asked THEN "guessed" ELSE meta[a]]
  BY DEF Probe
<1>2. UNCHANGED <<code, held, everMoved, strays, rows, cursors, left, got>> /\ pc = "probe" /\ pc' = "idle"
  BY DEF Probe, chain
<1>3. ScanType'
  BY <1>1, <1>2 DEF ScanInv, ScanType
<1>4. \A a \in Address : IsContract(a) => IsContract(a)'
  BY <1>1 DEF IsContract
<1>5. StillToRecheck'
  BY <1>1, <1>2 DEF ScanInv, StillToRecheck, HasCode
<1>6. NothingInHand'
  BY <1>2 DEF ScanInv, NothingInHand
<1> QED
  BY <1>2, <1>3, <1>4, <1>5, <1>6, ReadingsRest, ContractsRest DEF ScanInv

LEMMA AbandonKeeps ==
  ASSUME ScanInv, Abandon
  PROVE  ScanInv'
<1>1. UNCHANGED <<code, held, everMoved, strays, meta, rows, cursors>> /\ left' = {} /\ got' = <<>> /\ pc' = "idle"
  BY DEF Abandon, chain, tables
<1>2. DOMAIN got' = {}
  BY <1>1
<1> QED
  BY <1>1, <1>2 DEF ScanInv, ScanType, NothingInHand, ReadingsAreHeld, AnswersAreHeld, IsHeld, RowsOfContracts, AnswersOfContracts, TargetsAreContracts,
    Excused, IsContract, StillToRecheck, HasCode

\* A transfer moves a balance: the address is exempt from then on.
LEMMA MoveKeeps ==
  ASSUME ScanInv, NEW a \in Address, NEW t \in Tokens, Move(a, t)
  PROVE  ScanInv'
<1>1. UNCHANGED <<code, strays, meta, rows, cursors, pc, left, got>> /\ everMoved' = everMoved \cup {a}
      /\ held' = [held EXCEPT ![a][t] = 1 - @]
  BY DEF Move, pass
<1>2. held' \in [Address -> [Tokens -> Int]] /\ \A b \in Address : b # a => held'[b] = held[b]
  BY <1>1 DEF ScanInv, ScanType
<1>3. ScanType'
  BY <1>1, <1>2 DEF ScanInv, ScanType
<1>4. ReadingsAreHeld' /\ AnswersAreHeld'
  BY <1>1, <1>2, KeyIsAPair DEF ScanInv, ScanType, ReadingsAreHeld, AnswersAreHeld, IsHeld
<1> QED
  BY <1>1, <1>3, <1>4 DEF ScanInv, NothingInHand, RowsOfContracts, AnswersOfContracts, TargetsAreContracts, Excused, IsContract, StillToRecheck, HasCode

\* The entity deriver: a contract it turns to a wallet is a stray from then on.
LEMMA DeriveKeeps ==
  ASSUME ScanInv, NEW a \in Address, Derive(a)
  PROVE  ScanInv'
<1>1. UNCHANGED <<code, held, everMoved, rows, cursors, pc, left, got>>
      /\ strays' = (IF IsContract(a) /\ ~HasCode(a) THEN strays \cup {a} ELSE strays)
      /\ meta' = [meta EXCEPT ![a] = IF HasCode(a) THEN "contract" ELSE "wallet"]
  BY DEF Derive, pass
<1>2. ScanType'
  BY <1>1 DEF ScanInv, ScanType
<1>3. \A b \in Address : Excused(b) \/ IsContract(b) => Excused(b)' \/ IsContract(b)'
  <2> TAKE b \in Address
  <2>1. CASE b # a
    BY <1>1, <2>1 DEF Excused, IsContract, ScanInv, ScanType
  <2>2. CASE b = a /\ HasCode(a)
    BY <1>1, <2>2 DEF Excused, IsContract, ScanInv, ScanType
  <2>3. CASE b = a /\ ~HasCode(a)
    BY <1>1, <2>3 DEF Excused, IsContract, ScanInv, ScanType
  <2> QED
    BY <2>1, <2>2, <2>3
<1>4. RowsOfContracts' /\ AnswersOfContracts' /\ TargetsAreContracts'
  BY <1>1, <1>3, KeyIsAPair DEF ScanInv, ScanType, RowsOfContracts, AnswersOfContracts, TargetsAreContracts
<1>5. StillToRecheck'
  BY <1>1 DEF ScanInv, ScanType, StillToRecheck, HasCode
<1>6. NothingInHand'
  BY <1>1 DEF ScanInv, NothingInHand
<1> QED
  BY <1>1, <1>2, <1>4, <1>5, <1>6, ReadingsRest DEF ScanInv

\* What the other writers and a step of the other half leave alone.
LEMMA ScanRests ==
  ASSUME ScanInv, UNCHANGED <<chain, meta, rows, cursors, pass>>
  PROVE  ScanInv'
BY DEF chain, pass, ScanInv, ScanType, NothingInHand, ReadingsAreHeld, AnswersAreHeld, IsHeld, RowsOfContracts, AnswersOfContracts,
  TargetsAreContracts, Excused, IsContract, StillToRecheck, HasCode

LEMMA ScanStepKeeps ==
  ASSUME TvlScanAssumption, ScanInv, Next
  PROVE  ScanInv'
<1>1. CASE Pass
  BY <1>1, DiscoverKeeps, RecheckKeeps, SelectKeeps, StoreKeeps, ProbeKeeps, ReadKeeps DEF Pass
<1>2. CASE Abandon
  BY <1>2, AbandonKeeps
<1>3. CASE Others
  <2>1. PICK a \in Address : Forget(a) \/ Emit(a) \/ Derive(a) \/ \E t \in Tokens : Move(a, t)
    BY <1>3 DEF Others
  <2>2. CASE Forget(a)
    BY <2>2, ScanRests DEF Forget
  <2>3. CASE Emit(a)
    BY <2>3, ScanRests DEF Emit
  <2> QED
    BY <2>1, <2>2, <2>3, DeriveKeeps, MoveKeeps
<1> QED
  BY <1>1, <1>2, <1>3 DEF Next

LEMMA ScanSays == 
  ASSUME ScanInv
  PROVE  TableIsTrue
<1>1. ReadingIsTheBalance
  BY DEF ScanInv, ReadingsAreHeld, IsHeld, ReadingIsTheBalance
<1>2. TableHoldsContractsOnly
  BY DEF ScanInv, RowsOfContracts, Excused, IsContract, TableHoldsContractsOnly, Scanned
<1>3. RecheckedRowsHaveCode
  <2> SUFFICES ASSUME cursors.recheck = Done, NEW a \in Address, meta[a] = "contract", ~HasCode(a)
               PROVE  FALSE
    BY DEF RecheckedRowsHaveCode
  <2>1. a > Done /\ a <= MaxAddress /\ a \in Int
    BY DEF ScanInv, StillToRecheck, Address
  <2> QED
    BY <2>1, TvlScanAssumption DEF Done, TvlScanAssumption
<1> QED
  BY <1>1, <1>2, <1>3 DEF TableIsTrue

----------------------------------------------------------------------------
(* Sums, as numbers of units.                                               *)

Units(amount, S) == UNION {{x} \X (1 .. amount[x]) : x \in S}

LEMMA SameSizes == \A S : Owners!Cardinality(S) = Cardinality(S) /\ Owners!IsFiniteSet(S) = IsFiniteSet(S)
BY DEF Owners!Cardinality, Cardinality, Owners!IsFiniteSet, IsFiniteSet

LEMMA SumIsUnits ==
  ASSUME NEW amount, NEW S
  PROVE  Owners!SumOf(amount, S) = Cardinality(Units(amount, S))
BY SameSizes DEF Owners!SumOf, Units

LEMMA UnitsOf ==
  ASSUME NEW amount, NEW S
  PROVE  \A u : u \in Units(amount, S) <=> u[1] \in S /\ u[2] \in 1 .. amount[u[1]] /\ u = <<u[1], u[2]>>
BY DEF Units

LEMMA UnitsAreFinite ==
  ASSUME NEW S, IsFiniteSet(S), NEW amount, \A x \in S : amount[x] \in Nat
  PROVE  IsFiniteSet(Units(amount, S)) /\ Owners!SumOf(amount, S) \in Nat
<1> DEFINE share == [x \in S |-> {x} \X (1 .. amount[x])]
           shares == {{x} \X (1 .. amount[x]) : x \in S}
<1>1. share \in Surjection(S, shares)
  BY DEF Surjection
<1>2. IsFiniteSet(shares)
  <2> HIDE DEF share, shares
  <2> QED
    BY <1>1, FS_Surjection
<1>3. \A T \in shares : IsFiniteSet(T)
  <2> TAKE T \in shares
  <2>1. PICK x \in S : T = {x} \X (1 .. amount[x])
    OBVIOUS
  <2>2. IsFiniteSet({x})
    BY FS_Singleton
  <2>3. IsFiniteSet(1 .. amount[x])
    <3>1. 1 \in Int /\ amount[x] \in Int
      OBVIOUS
    <3> QED
      BY <3>1, FS_Interval
  <2> QED
    BY <2>1, <2>2, <2>3, FS_Product
<1>4. IsFiniteSet(UNION shares)
  <2> HIDE DEF shares
  <2> QED
    BY <1>2, <1>3, FS_UNION
<1> QED
  BY <1>4, FS_CardinalityType, SumIsUnits DEF Units

\* Two disjoint parts add up.
LEMMA SumOfTwo ==
  ASSUME NEW S, IsFiniteSet(S), NEW T, IsFiniteSet(T), S \cap T = {},
         NEW amount, \A x \in S \cup T : amount[x] \in Nat
  PROVE  Owners!SumOf(amount, S \cup T) = Owners!SumOf(amount, S) + Owners!SumOf(amount, T)
<1>1. Units(amount, S \cup T) = Units(amount, S) \cup Units(amount, T)
  BY DEF Units
<1>2. Units(amount, S) \cap Units(amount, T) = {}
  BY UnitsOf
<1>3. IsFiniteSet(Units(amount, S)) /\ IsFiniteSet(Units(amount, T))
  BY UnitsAreFinite
<1>4. Cardinality({}) = 0
  BY FS_EmptySet
<1>5. Cardinality(Units(amount, S)) \in Nat /\ Cardinality(Units(amount, T)) \in Nat
  BY <1>3, FS_CardinalityType
<1>6. Cardinality(Units(amount, S) \cup Units(amount, T))
        = Cardinality(Units(amount, S)) + Cardinality(Units(amount, T)) - Cardinality(Units(amount, S) \cap Units(amount, T))
  BY <1>3, FS_Union
<1>7. Cardinality(Units(amount, S) \cap Units(amount, T)) = 0
  BY <1>2, <1>4
<1>8. Cardinality(Units(amount, S \cup T)) = Cardinality(Units(amount, S) \cup Units(amount, T))
  BY <1>1
<1> DEFINE n == Cardinality(Units(amount, S))
           m == Cardinality(Units(amount, T))
<1> HIDE DEF n, m
<1>9. Cardinality(Units(amount, S) \cup Units(amount, T)) = n + m
  BY <1>5, <1>6, <1>7 DEF n, m
<1> QED
  BY <1>8, <1>9, SumIsUnits DEF n, m

\* So do any number of disjoint parts: the units of a part's sum can be paired
\* with those of the part.
LEMMA SumOfParts ==
  ASSUME NEW I, IsFiniteSet(I), NEW size, \A i \in I : size[i] \in Nat,
         NEW D, \A i \in I : IsFiniteSet(D[i]) /\ Cardinality(D[i]) = size[i],
         \A i, j \in I : i # j => D[i] \cap D[j] = {}
  PROVE  Owners!SumOf(size, I) = Cardinality(UNION {D[i] : i \in I})
<1> DEFINE parts == Units(size, I)
           whole == UNION {D[i] : i \in I}
           pair == [i \in I |-> CHOOSE g : g \in Bijection(1 .. size[i], D[i])]
           f == [x \in parts |-> pair[x[1]][x[2]]]
<1>1. \A i \in I : pair[i] \in Bijection(1 .. size[i], D[i])
  <2> TAKE i \in I
  <2>1. ExistsBijection(1 .. size[i], D[i])
    BY FS_CardinalityType
  <2> QED
    BY <2>1 DEF ExistsBijection
<1>2. \A x \in parts : x[1] \in I /\ x[2] \in 1 .. size[x[1]] /\ x = <<x[1], x[2]>>
  BY UnitsOf
<1>3. \A i \in I : \A n \in 1 .. size[i] : <<i, n>> \in parts
  BY DEF Units
<1> HIDE DEF pair, parts
<1>4. \A x \in parts : f[x] \in D[x[1]]
  BY <1>1, <1>2 DEF Bijection, Injection
<1>5. f \in [parts -> whole]
  BY <1>2, <1>4
<1>6. \A x, y \in parts : f[x] = f[y] => x = y
  <2> SUFFICES ASSUME NEW x \in parts, NEW y \in parts, f[x] = f[y]
               PROVE  x = y
    OBVIOUS
  <2>1. x[1] = y[1]
    BY <1>2, <1>4
  <2>2. pair[x[1]][x[2]] = pair[x[1]][y[2]]
    BY <2>1
  <2>3. x[2] = y[2]
    BY <1>1, <1>2, <2>1, <2>2 DEF Bijection, Injection, IsInjective
  <2> QED
    BY <1>2, <2>1, <2>3
<1>7. \A w \in whole : \E x \in parts : f[x] = w
  <2> TAKE w \in whole
  <2>1. PICK i \in I : w \in D[i]
    OBVIOUS
  <2>2. PICK n \in 1 .. size[i] : pair[i][n] = w
    BY <1>1, <2>1 DEF Bijection, Surjection
  <2>3. <<i, n>> \in parts /\ f[<<i, n>>] = w
    BY <1>3, <2>2
  <2> QED
    BY <2>3
<1>8. f \in Bijection(parts, whole)
  <2> HIDE DEF f, whole
  <2> QED
    BY <1>5, <1>6, <1>7 DEF Bijection, Injection, Surjection, IsInjective
<1>9. IsFiniteSet(parts)
  BY UnitsAreFinite DEF parts
<1>10. ExistsBijection(parts, whole)
  BY <1>8 DEF ExistsBijection
<1>11. Cardinality(whole) = Cardinality(parts)
  <2> HIDE DEF whole
  <2> QED
    BY <1>9, <1>10, FS_Bijection
<1> QED
  BY <1>11, SumIsUnits DEF parts

----------------------------------------------------------------------------
(* Whose the balances are (Attribution).                                    *)

\* What the variables may be, as far as the proofs need it.
AttributionType ==
  /\ facts \in [Address -> SUBSET Owners!Rules]
  /\ stored \in [Address -> Owners!Rules \cup {Owners!None}]
  /\ fresh \subseteq Address
  /\ askedUnder \in [Address -> SUBSET Owners!Rules]
  /\ registry \in Registries
  /\ balance \in [Address -> Nat]
  /\ derived \in [Address -> Owners!Rules \cup {Owners!None}]

AskedByThePrint == \A a \in fresh : askedUnder[a] = print
AsksByItsRules == stage = "ask" => print = registry.rules

AttributionInv ==
  /\ AttributionType
  /\ Owners!AttributedOnTheChainsWord
  /\ AskedByThePrint
  /\ AsksByItsRules
  /\ Owners!ListedWins

\* Whatever the first confirmed rule is, it is one of those confirmed.
LEMMA FirstIsConfirmed ==
  ASSUME NEW S \in SUBSET Owners!Rules
  PROVE  Owners!FirstOf(S) \in S \cup {Owners!None}
<1>1. CASE S = {}
  BY <1>1 DEF Owners!FirstOf
<1>2. CASE S # {}
  <2>1. \E r \in S : \E i \in 1 .. 4 : Owners!InOrder[i] = r /\ \A j \in 1 .. i - 1 : Owners!InOrder[j] \notin S
    <3>1. PICK r \in S : TRUE
      BY <1>2
    <3>2. \E k \in 1 .. 4 : Owners!InOrder[k] \in S
      BY <3>1 DEF Owners!InOrder, Owners!Rules
    <3>3. CASE Owners!InOrder[1] \in S
      BY <3>3
    <3>4. CASE Owners!InOrder[1] \notin S /\ Owners!InOrder[2] \in S
      <4>1. \A j \in 1 .. 2 - 1 : Owners!InOrder[j] \notin S
        BY <3>4
      <4> QED
        BY <3>4, <4>1
    <3>5. CASE Owners!InOrder[1] \notin S /\ Owners!InOrder[2] \notin S /\ Owners!InOrder[3] \in S
      <4>1. \A j \in 1 .. 3 - 1 : j = 1 \/ j = 2
        OBVIOUS
      <4> QED
        BY <3>5, <4>1
    <3>6. CASE Owners!InOrder[1] \notin S /\ Owners!InOrder[2] \notin S /\ Owners!InOrder[3] \notin S
      <4>1. \A j \in 1 .. 4 - 1 : j = 1 \/ j = 2 \/ j = 3
        OBVIOUS
      <4>2. \A k \in 1 .. 4 : k = 1 \/ k = 2 \/ k = 3 \/ k = 4
        OBVIOUS
      <4> QED
        BY <3>2, <3>6, <4>1, <4>2
    <3> QED
      BY <3>3, <3>4, <3>5, <3>6
  <2> QED
    BY <1>2, <2>1 DEF Owners!FirstOf
<1> QED
  BY <1>1, <1>2

\* What an address is attributed by is true of it, whichever replies are missing.
LEMMA AnswerIsTrue ==
  ASSUME AttributionType, NEW a \in Address, NEW missing
  PROVE  Owners!AttributeFromChain(a, missing) \in (facts[a] \cap Owners!Rules) \cup {Owners!None}
<1>1. Owners!Confirmed(a, missing) \subseteq facts[a]
  BY DEF Owners!Confirmed
<1>2. facts[a] \subseteq Owners!Rules
  BY DEF AttributionType
<1>3. Owners!Confirmed(a, missing) \in SUBSET Owners!Rules
  BY <1>1, <1>2
<1> QED
  BY <1>1, <1>2, <1>3, FirstIsConfirmed DEF Owners!AttributeFromChain

\* What is served of an address is what is stored, or nothing.
LEMMA KnownType ==
  ASSUME stored \in [Address -> Owners!Rules \cup {Owners!None}], NEW r
  PROVE  Owners!Known(stored, r) \in [Address -> Owners!Rules \cup {Owners!None}]
BY DEF Owners!Known

LEMMA AttributionInit ==
  ASSUME Owners!AttributionAssumption, Owners!Init
  PROVE  AttributionInv
<1>1. AttributionType
  BY DEF Owners!Init, AttributionType, Owners!AttributionAssumption
<1> QED
  BY <1>1 DEF Owners!Init, AttributionInv, Owners!AttributedOnTheChainsWord, AskedByThePrint, AsksByItsRules, Owners!ListedWins

LEMMA AttributionStep ==
  ASSUME Owners!AttributionAssumption, AttributionInv, [Owners!Next]_Owners!vars
  PROVE  AttributionInv'
<1> USE DEF AttributionInv
<1>1. CASE Owners!Scanned
  BY <1>1 DEF Owners!Scanned, AttributionType, Owners!AttributedOnTheChainsWord, AskedByThePrint, AsksByItsRules, Owners!ListedWins, Owners!Listed
<1>2. CASE Owners!BeginProbe
  <2>1. UNCHANGED <<facts, stored, askedUnder, registry, derived, balance>>
    BY <1>2 DEF Owners!BeginProbe
  <2>2. CASE registry.rules = {}
    <3>1. fresh' = fresh /\ print' = print /\ stage' = "snapshot"
      BY <1>2, <2>2 DEF Owners!BeginProbe
    <3> QED
      BY <2>1, <3>1 DEF AttributionType, Owners!AttributedOnTheChainsWord, AskedByThePrint, AsksByItsRules, Owners!ListedWins, Owners!Listed
  <2>3. CASE registry.rules # {}
    <3>1. fresh' = Owners!Reopened /\ print' = registry.rules
      BY <1>2, <2>3 DEF Owners!BeginProbe
    <3>2. fresh' \subseteq fresh /\ AskedByThePrint'
      BY <2>1, <3>1 DEF Owners!Reopened, AskedByThePrint
    <3> QED
      BY <2>1, <3>1, <3>2 DEF AttributionType, Owners!AttributedOnTheChainsWord, AsksByItsRules, Owners!ListedWins, Owners!Listed
  <2> QED
    BY <2>2, <2>3
<1>3. ASSUME NEW a \in Address, Owners!Ask(a)
      PROVE  AttributionInv'
  <2>1. UNCHANGED <<facts, print, registry, derived, balance, stage>> /\ stage = "ask"
    BY <1>3 DEF Owners!Ask
  <2>2. PICK missing \in SUBSET (Owners!Rules \cup {"reply"}) :
          IF Owners!Answered(a, missing)
          THEN /\ stored' = [stored EXCEPT ![a] = Owners!AttributeFromChain(a, missing)]
               /\ fresh' = fresh \cup {a}
               /\ askedUnder' = [askedUnder EXCEPT ![a] = registry.rules]
          ELSE UNCHANGED <<stored, fresh, askedUnder>>
    BY <1>3 DEF Owners!Ask
  <2>3. CASE Owners!Answered(a, missing)
    <3>1. Owners!AttributeFromChain(a, missing) \in (facts[a] \cap Owners!Rules) \cup {Owners!None}
      BY AnswerIsTrue
    <3>2. print = registry.rules /\ registry.rules \in SUBSET Owners!Rules
      <4>1. print = registry.rules
        BY <2>1 DEF AsksByItsRules
      <4> QED
        BY <4>1, Owners!AttributionAssumption DEF AttributionType, Owners!AttributionAssumption
    <3>3. AttributionType'
      BY <2>1, <2>2, <2>3, <3>1, <3>2 DEF AttributionType
    <3>4. Owners!AttributedOnTheChainsWord'
      BY <2>1, <2>2, <2>3, <3>1 DEF AttributionType, Owners!AttributedOnTheChainsWord
    <3>5. AskedByThePrint'
      BY <2>1, <2>2, <2>3, <3>2 DEF AttributionType, AskedByThePrint
    <3> QED
      BY <2>1, <3>3, <3>4, <3>5 DEF AsksByItsRules, Owners!ListedWins, Owners!Listed
  <2>4. CASE ~Owners!Answered(a, missing)
    BY <2>1, <2>2, <2>4 DEF AttributionType, Owners!AttributedOnTheChainsWord, AskedByThePrint, AsksByItsRules, Owners!ListedWins, Owners!Listed
  <2> QED
    BY <2>3, <2>4
<1>4. CASE Owners!EndProbe
  <2>1. UNCHANGED <<facts, stored, fresh, print, registry, askedUnder, balance>> /\ stage' = "snapshot" /\ derived' = Owners!Known(stored, registry)
    BY <1>4 DEF Owners!EndProbe, Owners!database
  <2>2. Owners!ListedWins'
    BY <2>1 DEF Owners!ListedWins, Owners!Listed, Owners!Known
  <2>3. derived' \in [Address -> Owners!Rules \cup {Owners!None}]
    BY <2>1, KnownType DEF AttributionType
  <2> QED
    BY <2>1, <2>2, <2>3 DEF AttributionType, Owners!AttributedOnTheChainsWord, AskedByThePrint, AsksByItsRules
<1>5. CASE Owners!Snapshot
  BY <1>5 DEF Owners!Snapshot, AttributionType, Owners!AttributedOnTheChainsWord, AskedByThePrint, AsksByItsRules, Owners!ListedWins, Owners!Listed
<1>6. CASE Owners!Abandon
  BY <1>6 DEF Owners!Abandon, Owners!database, AttributionType, Owners!AttributedOnTheChainsWord, AskedByThePrint, AsksByItsRules, Owners!ListedWins, Owners!Listed
<1>7. ASSUME NEW a \in Address, Owners!WeekLater(a)
      PROVE  AttributionInv'
  BY <1>7 DEF Owners!WeekLater, Owners!process, AttributionType, Owners!AttributedOnTheChainsWord, AskedByThePrint, AsksByItsRules, Owners!ListedWins, Owners!Listed
<1>8. ASSUME NEW r \in Registries, Owners!Deploy(r)
      PROVE  AttributionInv'
  <2>1. UNCHANGED <<facts, stored, fresh, print, askedUnder, balance>> /\ stage' = "idle"
    BY <1>8 DEF Owners!Deploy, Owners!database
  <2>2. registry' = r /\ derived' = Owners!Known(stored, r)
    BY <1>8 DEF Owners!Deploy
  <2>3. Owners!ListedWins'
    BY <2>2 DEF Owners!ListedWins, Owners!Listed, Owners!Known
  <2>4. derived' \in [Address -> Owners!Rules \cup {Owners!None}]
    BY <2>2, KnownType DEF AttributionType
  <2> QED
    BY <2>1, <2>2, <2>3, <2>4 DEF AttributionType, Owners!AttributedOnTheChainsWord, AskedByThePrint, AsksByItsRules
<1>9. CASE UNCHANGED Owners!vars
  BY <1>9 DEF Owners!vars, Owners!database, Owners!process, AttributionType, Owners!AttributedOnTheChainsWord, AskedByThePrint, AsksByItsRules, Owners!ListedWins, Owners!Listed
<1> QED
  BY <1>1, <1>2, <1>3, <1>4, <1>5, <1>6, <1>7, <1>8, <1>9 DEF Owners!Next, Owners!Refresh

\* computeAggregate: the parts of the aggregate are disjoint and together the
\* whole, so no balance is in two of them.
LEMMA BalancesAreCountedOnce ==
  ASSUME Owners!AttributionAssumption, AttributionInv
  PROVE  Owners!CountedOnce
<1> DEFINE wallets == Owners!WalletAddresses
           others == Protocols \ {WalletEntry}
           listedOf(p) == Owners!ListedFor(p)
           derivedOf(p) == Owners!DerivedFor(p)
           group == [p \in others |-> Units(balance, listedOf(p) \cup derivedOf(p))]
           level == [p \in others |-> Owners!Sum(listedOf(p)) + Owners!Sum(derivedOf(p))]
<1>1. IsFiniteSet(Address) /\ IsFiniteSet(others)
  <2>1. IsFiniteSet(Address) /\ IsFiniteSet(Protocols)
    BY SameSizes DEF Owners!AttributionAssumption
  <2> QED
    BY <2>1, FS_Subset
<1>2. \A a \in Address : balance[a] \in Nat
  BY DEF AttributionInv, AttributionType
<1>3. Owners!Listed \subseteq Address /\ \A a \in Owners!Listed : registry.listed[a] \in Protocols
  BY DEF AttributionInv, AttributionType, Owners!AttributionAssumption, Owners!Listed
<1>4. \A p : listedOf(p) \subseteq Address /\ derivedOf(p) \subseteq Address
  BY <1>3 DEF Owners!ListedFor, Owners!DerivedFor
<1>5. wallets \subseteq Address
  BY <1>4 DEF Owners!WalletAddresses
<1>6. \A p, q : listedOf(p) \cap derivedOf(q) = {}
  BY <1>3 DEF AttributionInv, Owners!ListedWins, Owners!ListedFor, Owners!DerivedFor
<1>7. \A p, q : p # q => (listedOf(p) \cup derivedOf(p)) \cap (listedOf(q) \cup derivedOf(q)) = {}
  <2>1. \A p, q : p # q => listedOf(p) \cap listedOf(q) = {}
    BY DEF Owners!ListedFor
  <2>2. \A p, q : p # q => derivedOf(p) \cap derivedOf(q) = {}
    BY DEF Owners!DerivedFor
  <2> QED
    BY <1>6, <2>1, <2>2
<1>8. \A S \in SUBSET Address : IsFiniteSet(S) /\ Owners!Sum(S) \in Nat
  <2> TAKE S \in SUBSET Address
  <2>1. IsFiniteSet(S)
    BY <1>1, FS_Subset
  <2>2. \A a \in S : balance[a] \in Nat
    BY <1>2
  <2> QED
    BY <2>1, <2>2, UnitsAreFinite DEF Owners!Sum
<1>9. \A S, T \in SUBSET Address : S \cap T = {} => Owners!Sum(S \cup T) = Owners!Sum(S) + Owners!Sum(T)
  BY <1>2, <1>8, SumOfTwo DEF Owners!Sum
<1>10. Owners!Sum(Address \ wallets) + Owners!Sum(wallets) = Owners!Sum(Address)
  <2>1. (Address \ wallets) \cup wallets = Address /\ (Address \ wallets) \cap wallets = {}
    BY <1>5
  <2>2. Address \ wallets \in SUBSET Address /\ wallets \in SUBSET Address
    BY <1>5
  <2> HIDE DEF wallets
  <2> QED
    BY <1>9, <2>1, <2>2
<1>11. Owners!Aggregate.total = Owners!Sum(Address \ wallets) /\ Owners!Aggregate.inWallets = Owners!Sum(wallets)
       /\ Owners!Aggregate.attributed = Owners!SumOf(level, others)
  BY DEF Owners!Aggregate
<1>12. Owners!Total = Owners!Sum(Address \ wallets)
  <2>1. Owners!Total = Owners!Sum(Address) - Owners!Sum(wallets)
    BY DEF Owners!Total
  <2>2. Owners!Sum(Address \ wallets) \in Nat /\ Owners!Sum(wallets) \in Nat
    BY <1>5, <1>8
  <2> HIDE DEF wallets
  <2> DEFINE whole == Owners!Sum(Address)
             kept == Owners!Sum(Address \ wallets)
             inWallets == Owners!Sum(wallets)
  <2>3. whole = kept + inWallets /\ kept \in Nat /\ inWallets \in Nat /\ Owners!Total = whole - inWallets
    BY <1>10, <2>1, <2>2
  <2> HIDE DEF whole, kept, inWallets
  <2>4. whole - inWallets = kept
    BY <2>3
  <2> QED
    BY <2>3, <2>4 DEF kept
<1>13. \A p \in others : level[p] \in Nat /\ IsFiniteSet(group[p]) /\ Cardinality(group[p]) = level[p]
  <2> TAKE p \in others
  <2>1. listedOf(p) \in SUBSET Address /\ derivedOf(p) \in SUBSET Address /\ listedOf(p) \cap derivedOf(p) = {}
        /\ listedOf(p) \cup derivedOf(p) \in SUBSET Address
    BY <1>4, <1>6
  <2>2. level[p] = Owners!Sum(listedOf(p)) + Owners!Sum(derivedOf(p)) /\ group[p] = Units(balance, listedOf(p) \cup derivedOf(p))
    OBVIOUS
  <2> HIDE DEF level, group, listedOf, derivedOf
  <2>3. level[p] = Owners!Sum(listedOf(p) \cup derivedOf(p)) /\ level[p] \in Nat
    BY <1>8, <1>9, <2>1, <2>2
  <2>4. IsFiniteSet(listedOf(p) \cup derivedOf(p)) /\ \A a \in listedOf(p) \cup derivedOf(p) : balance[a] \in Nat
    BY <1>2, <1>8, <2>1
  <2> QED
    BY <2>2, <2>3, <2>4, UnitsAreFinite, SumIsUnits DEF Owners!Sum
<1>14. \A p, q \in others : p # q => group[p] \cap group[q] = {}
  <2> SUFFICES ASSUME NEW p \in others, NEW q \in others, p # q, NEW u \in group[p], u \in group[q]
               PROVE  FALSE
    OBVIOUS
  <2>1. u[1] \in listedOf(p) \cup derivedOf(p) /\ u[1] \in listedOf(q) \cup derivedOf(q)
    BY UnitsOf
  <2> HIDE DEF listedOf, derivedOf
  <2> QED
    BY <1>7, <2>1
<1>15. Owners!SumOf(level, others) = Cardinality(UNION {group[p] : p \in others})
  <2> HIDE DEF level, group, others
  <2> QED
    BY <1>1, <1>13, <1>14, SumOfParts
<1>16. UNION {group[p] : p \in others} = Units(balance, Owners!Named \ wallets)
  <2>1. \A a : a \in Owners!Named \ wallets <=> \E p \in others : a \in listedOf(p) \cup derivedOf(p)
    <3> TAKE a
    <3>1. ASSUME a \in Owners!Named \ wallets
          PROVE  \E p \in others : a \in listedOf(p) \cup derivedOf(p)
      <4>1. CASE a \in Owners!Listed
        <5>1. registry.listed[a] \in Protocols /\ a \in listedOf(registry.listed[a])
          BY <1>3, <4>1 DEF Owners!ListedFor
        <5>2. registry.listed[a] # WalletEntry
          BY <3>1, <5>1 DEF Owners!WalletAddresses
        <5> QED
          BY <5>1, <5>2
      <4>2. CASE a \in Address /\ derived[a] # Owners!None
        <5>1. EntryOf[derived[a]] \in Protocols /\ a \in derivedOf(EntryOf[derived[a]])
          BY <4>2 DEF Owners!DerivedFor, AttributionInv, AttributionType, Owners!AttributionAssumption
        <5>2. EntryOf[derived[a]] # WalletEntry
          BY <3>1, <5>1 DEF Owners!WalletAddresses
        <5> QED
          BY <5>1, <5>2
      <4> QED
        BY <3>1, <4>1, <4>2 DEF Owners!Named
    <3>2. ASSUME NEW p \in others, a \in listedOf(p) \cup derivedOf(p)
          PROVE  a \in Owners!Named \ wallets
      <4>1. a \in Owners!Named
        BY <3>2 DEF Owners!Named, Owners!ListedFor, Owners!DerivedFor
      <4>2. a \notin wallets
        BY <3>2, <1>7 DEF Owners!WalletAddresses
      <4> QED
        BY <4>1, <4>2
    <3> QED
      BY <3>1, <3>2
  <2>2. \A u : u \in UNION {group[p] : p \in others} <=> \E p \in others : u \in group[p]
    OBVIOUS
  <2>3. \A p \in others : \A u : u \in group[p] <=> u[1] \in listedOf(p) \cup derivedOf(p) /\ u[2] \in 1 .. balance[u[1]] /\ u = <<u[1], u[2]>>
    BY UnitsOf
  <2>4. \A u : u \in Units(balance, Owners!Named \ wallets) <=> u[1] \in Owners!Named \ wallets /\ u[2] \in 1 .. balance[u[1]] /\ u = <<u[1], u[2]>>
    BY UnitsOf
  <2> HIDE DEF group, listedOf, derivedOf, wallets, others
  <2>5. \A u : u \in UNION {group[p] : p \in others} <=> u \in Units(balance, Owners!Named \ wallets)
    BY <2>1, <2>2, <2>3, <2>4
  <2> QED
    BY <2>5
<1>17. Owners!SumOf(level, others) = Owners!Sum(Owners!Named \ wallets)
  <2> HIDE DEF level, others, group, wallets
  <2> QED
    BY <1>15, <1>16, SumIsUnits DEF Owners!Sum
<1> QED
  BY <1>10, <1>11, <1>12, <1>17 DEF Owners!CountedOnce

----------------------------------------------------------------------------
(* The two halves together.                                                 *)

LEMMA HalvesStep ==
  ASSUME TvlScanAssumption, Owners!AttributionAssumption, ScanInv, AttributionInv,
         [MCNext]_<<half, scanVars, ownersVars>>
  PROVE  ScanInv' /\ AttributionInv'
<1>1. CASE ScanStep
  <2>1. Next /\ UNCHANGED ownersVars
    BY <1>1 DEF ScanStep
  <2>2. UNCHANGED Owners!vars
    BY <2>1 DEF ownersVars, Owners!vars, Owners!database, Owners!process
  <2> QED
    BY <2>1, <2>2, ScanStepKeeps, AttributionStep
<1>2. CASE OwnersStep
  <2>1. Owners!Next /\ UNCHANGED scanVars
    BY <1>2 DEF OwnersStep
  <2>2. UNCHANGED <<chain, meta, rows, cursors, pass>>
    BY <2>1 DEF scanVars, tables
  <2> QED
    BY <2>1, <2>2, ScanRests, AttributionStep
<1>3. CASE UNCHANGED <<half, scanVars, ownersVars>>
  <2>1. UNCHANGED Owners!vars
    BY <1>3 DEF ownersVars, Owners!vars, Owners!database, Owners!process
  <2>2. UNCHANGED <<chain, meta, rows, cursors, pass>>
    BY <1>3 DEF scanVars, tables
  <2> QED
    BY <2>1, <2>2, ScanRests, AttributionStep
<1> QED
  BY <1>1, <1>2, <1>3 DEF MCNext

LEMMA HalvesHold == MCFair => [](ScanInv /\ AttributionInv)
<1>1. MCInit => ScanInv /\ AttributionInv
  BY TvlScanAssumption, OwnersAssumption, ScanInit, AttributionInit DEF MCInit
<1>2. ScanInv /\ AttributionInv /\ [MCNext]_<<half, scanVars, ownersVars>> => (ScanInv /\ AttributionInv)'
  BY TvlScanAssumption, OwnersAssumption, HalvesStep
<1> QED
  BY <1>1, <1>2, PTL DEF MCFair

\* scanBalances, markEoa and recheckDelegations: whatever went unanswered and
\* whoever else wrote to the tables, a stored reading is a balance its address
\* held in a contract of that symbol, wallets have readings only where the code
\* lets them, and the recheck has passed nobody by.
THEOREM TableIsAlwaysTrue == MCFair => []TableIsTrue
<1>1. ScanInv /\ AttributionInv => TableIsTrue
  BY ScanSays
<1> QED
  BY <1>1, HalvesHold, PTL

\* computeAggregate and attributeFromChain: a balance is counted once, under the
\* entry that the chain confirmed to a check by the rules in force, and the two
\* totals agree, whatever was listed, unlisted and attributed before.
THEOREM CountedAlwaysOnceUnderItsOwner == MCFair => []CountedOnceUnderItsOwner
<1>1. ScanInv /\ AttributionInv => CountedOnceUnderItsOwner
  <2> SUFFICES ASSUME AttributionInv
               PROVE  CountedOnceUnderItsOwner
    OBVIOUS
  <2>1. Owners!CountedOnce
    BY OwnersAssumption, BalancesAreCountedOnce
  <2>2. Owners!AttributedOnTheChainsWord /\ Owners!ClearedByTheseRules
    BY DEF AttributionInv, AskedByThePrint, AsksByItsRules, Owners!ClearedByTheseRules
  <2> QED
    BY <2>1, <2>2 DEF CountedOnceUnderItsOwner
<1> QED
  BY <1>1, HalvesHold, PTL
=============================================================================
