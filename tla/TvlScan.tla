------------------------------ MODULE TvlScan ------------------------------
(***************************************************************************)
(* tvl.js: the pass that reads the stablecoin balances of contracts.  Its  *)
(* budget goes to the registry, the stalest readings, the contracts worth  *)
(* most, and two lanes that rotate by address, each with its cursor.  The  *)
(* indexer, the watch pass and the entity deriver write the tables the     *)
(* pass selects from while it awaits answers.                              *)
(***************************************************************************)
EXTENDS Integers, FiniteSets, Sequences
LOCAL INSTANCE FiniteSetsExt

CONSTANTS
  MaxAddress,  \* addresses are 1 .. MaxAddress, in their hexadecimal order
  SymbolOf,    \* the tracked token contracts in order: the symbol of each
  Codes,       \* the kinds of code there are: "contract", "small" (23 bytes),
               \* "delegated" (EIP-7702, 23 bytes too) and "none"
  Registry,    \* addresses listed by the protocols
  AlwaysTop,   \* TVL_ALWAYS_TOP
  Sweep,       \* TVL_STALEST_SWEEP
  FastSlice, SlowSlice,  \* TVL_FAST_SLICE, TVL_SLOW_SLICE
  Cap,         \* TVL_MAX_TARGETS
  MaxMoves,    \* bound: balances and recent activity changing
  MaxFails     \* bound: answers missing, passes failing or dying

Address == 1 .. MaxAddress
Tokens == DOMAIN SymbolOf
Symbols == {SymbolOf[t] : t \in Tokens}
Keys == Address \X Symbols
Done == MaxAddress + 1   \* the cursor value 'done'; 0 is the empty cursor

ASSUME TvlScanAssumption ==
  /\ MaxAddress \in Nat \ {0} /\ Registry \subseteq Address
  /\ SymbolOf \in Seq(Symbols)
  /\ AlwaysTop \in Nat /\ Sweep \in Nat /\ FastSlice \in Nat /\ SlowSlice \in Nat
  /\ Cap \in Nat /\ MaxMoves \in Nat /\ MaxFails \in Nat
  /\ Codes \subseteq {"contract", "small", "delegated", "none"}

VARIABLES
  code,      \* the chain: what code each address has
  held,      \* the chain: balance per address and token contract
  meta,      \* address_meta: "unknown", "contract", "wallet", or "guessed" for
             \* is_contract = 1 without a code size
  seen,      \* seen_contracts
  moving,    \* addr_stats: addresses that moved a tracked token this week
  rows,      \* table tvl, by address and symbol: [bal, age], age by order of reading
  cursors,   \* the three cursors in meta: [fast, slow, recheck]
  pc,        \* where refresh() is
  left,      \* the pass: the targets still to read, in any order
  got,       \* the pass: the balances answered so far
  next,      \* the pass: the lane cursors to store, and its targets
  everMoved, \* history: addresses whose balance has changed
  strays,    \* history: addresses with readings but no row when the pass began its
             \* life, and contracts the entity deriver turned to wallets
  moves, fails

chain == <<code, held, everMoved, strays>>
tables == <<meta, seen, moving, rows, cursors>>
pass == <<pc, left, got, next>>
vars == <<chain, tables, pass, moves, fails>>

HasCode(a) == code[a] \in {"contract", "small"}
IsContract(a) == meta[a] \in {"contract", "guessed"}
Contracts == {a \in Address : IsContract(a)}
Counted == {k \in DOMAIN rows : rows[k].bal > 0}
Holders == {k[1] : k \in Counted}
Scanned == {k[1] : k \in DOMAIN rows}

Worth(a) == MapThenSumSet(LAMBDA k : rows[k].bal, {k \in Counted : k[1] = a})

\* What is stored of a symbol: of its contracts that answered, the last one stands.
BalanceOf(a, s, answered) ==
  held[a][CHOOSE t \in answered : SymbolOf[t] = s /\ \A u \in answered : SymbolOf[u] = s => u <= t]

----------------------------------------------------------------------------
(* Which contracts a pass reads.  A list cut at its limit is the set of     *)
(* those that fewer than so many come before.                               *)

Foremost(n, S, Before(_, _)) == {a \in S : Cardinality({b \in S : Before(b, a)}) < n}

\* The two lanes part the contracts: what holds or may hold something, and
\* what was verified empty and has been quiet since.
FastLane_HoldersOnly == Contracts \cap Holders
FastLane == {a \in Contracts : a \in Holders \/ a \notin Scanned \/ a \in moving}
SlowLane ==  {a \in Contracts : a \in Scanned /\ a \notin Holders /\ a \notin moving}

\* laneAfter: the next members after the cursor, from the start again at the end.
Lane(lane, cursor, limit) ==
  LET ahead == Foremost(limit, {a \in lane : a > cursor}, <)
      again == Foremost(limit - Cardinality(ahead), lane, <)
  IN  [members |-> ahead \cup again,
       next |-> CASE limit = 0 -> cursor
                  [] limit > 0 /\ Cardinality(ahead) >= limit -> Max(ahead)
                  [] Cardinality(ahead) < limit /\ again # {} -> Max(again)
                  [] OTHER -> 0]
InLane(cursor, a, b) == IF (a > cursor) = (b > cursor) THEN a < b ELSE a > cursor

\* An address is as stale as its oldest counted reading.
Age(a) == Min({rows[k].age : k \in {k \in Counted : k[1] = a}})
Staler_ByAddress(a, b) == a < b
Staler(a, b) == Age(a) < Age(b) \/ (Age(a) = Age(b) /\ a < b)

Activity(a) == IF a \in moving THEN 1 ELSE 0
WorthMore(a, b) ==
  \/ Worth(a) > Worth(b)
  \/ Worth(a) = Worth(b) /\ Activity(a) > Activity(b)
  \/ Worth(a) = Worth(b) /\ Activity(a) = Activity(b) /\ a < b

NoPass == [targets |-> {}, fast |-> 0, slow |-> 0]

----------------------------------------------------------------------------
(* The tables older code may have left: every delegated account taken for a *)
(* contract, readings true when they were made, and some of addresses that  *)
(* nothing else knows.                                                      *)

MayBeKnownAs(kind) == {"unknown", IF kind = "none" THEN "wallet" ELSE "contract"}

Init ==
  /\ code \in [Address -> Codes]
  /\ held \in [Address -> [Tokens -> 0 .. 1]]
  /\ meta \in {m \in [Address -> {"unknown", "contract", "wallet"}] :
                 \A a \in Address : m[a] \in MayBeKnownAs(code[a])}
  /\ seen = {a \in Address : code[a] = "contract"}
  /\ moving = {a \in Address : code[a] = "delegated"}
  /\ strays \in SUBSET {a \in Address : meta[a] = "unknown"}
  /\ \E read \in SUBSET Contracts :
       rows = [k \in {k \in Keys : k[1] \in read \cup strays} |->
                 [bal |-> BalanceOf(k[1], k[2], Tokens), age |-> 1]]
  /\ cursors = [fast |-> 0, slow |-> 0, recheck |-> 0]
  /\ pc = "idle" /\ left = {} /\ got = <<>> /\ next = NoPass
  /\ everMoved = {}
  /\ moves = 0 /\ fails = 0

Answers(asked, answered) ==
  /\ answered \subseteq asked
  /\ answered # asked => fails < MaxFails
  /\ fails' = IF answered = asked THEN fails ELSE fails + 1

\* discoverContracts: an address with no row gets one from its bytecode.
Discover ==
  /\ pc = "idle"
  /\ LET unchecked == {a \in seen \cup moving : meta[a] = "unknown"}
     IN  \E answered \in SUBSET unchecked :
           /\ Answers(unchecked, answered)
           /\ meta' = [a \in Address |->
                IF a \in answered THEN IF HasCode(a) THEN "contract" ELSE "wallet" ELSE meta[a]]
  /\ pc' = "recheck"
  /\ UNCHANGED <<chain, seen, moving, rows, cursors, left, got, next, moves>>

\* recheckDelegations: the rows of 23 bytes of code in address order, as far as
\* they are answered.
Suspects == {a \in Address : meta[a] = "contract" /\ code[a] \in {"small", "delegated"} /\ a > cursors.recheck}

\* markEoa: no contract any more, and its readings leave the table.
Leaving(wallets) == {k \in DOMAIN rows : k[1] \in wallets}
Recheck ==
  /\ pc = "recheck"
  /\ \E last \in Suspects \cup {cursors.recheck} :
       LET answered == {a \in Suspects : a <= last}
           wallets == {a \in answered : code[a] = "delegated"}
       IN  /\ Answers(Suspects, answered)
           /\ meta' = [a \in Address |-> IF a \in wallets THEN "wallet" ELSE meta[a]]
           /\ rows' = [k \in DOMAIN rows \ Leaving(wallets) |-> rows[k]]
           /\ cursors' = [cursors EXCEPT !.recheck = IF Suspects = {} THEN Done ELSE last]
  /\ pc' = "select"
  /\ UNCHANGED <<chain, seen, moving, left, got, next, moves>>

\* selectTargets.  A slow lane that is short leaves its places to the fast one,
\* and the cap cuts the five sources, one after the other, each in its order.
Targets(sources) ==
  LET source(a) == Min({i \in DOMAIN sources : a \in sources[i]})
      inTurn(a, b) ==
        \/ source(a) < source(b)
        \/ /\ source(a) = source(b)
           /\ CASE source(a) = 1 -> a < b
                [] source(a) = 2 -> Staler(a, b)
                [] source(a) = 3 -> WorthMore(a, b)
                [] source(a) = 4 -> InLane(cursors.fast, a, b)
                [] source(a) = 5 -> InLane(cursors.slow, a, b)
  IN  Foremost(Cap, UNION {sources[i] : i \in DOMAIN sources}, inTurn)
Select ==
  /\ pc = "select"
  /\ \E sweep \in {Foremost(IF Sweep < AlwaysTop THEN Sweep ELSE AlwaysTop, Holders, Staler)},
        slow \in {Lane(SlowLane, cursors.slow, SlowSlice)} :
     \E hot \in {Foremost(AlwaysTop - Cardinality(sweep), Contracts, WorthMore)},
        fast \in {Lane(FastLane, cursors.fast, FastSlice + SlowSlice - Cardinality(slow.members))} :
       /\ left' = Targets(<<Registry, sweep, hot, fast.members, slow.members>>)
       /\ next' = [targets |-> left', fast |-> fast.next, slow |-> slow.next]
  /\ got' = <<>>
  /\ pc' = "scan"
  /\ UNCHANGED <<chain, tables, moves, fails>>

\* scanBalances: one holder, every token; the answers are stored by symbol.
Reading_Zero(a, answered) ==
  [k \in {a} \X Symbols |->
     IF \E t \in answered : SymbolOf[t] = k[2] THEN BalanceOf(a, k[2], answered) ELSE 0]
Reading(a, answered) ==
  [k \in {a} \X {SymbolOf[t] : t \in answered} |-> BalanceOf(a, k[2], answered)]
Read(a) ==
  /\ pc = "scan" /\ a \in left
  /\ \E answered \in SUBSET Tokens :
       /\ Answers(Tokens, answered)
       /\ got' = [k \in DOMAIN got \cup DOMAIN Reading(a, answered) |->
                    IF k \in DOMAIN got THEN got[k] ELSE Reading(a, answered)[k]]
  /\ left' = left \ {a}
  /\ UNCHANGED <<chain, tables, pc, next, moves>>

\* upsertBalances, one transaction: the readings of a pass share their time.
\* Ages keep the order of reading only, from 1 for the stalest.
Stored ==
  LET latest == [k \in DOMAIN rows \cup DOMAIN got |->
                   IF k \in DOMAIN got THEN [bal |-> got[k], age |-> MaxAddress * Cardinality(Symbols) + 1]
                   ELSE rows[k]]
      rank(n) == Cardinality({latest[k].age : k \in {k \in DOMAIN latest : latest[k].age <= n}})
  IN  [k \in DOMAIN latest |-> [latest[k] EXCEPT !.age = rank(@)]]

\* The end of the scan: readings, then a cursor, then the other; death between.
CursorsAfter(n) ==
  CASE n >= 3 -> [cursors EXCEPT !.fast = next.fast, !.slow = next.slow]
    [] n = 2  -> [cursors EXCEPT !.fast = next.fast]
    [] OTHER  -> cursors
Store ==
  /\ pc = "scan" /\ left = {}
  /\ \E n \in 1 .. 3 :
       /\ n < 3 => fails < MaxFails
       /\ fails' = IF n < 3 THEN fails + 1 ELSE fails
       /\ rows' = Stored
       /\ cursors' = CursorsAfter(n)
       /\ pc' = IF n < 3 THEN "idle" ELSE "probe"
  /\ got' = <<>>
  /\ next' = NoPass
  /\ UNCHANGED <<chain, meta, seen, moving, left, moves>>

\* probeIdentities and probeAttribution: an unlisted holder without a row gets
\* one that calls it a contract, whether or not it answered, as far as the
\* probes come.
Probe ==
  /\ pc = "probe"
  /\ LET rowless == {a \in Holders \ Registry : meta[a] = "unknown"}
     IN  \E asked \in SUBSET rowless :
           /\ Answers(rowless, asked)
           /\ meta' = [a \in Address |-> IF a \in asked THEN "guessed" ELSE meta[a]]
  /\ pc' = "idle"
  /\ UNCHANGED <<chain, seen, moving, rows, cursors, left, got, next, moves>>

\* Every endpoint refuses, or the process dies: the pass is dropped.
Abandon ==
  /\ pc # "idle"
  /\ fails < MaxFails
  /\ fails' = fails + 1
  /\ pc' = "idle" /\ left' = {} /\ got' = <<>> /\ next' = NoPass
  /\ UNCHANGED <<chain, tables, moves>>

----------------------------------------------------------------------------
(* The others: transfers indexed, a week gone by, the watch pass, entities. *)

Move(a, t) ==
  /\ moves < MaxMoves
  /\ moves' = moves + 1
  /\ held' = [held EXCEPT ![a][t] = 1 - @]
  /\ everMoved' = everMoved \cup {a}
  /\ moving' = moving \cup {a}
  /\ UNCHANGED <<code, strays, meta, seen, rows, cursors, pass, fails>>

Forget(a) ==
  /\ moves < MaxMoves
  /\ a \in moving
  /\ moves' = moves + 1
  /\ moving' = moving \ {a}
  /\ UNCHANGED <<chain, meta, seen, rows, cursors, pass, fails>>

Emit(a) ==
  /\ HasCode(a) /\ a \notin seen
  /\ seen' = seen \cup {a}
  /\ UNCHANGED <<chain, meta, moving, rows, cursors, pass, moves, fails>>

\* upsertAddressMeta, for an address that moves much.
Derive(a) ==
  /\ a \in moving
  /\ strays' = IF IsContract(a) /\ ~HasCode(a) THEN strays \cup {a} ELSE strays
  /\ meta' = [meta EXCEPT ![a] = IF HasCode(a) THEN "contract" ELSE "wallet"]
  /\ UNCHANGED <<code, held, everMoved, seen, moving, rows, cursors, pass, moves, fails>>

Pass == Discover \/ Recheck \/ Select \/ Store \/ Probe \/ \E a \in Address : Read(a)
Others ==
  \E a \in Address : Forget(a) \/ Emit(a) \/ Derive(a) \/ \E t \in Tokens : Move(a, t)

Next == Pass \/ Abandon \/ Others

Spec == Init /\ [][Next]_vars

\* The timer is set again after every pass, and every call answers or times out.
Fairness == WF_vars(Pass)

----------------------------------------------------------------------------
(* Properties.                                                              *)

\* What a missing answer may never do is become a balance: a stored reading of
\* an address whose balances stand still is what it holds in a contract of that
\* symbol, whatever calls failed, were dropped or cut short.
ReadingIsTheBalance ==
  \A k \in DOMAIN rows :
    k[1] \notin everMoved => \E t \in Tokens : SymbolOf[t] = k[2] /\ rows[k].bal = held[k[1]][t]

\* markEoa's table: it only ever holds contracts' balances.  What is on record
\* as a wallet has no reading, unless a protocol lists it, an older policy left
\* the reading, or the deriver, which never drops one, was the first to find out.
TableHoldsContractsOnly ==
  \A a \in Scanned \ (Registry \cup strays) : meta[a] # "wallet"

\* The recheck skips nobody it got no answer for: once it is done, no contract
\* on record by its bytecode is a delegated account.
RecheckedRowsHaveCode ==
  cursors.recheck = Done => \A a \in Address : meta[a] = "contract" => HasCode(a)

\* The table holds true readings, only of contracts, and after the recheck only
\* of contracts with code of their own.
TableIsTrue == ReadingIsTheBalance /\ TableHoldsContractsOnly /\ RecheckedRowsHaveCode

\* Every known contract is a target again and again, though the lanes it is in
\* change and passes fail, once the failures are over.
EveryContractIsRead ==
  \A a \in Address : []<>(~IsContract(a) \/ a \in next.targets)

\* Every counted reading is made anew again and again or leaves the total,
\* whoever wrote it: no row stays the stalest for ever.
EveryCountedReadingIsRenewed ==
  \A k \in Keys : []<>(k \notin Counted \/ k \in DOMAIN got)
=============================================================================
