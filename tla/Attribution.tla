---------------------------- MODULE Attribution ----------------------------
(***************************************************************************)
(* The second half of a TVL pass: contracts that hold something are asked  *)
(* what they are (tvl.js, probeAttribution), the answers decide whose they *)
(* are (protocols.js), and the balances are added up per protocol and      *)
(* written as today's level.  A deployment may bring other rules or        *)
(* another registry.                                                       *)
(*                                                                         *)
(* There is one rule of each kind and one currency; the balances are what  *)
(* the scan (TvlScan) stored.  That a request may be served sums fifteen   *)
(* seconds old is left out.                                                *)
(***************************************************************************)
EXTENDS Integers, FiniteSets

CONSTANTS
  Address,
  FactSets,    \* what the chain may confirm of an address: subsets of Rules
  Claimants,   \* addresses that name the listed factory as theirs, true or not
  Protocols,   \* the entries of the registry
  WalletEntry, \* the entry marked `wallets`
  EntryOf,     \* the entry each rule attributes to
  Registries,  \* what may be deployed: [rules, listed], listed a partial
               \* function from addresses to entries
  CandidateMin,  \* TVL_CANDIDATE_MIN
  PerPass,       \* IDENTITY_PER_PASS
  MaxBalance, MaxMoves, MaxFails, MaxDeploys   \* bounds

\* In the order in which an answer decides.  "list" is a factory that keeps a
\* list of what it created, "factory" one that is asked for the pool.
Rules == {"implementation", "singleton", "factory", "list"}
None == "none"

AttributionAssumption ==
  /\ IsFiniteSet(Address) /\ IsFiniteSet(Protocols)
  /\ FactSets \subseteq SUBSET Rules /\ Claimants \subseteq Address
  /\ WalletEntry \in Protocols /\ EntryOf \in [Rules -> Protocols]
  /\ \A r \in Registries : r.rules \subseteq Rules /\ DOMAIN r.listed \subseteq Address
                          /\ \A a \in DOMAIN r.listed : r.listed[a] \in Protocols
  /\ {CandidateMin, PerPass} \subseteq Nat \ {0}
  /\ {MaxBalance, MaxMoves, MaxFails, MaxDeploys} \subseteq Nat

VARIABLES
  facts,      \* the chain: which rules are true of an address
  claims,     \* the chain: whose factory(), if asked, is the listed one
  balance,    \* table tvl
  stored,     \* address_meta: the rule an address was attributed by, or None
  fresh,      \* addresses asked since the rules changed and within the week
  print,      \* meta 'attribution_rules': the rules that were last in force
  today,      \* table tvl_history: today's row per entry and for "*", or -1
  registry,   \* the process: PROTOCOLS and the rules indexed from it
  derived,    \* the process: the rule an address is attributed by, or None
  stage,      \* where refresh() is
  asking,     \* the pass: the addresses still to ask, in any order
  askedUnder, \* history: the rules an address was last asked under
  movesMade, failures, deploys

database == <<balance, stored, fresh, print, today>>
process == <<registry, derived, stage, asking>>
vars == <<facts, claims, database, process, askedUnder, movesMade, failures, deploys>>

----------------------------------------------------------------------------
(* Who an address belongs to.                                               *)

Listed == DOMAIN registry.listed
\* setDerivedAttributions: a listed address wins over a derived one.
Known_ListedToo(found, reg) == found
Known(found, reg) == [a \in Address |-> IF a \in DOMAIN reg.listed THEN None ELSE found[a]]
DerivedFor(p) == {a \in Address : derived[a] # None /\ EntryOf[derived[a]] = p}
ListedFor(p) == {a \in Listed : registry.listed[a] = p}
Named == Listed \cup {a \in Address : derived[a] # None}
WalletAddresses == ListedFor(WalletEntry) \cup DerivedFor(WalletEntry)

\* A sum is the number of units there are.
SumOf(amount, S) == Cardinality(UNION {{x} \X (1 .. amount[x]) : x \in S})
Sum(S) == SumOf(balance, S)

\* computeAggregate.  The listed contracts of an entry come first, then those a
\* rule gave it: an address in both lists would be added twice.
Aggregate ==
  LET tvl == [p \in Protocols \ {WalletEntry} |-> Sum(ListedFor(p)) + Sum(DerivedFor(p))]
      counted == Address \ WalletAddresses
  IN  [total |-> Sum(counted),
       inWallets |-> Sum(WalletAddresses),
       tvl |-> tvl,
       attributed |-> SumOf(tvl, DOMAIN tvl),
       candidates |-> {a \in counted \ Named : balance[a] >= CandidateMin}]

\* The dashboard's figure, without the cache: everything less the wallets.
Total == Sum(Address) - Sum(WalletAddresses)

----------------------------------------------------------------------------
(* The tables are empty, or hold what an earlier registry left.             *)

Init ==
  /\ facts \in [Address -> FactSets]
  /\ claims = Claimants \cup {a \in Address : "factory" \in facts[a]}
  /\ balance = [a \in Address |-> 0]
  /\ stored = [a \in Address |-> None]
  /\ fresh = {} /\ print = {}
  /\ today = [p \in (Protocols \ {WalletEntry}) \cup {"*"} |-> -1]
  /\ registry \in Registries
  /\ derived = [a \in Address |-> None]
  /\ stage = "idle" /\ asking = {}
  /\ askedUnder = [a \in Address |-> {}]
  /\ movesMade = 0 /\ failures = 0 /\ deploys = 0

\* The scan is done: upsertBalances.
Scanned ==
  /\ stage = "idle"
  /\ \E a \in Address, read \in 0 .. MaxBalance :
       /\ balance' = [balance EXCEPT ![a] = read]
       /\ movesMade' = IF read = balance[a] THEN movesMade ELSE movesMade + 1
       /\ movesMade' <= MaxMoves
  /\ stage' = "rules"
  /\ UNCHANGED <<facts, claims, stored, fresh, print, today, registry, derived, asking, askedUnder, failures, deploys>>

\* rulesSince: other rules re-open every earlier answer.
Reopened == IF registry.rules = print THEN fresh ELSE {}

\* The unlisted holders not asked lately, by balance, as many as one pass asks.
Candidates == {a \in Address \ Listed : balance[a] >= CandidateMin}
Cut(S) ==
  {a \in S : Cardinality({b \in S : balance[b] > balance[a] \/ (balance[b] = balance[a] /\ b < a)}) < PerPass}
Asked_CutFirst(answered) == Cut(Candidates) \ answered
Asked(answered) == Cut(Candidates \ answered)

\* The beginning of probeAttribution.  Without rules nothing is asked, and
\* without anyone to ask what is derived stays as it is.
BeginProbe ==
  /\ stage = "rules"
  /\ IF registry.rules = {}
     THEN asking' = {} /\ UNCHANGED <<fresh, print>>
     ELSE fresh' = Reopened /\ print' = registry.rules /\ asking' = Asked(Reopened)
  /\ stage' = IF asking' = {} THEN "snapshot" ELSE "ask"
  /\ UNCHANGED <<facts, claims, balance, stored, today, registry, derived, askedUnder, movesMade, failures, deploys>>

\* What the first batch leaves to ask: factoryQuestion and membershipQuestions.
FactoryQuestion(a, missing) == a \in claims /\ "factory" \in registry.rules \ missing
MembershipQuestions == registry.rules \cap {"list"}

\* attributeFromChain: the first rule whose answer confirms it.  What a contract
\* says of its factory counts only when the factory returns the contract.
Confirmed(a, missing) ==
  {r \in facts[a] \cap registry.rules :
     /\ r \notin missing
     /\ r = "factory" => FactoryQuestion(a, missing) /\ "reply" \notin missing}
InOrder == <<"implementation", "singleton", "factory", "list">>
FirstOf(S) ==
  IF S = {} THEN None
  ELSE CHOOSE r \in S : \E i \in 1 .. 4 : InOrder[i] = r /\ \A j \in 1 .. i - 1 : InOrder[j] \notin S
AttributeFromChain(a, missing) == FirstOf(Confirmed(a, missing))

\* One address through its three batches.  Some reply of the first is an answer,
\* and no reply of a list is none; what was answered is recorded at once.
Answered(a, missing) ==
  /\ \/ {"implementation", "singleton"} \ missing # {}
     \/ a \in claims /\ "factory" \notin missing
  /\ "list" \in MembershipQuestions => "list" \notin missing
Ask(a) ==
  /\ stage = "ask" /\ a \in asking
  /\ \E missing \in SUBSET (Rules \cup {"reply"}) :
       /\ missing # {} => failures < MaxFails
       /\ failures' = IF missing = {} THEN failures ELSE failures + 1
       /\ IF Answered(a, missing)
          THEN /\ stored' = [stored EXCEPT ![a] = AttributeFromChain(a, missing)]
               /\ fresh' = fresh \cup {a}
               /\ askedUnder' = [askedUnder EXCEPT ![a] = registry.rules]
          ELSE UNCHANGED <<stored, fresh, askedUnder>>
  /\ asking' = asking \ {a}
  /\ UNCHANGED <<facts, claims, balance, print, today, registry, derived, stage, movesMade, deploys>>

\* The end of probeAttribution: what is stored is what is served.
EndProbe ==
  /\ stage = "ask" /\ asking = {}
  /\ derived' = Known(stored, registry)
  /\ stage' = "snapshot"
  /\ UNCHANGED <<facts, claims, database, registry, asking, askedUnder, movesMade, failures, deploys>>

\* recordTvlSnapshot: an entry that holds nothing has no row to write, nor has
\* a chain where nothing is counted.
Recorded(sums) ==
  [p \in DOMAIN today |->
     LET level == IF p = "*" THEN sums.total ELSE sums.tvl[p]
     IN  IF level > 0 THEN level ELSE today[p]]
Snapshot ==
  /\ stage = "snapshot"
  /\ today' = Recorded(Aggregate)
  /\ stage' = "idle"
  /\ UNCHANGED <<facts, claims, balance, stored, fresh, print, registry, derived, asking, askedUnder, movesMade, failures, deploys>>

\* A batch is refused by every endpoint: the pass ends where it is.
Abandon ==
  /\ stage # "idle"
  /\ failures < MaxFails
  /\ failures' = failures + 1
  /\ stage' = "idle" /\ asking' = {}
  /\ UNCHANGED <<facts, claims, database, registry, derived, askedUnder, movesMade, deploys>>

----------------------------------------------------------------------------
(* The others.                                                              *)

\* A week since an address was asked.  A week is longer than it takes to ask
\* every candidate.
WeekLater(a) ==
  /\ a \in fresh /\ Candidates \subseteq fresh
  /\ fresh' = fresh \ {a}
  /\ UNCHANGED <<facts, claims, balance, stored, print, today, process, askedUnder, movesMade, failures, deploys>>

\* The process starts again, with the same registry or another.  What is stored
\* is known before the first pass.
Deploy(r) ==
  /\ deploys < MaxDeploys
  /\ deploys' = deploys + 1
  /\ registry' = r
  /\ derived' = Known(stored, r)
  /\ stage' = "idle" /\ asking' = {}
  /\ UNCHANGED <<facts, claims, database, askedUnder, movesMade, failures>>

Refresh == Scanned \/ BeginProbe \/ EndProbe \/ Snapshot \/ \E a \in Address : Ask(a)
Next ==
  \/ Refresh \/ Abandon
  \/ \E a \in Address : WeekLater(a)
  \/ \E r \in Registries : Deploy(r)

Spec == Init /\ [][Next]_vars

----------------------------------------------------------------------------
(* Properties.                                                              *)

\* computeAggregate and total: a balance is counted once, in the wallets or in
\* the total, under one entry or under none, and the two published totals agree,
\* whatever was listed, unlisted and attributed before.
CountedOnce ==
  /\ Aggregate.total + Aggregate.inWallets = Sum(Address)
  /\ Aggregate.attributed = Sum(Named \ WalletAddresses)
  /\ Total = Aggregate.total

\* setDerivedAttributions: what is listed is not derived as well.
ListedWins == \A a \in Listed \cap Address : derived[a] = None

\* attributeFromChain: what only claims a factory is not attributed by it, and
\* no silence confirms anything.
AttributedOnTheChainsWord == \A a \in Address : stored[a] # None => stored[a] \in facts[a]

\* rulesSince: while a pass asks, whoever it leaves out was asked under the very
\* rules in force.
ClearedByTheseRules ==
  stage = "ask" => \A a \in fresh : askedUnder[a] = registry.rules

\* probeAttribution: whoever keeps a balance worth asking about is again and
\* again attributed as the chain has it, after missing replies, dropped passes
\* and new rules too.  (Without any rule nobody is asked.)
EveryHolderIsAttributed ==
  \A a \in Address :
    []<>(registry.rules = {} \/ a \notin Candidates \/ derived[a] = FirstOf(facts[a] \cap registry.rules))

\* recordTvlSnapshot: after a pass, today's row is the level the pass computed.
TodayIsTheLevel ==
  [][Snapshot => \A p \in DOMAIN Aggregate.tvl :
       today'[p] = Aggregate.tvl[p] \/ (today'[p] = -1 /\ Aggregate.tvl[p] = 0)]_vars
=============================================================================
