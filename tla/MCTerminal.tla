------------------------------ MODULE MCTerminal ------------------------------
(* What the terminal shows: the figures (Terminal), over blocks at an uneven  *)
(* pace, of which two share a second, and who is behind the addresses         *)
(* (Entities). They share nothing, so a behaviour here is a behaviour of one  *)
(* of them, named by part.                                                    *)
EXTENDS Terminal

CONSTANTS Address, Words, MayBe, Top, Miners, ByBalance, PerPass, MaxAttempts, MaxFails, MaxUpgrades  \* of Entities

VARIABLES
  part,
  facts, meta, stage, miners, codes, extra, asking, learned, corrected,    \* Entities
  fails, upgrades

MCChains == {[stamp |-> <<6, 7, 7, 11, 12>>, bots |-> <<TRUE, TRUE, FALSE, FALSE, FALSE>>]}

(* The larger holder is the proxy of a token; the busy address is another, or *)
(* an account that delegates, and may become the one from the other.          *)
ProxyOfAToken == [code |-> "contract", says |-> {"symbol"}, impl |-> TRUE, slot |-> TRUE]
Delegated == [code |-> "delegated", says |-> {"symbol"}, impl |-> FALSE, slot |-> FALSE]
MCMayBe == <<{ProxyOfAToken, Delegated}, {ProxyOfAToken}>>
MCByBalance == <<2, 1>>

Who == INSTANCE Entities

ASSUME WhoAssumption == Who!EntitiesAssumption

whoVars == <<facts, meta, stage, miners, codes, extra, asking, learned, corrected, fails, upgrades>>
allVars == <<part, vars, whoVars>>

MCInit ==
  /\ part \in {"figures", "who"}
  /\ Init /\ Who!Init
  /\ part = "figures" => meta = <<>> /\ \A a \in Address : facts[a] = CHOOSE f \in MayBe[a] : TRUE
  /\ part = "who" => checkpoint = None /\ [stamp |-> stamp, bots |-> bots] = CHOOSE c \in Chains : TRUE

FiguresStep == part = "figures" /\ Next /\ UNCHANGED <<part, whoVars>>
WhoStep == part = "who" /\ Who!Next /\ UNCHANGED <<part, vars>>

MCNext == FiguresStep \/ WhoStep

(* The fairness of FairSpec; the timers of the deriver and of the TVL pass    *)
(* are set again after each pass, and every request is answered or times out. *)
Figures(A) == part = "figures" /\ A /\ UNCHANGED <<part, whoVars>>
MCFairness ==
  /\ WF_allVars(Figures(Process)) /\ SF_allVars(Figures(TickHead))
  /\ SF_allVars(Figures(\E y \in BOOLEAN : TickHeaders(TRUE, y)))
  /\ SF_allVars(Figures(\E x \in BOOLEAN : TickHeaders(x, TRUE)))
  /\ WF_allVars(part = "who" /\ Who!DerivePass /\ UNCHANGED <<part, vars>>)
  /\ WF_allVars(part = "who" /\ Who!ProbePass /\ UNCHANGED <<part, vars>>)

MCFair == MCInit /\ [][MCNext]_allVars /\ MCFairness

(* indexer.js, start, tickOnce and measureClock: what is stored gets to be    *)
(* served though the chain does not answer, and the clock ends up measured    *)
(* from the first block of the sent history.                                  *)
EveryHistoryIsReached == part = "figures" => HistoryIsReached

(* entities.js, explain, and db.js, upsertAddressMeta and setIdentity: what   *)
(* an address is called to be has its evidence in the row, and a name that    *)
(* was read is kept, whichever of the writers came last.                      *)
RowIsExplained == Who!KindHasItsEvidence /\ Who!NameIsKept

(* tvl.js, probeIdentities, and entities.js, deriveBatch: every holder worth  *)
(* naming is settled, however silent the others, and every busy address is    *)
(* classified in the end as the chain has it.                                 *)
EveryAddressIsKnown ==
  part = "who" => Who!EveryHolderIsSettled /\ Who!EveryTopAddressIsClassified
=============================================================================
