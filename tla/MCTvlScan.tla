----------------------------- MODULE MCTvlScan -----------------------------
(* The two halves of a TVL pass: the scan of the balances (TvlScan), with the *)
(* fairness of its timer, and whose they are (Attribution). The second takes  *)
(* any readings the first may have stored, so a behaviour here is one of      *)
(* either, named by half.                                                     *)
EXTENDS TvlScan

CONSTANTS
  FactSets, Claimants, Registries, Protocols, WalletEntry, EntryOf, CandidateMin, PerPass,   \* of Attribution
  MaxBalance, MaxStored, MaxUnanswered, MaxDeploys

VARIABLES
  half,
  facts, claims, balance, stored, fresh, print, today, registry, derived,  \* Attribution
  stage, asking, askedUnder, movesMade, failures, deploys

MCOneToken == <<"USDC">>

NobodyListed == [a \in {} |-> "vaults"]
MCRegistries ==
  { [rules |-> {"factory"}, listed |-> NobodyListed],
    [rules |-> {"factory", "list", "singleton"}, listed |-> [a \in {1} |-> "vaults"]] }
MCFactSets == {{}, {"factory"}, {"singleton", "list"}}
MCEntryOf ==
  [rule \in {"implementation", "singleton", "factory", "list"} |->
     CASE rule = "factory" -> "pools" [] rule = "list" -> "vaults" [] OTHER -> "accounts"]

Owners == INSTANCE Attribution WITH MaxMoves <- MaxStored, MaxFails <- MaxUnanswered

ASSUME OwnersAssumption == Owners!AttributionAssumption

scanVars == <<chain, tables, pass, moves, fails>>
ownersVars ==
  <<facts, claims, balance, stored, fresh, print, today, registry, derived, stage, asking,
    askedUnder, movesMade, failures, deploys>>

(* The half that is not run rests where there is nothing to scan or to ask.   *)
NothingToScan ==
  /\ \A a \in Address : code[a] = "none" /\ meta[a] = "unknown" /\ \A t \in Tokens : held[a][t] = 0
  /\ strays = {} /\ rows = <<>>
NothingToAsk == facts = [a \in Address |-> CHOOSE f \in FactSets : TRUE] /\ registry = CHOOSE r \in Registries : TRUE

MCInit ==
  /\ half \in {"scan", "owners"}
  /\ Init /\ Owners!Init
  /\ IF half = "scan" THEN NothingToAsk ELSE NothingToScan

ScanStep == half = "scan" /\ Next /\ UNCHANGED <<half, ownersVars>>
OwnersStep == half = "owners" /\ Owners!Next /\ UNCHANGED <<half, scanVars>>

MCNext == ScanStep \/ OwnersStep

(* Both halves are one timer's work; and every answer grows a week old.       *)
MCFairness ==
  /\ WF_<<half, scanVars, ownersVars>>(half = "scan" /\ Pass /\ UNCHANGED <<half, ownersVars>>)
  /\ WF_<<half, scanVars, ownersVars>>(half = "owners" /\ Owners!Refresh /\ UNCHANGED <<half, scanVars>>)
  /\ \A a \in Address :
       SF_<<half, scanVars, ownersVars>>(half = "owners" /\ Owners!WeekLater(a) /\ UNCHANGED <<half, scanVars>>)

MCFair == MCInit /\ [][MCNext]_<<half, scanVars, ownersVars>> /\ MCFairness

(* tvl.js, attributeFromChain, rulesSince and computeAggregate: a balance is  *)
(* counted once, under the entry the chain confirmed to a check that asked by *)
(* the rules in force, and the two totals agree.                              *)
CountedOnceUnderItsOwner ==
  Owners!CountedOnce /\ Owners!AttributedOnTheChainsWord /\ Owners!ClearedByTheseRules

(* tvl.js, probeAttribution: whoever keeps a balance worth asking about is    *)
(* again and again attributed as the chain has it, after missing replies,     *)
(* dropped passes and new rules too.                                          *)
EveryHolderIsAttributed == Owners!EveryHolderIsAttributed
=============================================================================
