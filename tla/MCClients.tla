------------------------------ MODULE MCClients ------------------------------
(* What those who use the service are promised: the billing of keys           *)
(* (Payments), the webhooks of their rules (AlertRules) and the operator's    *)
(* daily digest of their use (Digest). The three share no state, so a         *)
(* behaviour here is a behaviour of one of them, named by part, while the     *)
(* others rest at their start.                                                *)
EXTENDS Payments, TLC

CONSTANTS
  k1, k2, a1, h1, q1, q2,
  HookKeys, Requests, FreeMax, ProMax, CacheTTL, Cooldown, MaxRules, MaxHookTime, MaxRestarts, \* AlertRules
  Heartbeat, LastDay, MaxDeaths, MaxLost, MaxChecks                                           \* Digest

VARIABLES
  part,
  hookNow, restarts, tier, rules, cache, rulesAt, request, created, deleted, firings, \* AlertRules
  today, busy, lastDay, quietDays, check, checks, marked, arrived, deaths, lost      \* Digest

Hooks == INSTANCE AlertRules WITH now <- hookNow, Keys <- HookKeys, MaxTime <- MaxHookTime
Daily == INSTANCE Digest

ASSUME ClientsAssumption == Hooks!AlertRulesAssumption /\ Daily!DigestAssumption

billingVars ==
  <<now, transfers, orders, expiresAt, checkpoint, job, crashes, credits, examined, missed, served, watched>>
hooksVars == <<hookNow, restarts, tier, rules, cache, rulesAt, request, created, deleted, firings>>
digestVars == <<today, busy, lastDay, quietDays, check, checks, marked, arrived, deaths, lost>>

(* The paying keys are alike, and so are the requests in progress.            *)
Alike == Permutations(Keys) \cup Permutations(Requests)

MCInit ==
  /\ part \in {"billing", "hooks", "digest"}
  /\ Init
  /\ Hooks!Init /\ (part # "hooks" => tier = [k \in HookKeys |-> "free"])
  /\ Daily!Init /\ (part # "digest" => busy = {})

BillingStep == part = "billing" /\ Next /\ UNCHANGED <<part, hooksVars, digestVars>>
HooksStep == part = "hooks" /\ Hooks!Next /\ UNCHANGED <<part, billingVars, digestVars>>
DigestStep == part = "digest" /\ Daily!Next /\ UNCHANGED <<part, billingVars, hooksVars>>

MCNext == BillingStep \/ HooksStep \/ DigestStep

MCSpec == MCInit /\ [][MCNext]_<<part, billingVars, hooksVars, digestVars>>

(* checkRules and /v1/alerts: a webhook is called once per cooldown, a        *)
(* deleted rule falls silent, and the limit of a key is exceeded only by      *)
(* requests under way together.                                               *)
RulesAreKept ==
  Hooks!FiresOncePerCooldown /\ Hooks!DeletedRuleFallsSilent /\ Hooks!LimitIsExceededOnlyTogether

(* checkRules: an event that matches a rule in force is ignored for no longer *)
(* than the cache and the cooldown allow.                                     *)
MatchIsHeard == Hooks!MatchIsHeard

(* maybeSendDigest: a busy day is marked only once its digest arrived, is     *)
(* told again only after a death or a lost answer, and a heartbeat counts     *)
(* quiet days that were reported.                                             *)
DigestIsTrue ==
  Daily!MarkedMeansArrived /\ Daily!ArrivesOnceUnlessInterrupted /\ Daily!HeartbeatCountsReportedDays
=============================================================================
