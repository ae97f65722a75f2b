----------------------------- MODULE AlertRules -----------------------------
(***************************************************************************)
(* Webhook alerts: the rules a key creates and deletes through /v1/alerts  *)
(* (api.js), the copy of them the indexer keeps for a while, and the       *)
(* events it checks against that copy (indexer.js).  Rules differ here     *)
(* only in which events match them, which is left open.                    *)
(***************************************************************************)
EXTENDS Integers, FiniteSets

CONSTANTS
  Keys, Requests,
  FreeMax, ProMax,   \* TIERS.free.maxAlerts and TIERS.pro.maxAlerts
  CacheTTL,          \* how long alertRules is used before it is read again
  Cooldown,          \* between two firings of a rule
  MaxRules, MaxTime, MaxRestarts   \* bounds

AlertRulesAssumption ==
  /\ {FreeMax, ProMax, CacheTTL, Cooldown, MaxRules, MaxTime, MaxRestarts} \subseteq Nat
  /\ FreeMax <= ProMax
  /\ IsFiniteSet(Requests) /\ Requests # {}

VARIABLES
  now,
  tier,       \* api_keys.tier
  rules,      \* table alerts: id -> [key, lastFired]
  cache,      \* alertRules: id -> last_fired as the cache has it
  rulesAt,    \* when it was read, or Never
  request,    \* POST /v1/alerts in progress: [stage, key, max]
  created,    \* history: id -> when the rule was created
  deleted,    \* history: id -> when it was deleted, or Never
  firings,    \* history: id -> the instants its webhook was called at
  restarts

vars == <<now, tier, rules, cache, rulesAt, request, created, deleted, firings, restarts>>

\* 0 on the code's clock: longer ago than any cooldown or copy lasts.
Never == -(CacheTTL + Cooldown + 1)
Waiting == [stage |-> "none"]
Limit(t) == IF t = "pro" THEN ProMax ELSE FreeMax
RulesOf(k) == {r \in DOMAIN rules : rules[r].key = k}
Empty == [r \in {} |-> Never]
With(f, x, v) == [y \in DOMAIN f \cup {x} |-> IF y = x THEN v ELSE f[y]]
Without(f, x) == [y \in DOMAIN f \ {x} |-> f[y]]

Init ==
  /\ now = 0
  /\ tier \in [Keys -> {"free", "pro"}]
  /\ rules = Empty
  /\ cache = Empty
  /\ rulesAt = Never
  /\ request = [q \in Requests |-> Waiting]
  /\ created = Empty
  /\ deleted = Empty
  /\ firings = Empty
  /\ restarts = 0

----------------------------------------------------------------------------
(* POST and DELETE /v1/alerts.                                              *)

\* The key is authenticated and its tier read; then the body is awaited.
Authenticate(q, k) ==
  /\ request[q] = Waiting
  /\ request' = [request EXCEPT ![q] = [stage |-> "body", key |-> k, max |-> Limit(tier[k])]]
  /\ UNCHANGED <<now, tier, rules, cache, rulesAt, created, deleted, firings, restarts>>

\* The rules are counted against the tier's limit; then the webhook's host is
\* awaited.
MayCreate(q) == Cardinality(RulesOf(request[q].key)) < request[q].max
CheckLimit(q) ==
  /\ request[q].stage = "body"
  /\ request' = [request EXCEPT ![q] = IF MayCreate(q) THEN [@ EXCEPT !.stage = "host"] ELSE Waiting]
  /\ UNCHANGED <<now, tier, rules, cache, rulesAt, created, deleted, firings, restarts>>

\* The rule is stored, or the rest of the request is refused.
Store(q) ==
  /\ request[q].stage = "host"
  /\ Cardinality(DOMAIN created) < MaxRules
  /\ LET id == Cardinality(DOMAIN created) + 1
     IN /\ rules' = With(rules, id, [key |-> request[q].key, lastFired |-> Never])
        /\ created' = With(created, id, now)
        /\ deleted' = With(deleted, id, Never)
        /\ firings' = With(firings, id, {})
  /\ request' = [request EXCEPT ![q] = Waiting]
  /\ UNCHANGED <<now, tier, cache, rulesAt, restarts>>

Refuse(q) ==
  /\ request[q].stage \in {"body", "host"}
  /\ request' = [request EXCEPT ![q] = Waiting]
  /\ UNCHANGED <<now, tier, rules, cache, rulesAt, created, deleted, firings, restarts>>

Delete(r) ==
  /\ r \in DOMAIN rules
  /\ rules' = Without(rules, r)
  /\ deleted' = [deleted EXCEPT ![r] = now]
  /\ UNCHANGED <<now, tier, cache, rulesAt, request, created, firings, restarts>>

\* A subscription starts or lapses.
ChangeTier(k) ==
  /\ tier' = [tier EXCEPT ![k] = IF @ = "pro" THEN "free" ELSE "pro"]
  /\ UNCHANGED <<now, rules, cache, rulesAt, request, created, deleted, firings, restarts>>

----------------------------------------------------------------------------
(* The indexer.                                                             *)

Stale == now - rulesAt > CacheTTL
Current == IF Stale THEN [r \in DOMAIN rules |-> rules[r].lastFired] ELSE cache

\* markFired: an update of the row, if it is still there.
MarkFired_InTheCacheOnly(fired) == rules
MarkFired(fired) ==
  [r \in DOMAIN rules |-> IF r \in fired THEN [rules[r] EXCEPT !.lastFired = now] ELSE rules[r]]

\* The cooldown of a rule is over.
Due_OneLater(r) == now - Current[r] > Cooldown
Due(r) == now - Current[r] >= Cooldown

\* checkRules, for a live event that matches some of the rules.
CheckRules(matching) ==
  LET fired == {r \in DOMAIN Current \cap matching : Due(r)}
  IN /\ cache' = [r \in DOMAIN Current |-> IF r \in fired THEN now ELSE Current[r]]
     /\ rulesAt' = IF Stale THEN now ELSE rulesAt
     /\ rules' = MarkFired(fired)
     /\ firings' = [r \in DOMAIN firings |-> IF r \in fired THEN firings[r] \cup {now} ELSE firings[r]]
  /\ UNCHANGED <<now, tier, request, created, deleted, restarts>>

Restart ==
  /\ restarts < MaxRestarts
  /\ restarts' = restarts + 1
  /\ cache' = Empty
  /\ rulesAt' = Never
  /\ request' = [q \in Requests |-> Waiting]
  /\ UNCHANGED <<now, tier, rules, created, deleted, firings>>

TimePasses ==
  /\ now < MaxTime
  /\ now' = now + 1
  /\ UNCHANGED <<tier, rules, cache, rulesAt, request, created, deleted, firings, restarts>>

Next ==
  \/ \E q \in Requests : CheckLimit(q) \/ Store(q) \/ Refuse(q) \/ \E k \in Keys : Authenticate(q, k)
  \/ \E r \in 1 .. MaxRules : Delete(r)
  \/ \E k \in Keys : ChangeTier(k)
  \/ \E matching \in SUBSET (1 .. MaxRules) : CheckRules(matching)
  \/ Restart \/ TimePasses

Spec == Init /\ [][Next]_vars

----------------------------------------------------------------------------
(* Properties.                                                              *)

\* A webhook is called at most once per cooldown, whatever is reloaded,
\* restarted or created in between.
FiresOncePerCooldown ==
  \A r \in DOMAIN firings : \A s, t \in firings[r] : s < t => t - s >= Cooldown

\* A deleted rule falls silent once the copy made before is out of date.
DeletedRuleFallsSilent ==
  \A r \in DOMAIN firings : \A t \in firings[r] : deleted[r] # Never => t <= deleted[r] + CacheTTL

\* No event is ignored for longer than the cooldown and the cache allow: a rule
\* in force for longer than CacheTTL that matches an event has been called
\* within the cooldown.
MatchIsHeard ==
  [][\A matching \in SUBSET (DOMAIN rules) : CheckRules(matching) =>
       \A r \in matching : created[r] + CacheTTL < now =>
         \E t \in firings'[r] : now - t < Cooldown \/ t = now]_vars

\* The published limit, as far as it is kept: a rule is counted before an await
\* and stored after it, so only a key with several requests under way exceeds
\* the pro limit, and by no more than the others of them.
LimitIsExceededOnlyTogether ==
  \A k \in Keys : Cardinality(RulesOf(k)) <= ProMax + Cardinality(Requests) - 1
=============================================================================
