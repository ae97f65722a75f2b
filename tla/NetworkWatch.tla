---------------------------- MODULE NetworkWatch ----------------------------
(* The periodic check of the network profile (verify-network.js) and its      *)
(* memory of earlier checks. A pass reads the chain over many requests, any   *)
(* of which may be refused, collects what it saw in module-level state, and   *)
(* stores the difference with the pass before. The timer does not wait for a  *)
(* pass to end, and the process may die in the middle of one.                 *)
EXTENDS ChainWatch

CONSTANTS
  Tokens,       \* contracts the profile tracks (CHAIN.tokens)
  Deployed,     \* contracts it names besides: Gateway, CCTP, the registry
  Others,       \* contracts it does not know of
  Invocations,  \* firings of the timer that may be under way at once
  MaxPasses,    \* bound: passes stored
  MaxChanges    \* bound: changes of what a contract is

NetworkWatchAssumption ==
  /\ ThresholdAssumption
  /\ Tokens \cap Deployed = {} /\ (Tokens \cup Deployed) \cap Others = {}
  /\ MaxPasses \in Nat /\ MaxChanges \in Nat

VARIABLES
  chain,      \* what each contract is: whether it has code, its decimals, its name
  running,    \* the guard of runOnce
  phase,      \* per invocation: the next part of its pass
  observed,   \* module level: what the pass in hand has seen
  emitters,   \* module level: contracts in the last log sample
  stored,     \* watch_subjects
  queued,     \* seen_contracts
  passNo,     \* passes stored so far, the clock of the record
  (* history *)
  look,       \* per invocation: what its own pass found of tokens and of other contracts
  silent,     \* per tracked token: stored passes in a row that confirmed its silence
  absent,     \* per other contract: stored passes in a row that did not see it
  told,       \* per subject: the last thing reported of its presence
  published,  \* per subject: the identity the reports account for
  cut,        \* a pass was cut after storing and before queueing
  changes

vars == <<chain, running, phase, observed, emitters, stored, queued, passNo,
          look, silent, absent, told, published, cut, changes>>
history == <<silent, absent, told, published>>

Addresses == Tokens \cup Deployed \cup Others

(* A proxy is given another name, other decimals, or loses its code. *)
Becomes(c) == {[c EXCEPT !.name = "new"], [c EXCEPT !.decimals = "other"], [c EXCEPT !.hasCode = FALSE]}
Empty == [id \in {} |-> {}]
Unlooked == [tokens |-> [t \in Tokens |-> "unasked"], others |-> {}]

Init ==
  /\ chain = [a \in Addresses |-> [hasCode |-> TRUE, decimals |-> "profile", name |-> "old"]]
  /\ running = FALSE /\ phase = [i \in Invocations |-> "idle"]
  /\ observed = Empty /\ emitters = {} /\ stored = Empty /\ queued = {} /\ passNo = 0
  /\ look = [i \in Invocations |-> Unlooked] /\ silent = [t \in Tokens |-> 0]
  /\ absent = [a \in Others |-> 0] /\ told = [a \in Addresses |-> "here"]
  /\ published = Empty
  /\ cut = FALSE /\ changes = 0

(* What an answer becomes. A refused getCode reads as no code, a refused      *)
(* decimals() as what the profile says, a refused name() as null.             *)
TokenFacts(t, refused) ==
  IF "code" \in refused \/ ~chain[t].hasCode
  THEN [decimals |-> "profile", hasCode |-> FALSE]
  ELSE [decimals |-> IF "decimals" \in refused THEN "profile" ELSE chain[t].decimals,
        name |-> IF "name" \in refused THEN "null" ELSE chain[t].name, hasCode |-> TRUE]

OtherFacts(a, refused) ==
  [decimals |-> chain[a].decimals, hasCode |-> TRUE,
   name |-> IF "name" \in refused THEN "null" ELSE chain[a].name]

(* An observation replaces the one its subject had.                          *)
observe(kind, facts) == [kind |-> kind, facts |-> facts, active |-> TRUE]
Over(new, old) == [id \in DOMAIN new \cup DOMAIN old |-> IF id \in DOMAIN new THEN new[id] ELSE old[id]]

(* runOnce: one pass at a time, because observed is shared.                   *)
Start_NoGuard(i) ==
  /\ phase[i] = "idle" /\ passNo < MaxPasses
  /\ running' = TRUE /\ observed' = Empty
  /\ phase' = [phase EXCEPT ![i] = "endpoints"]
  /\ UNCHANGED <<chain, emitters, stored, queued, passNo, look, history, cut, changes>>
Start(i) ==
  /\ phase[i] = "idle" /\ ~running /\ passNo < MaxPasses
  /\ running' = TRUE /\ observed' = Empty
  /\ phase' = [phase EXCEPT ![i] = "endpoints"]
  /\ UNCHANGED <<chain, emitters, stored, queued, passNo, look, history, cut, changes>>

(* What a pass has seen is dropped when it ends: the next one clears it.      *)
EndPass(i) ==
  /\ running' = FALSE /\ phase' = [phase EXCEPT ![i] = "idle"]
  /\ observed' = Empty /\ look' = [look EXCEPT ![i] = Unlooked]

(* Each endpoint answers with its head, or is of another chain, or refuses, or *)
(* is silent. Without one head the pass ends, and stores nothing: an empty    *)
(* observation would make every subject look gone.                            *)
checkEndpoints(i) ==
  /\ phase[i] = "endpoints"
  /\ \E answers \in (SUBSET {"head", "other chain", "refused", "silent"}) \ {{}} :
       IF "head" \in answers
       THEN phase' = [phase EXCEPT ![i] = "tokens"] /\ UNCHANGED <<running, observed, look>>
       ELSE EndPass(i)
  /\ UNCHANGED <<chain, emitters, stored, queued, passNo, history, cut, changes>>

checkTokens(i) ==
  /\ phase[i] = "tokens"
  /\ \E refused \in [Tokens -> SUBSET {"code", "decimals", "name"}] :
       observed' = Over([t \in Tokens |-> observe("token", TokenFacts(t, refused[t]))], observed)
  /\ phase' = [phase EXCEPT ![i] = "deployed"]
  /\ UNCHANGED <<chain, running, emitters, stored, queued, passNo, look, history, cut, changes>>

(* checkGateway, checkCctp and checkRegistry *)
checkDeployed(i) ==
  /\ phase[i] = "deployed"
  /\ \E refused \in SUBSET Deployed :
       observed' = Over([d \in Deployed |->
           observe("deployed", [hasCode |-> chain[d].hasCode /\ d \notin refused])], observed)
  /\ phase' = [phase EXCEPT ![i] = "untracked"]
  /\ UNCHANGED <<chain, running, emitters, stored, queued, passNo, look, history, cut, changes>>

(* The wider look for one token, newest half first: one log is enough, and a  *)
(* half that cannot be read leaves the question open.                         *)
recentlyMoved(newer, older) ==
  IF newer # "none" THEN newer ELSE IF older # "none" THEN older ELSE "silent"

(* checkUntracked. The sample is what could be read of three windows; none of *)
(* it read, the check returns and every token stays as active as observe left *)
(* it. A token outside the sample is asked for over a wider range, which may  *)
(* not be readable either. A busy contract we do not know is asked what it    *)
(* is, and dropped if it does not answer decimals().                          *)
NothingSampled(i) ==
  /\ phase[i] = "untracked"
  /\ phase' = [phase EXCEPT ![i] = "report"]
  /\ UNCHANGED <<chain, running, observed, emitters, stored, queued, passNo, look, history, cut, changes>>

checkUntracked(i) ==
  /\ phase[i] = "untracked"
  /\ \E sampled \in (SUBSET (Tokens \cup Others)) \ {{}} :
       \E newer, older \in [Tokens \ sampled -> {"moved", "none", "unread"}],
          known \in SUBSET (sampled \cap Others),
          refused \in [Others -> SUBSET {"name"}] :
         /\ emitters' = sampled
         /\ look' = [look EXCEPT ![i] =
              [tokens |-> [t \in Tokens |-> IF t \in sampled THEN "moved" ELSE recentlyMoved(newer[t], older[t])],
               others |-> known]]
         /\ observed' = [id \in DOMAIN observed \cup known |->
              IF id \in known THEN observe("seen", OtherFacts(id, refused[id]))
              ELSE IF id \in Tokens THEN [observed[id] EXCEPT !.active = look'[i].tokens[id] # "silent"]
              ELSE observed[id]]
  /\ phase' = [phase EXCEPT ![i] = "report"]
  /\ UNCHANGED <<chain, running, stored, queued, passNo, history, cut, changes>>

(* record: the difference is taken and the observation stored in one          *)
(* transaction; what is said of it may be lost on the way, what was stored    *)
(* is not said again.                                                         *)
Report(i) ==
  /\ phase[i] = "report"
  /\ passNo' = passNo + 1
  /\ \E diff \in {diffObservations(stored, observed, passNo')} :
       /\ stored' = diff.rows
       /\ told' = [a \in Addresses |->
                     IF a \in diff.events["quiet"] THEN "quiet"
                     ELSE IF a \in diff.events["gone"] THEN "gone"
                     ELSE IF a \in DOMAIN observed /\ ~Silent(observed[a]) THEN "here"
                     ELSE told[a]]
       /\ published' = [id \in DOMAIN stored' |->
                          IF id \notin DOMAIN stored \/ id \in diff.events["changed"]
                          THEN identity(observed[id].facts) ELSE published[id]]
  /\ silent' = [t \in Tokens |-> IF look[i].tokens[t] = "silent" THEN silent[t] + 1 ELSE 0]
  /\ absent' = [a \in Others |-> IF a \in look[i].others THEN 0 ELSE absent[a] + 1]
  /\ cut' = TRUE
  /\ phase' = [phase EXCEPT ![i] = "queue"]
  /\ UNCHANGED <<chain, running, observed, emitters, queued, look, changes>>

(* reportChanges after record: the sample and everything remembered go into   *)
(* the queue of contracts whose balances will be read.                        *)
Queue(i) ==
  /\ phase[i] = "queue"
  /\ queued' = queued \cup emitters \cup DOMAIN stored
  /\ EndPass(i) /\ cut' = FALSE
  /\ UNCHANGED <<chain, emitters, stored, passNo, history, changes>>

(* A request that no endpoint answers ends the pass with nothing stored.      *)
PassThrows(i) ==
  /\ phase[i] \in {"endpoints", "tokens", "deployed", "untracked"}
  /\ EndPass(i)
  /\ UNCHANGED <<chain, emitters, stored, queued, passNo, history, cut, changes>>

Crash ==
  /\ running
  /\ running' = FALSE /\ phase' = [i \in Invocations |-> "idle"]
  /\ observed' = Empty /\ emitters' = {} /\ look' = [i \in Invocations |-> Unlooked]
  /\ UNCHANGED <<chain, stored, queued, passNo, history, cut, changes>>

ChainChanges ==
  /\ changes < MaxChanges /\ changes' = changes + 1
  /\ \E a \in Addresses : \E c \in Becomes(chain[a]) : chain' = [chain EXCEPT ![a] = c]
  /\ UNCHANGED <<running, phase, observed, emitters, stored, queued, passNo, look, history, cut>>

Next ==
  \/ \E i \in Invocations :
       \/ Start(i) \/ checkEndpoints(i) \/ checkTokens(i) \/ checkDeployed(i)
       \/ NothingSampled(i) \/ checkUntracked(i)
       \/ Report(i) \/ Queue(i) \/ PassThrows(i)
  \/ Crash \/ ChainChanges

Spec == Init /\ [][Next]_vars

(* A tracked asset is reported quiet exactly when as many checks in a row as  *)
(* the threshold confirmed its silence, and an unknown contract is reported   *)
(* gone exactly when it was missing from that many: whatever passes were cut, *)
(* refused or overlapped in between.                                          *)
SilenceIsReportedWhenItHasRepeated ==
  /\ \A t \in Tokens : told[t] = "quiet" <=> silent[t] >= MISSES_BEFORE_QUIET
  /\ \A t \in Tokens : told[t] # "gone"
  /\ \A a \in Others \cap DOMAIN stored :
       told[a] = "gone" <=> absent[a] >= MISSES_BEFORE_GONE

(* What is known is never announced twice: no step reports a subject quiet or *)
(* gone that was last reported so.                                            *)
Repeated(events) == \E id \in Addresses :
  \/ id \in events["quiet"] /\ told[id] = "quiet"
  \/ id \in events["gone"] /\ told[id] = "gone"
NeverSaidTwice ==
  [][passNo' # passNo => ~Repeated(diffObservations(stored, observed, passNo').events)]_vars

(* Whoever has followed the reports knows the identity of every contract the  *)
(* record holds: nothing is taken into the record without being reported.     *)
ReportsAccountForTheRecord ==
  \A id \in DOMAIN stored : published[id] = identity(stored[id].facts)

(* Unless a pass was cut right after storing, everything remembered is in the *)
(* queue of contracts whose balances are read.                                *)
RememberedIsQueued == ~cut => DOMAIN stored \subseteq queued
=============================================================================
