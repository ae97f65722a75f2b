----------------------------- MODULE ChainWatch -----------------------------
(* What changed between two observations of the chain: the pure half of      *)
(* chainwatch.js. An observation maps a subject ("token:0x..", "seen:0x..")   *)
(* to what a check saw of it; the stored rows are what earlier checks saw.    *)
EXTENDS Integers

CONSTANTS
  MISSES_BEFORE_GONE,   \* checks a subject must be missing from before it is called gone
  MISSES_BEFORE_QUIET   \* silent checks before a tracked asset is called quiet

(* One check would not do for silence: at first sight nothing is said of it. *)
ThresholdAssumption ==
  /\ MISSES_BEFORE_GONE \in Nat \ {0}
  /\ MISSES_BEFORE_QUIET \in Nat \ {0, 1}

(* Facts are a function whose domain holds the fields that are defined: an    *)
(* undefined field is not compared, a null one is.                            *)
IDENTITY_FIELDS == {"decimals", "name", "hasCode"}
identity(facts) == [k \in IDENTITY_FIELDS \cap DOMAIN facts |-> facts[k]]
sameIdentity(a, b) == identity(a) = identity(b)

(* The row stored for a subject: at its first sight, at a later one, and when *)
(* a check did not see it.                                                    *)
FirstRow(s, now) ==
  [kind |-> s.kind, facts |-> s.facts,
   lastSeen |-> IF s.active THEN now ELSE 0, misses |-> IF s.active THEN 0 ELSE 1]

Silent(s) == ~s.active /\ s.kind = "token"

NextRow(before, s, now) ==
  IF Silent(s)
  THEN [before EXCEPT !.facts = s.facts, !.misses = @ + 1]
  ELSE [before EXCEPT !.facts = s.facts,
                      !.lastSeen = IF s.active THEN now ELSE @,
                      !.misses = IF s.active THEN 0 ELSE @]

MissedRow(before) == [before EXCEPT !.misses = @ + 1]

rows(previous, current, now) ==
  [id \in DOMAIN previous \cup DOMAIN current |->
     IF id \notin DOMAIN previous THEN FirstRow(current[id], now)
     ELSE IF id \in DOMAIN current THEN NextRow(previous[id], current[id], now)
     ELSE MissedRow(previous[id])]

(* What is worth reporting. Silence and absence are reported at the threshold *)
(* and not again; a subject of ours that appears is no news about the chain.  *)
Quiet(previous, current) ==
  {id \in DOMAIN previous \cap DOMAIN current :
     Silent(current[id]) /\ previous[id].misses + 1 = MISSES_BEFORE_QUIET}

Gone(previous, current) ==
  {id \in DOMAIN previous \ DOMAIN current : previous[id].misses + 1 = MISSES_BEFORE_GONE}

New(previous, current) ==
  {id \in DOMAIN current \ DOMAIN previous : current[id].kind = "seen"}

Changed(previous, current) ==
  {id \in DOMAIN previous \cap DOMAIN current :
     ~sameIdentity(previous[id].facts, current[id].facts)}

diffObservations(previous, current, now) ==
  [events |-> [type \in {"new", "changed", "quiet", "gone"} |->
                 CASE type = "new" -> New(previous, current)
                   [] type = "changed" -> Changed(previous, current)
                   [] type = "quiet" -> Quiet(previous, current)
                   [] type = "gone" -> Gone(previous, current)],
   rows |-> rows(previous, current, now)]
=============================================================================
