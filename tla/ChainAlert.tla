----------------------------- MODULE ChainAlert -----------------------------
(***************************************************************************)
(* chainalert.js: which changes of the chain's state are announced to the  *)
(* operator, and which the cooldown of their destination swallows.         *)
(***************************************************************************)
EXTENDS Integers, Sequences

CONSTANTS
  Cooldown,   \* ALERT_COOLDOWN_MS
  MaxTime, MaxRestarts   \* bounds

ChainAlertAssumption == Cooldown \in Nat \ {0} /\ MaxTime \in Nat /\ MaxRestarts \in Nat

VARIABLES
  now,
  state,       \* chain.state
  since,       \* history: when it last changed
  lastSentAt,  \* per destination, or None; forgotten by a restart
  said,        \* history: what was announced in this session, [state, at]
  restarts

vars == <<now, state, since, lastSentAt, said, restarts>>

None == -1
Healthy == "live"
Causes == {"unauthorized", "unreachable", "halted"}
Announced == Causes \cup {Healthy}

Booted ==
  /\ state' = "unknown"
  /\ since' = now
  /\ lastSentAt' = [s \in Announced |-> None]
  /\ said' = <<>>

Init ==
  /\ now = 0
  /\ state = "unknown"
  /\ since = 0
  /\ lastSentAt = [s \in Announced |-> None]
  /\ said = <<>>
  /\ restarts = 0

\* transition: booting into a healthy chain is not news.
News(prev, next) == next \in Announced /\ ~(prev = "unknown" /\ next = Healthy)

\* dueForSend, each destination with a cooldown of its own.
DueForSend_OneCooldownForAll(s) ==
  \A t \in Announced : lastSentAt[t] = None \/ now - lastSentAt[t] >= Cooldown
DueForSend(s) == lastSentAt[s] = None \/ now - lastSentAt[s] >= Cooldown

\* lastSentAt.set, before the message is awaited and whether or not it arrives.
Recorded(s) == [lastSentAt EXCEPT ![s] = now]

\* setChainState changes the state and calls note.
Note(next) ==
  /\ next \in Announced \ {state}
  /\ state' = next
  /\ since' = now
  /\ IF News(state, next) /\ DueForSend(next)
     THEN /\ lastSentAt' = Recorded(next)
          /\ said' = Append(said, [state |-> next, at |-> now])
     ELSE UNCHANGED <<lastSentAt, said>>
  /\ UNCHANGED <<now, restarts>>

Restart ==
  /\ restarts < MaxRestarts
  /\ restarts' = restarts + 1
  /\ Booted
  /\ UNCHANGED now

TimePasses ==
  /\ now < MaxTime
  /\ now' = now + 1
  /\ UNCHANGED <<state, since, lastSentAt, said, restarts>>

Next == Restart \/ TimePasses \/ \E next \in Announced : Note(next)

Spec == Init /\ [][Next]_vars


----------------------------------------------------------------------------
(* Properties.                                                              *)

\* Flapping is not repeated to the operator: in one session, two announcements
\* of the same state are a cooldown apart.
AnnouncedOncePerCooldown ==
  \A i, j \in DOMAIN said :
    i < j /\ said[i].state = said[j].state => said[j].at - said[i].at >= Cooldown

\* A recovery is never swallowed by the cooldown of the outage, nor one outage
\* by that of another: the operator's last word differs from the state only
\* when that same state was announced less than a cooldown before it began.
LastWordMayBeStaleOnlyByItsOwnCooldown ==
  said # <<>> /\ said[Len(said)].state # state =>
    lastSentAt[state] # None /\ since - lastSentAt[state] < Cooldown
=============================================================================
