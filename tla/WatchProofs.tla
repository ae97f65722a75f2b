---------------------------- MODULE WatchProofs ----------------------------
(***************************************************************************)
(* Proofs about the watch kept over the chain: the alerts, the calls, the  *)
(* profile check and the record of availability.  The parts share no       *)
(* state, so each has an invariant of its own, AlertInv, CallsInv,         *)
(* ProfileInv and RecordInv, inductive over its own steps and untouched by *)
(* the others'; the last section puts them together.                       *)
(***************************************************************************)
EXTENDS MCWatch, FiniteSetTheorems, SequenceTheorems, WellFoundedInduction, TLAPS

watchVars == <<part, uptimeVars, alertVars, profileVars, callVars>>

----------------------------------------------------------------------------
(* The alerts (ChainAlert), for every cooldown and any length of flapping. *)

Announcement == [state : Alerts!Announced, at : Nat]

AlertType ==
  /\ alertNow \in Nat
  /\ alerted \in Alerts!Announced \cup {"unknown"}
  /\ since \in 0 .. alertNow
  /\ lastSentAt \in [Alerts!Announced -> {Alerts!None} \cup 0 .. alertNow]
  /\ said \in Seq(Announcement)

\* The map of cooldowns knows every announcement.
CooldownsRun ==
  \A i \in DOMAIN said :
    lastSentAt[said[i].state] # Alerts!None /\ said[i].at <= lastSentAt[said[i].state]

SilentWhileUnknown == alerted = "unknown" => said = <<>>

AlertInv ==
  /\ AlertType
  /\ CooldownsRun
  /\ SilentWhileUnknown
  /\ Alerts!AnnouncedOncePerCooldown
  /\ Alerts!LastWordMayBeStaleOnlyByItsOwnCooldown

\* The boot: nothing said, nothing known.
LEMMA AlertInit ==
  ASSUME Alerts!ChainAlertAssumption, Alerts!Init
  PROVE  AlertInv
BY DEF Alerts!ChainAlertAssumption, Alerts!Init, AlertInv, AlertType, CooldownsRun, SilentWhileUnknown,
       Alerts!AnnouncedOncePerCooldown, Alerts!LastWordMayBeStaleOnlyByItsOwnCooldown, Alerts!None

\* A restart forgets the cooldowns with what was said in the session.
LEMMA RestartKeeps ==
  ASSUME Alerts!ChainAlertAssumption, AlertInv, Alerts!Restart
  PROVE  AlertInv'
BY DEF Alerts!Restart, Alerts!Booted, AlertInv, AlertType, CooldownsRun, SilentWhileUnknown,
       Alerts!AnnouncedOncePerCooldown, Alerts!LastWordMayBeStaleOnlyByItsOwnCooldown, Alerts!None

\* Time only lengthens the distance from what was said.
LEMMA TimePassesKeeps ==
  ASSUME Alerts!ChainAlertAssumption, AlertInv, Alerts!TimePasses
  PROVE  AlertInv'
<1>1. AlertType'
  BY DEF Alerts!TimePasses, AlertInv, AlertType
<1>2. (CooldownsRun /\ SilentWhileUnknown)'
  BY DEF Alerts!TimePasses, AlertInv, CooldownsRun, SilentWhileUnknown
<1>3. (Alerts!AnnouncedOncePerCooldown /\ Alerts!LastWordMayBeStaleOnlyByItsOwnCooldown)'
  BY DEF Alerts!TimePasses, AlertInv, Alerts!AnnouncedOncePerCooldown, Alerts!LastWordMayBeStaleOnlyByItsOwnCooldown
<1> QED
  BY <1>1, <1>2, <1>3 DEF AlertInv

\* A change that is announced.
LEMMA AnnouncedKeeps ==
  ASSUME Alerts!ChainAlertAssumption, AlertInv, NEW next \in Alerts!Announced, Alerts!Note(next), Alerts!DueForSend(next),
         lastSentAt' = Alerts!Recorded(next), said' = Append(said, [state |-> next, at |-> alertNow])
  PROVE  AlertInv'
<1>1. alerted' = next /\ since' = alertNow /\ alertNow' = alertNow /\ alertNow \in Nat
  BY DEF Alerts!Note, AlertInv, AlertType
<1>2. lastSentAt' = [lastSentAt EXCEPT ![next] = alertNow]
  BY DEF Alerts!Recorded
<1>3. said \in Seq(Announcement) /\ lastSentAt \in [Alerts!Announced -> {Alerts!None} \cup 0 .. alertNow]
  BY DEF AlertInv, AlertType
<1>4. [state |-> next, at |-> alertNow] \in Announcement
  BY <1>1 DEF Announcement
<1>5. /\ said' \in Seq(Announcement)
      /\ Len(said') = Len(said) + 1 /\ DOMAIN said' = 1 .. Len(said) + 1
      /\ said'[Len(said) + 1] = [state |-> next, at |-> alertNow]
      /\ \A i \in 1 .. Len(said) : said'[i] = said[i]
  BY <1>3, <1>4
<1>6. DOMAIN said = 1 .. Len(said) /\ Len(said) \in Nat /\ \A i \in 1 .. Len(said) : said[i] \in Announcement
  BY <1>3
<1>7. AlertType'
  BY <1>1, <1>2, <1>3, <1>5 DEF AlertType
<1>8. CooldownsRun'
  <2> SUFFICES ASSUME NEW i \in 1 .. Len(said) + 1
               PROVE  lastSentAt'[said'[i].state] # Alerts!None /\ said'[i].at <= lastSentAt'[said'[i].state]
    BY <1>5 DEF CooldownsRun
  <2>1. CASE i = Len(said) + 1
    BY <2>1, <1>1, <1>2, <1>3, <1>5 DEF Alerts!None
  <2>2. CASE i \in 1 .. Len(said)
    <3>1. /\ said'[i] = said[i] /\ said[i].state \in Alerts!Announced /\ said[i].at \in Nat
          /\ lastSentAt[said[i].state] # Alerts!None /\ said[i].at <= lastSentAt[said[i].state]
      BY <2>2, <1>5, <1>6 DEF AlertInv, CooldownsRun, Announcement
    <3>2. lastSentAt[said[i].state] \in 0 .. alertNow
      BY <3>1, <1>3
    <3> QED
      BY <3>1, <3>2, <1>1, <1>2, <1>3 DEF Alerts!None
  <2> QED
    BY <2>1, <2>2, <1>6
<1>9. SilentWhileUnknown'
  BY <1>1 DEF SilentWhileUnknown, Alerts!Announced, Alerts!Causes, Alerts!Healthy
<1>10. Alerts!AnnouncedOncePerCooldown'
  <2> SUFFICES ASSUME NEW i \in 1 .. Len(said) + 1, NEW j \in 1 .. Len(said) + 1,
                      i < j, said'[i].state = said'[j].state
               PROVE  said'[j].at - said'[i].at >= Cooldown
    BY <1>5 DEF Alerts!AnnouncedOncePerCooldown
  <2>1. i \in 1 .. Len(said)
    BY <1>6
  <2>2. CASE j = Len(said) + 1
    <3>1. said[i].state = next /\ said'[j].at = alertNow /\ said'[i].at = said[i].at /\ said[i].at \in Nat
      BY <2>1, <2>2, <1>5, <1>6 DEF Announcement
    <3>2. lastSentAt[next] # Alerts!None /\ said[i].at <= lastSentAt[next]
      BY <2>1, <3>1, <1>6 DEF AlertInv, CooldownsRun
    <3>3. alertNow - lastSentAt[next] >= Cooldown
      BY <3>2 DEF Alerts!DueForSend
    <3>4. lastSentAt[next] \in 0 .. alertNow /\ Cooldown \in Nat
      BY <3>2, <1>3 DEF Alerts!ChainAlertAssumption
    <3> QED
      BY <3>1, <3>2, <3>3, <3>4, <1>1
  <2>3. CASE j \in 1 .. Len(said)
    BY <2>1, <2>3, <1>5, <1>6 DEF AlertInv, Alerts!AnnouncedOncePerCooldown
  <2> QED
    BY <2>2, <2>3, <1>6
<1>11. Alerts!LastWordMayBeStaleOnlyByItsOwnCooldown'
  <2>1. said'[Len(said')] = [state |-> next, at |-> alertNow]
    BY <1>5
  <2> QED
    BY <2>1, <1>1 DEF Alerts!LastWordMayBeStaleOnlyByItsOwnCooldown
<1> QED
  BY <1>7, <1>8, <1>9, <1>10, <1>11 DEF AlertInv

\* A change that is not: no news, or its own cooldown.
LEMMA SwallowedKeeps ==
  ASSUME Alerts!ChainAlertAssumption, AlertInv, NEW next \in Alerts!Announced, Alerts!Note(next),
         ~(Alerts!News(alerted, next) /\ Alerts!DueForSend(next)), UNCHANGED <<lastSentAt, said>>
  PROVE  AlertInv'
<1>1. alerted' = next /\ since' = alertNow /\ alertNow' = alertNow
  BY DEF Alerts!Note
<1>2. AlertType'
  BY <1>1 DEF AlertInv, AlertType
<1>3. (CooldownsRun /\ Alerts!AnnouncedOncePerCooldown)'
  BY DEF AlertInv, CooldownsRun, Alerts!AnnouncedOncePerCooldown
<1>4. SilentWhileUnknown'
  BY <1>1 DEF SilentWhileUnknown, Alerts!Announced, Alerts!Causes, Alerts!Healthy
<1>5. Alerts!LastWordMayBeStaleOnlyByItsOwnCooldown'
  <2>1. CASE ~Alerts!News(alerted, next)
    <3>1. said = <<>>
      BY <2>1 DEF Alerts!News, AlertInv, SilentWhileUnknown
    <3> QED
      BY <3>1 DEF Alerts!LastWordMayBeStaleOnlyByItsOwnCooldown
  <2>2. CASE ~Alerts!DueForSend(next)
    <3>1. lastSentAt[next] # Alerts!None /\ ~(alertNow - lastSentAt[next] >= Cooldown)
      BY <2>2 DEF Alerts!DueForSend
    <3>2. lastSentAt[next] \in 0 .. alertNow /\ alertNow \in Nat /\ Cooldown \in Nat
      BY <3>1 DEF AlertInv, AlertType, Alerts!ChainAlertAssumption
    <3>3. alertNow - lastSentAt[next] < Cooldown
      BY <3>1, <3>2
    <3> QED
      BY <3>1, <3>3, <1>1 DEF Alerts!LastWordMayBeStaleOnlyByItsOwnCooldown
  <2> QED
    BY <2>1, <2>2
<1> QED
  BY <1>2, <1>3, <1>4, <1>5 DEF AlertInv

\* Every step of the alerts.
LEMMA AlertStep ==
  ASSUME Alerts!ChainAlertAssumption, AlertInv, [Alerts!Next]_(Alerts!vars)
  PROVE  AlertInv'
<1>1. CASE UNCHANGED Alerts!vars
  BY <1>1 DEF Alerts!vars, AlertInv, AlertType, CooldownsRun, SilentWhileUnknown,
              Alerts!AnnouncedOncePerCooldown, Alerts!LastWordMayBeStaleOnlyByItsOwnCooldown
<1>2. ASSUME NEW next \in Alerts!Announced, Alerts!Note(next)
      PROVE  AlertInv'
  <2>1. CASE Alerts!News(alerted, next) /\ Alerts!DueForSend(next)
    BY <1>2, <2>1, AnnouncedKeeps DEF Alerts!Note
  <2>2. CASE ~(Alerts!News(alerted, next) /\ Alerts!DueForSend(next))
    BY <1>2, <2>2, SwallowedKeeps DEF Alerts!Note
  <2> QED
    BY <2>1, <2>2
<1> QED
  BY <1>1, <1>2, RestartKeeps, TimePassesKeeps DEF Alerts!Next

----------------------------------------------------------------------------
(* The calls (Failover), for any endpoints, callers and batches.  What      *)
(* carries them: a batch keeps to the order it went out with, and its       *)
(* causes are what its replies made of them, one for one.                   *)

Endpoints == {ENDPOINTS[i] : i \in DOMAIN ENDPOINTS}
Causes == {"auth", "other", "error", "pruned"}
Replies ==
  {Calls!Refusal(status) : status \in Calls!Refusals} \cup {Calls!Body(body) : body \in Calls!Bodies}

CauseFits(cause, reply) ==
  /\ cause = "auth" <=> reply.status = "auth"
  /\ cause = "pruned" => Calls!SaidPruned(reply)

\* Who was asked so far are the first in the order of the k-th endpoint, who is
\* left are the rest of it.
AskedInOrder(c, k) ==
  /\ Len(heard[c]) + Len(call[c].todo) = Len(ENDPOINTS)
  /\ \A i \in 1 .. Len(heard[c]) : heard[c][i].from = Calls!First(k)[i]
  /\ \A i \in 1 .. Len(call[c].todo) : call[c].todo[i] = Calls!First(k)[Len(heard[c]) + i]

Tried(c) ==
  /\ \E k \in DOMAIN ENDPOINTS : AskedInOrder(c, k)
  /\ call[c].todo \in Seq(Endpoints)
  /\ call[c].causes \in Seq(Causes)
  /\ Len(call[c].causes) = Len(heard[c])
  /\ \A i \in 1 .. Len(heard[c]) : CauseFits(call[c].causes[i], heard[c][i].said)
  /\ call[c].allAuth \in BOOLEAN
  /\ call[c].allAuth <=> \A i \in 1 .. Len(heard[c]) : heard[c][i].said.status = "auth"

WholeAnswer(c) ==
  LET reply == heard[c][Len(heard[c])].said
  IN  /\ reply.status = "ok"
      /\ \A s \in Slots :
           IF reply.items[s] = "result" THEN call[c].out[s] = "result"
           ELSE call[c].out[s] = Calls!Undefined /\ (c \in Soft \/ reply.items[s] = "absent")

CallInv(c) ==
  /\ call[c] = [stage |-> call[c].stage, todo |-> call[c].todo, allAuth |-> call[c].allAuth,
                causes |-> call[c].causes, out |-> call[c].out]
  /\ heard[c] \in Seq([from : Endpoints, said : Replies])
  /\ call[c].stage = "asking" => Tried(c) /\ call[c].todo # <<>>
  /\ call[c].stage = "failed" => Tried(c) /\ call[c].todo = <<>>
  /\ call[c].stage = "answered" => WholeAnswer(c)

CallsInv ==
  /\ endpoint \in Endpoints
  /\ DOMAIN call = Callers /\ DOMAIN heard = Callers
  /\ \A c \in Callers : CallInv(c)

\* Each order asks every endpoint, and each once.
LEMMA OrdersAreWhole ==
  ASSUME Calls!FailoverAssumption, NEW k \in DOMAIN ENDPOINTS
  PROVE  /\ Calls!First(k) \in Seq(Endpoints) /\ Len(Calls!First(k)) = Len(ENDPOINTS)
         /\ \A e \in Endpoints : \E i \in 1 .. Len(ENDPOINTS) : Calls!First(k)[i] = e
<1>1. /\ Len(ENDPOINTS) \in Nat \ {0} /\ DOMAIN ENDPOINTS = 1 .. Len(ENDPOINTS)
      /\ \A i \in 1 .. Len(ENDPOINTS) : ENDPOINTS[i] \in Endpoints
  BY DEF Calls!FailoverAssumption, Endpoints
<1>2. k \in 1 .. Len(ENDPOINTS)
  BY <1>1
<1>3. Calls!First(k) = [i \in 1 .. Len(ENDPOINTS) |->
               IF i = 1 THEN ENDPOINTS[k] ELSE IF i <= k THEN ENDPOINTS[i - 1] ELSE ENDPOINTS[i]]
  BY <1>1 DEF Calls!First
<1>4. \A i \in 1 .. Len(ENDPOINTS) : Calls!First(k)[i] \in Endpoints
  <2> TAKE i \in 1 .. Len(ENDPOINTS)
  <2>1. i = 1 \/ i - 1 \in 1 .. Len(ENDPOINTS)
    BY <1>1
  <2> QED
    BY <2>1, <1>1, <1>2, <1>3
<1>5. \A e \in Endpoints : \E i \in 1 .. Len(ENDPOINTS) : Calls!First(k)[i] = e
  <2> TAKE e \in Endpoints
  <2>1. PICK j \in 1 .. Len(ENDPOINTS) : ENDPOINTS[j] = e
    BY <1>1 DEF Endpoints
  <2>2. CASE j = k
    <3>1. 1 \in 1 .. Len(ENDPOINTS) /\ Calls!First(k)[1] = e
      BY <2>1, <2>2, <1>1, <1>3
    <3> QED
      BY <3>1
  <2>3. CASE j < k
    <3>1. j + 1 \in 1 .. Len(ENDPOINTS) /\ j + 1 # 1 /\ j + 1 <= k /\ (j + 1) - 1 = j
      BY <2>3, <1>1, <1>2
    <3>2. Calls!First(k)[j + 1] = e
      BY <3>1, <2>1, <1>3
    <3> QED
      BY <3>1, <3>2
  <2>4. CASE j > k
    <3>1. j # 1 /\ ~(j <= k)
      BY <2>4, <1>2
    <3>2. Calls!First(k)[j] = e
      BY <3>1, <2>1, <1>3
    <3> QED
      BY <3>2
  <2> QED
    BY <2>2, <2>3, <2>4, <1>2
<1> QED
  BY <1>1, <1>3, <1>4, <1>5

\* The order in use.
LEMMA OrderedIsAnOrder ==
  ASSUME endpoint \in Endpoints
  PROVE  \E k \in DOMAIN ENDPOINTS : Calls!Ordered = Calls!First(k)
<1>1. \E k \in DOMAIN ENDPOINTS : ENDPOINTS[k] = endpoint
  BY DEF Endpoints
<1> QED
  BY <1>1 DEF Calls!Ordered

\* No batch is under way.
LEMMA CallsStart ==
  ASSUME Calls!FailoverAssumption, Calls!Init
  PROVE  CallsInv
<1>1. endpoint \in Endpoints
  BY DEF Calls!Init, Calls!FailoverAssumption, Endpoints
<1> QED
  BY <1>1 DEF Calls!Init, Calls!Idle, CallsInv, CallInv

\* A batch that is left alone.
LEMMA CallKept ==
  ASSUME NEW c \in Callers, CallInv(c), call'[c] = call[c], heard'[c] = heard[c]
  PROVE  CallInv(c)'
<1>1. \A k : AskedInOrder(c, k)' <=> AskedInOrder(c, k)
  BY DEF AskedInOrder
<1>2. Tried(c)' <=> Tried(c)
  BY <1>1 DEF Tried
<1>3. WholeAnswer(c)' <=> WholeAnswer(c)
  BY DEF WholeAnswer
<1> QED
  BY <1>2, <1>3 DEF CallInv

\* A batch goes out with a whole order.
LEMMA BeginKeeps ==
  ASSUME Calls!FailoverAssumption, CallsInv, NEW c \in Callers, Calls!Begin(c)
  PROVE  CallsInv'
<1>1. /\ call' = [call EXCEPT ![c] = [Calls!Idle EXCEPT !.stage = "asking", !.todo = Calls!Ordered]]
      /\ heard' = [heard EXCEPT ![c] = <<>>] /\ endpoint' = endpoint
  BY DEF Calls!Begin
<1>2. PICK k \in DOMAIN ENDPOINTS : Calls!Ordered = Calls!First(k)
  BY OrderedIsAnOrder DEF CallsInv
<1>3. Calls!First(k) \in Seq(Endpoints) /\ Len(Calls!First(k)) = Len(ENDPOINTS) /\ Len(ENDPOINTS) \in Nat \ {0}
  BY OrdersAreWhole DEF Calls!FailoverAssumption
<1>4. /\ call'[c] = [stage |-> "asking", todo |-> Calls!First(k), allAuth |-> TRUE, causes |-> <<>>, out |-> <<>>]
      /\ heard'[c] = <<>> /\ DOMAIN call' = Callers /\ DOMAIN heard' = Callers
      /\ \A d \in Callers \ {c} : call'[d] = call[d] /\ heard'[d] = heard[d]
  BY <1>1, <1>2 DEF CallsInv, Calls!Idle
<1>5. Tried(c)' /\ Calls!First(k) # <<>>
  <2>1. AskedInOrder(c, k)'
    BY <1>3, <1>4 DEF AskedInOrder
  <2> QED
    BY <2>1, <1>3, <1>4 DEF Tried
<1>6. CallInv(c)'
  BY <1>4, <1>5 DEF CallInv
<1> QED
  BY <1>1, <1>4, <1>6, CallKept DEF CallsInv

\* A reply that makes the batch go on, or fail when no endpoint is left.
LEMMA FailedKeeps ==
  ASSUME Calls!FailoverAssumption, CallsInv, NEW c \in Callers, call[c].stage = "asking",
         NEW cause \in Causes, NEW reply \in Replies, CauseFits(cause, reply),
         Calls!Failed(c, cause), Calls!Heard(c, reply)
  PROVE  CallsInv'
<1> DEFINE entry == [from |-> Head(call[c].todo), said |-> reply]
<1>1. /\ CallInv(c) /\ Tried(c) /\ call[c].todo # <<>> /\ call[c].todo \in Seq(Endpoints)
      /\ call[c].causes \in Seq(Causes) /\ heard[c] \in Seq([from : Endpoints, said : Replies])
  BY DEF CallsInv, CallInv, Tried
<1>2. /\ call' = [call EXCEPT ![c].todo = Tail(call[c].todo),
                              ![c].stage = IF Tail(call[c].todo) = <<>> THEN "failed" ELSE @,
                              ![c].allAuth = @ /\ cause = "auth",
                              ![c].causes = Append(@, cause)]
      /\ heard' = [heard EXCEPT ![c] = Append(heard[c], entry)] /\ endpoint' = endpoint
  BY DEF Calls!Failed, Calls!Heard, Calls!Rest
<1>3. /\ DOMAIN call' = Callers /\ DOMAIN heard' = Callers
      /\ \A d \in Callers \ {c} : call'[d] = call[d] /\ heard'[d] = heard[d]
      /\ heard'[c] = Append(heard[c], entry)
  BY <1>2 DEF CallsInv
<1>4. call'[c] = [stage |-> IF Tail(call[c].todo) = <<>> THEN "failed" ELSE "asking",
                  todo |-> Tail(call[c].todo), allAuth |-> call[c].allAuth /\ cause = "auth",
                  causes |-> Append(call[c].causes, cause), out |-> call[c].out]
  BY <1>1, <1>2 DEF CallsInv, CallInv
<1>5. /\ entry \in [from : Endpoints, said : Replies] /\ entry.said = reply
      /\ entry.from = call[c].todo[1]
  BY <1>1
<1> HIDE DEF entry
<1>6. /\ heard'[c] \in Seq([from : Endpoints, said : Replies]) /\ Len(heard'[c]) = Len(heard[c]) + 1
      /\ heard'[c][Len(heard[c]) + 1] = entry /\ \A i \in 1 .. Len(heard[c]) : heard'[c][i] = heard[c][i]
      /\ Len(heard[c]) \in Nat
  BY <1>1, <1>3, <1>5
<1>7. /\ Tail(call[c].todo) \in Seq(Endpoints) /\ Len(Tail(call[c].todo)) = Len(call[c].todo) - 1
      /\ \A i \in 1 .. Len(call[c].todo) - 1 : Tail(call[c].todo)[i] = call[c].todo[i + 1]
      /\ Len(call[c].todo) \in Nat /\ Len(call[c].todo) >= 1
  BY <1>1
<1>8. /\ Append(call[c].causes, cause) \in Seq(Causes) /\ Len(call[c].causes) = Len(heard[c])
      /\ Len(Append(call[c].causes, cause)) = Len(heard[c]) + 1
      /\ Append(call[c].causes, cause)[Len(heard[c]) + 1] = cause
      /\ \A i \in 1 .. Len(heard[c]) : Append(call[c].causes, cause)[i] = call[c].causes[i]
  <2>1. call[c].causes \in Seq(Causes) /\ Len(call[c].causes) = Len(heard[c])
    BY <1>1 DEF Tried
  <2> DEFINE causes == call[c].causes
  <2>2. causes \in Seq(Causes) /\ Len(causes) = Len(heard[c])
    BY <2>1
  <2> HIDE DEF causes
  <2>3. /\ Append(causes, cause) \in Seq(Causes) /\ Len(Append(causes, cause)) = Len(heard[c]) + 1
        /\ Append(causes, cause)[Len(heard[c]) + 1] = cause
        /\ \A i \in 1 .. Len(heard[c]) : Append(causes, cause)[i] = causes[i]
    BY <2>2, <1>6
  <2> QED
    BY <2>1, <2>3 DEF causes
<1>9. PICK k \in DOMAIN ENDPOINTS : AskedInOrder(c, k)
  BY <1>1 DEF Tried
<1>10. AskedInOrder(c, k)'
  <2>1. call'[c].todo = Tail(call[c].todo)
    BY <1>4
  <2>2. entry.from = Calls!First(k)[Len(heard[c]) + 1]
    BY <1>5, <1>7, <1>9 DEF AskedInOrder
  <2>3. \A i \in 1 .. Len(heard[c]) + 1 : heard'[c][i].from = Calls!First(k)[i]
    <3>1. \A i \in 1 .. Len(heard[c]) : heard[c][i].from = Calls!First(k)[i]
      BY <1>9 DEF AskedInOrder
    <3>2. \A i \in 1 .. Len(heard[c]) + 1 : i \in 1 .. Len(heard[c]) \/ i = Len(heard[c]) + 1
      BY <1>6
    <3> QED
      BY <1>6, <2>2, <3>1, <3>2
  <2>4. \A i \in 1 .. Len(call[c].todo) - 1 : Tail(call[c].todo)[i] = Calls!First(k)[(Len(heard[c]) + 1) + i]
    <3> TAKE i \in 1 .. Len(call[c].todo) - 1
    <3>1. i + 1 \in 1 .. Len(call[c].todo) /\ (Len(heard[c]) + 1) + i = Len(heard[c]) + (i + 1)
      <4>1. \A m \in Nat, n \in Nat : n >= 1 =>
              \A j \in 1 .. n - 1 : j + 1 \in 1 .. n /\ (m + 1) + j = m + (j + 1)
        OBVIOUS
      <4> QED
        BY <4>1, <1>6, <1>7
    <3>2. call[c].todo[i + 1] = Calls!First(k)[Len(heard[c]) + (i + 1)]
      BY <3>1, <1>9 DEF AskedInOrder
    <3> QED
      BY <3>1, <3>2, <1>7
  <2>5. Len(heard[c]) + 1 + (Len(call[c].todo) - 1) = Len(ENDPOINTS)
    <3>1. Len(heard[c]) + Len(call[c].todo) = Len(ENDPOINTS)
      BY <1>9 DEF AskedInOrder
    <3>2. \A m, n \in Nat : m + 1 + (n - 1) = m + n
      OBVIOUS
    <3> QED
      BY <3>1, <3>2, <1>6, <1>7
  <2> QED
    BY <2>1, <2>3, <2>4, <2>5, <1>6, <1>7 DEF AskedInOrder
<1>11. Tried(c)'
  <2>1. call'[c].todo \in Seq(Endpoints) /\ call'[c].causes \in Seq(Causes) /\ Len(call'[c].causes) = Len(heard'[c])
    BY <1>4, <1>6, <1>7, <1>8
  <2>2. \A i \in 1 .. Len(heard[c]) + 1 : CauseFits(call'[c].causes[i], heard'[c][i].said)
    <3> TAKE i \in 1 .. Len(heard[c]) + 1
    <3>1. call'[c].causes = Append(call[c].causes, cause)
      BY <1>4
    <3>2. CASE i = Len(heard[c]) + 1
      BY <3>1, <3>2, <1>5, <1>6, <1>8
    <3>3. CASE i \in 1 .. Len(heard[c])
      <4>1. CauseFits(call[c].causes[i], heard[c][i].said)
        BY <3>3, <1>1 DEF Tried
      <4> QED
        BY <4>1, <3>1, <3>3, <1>6, <1>8
    <3> QED
      BY <3>2, <3>3, <1>6
  <2>3. /\ call'[c].allAuth = (call[c].allAuth /\ cause = "auth")
        /\ call[c].allAuth <=> \A i \in 1 .. Len(heard[c]) : heard[c][i].said.status = "auth"
        /\ call[c].allAuth \in BOOLEAN
    <3>1. call'[c].allAuth = (call[c].allAuth /\ cause = "auth")
      BY <1>4
    <3> QED
      BY <1>1, <3>1 DEF Tried
  <2>4. (cause = "auth") <=> heard'[c][Len(heard[c]) + 1].said.status = "auth"
    BY <1>5, <1>6 DEF CauseFits
  <2>5. /\ \A i \in 1 .. Len(heard[c]) + 1 : i \in 1 .. Len(heard[c]) \/ i = Len(heard[c]) + 1
        /\ \A i \in 1 .. Len(heard[c]) : i \in 1 .. Len(heard[c]) + 1
        /\ Len(heard[c]) + 1 \in 1 .. Len(heard[c]) + 1
    BY <1>6
  <2>6. (call[c].allAuth /\ cause = "auth")
          <=> \A i \in 1 .. Len(heard[c]) + 1 : heard'[c][i].said.status = "auth"
    BY <2>3, <2>4, <2>5, <1>6
  <2>7. Len(heard'[c]) = Len(heard[c]) + 1
    BY <1>6
  <2> HIDE DEF Tried
  <2> QED
    BY <2>1, <2>2, <2>3, <2>6, <2>7, <1>10 DEF Tried
<1>12. CallInv(c)'
  BY <1>4, <1>6, <1>11 DEF CallInv
<1> QED
  BY <1>2, <1>3, <1>12, CallKept DEF CallsInv

\* An endpoint that refuses, or is not there.
LEMMA RefuseKeeps ==
  ASSUME Calls!FailoverAssumption, CallsInv, NEW c \in Callers, Calls!Refuse(c)
  PROVE  CallsInv'
<1>1. PICK status \in Calls!Refusals : Calls!Failed(c, status) /\ Calls!Heard(c, Calls!Refusal(status))
  BY DEF Calls!Refuse
<1>2. status \in Causes /\ Calls!Refusal(status) \in Replies /\ CauseFits(status, Calls!Refusal(status))
  BY DEF Calls!Refusals, Causes, Replies, CauseFits, Calls!Refusal
<1> QED
  BY <1>1, <1>2, FailedKeeps DEF Calls!Refuse

\* An endpoint that answers: the batch is done, or an item makes it go on.
LEMMA AnswerKeeps ==
  ASSUME Calls!FailoverAssumption, CallsInv, NEW c \in Callers, Calls!Answer(c)
  PROVE  CallsInv'
<1>1. PICK body \in Calls!Bodies :
        /\ Calls!Heard(c, Calls!Body(body))
        /\ IF Calls!Failing(c, body) = {}
           THEN /\ endpoint' = Head(call[c].todo)
                /\ call' = [call EXCEPT ![c] =
                              [Calls!Idle EXCEPT !.stage = "answered", !.out = Calls!Out(body)]]
           ELSE \E s \in Calls!Failing(c, body) : Calls!Failed(c, body[s])
  BY DEF Calls!Answer
<1>2. /\ Calls!Body(body) \in Replies /\ Calls!Body(body).status = "ok" /\ Calls!Body(body).items = body
      /\ \A s \in Slots : body[s] \in {"result", "error", "pruned", "absent"}
  BY DEF Replies, Calls!Body, Calls!Bodies
<1>3. CASE Calls!Failing(c, body) # {}
  <2>1. PICK s \in Slots : body[s] \in {"error", "pruned"} /\ Calls!Failed(c, body[s])
    BY <1>1, <1>3 DEF Calls!Failing
  <2>2. body[s] \in Causes /\ CauseFits(body[s], Calls!Body(body))
    BY <2>1, <1>2 DEF Causes, CauseFits, Calls!SaidPruned
  <2> QED
    BY <2>1, <2>2, <1>1, <1>2, FailedKeeps DEF Calls!Answer
<1>4. CASE Calls!Failing(c, body) = {}
  <2> DEFINE entry == [from |-> Head(call[c].todo), said |-> Calls!Body(body)]
  <2>1. /\ call[c].todo # <<>> /\ call[c].todo \in Seq(Endpoints)
        /\ heard[c] \in Seq([from : Endpoints, said : Replies])
    BY DEF Calls!Answer, CallsInv, CallInv, Tried
  <2>2. Head(call[c].todo) \in Endpoints
    BY <2>1
  <2>3. entry \in [from : Endpoints, said : Replies] /\ entry.said = Calls!Body(body)
    BY <2>2, <1>2
  <2>4. heard' = [heard EXCEPT ![c] = Append(heard[c], entry)] /\ endpoint' \in Endpoints
    BY <1>1, <1>4, <2>2 DEF Calls!Heard
  <2> HIDE DEF entry
  <2>5. /\ DOMAIN call' = Callers /\ DOMAIN heard' = Callers
        /\ \A d \in Callers \ {c} : call'[d] = call[d] /\ heard'[d] = heard[d]
        /\ heard'[c] = Append(heard[c], entry)
        /\ call'[c] = [stage |-> "answered", todo |-> <<>>, allAuth |-> TRUE, causes |-> <<>>, out |-> Calls!Out(body)]
    BY <1>1, <1>4, <2>4 DEF CallsInv, Calls!Idle
  <2>6. heard'[c] \in Seq([from : Endpoints, said : Replies]) /\ heard'[c][Len(heard'[c])] = entry
    BY <2>1, <2>3, <2>5
  <2>7. WholeAnswer(c)'
    <3>1. ASSUME NEW s \in Slots
          PROVE  IF body[s] = "result" THEN Calls!Out(body)[s] = "result"
                 ELSE Calls!Out(body)[s] = Calls!Undefined /\ (c \in Soft \/ body[s] = "absent")
      BY <1>2, <1>4 DEF Calls!Out, Calls!Failing
    <3> QED
      BY <3>1, <2>3, <2>5, <2>6, <1>2 DEF WholeAnswer
  <2>8. CallInv(c)'
    BY <2>5, <2>6, <2>7 DEF CallInv
  <2> QED
    BY <2>4, <2>5, <2>8, CallKept DEF CallsInv
<1> QED
  BY <1>3, <1>4

\* Every step of the calls.
LEMMA CallsGoOn ==
  ASSUME Calls!FailoverAssumption, CallsInv, [Calls!Next]_(Calls!vars)
  PROVE  CallsInv'
<1>1. CASE UNCHANGED <<endpoint, call, heard>>
  <2>1. ASSUME NEW c \in Callers
        PROVE  CallInv(c)'
    BY <1>1, CallKept DEF CallsInv
  <2> QED
    BY <2>1, <1>1 DEF CallsInv
<1>2. CASE Calls!Next
  BY <1>2, BeginKeeps, RefuseKeeps, AnswerKeeps DEF Calls!Next
<1> QED
  BY <1>1, <1>2 DEF Calls!vars

\* What the invariant says of a batch that is given up, and of one answered.
LEMMA CallsInvIsTrue ==
  ASSUME Calls!FailoverAssumption, CallsInv
  PROVE  CallsAreTrue
<1>1. ASSUME NEW c \in Callers, call[c].stage = "failed"
      PROVE  /\ Len(heard[c]) = Len(ENDPOINTS)
             /\ {heard[c][i].from : i \in DOMAIN heard[c]} = Endpoints
             /\ (Calls!StateFromError(c) = "unauthorized")
                  <=> \A i \in DOMAIN heard[c] : heard[c][i].said.status = "auth"
             /\ Calls!HistoryPruned(c) => \E i \in DOMAIN heard[c] : Calls!SaidPruned(heard[c][i].said)
  <2>1. /\ Tried(c) /\ call[c].todo = <<>> /\ heard[c] \in Seq([from : Endpoints, said : Replies])
        /\ DOMAIN heard[c] = 1 .. Len(heard[c]) /\ Len(heard[c]) \in Nat
    <3>1. CallInv(c)
      BY DEF CallsInv
    <3>2. Tried(c) /\ call[c].todo = <<>> /\ heard[c] \in Seq([from : Endpoints, said : Replies])
      BY <3>1, <1>1 DEF CallInv
    <3> QED
      BY <3>2
  <2>2. PICK k \in DOMAIN ENDPOINTS : AskedInOrder(c, k)
    BY <2>1 DEF Tried
  <2>3. Len(heard[c]) = Len(ENDPOINTS)
    BY <2>1, <2>2 DEF AskedInOrder
  <2>4. \A i \in 1 .. Len(ENDPOINTS) : heard[c][i].from = Calls!First(k)[i] /\ heard[c][i].from \in Endpoints
    <3> TAKE i \in 1 .. Len(ENDPOINTS)
    <3>1. heard[c][i].from \in Endpoints
      <4> DEFINE Heard == [from : Endpoints, said : Replies]
      <4>0. heard[c] \in Seq(Heard) /\ \A h \in Heard : h.from \in Endpoints
        BY <2>1
      <4> HIDE DEF Heard
      <4>1. \A j \in 1 .. Len(heard[c]) : heard[c][j] \in Heard
        BY <4>0
      <4> QED
        BY <4>0, <4>1, <2>3
    <3>2. heard[c][i].from = Calls!First(k)[i]
      BY <2>2, <2>3 DEF AskedInOrder
    <3> QED
      BY <3>1, <3>2
  <2>5. {heard[c][i].from : i \in DOMAIN heard[c]} = Endpoints
    <3> DEFINE from(i) == heard[c][i].from
    <3>1. \A e \in Endpoints : \E i \in 1 .. Len(ENDPOINTS) : from(i) = e
      <4> TAKE e \in Endpoints
      <4>1. PICK i \in 1 .. Len(ENDPOINTS) : Calls!First(k)[i] = e
        BY OrdersAreWhole
      <4>2. heard[c][i].from = e
        BY <2>4, <4>1
      <4> QED
        BY <4>2
    <3>2. \A i \in 1 .. Len(ENDPOINTS) : from(i) \in Endpoints
      BY <2>4
    <3>3. DOMAIN heard[c] = 1 .. Len(ENDPOINTS)
      BY <2>1, <2>3
    <3> HIDE DEF from
    <3>4. {from(i) : i \in DOMAIN heard[c]} = Endpoints
      BY <3>1, <3>2, <3>3
    <3> QED
      BY <3>4 DEF from
  <2>6. (Calls!StateFromError(c) = "unauthorized")
          <=> \A i \in DOMAIN heard[c] : heard[c][i].said.status = "auth"
    BY <2>1 DEF Tried, Calls!StateFromError
  <2>7. Calls!HistoryPruned(c) => \E i \in DOMAIN heard[c] : Calls!SaidPruned(heard[c][i].said)
    BY <2>1 DEF Tried, Calls!HistoryPruned, CauseFits
  <2> QED
    BY <2>3, <2>5, <2>6, <2>7
<1>2. Calls!BlameIsFair
  BY <1>1 DEF Calls!BlameIsFair, Endpoints
<1>3. Calls!AnswerIsWhole
  BY DEF Calls!AnswerIsWhole, CallsInv, CallInv, WholeAnswer
<1> QED
  BY <1>2, <1>3 DEF CallsAreTrue

----------------------------------------------------------------------------
(* The profile check (NetworkWatch), for any thresholds, contracts and      *)
(* firings of the timer.  What carries the reports: one pass at a time, so   *)
(* that what is observed is that pass's own and whole when it is stored; and *)
(* a stored row's misses count the very passes the history counts.           *)

KindOf(id) == IF id \in Tokens THEN "token" ELSE IF id \in Deployed THEN "deployed" ELSE "seen"

OnePassAtATime ==
  /\ DOMAIN phase = Invocations /\ DOMAIN look = Invocations
  /\ \A i \in Invocations : phase[i] # "idle" => running
  /\ \A i, j \in Invocations : phase[i] # "idle" /\ phase[j] # "idle" => i = j

\* What the observation holds is of the pass i, as that pass found it.
ObservedBy(i) ==
  \A id \in DOMAIN observed :
    observed[id] = [kind |-> KindOf(id), facts |-> observed[id].facts,
                    active |-> id \in Tokens => look[i].tokens[id] # "silent"]

PassInv(i) ==
  /\ phase[i] \in {"idle", "endpoints", "tokens", "deployed", "untracked", "report", "queue"}
  /\ phase[i] \notin {"report", "queue"} => look[i] = Profile!Unlooked
  /\ phase[i] \in {"endpoints", "tokens"} => DOMAIN observed = {}
  /\ phase[i] = "deployed" => DOMAIN observed = Tokens
  /\ phase[i] = "untracked" => DOMAIN observed = Tokens \cup Deployed
  /\ phase[i] = "report" => /\ DOMAIN observed = Tokens \cup Deployed \cup look[i].others
                            /\ look[i].others \subseteq Others
  /\ phase[i] \in {"deployed", "untracked", "report"} => ObservedBy(i)

RowsCountMisses ==
  /\ DOMAIN stored \subseteq Profile!Addresses
  /\ \A id \in DOMAIN stored :
       /\ stored[id] = [kind |-> stored[id].kind, facts |-> stored[id].facts,
                        lastSeen |-> stored[id].lastSeen, misses |-> stored[id].misses]
       /\ stored[id].misses \in Nat
  /\ \A t \in Tokens : silent[t] = IF t \in DOMAIN stored THEN stored[t].misses ELSE 0
  /\ \A a \in Others \cap DOMAIN stored : absent[a] = stored[a].misses

PublishedWhole == DOMAIN published = DOMAIN stored /\ Profile!ReportsAccountForTheRecord

WatchRecord ==
  /\ RowsCountMisses
  /\ Profile!SilenceIsReportedWhenItHasRepeated
  /\ PublishedWhole

ProfileInv ==
  /\ OnePassAtATime
  /\ \A i \in Invocations : PassInv(i)
  /\ WatchRecord
  /\ Profile!RememberedIsQueued

\* An empty record, and no pass in hand.
LEMMA ProfileStarts ==
  ASSUME Profile!NetworkWatchAssumption, Profile!Init
  PROVE  ProfileInv
<1>1. MISSES_BEFORE_QUIET \in Nat \ {0}
  BY DEF Profile!NetworkWatchAssumption, Profile!ThresholdAssumption
<1>2. DOMAIN stored = {} /\ DOMAIN published = {} /\ observed = Profile!Empty /\ DOMAIN observed = {}
  BY DEF Profile!Init, Profile!Empty
<1>3. WatchRecord
  <2>1. RowsCountMisses
    BY <1>2 DEF Profile!Init, RowsCountMisses
  <2>2. Profile!SilenceIsReportedWhenItHasRepeated
    BY <1>1, <1>2 DEF Profile!Init, Profile!Addresses, Profile!SilenceIsReportedWhenItHasRepeated
  <2>3. PublishedWhole
    BY <1>2 DEF PublishedWhole, Profile!ReportsAccountForTheRecord
  <2> QED
    BY <2>1, <2>2, <2>3 DEF WatchRecord
<1>4. OnePassAtATime /\ \A i \in Invocations : PassInv(i)
  BY DEF Profile!Init, OnePassAtATime, PassInv
<1>5. Profile!RememberedIsQueued
  BY <1>2 DEF Profile!RememberedIsQueued
<1> QED
  BY <1>3, <1>4, <1>5 DEF ProfileInv

\* A step that stores nothing.
LEMMA RecordKept ==
  ASSUME WatchRecord, UNCHANGED <<stored, silent, absent, told, published>>
  PROVE  WatchRecord'
<1>1. RowsCountMisses'
  BY DEF WatchRecord, RowsCountMisses
<1>2. Profile!SilenceIsReportedWhenItHasRepeated'
  BY DEF WatchRecord, Profile!SilenceIsReportedWhenItHasRepeated
<1>3. PublishedWhole'
  BY DEF WatchRecord, PublishedWhole, Profile!ReportsAccountForTheRecord
<1> QED
  BY <1>1, <1>2, <1>3 DEF WatchRecord

\* The guard of runOnce: while one pass is in hand the others are idle.
LEMMA OnePassGoesOn ==
  ASSUME OnePassAtATime, \A j \in Invocations : PassInv(j), NEW i \in Invocations, NEW next,
         \A j \in Invocations \ {i} : phase[j] = "idle",
         phase' = [phase EXCEPT ![i] = next], next = "idle" \/ running',
         DOMAIN look' = Invocations, \A j \in Invocations \ {i} : look'[j] = look[j],
         PassInv(i)'
  PROVE  OnePassAtATime' /\ (\A j \in Invocations : PassInv(j)')
<1>1. DOMAIN phase' = Invocations /\ phase'[i] = next /\ \A j \in Invocations \ {i} : phase'[j] = "idle"
  BY DEF OnePassAtATime
<1>2. OnePassAtATime'
  BY <1>1 DEF OnePassAtATime
<1>3. ASSUME NEW j \in Invocations \ {i}
      PROVE  PassInv(j)'
  BY <1>1, <1>3 DEF PassInv
<1> QED
  BY <1>2, <1>3

\* EndPass, however the pass came to it.
LEMMA PassEnds ==
  ASSUME OnePassAtATime, \A j \in Invocations : PassInv(j), NEW i \in Invocations,
         phase[i] # "idle", Profile!EndPass(i)
  PROVE  OnePassAtATime' /\ (\A j \in Invocations : PassInv(j)')
<1>1. /\ phase' = [phase EXCEPT ![i] = "idle"] /\ look' = [look EXCEPT ![i] = Profile!Unlooked]
      /\ DOMAIN phase = Invocations /\ DOMAIN look = Invocations
      /\ \A j \in Invocations \ {i} : phase[j] = "idle"
  BY DEF Profile!EndPass, OnePassAtATime
<1>2. PassInv(i)'
  BY <1>1 DEF PassInv
<1>3. DOMAIN look' = Invocations /\ \A j \in Invocations \ {i} : look'[j] = look[j]
  BY <1>1
<1> QED
  BY <1>1, <1>2, <1>3, OnePassGoesOn

\* runOnce: a pass begins with nothing observed.
LEMMA StartKeeps ==
  ASSUME ProfileInv, NEW i \in Invocations, Profile!Start(i)
  PROVE  ProfileInv'
<1>1. /\ phase[i] = "idle" /\ phase' = [phase EXCEPT ![i] = "endpoints"] /\ running' = TRUE /\ look' = look
      /\ DOMAIN observed' = {} /\ \A j \in Invocations : phase[j] = "idle"
  BY DEF Profile!Start, Profile!Empty, ProfileInv, OnePassAtATime
<1>2. PassInv(i)'
  BY <1>1 DEF ProfileInv, OnePassAtATime, PassInv
<1>3. OnePassAtATime' /\ \A j \in Invocations : PassInv(j)'
  BY <1>1, <1>2, OnePassGoesOn DEF ProfileInv, OnePassAtATime
<1>4. WatchRecord' /\ Profile!RememberedIsQueued'
  BY RecordKept DEF Profile!Start, Profile!history, ProfileInv, Profile!RememberedIsQueued
<1> QED
  BY <1>3, <1>4 DEF ProfileInv

\* checkEndpoints: the pass goes on, or ends with nothing stored.
LEMMA CheckEndpointsKeeps ==
  ASSUME ProfileInv, NEW i \in Invocations, Profile!checkEndpoints(i)
  PROVE  ProfileInv'
<1>1. CASE Profile!EndPass(i)
  BY <1>1, PassEnds, RecordKept
     DEF Profile!checkEndpoints, Profile!history, ProfileInv, Profile!RememberedIsQueued
<1>2. CASE ~Profile!EndPass(i)
  <2>1. /\ phase[i] = "endpoints" /\ phase' = [phase EXCEPT ![i] = "tokens"]
        /\ running' = running /\ observed' = observed /\ look' = look
    BY <1>2 DEF Profile!checkEndpoints
  <2>2. PassInv(i)'
    BY <2>1 DEF ProfileInv, OnePassAtATime, PassInv
  <2>3. OnePassAtATime' /\ \A j \in Invocations : PassInv(j)'
    BY <2>1, <2>2, OnePassGoesOn DEF ProfileInv, OnePassAtATime
  <2>4. WatchRecord' /\ Profile!RememberedIsQueued'
    BY RecordKept DEF Profile!checkEndpoints, Profile!history, ProfileInv, Profile!RememberedIsQueued
  <2> QED
    BY <2>3, <2>4 DEF ProfileInv
<1> QED
  BY <1>1, <1>2

\* checkTokens: every tracked token is observed, and taken for active.
LEMMA CheckTokensKeeps ==
  ASSUME ProfileInv, NEW i \in Invocations, Profile!checkTokens(i)
  PROVE  ProfileInv'
<1>1. /\ phase[i] = "tokens" /\ phase' = [phase EXCEPT ![i] = "deployed"]
      /\ running' = running /\ look' = look
  BY DEF Profile!checkTokens
<1>2. DOMAIN observed = {} /\ look[i] = Profile!Unlooked
  BY <1>1 DEF ProfileInv, PassInv
<1>3. PICK refused \in [Tokens -> SUBSET {"code", "decimals", "name"}] :
        observed' = Profile!Over([t \in Tokens |-> Profile!observe("token", Profile!TokenFacts(t, refused[t]))], observed)
  BY DEF Profile!checkTokens
<1>4. /\ DOMAIN observed' = Tokens
      /\ \A t \in Tokens : observed'[t] = Profile!observe("token", Profile!TokenFacts(t, refused[t]))
  BY <1>2, <1>3 DEF Profile!Over
<1>5. ObservedBy(i)'
  <2>1. ASSUME NEW t \in Tokens
        PROVE  observed'[t] = [kind |-> KindOf(t), facts |-> observed'[t].facts,
                               active |-> t \in Tokens => look'[i].tokens[t] # "silent"]
    <3>1. (t \in Tokens => look'[i].tokens[t] # "silent") = TRUE /\ KindOf(t) = "token"
      BY <1>1, <1>2 DEF Profile!Unlooked, KindOf
    <3>2. observed'[t] = [kind |-> "token", facts |-> observed'[t].facts, active |-> TRUE]
      BY <1>4 DEF Profile!observe
    <3> QED
      BY <3>1, <3>2
  <2> QED
    BY <2>1, <1>4 DEF ObservedBy
<1>6. PassInv(i)'
  BY <1>1, <1>2, <1>4, <1>5 DEF ProfileInv, OnePassAtATime, PassInv
<1>7. OnePassAtATime' /\ \A j \in Invocations : PassInv(j)'
  BY <1>1, <1>6, OnePassGoesOn DEF ProfileInv, OnePassAtATime
<1>8. WatchRecord' /\ Profile!RememberedIsQueued'
  BY RecordKept DEF Profile!checkTokens, Profile!history, ProfileInv, Profile!RememberedIsQueued
<1> QED
  BY <1>7, <1>8 DEF ProfileInv

\* checkGateway, checkCctp, checkRegistry: ours are observed whatever was refused.
LEMMA CheckDeployedKeeps ==
  ASSUME Profile!NetworkWatchAssumption, ProfileInv, NEW i \in Invocations, Profile!checkDeployed(i)
  PROVE  ProfileInv'
<1>1. /\ phase[i] = "deployed" /\ phase' = [phase EXCEPT ![i] = "untracked"]
      /\ running' = running /\ look' = look
  BY DEF Profile!checkDeployed
<1>2. DOMAIN observed = Tokens /\ look[i] = Profile!Unlooked /\ ObservedBy(i)
  BY <1>1 DEF ProfileInv, PassInv
<1>3. PICK refused \in SUBSET Deployed :
        observed' = Profile!Over([d \in Deployed |->
                      Profile!observe("deployed", [hasCode |-> chain[d].hasCode /\ d \notin refused])], observed)
  BY DEF Profile!checkDeployed
<1>4. /\ DOMAIN observed' = Tokens \cup Deployed
      /\ \A d \in Deployed : observed'[d] = Profile!observe("deployed", [hasCode |-> chain[d].hasCode /\ d \notin refused])
      /\ \A t \in Tokens : observed'[t] = observed[t] /\ t \notin Deployed
  BY <1>2, <1>3 DEF Profile!Over, Profile!NetworkWatchAssumption
<1>5. ObservedBy(i)'
  <2>1. ASSUME NEW d \in Deployed
        PROVE  observed'[d] = [kind |-> KindOf(d), facts |-> observed'[d].facts,
                               active |-> d \in Tokens => look'[i].tokens[d] # "silent"]
    <3>1. (d \in Tokens => look'[i].tokens[d] # "silent") = TRUE /\ KindOf(d) = "deployed"
      BY DEF Profile!NetworkWatchAssumption, KindOf
    <3>2. observed'[d] = [kind |-> "deployed", facts |-> observed'[d].facts, active |-> TRUE]
      BY <1>4 DEF Profile!observe
    <3> QED
      BY <3>1, <3>2
  <2>2. ASSUME NEW t \in Tokens
        PROVE  observed'[t] = [kind |-> KindOf(t), facts |-> observed'[t].facts,
                               active |-> t \in Tokens => look'[i].tokens[t] # "silent"]
    BY <1>1, <1>2, <1>4 DEF ObservedBy
  <2> QED
    BY <2>1, <2>2, <1>4 DEF ObservedBy
<1>6. PassInv(i)'
  BY <1>1, <1>2, <1>4, <1>5 DEF ProfileInv, OnePassAtATime, PassInv
<1>7. OnePassAtATime' /\ \A j \in Invocations : PassInv(j)'
  BY <1>1, <1>6, OnePassGoesOn DEF ProfileInv, OnePassAtATime
<1>8. WatchRecord' /\ Profile!RememberedIsQueued'
  BY RecordKept DEF Profile!checkDeployed, Profile!history, ProfileInv, Profile!RememberedIsQueued
<1> QED
  BY <1>7, <1>8 DEF ProfileInv

\* checkUntracked with no window read: the tokens stay active.
LEMMA NothingSampledKeeps ==
  ASSUME ProfileInv, NEW i \in Invocations, Profile!NothingSampled(i)
  PROVE  ProfileInv'
<1>1. /\ phase[i] = "untracked" /\ phase' = [phase EXCEPT ![i] = "report"]
      /\ running' = running /\ look' = look /\ observed' = observed
  BY DEF Profile!NothingSampled
<1>2. DOMAIN observed = Tokens \cup Deployed /\ look[i].others = {} /\ ObservedBy(i)
  <2>1. DOMAIN observed = Tokens \cup Deployed /\ look[i] = Profile!Unlooked /\ ObservedBy(i)
    BY <1>1 DEF ProfileInv, PassInv
  <2> QED
    BY <2>1 DEF Profile!Unlooked
<1>3. PassInv(i)'
  BY <1>1, <1>2 DEF ProfileInv, OnePassAtATime, PassInv, ObservedBy
<1>4. OnePassAtATime' /\ \A j \in Invocations : PassInv(j)'
  BY <1>1, <1>3, OnePassGoesOn DEF ProfileInv, OnePassAtATime
<1>5. WatchRecord' /\ Profile!RememberedIsQueued'
  BY RecordKept DEF Profile!NothingSampled, Profile!history, ProfileInv, Profile!RememberedIsQueued
<1> QED
  BY <1>4, <1>5 DEF ProfileInv

\* checkUntracked: the silent tokens and the contracts seen are this pass's own.
LEMMA CheckUntrackedKeeps ==
  ASSUME Profile!NetworkWatchAssumption, ProfileInv, NEW i \in Invocations, Profile!checkUntracked(i)
  PROVE  ProfileInv'
<1>1. /\ phase[i] = "untracked" /\ phase' = [phase EXCEPT ![i] = "report"] /\ running' = running
      /\ DOMAIN look = Invocations
  BY DEF Profile!checkUntracked, ProfileInv, OnePassAtATime
<1>2. DOMAIN observed = Tokens \cup Deployed /\ ObservedBy(i)
  BY <1>1 DEF ProfileInv, PassInv
<1>3. \E known, tokens :
        /\ known \in SUBSET Others
        /\ look' = [look EXCEPT ![i] = [tokens |-> tokens, others |-> known]]
        /\ \E refused \in [Others -> SUBSET {"name"}] :
             observed' = [id \in DOMAIN observed \cup known |->
                IF id \in known THEN Profile!observe("seen", Profile!OtherFacts(id, refused[id]))
                ELSE IF id \in Tokens THEN [observed[id] EXCEPT !.active = look'[i].tokens[id] # "silent"]
                ELSE observed[id]]
  <2>1. PICK sampled \in (SUBSET (Tokens \cup Others)) \ {{}} :
          \E newer, older \in [Tokens \ sampled -> {"moved", "none", "unread"}],
             known \in SUBSET (sampled \cap Others),
             refused \in [Others -> SUBSET {"name"}] :
            /\ emitters' = sampled
            /\ look' = [look EXCEPT ![i] =
                 [tokens |-> [t \in Tokens |-> IF t \in sampled THEN "moved"
                                               ELSE Profile!recentlyMoved(newer[t], older[t])],
                  others |-> known]]
            /\ observed' = [id \in DOMAIN observed \cup known |->
                 IF id \in known THEN Profile!observe("seen", Profile!OtherFacts(id, refused[id]))
                 ELSE IF id \in Tokens THEN [observed[id] EXCEPT !.active = look'[i].tokens[id] # "silent"]
                 ELSE observed[id]]
    BY Zenon DEF Profile!checkUntracked
  <2>2. PICK newer, older \in [Tokens \ sampled -> {"moved", "none", "unread"}],
             known \in SUBSET (sampled \cap Others),
             refused \in [Others -> SUBSET {"name"}] :
            /\ emitters' = sampled
            /\ look' = [look EXCEPT ![i] =
                 [tokens |-> [t \in Tokens |-> IF t \in sampled THEN "moved"
                                               ELSE Profile!recentlyMoved(newer[t], older[t])],
                  others |-> known]]
            /\ observed' = [id \in DOMAIN observed \cup known |->
                 IF id \in known THEN Profile!observe("seen", Profile!OtherFacts(id, refused[id]))
                 ELSE IF id \in Tokens THEN [observed[id] EXCEPT !.active = look'[i].tokens[id] # "silent"]
                 ELSE observed[id]]
    BY <2>1, Zenon
  <2>3. known \in SUBSET Others
    OBVIOUS
  <2> QED
    BY <2>2, <2>3
<1>4. PICK known, tokens :
        /\ known \in SUBSET Others
        /\ look' = [look EXCEPT ![i] = [tokens |-> tokens, others |-> known]]
        /\ \E refused \in [Others -> SUBSET {"name"}] :
             observed' = [id \in DOMAIN observed \cup known |->
                IF id \in known THEN Profile!observe("seen", Profile!OtherFacts(id, refused[id]))
                ELSE IF id \in Tokens THEN [observed[id] EXCEPT !.active = look'[i].tokens[id] # "silent"]
                ELSE observed[id]]
  BY <1>3
<1>5. PICK refused \in [Others -> SUBSET {"name"}] :
        observed' = [id \in DOMAIN observed \cup known |->
           IF id \in known THEN Profile!observe("seen", Profile!OtherFacts(id, refused[id]))
           ELSE IF id \in Tokens THEN [observed[id] EXCEPT !.active = look'[i].tokens[id] # "silent"]
           ELSE observed[id]]
  BY <1>4
<1>6. DOMAIN observed' = Tokens \cup Deployed \cup look'[i].others /\ look'[i].others = known
  BY <1>1, <1>2, <1>4, <1>5
<1>7. ObservedBy(i)'
  <2>1. ASSUME NEW a \in known
        PROVE  observed'[a] = [kind |-> KindOf(a), facts |-> observed'[a].facts,
                               active |-> a \in Tokens => look'[i].tokens[a] # "silent"]
    <3>1. a \notin Tokens /\ a \notin Deployed
      BY <1>4 DEF Profile!NetworkWatchAssumption
    <3>2. observed'[a] = Profile!observe("seen", Profile!OtherFacts(a, refused[a]))
      BY <1>5
    <3>3. observed'[a] = [kind |-> "seen", facts |-> observed'[a].facts, active |-> TRUE]
      BY <3>2 DEF Profile!observe
    <3>4. KindOf(a) = "seen" /\ (a \in Tokens => look'[i].tokens[a] # "silent") = TRUE
      BY <3>1 DEF KindOf
    <3> QED
      BY <3>3, <3>4
  <2>2. ASSUME NEW t \in Tokens
        PROVE  observed'[t] = [kind |-> KindOf(t), facts |-> observed'[t].facts,
                               active |-> t \in Tokens => look'[i].tokens[t] # "silent"]
    <3>1. t \notin known
      BY <1>4 DEF Profile!NetworkWatchAssumption
    <3>2. observed'[t] = [observed[t] EXCEPT !.active = look'[i].tokens[t] # "silent"]
      BY <3>1, <1>2, <1>5
    <3>3. observed[t] = [kind |-> KindOf(t), facts |-> observed[t].facts,
                         active |-> t \in Tokens => look[i].tokens[t] # "silent"]
      BY <1>2 DEF ObservedBy
    <3> QED
      BY <3>2, <3>3
  <2>3. ASSUME NEW d \in Deployed
        PROVE  observed'[d] = [kind |-> KindOf(d), facts |-> observed'[d].facts,
                               active |-> d \in Tokens => look'[i].tokens[d] # "silent"]
    <3>1. d \notin known /\ d \notin Tokens
      BY <1>4 DEF Profile!NetworkWatchAssumption
    <3>2. observed'[d] = observed[d]
      BY <3>1, <1>2, <1>5
    <3> QED
      BY <3>1, <3>2, <1>2 DEF ObservedBy
  <2> QED
    BY <2>1, <2>2, <2>3, <1>6 DEF ObservedBy
<1>8. PassInv(i)'
  BY <1>1, <1>4, <1>6, <1>7 DEF ProfileInv, OnePassAtATime, PassInv
<1>9. DOMAIN look' = Invocations /\ \A j \in Invocations \ {i} : look'[j] = look[j]
  BY <1>1, <1>4
<1>10. OnePassAtATime' /\ \A j \in Invocations : PassInv(j)'
  BY <1>1, <1>8, <1>9, OnePassGoesOn DEF ProfileInv, OnePassAtATime
<1>11. WatchRecord' /\ Profile!RememberedIsQueued'
  BY RecordKept DEF Profile!checkUntracked, Profile!history, ProfileInv, Profile!RememberedIsQueued
<1> QED
  BY <1>10, <1>11 DEF ProfileInv

\* What one check adds to the record: the next row of every subject, by who it
\* is, from a whole observation.
LEMMA RowsGoOn ==
  ASSUME Profile!NetworkWatchAssumption, ProfileInv, NEW i \in Invocations, Profile!Report(i)
  PROVE  /\ DOMAIN stored' = DOMAIN stored \cup DOMAIN observed /\ DOMAIN stored' \subseteq Profile!Addresses
         /\ \A t \in Tokens :
              /\ t \in DOMAIN observed
              /\ Profile!Silent(observed[t]) <=> look[i].tokens[t] = "silent"
         /\ \A id \in DOMAIN observed : id \notin Tokens => ~Profile!Silent(observed[id]) /\ observed[id].active
         /\ Deployed \subseteq DOMAIN observed
         /\ \A id \in DOMAIN stored' :
              stored'[id] = [kind |-> stored'[id].kind, facts |-> stored'[id].facts,
                             lastSeen |-> stored'[id].lastSeen, misses |-> stored'[id].misses]
         /\ \A id \in DOMAIN observed :
              /\ stored'[id].facts = observed[id].facts
              /\ Profile!Silent(observed[id]) =>
                   stored'[id].misses = IF id \in DOMAIN stored THEN stored[id].misses + 1 ELSE 1
              /\ ~Profile!Silent(observed[id]) => stored'[id].misses = 0
         /\ \A id \in DOMAIN stored \ DOMAIN observed :
              stored'[id].facts = stored[id].facts /\ stored'[id].misses = stored[id].misses + 1
<1>1. /\ phase[i] = "report" /\ PassInv(i) /\ RowsCountMisses
      /\ stored' = Profile!rows(stored, observed, passNo')
  BY DEF Profile!Report, Profile!diffObservations, ProfileInv, WatchRecord
<1>2. /\ DOMAIN observed = Tokens \cup Deployed \cup look[i].others /\ look[i].others \subseteq Others
      /\ ObservedBy(i)
  BY <1>1 DEF PassInv
<1>3. /\ DOMAIN stored' = DOMAIN stored \cup DOMAIN observed
      /\ \A id \in DOMAIN stored' :
           stored'[id] = IF id \notin DOMAIN stored THEN Profile!FirstRow(observed[id], passNo')
                         ELSE IF id \in DOMAIN observed THEN Profile!NextRow(stored[id], observed[id], passNo')
                         ELSE Profile!MissedRow(stored[id])
  BY <1>1 DEF Profile!rows
<1>4. DOMAIN stored' \subseteq Profile!Addresses
  BY <1>1, <1>2, <1>3 DEF Profile!Addresses, RowsCountMisses
<1>5. ASSUME NEW id \in DOMAIN observed
      PROVE  /\ observed[id].kind = KindOf(id)
             /\ observed[id].active <=> (id \in Tokens => look[i].tokens[id] # "silent")
             /\ observed[id].active \in BOOLEAN
  <2>1. observed[id] = [kind |-> KindOf(id), facts |-> observed[id].facts,
                        active |-> id \in Tokens => look[i].tokens[id] # "silent"]
    BY <1>2 DEF ObservedBy
  <2> DEFINE awake == id \in Tokens => look[i].tokens[id] # "silent"
  <2>2. observed[id].kind = KindOf(id) /\ observed[id].active = awake
    BY <2>1
  <2>3. awake \in BOOLEAN
    OBVIOUS
  <2> QED
    BY <2>2, <2>3
<1>6. \A t \in Tokens : t \in DOMAIN observed /\ (Profile!Silent(observed[t]) <=> look[i].tokens[t] = "silent")
  BY <1>2, <1>5 DEF Profile!Silent, KindOf
<1>7. \A id \in DOMAIN observed : id \notin Tokens => ~Profile!Silent(observed[id]) /\ observed[id].active
  BY <1>5 DEF Profile!Silent
<1>8. \A id \in DOMAIN observed : Profile!Silent(observed[id]) <=> ~observed[id].active
  BY <1>5, <1>7 DEF Profile!Silent, KindOf
<1>9. \A id \in DOMAIN stored :
        stored[id] = [kind |-> stored[id].kind, facts |-> stored[id].facts,
                      lastSeen |-> stored[id].lastSeen, misses |-> stored[id].misses]
  BY <1>1 DEF RowsCountMisses
<1>10. ASSUME NEW id \in DOMAIN observed
       PROVE  /\ stored'[id] = [kind |-> stored'[id].kind, facts |-> stored'[id].facts,
                                lastSeen |-> stored'[id].lastSeen, misses |-> stored'[id].misses]
              /\ stored'[id].facts = observed[id].facts
              /\ Profile!Silent(observed[id]) =>
                   stored'[id].misses = IF id \in DOMAIN stored THEN stored[id].misses + 1 ELSE 1
              /\ ~Profile!Silent(observed[id]) => stored'[id].misses = 0
  <2>1. Profile!Silent(observed[id]) <=> ~observed[id].active
    BY <1>8
  <2>2. CASE id \notin DOMAIN stored
    <3>1. stored'[id] = Profile!FirstRow(observed[id], passNo')
      BY <2>2, <1>3
    <3> QED
      BY <2>1, <2>2, <3>1 DEF Profile!FirstRow
  <2>3. CASE id \in DOMAIN stored
    <3>1. stored'[id] = Profile!NextRow(stored[id], observed[id], passNo')
      BY <2>3, <1>3
    <3>2. stored[id] = [kind |-> stored[id].kind, facts |-> stored[id].facts,
                        lastSeen |-> stored[id].lastSeen, misses |-> stored[id].misses]
      BY <2>3, <1>9
    <3>3. CASE Profile!Silent(observed[id])
      <4>1. stored'[id] = [stored[id] EXCEPT !.facts = observed[id].facts, !.misses = @ + 1]
        BY <3>1, <3>3 DEF Profile!NextRow
      <4> QED
        BY <4>1, <3>2, <3>3, <2>3
    <3>4. CASE ~Profile!Silent(observed[id])
      <4>1. stored'[id] = [stored[id] EXCEPT !.facts = observed[id].facts, !.lastSeen = passNo', !.misses = 0]
        BY <3>1, <3>4, <2>1 DEF Profile!NextRow
      <4> QED
        BY <4>1, <3>2, <3>4
    <3> QED
      BY <3>3, <3>4
  <2> QED
    BY <2>2, <2>3
<1>11. ASSUME NEW id \in DOMAIN stored \ DOMAIN observed
       PROVE  /\ stored'[id] = [kind |-> stored'[id].kind, facts |-> stored'[id].facts,
                                lastSeen |-> stored'[id].lastSeen, misses |-> stored'[id].misses]
              /\ stored'[id].facts = stored[id].facts /\ stored'[id].misses = stored[id].misses + 1
  <2>1. stored'[id] = [stored[id] EXCEPT !.misses = @ + 1]
    BY <1>3 DEF Profile!MissedRow
  <2>2. stored[id] = [kind |-> stored[id].kind, facts |-> stored[id].facts,
                      lastSeen |-> stored[id].lastSeen, misses |-> stored[id].misses]
    BY <1>9
  <2> QED
    BY <2>1, <2>2
<1> QED
  BY <1>2, <1>3, <1>4, <1>6, <1>7, <1>10, <1>11

\* Who is reported quiet, and who gone.
LEMMA WhoIsReported ==
  ASSUME Profile!NetworkWatchAssumption, ProfileInv, NEW i \in Invocations, Profile!Report(i)
  PROVE  /\ \A id \in Profile!Quiet(stored, observed) :
              id \in Tokens /\ look[i].tokens[id] = "silent" /\ silent[id] + 1 = MISSES_BEFORE_QUIET
         /\ \A t \in Tokens : look[i].tokens[t] = "silent" /\ silent[t] + 1 = MISSES_BEFORE_QUIET
                              => t \in Profile!Quiet(stored, observed)
         /\ \A id \in Profile!Gone(stored, observed) :
              id \in Others /\ id \notin DOMAIN observed /\ absent[id] + 1 = MISSES_BEFORE_GONE
         /\ \A a \in (Others \cap DOMAIN stored) \ DOMAIN observed :
              absent[a] + 1 = MISSES_BEFORE_GONE => a \in Profile!Gone(stored, observed)
<1>1. MISSES_BEFORE_QUIET \in Nat \ {0, 1}
  BY DEF Profile!NetworkWatchAssumption, Profile!ThresholdAssumption
<1>2. RowsCountMisses
  BY DEF ProfileInv, WatchRecord
<1>3. ASSUME NEW id \in Profile!Quiet(stored, observed)
      PROVE  id \in Tokens /\ look[i].tokens[id] = "silent" /\ silent[id] + 1 = MISSES_BEFORE_QUIET
  <2>1. /\ id \in DOMAIN stored \cap DOMAIN observed /\ Profile!Silent(observed[id])
        /\ stored[id].misses + 1 = MISSES_BEFORE_QUIET
    BY DEF Profile!Quiet
  <2>2. id \in Tokens /\ look[i].tokens[id] = "silent"
    BY <2>1, RowsGoOn
  <2> QED
    BY <2>1, <2>2, <1>2 DEF RowsCountMisses
<1>4. ASSUME NEW t \in Tokens, look[i].tokens[t] = "silent", silent[t] + 1 = MISSES_BEFORE_QUIET
      PROVE  t \in Profile!Quiet(stored, observed)
  <2>1. t \in DOMAIN observed /\ Profile!Silent(observed[t])
    BY <1>4, RowsGoOn
  <2>2. t \in DOMAIN stored /\ silent[t] = stored[t].misses
    BY <1>1, <1>2, <1>4 DEF RowsCountMisses
  <2> QED
    BY <2>1, <2>2, <1>4 DEF Profile!Quiet
<1>5. ASSUME NEW id \in Profile!Gone(stored, observed)
      PROVE  id \in Others /\ id \notin DOMAIN observed /\ absent[id] + 1 = MISSES_BEFORE_GONE
  <2>1. /\ id \in DOMAIN stored /\ id \notin DOMAIN observed
        /\ stored[id].misses + 1 = MISSES_BEFORE_GONE
    BY DEF Profile!Gone
  <2>2. id \in Profile!Addresses /\ id \notin Tokens /\ id \notin Deployed
    BY <2>1, <1>2, RowsGoOn DEF RowsCountMisses
  <2>3. id \in Others
    BY <2>2 DEF Profile!Addresses
  <2> QED
    BY <2>1, <2>3, <1>2 DEF RowsCountMisses
<1>6. ASSUME NEW a \in (Others \cap DOMAIN stored) \ DOMAIN observed, absent[a] + 1 = MISSES_BEFORE_GONE
      PROVE  a \in Profile!Gone(stored, observed)
  BY <1>2, <1>6 DEF RowsCountMisses, Profile!Gone
<1> QED
  BY <1>3, <1>4, <1>5, <1>6

\* record: the observation is stored, and the difference reported.
LEMMA ReportKeeps ==
  ASSUME Profile!NetworkWatchAssumption, ProfileInv, NEW i \in Invocations, Profile!Report(i)
  PROVE  ProfileInv'
<1>1. /\ phase[i] = "report" /\ phase' = [phase EXCEPT ![i] = "queue"] /\ running' = running /\ look' = look
      /\ cut' = TRUE
      /\ silent' = [t \in Tokens |-> IF look[i].tokens[t] = "silent" THEN silent[t] + 1 ELSE 0]
      /\ absent' = [a \in Others |-> IF a \in look[i].others THEN 0 ELSE absent[a] + 1]
  BY DEF Profile!Report
<1>2. /\ MISSES_BEFORE_GONE \in Nat \ {0} /\ MISSES_BEFORE_QUIET \in Nat \ {0, 1}
      /\ Tokens \cap Others = {} /\ Deployed \cap Others = {}
  BY DEF Profile!NetworkWatchAssumption, Profile!ThresholdAssumption
<1>3. /\ RowsCountMisses /\ Profile!SilenceIsReportedWhenItHasRepeated /\ PublishedWhole
  BY DEF ProfileInv, WatchRecord
<1>4. DOMAIN observed = Tokens \cup Deployed \cup look[i].others /\ look[i].others \subseteq Others
  BY <1>1 DEF ProfileInv, PassInv
<1>5. /\ \A t \in Tokens : silent[t] \in Nat
      /\ \A a \in Others \cap DOMAIN stored : absent[a] \in Nat
  BY <1>3 DEF RowsCountMisses
<1> DEFINE quiet == Profile!Quiet(stored, observed)
           gone == Profile!Gone(stored, observed)
           changed == Profile!Changed(stored, observed)
<1>6. /\ told' = [a \in Profile!Addresses |->
                    IF a \in quiet THEN "quiet" ELSE IF a \in gone THEN "gone"
                    ELSE IF a \in DOMAIN observed /\ ~Profile!Silent(observed[a]) THEN "here" ELSE told[a]]
      /\ published' = [id \in DOMAIN stored' |->
                         IF id \notin DOMAIN stored \/ id \in changed
                         THEN Profile!identity(observed[id].facts) ELSE published[id]]
  BY DEF Profile!Report, Profile!diffObservations
<1>7. RowsCountMisses'
  <2>1. ASSUME NEW id \in DOMAIN stored'
        PROVE  stored'[id].misses \in Nat
    <3>1. CASE id \in DOMAIN observed
      <4>1. id \in DOMAIN stored => stored[id].misses \in Nat
        BY <1>3 DEF RowsCountMisses
      <4> QED
        BY <4>1, <3>1, RowsGoOn
    <3>2. CASE id \in DOMAIN stored \ DOMAIN observed
      <4>1. stored[id].misses \in Nat
        BY <3>2, <1>3 DEF RowsCountMisses
      <4> QED
        BY <4>1, <3>2, RowsGoOn
    <3> QED
      BY <3>1, <3>2, RowsGoOn
  <2>2. ASSUME NEW t \in Tokens
        PROVE  t \in DOMAIN stored' /\ silent'[t] = stored'[t].misses
    <3>1. /\ t \in DOMAIN observed /\ t \in DOMAIN stored'
          /\ Profile!Silent(observed[t]) <=> look[i].tokens[t] = "silent"
      BY RowsGoOn
    <3>2. CASE Profile!Silent(observed[t])
      <4>1. silent[t] = IF t \in DOMAIN stored THEN stored[t].misses ELSE 0
        BY <1>3 DEF RowsCountMisses
      <4>2. stored'[t].misses = IF t \in DOMAIN stored THEN stored[t].misses + 1 ELSE 1
        BY <3>1, <3>2, RowsGoOn
      <4>3. silent'[t] = silent[t] + 1
        BY <3>1, <3>2, <1>1
      <4> QED
        BY <3>1, <4>1, <4>2, <4>3
    <3>3. CASE ~Profile!Silent(observed[t])
      <4>1. stored'[t].misses = 0
        BY <3>1, <3>3, RowsGoOn
      <4> QED
        BY <3>1, <3>3, <4>1, <1>1
    <3> QED
      BY <3>2, <3>3
  <2>3. ASSUME NEW a \in Others \cap DOMAIN stored'
        PROVE  absent'[a] = stored'[a].misses
    <3>1. a \notin Tokens /\ a \notin Deployed
      BY <1>2
    <3>2. CASE a \in look[i].others
      <4>1. a \in DOMAIN observed /\ ~Profile!Silent(observed[a])
        BY <3>1, <3>2, <1>4, RowsGoOn
      <4>2. stored'[a].misses = 0
        BY <4>1, RowsGoOn
      <4> QED
        BY <3>2, <4>2, <1>1
    <3>3. CASE a \notin look[i].others
      <4>1. a \in DOMAIN stored \ DOMAIN observed
        BY <3>1, <3>3, <1>4, RowsGoOn
      <4>2. stored'[a].misses = stored[a].misses + 1 /\ absent[a] = stored[a].misses
        BY <4>1, <1>3, RowsGoOn DEF RowsCountMisses
      <4> QED
        BY <3>3, <4>2, <1>1
    <3> QED
      BY <3>2, <3>3
  <2> QED
    BY <2>1, <2>2, <2>3, RowsGoOn DEF RowsCountMisses
<1>8. Profile!SilenceIsReportedWhenItHasRepeated'
  <2>1. ASSUME NEW t \in Tokens
        PROVE  (told'[t] = "quiet" <=> silent'[t] >= MISSES_BEFORE_QUIET) /\ told'[t] # "gone"
    <3>1. /\ t \in Profile!Addresses /\ t \notin gone /\ t \in DOMAIN observed /\ silent[t] \in Nat
          /\ told[t] = "quiet" <=> silent[t] >= MISSES_BEFORE_QUIET
          /\ told[t] # "gone"
      BY <1>2, <1>3, <1>4, <1>5, WhoIsReported
         DEF Profile!Addresses, Profile!SilenceIsReportedWhenItHasRepeated
    <3>2. CASE look[i].tokens[t] # "silent"
      <4>1. t \notin quiet /\ ~Profile!Silent(observed[t])
        BY <3>2, WhoIsReported, RowsGoOn
      <4>2. told'[t] = "here" /\ silent'[t] = 0
        BY <3>1, <3>2, <4>1, <1>1, <1>6
      <4> QED
        BY <4>2, <1>2
    <3>3. CASE look[i].tokens[t] = "silent" /\ t \in quiet
      <4>1. told'[t] = "quiet" /\ silent'[t] = MISSES_BEFORE_QUIET
        BY <3>1, <3>3, <1>1, <1>6, WhoIsReported
      <4> QED
        BY <4>1, <1>2
    <3>4. CASE look[i].tokens[t] = "silent" /\ t \notin quiet
      <4>1. silent[t] + 1 # MISSES_BEFORE_QUIET /\ Profile!Silent(observed[t])
        BY <3>4, WhoIsReported, RowsGoOn
      <4>2. told'[t] = told[t] /\ silent'[t] = silent[t] + 1
        BY <3>1, <3>4, <4>1, <1>1, <1>6
      <4>3. (silent[t] + 1 >= MISSES_BEFORE_QUIET) <=> (silent[t] >= MISSES_BEFORE_QUIET)
        BY <3>1, <4>1, <1>2
      <4> QED
        BY <3>1, <4>2, <4>3
    <3> QED
      BY <3>2, <3>3, <3>4
  <2>2. ASSUME NEW a \in Others \cap DOMAIN stored'
        PROVE  told'[a] = "gone" <=> absent'[a] >= MISSES_BEFORE_GONE
    <3>1. a \in Profile!Addresses /\ a \notin Tokens /\ a \notin Deployed /\ a \notin quiet
      BY <1>2, WhoIsReported DEF Profile!Addresses
    <3>2. CASE a \in look[i].others
      <4>1. a \in DOMAIN observed /\ ~Profile!Silent(observed[a]) /\ a \notin gone
        BY <3>1, <3>2, <1>4, RowsGoOn, WhoIsReported
      <4>2. told'[a] = "here" /\ absent'[a] = 0
        BY <3>1, <3>2, <4>1, <1>1, <1>6
      <4> QED
        BY <4>2, <1>2
    <3>3. CASE a \notin look[i].others
      <4>1. a \in (Others \cap DOMAIN stored) \ DOMAIN observed
        BY <3>1, <3>3, <1>4, RowsGoOn
      <4>2. /\ absent[a] \in Nat /\ absent'[a] = absent[a] + 1
            /\ told[a] = "gone" <=> absent[a] >= MISSES_BEFORE_GONE
        BY <3>3, <4>1, <1>1, <1>3, <1>5 DEF Profile!SilenceIsReportedWhenItHasRepeated
      <4>3. CASE a \in gone
        <5>1. told'[a] = "gone" /\ absent[a] + 1 = MISSES_BEFORE_GONE
          BY <3>1, <4>3, <1>6, WhoIsReported
        <5> QED
          BY <4>2, <5>1, <1>2
      <4>4. CASE a \notin gone
        <5>1. told'[a] = told[a] /\ absent[a] + 1 # MISSES_BEFORE_GONE
          BY <3>1, <4>1, <4>4, <1>6, WhoIsReported
        <5> QED
          BY <4>2, <5>1, <1>2
      <4> QED
        BY <4>3, <4>4
    <3> QED
      BY <3>2, <3>3
  <2> QED
    BY <2>1, <2>2 DEF Profile!SilenceIsReportedWhenItHasRepeated
<1>9. PublishedWhole'
  <2>1. ASSUME NEW id \in DOMAIN stored'
        PROVE  published'[id] = Profile!identity(stored'[id].facts)
    <3>1. CASE id \notin DOMAIN stored
      <4>1. id \in DOMAIN observed
        BY <3>1, RowsGoOn
      <4> QED
        BY <3>1, <4>1, <1>6, RowsGoOn
    <3>2. CASE id \in DOMAIN stored /\ id \in changed
      <4>1. id \in DOMAIN observed
        BY <3>2 DEF Profile!Changed
      <4> QED
        BY <3>2, <4>1, <1>6, RowsGoOn
    <3>3. CASE id \in DOMAIN stored /\ id \notin changed
      <4>1. published'[id] = published[id] /\ published[id] = Profile!identity(stored[id].facts)
        BY <3>3, <1>3, <1>6 DEF PublishedWhole, Profile!ReportsAccountForTheRecord
      <4>2. CASE id \in DOMAIN observed
        <5>1. Profile!identity(stored[id].facts) = Profile!identity(observed[id].facts)
          BY <3>3, <4>2 DEF Profile!Changed, Profile!sameIdentity
        <5> QED
          BY <4>1, <4>2, <5>1, RowsGoOn
      <4>3. CASE id \notin DOMAIN observed
        BY <3>3, <4>1, <4>3, RowsGoOn
      <4> QED
        BY <4>2, <4>3
    <3> QED
      BY <3>1, <3>2, <3>3
  <2>2. DOMAIN published' = DOMAIN stored'
    BY <1>6
  <2> HIDE DEF changed
  <2> QED
    BY <2>1, <2>2 DEF PublishedWhole, Profile!ReportsAccountForTheRecord
<1>10. PassInv(i)'
  BY <1>1 DEF ProfileInv, OnePassAtATime, PassInv
<1>11. OnePassAtATime' /\ \A j \in Invocations : PassInv(j)'
  BY <1>1, <1>10, OnePassGoesOn DEF ProfileInv, OnePassAtATime
<1>12. Profile!RememberedIsQueued'
  BY <1>1 DEF Profile!RememberedIsQueued
<1> QED
  BY <1>7, <1>8, <1>9, <1>11, <1>12 DEF ProfileInv, WatchRecord

\* reportChanges: all of the record is queued.
LEMMA QueueKeeps ==
  ASSUME ProfileInv, NEW i \in Invocations, Profile!Queue(i)
  PROVE  ProfileInv'
<1>1. OnePassAtATime' /\ \A j \in Invocations : PassInv(j)'
  BY PassEnds DEF Profile!Queue, ProfileInv
<1>2. WatchRecord'
  BY RecordKept DEF Profile!Queue, Profile!history, ProfileInv
<1>3. Profile!RememberedIsQueued'
  BY DEF Profile!Queue, Profile!RememberedIsQueued
<1> QED
  BY <1>1, <1>2, <1>3 DEF ProfileInv

\* A pass that throws stores nothing.
LEMMA PassThrowsKeeps ==
  ASSUME ProfileInv, NEW i \in Invocations, Profile!PassThrows(i)
  PROVE  ProfileInv'
<1>1. OnePassAtATime' /\ \A j \in Invocations : PassInv(j)'
  BY PassEnds DEF Profile!PassThrows, ProfileInv
<1>2. WatchRecord' /\ Profile!RememberedIsQueued'
  BY RecordKept DEF Profile!PassThrows, Profile!history, ProfileInv, Profile!RememberedIsQueued
<1> QED
  BY <1>1, <1>2 DEF ProfileInv

\* The process dies: the observation and the guard go together.
LEMMA CrashKeeps ==
  ASSUME ProfileInv, Profile!Crash
  PROVE  ProfileInv'
<1>1. OnePassAtATime' /\ \A j \in Invocations : PassInv(j)'
  BY DEF Profile!Crash, OnePassAtATime, PassInv
<1>2. WatchRecord' /\ Profile!RememberedIsQueued'
  BY RecordKept DEF Profile!Crash, Profile!history, ProfileInv, Profile!RememberedIsQueued
<1> QED
  BY <1>1, <1>2 DEF ProfileInv

\* The chain changes, or nothing does.
LEMMA PassRests ==
  ASSUME ProfileInv,
         UNCHANGED <<running, phase, observed, stored, queued, look, silent, absent, told, published, cut>>
  PROVE  ProfileInv'
<1>1. OnePassAtATime'
  BY DEF ProfileInv, OnePassAtATime
<1>2. ASSUME NEW i \in Invocations
      PROVE  PassInv(i)'
  <2>1. ObservedBy(i)' <=> ObservedBy(i)
    BY DEF ObservedBy
  <2> QED
    BY <2>1 DEF ProfileInv, PassInv
<1>3. WatchRecord' /\ Profile!RememberedIsQueued'
  BY RecordKept DEF ProfileInv, Profile!RememberedIsQueued
<1> QED
  BY <1>1, <1>2, <1>3 DEF ProfileInv

\* Every step of the profile check.
LEMMA ProfileGoesOn ==
  ASSUME Profile!NetworkWatchAssumption, ProfileInv, [Profile!Next]_(Profile!vars)
  PROVE  ProfileInv'
<1>1. CASE UNCHANGED Profile!vars
  BY <1>1, PassRests DEF Profile!vars
<1>2. CASE Profile!ChainChanges
  BY <1>2, PassRests DEF Profile!ChainChanges, Profile!history
<1>3. ASSUME NEW i \in Invocations,
             \/ Profile!Start(i) \/ Profile!checkEndpoints(i) \/ Profile!checkTokens(i)
             \/ Profile!checkDeployed(i) \/ Profile!NothingSampled(i) \/ Profile!checkUntracked(i)
             \/ Profile!Report(i) \/ Profile!Queue(i) \/ Profile!PassThrows(i)
      PROVE  ProfileInv'
  BY <1>3, StartKeeps, CheckEndpointsKeeps, CheckTokensKeeps, CheckDeployedKeeps, NothingSampledKeeps,
     CheckUntrackedKeeps, ReportKeeps, QueueKeeps, PassThrowsKeeps
<1> QED
  BY <1>1, <1>2, <1>3, CrashKeeps DEF Profile!Next

\* A report repeats nothing: at the threshold the subject was not yet reported.
LEMMA NothingIsRepeated ==
  ASSUME Profile!NetworkWatchAssumption, ProfileInv, Profile!Next, passNo' # passNo
  PROVE  ~Profile!Repeated(Profile!diffObservations(stored, observed, passNo').events)
<1>1. PICK i \in Invocations : Profile!Report(i)
  BY DEF Profile!Next, Profile!Start, Profile!checkEndpoints, Profile!checkTokens, Profile!checkDeployed,
         Profile!NothingSampled, Profile!checkUntracked, Profile!Queue, Profile!PassThrows, Profile!Crash,
         Profile!ChainChanges
<1>2. /\ MISSES_BEFORE_GONE \in Nat \ {0} /\ MISSES_BEFORE_QUIET \in Nat \ {0, 1}
      /\ RowsCountMisses /\ Profile!SilenceIsReportedWhenItHasRepeated
  BY DEF Profile!NetworkWatchAssumption, Profile!ThresholdAssumption, ProfileInv, WatchRecord
<1>3. ASSUME NEW id \in Profile!Quiet(stored, observed)
      PROVE  told[id] # "quiet"
  <2>1. id \in Tokens /\ silent[id] + 1 = MISSES_BEFORE_QUIET
    BY <1>1, WhoIsReported
  <2>2. silent[id] \in Nat /\ (told[id] = "quiet" <=> silent[id] >= MISSES_BEFORE_QUIET)
    BY <1>2, <2>1 DEF RowsCountMisses, Profile!SilenceIsReportedWhenItHasRepeated
  <2> QED
    BY <2>1, <2>2, <1>2
<1>4. ASSUME NEW id \in Profile!Gone(stored, observed)
      PROVE  told[id] # "gone"
  <2>1. id \in Others \cap DOMAIN stored /\ absent[id] + 1 = MISSES_BEFORE_GONE
    BY <1>1, WhoIsReported DEF Profile!Gone
  <2>2. absent[id] \in Nat /\ (told[id] = "gone" <=> absent[id] >= MISSES_BEFORE_GONE)
    BY <1>2, <2>1 DEF RowsCountMisses, Profile!SilenceIsReportedWhenItHasRepeated
  <2> QED
    BY <2>1, <2>2, <1>2
<1> DEFINE newsOfPass == Profile!diffObservations(stored, observed, passNo').events
<1>5. newsOfPass["quiet"] = Profile!Quiet(stored, observed) /\ newsOfPass["gone"] = Profile!Gone(stored, observed)
  BY DEF Profile!diffObservations
<1> HIDE DEF newsOfPass
<1>6. ~Profile!Repeated(newsOfPass)
  BY <1>3, <1>4, <1>5 DEF Profile!Repeated
<1> QED
  BY <1>6 DEF newsOfPass

----------------------------------------------------------------------------
(* What is published of a record, any record whose transitions are in order. *)

Transitions == [at : Nat, state : States]
InOrder(log) == log \in Seq(Transitions) /\ \A i, j \in 1 .. Len(log) : i <= j => log[i].at <= log[j].at

\* The instant lies in the segment that this transition begins.
InSegment(log, i, t, to, seen) == log[i].at <= t /\ t < SegmentEnd(log, i, to, seen)

\* The instants of the window the record books on a state, and those it books on any.
BookedOn(log, s, from, to, seen) ==
  {t \in from .. to - 1 : \E i \in 1 .. Len(log) : log[i].state = s /\ InSegment(log, i, t, to, seen)}
BookedAtAll(log, from, to, seen) ==
  {t \in from .. to - 1 : \E i \in 1 .. Len(log) : InSegment(log, i, t, to, seen)}

\* No instant lies in two segments.
LEMMA OneSegment ==
  ASSUME NEW log, InOrder(log), NEW to, NEW seen, NEW t \in Int,
         NEW i \in 1 .. Len(log), NEW j \in 1 .. Len(log), InSegment(log, i, t, to, seen), InSegment(log, j, t, to, seen)
  PROVE  i = j
<1>1. ASSUME NEW k \in 1 .. Len(log), NEW l \in 1 .. Len(log), k < l,
             InSegment(log, k, t, to, seen), InSegment(log, l, t, to, seen)
      PROVE  FALSE
  <2>1. k + 1 \in 1 .. Len(log) /\ k + 1 <= l /\ k < Len(log) /\ Len(log) \in Nat
    BY <1>1 DEF InOrder
  <2>2. t < log[k + 1].at /\ log[l].at <= t
    BY <1>1, <2>1 DEF InSegment, SegmentEnd
  <2>3. log[k + 1].at <= log[l].at
    BY <1>1, <2>1 DEF InOrder
  <2>4. log[k + 1] \in Transitions /\ log[l] \in Transitions
    BY <1>1, <2>1 DEF InOrder
  <2>5. log[k + 1].at \in Int /\ log[l].at \in Int
    BY <2>4 DEF Transitions
  <2> QED
    BY <2>2, <2>3, <2>5
<1>2. Len(log) \in Nat
  BY DEF InOrder
<1>3. i \in Int /\ j \in Int /\ (i < j \/ j < i \/ i = j)
  BY <1>2
<1> QED
  BY <1>1, <1>3

\* A set of instants of a window can be counted.
LEMMA WindowsAreFinite ==
  ASSUME NEW from \in Int, NEW to \in Int, NEW S \in SUBSET (from .. to - 1)
  PROVE  IsFiniteSet(S) /\ Cardinality(S) \in Nat
<1>1. to - 1 \in Int
  OBVIOUS
<1>2. IsFiniteSet(from .. to - 1)
  BY <1>1, FS_Interval
<1> QED
  BY <1>2, FS_Subset, FS_CardinalityType

\* Units of different instants are as many as these.
LEMMA UnitsAreInstants ==
  ASSUME NEW U, NEW T, IsFiniteSet(T),
         \A u \in U : u[2] \in T, \A t \in T : \E u \in U : u[2] = t,
         \A u, v \in U : u[2] = v[2] => u = v
  PROVE  IsFiniteSet(U) /\ Cardinality(U) = Cardinality(T)
<1> DEFINE instant == [u \in U |-> u[2]]
<1>2. instant \in Bijection(U, T)
  <2>1. instant \in [U -> T]
    OBVIOUS
  <2>2. \A u, v \in U : instant[u] = instant[v] => u = v
    OBVIOUS
  <2>3. \A t \in T : \E u \in U : instant[u] = t
    OBVIOUS
  <2> HIDE DEF instant
  <2> QED
    BY <2>1, <2>2, <2>3 DEF Bijection, Injection, IsInjective, Surjection
<1>3. IsFiniteSet(U)
  BY <1>2, FS_Injection DEF Bijection
<1>4. ExistsBijection(U, T)
  BY <1>2 DEF ExistsBijection
<1> QED
  BY <1>3, <1>4, FS_Bijection

\* The time on a state is the number of instants booked on it.
LEMMA SpentIsBooked ==
  ASSUME NEW log, InOrder(log), NEW s, NEW from \in Int, NEW to \in Int, NEW seen
  PROVE  /\ IsFiniteSet(BookedOn(log, s, from, to, seen))
         /\ Cardinality(Spent(log, s, from, to, seen)) = Cardinality(BookedOn(log, s, from, to, seen))
<1> DEFINE U == Spent(log, s, from, to, seen)
           T == BookedOn(log, s, from, to, seen)
<1>1. IsFiniteSet(T)
  BY WindowsAreFinite DEF BookedOn
<1>2. \A u \in U : /\ u[1] \in 1 .. Len(log) /\ u[2] \in from .. to - 1 /\ u = <<u[1], u[2]>>
                   /\ log[u[1]].state = s /\ InSegment(log, u[1], u[2], to, seen)
  BY DEF Spent, InSegment
<1>3. \A u \in U : u[2] \in T
  BY <1>2 DEF BookedOn
<1>4. \A t \in T : \E u \in U : u[2] = t
  <2> SUFFICES ASSUME NEW t \in T
               PROVE  \E u \in U : u[2] = t
    OBVIOUS
  <2>1. PICK i \in 1 .. Len(log) : log[i].state = s /\ InSegment(log, i, t, to, seen)
    BY DEF BookedOn
  <2>2. <<i, t>> \in U
    BY <2>1 DEF Spent, InSegment, BookedOn
  <2> QED
    BY <2>2
<1>5. \A u, v \in U : u[2] = v[2] => u = v
  <2> SUFFICES ASSUME NEW u \in U, NEW v \in U, u[2] = v[2]
               PROVE  u = v
    OBVIOUS
  <2>1. u[1] = v[1]
    BY <1>2, OneSegment
  <2> QED
    BY <1>2, <2>1
<1> HIDE DEF U, T
<1>6. Cardinality(U) = Cardinality(T)
  BY <1>1, <1>3, <1>4, <1>5, UnitsAreInstants
<1> QED
  BY <1>1, <1>6 DEF U, T

\* A list of instants has a last one that lies no later than a given one.
LEMMA LatestOf ==
  ASSUME NEW n \in Nat, NEW T \in SUBSET (1 .. n), T # {}
  PROVE  \E t \in T : \A u \in T : u <= t
<1> DEFINE fromEnd == {n - t : t \in T}
<1>1. fromEnd \subseteq Nat /\ fromEnd # {}
  <2>1. \A t \in T : t \in 1 .. n
    OBVIOUS
  <2>2. \A t \in 1 .. n : n - t \in Nat
    OBVIOUS
  <2>3. \A t \in T : n - t \in Nat
    BY <2>1, <2>2
  <2> QED
    BY <2>3
<1>2. PICK least \in fromEnd : \A other \in fromEnd : <<other, least>> \notin OpToRel(<, Nat)
  <2> HIDE DEF fromEnd
  <2> QED
    BY <1>1, NatLessThanWellFounded, WFMin
<1>3. \A other \in fromEnd : ~(other < least)
  BY <1>1, <1>2 DEF OpToRel
<1>4. PICK t \in T : least = n - t
  BY <1>2
<1>5. \A u \in T : u <= t
  <2> TAKE u \in T
  <2>1. n - u \in fromEnd
    OBVIOUS
  <2>2. ~(n - u < n - t)
    BY <2>1, <1>3, <1>4
  <2>3. u \in Nat /\ t \in Nat
    OBVIOUS
  <2> QED
    BY <2>2, <2>3
<1> QED
  BY <1>5

\* How far the log reaches: a watermark not behind its last transition, nor ahead of the window.
Reaches(log, seen, to) == log # <<>> /\ seen \in Nat /\ log[Len(log)].at <= seen /\ seen <= to

\* A log that tells something tells it so far.
Readable(log, seen, to) == log = <<>> \/ Reaches(log, seen, to)

\* The entries of a log are transitions: an instant and a state of the verdict table.
LEMMA LogEntries ==
  ASSUME NEW log, InOrder(log)
  PROVE  /\ Len(log) \in Nat /\ (log # <<>> => Len(log) >= 1)
         /\ \A i \in 1 .. Len(log) : log[i].at \in Nat /\ log[i].state \in States
<1>1. Len(log) \in Nat /\ \A i \in 1 .. Len(log) : log[i] \in Transitions
  BY DEF InOrder
<1>2. log # <<>> => Len(log) >= 1
  BY <1>1, EmptySeq DEF InOrder
<1> QED
  BY <1>1, <1>2 DEF Transitions

\* Every instant from the first transition to the watermark lies in a segment, and no other does.
LEMMA SegmentsCover ==
  ASSUME NEW log, InOrder(log), NEW to \in Int, NEW seen, Reaches(log, seen, to), NEW t \in Int
  PROVE  (\E i \in 1 .. Len(log) : InSegment(log, i, t, to, seen)) <=> log[1].at <= t /\ t < seen
<1>1. /\ Len(log) \in Nat /\ Len(log) >= 1 /\ seen \in Nat /\ seen <= to /\ log[Len(log)].at <= seen
      /\ \A i \in 1 .. Len(log) : log[i].at \in Nat
      /\ \A i, j \in 1 .. Len(log) : i <= j => log[i].at <= log[j].at
  BY LogEntries DEF Reaches, InOrder
<1>2. /\ SegmentEnd(log, Len(log), to, seen) = seen
      /\ \A i \in 1 .. Len(log) : i < Len(log) => SegmentEnd(log, i, to, seen) = log[i + 1].at
  BY <1>1 DEF SegmentEnd, Lesser, None
<1>3. ASSUME NEW i \in 1 .. Len(log), InSegment(log, i, t, to, seen)
      PROVE  log[1].at <= t /\ t < seen
  <2>1. log[1].at <= log[i].at /\ log[i].at <= t /\ log[1].at \in Nat /\ log[i].at \in Nat
    BY <1>1, <1>3 DEF InSegment
  <2>2. CASE i = Len(log)
    BY <1>1, <1>2, <1>3, <2>1, <2>2 DEF InSegment
  <2>3. CASE i < Len(log)
    <3>1. t < log[i + 1].at /\ i + 1 \in 1 .. Len(log)
      BY <1>1, <1>2, <1>3, <2>3 DEF InSegment
    <3>2. log[i + 1].at <= log[Len(log)].at /\ log[i + 1].at \in Nat /\ log[Len(log)].at \in Nat
      BY <1>1, <3>1
    <3>3. log[Len(log)].at <= seen /\ seen \in Nat
      BY <1>1
    <3>4. t < seen
      BY <3>1, <3>2, <3>3
    <3> QED
      BY <2>1, <3>4
  <2> QED
    BY <1>1, <2>2, <2>3
<1>4. ASSUME log[1].at <= t, t < seen
      PROVE  \E i \in 1 .. Len(log) : InSegment(log, i, t, to, seen)
  <2> DEFINE begun == {i \in 1 .. Len(log) : log[i].at <= t}
  <2>1. begun \in SUBSET (1 .. Len(log)) /\ begun # {}
    BY <1>1, <1>4
  <2>2. PICK i \in begun : \A j \in begun : j <= i
    BY <1>1, <2>1, LatestOf
  <2>3. CASE i = Len(log)
    BY <1>1, <1>2, <1>4, <2>3 DEF InSegment
  <2>4. CASE i < Len(log)
    <3>1. i + 1 \in 1 .. Len(log) /\ i + 1 \notin begun
      BY <1>1, <2>2, <2>4
    <3>2. t < log[i + 1].at
      BY <1>1, <3>1
    <3> QED
      BY <1>1, <1>2, <2>4, <3>2 DEF InSegment
  <2> QED
    BY <1>1, <2>3, <2>4
<1> QED
  BY <1>3, <1>4

\* So many instants of the window are booked at all.
LEMMA BookedInAll ==
  ASSUME NEW log, InOrder(log), NEW from \in Nat, NEW to \in Nat, from <= to, NEW seen, Reaches(log, seen, to)
  PROVE  /\ IsFiniteSet(BookedAtAll(log, from, to, seen))
         /\ Cardinality(BookedAtAll(log, from, to, seen)) + Uncovered(log, from, to, seen) = to - from
<1>1. /\ log[1].at \in Nat /\ seen \in Nat /\ seen <= to /\ log[1].at <= seen /\ Len(log) >= 1 /\ Len(log) \in Nat
  <2>1. /\ Len(log) \in Nat /\ Len(log) >= 1 /\ seen \in Nat /\ seen <= to /\ log[Len(log)].at <= seen
        /\ \A i \in 1 .. Len(log) : log[i].at \in Nat
        /\ \A i, j \in 1 .. Len(log) : i <= j => log[i].at <= log[j].at
    BY LogEntries DEF Reaches, InOrder
  <2>2. log[1].at <= log[Len(log)].at /\ log[1].at \in Nat /\ log[Len(log)].at \in Nat
    BY <2>1
  <2> QED
    BY <2>1, <2>2
<1>2. BookedAtAll(log, from, to, seen) = Greater(from, log[1].at) .. (seen - 1)
  <2>1. \A t \in Int : t \in BookedAtAll(log, from, to, seen) <=> t \in from .. to - 1 /\ log[1].at <= t /\ t < seen
    BY SegmentsCover DEF BookedAtAll
  <2>2. \A t \in Int : t \in Greater(from, log[1].at) .. (seen - 1) <=> t \in from .. to - 1 /\ log[1].at <= t /\ t < seen
    BY <1>1 DEF Greater
  <2>3. BookedAtAll(log, from, to, seen) \subseteq Int /\ Greater(from, log[1].at) .. (seen - 1) \subseteq Int
    BY DEF BookedAtAll
  <2> QED
    BY <2>1, <2>2, <2>3
<1>3. /\ IsFiniteSet(BookedAtAll(log, from, to, seen))
      /\ Cardinality(BookedAtAll(log, from, to, seen)) =
           IF Greater(from, log[1].at) > seen - 1 THEN 0 ELSE (seen - 1) - Greater(from, log[1].at) + 1
  <2>1. Greater(from, log[1].at) \in Int /\ seen - 1 \in Int
    BY <1>1 DEF Greater
  <2> QED
    BY <1>2, <2>1, FS_Interval
<1>4. SegmentEnd(log, Len(log), to, seen) = seen
  BY <1>1 DEF SegmentEnd, Lesser, None
<1>5. Uncovered(log, from, to, seen) = Clip(from, log[1].at, from, to) + Clip(Lesser(to, seen), to, from, to)
  BY <1>4 DEF Uncovered, Reaches
<1>6. CASE from <= log[1].at
  <2>1. Greater(from, log[1].at) = log[1].at /\ Lesser(to, seen) = seen
    BY <1>1, <1>6 DEF Greater, Lesser
  <2>2. Clip(from, log[1].at, from, to) = log[1].at - from /\ Clip(seen, to, from, to) = to - seen
    BY <1>1, <1>6 DEF Clip, Lesser, Greater
  <2>3. Cardinality(BookedAtAll(log, from, to, seen)) = seen - log[1].at
    BY <1>1, <1>3, <2>1
  <2> QED
    BY <1>1, <1>3, <1>5, <2>1, <2>2, <2>3
<1>7. CASE log[1].at < from /\ from <= seen
  <2>1. Greater(from, log[1].at) = from /\ Lesser(to, seen) = seen
    BY <1>1, <1>7 DEF Greater, Lesser
  <2>2. Clip(from, log[1].at, from, to) = 0 /\ Clip(seen, to, from, to) = to - seen
    BY <1>1, <1>7 DEF Clip, Lesser, Greater
  <2>3. Cardinality(BookedAtAll(log, from, to, seen)) = seen - from
    BY <1>1, <1>3, <1>7, <2>1
  <2> QED
    BY <1>1, <1>3, <1>5, <2>1, <2>2, <2>3
<1>8. CASE seen < from
  <2>1. Greater(from, log[1].at) = from /\ Lesser(to, seen) = seen
    BY <1>1, <1>8 DEF Greater, Lesser
  <2>2. Clip(from, log[1].at, from, to) = 0 /\ Clip(seen, to, from, to) = to - from
    BY <1>1, <1>8 DEF Clip, Lesser, Greater
  <2>3. Cardinality(BookedAtAll(log, from, to, seen)) = 0
    BY <1>1, <1>3, <1>8, <2>1
  <2> QED
    BY <1>1, <1>3, <1>5, <2>1, <2>2, <2>3
<1> QED
  BY <1>1, <1>6, <1>7, <1>8

\* Sets without a common element are counted one after the other.
LEMMA DisjointSum ==
  ASSUME NEW A, NEW B, IsFiniteSet(A), IsFiniteSet(B), A \cap B = {}
  PROVE  IsFiniteSet(A \cup B) /\ Cardinality(A \cup B) = Cardinality(A) + Cardinality(B)
<1>1. Cardinality(A) \in Nat /\ Cardinality(B) \in Nat /\ Cardinality(A \cap B) = 0
  BY FS_CardinalityType, FS_EmptySet
<1>2. IsFiniteSet(A \cup B) /\ Cardinality(A \cup B) = Cardinality(A) + Cardinality(B) - Cardinality(A \cap B)
  BY FS_Union
<1> QED
  BY <1>1, <1>2

\* The five states share out the instants booked at all.
LEMMA SharedOut ==
  ASSUME NEW log, InOrder(log), NEW from \in Int, NEW to \in Int, NEW seen
  PROVE  LET on(s) == Cardinality(BookedOn(log, s, from, to, seen))
         IN  on("live") + on("halted") + on("unreachable") + on("unauthorized") + on("unobserved")
               = Cardinality(BookedAtAll(log, from, to, seen))
<1> DEFINE B(s) == BookedOn(log, s, from, to, seen)
<1>1. \A s \in States : IsFiniteSet(B(s)) /\ Cardinality(B(s)) \in Nat
  BY WindowsAreFinite DEF BookedOn
<1>2. \A s, r \in States : s # r => B(s) \cap B(r) = {}
  <2> SUFFICES ASSUME NEW s \in States, NEW r \in States, s # r, NEW t \in B(s) \cap B(r)
               PROVE  FALSE
    OBVIOUS
  <2>1. PICK i \in 1 .. Len(log) : log[i].state = s /\ InSegment(log, i, t, to, seen)
    BY DEF BookedOn
  <2>2. PICK j \in 1 .. Len(log) : log[j].state = r /\ InSegment(log, j, t, to, seen)
    BY DEF BookedOn
  <2>3. t \in Int
    BY DEF BookedOn
  <2>4. i = j
    BY <2>1, <2>2, <2>3, OneSegment
  <2> QED
    BY <2>1, <2>2, <2>4
<1>3. States = {"live", "halted", "unreachable", "unauthorized", "unobserved"}
  BY DEF States, Verdict
<1>4. BookedAtAll(log, from, to, seen) = (((B("live") \cup B("halted")) \cup B("unreachable")) \cup B("unauthorized")) \cup B("unobserved")
  <2>1. \A i \in 1 .. Len(log) : log[i].state \in {"live", "halted", "unreachable", "unauthorized", "unobserved"}
    BY <1>3, LogEntries
  <2>2. ASSUME NEW t \in BookedAtAll(log, from, to, seen)
        PROVE  t \in (((B("live") \cup B("halted")) \cup B("unreachable")) \cup B("unauthorized")) \cup B("unobserved")
    <3>1. PICK i \in 1 .. Len(log) : InSegment(log, i, t, to, seen)
      BY <2>2 DEF BookedAtAll
    <3>2. t \in B(log[i].state)
      BY <2>2, <3>1 DEF BookedOn, BookedAtAll
    <3> QED
      BY <2>1, <3>2
  <2>3. \A s : B(s) \subseteq BookedAtAll(log, from, to, seen)
    BY DEF BookedOn, BookedAtAll
  <2> HIDE DEF B
  <2> QED
    BY <2>2, <2>3
<1> HIDE DEF B
<1>5. /\ IsFiniteSet(B("live")) /\ IsFiniteSet(B("halted")) /\ IsFiniteSet(B("unreachable"))
      /\ IsFiniteSet(B("unauthorized")) /\ IsFiniteSet(B("unobserved"))
  BY <1>1, <1>3
<1> DEFINE B2 == B("live") \cup B("halted")
           B3 == B2 \cup B("unreachable")
           B4 == B3 \cup B("unauthorized")
<1>6. /\ B("live") \cap B("halted") = {} /\ B2 \cap B("unreachable") = {} /\ B3 \cap B("unauthorized") = {}
      /\ B4 \cap B("unobserved") = {}
  BY <1>2, <1>3
<1>7. IsFiniteSet(B2) /\ Cardinality(B2) = Cardinality(B("live")) + Cardinality(B("halted"))
  BY <1>5, <1>6, DisjointSum
<1>8. IsFiniteSet(B3) /\ Cardinality(B3) = Cardinality(B2) + Cardinality(B("unreachable"))
  <2> HIDE DEF B2
  <2> QED
    BY <1>5, <1>6, <1>7, DisjointSum
<1>9. IsFiniteSet(B4) /\ Cardinality(B4) = Cardinality(B3) + Cardinality(B("unauthorized"))
  <2> HIDE DEF B3
  <2> QED
    BY <1>5, <1>6, <1>8, DisjointSum
<1>10. Cardinality(B4 \cup B("unobserved")) = Cardinality(B4) + Cardinality(B("unobserved"))
  <2> HIDE DEF B4
  <2> QED
    BY <1>5, <1>6, <1>9, DisjointSum
<1>11. BookedAtAll(log, from, to, seen) = B4 \cup B("unobserved")
  BY <1>4
<1>12. Cardinality(B("live")) + Cardinality(B("halted")) + Cardinality(B("unreachable")) + Cardinality(B("unauthorized")) + Cardinality(B("unobserved"))
         = Cardinality(BookedAtAll(log, from, to, seen))
  <2> HIDE DEF B2, B3, B4
  <2> QED
    BY <1>7, <1>8, <1>9, <1>10, <1>11
<1> QED
  BY <1>12 DEF B

\* Every instant of a window is booked exactly once, on a state or on nobody's watch.
LEMMA BookedOnce ==
  ASSUME NEW log, InOrder(log), NEW from \in Nat, NEW to \in Nat, from <= to, NEW seen, Readable(log, seen, to)
  PROVE  Booked(UptimeFrom(log, from, to, seen)) = to - from
<1> DEFINE on(s) == Cardinality(BookedOn(log, s, from, to, seen))
           un == Uncovered(log, from, to, seen)
<1>1. \A s \in States : UptimeFrom(log, from, to, seen)[s] = on(s) + IF s = "unobserved" THEN un ELSE 0
  BY SpentIsBooked DEF UptimeFrom
<1>2. \A s \in States : on(s) \in Nat
  <2>1. \A s \in States : BookedOn(log, s, from, to, seen) \in SUBSET (from .. to - 1)
    BY DEF BookedOn
  <2>2. from \in Int /\ to \in Int
    OBVIOUS
  <2> QED
    BY <2>1, <2>2, WindowsAreFinite
<1>3. on("live") + on("halted") + on("unreachable") + on("unauthorized") + on("unobserved") = Cardinality(BookedAtAll(log, from, to, seen))
  BY SharedOut
<1>4. Cardinality(BookedAtAll(log, from, to, seen)) + un = to - from
  <2>1. CASE Reaches(log, seen, to)
    BY <2>1, BookedInAll
  <2>2. CASE log = <<>>
    <3>1. BookedAtAll(log, from, to, seen) = {}
      BY <2>2 DEF BookedAtAll
    <3>2. un = to - from
      BY <2>2 DEF Uncovered
    <3> QED
      BY <3>1, <3>2, FS_EmptySet
  <2> QED
    BY <2>1, <2>2 DEF Readable
<1>5. un \in Int
  <2>1. CASE log = <<>>
    BY <2>1 DEF Uncovered
  <2>2. CASE log # <<>>
    <3>1. /\ seen \in Nat /\ Len(log) \in Nat /\ log[1].at \in Nat
          /\ SegmentEnd(log, Len(log), to, seen) = Lesser(to, seen)
      BY <2>2, LogEntries DEF SegmentEnd, None, Reaches, Readable
    <3>2. \A a, b, c, d \in Int : Clip(a, b, c, d) \in Nat
      BY DEF Clip, Greater, Lesser
    <3> DEFINE end == Lesser(to, Lesser(to, seen))
    <3>3. end \in Int /\ to \in Int /\ from \in Int
      BY <3>1 DEF Lesser
    <3>4. un = Clip(from, log[1].at, from, to) + Clip(end, to, from, to)
      BY <2>2, <3>1 DEF Uncovered, un
    <3> HIDE DEF un, end
    <3>5. Clip(from, log[1].at, from, to) \in Nat
      BY <3>1, <3>2
    <3>6. Clip(end, to, from, to) \in Nat
      BY <3>2, <3>3
    <3> QED
      BY <3>4, <3>5, <3>6
  <2> QED
    BY <2>1, <2>2
<1> HIDE DEF on, un
<1> QED
  BY <1>1, <1>2, <1>3, <1>4, <1>5 DEF Booked, States, Verdict

\* The list of incidents books what the record books, on every state but live and unobserved.
LEMMA IncidentsAgree ==
  ASSUME NEW log, InOrder(log), NEW from \in Nat, NEW to \in Nat, to - 1 <= MaxTime, MaxTime \in Nat,
         NEW seen, Readable(log, seen, to), NEW gap, NEW s \in Observable, s # "live"
  PROVE  Listed(Incidents(log, from, to, seen, gap), s) = Cardinality(BookedOn(log, s, from, to, seen))
<1> DEFINE X == Incidents(log, from, to, seen, gap)
           T == BookedOn(log, s, from, to, seen)
           U == {u \in X \X Time : u[1].state = s /\ u[1].from <= u[2] /\ u[2] < u[1].to}
           End(i) == Lesser(SegmentEnd(log, i, to, seen), to)
           Start(i) == Greater(log[i].at, from)
           Row(i) == [state |-> log[i].state, from |-> Start(i), to |-> End(i), row |-> i]
<1>0. s # "live" /\ s # "unobserved"
  BY DEF Observable
<1>1. \A i \in 1 .. Len(log) : log[i].at \in Int /\ SegmentEnd(log, i, to, seen) \in Int
  <2> SUFFICES ASSUME NEW i \in 1 .. Len(log)
               PROVE  log[i].at \in Int /\ SegmentEnd(log, i, to, seen) \in Int
    OBVIOUS
  <2>1. Len(log) \in Nat /\ \A j \in 1 .. Len(log) : log[j].at \in Nat
    BY LogEntries
  <2>2. log # <<>>
    BY <2>1
  <2>3. seen \in Nat
    BY <2>2 DEF Reaches, Readable
  <2> QED
    BY <2>1, <2>3 DEF SegmentEnd, Lesser
<1>2. \A i \in 1 .. Len(log), t \in Int :
        Start(i) <= t /\ t < End(i) <=> t \in from .. to - 1 /\ InSegment(log, i, t, to, seen)
  BY <1>1 DEF InSegment, Greater, Lesser
<1>3. \A x \in X : \E i \in 1 .. Len(log) : x = Row(i)
  BY DEF Incidents
<1>4. \A i \in 1 .. Len(log), t \in Int : log[i].state = s /\ Start(i) <= t /\ t < End(i) => Row(i) \in X
  <2> SUFFICES ASSUME NEW i \in 1 .. Len(log), NEW t \in Int, log[i].state = s, Start(i) <= t, t < End(i)
               PROVE  Row(i) \in X
    OBVIOUS
  <2>1. End(i) > Start(i)
    BY <1>1 DEF Lesser, Greater
  <2> QED
    BY <1>0, <2>1 DEF Incidents
<1>5. IsFiniteSet(T)
  <2>1. T \in SUBSET (from .. to - 1)
    BY DEF BookedOn
  <2>2. from \in Int /\ to \in Int
    OBVIOUS
  <2> QED
    BY <2>1, <2>2, WindowsAreFinite
<1> HIDE DEF X, Start, End
<1>6. \A u \in U : \E i \in 1 .. Len(log) :
        u = <<Row(i), u[2]>> /\ u[2] \in Int /\ log[i].state = s /\ u[2] \in from .. to - 1 /\ InSegment(log, i, u[2], to, seen)
  <2> SUFFICES ASSUME NEW x \in X, NEW t \in Time, x.state = s, x.from <= t, t < x.to
               PROVE  \E i \in 1 .. Len(log) : /\ <<x, t>> = <<Row(i), t>> /\ t \in Int /\ log[i].state = s
                                                /\ t \in from .. to - 1 /\ InSegment(log, i, t, to, seen)
    OBVIOUS
  <2>1. PICK i \in 1 .. Len(log) : x = Row(i)
    BY <1>3
  <2>2. log[i].state = s /\ Start(i) <= t /\ t < End(i) /\ t \in Int
    BY <2>1 DEF Time
  <2> QED
    BY <1>2, <2>1, <2>2
<1>7. \A u \in U : u[2] \in T
  BY <1>6 DEF BookedOn
<1>8. \A t \in T : \E u \in U : u[2] = t
  <2> SUFFICES ASSUME NEW t \in T
               PROVE  \E u \in U : u[2] = t
    OBVIOUS
  <2>1. t \in from .. to - 1 /\ t \in Int /\ t \in Time
    BY DEF BookedOn, Time
  <2>2. PICK i \in 1 .. Len(log) : log[i].state = s /\ InSegment(log, i, t, to, seen)
    BY DEF BookedOn
  <2>3. Start(i) <= t /\ t < End(i)
    BY <1>2, <2>1, <2>2
  <2>4. <<Row(i), t>> \in U
    BY <1>4, <2>1, <2>2, <2>3
  <2> QED
    BY <2>4
<1>9. \A u, v \in U : u[2] = v[2] => u = v
  <2> SUFFICES ASSUME NEW u \in U, NEW v \in U, u[2] = v[2]
               PROVE  u = v
    OBVIOUS
  <2>1. PICK i \in 1 .. Len(log) : u = <<Row(i), u[2]>> /\ u[2] \in Int /\ InSegment(log, i, u[2], to, seen)
    BY <1>6
  <2>2. PICK j \in 1 .. Len(log) : v = <<Row(j), v[2]>> /\ InSegment(log, j, v[2], to, seen)
    BY <1>6
  <2>3. i = j
    BY <2>1, <2>2, OneSegment
  <2> QED
    BY <2>1, <2>2, <2>3
<1> HIDE DEF U, T
<1>10. Cardinality(U) = Cardinality(T)
  BY <1>5, <1>7, <1>8, <1>9, UnitsAreInstants
<1> QED
  BY <1>10 DEF U, T, X, Listed

----------------------------------------------------------------------------
(* The window of the record: what it leaves out lies before it.             *)

\* chainEventsSince: what it leaves out ended before the window.
LEMMA WindowOfTheLog ==
  ASSUME InOrder(events), events # <<>>, NEW from \in Nat
  PROVE  /\ FirstSince(from) \in 1 .. Len(events)
         /\ \A i \in 1 .. Len(events) : i < FirstSince(from) => events[i + 1].at < from
<1> DEFINE before == {i \in 1 .. Len(events) : events[i].at < from}
<1>1. Len(events) \in Nat /\ Len(events) >= 1 /\ \A i \in 1 .. Len(events) : events[i].at \in Nat
  BY LogEntries
<1>2. CASE before = {}
  BY <1>1, <1>2 DEF FirstSince
<1>3. CASE before # {}
  <2>1. \E t \in before : \A u \in before : u <= t
    BY <1>1, <1>3, LatestOf
  <2>2. FirstSince(from) = CHOOSE i \in before : \A j \in before : j <= i
    BY <1>3 DEF FirstSince
  <2>3. FirstSince(from) \in before /\ \A j \in before : j <= FirstSince(from)
    BY <2>1, <2>2
  <2>4. ASSUME NEW i \in 1 .. Len(events), i < FirstSince(from)
        PROVE  events[i + 1].at < from
    <3>1. i + 1 \in 1 .. Len(events) /\ i + 1 <= FirstSince(from)
      BY <1>1, <2>3, <2>4
    <3>2. events[i + 1].at <= events[FirstSince(from)].at /\ events[FirstSince(from)].at < from
      BY <2>3, <3>1 DEF InOrder
    <3>3. events[i + 1].at \in Nat /\ events[FirstSince(from)].at \in Nat
      BY <1>1, <2>3, <3>1
    <3> QED
      BY <3>2, <3>3
  <2> QED
    BY <2>3, <2>4
<1> QED
  BY <1>2, <1>3

\* chainEventsSince: the window's transitions are the record's last ones, in order.
LEMMA SinceIsAWindow ==
  ASSUME InOrder(events), NEW from \in Nat
  PROVE  /\ InOrder(EventsSince(from))
         /\ events = <<>> => EventsSince(from) = <<>>
         /\ events # <<>> =>
              /\ EventsSince(from) # <<>> /\ Len(EventsSince(from)) = Len(events) - FirstSince(from) + 1
              /\ \A i \in 1 .. Len(EventsSince(from)) : EventsSince(from)[i] = events[FirstSince(from) + i - 1]
<1> DEFINE log == EventsSince(from)
           b == FirstSince(from)
<1>1. CASE events = <<>>
  <2>1. b = 1
    BY <1>1 DEF FirstSince
  <2>2. log = <<>>
    BY <1>1, <2>1 DEF EventsSince
  <2> QED
    BY <1>1, <2>2 DEF InOrder
<1>2. CASE events # <<>>
  <2>1. b \in 1 .. Len(events) /\ Len(events) \in Nat
    BY <1>2, WindowOfTheLog, LogEntries
  <2>2. log = SubSeq(events, b, Len(events)) /\ events \in Seq(Transitions)
    BY DEF EventsSince, InOrder
  <2> HIDE DEF b, log
  <2>3. /\ log \in Seq(Transitions) /\ Len(log) = Len(events) - b + 1
        /\ \A i \in 1 .. Len(log) : log[i] = events[b + i - 1]
    BY <2>1, <2>2, SubSeqProperties
  <2>4. \A i, j \in 1 .. Len(log) : i <= j => log[i].at <= log[j].at
    <3> SUFFICES ASSUME NEW i \in 1 .. Len(log), NEW j \in 1 .. Len(log), i <= j
                 PROVE  log[i].at <= log[j].at
      OBVIOUS
    <3>1. b + i - 1 \in 1 .. Len(events) /\ b + j - 1 \in 1 .. Len(events) /\ b + i - 1 <= b + j - 1
      BY <2>1, <2>3
    <3>2. events[b + i - 1].at <= events[b + j - 1].at
      BY <3>1 DEF InOrder
    <3> QED
      BY <2>3, <3>2
  <2>5. log # <<>>
    BY <2>1, <2>3
  <2> QED
    BY <1>2, <2>3, <2>4, <2>5 DEF InOrder, log, b
<1> QED
  BY <1>1, <1>2

\* chainEventsSince: the window ends with the record's last transition, so it reaches as far.
LEMMA SinceReaches ==
  ASSUME InOrder(events), NEW from \in Nat, NEW to, NEW seen, Reaches(events, seen, to)
  PROVE  Reaches(EventsSince(from), seen, to)
<1> DEFINE log == EventsSince(from)
           b == FirstSince(from)
<1>1. b \in 1 .. Len(events) /\ Len(events) \in Nat
  BY WindowOfTheLog, LogEntries DEF Reaches
<1>2. /\ log # <<>> /\ Len(log) = Len(events) - b + 1
      /\ \A i \in 1 .. Len(log) : log[i] = events[b + i - 1]
  BY SinceIsAWindow DEF Reaches
<1> HIDE DEF log, b
<1>3. Len(log) \in 1 .. Len(log) /\ b + Len(log) - 1 = Len(events)
  BY <1>1, <1>2
<1>4. log[Len(log)] = events[Len(events)]
  BY <1>2, <1>3
<1> QED
  BY <1>2, <1>4 DEF Reaches, log

\* A window books on a state what the whole record does: what it leaves out ends before it.
LEMMA SinceBooksTheSame ==
  ASSUME InOrder(events), NEW from \in Nat, NEW to \in Int, NEW seen, NEW s
  PROVE  BookedOn(EventsSince(from), s, from, to, seen) = BookedOn(events, s, from, to, seen)
<1> DEFINE log == EventsSince(from)
           b == FirstSince(from)
<1>1. CASE events = <<>>
  BY <1>1, SinceIsAWindow
<1>2. CASE events # <<>>
  <2>1. /\ b \in 1 .. Len(events) /\ Len(events) \in Nat
        /\ \A i \in 1 .. Len(events) : events[i].at \in Nat
        /\ \A i \in 1 .. Len(events) : i < b => events[i + 1].at < from
    BY <1>2, WindowOfTheLog, LogEntries
  <2>2. /\ log # <<>> /\ Len(log) = Len(events) - b + 1
        /\ \A i \in 1 .. Len(log) : log[i] = events[b + i - 1]
    BY <1>2, SinceIsAWindow
  <2> HIDE DEF log, b
  <2>3. ASSUME NEW i \in 1 .. Len(log), NEW t
        PROVE  b + i - 1 \in 1 .. Len(events) /\ (InSegment(log, i, t, to, seen) <=> InSegment(events, b + i - 1, t, to, seen))
    <3>1. /\ b + i - 1 \in 1 .. Len(events) /\ (i < Len(log) <=> b + i - 1 < Len(events))
          /\ i < Len(log) => i + 1 \in 1 .. Len(log) /\ b + (i + 1) - 1 = (b + i - 1) + 1
      BY <2>1, <2>2
    <3>2. log[i] = events[b + i - 1] /\ (i < Len(log) => log[i + 1] = events[(b + i - 1) + 1])
      BY <2>2, <3>1
    <3> QED
      BY <3>1, <3>2 DEF InSegment, SegmentEnd
  <2>4. ASSUME NEW j \in 1 .. Len(events), NEW t \in from .. to - 1, InSegment(events, j, t, to, seen)
        PROVE  \E i \in 1 .. Len(log) : b + i - 1 = j
    <3>1. ~(j < b)
      <4> SUFFICES ASSUME j < b
                   PROVE  FALSE
        OBVIOUS
      <4>1. j < Len(events) /\ t < events[j + 1].at
        BY <2>1, <2>4 DEF InSegment, SegmentEnd
      <4>2. events[j + 1].at < from /\ events[j + 1].at \in Nat
        BY <2>1, <4>1
      <4> QED
        BY <4>1, <4>2
    <3>2. j - b + 1 \in 1 .. Len(log) /\ b + (j - b + 1) - 1 = j
      BY <2>1, <2>2, <3>1
    <3> QED
      BY <3>2
  <2>5. \A t \in from .. to - 1 :
          (\E i \in 1 .. Len(log) : log[i].state = s /\ InSegment(log, i, t, to, seen)) <=>
          (\E j \in 1 .. Len(events) : events[j].state = s /\ InSegment(events, j, t, to, seen))
    BY <2>2, <2>3, <2>4
  <2>6. BookedOn(log, s, from, to, seen) = BookedOn(events, s, from, to, seen)
    BY <2>5 DEF BookedOn
  <2> QED
    BY <2>6 DEF log
<1> QED
  BY <1>1, <1>2

----------------------------------------------------------------------------
(* The invariant of the record.                                             *)

\* How far the last transition's segment goes: to now while its state is held, to the
\* watermark when the process is gone or has found no state yet.
Watching == Up /\ state # "unknown"
RecordEnd == IF Watching THEN now ELSE seenThrough
Stretch(i) == events[i].at .. (IF i < Len(events) THEN events[i + 1].at ELSE RecordEnd) - 1

RecordType ==
  /\ now \in Nat /\ now <= MaxTime
  /\ state \in Observable \cup {"unknown"} /\ (~Up => state = "unknown")
  /\ held \in Seq(States \cup {"unknown", "down"}) /\ Len(held) = now
  /\ crashes \in Nat
  /\ InOrder(events)
  /\ seenThrough \in {None} \cup 0 .. now
  /\ events # <<>> => seenThrough # None /\ LastEvent.at <= seenThrough

\* The last transition tells the state the process is in, or that it watches nothing.
LastIsCurrent ==
  IF Watching THEN events # <<>> /\ LastEvent.state = state
  ELSE Up => events = <<>> \/ LastEvent.state = "unobserved"

SegmentsWereHeld ==
  \A i \in 1 .. Len(events) : events[i].state # "unobserved" =>
    \A t \in Stretch(i) : held[t + 1] = events[i].state

NothingMissed ==
  crashes = 0 =>
    \A t \in 0 .. now - 1 : held[t + 1] \in Observable =>
      \E i \in 1 .. Len(events) : events[i].state = held[t + 1] /\ t \in Stretch(i)

RecordInv == RecordType /\ LastIsCurrent /\ SegmentsWereHeld /\ NothingMissed

\* An empty record of a process that has not started.
LEMMA RecordStarts ==
  ASSUME AvailabilityAssumption, Init
  PROVE  RecordInv
BY DEF AvailabilityAssumption, Init, RecordInv, RecordType, LastIsCurrent, SegmentsWereHeld, NothingMissed,
       InOrder, Up, Watching, None

\* The log grows in order.
LEMMA GrowsInOrder ==
  ASSUME InOrder(events), NEW at \in Nat, NEW s \in States,
         events = <<>> \/ LastEvent.at <= at
  PROVE  LET log == Append(events, [at |-> at, state |-> s])
         IN  /\ InOrder(log) /\ log # <<>> /\ Len(log) = Len(events) + 1
             /\ log[Len(log)] = [at |-> at, state |-> s]
             /\ \A i \in 1 .. Len(events) : log[i] = events[i]
<1> DEFINE e == [at |-> at, state |-> s]
           log == Append(events, e)
<1>1. /\ events \in Seq(Transitions) /\ Len(events) \in Nat /\ e \in Transitions
      /\ \A i \in 1 .. Len(events) : events[i].at \in Nat
      /\ \A i, j \in 1 .. Len(events) : i <= j => events[i].at <= events[j].at
  BY LogEntries DEF InOrder, Transitions
<1>2. e.at = at /\ e.state = s
  OBVIOUS
<1> HIDE DEF e
<1>3. /\ log \in Seq(Transitions) /\ log # <<>> /\ Len(log) = Len(events) + 1
      /\ log[Len(log)] = e
      /\ \A i \in 1 .. Len(events) : log[i] = events[i]
  BY <1>1, AppendProperties
<1> HIDE DEF log
<1>4. ASSUME NEW i \in 1 .. Len(log), NEW j \in 1 .. Len(log), i <= j
      PROVE  log[i].at <= log[j].at
  <2>1. CASE j \in 1 .. Len(events)
    BY <1>1, <1>3, <1>4, <2>1
  <2>2. CASE j = Len(log) /\ i = Len(log)
    BY <1>2, <1>3, <2>2
  <2>3. CASE j = Len(log) /\ i \in 1 .. Len(events)
    <3>1. events # <<>> /\ Len(events) \in 1 .. Len(events) /\ i <= Len(events)
      BY <1>1, <2>3
    <3>2. events[i].at <= LastEvent.at
      BY <1>1, <2>3, <3>1 DEF LastEvent
    <3>3. LastEvent.at <= at /\ LastEvent.at \in Nat
      BY <1>1, <3>1 DEF LastEvent
    <3>4. events[i].at <= at
      BY <1>1, <2>3, <3>2, <3>3
    <3> QED
      BY <1>2, <1>3, <2>3, <3>4
  <2> QED
    BY <1>1, <1>3, <1>4, <2>1, <2>2, <2>3
<1>5. InOrder(log)
  BY <1>3, <1>4 DEF InOrder
<1> QED
  BY <1>3, <1>5 DEF log, e

\* The segments the record has, told without the definitions.
LEMMA TheRecord ==
  ASSUME RecordType
  PROVE  /\ InOrder(events) /\ events \in Seq(Transitions) /\ Len(events) \in Nat
         /\ \A i \in 1 .. Len(events) : events[i].at \in Nat /\ events[i].state \in States
         /\ events # <<>> =>
              /\ Len(events) \in 1 .. Len(events) /\ LastEvent = events[Len(events)]
              /\ LastEvent.at \in Nat /\ LastEvent.state \in States
              /\ seenThrough \in Nat /\ LastEvent.at <= seenThrough /\ seenThrough <= now
         /\ now \in Nat /\ Len(held) = now
<1>1. InOrder(events) /\ now \in Nat /\ Len(held) = now /\ events \in Seq(Transitions)
  BY DEF RecordType, InOrder
<1>2. /\ Len(events) \in Nat /\ (events # <<>> => Len(events) \in 1 .. Len(events))
      /\ \A i \in 1 .. Len(events) : events[i].at \in Nat /\ events[i].state \in States
  BY <1>1, LogEntries
<1>3. events # <<>> => seenThrough \in Nat /\ LastEvent.at <= seenThrough /\ seenThrough <= now
  BY <1>1 DEF RecordType, None
<1> QED
  BY <1>1, <1>2, <1>3 DEF LastEvent

\* setChainState: the segment left ends now, where it was held to, and the new one begins.
LEMMA SetStateKeeps ==
  ASSUME RecordInv, NEW next \in Observable, NEW marks, SetState(next, marks),
         Up, Up', UNCHANGED <<now, held, crashes>>
  PROVE  RecordInv'
<1>1. /\ RecordType /\ LastIsCurrent /\ SegmentsWereHeld /\ NothingMissed
      /\ state' = next /\ next # "unknown" /\ now' = now /\ held' = held /\ crashes' = crashes
  BY DEF RecordInv, SetState, Observable
<1>2. next \in States
  BY DEF Observable, States, Verdict
<1>3. CASE next = state
  <2>1. events' = events /\ (seenThrough' = now \/ seenThrough' = seenThrough)
    BY <1>3 DEF SetState, MarkSeen
  <2>2. Watching /\ Watching' /\ RecordEnd = now /\ RecordEnd' = now
    BY <1>1, <1>3 DEF Watching, RecordEnd
  <2>3. events' = events /\ LastEvent' = LastEvent
    BY <2>1 DEF LastEvent
  <2>4. RecordType'
    <3>1. /\ seenThrough' \in {None} \cup 0 .. now
          /\ events # <<>> => seenThrough' # None /\ LastEvent.at <= seenThrough'
      BY <1>1, <2>1, TheRecord DEF RecordType, None
    <3>2. InOrder(events)'
      BY <1>1, <2>1 DEF RecordType, InOrder
    <3> QED
      BY <1>1, <2>3, <3>1, <3>2 DEF RecordType
  <2>5. LastIsCurrent'
    BY <1>1, <1>3, <2>2, <2>3 DEF LastIsCurrent
  <2>6. ASSUME NEW i
        PROVE  Stretch(i)' = Stretch(i)
    BY <2>1, <2>2 DEF Stretch
  <2> QED
    BY <1>1, <2>1, <2>4, <2>5, <2>6 DEF RecordInv, SegmentsWereHeld, NothingMissed
<1>4. CASE next # state
  <2>1. events' = Append(events, [at |-> now, state |-> next]) /\ seenThrough' = now
    BY <1>4 DEF SetState, MarkSeen
  <2>2. Watching' /\ RecordEnd' = now
    BY <1>1, <2>1 DEF Watching, RecordEnd
  <2>3. /\ InOrder(events') /\ events' # <<>> /\ Len(events') = Len(events) + 1 /\ Len(events) \in Nat
        /\ events'[Len(events')] = [at |-> now, state |-> next]
        /\ \A i \in 1 .. Len(events) : events'[i] = events[i]
    <3>1. events = <<>> \/ LastEvent.at <= now
      BY <1>1, TheRecord
    <3> QED
      BY <1>1, <1>2, <2>1, <3>1, GrowsInOrder, TheRecord
  <2>4. RecordType'
    <3>1. InOrder(events)' /\ LastEvent' = [at |-> now, state |-> next]
      BY <2>3 DEF InOrder, LastEvent
    <3>2. now \in Nat
      BY <1>1, TheRecord
    <3> QED
      BY <1>1, <2>1, <3>1, <3>2 DEF RecordType, None
  <2>5. LastIsCurrent'
    BY <1>1, <2>2, <2>3 DEF LastIsCurrent, LastEvent
  <2>6. ASSUME NEW i \in 1 .. Len(events), events[i].state # "unobserved"
        PROVE  Stretch(i)' = Stretch(i)
    <3>1. i < Len(events') /\ (i < Len(events) => i + 1 \in 1 .. Len(events))
      BY <2>3
    <3>2. CASE i < Len(events)
      <4>1. events'[i] = events[i] /\ events'[i + 1] = events[i + 1]
        BY <2>3, <3>1, <3>2
      <4> QED
        BY <3>1, <3>2, <4>1 DEF Stretch
    <3>3. CASE i = Len(events)
      <4>1. events # <<>> /\ LastEvent.state # "unobserved"
        BY <1>1, <2>6, <3>3, TheRecord DEF LastEvent
      <4>2. RecordEnd = now
        BY <1>1, <4>1 DEF LastIsCurrent, RecordEnd
      <4>3. events'[i] = events[i] /\ events'[i + 1].at = now
        BY <2>3, <3>3
      <4> QED
        BY <3>1, <3>3, <4>2, <4>3 DEF Stretch
    <3> QED
      BY <2>3, <3>2, <3>3
  <2>7. ASSUME NEW i, i = Len(events'), NEW t \in Stretch(i)'
        PROVE  FALSE
    <3>1. now \in Nat
      BY <1>1, TheRecord
    <3>2. Stretch(i)' = now .. now - 1
      BY <2>2, <2>3, <2>7 DEF Stretch
    <3> QED
      BY <2>7, <3>1, <3>2
  <2>8. \A i \in 1 .. Len(events') : i \in 1 .. Len(events) \/ i = Len(events')
    BY <2>3
  <2>9. SegmentsWereHeld'
    <3> SUFFICES ASSUME NEW i \in 1 .. Len(events'), events'[i].state # "unobserved", NEW t \in Stretch(i)'
                 PROVE  held[t + 1] = events'[i].state
      BY <1>1 DEF SegmentsWereHeld
    <3>1. i # Len(events')
      BY <2>7
    <3>2. i \in 1 .. Len(events) /\ events'[i] = events[i]
      BY <2>3, <2>8, <3>1
    <3> QED
      BY <1>1, <2>6, <3>2 DEF SegmentsWereHeld
  <2>10. NothingMissed'
    <3> SUFFICES ASSUME crashes = 0, NEW t \in 0 .. now - 1, held[t + 1] \in Observable
                 PROVE  \E i \in 1 .. Len(events') : events'[i].state = held[t + 1] /\ t \in Stretch(i)'
      BY <1>1 DEF NothingMissed
    <3>1. PICK i \in 1 .. Len(events) : events[i].state = held[t + 1] /\ t \in Stretch(i)
      BY <1>1 DEF NothingMissed
    <3>2. events[i].state # "unobserved"
      BY <3>1 DEF Observable
    <3>3. i \in 1 .. Len(events') /\ events'[i] = events[i] /\ t \in Stretch(i)'
      BY <2>3, <2>6, <3>1, <3>2
    <3> QED
      BY <3>1, <3>3
  <2> QED
    BY <2>4, <2>5, <2>9, <2>10 DEF RecordInv
<1> QED
  BY <1>3, <1>4

\* A record whose segments neither grew nor shrank.
LEMMA UntouchedKeeps ==
  ASSUME RecordInv, UNCHANGED <<now, events, held, crashes>>, RecordEnd' = RecordEnd, RecordType', LastIsCurrent'
  PROVE  RecordInv'
<1>1. ASSUME NEW i
      PROVE  Stretch(i)' = Stretch(i)
  BY DEF Stretch
<1> QED
  BY <1>1 DEF RecordInv, SegmentsWereHeld, NothingMissed

\* openObservationWindow: the gap begins where the watermark ends the last segment.
LEMMA BootKeeps ==
  ASSUME RecordInv, Boot
  PROVE  RecordInv'
<1>1. /\ RecordType /\ LastIsCurrent /\ SegmentsWereHeld /\ NothingMissed
      /\ ~Up /\ Up' /\ state = "unknown" /\ state' = "unknown" /\ events' = events \o GapMarker
      /\ now' = now /\ held' = held /\ crashes' = crashes /\ seenThrough' = seenThrough
  BY DEF RecordInv, Boot, Up, RecordType
<1>2. RecordEnd = seenThrough /\ RecordEnd' = seenThrough /\ ~Watching'
  BY <1>1 DEF RecordEnd, Watching
<1>3. CASE events = <<>> \/ LastEvent.state = "unobserved"
  <2>1. events' = events
    BY <1>1, <1>3, TheRecord DEF GapMarker
  <2>2. LastEvent' = LastEvent /\ InOrder(events)'
    BY <1>1, <2>1, TheRecord DEF LastEvent, InOrder
  <2>3. RecordType'
    BY <1>1, <2>1, <2>2 DEF RecordType
  <2>4. LastIsCurrent'
    BY <1>2, <1>3, <2>1, <2>2 DEF LastIsCurrent
  <2> QED
    BY <1>1, <1>2, <2>1, <2>3, <2>4, UntouchedKeeps
<1>4. CASE events # <<>> /\ LastEvent.state # "unobserved"
  <2>1. seenThrough \in Nat /\ LastEvent.at \in Nat /\ LastEvent.at <= seenThrough /\ seenThrough <= now
    BY <1>1, <1>4, TheRecord
  <2>2. events' = Append(events, [at |-> seenThrough, state |-> "unobserved"])
    <3>1. GapMarker = <<[at |-> seenThrough, state |-> "unobserved"]>>
      BY <1>4, <2>1 DEF GapMarker, Greater
    <3> QED
      BY <1>1, <3>1, TheRecord
  <2>3. /\ InOrder(events') /\ events' # <<>> /\ Len(events') = Len(events) + 1 /\ Len(events) \in Nat
        /\ events'[Len(events')] = [at |-> seenThrough, state |-> "unobserved"]
        /\ \A i \in 1 .. Len(events) : events'[i] = events[i]
    <3>1. "unobserved" \in States
      BY DEF States, Verdict
    <3> QED
      BY <1>1, <2>1, <2>2, <3>1, GrowsInOrder, TheRecord
  <2>4. InOrder(events)' /\ LastEvent' = [at |-> seenThrough, state |-> "unobserved"]
    BY <2>3 DEF InOrder, LastEvent
  <2>5. RecordType'
    BY <1>1, <2>1, <2>4 DEF RecordType, None
  <2>6. LastIsCurrent'
    BY <1>2, <2>4 DEF LastIsCurrent
  <2>7. ASSUME NEW i \in 1 .. Len(events)
        PROVE  Stretch(i)' = Stretch(i)
    <3>1. i < Len(events') /\ (i < Len(events) => i + 1 \in 1 .. Len(events))
      BY <2>3
    <3>2. CASE i < Len(events)
      <4>1. events'[i] = events[i] /\ events'[i + 1] = events[i + 1]
        BY <2>3, <3>1, <3>2
      <4> QED
        BY <3>1, <3>2, <4>1 DEF Stretch
    <3>3. CASE i = Len(events)
      <4>1. events'[i] = events[i] /\ events'[i + 1].at = seenThrough
        BY <2>3, <3>3
      <4> QED
        BY <1>2, <3>1, <3>3, <4>1 DEF Stretch
    <3> QED
      BY <2>3, <3>2, <3>3
  <2>8. SegmentsWereHeld'
    <3> SUFFICES ASSUME NEW i \in 1 .. Len(events'), events'[i].state # "unobserved", NEW t \in Stretch(i)'
                 PROVE  held[t + 1] = events'[i].state
      BY <1>1 DEF SegmentsWereHeld
    <3>1. i # Len(events')
      BY <2>3
    <3>2. i \in 1 .. Len(events) /\ events'[i] = events[i]
      BY <2>3, <3>1
    <3> QED
      BY <1>1, <2>7, <3>2 DEF SegmentsWereHeld
  <2>9. NothingMissed'
    <3> SUFFICES ASSUME crashes = 0, NEW t \in 0 .. now - 1, held[t + 1] \in Observable
                 PROVE  \E i \in 1 .. Len(events') : events'[i].state = held[t + 1] /\ t \in Stretch(i)'
      BY <1>1 DEF NothingMissed
    <3>1. PICK i \in 1 .. Len(events) : events[i].state = held[t + 1] /\ t \in Stretch(i)
      BY <1>1 DEF NothingMissed
    <3>2. i \in 1 .. Len(events') /\ events'[i] = events[i] /\ t \in Stretch(i)'
      BY <2>3, <2>7, <3>1
    <3> QED
      BY <3>1, <3>2
  <2> QED
    BY <2>5, <2>6, <2>8, <2>9 DEF RecordInv
<1> QED
  BY <1>3, <1>4

\* start() and a tick leave their walk: the record is not touched.
LEMMA EndWalkKeeps ==
  ASSUME RecordInv, EndWalk
  PROVE  RecordInv'
<1>1. /\ RecordType /\ LastIsCurrent /\ Up /\ Up'
      /\ UNCHANGED <<now, events, held, crashes, state, seenThrough>>
  BY DEF RecordInv, EndWalk, Up, Walking
<1>2. /\ RecordEnd' = RecordEnd /\ LastEvent' = LastEvent /\ InOrder(events)' /\ (Watching' <=> Watching)
  BY <1>1 DEF RecordEnd, Watching, LastEvent, RecordType, InOrder
<1>3. RecordType' /\ LastIsCurrent'
  BY <1>1, <1>2 DEF RecordType, LastIsCurrent
<1> QED
  BY <1>1, <1>2, <1>3, UntouchedKeeps

\* stop(): what was held to the end is written to the end.
LEMMA StopKeeps ==
  ASSUME RecordInv, Stop
  PROVE  RecordInv'
<1>1. /\ RecordType /\ LastIsCurrent /\ SegmentsWereHeld /\ NothingMissed
      /\ Up /\ ~Up' /\ state' = "unknown" /\ seenThrough' = now
      /\ UNCHANGED <<now, events, held, crashes>>
  BY DEF RecordInv, Stop, Forget, Flush, Up
<1>2. LastEvent' = LastEvent /\ InOrder(events)' /\ RecordEnd' = now /\ ~Watching'
  BY <1>1 DEF LastEvent, RecordType, InOrder, RecordEnd, Watching
<1>3. RecordType'
  BY <1>1, <1>2, TheRecord DEF RecordType, None
<1>4. LastIsCurrent'
  BY <1>1, <1>2 DEF LastIsCurrent
<1>5. ASSUME NEW i \in 1 .. Len(events), events[i].state # "unobserved"
      PROVE  Stretch(i)' = Stretch(i)
  <2>1. CASE i < Len(events)
    BY <1>1, <2>1 DEF Stretch
  <2>2. CASE i = Len(events)
    <3>1. events # <<>> /\ LastEvent.state # "unobserved"
      BY <1>1, <1>5, <2>2, TheRecord DEF LastEvent
    <3>2. RecordEnd = now
      BY <1>1, <3>1 DEF LastIsCurrent, RecordEnd
    <3> QED
      BY <1>1, <1>2, <3>2 DEF Stretch
  <2> QED
    BY <1>1, <2>1, <2>2, TheRecord
<1>6. SegmentsWereHeld'
  BY <1>1, <1>5 DEF SegmentsWereHeld
<1>7. NothingMissed'
  BY <1>1, <1>5 DEF NothingMissed, Observable
<1> QED
  BY <1>3, <1>4, <1>6, <1>7 DEF RecordInv

\* A crash forgets what was seen since the watermark, and adds nothing.
LEMMA DeathKeeps ==
  ASSUME RecordInv, Crash
  PROVE  RecordInv'
<1>1. /\ RecordType /\ SegmentsWereHeld
      /\ Up /\ ~Up' /\ state' = "unknown" /\ crashes' = crashes + 1
      /\ UNCHANGED <<now, events, held, seenThrough>>
  BY DEF RecordInv, Crash, Forget, Up
<1>2. LastEvent' = LastEvent /\ InOrder(events)' /\ RecordEnd' = seenThrough /\ ~Watching'
  BY <1>1 DEF LastEvent, RecordType, InOrder, RecordEnd, Watching
<1>3. RecordType' /\ NothingMissed'
  BY <1>1, <1>2 DEF RecordType, NothingMissed
<1>4. LastIsCurrent'
  BY <1>1, <1>2 DEF LastIsCurrent
<1>5. ASSUME NEW i \in 1 .. Len(events)
      PROVE  \A t \in Stretch(i)' : t \in Stretch(i)
  <2>1. CASE i < Len(events)
    BY <1>1, <2>1 DEF Stretch
  <2>2. CASE i = Len(events)
    <3>1. /\ events[i].at \in Nat /\ seenThrough \in Nat /\ seenThrough <= now /\ now \in Nat
      BY <1>1, <2>2, TheRecord
    <3>2. Stretch(i)' = events[i].at .. seenThrough - 1
      BY <1>1, <1>2, <2>2 DEF Stretch
    <3>3. Stretch(i) = events[i].at .. RecordEnd - 1
      BY <2>2 DEF Stretch
    <3>4. RecordEnd \in Nat /\ seenThrough <= RecordEnd
      BY <3>1 DEF RecordEnd
    <3> QED
      BY <3>1, <3>2, <3>3, <3>4
  <2> QED
    BY <1>1, <2>1, <2>2, TheRecord
<1>6. SegmentsWereHeld'
  BY <1>1, <1>5 DEF SegmentsWereHeld
<1> QED
  BY <1>3, <1>4, <1>6 DEF RecordInv

\* A unit of time: the state held in it is the one the last segment tells.
LEMMA TimeKeeps ==
  ASSUME AvailabilityAssumption, RecordInv, TimePasses
  PROVE  RecordInv'
<1> DEFINE h == IF Up THEN state ELSE "down"
<1>1. /\ RecordType /\ LastIsCurrent /\ SegmentsWereHeld /\ NothingMissed
      /\ now < MaxTime /\ MaxTime \in Nat /\ now' = now + 1 /\ held' = Append(held, h)
      /\ UNCHANGED <<events, seenThrough, session, state, crashes>>
  BY DEF RecordInv, TimePasses, AvailabilityAssumption
<1>2. /\ h \in States \cup {"unknown", "down"} /\ (h \in Observable => Watching /\ h = state)
      /\ (Watching => h = state)
  BY <1>1 DEF RecordType, Watching, Observable, States, Verdict
<1> HIDE DEF h
<1>3. /\ held \in Seq(States \cup {"unknown", "down"}) /\ Len(held) = now /\ now \in Nat
      /\ held' \in Seq(States \cup {"unknown", "down"}) /\ Len(held') = now + 1
      /\ \A t \in 0 .. now - 1 : held'[t + 1] = held[t + 1]
      /\ held'[now + 1] = h
  <2>1. held \in Seq(States \cup {"unknown", "down"}) /\ Len(held) = now /\ now \in Nat
    BY <1>1 DEF RecordType
  <2>2. \A k \in 1 .. now : held'[k] = held[k]
    BY <1>1, <1>2, <2>1, AppendProperties
  <2>3. \A t \in 0 .. now - 1 : t + 1 \in 1 .. now
    BY <2>1
  <2>4. held' \in Seq(States \cup {"unknown", "down"}) /\ Len(held') = now + 1 /\ held'[now + 1] = h
    BY <1>1, <1>2, <2>1, AppendProperties
  <2> QED
    BY <2>1, <2>2, <2>3, <2>4
<1>4. LastEvent' = LastEvent /\ InOrder(events)' /\ (Watching' <=> Watching) /\ (Up' <=> Up)
  BY <1>1 DEF LastEvent, RecordType, InOrder, Watching, Up
<1>5. RecordType'
  <2>1. now' \in Nat /\ now' <= MaxTime /\ seenThrough' \in {None} \cup 0 .. now'
    BY <1>1, <1>3 DEF RecordType
  <2> QED
    BY <1>1, <1>3, <1>4, <2>1 DEF RecordType
<1>6. LastIsCurrent'
  BY <1>1, <1>4 DEF LastIsCurrent
<1>7. ASSUME NEW i \in 1 .. Len(events), NEW t
      PROVE  /\ t \in Stretch(i) => t \in Stretch(i)' /\ t \in 0 .. now - 1
             /\ t \in Stretch(i)' => t \in Stretch(i) \/ (t = now /\ Watching /\ i = Len(events))
  <2>1. events[i].at \in Nat /\ events # <<>> /\ now \in Nat
    <3>1. i \in 1 .. Len(events)
      BY <1>7
    <3> QED
      BY <1>1, <3>1, TheRecord
  <2>2. CASE i < Len(events)
    <3>1. Stretch(i)' = Stretch(i) /\ Stretch(i) = events[i].at .. events[i + 1].at - 1
      BY <1>1, <2>2 DEF Stretch
    <3>2. events[i + 1].at \in Nat /\ events[i + 1].at <= now
      <4>1. i + 1 \in 1 .. Len(events) /\ i + 1 <= Len(events) /\ Len(events) \in 1 .. Len(events)
        BY <1>1, <2>1, <2>2, TheRecord
      <4>2. events[i + 1].at <= LastEvent.at
        BY <1>1, <4>1 DEF RecordType, InOrder, LastEvent
      <4>3. LastEvent.at \in Nat /\ seenThrough \in Nat /\ LastEvent.at <= seenThrough /\ seenThrough <= now
            /\ events[i + 1].at \in Nat
        BY <1>1, <2>1, <4>1, TheRecord
      <4> QED
        BY <2>1, <4>2, <4>3
    <3> QED
      BY <2>1, <3>1, <3>2
  <2>3. CASE i = Len(events) /\ Watching
    <3>1. Stretch(i)' = events[i].at .. (now + 1) - 1 /\ Stretch(i) = events[i].at .. now - 1
      BY <1>1, <1>4, <2>3 DEF Stretch, RecordEnd
    <3> QED
      BY <2>1, <2>3, <3>1
  <2>4. CASE i = Len(events) /\ ~Watching
    <3>1. Stretch(i)' = Stretch(i) /\ Stretch(i) = events[i].at .. seenThrough - 1
      BY <1>1, <1>4, <2>4 DEF Stretch, RecordEnd
    <3>2. seenThrough \in Nat /\ seenThrough <= now
      BY <1>1, <2>1, TheRecord
    <3> QED
      BY <2>1, <3>1, <3>2
  <2> QED
    BY <1>1, <2>2, <2>3, <2>4, TheRecord
<1>8. SegmentsWereHeld'
  <2> SUFFICES ASSUME NEW i \in 1 .. Len(events), events[i].state # "unobserved", NEW t \in Stretch(i)'
               PROVE  held'[t + 1] = events[i].state
    BY <1>1 DEF SegmentsWereHeld
  <2>1. CASE t \in Stretch(i)
    <3>1. held'[t + 1] = held[t + 1]
      BY <1>3, <1>7, <2>1
    <3> QED
      BY <1>1, <2>1, <3>1 DEF SegmentsWereHeld
  <2>2. CASE t = now /\ Watching /\ i = Len(events)
    <3>1. events[i].state = state
      BY <1>1, <2>2 DEF LastIsCurrent, LastEvent
    <3> QED
      BY <1>2, <1>3, <2>2, <3>1
  <2> QED
    BY <1>7, <2>1, <2>2
<1>9. NothingMissed'
  <2> SUFFICES ASSUME crashes = 0, NEW t \in 0 .. now, held'[t + 1] \in Observable
               PROVE  \E i \in 1 .. Len(events) : events[i].state = held'[t + 1] /\ t \in Stretch(i)'
    <3>1. now' - 1 = now
      BY <1>1, <1>3
    <3> QED
      BY <1>1, <3>1 DEF NothingMissed
  <2>1. CASE t \in 0 .. now - 1
    <3>1. held'[t + 1] = held[t + 1]
      BY <1>3, <2>1
    <3>2. PICK i \in 1 .. Len(events) : events[i].state = held[t + 1] /\ t \in Stretch(i)
      BY <1>1, <2>1, <3>1 DEF NothingMissed
    <3> QED
      BY <1>7, <3>1, <3>2
  <2>2. CASE t = now
    <3>1. Watching /\ held'[t + 1] = state
      BY <1>2, <1>3, <2>2
    <3>2. events # <<>> /\ LastEvent.state = state
      BY <1>1, <3>1 DEF LastIsCurrent
    <3>3. /\ Len(events) \in 1 .. Len(events) /\ events[Len(events)].state = state
          /\ events[Len(events)].at \in Nat /\ events[Len(events)].at <= now
      BY <1>1, <3>2, TheRecord DEF LastEvent
    <3>4. \A i : i = Len(events) => Stretch(i)' = events[i].at .. (now + 1) - 1
      BY <1>1, <1>4, <3>1 DEF Stretch, RecordEnd
    <3>5. PICK i \in 1 .. Len(events) : i = Len(events)
      BY <3>3
    <3>6. t \in Stretch(i)' /\ events[i].state = held'[t + 1]
      BY <1>3, <2>2, <3>1, <3>3, <3>4, <3>5
    <3> QED
      BY <3>6
  <2> QED
    BY <1>3, <2>1, <2>2
<1> QED
  BY <1>5, <1>6, <1>8, <1>9 DEF RecordInv

\* Whatever happens to the process.
LEMMA RecordStep ==
  ASSUME AvailabilityAssumption, RecordInv, [Next]_uptimeVars
  PROVE  RecordInv'
<1>1. CASE UNCHANGED uptimeVars
  <2>1. /\ UNCHANGED <<now, events, held, crashes, state, seenThrough, session>>
        /\ RecordType /\ LastIsCurrent
    BY <1>1 DEF uptimeVars, RecordInv
  <2>2. RecordEnd' = RecordEnd /\ RecordType' /\ LastIsCurrent'
    BY <2>1 DEF RecordEnd, Watching, Up, RecordType, InOrder, LastIsCurrent, LastEvent
  <2> QED
    BY <2>1, <2>2, UntouchedKeeps
<1>2. \A advanced \in BOOLEAN : StateFromHead(advanced) \in Observable
  BY DEF StateFromHead, Observable
<1>3. \A kinds \in Failures : StateFromError(kinds) \in Observable
  BY DEF StateFromError, Observable
<1>4. ASSUME NEW advanced \in BOOLEAN, SeedFrom(advanced) \/ PollHead(advanced) \/ RefreshHead(advanced)
      PROVE  RecordInv'
  <2>1. /\ \E marks \in BOOLEAN : SetState(StateFromHead(advanced), marks)
        /\ Up /\ Up' /\ UNCHANGED <<now, held, crashes>>
    BY <1>4 DEF SeedFrom, PollHead, RefreshHead, NoteHead, Up, Walking
  <2> QED
    BY <1>2, <2>1, SetStateKeeps
<1>5. ASSUME NEW kinds \in Failures, SeedFails(kinds) \/ PollFails(kinds) \/ RefreshFails(kinds)
      PROVE  RecordInv'
  <2>1. /\ \E marks \in BOOLEAN : SetState(StateFromError(kinds), marks)
        /\ Up /\ Up' /\ UNCHANGED <<now, held, crashes>>
    BY <1>5 DEF SeedFails, PollFails, RefreshFails, NoteRpcFailure, Up, Walking
  <2> QED
    BY <1>3, <2>1, SetStateKeeps
<1> QED
  BY <1>1, <1>4, <1>5, BootKeeps, EndWalkKeeps, StopKeeps, DeathKeeps, TimeKeeps DEF Next

----------------------------------------------------------------------------
(* What is published of such a record.                                      *)

\* The window's events are a record in order that reaches as far.
LEMMA WindowIsARecord ==
  ASSUME RecordType, NEW from \in 0 .. now
  PROVE  /\ from \in Nat /\ now \in Nat /\ from <= now
         /\ InOrder(EventsSince(from))
         /\ Readable(EventsSince(from), seenThrough, now)
<1>1. from \in Nat /\ now \in Nat /\ from <= now /\ InOrder(events)
  BY DEF RecordType
<1>2. events # <<>> => Reaches(events, seenThrough, now)
  BY TheRecord DEF Reaches
<1> QED
  BY <1>1, <1>2, SinceIsAWindow, SinceReaches DEF Readable

\* record(): a state's figure is the number of instants booked on it, by the window and by
\* the whole record alike.
LEMMA PublishedIsBooked ==
  ASSUME RecordType, NEW from \in 0 .. now, NEW s \in Observable
  PROVE  /\ Published(from)[s] = Cardinality(BookedOn(events, s, from, now, seenThrough))
         /\ Published(from)[s] = Cardinality(BookedOn(EventsSince(from), s, from, now, seenThrough))
<1>1. s \in States /\ s # "unobserved"
  BY DEF Observable, States, Verdict
<1>2. /\ from \in Int /\ now \in Int /\ from \in Nat /\ InOrder(EventsSince(from)) /\ InOrder(events)
  BY WindowIsARecord DEF RecordType
<1>3. Cardinality(BookedOn(EventsSince(from), s, from, now, seenThrough)) \in Nat
  BY <1>2, WindowsAreFinite DEF BookedOn
<1>4. Published(from)[s] = Cardinality(Spent(EventsSince(from), s, from, now, seenThrough)) + 0
  BY <1>1 DEF Published, UptimeFrom
<1>5. Cardinality(Spent(EventsSince(from), s, from, now, seenThrough)) =
        Cardinality(BookedOn(EventsSince(from), s, from, now, seenThrough))
  BY <1>2, SpentIsBooked
<1>6. BookedOn(EventsSince(from), s, from, now, seenThrough) = BookedOn(events, s, from, now, seenThrough)
  BY <1>2, SinceBooksTheSame
<1> QED
  BY <1>3, <1>4, <1>5, <1>6

\* What is published lies in the segments as far as they were held; all of it once the watermark is now.
LEMMA SegmentsAreStretches ==
  ASSUME RecordType, NEW i \in 1 .. Len(events), NEW t \in Int
  PROVE  /\ InSegment(events, i, t, now, seenThrough) => t \in Stretch(i)
         /\ seenThrough = now /\ t \in Stretch(i) => InSegment(events, i, t, now, seenThrough)
<1>1. events[i].at \in Nat /\ events # <<>> /\ now \in Nat /\ Len(events) \in Nat
  BY TheRecord
<1>2. CASE i < Len(events)
  <2>1. i + 1 \in 1 .. Len(events)
    BY <1>1, <1>2
  <2>2. events[i + 1].at \in Nat
    BY <2>1, TheRecord
  <2> QED
    BY <1>1, <1>2, <2>2 DEF InSegment, SegmentEnd, Stretch
<1>3. CASE ~(i < Len(events))
  <2>1. seenThrough \in Nat /\ seenThrough <= now
    BY <1>1, TheRecord
  <2>2. SegmentEnd(events, i, now, seenThrough) = seenThrough
    BY <1>1, <1>3, <2>1 DEF SegmentEnd, Lesser, None
  <2>3. Stretch(i) = events[i].at .. RecordEnd - 1 /\ RecordEnd \in Nat /\ seenThrough <= RecordEnd
        /\ (seenThrough = now => RecordEnd = seenThrough)
    BY <1>1, <1>3, <2>1 DEF Stretch, RecordEnd
  <2> QED
    BY <1>1, <2>1, <2>2, <2>3 DEF InSegment
<1> QED
  BY <1>2, <1>3

\* What is booked on a state was held in it.
LEMMA NothingIsInvented ==
  ASSUME RecordInv
  PROVE  NothingInvented
<1> SUFFICES ASSUME NEW from \in 0 .. now, NEW s \in Observable
             PROVE  Published(from)[s] <= TimeHeld(s, from)
  BY DEF NothingInvented
<1> DEFINE kept == {t \in from .. now - 1 : held[t + 1] = s}
           booked == BookedOn(events, s, from, now, seenThrough)
<1>1. RecordType /\ SegmentsWereHeld /\ from \in Int /\ now \in Int
  BY WindowIsARecord DEF RecordInv
<1>2. \A t \in booked : t \in kept
  <2> SUFFICES ASSUME NEW t \in booked
               PROVE  t \in kept
    OBVIOUS
  <2>1. PICK i \in 1 .. Len(events) : events[i].state = s /\ InSegment(events, i, t, now, seenThrough)
    BY DEF BookedOn
  <2>2. t \in from .. now - 1 /\ t \in Int
    BY <1>1 DEF BookedOn
  <2>3. t \in Stretch(i) /\ events[i].state # "unobserved"
    BY <1>1, <2>1, <2>2, SegmentsAreStretches DEF Observable
  <2> QED
    BY <1>1, <2>1, <2>2, <2>3 DEF SegmentsWereHeld
<1>3. kept \in SUBSET (from .. now - 1)
  OBVIOUS
<1>4. IsFiniteSet(kept)
  BY <1>1, <1>3, WindowsAreFinite
<1>5. Cardinality(booked) <= Cardinality(kept)
  BY <1>2, <1>4, FS_Subset
<1> QED
  BY <1>1, <1>5, PublishedIsBooked DEF TimeHeld

\* The figures book every instant once, and the incidents list what they book.
LEMMA FiguresAgree ==
  ASSUME AvailabilityAssumption, RecordInv
  PROVE  PublishedFiguresAgree
<1> SUFFICES ASSUME NEW from \in 0 .. now
             PROVE  /\ Booked(Published(from)) = now - from
                    /\ \A s \in Observable \ {"live"} :
                         Listed(Incidents(EventsSince(from), from, now, seenThrough, MinGap), s) = Published(from)[s]
  BY DEF PublishedFiguresAgree
<1>1. RecordType /\ MaxTime \in Nat /\ now <= MaxTime
  BY DEF RecordInv, RecordType, AvailabilityAssumption
<1>2. /\ from \in Nat /\ now \in Nat /\ from <= now /\ now - 1 <= MaxTime
      /\ InOrder(EventsSince(from))
      /\ Readable(EventsSince(from), seenThrough, now)
  <2>1. /\ from \in Nat /\ now \in Nat /\ from <= now
        /\ InOrder(EventsSince(from))
        /\ Readable(EventsSince(from), seenThrough, now)
    BY <1>1, WindowIsARecord
  <2> QED
    BY <1>1, <2>1
<1>3. Booked(Published(from)) = now - from
  BY <1>2, BookedOnce DEF Published
<1>4. ASSUME NEW s \in Observable \ {"live"}
      PROVE  Listed(Incidents(EventsSince(from), from, now, seenThrough, MinGap), s) = Published(from)[s]
  <2> DEFINE log == EventsSince(from)
  <2>1. /\ InOrder(log) /\ from \in Nat /\ now \in Nat /\ now - 1 <= MaxTime /\ MaxTime \in Nat
        /\ Readable(log, seenThrough, now)
    BY <1>1, <1>2
  <2> HIDE DEF log
  <2>3. s \in Observable /\ s # "live"
    OBVIOUS
  <2>2. Listed(Incidents(log, from, now, seenThrough, MinGap), s) = Cardinality(BookedOn(log, s, from, now, seenThrough))
    BY <2>1, <2>3, IncidentsAgree
  <2> QED
    BY <1>1, <2>2, PublishedIsBooked DEF log
<1> QED
  BY <1>3, <1>4

\* While nothing crashed and the watermark is now, what was held in a state is booked on it.
LEMMA OrderlyRestartIsFree ==
  ASSUME RecordInv
  PROVE  OrderlyRestartCostsNothing
<1> SUFFICES ASSUME crashes = 0, seenThrough = now, NEW from \in 0 .. now, NEW s \in Observable
             PROVE  Published(from)[s] = TimeHeld(s, from)
  BY DEF OrderlyRestartCostsNothing
<1> DEFINE kept == {t \in from .. now - 1 : held[t + 1] = s}
           booked == BookedOn(events, s, from, now, seenThrough)
<1>1. /\ RecordType /\ SegmentsWereHeld /\ NothingMissed /\ from \in Nat /\ now \in Int
  BY WindowIsARecord DEF RecordInv
<1>2. ASSUME NEW t \in from .. now - 1
      PROVE  (\E i \in 1 .. Len(events) : events[i].state = s /\ InSegment(events, i, t, now, seenThrough))
               <=> held[t + 1] = s
  <2>1. t \in Int /\ t \in 0 .. now - 1
    BY <1>1
  <2>2. s # "unobserved"
    BY DEF Observable
  <2>3. ASSUME NEW i \in 1 .. Len(events), events[i].state = s, InSegment(events, i, t, now, seenThrough)
        PROVE  held[t + 1] = s
    BY <1>1, <2>1, <2>2, <2>3, SegmentsAreStretches DEF SegmentsWereHeld
  <2>4. ASSUME held[t + 1] = s
        PROVE  \E i \in 1 .. Len(events) : events[i].state = s /\ InSegment(events, i, t, now, seenThrough)
    <3>1. PICK i \in 1 .. Len(events) : events[i].state = s /\ t \in Stretch(i)
      BY <1>1, <2>1, <2>4 DEF NothingMissed
    <3> QED
      BY <1>1, <2>1, <3>1, SegmentsAreStretches
  <2> QED
    BY <2>3, <2>4
<1>3. booked = kept
  BY <1>2 DEF BookedOn
<1> QED
  BY <1>1, <1>3, PublishedIsBooked DEF TimeHeld

----------------------------------------------------------------------------
(* The whole.                                                               *)

\* The alerts keep their invariant while the other parts rest.
LEMMA WatchAlerts == MCSpec => []AlertInv
<1>1. Alerts!ChainAlertAssumption
  BY WatchAssumption
<1>2. MCInit => AlertInv
  BY <1>1, AlertInit DEF MCInit
<1>3. AlertInv /\ [MCNext]_watchVars => AlertInv'
  BY <1>1, AlertStep DEF MCNext, UptimeStep, AlertsStep, ProfileStep, CallsStep, alertVars, Alerts!vars, watchVars
<1> QED
  BY <1>2, <1>3, PTL DEF MCSpec, watchVars

\* chainalert.js, note: however the states flap and the process restarts, no state
\* is announced twice within its cooldown, and the last word is stale only through
\* the cooldown of the state it fails to mention.
THEOREM OperatorIsAlwaysToldOnceAndLast == MCSpec => []OperatorIsToldOnceAndLast
<1>1. AlertInv => OperatorIsToldOnceAndLast
  BY DEF AlertInv, OperatorIsToldOnceAndLast
<1> QED
  BY <1>1, WatchAlerts, PTL

\* tryEndpoints and rpcBatchOne: whatever other batches move meanwhile, an error
\* is told only when every endpoint was asked, blames the key only when all of
\* them refused it, and an answer is one endpoint's.
THEOREM CallsAreAlwaysTrue == MCSpec => []CallsAreTrue
<1>1. Calls!FailoverAssumption
  BY WatchAssumption
<1>2. MCInit => CallsInv
  BY <1>1, CallsStart DEF MCInit
<1>3. CallsInv /\ [MCNext]_watchVars => CallsInv'
  BY <1>1, CallsGoOn DEF MCNext, UptimeStep, AlertsStep, ProfileStep, CallsStep, callVars, Calls!vars, watchVars
<1>4. CallsInv => CallsAreTrue
  BY <1>1, CallsInvIsTrue
<1> QED
  BY <1>2, <1>3, <1>4, PTL DEF MCSpec, watchVars

\* record and reportChanges: whatever passes are cut, refused, throw or overlap,
\* quiet and gone are reported when the checks in a row reach the threshold and
\* not again, the reports account for every identity the record holds, and what
\* it holds is queued unless a pass was cut right after storing.
THEOREM ReportsAlwaysMatchTheRecord == MCSpec => ReportsMatchTheRecord
<1>1. Profile!NetworkWatchAssumption
  BY WatchAssumption
<1> DEFINE Repeats == passNo' # passNo =>
             ~Profile!Repeated(Profile!diffObservations(stored, observed, passNo').events)
           Held == /\ Profile!SilenceIsReportedWhenItHasRepeated
                   /\ Profile!ReportsAccountForTheRecord
                   /\ Profile!RememberedIsQueued
<1>2. MCInit => ProfileInv
  BY <1>1, ProfileStarts DEF MCInit
<1>3. [MCNext]_watchVars => [Profile!Next]_(Profile!vars)
  BY DEF MCNext, UptimeStep, AlertsStep, ProfileStep, CallsStep, profileVars, Profile!vars, watchVars
<1>4. ProfileInv /\ [MCNext]_watchVars => ProfileInv'
  BY <1>1, <1>3, ProfileGoesOn
<1>5. ProfileInv /\ [MCNext]_watchVars => [Repeats]_(Profile!vars)
  BY <1>1, <1>3, NothingIsRepeated
<1>6. ProfileInv => Held
  BY DEF ProfileInv, WatchRecord, PublishedWhole
<1> QED
  BY <1>2, <1>4, <1>5, <1>6, PTL DEF MCSpec, watchVars, ReportsMatchTheRecord, Profile!NeverSaidTwice

\* chainuptime.js over what setChainState, markSeen, openObservationWindow and stop()
\* write: over every window, no more time in a state than the process held it, totals
\* that book every instant once and agree with the incidents, and nothing lost to an
\* orderly restart, whatever crashes, stops, hanging walks and failing polls.
THEOREM UptimeIsAlwaysHonest == MCSpec => []UptimeIsHonest
<1>1. MCInit => RecordInv
  BY AvailabilityAssumption, RecordStarts DEF MCInit
<1>2. RecordInv /\ [MCNext]_watchVars => RecordInv'
  BY AvailabilityAssumption, RecordStep DEF MCNext, UptimeStep, AlertsStep, ProfileStep, CallsStep, watchVars
<1>3. RecordInv => UptimeIsHonest
  BY AvailabilityAssumption, NothingIsInvented, FiguresAgree, OrderlyRestartIsFree DEF UptimeIsHonest, RecordIsHonest
<1> QED
  BY <1>1, <1>2, <1>3, PTL DEF MCSpec, watchVars
=============================================================================
