------------------------------- MODULE MCWatch -------------------------------
(* The watch kept over the chain: the record of its availability              *)
(* (Availability), the alerts sent to the operator (ChainAlert), the check of *)
(* its profile (NetworkWatch) and the calls all of them go by (Failover).     *)
(* They take what the calls may come to and share no state, so a behaviour    *)
(* here is a behaviour of one of them, named by part, while the others rest.  *)
EXTENDS Availability

CONSTANTS
  t1, d1, o1, i1, i2,
  Cooldown, MaxAlertTime, MaxRestarts,                                     \* ChainAlert
  Tokens, Deployed, Others, Invocations,                                   \* NetworkWatch
  MISSES_BEFORE_GONE, MISSES_BEFORE_QUIET, MaxPasses, MaxChanges,
  ENDPOINTS, Callers, Soft, Slots                                          \* Failover

VARIABLES
  part,
  alertNow, alerted, since, lastSentAt, said, restarts,                    \* ChainAlert
  chain, running, phase, observed, emitters, stored, queued, passNo,       \* NetworkWatch
  look, silent, absent, told, published, cut, changes,
  endpoint, call, heard                                                    \* Failover

Alerts == INSTANCE ChainAlert WITH now <- alertNow, state <- alerted, MaxTime <- MaxAlertTime
Profile == INSTANCE NetworkWatch
Calls == INSTANCE Failover

ASSUME WatchAssumption ==
  Alerts!ChainAlertAssumption /\ Profile!NetworkWatchAssumption /\ Calls!FailoverAssumption

TwoEndpoints == <<"primary", "fallback">>

uptimeVars == <<now, events, seenThrough, session, polled, state, headAt, seenAt, held, crashes, stops>>
alertVars == <<alertNow, alerted, since, lastSentAt, said, restarts>>
profileVars == <<chain, running, phase, observed, emitters, stored, queued, passNo,
                 look, silent, absent, told, published, cut, changes>>
callVars == <<endpoint, call, heard>>

(* The firings of the profile check's timer are alike.                        *)
Alike == {[i \in {i1, i2} |-> i], [i \in {i1, i2} |-> IF i = i1 THEN i2 ELSE i1]}

MCInit ==
  /\ part \in {"uptime", "alerts", "profile", "calls"}
  /\ Init /\ Alerts!Init /\ Profile!Init /\ Calls!Init

UptimeStep == part = "uptime" /\ Next /\ UNCHANGED <<part, alertVars, profileVars, callVars>>
AlertsStep == part = "alerts" /\ Alerts!Next /\ UNCHANGED <<part, uptimeVars, profileVars, callVars>>
ProfileStep == part = "profile" /\ Profile!Next /\ UNCHANGED <<part, uptimeVars, alertVars, callVars>>
CallsStep == part = "calls" /\ Calls!Next /\ UNCHANGED <<part, uptimeVars, alertVars, profileVars>>

MCNext == UptimeStep \/ AlertsStep \/ ProfileStep \/ CallsStep

MCSpec == MCInit /\ [][MCNext]_<<part, uptimeVars, alertVars, profileVars, callVars>>

(* setChainState, markSeen and chainuptime.js: no more time in a state than   *)
(* the process held it, figures that agree with each other, and not a moment  *)
(* lost to an orderly restart.                                                *)
UptimeIsHonest == part = "uptime" => RecordIsHonest /\ OrderlyRestartCostsNothing

(* rpc.js, tryEndpoints and rpcBatchOne: an error blames the key only when    *)
(* every endpoint was asked and refused it, whatever other calls moved        *)
(* meanwhile, and a strict answer has an error in no item.                    *)
CallsAreTrue == Calls!BlameIsFair /\ Calls!AnswerIsWhole

(* chainalert.js, note: no state is announced twice within its cooldown, and  *)
(* the operator's last word is stale only through the cooldown of the very    *)
(* state it fails to mention.                                                 *)
OperatorIsToldOnceAndLast ==
  Alerts!AnnouncedOncePerCooldown /\ Alerts!LastWordMayBeStaleOnlyByItsOwnCooldown

(* record and reportChanges: silence and absence are reported when they have  *)
(* repeated, and not again; the reports account for all the record holds, and *)
(* what it holds is queued for balance reads.                                 *)
ReportsMatchTheRecord ==
  /\ [](/\ Profile!SilenceIsReportedWhenItHasRepeated
        /\ Profile!ReportsAccountForTheRecord
        /\ Profile!RememberedIsQueued)
  /\ Profile!NeverSaidTwice
=============================================================================
