------------------------------- MODULE Digest -------------------------------
(***************************************************************************)
(* The daily usage digest: server.js checks every hour whether yesterday   *)
(* has been reported, usage.js decides whether there is something to say,  *)
(* and two meta rows remember the answer.  Day d is closed, and may be     *)
(* reported, while today = d + 1.                                          *)
(***************************************************************************)
EXTENDS Integers, FiniteSets

CONSTANTS
  Heartbeat,   \* QUIET_DAYS_BEFORE_HEARTBEAT
  LastDay, MaxDeaths, MaxLost, MaxChecks   \* bounds; MaxChecks is per day

DigestAssumption ==
  /\ Heartbeat \in Nat \ {0}
  /\ {LastDay, MaxDeaths, MaxLost, MaxChecks} \subseteq Nat

VARIABLES
  today,
  busy,        \* the days with a call or a new key
  lastDay,     \* meta 'usage_digest_last_day'; 0 is also "no row"
  quietDays,   \* meta 'usage_digest_quiet_days'
  check,       \* maybeSendDigest in progress: [stage, day, quiet, busy]
  checks,      \* how many began today
  marked,      \* history: the days that were marked reported
  arrived,     \* history: the messages that arrived, [day, quiet], as a count per message
  deaths, lost \* how often the process died, how often an answer to a send was lost

vars == <<today, busy, lastDay, quietDays, check, checks, marked, arrived, deaths, lost>>

Days == 1 .. LastDay
Idle == [stage |-> "idle"]

Init ==
  /\ today = 2
  /\ busy \in SUBSET Days
  /\ lastDay = 0
  /\ quietDays = 0
  /\ check = Idle
  /\ checks = 0
  /\ marked = {}
  /\ arrived = [m \in {} |-> 0]
  /\ deaths = 0
  /\ lost = 0

Count(f, m) == [x \in DOMAIN f \cup {m} |-> (IF x \in DOMAIN f THEN f[x] ELSE 0) + (IF x = m THEN 1 ELSE 0)]
ArrivalsFor(d) == {m \in DOMAIN arrived : m.day = d}

----------------------------------------------------------------------------
\* The guard of maybeSendDigest.
Reported(day) == lastDay >= day

\* buildDigest: a busy day always, a quiet one when silence has lasted.
ToSend(isBusy, quiet) == isBusy \/ quiet >= Heartbeat

\* An hourly check finds yesterday unreported and composes its digest; a quiet
\* day that needs no message is marked at once.
FirstStage(isBusy, quiet) == IF ToSend(isBusy, quiet) THEN "sending" ELSE "marking"
BeginCheck ==
  /\ check = Idle
  /\ checks < MaxChecks
  /\ ~Reported(today - 1)
  /\ checks' = checks + 1
  /\ LET isBusy == today - 1 \in busy
     IN check' = [stage |-> FirstStage(isBusy, quietDays + 1),
                  day |-> today - 1, quiet |-> quietDays + 1, busy |-> isBusy]
  /\ UNCHANGED <<marked, today, busy, lastDay, quietDays, arrived, deaths, lost>>

\* The message arrives and Telegram says so.
Sent ==
  /\ check.stage = "sending"
  /\ arrived' = Count(arrived, [day |-> check.day, quiet |-> check.quiet, busy |-> check.busy])
  /\ check' = [check EXCEPT !.stage = "marking"]
  /\ UNCHANGED <<marked, today, busy, lastDay, quietDays, checks, deaths, lost>>

\* The send throws, although the message may have arrived.
SendFails ==
  /\ check.stage = "sending"
  /\ check' = Idle
  /\ \/ UNCHANGED <<arrived, lost>>
     \/ /\ lost < MaxLost
        /\ lost' = lost + 1
        /\ arrived' = Count(arrived, [day |-> check.day, quiet |-> check.quiet, busy |-> check.busy])
  /\ UNCHANGED <<marked, today, busy, lastDay, quietDays, checks, deaths>>

\* The quiet days so far, from zero again after a busy day or a heartbeat.
QuietAfter_AcrossBusyDays(isBusy, quiet) == IF quiet >= Heartbeat THEN 0 ELSE quiet
QuietAfter(isBusy, quiet) == IF isBusy \/ quiet >= Heartbeat THEN 0 ELSE quiet

\* markReported: two rows, one after the other.
MarkDay ==
  /\ check.stage = "marking"
  /\ lastDay' = check.day
  /\ marked' = marked \cup {check.day}
  /\ check' = [check EXCEPT !.stage = "counting"]
  /\ UNCHANGED <<today, busy, quietDays, checks, arrived, deaths, lost>>

CountQuiet ==
  /\ check.stage = "counting"
  /\ quietDays' = QuietAfter(check.busy, check.quiet)
  /\ check' = Idle
  /\ UNCHANGED <<marked, today, busy, lastDay, checks, arrived, deaths, lost>>

Death ==
  /\ check # Idle
  /\ deaths < MaxDeaths
  /\ deaths' = deaths + 1
  /\ check' = Idle
  /\ UNCHANGED <<marked, today, busy, lastDay, quietDays, checks, arrived, lost>>

\* Midnight; only a send, which is awaited, can be under way.
NextDay ==
  /\ check.stage \in {"idle", "sending"}
  /\ today <= LastDay
  /\ today' = today + 1
  /\ checks' = 0
  /\ UNCHANGED <<marked, busy, lastDay, quietDays, check, arrived, deaths, lost>>

Next == BeginCheck \/ Sent \/ SendFails \/ MarkDay \/ CountQuiet \/ Death \/ NextDay

Spec == Init /\ [][Next]_vars

----------------------------------------------------------------------------
(* Properties.                                                              *)

\* What the comment at markReported asks for: a busy day is marked reported
\* only once its digest has reached someone.
MarkedMeansArrived ==
  lastDay \in busy => ArrivalsFor(lastDay) # {}

\* A digest is sent again only for a reason outside the code: a death between
\* the send and its mark, or an answer that was lost.
ArrivesOnceUnlessInterrupted ==
  \A m \in DOMAIN arrived : arrived[m] <= 1 + deaths + lost

\* What the heartbeat's text says, as far as it is true: without a death between
\* the two rows, the days it counts are the last ones a check reported, and none
\* of them was busy.  (Of a day no check reported it knows nothing.)
HeartbeatCountsReportedDays ==
  \A m \in DOMAIN arrived :
    LET days == {d \in marked \cup {m.day} : d <= m.day}
        counted == {d \in days : Cardinality({e \in days : e > d}) < m.quiet}
    IN deaths = 0 /\ ~m.busy => counted \cap busy = {} /\ Cardinality(counted) = m.quiet
=============================================================================
