---------------------------- MODULE Availability ----------------------------
(***************************************************************************)
(* The availability record: how indexer.js decides the chain's state from  *)
(* its polls, writes transitions and the seen-through watermark to disk,   *)
(* and closes the gap of a restart; and what chainuptime.js publishes.     *)
(*                                                                         *)
(* Time advances in units of one poll.  'held' remembers which state the   *)
(* running process held in each unit; the record never reads it.           *)
(***************************************************************************)
EXTENDS Uptime

CONSTANTS
  Failures,      \* how the endpoints can fail a request: sets of the kinds "auth"
                 \* (answered 401, 403 or 407), "error" (answered anything else that
                 \* is not a usable result, our own code's exceptions included) and
                 \* "silent", one kind or more per request
  HaltAfter,     \* CHAIN_HALT_MS
  SeenTTL,       \* SEEN_TTL
  MinGap,        \* INCIDENT_MIN_MS
  MaxTime,       \* bound: the last instant
  MaxEnds        \* bound: deaths and orderly stops

ASSUME AvailabilityAssumption ==
  /\ Failures \subseteq SUBSET {"auth", "error", "silent"} /\ {} \notin Failures
  /\ HaltAfter \in Nat /\ SeenTTL \in Nat /\ MinGap \in Nat
  /\ MaxTime \in Nat /\ MaxEnds \in Nat

VARIABLES
  now,
  \* on disk
  events,       \* chain_events, in the order its readers see them
  seenThrough,  \* meta 'chain_seen_through', or None
  \* in the process
  session,      \* "down", "booting", "seeding" (start()'s walk), "polling" or
                \* "replay" (a tick's walk)
  polled,       \* whether this unit's poll has been made
  state,        \* chain.state
  headAt,       \* chain.headAt: when the head last advanced, or None before a head
  seenAt,       \* when markSeen last wrote, or None
  \* history
  held,         \* [0 .. now-1 -> state held, or "down"]
  crashes, stops

vars == <<now, events, seenThrough, session, polled, state, headAt, seenAt, held, crashes, stops>>

Time == 0 .. MaxTime
Up == session # "down"
Walking == session \in {"seeding", "replay"}

Init ==
  /\ now = 0
  /\ events = <<>>
  /\ seenThrough = None
  /\ session = "down"
  /\ polled = FALSE
  /\ state = "unknown"
  /\ headAt = None
  /\ seenAt = None
  /\ held = <<>>
  /\ crashes = 0
  /\ stops = 0

----------------------------------------------------------------------------
(* The steps the handlers share.                                            *)

\* chainStateFrom: a head that stands still is a halt once it has stood
\* longer than a block could plausibly take.
StateFromHead(advanced) ==
  IF headAt = None \/ advanced THEN "live"
  ELSE IF now - headAt > HaltAfter THEN "halted" ELSE "live"

\* chainStateFromError: a credentials problem only when every endpoint
\* answered and refused us.
StateFromError(kinds) == IF kinds = {"auth"} THEN "unauthorized" ELSE "unreachable"

\* markSeen, forced or when SeenTTL has passed.
MarkSeen(force) ==
  IF force \/ seenAt = None \/ now - seenAt >= SeenTTL
  THEN seenAt' = now /\ seenThrough' = now
  ELSE UNCHANGED <<seenAt, seenThrough>>

\* setChainState(next), with the markSeen its caller may add.
SetState(next, callerMarks) ==
  /\ state' = next
  /\ IF next # state
     THEN /\ events' = Append(events, [at |-> now, state |-> next])
          /\ MarkSeen(TRUE)
     ELSE /\ UNCHANGED events
          /\ IF callerMarks THEN MarkSeen(FALSE) ELSE UNCHANGED <<seenAt, seenThrough>>

\* noteHead.
NoteHead(advanced, callerMarks) ==
  /\ SetState(StateFromHead(advanced), callerMarks)
  /\ headAt' = IF headAt = None \/ advanced THEN now ELSE headAt

\* noteRpcFailure.
NoteRpcFailure(kinds, callerMarks) ==
  /\ SetState(StateFromError(kinds), callerMarks)
  /\ UNCHANGED headAt

----------------------------------------------------------------------------
(* The handlers.                                                            *)

\* openObservationWindow: close the segment the last session left open, where
\* its watermark says our knowledge ended.
GapMarker_AtBoot == <<[at |-> now, state |-> "unobserved"]>>
LastEvent == events[Len(events)]
GapMarker ==
  IF events = <<>> \/ LastEvent.state = "unobserved" THEN <<>>
  ELSE <<[at |-> Greater(seenThrough, LastEvent.at), state |-> "unobserved"]>>

\* start(), up to its first request.
Boot ==
  /\ session = "down"
  /\ session' = "booting"
  /\ polled' = FALSE
  /\ events' = events \o GapMarker
  /\ UNCHANGED <<now, seenThrough, state, headAt, seenAt, held, crashes, stops>>

\* start() reads the head and seeds history, which may take long.
SeedFrom(advanced) ==
  /\ session = "booting"
  /\ NoteHead(advanced, FALSE)
  /\ session' = "seeding"
  /\ polled' = TRUE
  /\ UNCHANGED <<now, held, crashes, stops>>

\* start() could not reach the chain, or its walk threw (an RPC error stays
\* inside the walk: what it throws is ours): both are noted as an RPC failure,
\* and the first tick follows at once.
SeedFails(kinds) ==
  /\ session = "booting" \/ (session = "seeding" /\ kinds = {"error"})
  /\ NoteRpcFailure(kinds, FALSE)
  /\ session' = "polling"
  /\ polled' = FALSE
  /\ UNCHANGED <<now, held, crashes, stops>>

\* tickOnce reads the head; what it then has to index may take long.
PollHead(advanced) ==
  /\ session = "polling"
  /\ ~polled
  /\ NoteHead(advanced, TRUE)
  /\ session' \in {"polling", "replay"}
  /\ polled' = TRUE
  /\ UNCHANGED <<now, held, crashes, stops>>

\* tickOnce could not: the failure path marks the record as watched too.
PollFails(kinds) ==
  /\ session = "polling"
  /\ ~polled
  /\ NoteRpcFailure(kinds, TRUE)
  /\ polled' = TRUE
  /\ UNCHANGED <<now, session, held, crashes, stops>>

\* progressRefresh, in the middle of a walk.
RefreshHead(advanced) ==
  /\ Walking
  /\ ~polled
  /\ NoteHead(advanced, FALSE)
  /\ polled' = TRUE
  /\ UNCHANGED <<now, session, held, crashes, stops>>

RefreshFails(kinds) ==
  /\ Walking
  /\ ~polled
  /\ NoteRpcFailure(kinds, FALSE)
  /\ polled' = TRUE
  /\ UNCHANGED <<now, session, held, crashes, stops>>

\* The walk is over: start() ticks at once, a tick leaves it to the timer.
EndWalk ==
  /\ Walking
  /\ session' = "polling"
  /\ polled' = (polled /\ session = "replay")
  /\ UNCHANGED <<now, events, seenThrough, state, headAt, seenAt, held, crashes, stops>>

\* The process is gone: what it held in memory with it.
Forget ==
  /\ session' = "down"
  /\ polled' = FALSE
  /\ state' = "unknown"
  /\ headAt' = None
  /\ seenAt' = None

\* stop(): the watermark is flushed on the way out.
Flush == now
Stop ==
  /\ Up
  /\ crashes + stops < MaxEnds
  /\ stops' = stops + 1
  /\ seenThrough' = Flush
  /\ Forget
  /\ UNCHANGED <<now, events, held, crashes>>

Crash ==
  /\ Up
  /\ crashes + stops < MaxEnds
  /\ crashes' = crashes + 1
  /\ Forget
  /\ UNCHANGED <<now, events, seenThrough, held, stops>>

\* A unit of time passes.  The timer polls once in each; a boot's first
\* request and a walk between two refreshes may hang.
TimePasses ==
  /\ now < MaxTime
  /\ session = "polling" => polled
  /\ now' = now + 1
  /\ held' = Append(held, IF Up THEN state ELSE "down")
  /\ polled' = FALSE
  /\ UNCHANGED <<events, seenThrough, session, state, headAt, seenAt, crashes, stops>>

Next ==
  \/ Boot \/ EndWalk \/ Stop \/ Crash \/ TimePasses
  \/ \E advanced \in BOOLEAN : SeedFrom(advanced) \/ PollHead(advanced) \/ RefreshHead(advanced)
  \/ \E kinds \in Failures : SeedFails(kinds) \/ PollFails(kinds) \/ RefreshFails(kinds)

Spec == Init /\ [][Next]_vars

----------------------------------------------------------------------------
(* What is published, and the properties.                                   *)

\* chainEventsSince: the window, plus the one transition before it.
FirstSince(from) ==
  LET before == {i \in 1 .. Len(events) : events[i].at < from}
  IN IF before = {} THEN 1 ELSE CHOOSE i \in before : \A j \in before : j <= i
EventsSince(from) == SubSeq(events, FirstSince(from), Len(events))

\* record(): the fold over the window [from, now].
Published(from) == UptimeFrom(EventsSince(from), from, now, seenThrough)

TimeHeld(s, from) == Cardinality({t \in from .. now - 1 : held[t + 1] = s})

Observable == {"live", "halted", "unreachable", "unauthorized"}

\* Nothing invented: over every window, the record never publishes more time
\* in a state than the process spent holding it.  A gap between sessions is
\* never read as the chain having stayed where it was.
NothingInvented ==
  \A from \in 0 .. now :
    LET published == Published(from) IN \A s \in Observable : published[s] <= TimeHeld(s, from)

\* An orderly restart costs the record nothing: without crashes, what is
\* published up to the watermark is exactly what was held.
OrderlyRestartCostsNothing ==
  crashes = 0 /\ seenThrough = now =>
    \A from \in 0 .. now :
      LET published == Published(from) IN \A s \in Observable : published[s] = TimeHeld(s, from)

\* The published figures are one record: the totals book every instant of every
\* window exactly once, and the list of incidents agrees with them on every
\* state but our own gaps, of which it leaves out the short ones.
Booked(published) ==
  published["live"] + published["halted"] + published["unreachable"] + published["unauthorized"] + published["unobserved"]
Listed(incidents, s) ==
  Cardinality({u \in incidents \X Time : u[1].state = s /\ u[1].from <= u[2] /\ u[2] < u[1].to})

PublishedFiguresAgree ==
  \A from \in 0 .. now :
    LET published == Published(from)
        incidents == Incidents(EventsSince(from), from, now, seenThrough, MinGap)
    IN  /\ Booked(published) = now - from
        /\ \A s \in Observable \ {"live"} : Listed(incidents, s) = published[s]

\* The published record, as a whole: it invents nothing and agrees with itself.
RecordIsHonest == NothingInvented /\ PublishedFiguresAgree
=============================================================================
