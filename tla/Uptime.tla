------------------------------- MODULE Uptime -------------------------------
(***************************************************************************)
(* chainuptime.js: a log of chain-state transitions folded into the time   *)
(* spent in each state over a window, and into a list of incidents.        *)
(***************************************************************************)
EXTENDS Integers, Sequences, FiniteSets

None == -1

\* What each state is evidence of (VERDICT).
UpStates == {"live"}
DownStates == {"halted", "unreachable"}
Verdict == [s \in {"live", "halted", "unreachable", "unauthorized", "unobserved"} |->
              IF s \in UpStates THEN "up" ELSE IF s \in DownStates THEN "down" ELSE "unobserved"]
States == DOMAIN Verdict

Lesser(a, b) == IF a < b THEN a ELSE b
Greater(a, b) == IF a > b THEN a ELSE b

\* Where a transition's segment ends: at the next transition, or where the
\* watermark says our knowledge does.
SegmentEnd(events, i, to, seenThrough) ==
  IF i < Len(events) THEN events[i + 1].at
  ELSE IF seenThrough = None THEN events[i].at
  ELSE Lesser(to, seenThrough)

\* What is left of a segment inside the window.
Clip(begin, end, from, to) == Greater(0, Lesser(end, to) - Greater(begin, from))

\* Time the log says nothing about: before its first row and past its end.
Uncovered(events, from, to, seenThrough) ==
  IF events = <<>> THEN to - from
  ELSE LET end == SegmentEnd(events, Len(events), to, seenThrough)
       IN Clip(from, events[1].at, from, to) + Clip(Lesser(to, end), to, from, to)

\* The instants of the segments in a state, clipped to the window, each as often
\* as segments hold it: their number is the sum of the clipped segments.
Spent(events, s, from, to, seenThrough) ==
  {u \in (1 .. Len(events)) \X (from .. to - 1) :
     /\ events[u[1]].state = s
     /\ events[u[1]].at <= u[2] /\ u[2] < SegmentEnd(events, u[1], to, seenThrough)}

\* uptimeFrom: milliseconds per state over [from, to].
UptimeFrom(events, from, to, seenThrough) ==
  [s \in States |->
     Cardinality(Spent(events, s, from, to, seenThrough))
       + IF s = "unobserved" THEN Uncovered(events, from, to, seenThrough) ELSE 0]

ObservedMs(byState) == byState["live"] + byState["halted"] + byState["unreachable"]

\* incidents: the stretches that were not live, without our own short gaps.
Incidents(events, from, to, seenThrough, minGap) ==
  LET end(i) == Lesser(SegmentEnd(events, i, to, seenThrough), to)
      start(i) == Greater(events[i].at, from)
  IN {[state |-> events[i].state, from |-> start(i), to |-> end(i), row |-> i] :
        i \in {k \in 1 .. Len(events) :
                 /\ events[k].state # "live"
                 /\ end(k) > start(k)
                 /\ ~(events[k].state = "unobserved" /\ end(k) - start(k) < minGap)}}
=============================================================================
