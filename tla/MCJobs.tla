------------------------------- MODULE MCJobs -------------------------------
(* Two jobs that read what is indexed and must come to an end: the posting of *)
(* notable transfers (Drafts) and the draft of the weekly report              *)
(* (WeeklyReport). They share nothing, so a behaviour here is a behaviour of  *)
(* one of them, named by doing.                                               *)
EXTENDS Integers

CONSTANTS
  e1, e2, t1, t2,
  Events, Ticks, FeedMax, MaxPushes, MaxPosterDeaths, MaxLostAnswers,      \* Drafts
  Published, WeekLength, MaxBlock, FirstStep                               \* WeeklyReport

VARIABLES
  doing,
  feed, drafts, tick, reached, posts, pushes, posterDeaths, lostAnswers,   \* Drafts
  stamp, minted, wrong, recordFirst, windowEnd,                            \* WeeklyReport
  phase, todo, lo, hi, step, reads, rounds

Posting == INSTANCE Drafts
  WITH MaxCrashes <- MaxPosterDeaths, crashes <- posterDeaths, MaxLost <- MaxLostAnswers, lost <- lostAnswers
Weekly == INSTANCE WeeklyReport

ASSUME JobsAssumption == Posting!DraftsAssumption /\ Weekly!WeeklyAssumption

postingVars == <<feed, drafts, tick, reached, posts, pushes, posterDeaths, lostAnswers>>
weeklyVars == <<stamp, minted, wrong, recordFirst, windowEnd, phase, todo, lo, hi, step, reads, rounds>>
jobsVars == <<doing, postingVars, weeklyVars>>

(* The report that is not drafted rests on a chain of one kind.               *)
Resting ==
  /\ minted = [n \in 0..MaxBlock |-> 1] /\ stamp = [n \in 0..MaxBlock |-> 0]
  /\ wrong = -1 /\ recordFirst = 0 /\ windowEnd = Published

JobsInit ==
  /\ doing \in {"posting", "weekly"}
  /\ Posting!Init /\ Weekly!Init
  /\ doing = "posting" => Resting

PostingStep == doing = "posting" /\ Posting!Next /\ UNCHANGED <<doing, weeklyVars>>
WeeklyStep == doing = "weekly" /\ Weekly!Next /\ UNCHANGED <<doing, postingVars>>

JobsNext == PostingStep \/ WeeklyStep

(* What Drafts and WeeklyReport assume, each of its own part.                  *)
JobsFairness ==
  /\ \A t \in Ticks :
       /\ WF_jobsVars(doing = "posting" /\ Posting!BeginTick(t) /\ UNCHANGED <<doing, weeklyVars>>)
       /\ SF_jobsVars(doing = "posting" /\ Posting!Arrives(t) /\ UNCHANGED <<doing, weeklyVars>>)
       /\ SF_jobsVars(doing = "posting" /\ Posting!Sent(t) /\ UNCHANGED <<doing, weeklyVars>>)
  /\ WF_jobsVars(doing = "weekly" /\ Weekly!Step /\ UNCHANGED <<doing, postingVars>>)

JobsSpec == JobsInit /\ [][JobsNext]_jobsVars /\ JobsFairness

(* whalewatch.js, evaluate and deliverPendingDrafts: an event becomes one     *)
(* draft, the channel first hears of the drafts in their order, and hears of  *)
(* one again only through ticks that overlap, an answer lost after the send   *)
(* arrived, or a death.                                                       *)
PostedOnceInOrder ==
  Posting!OneDraftPerEvent /\ Posting!FirstPostsInOrder /\ Posting!ResentOnlyWithCause

(* scripts/weekly*.mjs: each day's close is the last block before midnight, a *)
(* check fails exactly where index and chain disagree, and a new high is one. *)
ReportIsTrue ==
  Weekly!CloseIsTheLastBlockBefore /\ Weekly!ChecksFindTheWrongDay /\ Weekly!NewHighIsTrue

(* whalewatch.js, deliverPendingDrafts, and weekly-report.mjs, main: every    *)
(* draft is delivered in the end, though sends fail and the feed moves on,    *)
(* and the script ends, with a draft or with a reason.                        *)
EveryJobEnds ==
  Posting!EveryDraftIsDelivered /\ (doing = "weekly" => Weekly!ScriptEnds)
=============================================================================
