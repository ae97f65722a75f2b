------------------------------- MODULE Drafts -------------------------------
(***************************************************************************)
(* whalewatch.js: notable transfers of the in-memory feed become drafts in *)
(* a table, each once, and the drafts are posted to Telegram in turn.  The *)
(* timer does not wait for the tick before it.                             *)
(***************************************************************************)
EXTENDS Integers, Sequences, FiniteSets

CONSTANTS
  Events,      \* notable transfers, as their dedupeKeys
  FeedMax,     \* FEED_MAX
  Ticks,       \* bound: the ticks that may be under way together
  MaxPushes,   \* bound: entries ever made to the feed
  MaxCrashes,  \* bound
  MaxLost      \* bound: answers lost after the message arrived

DraftsAssumption ==
  /\ IsFiniteSet(Events) /\ IsFiniteSet(Ticks)
  /\ FeedMax \in Nat \ {0} /\ {MaxPushes, MaxCrashes, MaxLost} \subseteq Nat

VARIABLES
  feed,       \* alertFeed, newest first
  drafts,     \* table tweet_drafts, by id: [event, delivered]
  tick,       \* the ids still to send, per tick under way; of a tick that is not, none
  reached,    \* per tick: its message has arrived, and no answer has
  posts,      \* history: the ids posted, in the order their messages arrived
  pushes, crashes,
  lost        \* answers lost after the message arrived

vars == <<feed, drafts, tick, reached, posts, pushes, crashes, lost>>

Drafted == {drafts[i].event : i \in DOMAIN drafts}
Undelivered_InTheFeed ==
  {i \in DOMAIN drafts : ~drafts[i].delivered /\ \E j \in DOMAIN feed : feed[j] = drafts[i].event}
Undelivered == {i \in DOMAIN drafts : ~drafts[i].delivered}

Init ==
  /\ feed = <<>>
  /\ drafts = <<>>
  /\ tick = [t \in Ticks |-> {}]
  /\ reached = [t \in Ticks |-> FALSE]
  /\ posts = <<>>
  /\ pushes = 0
  /\ crashes = 0
  /\ lost = 0

\* What the feed keeps.
Shown(entries) == SubSeq(entries, 1, IF Len(entries) < FeedMax THEN Len(entries) ELSE FeedMax)

\* pushFeed, from the indexer: a batch indexed again pushes its events again.
Push(e) ==
  /\ pushes < MaxPushes
  /\ pushes' = pushes + 1
  /\ feed' = Shown(<<e>> \o feed)
  /\ UNCHANGED <<drafts, tick, reached, posts, crashes, lost>>

\* createTweetDraft: INSERT OR IGNORE on the dedupeKey, for the feed in order.
Fresh == {i \in DOMAIN feed : feed[i] \notin Drafted /\ \A j \in 1 .. i - 1 : feed[j] # feed[i]}
Place(i) == Cardinality({j \in Fresh : j <= i})
FreshAt(k) == CHOOSE i \in Fresh : Place(i) = k
New == [k \in 1 .. Cardinality(Fresh) |-> [event |-> feed[FreshAt(k)], delivered |-> FALSE]]
Inserted == drafts \o New

\* tick: the drafts are written and the undelivered ones read, with no await
\* until the first send.
BeginTick(t) ==
  /\ tick[t] = {}
  /\ UNCHANGED <<feed, reached, posts, pushes, crashes, lost>>
  /\ drafts' = Inserted
  /\ tick' = [tick EXCEPT ![t] = Undelivered']

\* ORDER BY id: the draft that is being sent.
Sending(t) == CHOOSE d \in tick[t] : \A e \in tick[t] : d <= e

\* What is left to send: after a success the rest, after a failure nothing.
Left(t) == tick[t] \ {Sending(t)}
AfterFailure_GoesOn(t) == Left(t)
AfterFailure(t) == {}

\* markDraftDelivered.
Delivered(d) == [drafts EXCEPT ![d].delivered = TRUE]

\* The message that is being sent arrives.
Arrives(t) ==
  /\ tick[t] # {} /\ ~reached[t]
  /\ posts' = Append(posts, Sending(t))
  /\ reached' = [reached EXCEPT ![t] = TRUE]
  /\ UNCHANGED <<feed, drafts, tick, pushes, crashes, lost>>

\* sendTelegram returns: the draft is marked and the next one sent.
Sent(t) ==
  /\ reached[t]
  /\ reached' = [reached EXCEPT ![t] = FALSE]
  /\ drafts' = Delivered(Sending(t))
  /\ tick' = [tick EXCEPT ![t] = Left(t)]
  /\ UNCHANGED <<feed, posts, pushes, crashes, lost>>

\* It throws, refused, timed out or not understood, and perhaps after the
\* message arrived: the tick gives up the rest.
SendFails(t) ==
  /\ tick[t] # {}
  /\ IF reached[t] THEN lost < MaxLost /\ lost' = lost + 1 ELSE UNCHANGED lost
  /\ reached' = [reached EXCEPT ![t] = FALSE]
  /\ tick' = [tick EXCEPT ![t] = AfterFailure(t)]
  /\ UNCHANGED <<feed, drafts, posts, pushes, crashes>>

\* The process dies, perhaps after sends that arrived and before their marks.
Crash ==
  /\ crashes < MaxCrashes
  /\ crashes' = crashes + 1
  /\ feed' = <<>>
  /\ tick' = [t \in Ticks |-> {}]
  /\ reached' = [t \in Ticks |-> FALSE]
  /\ UNCHANGED <<drafts, posts, pushes, lost>>

Next ==
  \/ \E e \in Events : Push(e)
  \/ \E t \in Ticks : BeginTick(t) \/ Arrives(t) \/ Sent(t) \/ SendFails(t)
  \/ Crash

\* The timer ticks, and Telegram does not for ever refuse what it is asked again
\* and again, or leave it without an answer.
Fairness == \A t \in Ticks : WF_vars(BeginTick(t)) /\ SF_vars(Arrives(t)) /\ SF_vars(Sent(t))
Spec == Init /\ [][Next]_vars /\ Fairness

----------------------------------------------------------------------------
(* Properties.                                                              *)

FirstPost(i) == \A j \in 1 .. i - 1 : posts[j] # posts[i]

\* However often an event is pushed, indexed again or still in the feed, it
\* becomes one draft.
OneDraftPerEvent == \A i, j \in DOMAIN drafts : drafts[i].event = drafts[j].event => i = j

\* The channel is first told of the drafts in the order they were made, even
\* when ticks overlap and sends fail.
FirstPostsInOrder == 
  \A i, j \in DOMAIN posts : i < j /\ FirstPost(i) /\ FirstPost(j) => posts[i] < posts[j]

\* What 'undelivered' can still be worth when ticks overlap and answers are
\* lost: before its mark a draft is posted again only for an answer that was
\* lost, or for a death, which cuts off one send of each tick at most; and the
\* ticks that read it before its mark post it once each. A tick that begins
\* after the mark never does.
ResentOnlyWithCause ==
  \A d \in DOMAIN drafts :
    Cardinality({i \in DOMAIN posts : posts[i] = d}) <= Cardinality(Ticks) * (1 + crashes) + lost

\* Every draft is delivered in the end.
EveryDraftIsDelivered ==
  \A i \in 1 .. Cardinality(Events) : (i \in DOMAIN drafts) ~> (i \in DOMAIN drafts /\ drafts[i].delivered)
=============================================================================
