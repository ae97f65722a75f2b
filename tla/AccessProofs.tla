---------------------------- MODULE AccessProofs ----------------------------
(***************************************************************************)
(* Proofs about Access, for any number of requests, any limits and any     *)
(* times: what is answered is counted once and is recent, and a limiter    *)
(* keeps to its limit.  The request in hand is the only one a step moves,  *)
(* except at the end of the process; so each invariant of the counts is    *)
(* shown from what one step does to one request.                           *)
(***************************************************************************)
EXTENDS Access, FiniteSetTheorems, TLAPS

----------------------------------------------------------------------------
(* Types, and what a request has at each stage.                             *)

Fields == {"at", "kind", "label", "event", "status", "got", "of", "since"}
V1Labels == {"/v1/route", "/v1/invented", "/v1/keys"}
Statuses == {None, 200, 201, 202, 204, 400, 401, 404, 413, 429, 500}

RequestType(q) ==
  /\ DOMAIN q = Fields
  /\ q.at \in {"none", "reading", "loading", "answered", "finished", "gone", "dropped"}
  /\ q.label \in V1Labels \cup {"none"} /\ q.status \in Statuses
  /\ q.of \in Int /\ q.since \in Int

\* A request that has not arrived has nothing; one that waits for its body or its file has no answer.
Stage(q) ==
  /\ q.at = "none" => q.kind = "none" /\ q.status = None /\ q.got = "nothing"
  /\ q.at = "reading" => q.kind \in {"mint", "mcp"} /\ q.status = None /\ q.got = "nothing"
  /\ q.at = "loading" => q.kind = "page" /\ q.status = None /\ q.got = "nothing"

RequestsOK == DOMAIN request = R /\ \A r \in R : RequestType(request[r]) /\ Stage(request[r])

TypeOK ==
  /\ now \in Times /\ up \in {"up", "closing", "down"} /\ restarts \in Nat
  /\ tier \in {"free", "pro"} /\ lapsed \in BOOLEAN /\ raised \in BOOLEAN
  /\ RequestsOK
  /\ DOMAIN window = Counters /\ \A c \in Counters : window[c].win \in Int /\ window[c].count \in Nat
  /\ asset \in BOOLEAN /\ page.made \in Int /\ page.of \in Int
  /\ hits \in [Labels -> Nat] /\ keyTotal \in Nat /\ keyDaily \in [Days -> Nat]
  /\ admitted \in [Counters -> Nat]

----------------------------------------------------------------------------
(* What one step does to the requests.                                      *)

\* r is the only request that moves.
OthersKept(r) == DOMAIN request' = R /\ \A q \in R \ {r} : request'[q] = request[q]

IsServed(q, l) == q.at = "finished" /\ q.label = l /\ q.status \in 200..299
IsListing(q) == q.got = "listing"
IsFigures(q) == q.got = "figures"
IsKeyed(q) == q.kind = "key" /\ q.status # 429
SameListings(r) == (IsListing(request'[r]) <=> IsListing(request[r])) /\ (IsFigures(request'[r]) <=> IsFigures(request[r]))
SameServed(r) == \A l \in V1Labels : IsServed(request'[r], l) <=> IsServed(request[r], l)
SameKeyed(r) == IsKeyed(request'[r]) <=> IsKeyed(request[r])
SameCounts == \A q \in R : SameListings(q) /\ SameServed(q) /\ SameKeyed(q)

\* The age of a page, and of one that waits for its file.
PageAge(q) == q.kind = "page" /\ q.status = 200 => q.since - q.of <= TemplateTtl + MaxLoad
LoadAge(q, t) == q.at = "loading" => q.since <= t /\ t - q.since <= MaxLoad

\* A request is turned away by the limiter of its kind.
TurnedAway(r, c) == request[r].at = "none" /\ request'[r].status = 429 /\ request'[r].kind = c

LEMMA BlankFields == DOMAIN Blank = Fields
BY DEF Blank, Fields

\* A step that gives request r new fields keeps the others, of r and of the rest.
LEMMA BecomesDoes ==
  ASSUME RequestsOK, NEW r \in R, NEW new, Becomes(r, new)
  PROVE  /\ OthersKept(r)
         /\ DOMAIN request'[r] = Fields
         /\ \A f \in Fields : request'[r][f] = IF f \in DOMAIN new THEN new[f] ELSE request[r][f]
BY BlankFields DEF RequestsOK, Becomes, OthersKept

\* An answer on arrival.
LEMMA AnsweredOnArrival ==
  ASSUME RequestsOK, NEW r \in R, request[r].at = "none",
         NEW kind, NEW label \in V1Labels \cup {"none"}, NEW status \in Statuses,
         Becomes(r, Answered(kind, label, status))
  PROVE  /\ OthersKept(r) /\ RequestType(request'[r]) /\ Stage(request'[r])
         /\ request'[r].at = "answered" /\ request'[r].kind = kind /\ request'[r].status = status
         /\ request'[r].got = "nothing"
<1> DEFINE new == Answered(kind, label, status)
<1>1. /\ OthersKept(r) /\ DOMAIN request'[r] = Fields
      /\ \A f \in Fields : request'[r][f] = IF f \in DOMAIN new THEN new[f] ELSE request[r][f]
  BY BecomesDoes
<1>2. DOMAIN new = {"at", "kind", "label", "status"}
  BY DEF Answered
<1>3. /\ request'[r].at = "answered" /\ request'[r].kind = kind /\ request'[r].label = label
      /\ request'[r].status = status /\ request'[r].got = request[r].got
      /\ request'[r].of = request[r].of /\ request'[r].since = request[r].since
  BY <1>1, <1>2 DEF Answered, Fields
<1>4. RequestType(request[r]) /\ Stage(request[r])
  BY DEF RequestsOK
<1> HIDE DEF new
<1> QED
  BY <1>1, <1>3, <1>4 DEF RequestType, Stage

\* An answer to what arrived before: new fields, its kind and label remain.
LEMMA RepliedLater ==
  ASSUME RequestsOK, NEW r \in R, request[r].at = "reading",
         NEW status \in Statuses, NEW got, Becomes(r, Reply(status, got))
  PROVE  /\ OthersKept(r) /\ RequestType(request'[r]) /\ Stage(request'[r])
         /\ request'[r].at = "answered" /\ request'[r].kind = request[r].kind
         /\ request'[r].label = request[r].label
         /\ request'[r].status = status /\ request'[r].got = got
<1> DEFINE new == Reply(status, got)
<1>1. /\ OthersKept(r) /\ DOMAIN request'[r] = Fields
      /\ \A f \in Fields : request'[r][f] = IF f \in DOMAIN new THEN new[f] ELSE request[r][f]
  BY BecomesDoes
<1>2. DOMAIN new = {"at", "status", "got"}
  BY DEF Reply
<1>3. /\ request'[r].at = "answered" /\ request'[r].kind = request[r].kind /\ request'[r].label = request[r].label
      /\ request'[r].status = status /\ request'[r].got = got
      /\ request'[r].of = request[r].of /\ request'[r].since = request[r].since
  BY <1>1, <1>2 DEF Reply, Fields
<1>4. RequestType(request[r]) /\ Stage(request[r])
  BY DEF RequestsOK
<1> HIDE DEF new
<1> QED
  BY <1>1, <1>3, <1>4 DEF RequestType, Stage

\* A page, on arrival or once its file is read.
LEMMA PageGiven ==
  ASSUME RequestsOK, NEW r \in R, request[r].at \in {"none", "loading"}, now \in Int,
         NEW of \in Int, Becomes(r, Page(of))
  PROVE  /\ OthersKept(r) /\ RequestType(request'[r]) /\ Stage(request'[r])
         /\ request'[r].at = "answered" /\ request'[r].kind = "page" /\ request'[r].status = 200
         /\ request'[r].got = "nothing" /\ request'[r].of = of /\ request'[r].since = now
<1> DEFINE new == Page(of)
<1>1. /\ OthersKept(r) /\ DOMAIN request'[r] = Fields
      /\ \A f \in Fields : request'[r][f] = IF f \in DOMAIN new THEN new[f] ELSE request[r][f]
  BY BecomesDoes
<1>2. DOMAIN new = {"at", "kind", "status", "of", "since"}
  BY DEF Page
<1>3. /\ request'[r].at = "answered" /\ request'[r].kind = "page" /\ request'[r].label = request[r].label
      /\ request'[r].status = 200 /\ request'[r].got = request[r].got
      /\ request'[r].of = of /\ request'[r].since = now
  BY <1>1, <1>2 DEF Page, Fields
<1>4. RequestType(request[r]) /\ Stage(request[r])
  BY DEF RequestsOK
<1> HIDE DEF new
<1> QED
  BY <1>1, <1>3, <1>4 DEF RequestType, Stage, Statuses

\* What a step says of the request it moves, beyond its type.
Kept(r) == OthersKept(r) /\ RequestType(request'[r]) /\ Stage(request'[r])
Uncounted(r) == SameListings(r) /\ SameServed(r) /\ SameKeyed(r)
Aged(r) == PageAge(request'[r]) /\ LoadAge(request'[r], now)
NotTurned(r) == \A c \in Counters : ~TurnedAway(r, c)

LEMMA PreflightDoes ==
  ASSUME TypeOK, NEW r \in R, Preflight(r)
  PROVE  Kept(r) /\ Uncounted(r) /\ Aged(r) /\ NotTurned(r)
<1>1. request[r].at = "none" /\ RequestsOK
  BY DEF Preflight, Arriving, TypeOK
<1>2. PICK l \in {"/v1/route", "/v1/invented"} : Becomes(r, Answered("preflight", l, 204))
  BY DEF Preflight
<1>3. /\ Kept(r) /\ request'[r].at = "answered" /\ request'[r].kind = "preflight"
      /\ request'[r].status = 204 /\ request'[r].got = "nothing"
  BY <1>1, <1>2, AnsweredOnArrival DEF V1Labels, Statuses, Kept
<1>4. Stage(request[r])
  BY <1>1 DEF RequestsOK
<1> QED
  BY <1>1, <1>3, <1>4 DEF Stage, Uncounted, SameListings, SameServed, SameKeyed, IsListing, IsFigures, IsServed, IsKeyed,
     Aged, PageAge, LoadAge, NotTurned, TurnedAway

LEMMA UnkeyedDoes ==
  ASSUME TypeOK, NEW r \in R, Unkeyed(r)
  PROVE  Kept(r) /\ Uncounted(r) /\ Aged(r) /\ NotTurned(r)
<1>1. request[r].at = "none" /\ RequestsOK /\ Becomes(r, Answered("unkeyed", "/v1/route", 401))
  BY DEF Unkeyed, Arriving, TypeOK
<1>3. /\ Kept(r) /\ request'[r].at = "answered" /\ request'[r].kind = "unkeyed"
      /\ request'[r].status = 401 /\ request'[r].got = "nothing"
  BY <1>1, AnsweredOnArrival DEF V1Labels, Statuses, Kept
<1>4. Stage(request[r])
  BY <1>1 DEF RequestsOK
<1> QED
  BY <1>1, <1>3, <1>4 DEF Stage, Uncounted, SameListings, SameServed, SameKeyed, IsListing, IsFigures, IsServed, IsKeyed,
     Aged, PageAge, LoadAge, NotTurned, TurnedAway

\* A call with a key: its one effect on the counts is that it is one more of the key's calls, when it is let in.
LEMMA KeyedDoes ==
  ASSUME TypeOK, NEW r \in R, Arriving(r), NEW ok \in BOOLEAN,
         NEW a \in IF ok THEN RouteAnswers ELSE {Answered("key", "/v1/route", 429)}, Becomes(r, a)
  PROVE  /\ Kept(r) /\ SameListings(r) /\ SameServed(r) /\ Aged(r)
         /\ ~IsKeyed(request[r]) /\ (IsKeyed(request'[r]) <=> ok)
         /\ \A c \in Counters : TurnedAway(r, c) => c = "key" /\ ~ok
<1>1. request[r].at = "none" /\ RequestsOK
  BY DEF Arriving, TypeOK
<1>2. PICK l \in V1Labels, s \in Statuses : a = Answered("key", l, s) /\ (s # 429 <=> ok)
  <2>1. CASE ok
    BY <2>1 DEF RouteAnswers, V1Labels, Statuses
  <2>2. CASE ~ok
    BY <2>2 DEF V1Labels, Statuses
  <2> QED
    BY <2>1, <2>2
<1>3. /\ Kept(r) /\ request'[r].at = "answered" /\ request'[r].kind = "key"
      /\ request'[r].status = s /\ request'[r].got = "nothing"
  BY <1>1, <1>2, AnsweredOnArrival DEF Kept
<1>4. Stage(request[r])
  BY <1>1 DEF RequestsOK
<1> QED
  BY <1>1, <1>2, <1>3, <1>4 DEF Stage, SameListings, SameServed, IsListing, IsFigures, IsServed, IsKeyed,
     Aged, PageAge, LoadAge, TurnedAway

\* A request that needs a body waits for it, or is turned away.
LEMMA ReadsDoes ==
  ASSUME TypeOK, NEW r \in R, NEW c \in {"mint", "mcp"}, NEW label \in {"/v1/keys", "none"}, Arriving(r), NEW ok \in BOOLEAN,
         Becomes(r, IF ok THEN [at |-> "reading", kind |-> c, label |-> label] ELSE Answered(c, label, 429))
  PROVE  /\ Kept(r) /\ Uncounted(r) /\ Aged(r)
         /\ \A d \in Counters : TurnedAway(r, d) => d = c /\ ~ok
<1>1. request[r].at = "none" /\ RequestsOK
  BY DEF Arriving, TypeOK
<1>4. RequestType(request[r]) /\ Stage(request[r])
  BY <1>1 DEF RequestsOK
<1>2. /\ Kept(r) /\ request'[r].at \in {"reading", "answered"} /\ request'[r].kind = c /\ request'[r].got = "nothing"
      /\ request'[r].status \in {None, 429} /\ (ok => request'[r].status = None)
  <2>1. CASE ok
    <3> DEFINE new == [at |-> "reading", kind |-> c, label |-> label]
    <3>1. /\ OthersKept(r) /\ DOMAIN request'[r] = Fields
          /\ \A f \in Fields : request'[r][f] = IF f \in DOMAIN new THEN new[f] ELSE request[r][f]
      BY <1>1, <2>1, BecomesDoes
    <3>2. /\ request'[r].at = "reading" /\ request'[r].kind = c /\ request'[r].label = label
          /\ request'[r].status = request[r].status /\ request'[r].got = request[r].got
          /\ request'[r].of = request[r].of /\ request'[r].since = request[r].since
      BY <3>1 DEF Fields
    <3> HIDE DEF new
    <3> QED
      BY <1>1, <1>4, <2>1, <3>1, <3>2 DEF RequestType, Stage, Kept, V1Labels
  <2>2. CASE ~ok
    <3>1. Becomes(r, Answered(c, label, 429)) /\ label \in V1Labels \cup {"none"} /\ 429 \in Statuses
      BY <2>2 DEF V1Labels, Statuses
    <3> QED
      BY <1>1, <2>2, <3>1, AnsweredOnArrival DEF Kept
  <2> QED
    BY <2>1, <2>2
<1> QED
  BY <1>1, <1>2, <1>4 DEF Stage, Uncounted, SameListings, SameServed, SameKeyed, IsListing, IsFigures, IsServed, IsKeyed,
     Aged, PageAge, LoadAge, TurnedAway, None

LEMMA ApiDoes ==
  ASSUME TypeOK, NEW r \in R, Arriving(r), NEW ok \in BOOLEAN, Becomes(r, Answered("api", "none", IF ok THEN 200 ELSE 429))
  PROVE  /\ Kept(r) /\ Uncounted(r) /\ Aged(r)
         /\ \A c \in Counters : TurnedAway(r, c) => c = "api" /\ ~ok
<1>1. request[r].at = "none" /\ RequestsOK
  BY DEF Arriving, TypeOK
<1>2. PICK s \in Statuses : s = (IF ok THEN 200 ELSE 429)
  BY DEF Statuses
<1>3. /\ Kept(r) /\ request'[r].at = "answered" /\ request'[r].kind = "api"
      /\ request'[r].status = s /\ request'[r].got = "nothing"
  BY <1>1, <1>2, AnsweredOnArrival DEF Kept
<1>4. Stage(request[r])
  BY <1>1 DEF RequestsOK
<1> QED
  BY <1>1, <1>2, <1>3, <1>4 DEF Stage, Uncounted, SameListings, SameServed, SameKeyed, IsListing, IsFigures, IsServed, IsKeyed,
     Aged, PageAge, LoadAge, TurnedAway

LEMMA ClientSendsDoes ==
  ASSUME TypeOK, NEW r \in R, ClientSends(r)
  PROVE  Kept(r) /\ Uncounted(r) /\ NotTurned(r) /\ ~(request'[r].at = "loading") /\ request'[r].kind # "page"
<1>1. PICK e \in {"end", "aborted", "tooLarge"} : request' = [request EXCEPT ![r].event = e]
  BY DEF ClientSends
<1>2. /\ request[r].at = "reading" /\ RequestType(request[r]) /\ Stage(request[r]) /\ DOMAIN request = R
  BY DEF ClientSends, TypeOK, RequestsOK
<1>3. /\ OthersKept(r) /\ DOMAIN request'[r] = Fields
      /\ \A f \in Fields \ {"event"} : request'[r][f] = request[r][f]
  BY <1>1, <1>2 DEF OthersKept, RequestType
<1>4. /\ request'[r].at = request[r].at /\ request'[r].kind = request[r].kind /\ request'[r].label = request[r].label
      /\ request'[r].status = request[r].status /\ request'[r].got = request[r].got
      /\ request'[r].of = request[r].of /\ request'[r].since = request[r].since
  BY <1>3 DEF Fields
<1> QED
  BY <1>2, <1>3, <1>4 DEF RequestType, Stage, Kept, Uncounted, SameListings, SameServed, SameKeyed,
     IsListing, IsFigures, IsServed, IsKeyed, NotTurned, TurnedAway

LEMMA KeyMadeDoes ==
  ASSUME TypeOK, NEW r \in R, KeyMade(r)
  PROVE  Kept(r) /\ Uncounted(r) /\ Aged(r) /\ NotTurned(r)
<1>1. request[r].at = "reading" /\ request[r].kind = "mint" /\ RequestsOK
  BY DEF KeyMade, Settled, TypeOK
<1>2. PICK s \in {201, 413}, g \in {"nothing", "key"} : Becomes(r, Reply(s, g))
  BY DEF KeyMade
<1>3. /\ Kept(r) /\ request'[r].at = "answered" /\ request'[r].kind = "mint"
      /\ request'[r].status = s /\ request'[r].got = g
  BY <1>1, <1>2, RepliedLater DEF Kept, Statuses
<1>4. Stage(request[r])
  BY <1>1 DEF RequestsOK
<1> QED
  BY <1>1, <1>3, <1>4 DEF Stage, Uncounted, SameListings, SameServed, SameKeyed, IsListing, IsFigures, IsServed, IsKeyed,
     Aged, PageAge, LoadAge, NotTurned, TurnedAway

\* What a message is answered with has a status of the list, and a listing or figures is one thing.
LEMMA RepliesAreReplies ==
  \A a \in Replies : \E s \in Statuses, g \in {"listing", "figures", "error", "nothing"} : a = Reply(s, g)
<1> DEFINE Good(a) == \E s \in Statuses, g \in {"listing", "figures", "error", "nothing"} : a = Reply(s, g)
<1>1. ASSUME NEW m \in Messages, NEW a \in handleMessage(m)
      PROVE  Good(a)
  <2>1. CASE m.form \in {"batch", "other"}
    BY <1>1, <2>1 DEF handleMessage, Statuses
  <2>2. CASE m.form \notin {"batch", "other"}
    BY <1>1, <2>2 DEF handleMessage, Statuses, Messages
  <2> QED
    BY <2>1, <2>2
<1>2. Good(Reply(400, "error"))
  BY DEF Statuses
<1> HIDE DEF Good
<1>3. ASSUME NEW a \in Replies
      PROVE  Good(a)
  <2>1. CASE a = Reply(400, "error")
    BY <1>2, <2>1
  <2>2. CASE \E m \in Messages : a \in handleMessage(m)
    BY <1>1, <2>2
  <2>3. a \in UNION {handleMessage(m) : m \in Messages} \/ a = Reply(400, "error")
    BY <1>3, Zenon DEF Replies
  <2>4. CASE a \in UNION {handleMessage(m) : m \in Messages}
    <3>1. PICK S \in {handleMessage(m) : m \in Messages} : a \in S
      BY <2>4, Zenon
    <3>2. PICK m \in Messages : S = handleMessage(m)
      BY <3>1, Zenon
    <3> QED
      BY <2>2, <3>1, <3>2, Zenon
  <2> QED
    BY <2>1, <2>3, <2>4
<1> QED
  BY <1>3 DEF Good

LEMMA McpAnsweredDoes ==
  ASSUME TypeOK, NEW r \in R, McpAnswered(r)
  PROVE  /\ Kept(r) /\ SameServed(r) /\ SameKeyed(r) /\ Aged(r) /\ NotTurned(r)
         /\ ~IsListing(request[r]) /\ ~IsFigures(request[r])
         /\ \A l \in Labels : hits'[l] = IF (l = "/mcp" /\ IsListing(request'[r])) \/ (l = "/mcp/tool" /\ IsFigures(request'[r]))
                                        THEN hits[l] + 1 ELSE hits[l]
<1>1. request[r].at = "reading" /\ request[r].kind = "mcp" /\ RequestsOK
  BY DEF McpAnswered, Settled, TypeOK
<1>2. PICK s \in Statuses, g \in {"listing", "figures", "error", "nothing"} :
        /\ Becomes(r, Reply(s, g))
        /\ hits' = [l \in Labels |-> IF l \in McpLabels(g) THEN hits[l] + 1 ELSE hits[l]]
  <2>1. PICK a : /\ a \in (CASE request[r].event = "tooLarge" -> {Reply(413, "error")}
                              [] request[r].event = "aborted" -> {Reply(400, "error")}
                              [] OTHER -> Replies)
                 /\ Becomes(r, a)
                 /\ hits' = [l \in Labels |-> IF l \in McpLabels(a.got) THEN hits[l] + 1 ELSE hits[l]]
    BY DEF McpAnswered
  <2>2. PICK s \in Statuses, g \in {"listing", "figures", "error", "nothing"} : a = Reply(s, g)
    BY <2>1, RepliesAreReplies DEF Statuses
  <2>3. a.got = g
    BY <2>2 DEF Reply
  <2> QED
    BY <2>1, <2>2, <2>3
<1>3. /\ Kept(r) /\ request'[r].at = "answered" /\ request'[r].kind = "mcp"
      /\ request'[r].status = s /\ request'[r].got = g
  BY <1>1, <1>2, RepliedLater DEF Kept
<1>4. Stage(request[r])
  BY <1>1 DEF RequestsOK
<1>5. \A l \in Labels : l \in McpLabels(g) <=> ((l = "/mcp" /\ g = "listing") \/ (l = "/mcp/tool" /\ g = "figures"))
  BY DEF McpLabels, readV1
<1>6. \A l \in Labels : hits'[l] = IF (l = "/mcp" /\ g = "listing") \/ (l = "/mcp/tool" /\ g = "figures")
                                     THEN hits[l] + 1 ELSE hits[l]
  BY <1>2, <1>5
<1>7. (IsListing(request'[r]) <=> g = "listing") /\ (IsFigures(request'[r]) <=> g = "figures")
  BY <1>3 DEF IsListing, IsFigures
<1>8. NotTurned(r) /\ Aged(r) /\ SameServed(r) /\ SameKeyed(r) /\ ~IsListing(request[r]) /\ ~IsFigures(request[r])
  BY <1>1, <1>3, <1>4 DEF Stage, SameServed, SameKeyed, IsListing, IsFigures, IsServed, IsKeyed,
     Aged, PageAge, LoadAge, NotTurned, TurnedAway
<1> QED
  BY <1>3, <1>6, <1>7, <1>8

LEMMA serveTemplatedDoes ==
  ASSUME TypeOK, AccessAssumption, NEW r \in R, serveTemplated(r), page.of # None => page.made - page.of <= MaxLoad
  PROVE  /\ Kept(r) /\ Uncounted(r) /\ Aged(r) /\ NotTurned(r)
         /\ page'.made \in Int /\ page'.of \in Int /\ (page'.of # None => page'.made - page'.of <= MaxLoad)
<1>1. request[r].at = "none" /\ RequestsOK /\ now \in Int /\ TemplateTtl \in Nat /\ MaxLoad \in Nat
  BY DEF serveTemplated, Arriving, TypeOK, AccessAssumption, Times
<1>2. page' = page \/ page' = [made |-> now, of |-> now]
  BY DEF serveTemplated
<1>3. page'.made \in Int /\ page'.of \in Int /\ (page'.of # None => page'.made - page'.of <= MaxLoad)
  BY <1>1, <1>2 DEF TypeOK
<1>4. CASE \E of \in Int : now - of <= TemplateTtl + MaxLoad /\ Becomes(r, Page(of))
  <2>1. PICK of \in Int : now - of <= TemplateTtl + MaxLoad /\ Becomes(r, Page(of))
    BY <1>4
  <2>2. /\ Kept(r) /\ request'[r].at = "answered" /\ request'[r].kind = "page" /\ request'[r].status = 200
        /\ request'[r].got = "nothing" /\ request'[r].of = of /\ request'[r].since = now
    BY <1>1, <2>1, PageGiven DEF Kept
  <2>3. Stage(request[r])
    BY <1>1 DEF RequestsOK
  <2> QED
    BY <1>1, <1>3, <2>1, <2>2, <2>3 DEF Stage, Uncounted, SameListings, SameServed, SameKeyed, IsListing, IsFigures, IsServed, IsKeyed,
       Aged, PageAge, LoadAge, NotTurned, TurnedAway
<1>5. CASE Becomes(r, [kind |-> "page", at |-> "loading", since |-> now])
  <2> DEFINE new == [kind |-> "page", at |-> "loading", since |-> now]
  <2>1. /\ OthersKept(r) /\ DOMAIN request'[r] = Fields
        /\ \A f \in Fields : request'[r][f] = IF f \in DOMAIN new THEN new[f] ELSE request[r][f]
    BY <1>1, <1>5, BecomesDoes
  <2>2. /\ request'[r].at = "loading" /\ request'[r].kind = "page" /\ request'[r].label = request[r].label
        /\ request'[r].status = request[r].status /\ request'[r].got = request[r].got
        /\ request'[r].of = request[r].of /\ request'[r].since = now
    BY <2>1 DEF Fields
  <2>3. RequestType(request[r]) /\ Stage(request[r])
    BY <1>1 DEF RequestsOK
  <2> HIDE DEF new
  <2>4. Kept(r)
    BY <1>1, <1>3, <2>1, <2>2, <2>3 DEF Kept, RequestType, Stage
  <2> QED
    BY <1>1, <1>3, <2>2, <2>3, <2>4 DEF Stage, Uncounted, SameListings, SameServed, SameKeyed, IsListing, IsFigures, IsServed, IsKeyed,
       Aged, PageAge, LoadAge, NotTurned, TurnedAway, None
<1>6. (\E of \in Int : now - of <= TemplateTtl + MaxLoad /\ Becomes(r, Page(of))) \/ Becomes(r, [kind |-> "page", at |-> "loading", since |-> now])
  <2>1. CASE Fresh
    BY <1>1, <2>1 DEF serveTemplated, Fresh, TypeOK
  <2>2. CASE ~Fresh /\ asset
    BY <1>1, <2>2 DEF serveTemplated
  <2>3. CASE ~Fresh /\ ~asset
    BY <2>3 DEF serveTemplated
  <2> QED
    BY <2>1, <2>2, <2>3
<1> QED
  BY <1>4, <1>5, <1>6

LEMMA LoadedDoes ==
  ASSUME TypeOK, AccessAssumption, NEW r \in R, Loaded(r), LoadAge(request[r], now)
  PROVE  /\ Kept(r) /\ Uncounted(r) /\ Aged(r) /\ NotTurned(r)
         /\ page'.made \in Int /\ page'.of \in Int /\ page'.made - page'.of <= MaxLoad
<1>1. /\ request[r].at = "loading" /\ RequestsOK /\ now \in Int /\ TemplateTtl \in Nat /\ MaxLoad \in Nat
      /\ RequestType(request[r]) /\ Stage(request[r]) /\ Becomes(r, Page(request[r].since))
      /\ page' = [made |-> now, of |-> request[r].since]
  BY DEF Loaded, TypeOK, RequestsOK, AccessAssumption, Times
<1>2. request[r].since \in Int /\ now - request[r].since <= MaxLoad
  BY <1>1 DEF RequestType, LoadAge
<1>3. /\ Kept(r) /\ request'[r].at = "answered" /\ request'[r].kind = "page" /\ request'[r].status = 200
      /\ request'[r].got = "nothing" /\ request'[r].of = request[r].since /\ request'[r].since = now
  BY <1>1, <1>2, PageGiven DEF Kept
<1> QED
  BY <1>1, <1>2, <1>3 DEF Stage, Uncounted, SameListings, SameServed, SameKeyed, IsListing, IsFigures, IsServed, IsKeyed,
     Aged, PageAge, LoadAge, NotTurned, TurnedAway, None

LEMMA LoadFailsDoes ==
  ASSUME TypeOK, NEW r \in R, LoadFails(r)
  PROVE  Kept(r) /\ Uncounted(r) /\ Aged(r) /\ NotTurned(r)
<1> DEFINE new == [at |-> "answered", status |-> 404]
<1>1. /\ request[r].at = "loading" /\ RequestsOK /\ RequestType(request[r]) /\ Stage(request[r]) /\ Becomes(r, new)
  BY DEF LoadFails, TypeOK, RequestsOK
<1>2. /\ OthersKept(r) /\ DOMAIN request'[r] = Fields
      /\ \A f \in Fields : request'[r][f] = IF f \in DOMAIN new THEN new[f] ELSE request[r][f]
  BY <1>1, BecomesDoes
<1>3. /\ request'[r].at = "answered" /\ request'[r].kind = request[r].kind /\ request'[r].label = request[r].label
      /\ request'[r].status = 404 /\ request'[r].got = request[r].got
      /\ request'[r].of = request[r].of /\ request'[r].since = request[r].since
  BY <1>2 DEF Fields
<1> HIDE DEF new
<1> QED
  BY <1>1, <1>2, <1>3 DEF RequestType, Stage, Statuses, Kept, Uncounted, SameListings, SameServed, SameKeyed,
     IsListing, IsFigures, IsServed, IsKeyed, Aged, PageAge, LoadAge, NotTurned, TurnedAway, None

\* An answer that was out, or that nobody was left to hear, stays the answer it was.
LEMMA EndDoes ==
  ASSUME TypeOK, NEW r \in R, NEW end \in {"finished", "gone"}, request[r].at = "answered",
         request' = [request EXCEPT ![r].at = end]
  PROVE  /\ Kept(r) /\ SameListings(r) /\ SameKeyed(r) /\ NotTurned(r)
         /\ (PageAge(request[r]) => Aged(r))
         /\ request'[r].at = end /\ request'[r].label = request[r].label /\ request'[r].status = request[r].status
<1>1. RequestType(request[r]) /\ Stage(request[r]) /\ DOMAIN request = R
  BY DEF TypeOK, RequestsOK
<1>2. /\ OthersKept(r) /\ DOMAIN request'[r] = Fields /\ request'[r].at = end
      /\ \A f \in Fields \ {"at"} : request'[r][f] = request[r][f]
  BY <1>1 DEF OthersKept, RequestType, Fields
<1>3. /\ request'[r].at = end /\ request'[r].kind = request[r].kind /\ request'[r].label = request[r].label
      /\ request'[r].status = request[r].status /\ request'[r].got = request[r].got
      /\ request'[r].of = request[r].of /\ request'[r].since = request[r].since
  BY <1>2 DEF Fields
<1> QED
  BY <1>1, <1>2, <1>3 DEF RequestType, Stage, Kept, SameListings, SameKeyed,
     IsListing, IsFigures, IsKeyed, Aged, PageAge, LoadAge, NotTurned, TurnedAway

\* The end of the process drops what is open, and nothing of what was answered or counted.
LEMMA ExitDoes ==
  ASSUME TypeOK, Exit
  PROVE  /\ RequestsOK' /\ \A q \in R : Uncounted(q) /\ NotTurned(q) /\ (PageAge(request[q]) => Aged(q))
<1>1. RequestsOK /\ request' = [r \in R |-> IF r \in Open THEN [request[r] EXCEPT !.at = "dropped"] ELSE request[r]]
  BY DEF Exit, TypeOK
<1>2. ASSUME NEW q \in R
      PROVE  /\ RequestType(request'[q]) /\ Stage(request'[q])
             /\ Uncounted(q) /\ NotTurned(q) /\ (PageAge(request[q]) => Aged(q))
  <2>1. RequestType(request[q]) /\ Stage(request[q])
    BY <1>1 DEF RequestsOK
  <2>2. CASE q \in Open
    <3>1. request[q].at \in {"reading", "loading", "answered"} /\ request'[q] = [request[q] EXCEPT !.at = "dropped"]
      BY <1>1, <2>2 DEF Open
    <3>2. /\ DOMAIN request'[q] = Fields /\ request'[q].at = "dropped"
          /\ \A f \in Fields \ {"at"} : request'[q][f] = request[q][f]
      BY <2>1, <3>1 DEF RequestType, Fields
    <3>3. /\ request'[q].kind = request[q].kind /\ request'[q].label = request[q].label
          /\ request'[q].status = request[q].status /\ request'[q].got = request[q].got
          /\ request'[q].of = request[q].of /\ request'[q].since = request[q].since
      BY <3>2 DEF Fields
    <3> QED
      BY <2>1, <3>1, <3>2, <3>3 DEF RequestType, Stage, Uncounted, SameListings, SameServed, SameKeyed,
         IsListing, IsFigures, IsServed, IsKeyed, Aged, PageAge, LoadAge, NotTurned, TurnedAway
  <2>3. CASE q \notin Open
    <3>1. request'[q] = request[q] /\ request[q].at # "loading"
      BY <1>1, <2>3 DEF Open
    <3> QED
      BY <2>1, <3>1 DEF Stage, Uncounted, SameListings, SameServed, SameKeyed, Aged, LoadAge, NotTurned, TurnedAway, None
  <2> QED
    BY <2>2, <2>3
<1> QED
  BY <1>1, <1>2 DEF RequestsOK

----------------------------------------------------------------------------
(* The limiters.                                                            *)

\* What the limit of a counter is at least, until its window ends.
Floor(c) ==
  CASE c = "key" -> IF tier = "pro" /\ ~raised THEN ProRpm ELSE FreeRpm
    [] c = "mcp" -> McpRpm [] c = "mint" -> KeyLimit [] c = "notify" -> NotifyMax [] OTHER -> ApiRpm

\* A counter counts what was let in and what was turned away; nothing was turned away before its limit was let in.
QuotaOK ==
  \A c \in Counters :
    /\ window[c].win <= WindowOf(c) /\ admitted[c] <= CountIn(c)
    /\ CountIn(c) <= admitted[c] \/ Floor(c) <= admitted[c]

WindowType == DOMAIN window = Counters /\ \A c \in Counters : window[c].win \in Int /\ window[c].count \in Nat

\* What the property says of one step.
LetsIn(c) == admitted'[c] > admitted[c] => admitted[c] < Limit(c)
TurnsAway(c) == admitted[c] >= IF c = "key" /\ raised THEN FreeRpm ELSE Limit(c)

LEMMA LimitsAreNumbers ==
  ASSUME AccessAssumption, NEW c \in Counters
  PROVE  Limit(c) \in Nat /\ Floor(c) \in Nat
BY DEF AccessAssumption, Limit, Floor

LEMMA WindowsAreNumbers ==
  ASSUME AccessAssumption, now \in Nat, NEW c \in Counters
  PROVE  WindowOf(c) \in Nat
<1>1. PerHour \in Nat \ {0}
  BY DEF AccessAssumption
<1> QED
  BY <1>1 DEF WindowOf

\* The limit that applies is no less than what the window was held to so far.
LEMMA FloorIsBelow ==
  ASSUME AccessAssumption, NEW c \in Counters, tier \in {"free", "pro"}, raised \in BOOLEAN,
         tier' = tier \/ tier' = "free", raised' = raised
  PROVE  /\ Floor(c)' <= Floor(c) /\ Floor(c)' \in Nat /\ Floor(c)' <= Limit(c)
         /\ ~(c = "key" /\ raised) => Limit(c) <= Floor(c)
         /\ c = "key" /\ raised => Floor(c) = FreeRpm
BY DEF AccessAssumption, Limit, Floor, Counters

LEMMA Limited ==
  ASSUME TypeOK, QuotaOK, AccessAssumption, NEW c \in Counters, NEW ok \in BOOLEAN, rateLimit(c, ok),
         now' = now, tier' = tier \/ tier' = "free", raised' = raised
  PROVE  /\ WindowType' /\ admitted' \in [Counters -> Nat] /\ QuotaOK'
         /\ \A d \in Counters : LetsIn(d)
         /\ ~ok => TurnsAway(c)
<1>1. /\ window' = [window EXCEPT ![c] = [win |-> WindowOf(c), count |-> CountIn(c) + 1]]
      /\ admitted' = (IF ok THEN [admitted EXCEPT ![c] = @ + 1] ELSE admitted)
  BY DEF rateLimit
<1>0. ok <=> CountIn(c) + 1 <= Limit(c)
  <2>1. ok = (CountIn(c) + 1 <= Limit(c))
    BY DEF rateLimit
  <2> QED
    BY <2>1, Zenon
<1>2. /\ \A d \in Counters : WindowOf(d) \in Nat /\ WindowOf(d)' = WindowOf(d)
      /\ \A d \in Counters : Limit(d) \in Nat /\ Floor(d) \in Nat
  BY WindowsAreNumbers, LimitsAreNumbers DEF TypeOK, Times, WindowOf
<1>3. \A d \in Counters : CountIn(d) \in Nat /\ admitted[d] \in Nat
  BY DEF TypeOK, CountIn
<1>4. /\ window'[c].win = WindowOf(c) /\ window'[c].count = CountIn(c) + 1 /\ DOMAIN window' = Counters
      /\ \A d \in Counters \ {c} : window'[d] = window[d]
  BY <1>1 DEF TypeOK
<1>5. /\ admitted'[c] = (IF ok THEN admitted[c] + 1 ELSE admitted[c])
      /\ \A d \in Counters \ {c} : admitted'[d] = admitted[d]
  BY <1>1 DEF TypeOK
<1>6. WindowType'
  BY <1>2, <1>3, <1>4 DEF WindowType, TypeOK
<1>7. admitted' \in [Counters -> Nat]
  BY <1>1 DEF TypeOK
<1>8. CountIn(c)' = CountIn(c) + 1 /\ \A d \in Counters \ {c} : CountIn(d)' = CountIn(d)
  BY <1>2, <1>4 DEF CountIn
<1>9. \A d \in Counters : /\ Floor(d)' <= Floor(d) /\ Floor(d)' \in Nat /\ Floor(d)' <= Limit(d)
                           /\ (~(d = "key" /\ raised) => Limit(d) <= Floor(d))
                           /\ ((d = "key" /\ raised) => Floor(d) = FreeRpm)
  BY FloorIsBelow DEF TypeOK
<1>10. QuotaOK'
  <2> SUFFICES ASSUME NEW d \in Counters
               PROVE  /\ window'[d].win <= WindowOf(d)' /\ admitted'[d] <= CountIn(d)'
                      /\ CountIn(d)' <= admitted'[d] \/ Floor(d)' <= admitted'[d]
    BY DEF QuotaOK
  <2>1. /\ window[d].win <= WindowOf(d) /\ admitted[d] <= CountIn(d)
        /\ CountIn(d) <= admitted[d] \/ Floor(d) <= admitted[d]
    BY DEF QuotaOK
  <2>2. CASE d = c /\ ok
    BY <1>2, <1>3, <1>4, <1>5, <1>8, <1>9, <2>1, <2>2
  <2>3. CASE d = c /\ ~ok
    BY <1>1, <1>2, <1>3, <1>4, <1>5, <1>8, <1>9, <2>1, <2>3, <1>0
  <2>4. CASE d # c
    BY <1>2, <1>3, <1>4, <1>5, <1>8, <1>9, <2>1, <2>4
  <2> QED
    BY <2>2, <2>3, <2>4
<1>11. \A d \in Counters : LetsIn(d)
  <2>1. admitted[c] <= CountIn(c)
    BY DEF QuotaOK
  <2>2. ok => admitted[c] < Limit(c)
    BY <1>0, <1>2, <1>3, <2>1
  <2> QED
    BY <1>3, <1>5, <2>2 DEF LetsIn
<1>12. ASSUME ~ok
       PROVE  TurnsAway(c)
  <2>1. Limit(c) <= CountIn(c)
    BY <1>0, <1>2, <1>3, <1>12
  <2>2. CountIn(c) <= admitted[c] \/ Floor(c) <= admitted[c]
    BY DEF QuotaOK
  <2>3. CASE c = "key" /\ raised
    <3>1. Floor(c) = FreeRpm /\ FreeRpm <= Limit(c) /\ FreeRpm \in Nat
      BY <1>9, <2>3 DEF AccessAssumption, Limit
    <3> QED
      BY <1>2, <1>3, <2>1, <2>2, <2>3, <3>1 DEF TurnsAway
  <2>4. CASE ~(c = "key" /\ raised)
    BY <1>2, <1>3, <1>9, <2>1, <2>2, <2>4 DEF TurnsAway
  <2> QED
    BY <2>3, <2>4
<1> QED
  BY <1>6, <1>7, <1>10, <1>11, <1>12

\* A step that touches no counter, and does not raise the key's floor.
LEMMA Unlimited ==
  ASSUME TypeOK, QuotaOK, window' = window, admitted' = admitted, now' = now, \A c \in Counters : Floor(c)' <= Floor(c) /\ Floor(c)' \in Nat,
         AccessAssumption
  PROVE  /\ WindowType' /\ admitted' \in [Counters -> Nat] /\ QuotaOK'
         /\ \A d \in Counters : LetsIn(d)
<1>1. /\ \A d \in Counters : WindowOf(d)' = WindowOf(d) /\ CountIn(d)' = CountIn(d) /\ CountIn(d) \in Nat
      /\ \A d \in Counters : Floor(d) \in Nat /\ admitted[d] \in Nat
  BY LimitsAreNumbers DEF WindowOf, CountIn, TypeOK
<1>2. QuotaOK'
  BY <1>1 DEF QuotaOK
<1>3. \A d \in Counters : LetsIn(d)
  BY <1>1 DEF LetsIn
<1> QED
  BY <1>2, <1>3 DEF WindowType, TypeOK

LEMMA SweepKeepsCounts ==
  ASSUME TypeOK, QuotaOK, AccessAssumption, Sweep
  PROVE  /\ WindowType' /\ admitted' \in [Counters -> Nat] /\ QuotaOK'
         /\ \A d \in Counters : LetsIn(d)
<1>1. /\ window' = [c \in Counters |-> IF c # "notify" /\ Swept(c) THEN NoWindow ELSE window[c]]
      /\ admitted' = admitted /\ now' = now /\ tier' = tier /\ raised' = raised
  BY DEF Sweep, tables
<1>2. \A d \in Counters : /\ WindowOf(d)' = WindowOf(d) /\ WindowOf(d) \in Nat /\ Floor(d)' = Floor(d)
                           /\ admitted[d] \in Nat /\ CountIn(d) \in Nat
  BY <1>1, WindowsAreNumbers DEF WindowOf, Floor, TypeOK, Times, CountIn
<1>3. \A d \in Counters : CountIn(d)' = CountIn(d)
  BY <1>1, <1>2 DEF CountIn, Swept, NoWindow, TypeOK, None
<1>4. WindowType'
  BY <1>1 DEF WindowType, TypeOK, NoWindow, None
<1>5. \A d \in Counters : window'[d].win <= WindowOf(d)'
  BY <1>1, <1>2 DEF QuotaOK, NoWindow, None
<1> QED
  BY <1>1, <1>2, <1>3, <1>4, <1>5 DEF QuotaOK, LetsIn, TypeOK

LEMMA ExitForgetsCounts ==
  ASSUME TypeOK, AccessAssumption, Exit
  PROVE  /\ WindowType' /\ admitted' \in [Counters -> Nat] /\ QuotaOK'
         /\ \A d \in Counters : LetsIn(d)
<1>1. /\ window' = [c \in Counters |-> NoWindow] /\ admitted' = [c \in Counters |-> 0] /\ now' = now
  BY DEF Exit
<1>2. \A d \in Counters : /\ WindowOf(d)' = WindowOf(d) /\ WindowOf(d) \in Nat
                           /\ admitted[d] \in Nat
  BY <1>1, WindowsAreNumbers DEF WindowOf, TypeOK, Times
<1>3. \A d \in Counters : window'[d].win = None /\ window'[d].count = 0 /\ admitted'[d] = 0
  BY <1>1 DEF NoWindow
<1>4. \A d \in Counters : CountIn(d)' = 0
  BY <1>2, <1>3 DEF CountIn, None
<1> QED
  BY <1>1, <1>2, <1>3, <1>4 DEF WindowType, QuotaOK, LetsIn, NoWindow, None

\* Windows only ever end: the one a counter holds is not ahead of the clock's.
LEMMA WindowsEnd ==
  ASSUME AccessAssumption, NEW t \in Nat
  PROVE  t \div PerHour \in Nat /\ t \div PerHour <= (t + 1) \div PerHour
<1>1. PerHour \in Nat /\ PerHour > 0
  BY DEF AccessAssumption
<1> QED
  BY <1>1, Z3

LEMMA TickEndsWindows ==
  ASSUME TypeOK, QuotaOK, AccessAssumption, Tick
  PROVE  /\ WindowType' /\ admitted' \in [Counters -> Nat] /\ QuotaOK'
         /\ \A d \in Counters : LetsIn(d)
<1>1. /\ admitted' = [c \in Counters |-> IF WindowOf(c)' # WindowOf(c) THEN 0 ELSE admitted[c]]
      /\ now' = now + 1 /\ raised' = FALSE /\ tier' = tier /\ window' = window /\ now \in Nat
  BY DEF Tick, TypeOK, Times
<1>2. \A d \in Counters : /\ WindowOf(d) \in Nat /\ WindowOf(d)' \in Nat /\ WindowOf(d) <= WindowOf(d)'
                           /\ (d = "key" => WindowOf(d) < WindowOf(d)')
  BY <1>1, WindowsEnd DEF WindowOf
<1>3. /\ DOMAIN window = Counters /\ \A c \in Counters : window[c].win \in Int /\ window[c].count \in Nat
      /\ \A c \in Counters : admitted[c] \in Nat /\ Floor(c) \in Nat
  BY LimitsAreNumbers DEF TypeOK
<1>4. \A d \in Counters : d # "key" => Floor(d)' = Floor(d)
  BY DEF Floor
<1>5. \A d \in Counters : /\ window[d].win <= WindowOf(d) /\ admitted[d] <= CountIn(d)
                           /\ (CountIn(d) <= admitted[d] \/ Floor(d) <= admitted[d])
  BY DEF QuotaOK
<1>6. ASSUME NEW d \in Counters
      PROVE  /\ window'[d].win <= WindowOf(d)' /\ admitted'[d] <= CountIn(d)'
             /\ CountIn(d)' <= admitted'[d] \/ Floor(d)' <= admitted'[d]
             /\ admitted'[d] \in Nat /\ LetsIn(d)
  <2>1. CASE WindowOf(d)' # WindowOf(d)
    <3>1. window'[d].win < WindowOf(d)' /\ admitted'[d] = 0
      BY <1>1, <1>2, <1>3, <1>5, <2>1
    <3>2. CountIn(d)' = 0
      BY <1>2, <1>3, <1>1, <3>1 DEF CountIn
    <3> QED
      BY <1>1, <1>2, <1>3, <3>1, <3>2 DEF LetsIn
  <2>2. CASE WindowOf(d)' = WindowOf(d)
    <3>1. d # "key" /\ admitted'[d] = admitted[d] /\ window'[d] = window[d]
      BY <1>1, <1>2, <2>2
    <3>2. CountIn(d)' = CountIn(d)
      BY <2>2, <3>1 DEF CountIn
    <3> QED
      BY <1>3, <1>4, <1>5, <2>2, <3>1, <3>2 DEF LetsIn
  <2> QED
    BY <2>1, <2>2
<1>7. QuotaOK'
  BY <1>6 DEF QuotaOK
<1> QED
  BY <1>1, <1>3, <1>6, <1>7 DEF WindowType

----------------------------------------------------------------------------
(* The counts.                                                              *)

Served(l) == {r \in R : IsServed(request[r], l)}
Listings == {r \in R : IsListing(request[r])}
Shown == {r \in R : IsFigures(request[r])}
Keyed == {r \in R : IsKeyed(request[r])}
Units(daily) == UNION {{d} \X (1..daily[d]) : d \in Days}

\* The figures of the usage table, of the key, and of its days.
HitsOK == /\ \A l \in V1Labels : hits[l] = Cardinality(Served(l))
          /\ hits["/mcp"] = Cardinality(Listings) /\ hits["/mcp/tool"] = Cardinality(Shown)
KeyOK == keyTotal = Cardinality(Keyed)
DaysOK == IsFiniteSet(Units(keyDaily)) /\ keyTotal = Cardinality(Units(keyDaily))

LEMMA RequestsAreFinite ==
  ASSUME AccessAssumption, NEW S \in SUBSET R
  PROVE  IsFiniteSet(S) /\ Cardinality(S) \in Nat
<1>1. Requests \in Nat
  BY DEF AccessAssumption
<1>2. IsFiniteSet(R)
  BY <1>1, FS_Interval DEF R
<1> QED
  BY <1>2, FS_Subset, FS_CardinalityType

\* One request more is one more in the count.
LEMMA OneMore ==
  ASSUME AccessAssumption, NEW A \in SUBSET R, NEW B \in SUBSET R, NEW r \in R, r \notin A, r \in B,
         \A q \in R \ {r} : q \in A <=> q \in B
  PROVE  Cardinality(B) = Cardinality(A) + 1
<1>1. B = A \cup {r}
  OBVIOUS
<1>2. IsFiniteSet(A)
  BY RequestsAreFinite
<1> QED
  BY <1>1, <1>2, FS_AddElement

\* A day's unit more is one more in the total.
LEMMA OneUnitMore ==
  ASSUME NEW daily \in [Days -> Nat], NEW more \in [Days -> Nat], NEW d \in Days,
         more = [daily EXCEPT ![d] = @ + 1], IsFiniteSet(Units(daily))
  PROVE  IsFiniteSet(Units(more)) /\ Cardinality(Units(more)) = Cardinality(Units(daily)) + 1
<1> DEFINE unit == <<d, daily[d] + 1>>
<1>1. \A x \in Days, n \in Nat : <<x, n>> \in Units(daily) <=> n \in 1..daily[x]
  BY DEF Units
<1>2. \A x \in Days, n \in Nat : <<x, n>> \in Units(more) <=> n \in 1..more[x]
  BY DEF Units
<1>3. \A u \in Units(daily) : \E x \in Days, n \in Nat : u = <<x, n>>
  BY DEF Units
<1>4. \A u \in Units(more) : \E x \in Days, n \in Nat : u = <<x, n>>
  BY DEF Units
<1>5. \A x \in Days, n \in Nat : <<x, n>> \in Units(more) <=> (<<x, n>> \in Units(daily) \/ (x = d /\ n = daily[d] + 1))
  <2>1. ASSUME NEW x \in Days, NEW n \in Nat
        PROVE  <<x, n>> \in Units(more) <=> (<<x, n>> \in Units(daily) \/ (x = d /\ n = daily[d] + 1))
    <3>1. daily[x] \in Nat /\ daily[d] \in Nat /\ more[x] = (IF x = d THEN daily[d] + 1 ELSE daily[x])
      OBVIOUS
    <3>2. n \in 1..more[x] <=> (n \in 1..daily[x] \/ (x = d /\ n = daily[d] + 1))
      BY <3>1, <2>1
    <3>3. (<<x, n>> \in Units(daily) <=> n \in 1..daily[x]) /\ (<<x, n>> \in Units(more) <=> n \in 1..more[x])
      BY <1>1, <1>2, <2>1
    <3> QED
      BY <3>2, <3>3
  <2> QED
    BY <2>1
<1>6. unit \notin Units(daily)
  BY <1>1
<1>7. Units(more) = Units(daily) \cup {unit}
  <2>0. daily[d] + 1 \in Nat
    OBVIOUS
  <2>1. ASSUME NEW u \in Units(more)
        PROVE  u \in Units(daily) \cup {unit}
    <3>1. PICK x \in Days, n \in Nat : u = <<x, n>>
      BY <1>4, <2>1
    <3>2. <<x, n>> \in Units(daily) \/ (x = d /\ n = daily[d] + 1)
      BY <1>5, <2>1, <3>1
    <3> QED
      BY <3>1, <3>2
  <2>2. ASSUME NEW u \in Units(daily)
        PROVE  u \in Units(more)
    <3>1. PICK x \in Days, n \in Nat : u = <<x, n>>
      BY <1>3, <2>2
    <3> QED
      BY <1>5, <2>2, <3>1
  <2>3. unit \in Units(more)
    BY <1>5, <2>0
  <2> HIDE DEF unit
  <2> QED
    BY <2>1, <2>2, <2>3
<1> HIDE DEF unit
<1>8. /\ IsFiniteSet(Units(daily) \cup {unit})
      /\ Cardinality(Units(daily) \cup {unit}) = IF unit \in Units(daily) THEN Cardinality(Units(daily)) ELSE Cardinality(Units(daily)) + 1
  BY FS_AddElement
<1> QED
  BY <1>6, <1>7, <1>8

LEMMA NoUnitsAtFirst ==
  IsFiniteSet(Units([d \in Days |-> 0])) /\ Cardinality(Units([d \in Days |-> 0])) = 0
<1>1. Units([d \in Days |-> 0]) = {}
  BY DEF Units
<1> QED
  BY <1>1, FS_EmptySet

\* A step that moves no request in or out of a count.
LEMMA CountsStay ==
  ASSUME SameCounts
  PROVE  /\ \A l \in V1Labels : Served(l)' = Served(l)
         /\ Listings' = Listings /\ Shown' = Shown /\ Keyed' = Keyed
BY DEF SameCounts, SameListings, SameServed, SameKeyed, Served, Listings, Shown, Keyed

LEMMA UncountedKeeps ==
  ASSUME NEW r \in R, OthersKept(r), Uncounted(r)
  PROVE  SameCounts
BY DEF OthersKept, Uncounted, SameCounts, SameListings, SameServed, SameKeyed

----------------------------------------------------------------------------
(* The invariant, and what each step does to it.                            *)

PageOK == /\ page.of # None => page.made - page.of <= MaxLoad
          /\ \A r \in R : PageAge(request[r]) /\ LoadAge(request[r], now)

IInv == TypeOK /\ HitsOK /\ KeyOK /\ DaysOK /\ PageOK /\ QuotaOK

\* The property of the limiters, of one step.
QuotaStep ==
  \A c \in Counters :
    /\ LetsIn(c)
    /\ (\E r \in R : TurnedAway(r, c)) => TurnsAway(c)

\* What holds of the rest after every step.
RestType ==
  /\ now \in Times /\ up \in {"up", "closing", "down"} /\ restarts \in Nat
  /\ tier \in {"free", "pro"} /\ lapsed \in BOOLEAN /\ raised \in BOOLEAN
  /\ asset \in BOOLEAN /\ page.made \in Int /\ page.of \in Int
PageMade == page.of # None => page.made - page.of <= MaxLoad
CountersOK == WindowType /\ admitted \in [Counters -> Nat] /\ QuotaOK
TablesType == hits \in [Labels -> Nat] /\ keyTotal \in Nat /\ keyDaily \in [Days -> Nat]
PagesOK == \A r \in R : PageAge(request[r]) /\ LoadAge(request[r], now)
CountsOK == TablesType /\ HitsOK /\ KeyOK /\ DaysOK

LEMMA IInvParts ==
  IInv <=> RestType /\ PageMade /\ CountersOK /\ CountsOK /\ RequestsOK /\ PagesOK
BY DEF IInv, TypeOK, RestType, PageMade, CountersOK, WindowType, CountsOK, TablesType, PageOK, PagesOK

LEMMA IInvPartsNext ==
  ASSUME RestType', PageMade', CountersOK', CountsOK', RequestsOK', PagesOK'
  PROVE  IInv'
BY DEF IInv, TypeOK, RestType, PageMade, CountersOK, WindowType, CountsOK, TablesType, PageOK, PagesOK

\* A step that moves one request leaves the others as they were, and as old.
LEMMA RequestMoves ==
  ASSUME IInv, NEW r \in R, Kept(r), Aged(r), now' = now
  PROVE  RequestsOK' /\ PagesOK'
<1>1. RequestsOK'
  BY DEF IInv, TypeOK, RequestsOK, Kept, OthersKept
<1>2. PagesOK'
  BY DEF IInv, PageOK, PagesOK, Kept, OthersKept, Aged, LoadAge
<1> QED
  BY <1>1, <1>2

LEMMA NoneMoves ==
  ASSUME IInv, request' = request, now' = now
  PROVE  RequestsOK' /\ PagesOK' /\ SameCounts /\ \A c \in Counters, r \in R : ~TurnedAway(r, c)
<1>1. RequestsOK' /\ PagesOK'
  BY DEF IInv, TypeOK, PageOK, RequestsOK, PagesOK, PageAge, LoadAge
<1>2. SameCounts
  BY DEF SameCounts, SameListings, SameServed, SameKeyed
<1>3. \A c \in Counters, r \in R : ~TurnedAway(r, c)
  BY DEF IInv, TypeOK, RequestsOK, Stage, TurnedAway, None
<1> QED
  BY <1>1, <1>2, <1>3

\* No request but r can have been turned away.
LEMMA TurnedIsMoved ==
  ASSUME IInv, NEW r \in R, OthersKept(r), NEW c \in Counters, NEW q \in R, TurnedAway(q, c)
  PROVE  TurnedAway(r, c)
<1>1. CASE q = r
  BY <1>1
<1>2. CASE q # r
  BY <1>2 DEF IInv, TypeOK, RequestsOK, Stage, TurnedAway, OthersKept, None
<1> QED
  BY <1>1, <1>2

LEMMA CountsKept ==
  ASSUME IInv, SameCounts, hits' = hits, keyTotal' = keyTotal, keyDaily' = keyDaily
  PROVE  CountsOK'
<1>1. CountsOK
  BY IInvParts
<1>2. /\ \A l \in V1Labels : Served(l)' = Served(l)
      /\ Listings' = Listings /\ Shown' = Shown /\ Keyed' = Keyed
  BY CountsStay
<1>3. HitsOK' /\ KeyOK'
  BY <1>1, <1>2 DEF CountsOK, HitsOK, KeyOK
<1> QED
  BY <1>1, <1>3 DEF CountsOK, TablesType, DaysOK

\* A step of one request that asks no limiter.
LEMMA WithoutLimiter ==
  ASSUME IInv, AccessAssumption, NEW r \in R, Kept(r), Aged(r), NotTurned(r), now' = now,
         window' = window, admitted' = admitted, tier' = tier, raised' = raised,
         RestType', PageMade', CountsOK'
  PROVE  IInv' /\ QuotaStep
<1>1. RequestsOK' /\ PagesOK'
  BY RequestMoves
<1>2. \A c \in Counters : Floor(c)' <= Floor(c) /\ Floor(c)' \in Nat
  <2>1. \A c \in Counters : Floor(c)' = Floor(c) /\ Floor(c) \in Nat
    BY LimitsAreNumbers DEF Floor
  <2> QED
    BY <2>1
<1>3. CountersOK' /\ \A d \in Counters : LetsIn(d)
  BY <1>2, Unlimited DEF IInv, CountersOK
<1>4. \A c \in Counters : ~(\E q \in R : TurnedAway(q, c))
  BY TurnedIsMoved DEF Kept, NotTurned
<1> QED
  BY <1>1, <1>3, <1>4, IInvPartsNext DEF QuotaStep

\* A step of one request that asks one limiter.
LEMMA WithLimiter ==
  ASSUME IInv, AccessAssumption, NEW r \in R, Kept(r), Aged(r), now' = now,
         NEW c \in Counters, NEW ok \in BOOLEAN, rateLimit(c, ok), \A d \in Counters : TurnedAway(r, d) => d = c /\ ~ok,
         tier' = tier \/ tier' = "free", raised' = raised,
         RestType', PageMade', CountsOK'
  PROVE  IInv' /\ QuotaStep
<1>1. RequestsOK' /\ PagesOK'
  BY RequestMoves
<1>3. CountersOK' /\ (\A d \in Counters : LetsIn(d)) /\ (~ok => TurnsAway(c))
  BY Limited DEF IInv, CountersOK
<1>4. \A d \in Counters : (\E q \in R : TurnedAway(q, d)) => d = c /\ ~ok
  BY TurnedIsMoved DEF Kept
<1> QED
  BY <1>1, <1>3, <1>4, IInvPartsNext DEF QuotaStep

LEMMA PreflightStep ==
  ASSUME IInv, AccessAssumption, NEW r \in R, Preflight(r)
  PROVE  IInv' /\ QuotaStep
<1>1. Kept(r) /\ Uncounted(r) /\ Aged(r) /\ NotTurned(r)
  BY PreflightDoes DEF IInv
<1>2. UNCHANGED <<now, up, restarts, tables, memory>>
  BY DEF Preflight
<1>3. CountsOK'
  BY <1>1, <1>2, UncountedKeeps, CountsKept DEF Kept, tables
<1>4. RestType' /\ PageMade'
  BY <1>2, IInvParts DEF RestType, PageMade, tables, memory
<1> QED
  BY <1>1, <1>2, <1>3, <1>4, WithoutLimiter DEF tables, memory

LEMMA UnkeyedStep ==
  ASSUME IInv, AccessAssumption, NEW r \in R, Unkeyed(r)
  PROVE  IInv' /\ QuotaStep
<1>1. Kept(r) /\ Uncounted(r) /\ Aged(r) /\ NotTurned(r)
  BY UnkeyedDoes DEF IInv
<1>2. UNCHANGED <<now, up, restarts, tables, memory>>
  BY DEF Unkeyed
<1>3. CountsOK'
  BY <1>1, <1>2, UncountedKeeps, CountsKept DEF Kept, tables
<1>4. RestType' /\ PageMade'
  BY <1>2, IInvParts DEF RestType, PageMade, tables, memory
<1> QED
  BY <1>1, <1>2, <1>3, <1>4, WithoutLimiter DEF tables, memory

LEMMA ClientSendsStep ==
  ASSUME IInv, AccessAssumption, NEW r \in R, ClientSends(r)
  PROVE  IInv' /\ QuotaStep
<1>1. Kept(r) /\ Uncounted(r) /\ Aged(r) /\ NotTurned(r)
  BY ClientSendsDoes DEF IInv, Aged, PageAge, LoadAge
<1>2. UNCHANGED <<now, up, restarts, tables, memory>>
  BY DEF ClientSends
<1>3. CountsOK'
  BY <1>1, <1>2, UncountedKeeps, CountsKept DEF Kept, tables
<1>4. RestType' /\ PageMade'
  BY <1>2, IInvParts DEF RestType, PageMade, tables, memory
<1> QED
  BY <1>1, <1>2, <1>3, <1>4, WithoutLimiter DEF tables, memory

LEMMA LoadFailsStep ==
  ASSUME IInv, AccessAssumption, NEW r \in R, LoadFails(r)
  PROVE  IInv' /\ QuotaStep
<1>1. Kept(r) /\ Uncounted(r) /\ Aged(r) /\ NotTurned(r)
  BY LoadFailsDoes DEF IInv
<1>2. UNCHANGED <<now, up, restarts, tables, memory>>
  BY DEF LoadFails
<1>3. CountsOK'
  BY <1>1, <1>2, UncountedKeeps, CountsKept DEF Kept, tables
<1>4. RestType' /\ PageMade'
  BY <1>2, IInvParts DEF RestType, PageMade, tables, memory
<1> QED
  BY <1>1, <1>2, <1>3, <1>4, WithoutLimiter DEF tables, memory

LEMMA PageStep ==
  ASSUME IInv, AccessAssumption, NEW r \in R, serveTemplated(r)
  PROVE  IInv' /\ QuotaStep
<1>1. /\ Kept(r) /\ Uncounted(r) /\ Aged(r) /\ NotTurned(r)
      /\ page'.made \in Int /\ page'.of \in Int /\ (page'.of # None => page'.made - page'.of <= MaxLoad)
  BY serveTemplatedDoes DEF IInv, PageOK
<1>2. UNCHANGED <<now, up, restarts, tables, window, asset, admitted>>
  BY DEF serveTemplated
<1>3. CountsOK'
  BY <1>1, <1>2, UncountedKeeps, CountsKept DEF Kept, tables
<1>4. RestType' /\ PageMade'
  BY <1>1, <1>2, IInvParts DEF RestType, PageMade, tables
<1> QED
  BY <1>1, <1>2, <1>3, <1>4, WithoutLimiter DEF tables

LEMMA LoadedStep ==
  ASSUME IInv, AccessAssumption, NEW r \in R, Loaded(r)
  PROVE  IInv' /\ QuotaStep
<1>1. /\ Kept(r) /\ Uncounted(r) /\ Aged(r) /\ NotTurned(r)
      /\ page'.made \in Int /\ page'.of \in Int /\ page'.made - page'.of <= MaxLoad
  BY LoadedDoes DEF IInv, PageOK
<1>2. asset' = TRUE /\ UNCHANGED <<now, up, restarts, tables, window, admitted>>
  BY DEF Loaded
<1>3. CountsOK'
  BY <1>1, <1>2, UncountedKeeps, CountsKept DEF Kept, tables
<1>4. RestType' /\ PageMade'
  BY <1>1, <1>2, IInvParts DEF RestType, PageMade, tables
<1> QED
  BY <1>1, <1>2, <1>3, <1>4, WithoutLimiter DEF tables

LEMMA GoneStep ==
  ASSUME IInv, AccessAssumption, NEW r \in R, Gone(r)
  PROVE  IInv' /\ QuotaStep
<1>1. request[r].at = "answered" /\ request' = [request EXCEPT ![r].at = "gone"]
  BY DEF Gone
<1>2. /\ Kept(r) /\ SameListings(r) /\ SameKeyed(r) /\ NotTurned(r) /\ Aged(r) /\ request'[r].at = "gone"
  BY <1>1, EndDoes DEF IInv, PageOK
<1>3. Uncounted(r)
  BY <1>1, <1>2 DEF Uncounted, SameServed, IsServed
<1>4. UNCHANGED <<now, up, restarts, tables, memory>>
  BY DEF Gone
<1>5. CountsOK'
  BY <1>2, <1>3, <1>4, UncountedKeeps, CountsKept DEF Kept, tables
<1>6. RestType' /\ PageMade'
  BY <1>4, IInvParts DEF RestType, PageMade, tables, memory
<1> QED
  BY <1>2, <1>4, <1>5, <1>6, WithoutLimiter DEF tables, memory

\* What is out is counted once, on its own label, when it succeeded.
LEMMA FinishStep ==
  ASSUME IInv, AccessAssumption, NEW r \in R, Finish(r)
  PROVE  IInv' /\ QuotaStep
<1>1. request[r].at = "answered" /\ request' = [request EXCEPT ![r].at = "finished"] /\ RequestType(request[r])
  BY DEF Finish, IInv, TypeOK, RequestsOK
<1>2. /\ Kept(r) /\ SameListings(r) /\ SameKeyed(r) /\ NotTurned(r) /\ Aged(r) /\ request'[r].at = "finished"
      /\ request'[r].label = request[r].label /\ request'[r].status = request[r].status
  BY <1>1, EndDoes DEF IInv, PageOK
<1>3. UNCHANGED <<now, tier, lapsed, raised, up, restarts, memory, keyTotal, keyDaily>>
  BY DEF Finish
<1>4. CountsOK
  BY IInvParts
<1>5. /\ \A q \in R : SameListings(q) /\ SameKeyed(q)
      /\ \A q \in R \ {r} : SameServed(q)
  BY <1>2 DEF Kept, OthersKept, SameListings, SameKeyed, SameServed
<1>6. Listings' = Listings /\ Shown' = Shown /\ Keyed' = Keyed
  BY <1>5 DEF SameListings, SameKeyed, Listings, Shown, Keyed
<1>7. countable(request[r].status) <=> request[r].status \in 200..299
  BY <1>1 DEF RequestType, Statuses, None, countable
<1>8. \A l \in V1Labels : IsServed(request'[r], l) <=> (request[r].label = l /\ countable(request[r].status))
  BY <1>2, <1>7 DEF IsServed
<1>9. \A l \in V1Labels : ~IsServed(request[r], l)
  BY <1>1 DEF IsServed
<1>10. /\ \A l \in Labels : hits'[l] = IF request[r].label = l /\ countable(request[r].status) THEN hits[l] + 1 ELSE hits[l]
       /\ hits' \in [Labels -> Nat]
  <2>1. CASE request[r].label \in Labels /\ countable(request[r].status)
    <3>1. hits' = [hits EXCEPT ![request[r].label] = @ + 1]
      BY <2>1 DEF Finish, recordHit
    <3> QED
      BY <1>4, <2>1, <3>1 DEF CountsOK, TablesType
  <2>2. CASE ~(request[r].label \in Labels /\ countable(request[r].status))
    <3>1. hits' = hits
      BY <2>2 DEF Finish
    <3> QED
      BY <1>4, <2>2, <3>1 DEF CountsOK, TablesType
  <2> QED
    BY <2>1, <2>2
<1>11. ASSUME NEW l \in V1Labels
       PROVE  hits'[l] = Cardinality(Served(l)')
  <2>1. \A q \in R \ {r} : q \in Served(l) <=> q \in Served(l)'
    BY <1>5, <1>11 DEF Served, SameServed
  <2>2. r \notin Served(l) /\ (r \in Served(l)' <=> (request[r].label = l /\ countable(request[r].status)))
    BY <1>8, <1>9, <1>11 DEF Served
  <2>3. Served(l) \in SUBSET R /\ Served(l)' \in SUBSET R
    BY DEF Served
  <2>4. l \in Labels
    BY <1>11 DEF V1Labels, Labels
  <2>5. hits[l] = Cardinality(Served(l))
    BY <1>4, <1>11 DEF CountsOK, HitsOK
  <2>6. CASE r \in Served(l)'
    <3>1. Cardinality(Served(l)') = Cardinality(Served(l)) + 1
      BY <2>1, <2>2, <2>3, <2>6, OneMore
    <3> QED
      BY <1>10, <2>2, <2>4, <2>5, <2>6, <3>1
  <2>7. CASE r \notin Served(l)'
    <3>1. Served(l)' = Served(l)
      BY <2>1, <2>2, <2>3, <2>7
    <3> QED
      BY <1>10, <2>2, <2>4, <2>5, <2>7, <3>1
  <2> QED
    BY <2>6, <2>7
<1>12. hits'["/mcp"] = hits["/mcp"] /\ hits'["/mcp/tool"] = hits["/mcp/tool"]
  <2>1. request[r].label # "/mcp" /\ request[r].label # "/mcp/tool"
    BY <1>1 DEF RequestType, V1Labels
  <2> QED
    BY <1>10, <2>1 DEF Labels
<1>13. CountsOK'
  BY <1>3, <1>4, <1>6, <1>10, <1>11, <1>12 DEF CountsOK, TablesType, HitsOK, KeyOK, DaysOK
<1>14. RestType' /\ PageMade'
  BY <1>3, IInvParts DEF RestType, PageMade, memory
<1> QED
  BY <1>2, <1>3, <1>13, <1>14, WithoutLimiter DEF memory

\* A listing, or the figures of a tool, is counted when it is made.
LEMMA McpStep ==
  ASSUME IInv, AccessAssumption, NEW r \in R, McpAnswered(r)
  PROVE  IInv' /\ QuotaStep
<1>1. /\ Kept(r) /\ SameServed(r) /\ SameKeyed(r) /\ Aged(r) /\ NotTurned(r)
      /\ ~IsListing(request[r]) /\ ~IsFigures(request[r])
      /\ \A l \in Labels : hits'[l] = IF (l = "/mcp" /\ IsListing(request'[r])) \/ (l = "/mcp/tool" /\ IsFigures(request'[r]))
                                       THEN hits[l] + 1 ELSE hits[l]
  BY McpAnsweredDoes DEF IInv
<1>2. UNCHANGED <<now, tier, lapsed, raised, up, restarts, memory, keyTotal, keyDaily>>
  BY DEF McpAnswered
<1>3. CountsOK
  BY IInvParts
<1>4. /\ \A q \in R : SameServed(q) /\ SameKeyed(q)
      /\ \A q \in R \ {r} : SameListings(q)
  BY <1>1 DEF Kept, OthersKept, SameListings, SameKeyed, SameServed
<1>5. (\A l \in V1Labels : Served(l)' = Served(l)) /\ Keyed' = Keyed
  BY <1>4 DEF SameServed, SameKeyed, Served, Keyed
<1>6. hits' \in [Labels -> Nat]
  <2>1. PICK L : hits' = [l \in Labels |-> IF l \in L THEN hits[l] + 1 ELSE hits[l]]
    BY DEF McpAnswered
  <2> QED
    BY <1>3, <2>1 DEF CountsOK, TablesType
<1>7. /\ \A l \in V1Labels : hits'[l] = hits[l]
      /\ hits'["/mcp"] = IF IsListing(request'[r]) THEN hits["/mcp"] + 1 ELSE hits["/mcp"]
      /\ hits'["/mcp/tool"] = IF IsFigures(request'[r]) THEN hits["/mcp/tool"] + 1 ELSE hits["/mcp/tool"]
  BY <1>1 DEF V1Labels, Labels
<1>8. hits["/mcp"] = Cardinality(Listings) /\ hits["/mcp/tool"] = Cardinality(Shown)
  BY <1>3 DEF CountsOK, HitsOK
<1>9. hits'["/mcp"] = Cardinality(Listings')
  <2>1. /\ \A q \in R \ {r} : q \in Listings <=> q \in Listings'
        /\ r \notin Listings /\ (r \in Listings' <=> IsListing(request'[r]))
        /\ Listings \in SUBSET R /\ Listings' \in SUBSET R
    BY <1>1, <1>4 DEF Listings, SameListings
  <2>2. CASE r \in Listings'
    <3>1. Cardinality(Listings') = Cardinality(Listings) + 1
      BY <2>1, <2>2, OneMore
    <3> QED
      BY <1>7, <1>8, <2>1, <2>2, <3>1
  <2>3. CASE r \notin Listings'
    <3>1. Listings' = Listings
      BY <2>1, <2>3
    <3> QED
      BY <1>7, <1>8, <2>1, <2>3, <3>1
  <2> QED
    BY <2>2, <2>3
<1>10. hits'["/mcp/tool"] = Cardinality(Shown')
  <2>1. /\ \A q \in R \ {r} : q \in Shown <=> q \in Shown'
        /\ r \notin Shown /\ (r \in Shown' <=> IsFigures(request'[r]))
        /\ Shown \in SUBSET R /\ Shown' \in SUBSET R
    BY <1>1, <1>4 DEF Shown, SameListings
  <2>2. CASE r \in Shown'
    <3>1. Cardinality(Shown') = Cardinality(Shown) + 1
      BY <2>1, <2>2, OneMore
    <3> QED
      BY <1>7, <1>8, <2>1, <2>2, <3>1
  <2>3. CASE r \notin Shown'
    <3>1. Shown' = Shown
      BY <2>1, <2>3
    <3> QED
      BY <1>7, <1>8, <2>1, <2>3, <3>1
  <2> QED
    BY <2>2, <2>3
<1>11. HitsOK'
  BY <1>3, <1>5, <1>7, <1>9, <1>10 DEF CountsOK, HitsOK
<1>12. CountsOK'
  BY <1>2, <1>3, <1>5, <1>6, <1>11 DEF CountsOK, TablesType, KeyOK, DaysOK
<1>13. RestType' /\ PageMade'
  BY <1>2, IInvParts DEF RestType, PageMade, memory
<1> QED
  BY <1>1, <1>2, <1>12, <1>13, WithoutLimiter DEF memory

\* A call let in is one more of the key's calls, in total and on its day.
LEMMA KeyCounted ==
  ASSUME IInv, AccessAssumption, NEW r \in R, Kept(r), SameListings(r), SameServed(r), NEW ok \in BOOLEAN,
         ~IsKeyed(request[r]), IsKeyed(request'[r]) <=> ok, hits' = hits,
         IF ok THEN bumpKey ELSE UNCHANGED <<keyTotal, keyDaily>>
  PROVE  CountsOK'
<1>1. CountsOK
  BY IInvParts
<1>2. (\A q \in R : SameServed(q) /\ SameListings(q)) /\ \A q \in R \ {r} : SameKeyed(q)
  BY DEF Kept, OthersKept, SameListings, SameKeyed, SameServed
<1>3. (\A l \in V1Labels : Served(l)' = Served(l)) /\ Listings' = Listings /\ Shown' = Shown
  BY <1>2 DEF SameServed, SameListings, Served, Listings, Shown
<1>4. HitsOK'
  BY <1>1, <1>3 DEF CountsOK, HitsOK
<1>5. /\ \A q \in R \ {r} : q \in Keyed <=> q \in Keyed'
      /\ r \notin Keyed /\ (r \in Keyed' <=> ok)
      /\ Keyed \in SUBSET R /\ Keyed' \in SUBSET R
  BY <1>2 DEF Keyed, SameKeyed
<1>6. CASE ok
  <2>0. PICK d \in Days : d = dayOf(now)
    BY DEF IInv, TypeOK, Days
  <2>1. keyTotal' = keyTotal + 1 /\ keyDaily' = [keyDaily EXCEPT ![d] = @ + 1]
    BY <1>6, <2>0 DEF bumpKey
  <2>2. keyDaily \in [Days -> Nat]
    BY <1>1 DEF CountsOK, TablesType
  <2>3. keyDaily' \in [Days -> Nat]
    BY <2>1, <2>2
  <2>4. IsFiniteSet(Units(keyDaily')) /\ Cardinality(Units(keyDaily')) = Cardinality(Units(keyDaily)) + 1
    <3>1. IsFiniteSet(Units(keyDaily))
      BY <1>1 DEF CountsOK, DaysOK
    <3>2. PICK more \in [Days -> Nat] : more = keyDaily'
      BY <2>3
    <3>3. more = [keyDaily EXCEPT ![d] = @ + 1]
      BY <2>1, <3>2
    <3>4. IsFiniteSet(Units(more)) /\ Cardinality(Units(more)) = Cardinality(Units(keyDaily)) + 1
      BY <2>0, <2>2, <3>1, <3>2, <3>3, OneUnitMore
    <3> QED
      BY <3>2, <3>4
  <2>5. Cardinality(Keyed') = Cardinality(Keyed) + 1
    BY <1>5, <1>6, OneMore
  <2>6. keyTotal' \in Nat
    BY <1>1, <2>1 DEF CountsOK, TablesType
  <2>7. DaysOK'
    BY <1>1, <2>1, <2>4 DEF CountsOK, DaysOK
  <2>8. KeyOK'
    BY <1>1, <2>1, <2>5 DEF CountsOK, KeyOK
  <2> QED
    BY <1>1, <1>4, <2>3, <2>6, <2>7, <2>8 DEF CountsOK, TablesType
<1>7. CASE ~ok
  <2>1. Keyed' = Keyed
    BY <1>5, <1>7
  <2>2. keyTotal' = keyTotal /\ keyDaily' = keyDaily
    BY <1>7
  <2> QED
    BY <1>1, <1>4, <2>1, <2>2 DEF CountsOK, TablesType, KeyOK, DaysOK
<1> QED
  BY <1>6, <1>7

LEMMA handleV1Step ==
  ASSUME IInv, AccessAssumption, NEW r \in R, handleV1(r)
  PROVE  IInv' /\ QuotaStep
<1>1. PICK ok \in BOOLEAN :
        /\ rateLimit("key", ok)
        /\ IF ok THEN bumpKey ELSE UNCHANGED <<keyTotal, keyDaily>>
        /\ \E a \in IF ok THEN RouteAnswers ELSE {Answered("key", "/v1/route", 429)} : Becomes(r, a)
  BY DEF handleV1
<1>2. PICK a \in IF ok THEN RouteAnswers ELSE {Answered("key", "/v1/route", 429)} : Becomes(r, a)
  BY <1>1
<1>3. /\ Arriving(r) /\ tier' = (IF lapsed THEN "free" ELSE tier) /\ lapsed' = FALSE
      /\ UNCHANGED <<now, up, restarts, raised, asset, page, hits>>
  BY DEF handleV1
<1>4. /\ Kept(r) /\ SameListings(r) /\ SameServed(r) /\ Aged(r)
      /\ ~IsKeyed(request[r]) /\ (IsKeyed(request'[r]) <=> ok)
      /\ \A c \in Counters : TurnedAway(r, c) => c = "key" /\ ~ok
  BY <1>2, <1>3, KeyedDoes DEF IInv
<1>5. CountsOK'
  BY <1>1, <1>3, <1>4, KeyCounted
<1>6. RestType' /\ PageMade'
  BY <1>3, IInvParts DEF RestType, PageMade
<1>7. "key" \in Counters
  BY DEF Counters
<1>8. tier' = tier \/ tier' = "free"
  BY <1>3
<1> QED
  BY <1>1, <1>3, <1>4, <1>5, <1>6, <1>7, <1>8, WithLimiter

LEMMA ReadsBodyStep ==
  ASSUME IInv, AccessAssumption, NEW r \in R, NEW c \in {"mint", "mcp"}, NEW label \in {"/v1/keys", "none"}, ReadsBody(r, c, label)
  PROVE  IInv' /\ QuotaStep
<1>1. PICK ok \in BOOLEAN :
        /\ rateLimit(c, ok)
        /\ Becomes(r, IF ok THEN [at |-> "reading", kind |-> c, label |-> label] ELSE Answered(c, label, 429))
  BY DEF ReadsBody
<1>2. Arriving(r) /\ UNCHANGED <<tier, lapsed, raised>> /\ UNCHANGED <<now, up, restarts, asset, page, hits, keyTotal, keyDaily>>
  BY DEF ReadsBody
<1>3. /\ Kept(r) /\ Uncounted(r) /\ Aged(r)
      /\ \A d \in Counters : TurnedAway(r, d) => d = c /\ ~ok
  BY <1>1, <1>2, ReadsDoes DEF IInv
<1>4. CountsOK'
  BY <1>2, <1>3, UncountedKeeps, CountsKept DEF Kept
<1>5. RestType' /\ PageMade'
  BY <1>2, IInvParts DEF RestType, PageMade
<1>6. c \in Counters
  BY DEF Counters
<1> QED
  BY <1>1, <1>2, <1>3, <1>4, <1>5, <1>6, WithLimiter

LEMMA ApiStep ==
  ASSUME IInv, AccessAssumption, NEW r \in R, Api(r)
  PROVE  IInv' /\ QuotaStep
<1>1. PICK ok \in BOOLEAN : rateLimit("api", ok) /\ Becomes(r, Answered("api", "none", IF ok THEN 200 ELSE 429))
  BY DEF Api
<1>2. Arriving(r) /\ UNCHANGED <<tier, lapsed, raised>> /\ UNCHANGED <<now, up, restarts, asset, page, hits, keyTotal, keyDaily>>
  BY DEF Api
<1>3. /\ Kept(r) /\ Uncounted(r) /\ Aged(r)
      /\ \A d \in Counters : TurnedAway(r, d) => d = "api" /\ ~ok
  BY <1>1, <1>2, ApiDoes DEF IInv
<1>4. CountsOK'
  BY <1>2, <1>3, UncountedKeeps, CountsKept DEF Kept
<1>5. RestType' /\ PageMade'
  BY <1>2, IInvParts DEF RestType, PageMade
<1>6. "api" \in Counters
  BY DEF Counters
<1> QED
  BY <1>1, <1>2, <1>3, <1>4, <1>5, <1>6, WithLimiter

LEMMA KeyMadeStep ==
  ASSUME IInv, AccessAssumption, NEW r \in R, KeyMade(r)
  PROVE  IInv' /\ QuotaStep
<1>1. Kept(r) /\ Uncounted(r) /\ Aged(r) /\ NotTurned(r)
  BY KeyMadeDoes DEF IInv
<1>2. UNCHANGED <<tier, lapsed, raised>> /\ UNCHANGED <<now, up, restarts, asset, page, hits, keyTotal, keyDaily>>
  BY DEF KeyMade
<1>3. CountsOK'
  BY <1>1, <1>2, UncountedKeeps, CountsKept DEF Kept
<1>4. RestType' /\ PageMade'
  BY <1>2, IInvParts DEF RestType, PageMade
<1>5. CASE UNCHANGED <<window, admitted>>
  BY <1>1, <1>2, <1>3, <1>4, <1>5, WithoutLimiter
<1>6. CASE \E ok \in BOOLEAN : rateLimit("notify", ok)
  <2>1. PICK ok \in BOOLEAN : rateLimit("notify", ok)
    BY <1>6
  <2>2. "notify" \in Counters
    BY DEF Counters
  <2> QED
    BY <1>1, <1>2, <1>3, <1>4, <2>1, <2>2, WithLimiter DEF NotTurned
<1> QED
  BY <1>5, <1>6 DEF KeyMade, notifyKeyCreated

\* The process goes down: what was counted stays counted.
LEMMA ExitStep ==
  ASSUME IInv, AccessAssumption, Exit
  PROVE  IInv' /\ QuotaStep
<1>1. RequestsOK' /\ \A q \in R : Uncounted(q) /\ NotTurned(q) /\ (PageAge(request[q]) => Aged(q))
  BY ExitDoes DEF IInv
<1>2. up' = "down" /\ asset' = FALSE /\ page' = NoPage /\ UNCHANGED <<now, restarts, tables>>
  BY DEF Exit
<1>3. PagesOK'
  BY <1>1, <1>2 DEF IInv, PageOK, PagesOK, Aged, LoadAge
<1>4. SameCounts
  BY <1>1 DEF SameCounts, Uncounted
<1>5. CountsOK'
  BY <1>2, <1>4, CountsKept DEF tables
<1>6. RestType' /\ PageMade'
  <2>1. page'.made = None /\ page'.of = None
    BY <1>2 DEF NoPage
  <2>2. PageMade'
    BY <2>1 DEF PageMade
  <2>3. RestType
    BY IInvParts
  <2>4. page'.made \in Int /\ page'.of \in Int
    BY <2>1 DEF None
  <2>5. asset' \in BOOLEAN /\ up' \in {"up", "closing", "down"}
    BY <1>2, Zenon
  <2> QED
    BY <1>2, <2>2, <2>3, <2>4, <2>5 DEF RestType, tables
<1>7. CountersOK' /\ \A d \in Counters : LetsIn(d)
  BY ExitForgetsCounts DEF IInv, CountersOK
<1>8. QuotaStep
  BY <1>1, <1>7 DEF QuotaStep, NotTurned
<1> QED
  BY <1>1, <1>3, <1>5, <1>6, <1>7, <1>8, IInvPartsNext

LEMMA SweepStep ==
  ASSUME IInv, AccessAssumption, Sweep
  PROVE  IInv' /\ QuotaStep
<1>1. UNCHANGED <<now, up, restarts, request, asset, page, tables, admitted>>
  BY DEF Sweep
<1>2. RequestsOK' /\ PagesOK' /\ SameCounts /\ \A c \in Counters, r \in R : ~TurnedAway(r, c)
  BY <1>1, NoneMoves
<1>3. CountsOK'
  BY <1>1, <1>2, CountsKept DEF tables
<1>4. RestType' /\ PageMade'
  BY <1>1, IInvParts DEF RestType, PageMade, tables
<1>5. CountersOK' /\ \A d \in Counters : LetsIn(d)
  BY SweepKeepsCounts DEF IInv, CountersOK
<1>6. QuotaStep
  BY <1>2, <1>5 DEF QuotaStep
<1> QED
  BY <1>2, <1>3, <1>4, <1>5, <1>6, IInvPartsNext

\* A step of the process or of the key that moves no request and asks no limiter.
LEMMA AsideStep ==
  ASSUME IInv, AccessAssumption, UNCHANGED <<now, request, asset, page, window, admitted, hits, keyTotal, keyDaily>>,
         up' \in {"up", "closing", "down"}, restarts' \in Nat, tier' \in {"free", "pro"}, lapsed' \in BOOLEAN, raised' \in BOOLEAN,
         Floor("key")' <= Floor("key")
  PROVE  IInv' /\ QuotaStep
<1>1. RequestsOK' /\ PagesOK' /\ SameCounts /\ \A c \in Counters, r \in R : ~TurnedAway(r, c)
  BY NoneMoves
<1>2. CountsOK'
  BY <1>1, CountsKept
<1>3. RestType' /\ PageMade'
  BY IInvParts DEF RestType, PageMade
<1>4. \A c \in Counters : Floor(c)' <= Floor(c) /\ Floor(c)' \in Nat
  BY DEF Floor, AccessAssumption
<1>5. CountersOK' /\ \A d \in Counters : LetsIn(d)
  BY <1>4, Unlimited DEF IInv, CountersOK
<1>6. QuotaStep
  BY <1>1, <1>5 DEF QuotaStep
<1> QED
  BY <1>1, <1>2, <1>3, <1>5, <1>6, IInvPartsNext

LEMMA ProcessStep ==
  ASSUME IInv, AccessAssumption, shutdown \/ Restart \/ UNCHANGED vars
  PROVE  IInv' /\ QuotaStep
<1>1. /\ UNCHANGED <<now, request, tables, memory>>
      /\ up' \in {"up", "closing", "down"} /\ restarts' \in Nat
  BY DEF shutdown, Restart, vars, tables, memory, IInv, TypeOK
<1>2. Floor("key")' <= Floor("key")
  <2>1. Floor("key")' = Floor("key") /\ Floor("key") \in Nat
    BY <1>1, LimitsAreNumbers DEF Floor, tables, Counters
  <2> QED
    BY <2>1
<1> QED
  BY <1>1, <1>2, AsideStep DEF tables, memory, IInv, TypeOK

LEMMA LapseStep ==
  ASSUME IInv, AccessAssumption, Lapse
  PROVE  IInv' /\ QuotaStep
<1>1. UNCHANGED <<now, up, restarts, request, memory, tier, raised, hits, keyTotal, keyDaily>> /\ lapsed' = TRUE
  BY DEF Lapse
<1>2. Floor("key")' <= Floor("key")
  <2>1. Floor("key")' = Floor("key") /\ Floor("key") \in Nat
    BY <1>1, LimitsAreNumbers DEF Floor, Counters
  <2> QED
    BY <2>1
<1> QED
  BY <1>1, <1>2, AsideStep DEF memory, IInv, TypeOK

\* A key that is raised is held to no more, this minute, than it was.
LEMMA UpgradeStep ==
  ASSUME IInv, AccessAssumption, upgradeToPro
  PROVE  IInv' /\ QuotaStep
<1>1. /\ UNCHANGED <<now, up, restarts, request, memory, hits, keyTotal, keyDaily>>
      /\ tier' = "pro" /\ lapsed' = FALSE /\ raised' = (raised \/ tier = "free")
  BY DEF upgradeToPro
<1>2. tier \in {"free", "pro"} /\ raised \in BOOLEAN
  BY DEF IInv, TypeOK
<1>3. (raised' <=> raised \/ tier = "free") /\ raised' \in BOOLEAN
  BY <1>1, <1>2
<1>4. Floor("key")' <= Floor("key")
  BY <1>1, <1>2, <1>3 DEF Floor, AccessAssumption
<1> QED
  BY <1>1, <1>3, <1>4, AsideStep DEF memory, IInv, TypeOK

LEMMA TickStep ==
  ASSUME IInv, AccessAssumption, Tick
  PROVE  IInv' /\ QuotaStep
<1>1. /\ UNCHANGED <<up, restarts, request, tier, lapsed, hits, keyTotal, keyDaily, window, asset, page>>
      /\ now' = now + 1 /\ raised' = FALSE /\ now < MaxTime /\ now \in Nat /\ MaxTime \in Nat
      /\ \A r \in R : request[r].at = "loading" => now - request[r].since < MaxLoad
  BY DEF Tick, IInv, TypeOK, Times, AccessAssumption
<1>2. RequestsOK' /\ SameCounts /\ \A c \in Counters, r \in R : ~TurnedAway(r, c)
  <2>1. RequestsOK' /\ SameCounts
    BY <1>1 DEF IInv, TypeOK, RequestsOK, SameCounts, SameListings, SameServed, SameKeyed
  <2>2. \A c \in Counters, r \in R : ~TurnedAway(r, c)
    BY <1>1 DEF IInv, TypeOK, RequestsOK, Stage, TurnedAway, None
  <2> QED
    BY <2>1, <2>2
<1>3. PagesOK'
  <2> SUFFICES ASSUME NEW r \in R
               PROVE  PageAge(request[r]) /\ LoadAge(request[r], now + 1)
    BY <1>1 DEF PagesOK, PageAge, LoadAge
  <2>1. PageAge(request[r]) /\ LoadAge(request[r], now) /\ request[r].since \in Int
    BY DEF IInv, PageOK, TypeOK, RequestsOK, RequestType
  <2>2. MaxLoad \in Nat
    BY DEF AccessAssumption
  <2> QED
    BY <1>1, <2>1, <2>2 DEF LoadAge
<1>4. CountsOK'
  BY <1>1, <1>2, CountsKept
<1>5. RestType' /\ PageMade'
  <2>1. RestType /\ PageMade
    BY IInvParts
  <2>2. now + 1 \in Times
    BY <1>1 DEF Times
  <2> QED
    BY <1>1, <2>1, <2>2 DEF RestType, PageMade
<1>6. CountersOK' /\ \A d \in Counters : LetsIn(d)
  BY TickEndsWindows DEF IInv, CountersOK
<1>7. QuotaStep
  BY <1>2, <1>6 DEF QuotaStep
<1> QED
  BY <1>2, <1>3, <1>4, <1>5, <1>6, <1>7, IInvPartsNext

LEMMA Step ==
  ASSUME IInv, AccessAssumption, [Next]_vars
  PROVE  IInv' /\ QuotaStep
<1>1. ASSUME NEW r \in R, Arrive(r)
      PROVE  IInv' /\ QuotaStep
  <2>1. CASE Preflight(r)
    BY <2>1, PreflightStep
  <2>2. CASE Unkeyed(r)
    BY <2>2, UnkeyedStep
  <2>3. CASE handleV1(r)
    BY <2>3, handleV1Step
  <2>4. CASE Mint(r)
    BY <2>4, ReadsBodyStep DEF Mint
  <2>5. CASE handleMcp(r)
    BY <2>5, ReadsBodyStep DEF handleMcp
  <2>6. CASE Api(r)
    BY <2>6, ApiStep
  <2>7. CASE serveTemplated(r)
    BY <2>7, PageStep
  <2> QED
    BY <1>1, <2>1, <2>2, <2>3, <2>4, <2>5, <2>6, <2>7 DEF Arrive
<1>2. ASSUME NEW r \in R, ClientSends(r)
      PROVE  IInv' /\ QuotaStep
  BY <1>2, ClientSendsStep
<1>3. ASSUME NEW r \in R, Answer(r)
      PROVE  IInv' /\ QuotaStep
  <2>1. CASE KeyMade(r)
    BY <2>1, KeyMadeStep
  <2>2. CASE McpAnswered(r)
    BY <2>2, McpStep
  <2>3. CASE Loaded(r)
    BY <2>3, LoadedStep
  <2>4. CASE LoadFails(r)
    BY <2>4, LoadFailsStep
  <2>5. CASE Finish(r)
    BY <2>5, FinishStep
  <2>6. CASE Gone(r)
    BY <2>6, GoneStep
  <2> QED
    BY <1>3, <2>1, <2>2, <2>3, <2>4, <2>5, <2>6 DEF Answer
<1>4. CASE Sweep
  BY <1>4, SweepStep
<1>5. CASE Closed \/ TimedOut \/ Crash
  BY <1>5, ExitStep DEF Closed, TimedOut, Crash
<1>6. CASE shutdown \/ Restart \/ UNCHANGED vars
  BY <1>6, ProcessStep
<1>7. CASE Lapse
  BY <1>7, LapseStep
<1>8. CASE upgradeToPro
  BY <1>8, UpgradeStep
<1>9. CASE Tick
  BY <1>9, TickStep
<1> QED
  BY <1>1, <1>2, <1>3, <1>4, <1>5, <1>6, <1>7, <1>8, <1>9 DEF Next

LEMMA AtFirst ==
  ASSUME AccessAssumption, Init
  PROVE  IInv
<1>1. \A r \in R : /\ request[r] = Blank /\ RequestType(request[r]) /\ Stage(request[r])
                   /\ PageAge(request[r]) /\ LoadAge(request[r], now)
                   /\ ~IsListing(request[r]) /\ ~IsFigures(request[r]) /\ ~IsKeyed(request[r])
                   /\ \A l \in V1Labels : ~IsServed(request[r], l)
  BY DEF Init, Blank, RequestType, Stage, PageAge, LoadAge, IsListing, IsFigures, IsKeyed, IsServed, Fields, Statuses, None
<1>2. Listings = {} /\ Shown = {} /\ Keyed = {} /\ \A l \in V1Labels : Served(l) = {}
  BY <1>1 DEF Listings, Shown, Keyed, Served
<1>3. Cardinality({}) = 0
  BY FS_EmptySet
<1>4. HitsOK /\ KeyOK
  BY <1>2, <1>3 DEF Init, HitsOK, KeyOK, Labels, V1Labels
<1>5. DaysOK
  BY NoUnitsAtFirst DEF Init, DaysOK
<1>6. RequestsOK /\ PagesOK
  BY <1>1 DEF Init, RequestsOK, PagesOK
<1>7. RestType /\ PageMade /\ TablesType
  <2>1. 0 \in Times
    BY DEF Times, AccessAssumption
  <2>2. page.made = None /\ page.of = None
    BY DEF Init, NoPage
  <2>3. PageMade
    BY <2>2 DEF PageMade
  <2>5. page.made \in Int /\ page.of \in Int
    BY <2>2 DEF None
  <2>6. asset \in BOOLEAN /\ lapsed \in BOOLEAN /\ raised \in BOOLEAN
    BY Zenon DEF Init
  <2>7. tier \in {"free", "pro"} /\ up \in {"up", "closing", "down"} /\ restarts \in Nat
    BY DEF Init
  <2>4. RestType
    BY <2>1, <2>5, <2>6, <2>7 DEF Init, RestType
  <2> QED
    BY <2>3, <2>4 DEF Init, TablesType
<1>8. CountersOK
  <2>1. \A c \in Counters : WindowOf(c) \in Nat
    BY WindowsAreNumbers DEF Init
  <2>2. \A c \in Counters : window[c].win = None /\ window[c].count = 0 /\ admitted[c] = 0
    BY DEF Init, NoWindow
  <2>3. \A c \in Counters : CountIn(c) = 0
    BY <2>1, <2>2 DEF CountIn, None
  <2> QED
    BY <2>1, <2>2, <2>3 DEF Init, CountersOK, WindowType, QuotaOK, None
<1> QED
  BY <1>4, <1>5, <1>6, <1>7, <1>8, IInvParts DEF CountsOK

----------------------------------------------------------------------------
(* What is shown of the specification.                                      *)

THEOREM InvariantHolds == Spec => []IInv
<1>1. Init => IInv
  BY AtFirst, AccessAssumption
<1>2. IInv /\ [Next]_vars => IInv'
  BY Step, AccessAssumption
<1> QED
  BY <1>1, <1>2, PTL DEF Spec

\* A successful answer is counted once, on the label of its route and in the process that gave it; the lifetime total of a
\* key is the sum of its days and the number of its calls let in; no page is older than its cache and its first reading allow.
THEOREM AnswersAreAlwaysTrue == Spec => []AnswersAreTrue
<1>1. IInv => UsageIsCountedOnce
  BY DEF IInv, HitsOK, KeyOK, DaysOK, UsageIsCountedOnce, Total, Units, V1Labels, Served, Listings, Shown, Keyed,
     IsServed, IsListing, IsFigures, IsKeyed
<1>2. IInv => PageIsRecent
  BY DEF IInv, PageOK, PageAge, PageIsRecent
<1>3. IInv => AnswersAreTrue
  BY <1>1, <1>2 DEF AnswersAreTrue
<1> QED
  BY <1>3, InvariantHolds, PTL

\* In one window of one process a limiter lets through no more than its limit, and turns away only when it let through that
\* many, across sweeps, restarts and changes of the key's tier; after a raise, as many as the free tier lets through.
THEOREM QuotaIsKept == Spec => QuotaPerWindow
<1>1. IInv /\ [Next]_vars => QuotaStep
  BY Step, AccessAssumption
<1>2. QuotaStep =>
        \A c \in Counters :
          /\ admitted'[c] > admitted[c] => admitted[c] < Limit(c)
          /\ (\E r \in R : request[r].at = "none" /\ request'[r].status = 429 /\ request'[r].kind = c)
               => admitted[c] >= IF c = "key" /\ raised THEN FreeRpm ELSE Limit(c)
  BY DEF QuotaStep, LetsIn, TurnsAway, TurnedAway
<1> QED
  BY <1>1, <1>2, InvariantHolds, PTL DEF Spec, QuotaPerWindow
=============================================================================
