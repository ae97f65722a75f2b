-------------------------------- MODULE Access --------------------------------
(* Requests as server.js answers them: the limiters and what they let through *)
(* (api.js, mcp.js), the body that has to arrive, the usage that is counted,  *)
(* the page that is cached, and the process going down under them. One client *)
(* address and one key; requests are numbered in the order they arrive.       *)
EXTENDS Integers, FiniteSets

CONSTANTS
  Requests,     \* bound: how many requests there are
  MaxTime,      \* bound on the clock; a unit is a limiter's minute
  PerHour,      \* minutes in an hour, the window of key creation
  PerDay,       \* minutes in a day, the bucket of the counters
  FreeRpm, ProRpm, McpRpm, ApiRpm, KeyLimit, NotifyMax,
  TemplateTtl,  \* TEMPLATE_TTL_MS
  MaxLoad,      \* bound: how long reading an asset may take
  MaxRestarts   \* bound: times the process comes back

ASSUME AccessAssumption ==
  /\ {Requests, PerHour, PerDay, FreeRpm, ProRpm, McpRpm, ApiRpm, KeyLimit, NotifyMax} \subseteq Nat \ {0}
  /\ {MaxTime, TemplateTtl, MaxLoad, MaxRestarts} \subseteq Nat /\ FreeRpm <= ProRpm

VARIABLES
  now, up, restarts,
  tier, lapsed, \* the key's tier, and whether the time it was paid for is over
  raised,       \* history: whether the key became Pro in this minute
  request,      \* per request: kind, where it stands, label, body event, status, what it got
  window,       \* rl, keyRl, apiRl and the notifications: per counter, [win, count]
  asset,        \* whether the page's file is in assetCache
  page,         \* pageCache: [made, of], of being the moment of its figures
  hits,         \* usage table, all days together: label -> count
  keyTotal, keyDaily,  \* api_keys.calls and key_daily
  admitted      \* history: per counter, what this process let through in this window

vars == <<now, up, restarts, tier, lapsed, raised, request, window, asset, page, hits, keyTotal, keyDaily, admitted>>
memory == <<window, asset, page, admitted>>
tables == <<tier, lapsed, raised, hits, keyTotal, keyDaily>>

None == -1
R == 1..Requests
Times == 0..MaxTime
dayOf(t) == t \div PerDay
Days == {dayOf(t) : t \in Times}
Counters == {"key", "mcp", "mint", "api", "notify"}
Labels == {"/v1/route", "/v1/invented", "/v1/keys", "/mcp", "/mcp/tool"}

Blank == [at |-> "none", kind |-> "none", label |-> "none", event |-> "none", status |-> None, got |-> "nothing", of |-> None, since |-> None]
NoWindow == [win |-> None, count |-> 0]
NoPage == [made |-> None, of |-> None]
Open == {r \in R : request[r].at \in {"reading", "loading", "answered"}}
Arriving(r) == up = "up" /\ request[r].at = "none" /\ \A q \in R : q < r => request[q].at # "none"
Becomes(r, new) ==
  request' = [request EXCEPT ![r] = [f \in DOMAIN Blank |-> IF f \in DOMAIN new THEN new[f] ELSE @[f]]]
Answered(kind, label, status) == [at |-> "answered", kind |-> kind, label |-> label, status |-> status]
Reply(status, got) == [at |-> "answered", status |-> status, got |-> got]

(* ---- the limiters ---- *)
WindowOf(c) == IF c \in {"mint", "notify"} THEN now \div PerHour ELSE now
Limit(c) ==
  CASE c = "key" -> IF tier' = "pro" THEN ProRpm ELSE FreeRpm
    [] c = "mcp" -> McpRpm [] c = "mint" -> KeyLimit [] c = "notify" -> NotifyMax [] OTHER -> ApiRpm
CountIn(c) == IF window[c].win = WindowOf(c) THEN window[c].count ELSE 0
rateLimit(c, ok) ==
  /\ ok = (CountIn(c) + 1 <= Limit(c))
  /\ window' = [window EXCEPT ![c] = [win |-> WindowOf(c), count |-> CountIn(c) + 1]]
  /\ admitted' = IF ok THEN [admitted EXCEPT ![c] = @ + 1] ELSE admitted
(* The hourly ceiling on messages counts the sent ones only.                  *)
notifyKeyCreated ==
  IF CountIn("notify") >= NotifyMax THEN UNCHANGED <<window, admitted>>
  ELSE \E ok \in BOOLEAN : rateLimit("notify", ok)

Swept_ThisWindowToo(c) == window[c].win <= WindowOf(c)
Swept(c) == window[c].win < WindowOf(c)
Sweep ==
  /\ up # "down" /\ \E c \in Counters \ {"notify"} : window[c].win # None /\ Swept(c)
  /\ window' = [c \in Counters |-> IF c # "notify" /\ Swept(c) THEN NoWindow ELSE window[c]]
  /\ UNCHANGED <<now, up, restarts, request, asset, page, tables, admitted>>

(* ---- usage ---- *)
Total(daily) == Cardinality(UNION {{d} \X (1..daily[d]) : d \in Days})
countable(status) == status \in 200..399
recordHit(label) == hits' = [hits EXCEPT ![label] = @ + 1]
bumpKey ==
  keyTotal' = keyTotal + 1 /\ keyDaily' = [keyDaily EXCEPT ![dayOf(now)] = @ + 1]

Init ==
  /\ now = 0 /\ tier = "free" /\ lapsed = FALSE /\ raised = FALSE /\ up = "up" /\ restarts = 0
  /\ request = [r \in R |-> Blank] /\ window = [c \in Counters |-> NoWindow]
  /\ asset = FALSE /\ page = NoPage
  /\ hits = [l \in Labels |-> 0] /\ keyTotal = 0 /\ keyDaily = [d \in Days |-> 0]
  /\ admitted = [c \in Counters |-> 0]

(* ---- /v1 ---- *)
(* A preflight is answered before anything is looked at, whatever its path; a *)
(* request with no key, or one that is not known, before it is counted.       *)
Preflight(r) ==
  /\ Arriving(r)
  /\ \E l \in {"/v1/route", "/v1/invented"} : Becomes(r, Answered("preflight", l, 204))
  /\ UNCHANGED <<now, up, restarts, tables, memory>>
Unkeyed(r) ==
  /\ Arriving(r) /\ Becomes(r, Answered("unkeyed", "/v1/route", 401))
  /\ UNCHANGED <<now, up, restarts, tables, memory>>

(* A lapsed tier reverts on the next use; then the key's limit, then its two  *)
(* counts, and then the route: it answers, does not exist, or throws, which   *)
(* createServer catches.                                                      *)
RouteAnswers ==
  {Answered("key", "/v1/route", s) : s \in {200, 500}} \cup {Answered("key", "/v1/invented", 404)}
handleV1(r) ==
  /\ Arriving(r)
  /\ tier' = (IF lapsed THEN "free" ELSE tier) /\ lapsed' = FALSE
  /\ \E ok \in BOOLEAN :
       /\ rateLimit("key", ok)
       /\ IF ok THEN bumpKey ELSE UNCHANGED <<keyTotal, keyDaily>>
       /\ \E a \in IF ok THEN RouteAnswers ELSE {Answered("key", "/v1/route", 429)} : Becomes(r, a)
  /\ UNCHANGED <<now, up, restarts, raised, asset, page, hits>>
Lapse ==
  /\ tier = "pro" /\ ~lapsed /\ lapsed' = TRUE
  /\ UNCHANGED <<now, up, restarts, request, memory, tier, raised, hits, keyTotal, keyDaily>>
(* The poller of Payments credits an order. Calls turned away before count    *)
(* against the new limit.                                                     *)
upgradeToPro ==
  /\ up = "up" /\ (tier = "free" \/ lapsed)
  /\ tier' = "pro" /\ lapsed' = FALSE /\ raised' = (raised \/ tier = "free")
  /\ UNCHANGED <<now, up, restarts, request, memory, hits, keyTotal, keyDaily>>

(* ---- what waits for a body ---- *)
ReadsBody(r, c, label) ==
  /\ Arriving(r) /\ UNCHANGED <<tier, lapsed, raised>>
  /\ \E ok \in BOOLEAN :
       /\ rateLimit(c, ok)
       /\ Becomes(r, IF ok THEN [at |-> "reading", kind |-> c, label |-> label] ELSE Answered(c, label, 429))
  /\ UNCHANGED <<now, up, restarts, asset, page, hits, keyTotal, keyDaily>>
Mint(r) == ReadsBody(r, "mint", "/v1/keys")
handleMcp(r) == ReadsBody(r, "mcp", "none")

(* The client sends it all, sends more than BODY_MAX or breaks off; any of    *)
(* them settles the read. Node closes a connection that sends nothing.        *)
Settles_AtTheEnd(event) == event \in {"end", "aborted"}
Settles(event) == event \in {"end", "aborted", "tooLarge"}
ClientSends(r) ==
  /\ request[r].at = "reading" /\ request[r].event = "none"
  /\ \E e \in {"end", "aborted", "tooLarge"} : request' = [request EXCEPT ![r].event = e]
  /\ UNCHANGED <<now, up, restarts, tables, memory>>
Settled(r) == request[r].at = "reading" /\ Settles(request[r].event)

(* The key is made although the client that asked may be gone.                *)
KeyMade(r) ==
  /\ Settled(r) /\ request[r].kind = "mint" /\ UNCHANGED <<tier, lapsed, raised>>
  /\ IF request[r].event = "tooLarge"
     THEN Becomes(r, Reply(413, "nothing")) /\ UNCHANGED <<window, admitted>>
     ELSE Becomes(r, Reply(201, "key")) /\ notifyKeyCreated
  /\ UNCHANGED <<now, up, restarts, asset, page, hits, keyTotal, keyDaily>>

(* One JSON-RPC message, in one of two eras of the protocol. What it gets is  *)
(* a listing, figures, an error in a 200, an error status or nothing.         *)
Messages ==
  [form : {"batch", "other", "notification", "request"}, header : {"none", "legacy", "modern", "foreign"},
   body : {"none", "legacy", "modern", "foreign"}, routed : BOOLEAN,
   method : {"initialize", "discover", "ping", "tools/list", "tools/call", "unknown"}, tool : {"listed", "unlisted"}]
version(m) == IF m.header # "none" THEN m.header ELSE m.body
handleMessage(m) ==
  CASE m.form \in {"batch", "other"} -> {Reply(400, "error")}
    [] m.form = "notification" -> {Reply(202, "nothing")}
    [] m.form = "request" /\ m.method = "initialize" -> {Reply(200, "listing")}
    [] OTHER ->
       IF \/ m.header # "none" /\ m.body # "none" /\ m.header # m.body
          \/ version(m) = "foreign"
          \/ version(m) = "modern" /\ ("none" \in {m.header, m.body} \/ ~m.routed)
       THEN {Reply(400, "error")}
       ELSE CASE m.method \in {"discover", "tools/list"} -> {Reply(200, "listing")}
              [] m.method = "ping" /\ version(m) # "modern" -> {Reply(200, "listing")}
              [] m.method = "tools/call" -> {Reply(200, g) : g \in IF m.tool = "listed" THEN {"figures", "error"} ELSE {"error"}}
              [] OTHER -> {Reply(IF version(m) = "modern" THEN 404 ELSE 200, "error")}
Replies == {Reply(400, "error")} \cup UNION {handleMessage(m) : m \in Messages}

(* Counted here, before the answer is sent: a tool under its own name. The    *)
(* route it reads in-process is not a request and is not counted.             *)
readV1_Counted(got) == IF got = "figures" THEN {"/mcp/tool", "/v1/route"} ELSE {}
readV1(got) == IF got = "figures" THEN {"/mcp/tool"} ELSE {}
McpLabels(got) == readV1(got) \cup (IF got = "listing" THEN {"/mcp"} ELSE {})
McpAnswered(r) ==
  /\ Settled(r) /\ request[r].kind = "mcp"
  /\ \E a \in CASE request[r].event = "tooLarge" -> {Reply(413, "error")}
                [] request[r].event = "aborted" -> {Reply(400, "error")}
                [] OTHER -> Replies :
       /\ Becomes(r, a)
       /\ hits' = [l \in Labels |-> IF l \in McpLabels(a.got) THEN hits[l] + 1 ELSE hits[l]]
  /\ UNCHANGED <<now, tier, lapsed, raised, up, restarts, memory, keyTotal, keyDaily>>

(* ---- the rest of the site ---- *)
Api(r) ==
  /\ Arriving(r) /\ UNCHANGED <<tier, lapsed, raised>>
  /\ \E ok \in BOOLEAN : rateLimit("api", ok) /\ Becomes(r, Answered("api", "none", IF ok THEN 200 ELSE 429))
  /\ UNCHANGED <<now, up, restarts, asset, page, hits, keyTotal, keyDaily>>

(* A templated page: from the cache while it lasts; otherwise with the        *)
(* figures of the request, once the file has been read if it never was.       *)
Page(of) == [at |-> "answered", kind |-> "page", status |-> 200, of |-> of, since |-> now]
Fresh == page.of # None /\ page.made + TemplateTtl >= now
serveTemplated(r) ==
  /\ Arriving(r)
  /\ IF Fresh THEN UNCHANGED page /\ Becomes(r, Page(page.of))
     ELSE IF asset THEN page' = [made |-> now, of |-> now] /\ Becomes(r, Page(now))
     ELSE Becomes(r, [kind |-> "page", at |-> "loading", since |-> now]) /\ UNCHANGED page
  /\ UNCHANGED <<now, up, restarts, tables, window, asset, admitted>>
Loaded(r) ==
  /\ request[r].at = "loading"
  /\ asset' = TRUE /\ page' = [made |-> now, of |-> request[r].since]
  /\ Becomes(r, Page(request[r].since))
  /\ UNCHANGED <<now, up, restarts, tables, window, admitted>>
LoadFails(r) ==
  /\ request[r].at = "loading" /\ Becomes(r, [at |-> "answered", status |-> 404])
  /\ UNCHANGED <<now, up, restarts, tables, memory>>

(* ---- the end of a request, and of the process ---- *)
(* 'finish': the answer is out. A client that left hears nothing and is not   *)
(* counted.                                                                   *)
Finish(r) ==
  /\ request[r].at = "answered" /\ request[r].event # "aborted"
  /\ request' = [request EXCEPT ![r].at = "finished"]
  /\ IF request[r].label \in Labels /\ countable(request[r].status) THEN recordHit(request[r].label) ELSE UNCHANGED hits
  /\ UNCHANGED <<now, tier, lapsed, raised, up, restarts, memory, keyTotal, keyDaily>>
Gone(r) ==
  /\ request[r].at = "answered" /\ request' = [request EXCEPT ![r].at = "gone"]
  /\ UNCHANGED <<now, up, restarts, tables, memory>>

Exit ==
  /\ up' = "down" /\ window' = [c \in Counters |-> NoWindow] /\ asset' = FALSE /\ page' = NoPage
  /\ admitted' = [c \in Counters |-> 0]
  /\ request' = [r \in R |-> IF r \in Open THEN [request[r] EXCEPT !.at = "dropped"] ELSE request[r]]
  /\ UNCHANGED <<now, restarts, tables>>
shutdown == up = "up" /\ up' = "closing" /\ UNCHANGED <<now, restarts, request, tables, memory>>
(* When the last answer is out, or after ten seconds all the same.            *)
Closed == up = "closing" /\ Open = {} /\ Exit
TimedOut == up = "closing" /\ Open # {} /\ Exit
Crash == up = "up" /\ Exit
Restart ==
  /\ up = "down" /\ restarts < MaxRestarts /\ restarts' = restarts + 1 /\ up' = "up"
  /\ UNCHANGED <<now, request, tables, memory>>
Tick ==
  /\ now < MaxTime /\ \A r \in R : request[r].at = "loading" => now - request[r].since < MaxLoad
  /\ now' = now + 1 /\ raised' = FALSE
  /\ admitted' = [c \in Counters |-> IF WindowOf(c)' # WindowOf(c) THEN 0 ELSE admitted[c]]
  /\ UNCHANGED <<up, restarts, request, tier, lapsed, hits, keyTotal, keyDaily, window, asset, page>>

Arrive(r) == Preflight(r) \/ Unkeyed(r) \/ handleV1(r) \/ Mint(r) \/ handleMcp(r) \/ Api(r) \/ serveTemplated(r)
Answer(r) == KeyMade(r) \/ McpAnswered(r) \/ Loaded(r) \/ LoadFails(r) \/ Finish(r) \/ Gone(r)
Next ==
  \/ \E r \in R : Arrive(r) \/ ClientSends(r) \/ Answer(r)
  \/ Sweep \/ shutdown \/ Closed \/ TimedOut \/ Crash \/ Restart \/ Lapse \/ upgradeToPro \/ Tick

(* The process runs, node ends a connection on which nothing arrives, and the *)
(* ten seconds of a shutdown pass.                                            *)
Spec ==
  /\ Init /\ [][Next]_vars
  /\ \A r \in R : WF_vars(ClientSends(r) \/ Answer(r))
  /\ WF_vars(Closed \/ TimedOut)

(* In one window of one process a limiter lets through no more than its limit *)
(* and turns away only when it has let through that many, whatever is swept   *)
(* in between and whichever tier the key has lapsed to; in the minute it is   *)
(* raised to Pro it may have had no more than the free tier lets through.     *)
QuotaPerWindow ==
  [][\A c \in Counters :
       /\ admitted'[c] > admitted[c] => admitted[c] < Limit(c)
       /\ (\E r \in R : request[r].at = "none" /\ request'[r].status = 429 /\ request'[r].kind = c)
            => admitted[c] >= IF c = "key" /\ raised THEN FreeRpm ELSE Limit(c)]_vars

(* A successful answer is counted once, on the label of its route: /v1 when   *)
(* it is out, /mcp when it is made. Nothing else is counted, and the lifetime *)
(* total of a key is the sum of its days.                                     *)
UsageIsCountedOnce ==
  /\ \A l \in {"/v1/route", "/v1/invented", "/v1/keys"} :
       hits[l] = Cardinality({r \in R : /\ request[r].at = "finished" /\ request[r].label = l
                                          /\ request[r].status \in 200..299})
  /\ hits["/mcp"] = Cardinality({r \in R : request[r].got = "listing"})
  /\ hits["/mcp/tool"] = Cardinality({r \in R : request[r].got = "figures"})
  /\ keyTotal = Total(keyDaily)
  /\ keyTotal = Cardinality({r \in R : request[r].kind = "key" /\ request[r].status # 429})

(* The figures on a page are never older than the cache keeps it, plus the    *)
(* time the first reading of its file took.                                   *)
PageIsRecent ==
  \A r \in R : request[r].kind = "page" /\ request[r].status = 200
                 => request[r].since - request[r].of <= TemplateTtl + MaxLoad

(* What is answered is counted, and is no older than promised.                *)
AnswersAreTrue == UsageIsCountedOnce /\ PageIsRecent

(* Whenever requests are open a moment comes when none is: a body that is too *)
(* large or breaks off leaves nothing waiting, and a shutdown waits for no    *)
(* one for ever.                                                              *)
EveryRequestEnds ==
  /\ Open # {} ~> Open = {}
  /\ up = "closing" ~> up = "down"

(* An invented route answers 404 and writes nothing (usage.js).               *)
InventedRouteWritesNothing == hits["/v1/invented"] = 0
=============================================================================
