# StableDesk in TLA+

StableDesk indexes the stablecoin transfers of one chain (Arc) into SQLite, publishes
aggregates, an availability record and the value locked in contracts, and sells a Pro tier
paid in USDC on Base. It is one Node process: no threads, but many timers and requests
whose handlers are cut at every `await`, a database written in small commits, RPC endpoints that
lag, refuse and time out, and a process that may die between any two commits. Those are the
behaviours modelled here. Paths below are relative to `src/`.

## 1. The system

| Component | State it keeps | Operations | Talks to |
|---|---|---|---|
| Block ledger (`indexer.js`, `db.js`) | additive per-minute and per-token aggregates; meta rows `checkpoint`, `index_from` | `start`, `backfill`, `tickOnce`, `indexThrough`, `indexRange`, `applyBatch`, `setCheckpoint` | RPC failover for heads and logs; feeds alerts, drafts, washes |
| Availability record (`indexer.js`, `chainuptime.js`) | `chain_events`, `chain_seen_through`; in memory `chain.state`, `headAt` | `noteHead`, `noteRpcFailure`, `setChainState`, `markSeen`, `openObservationWindow`, `stop`; `uptimeFrom`, `incidents` | polls of the ledger; tells chain-state alerts |
| Chain-state alerts (`chainalert.js`) | `lastSentAt` per destination state | `transition`, `dueForSend`, `note` | Telegram |
| Crypto billing (`payments.js`, `db.js`, `api.js`) | `orders`, `api_keys.expires_at`, `base_payment_checkpoint` | `POST /v1/billing/order`, the poller, `markOrderPaid`, `upgradeToPro`, `expireStaleOrders`, the downgrade on use | an RPC of Base |
| Webhook alert rules (`api.js`, `indexer.js`) | `alerts` with `last_fired`; a copy of up to 15 s in memory | `POST`/`DELETE /v1/alerts`, `checkRules`, `markFired` | the ledger's live batches; webhooks |
| Notable-transfer posting (`whalewatch.js`) | the in-memory feed; `tweet_drafts` | `pushFeed`, `createTweetDraft`, `deliverPendingDrafts` | the ledger; Telegram |
| Daily usage digest (`server.js`, `usage.js`) | `usage_digest_last_day`, `usage_digest_quiet_days` | `maybeSendDigest`, `buildDigest`, `markReported` | Telegram |
| Route and sent-history passes (`indexer.js`) | twenty or so meta rows; additive CCTP/Gateway and sent columns | `initCctp`, `initSent`, `initReroute`, `initRefile`, the four steps | RPC; run after each live pass |
| TVL scanner (`tvl.js`, `db.js`) | `tvl`, `address_meta`, three cursors | `refresh`: discovery, recheck, selection, scan, probes | RPC; shares tables with the ledger, `chainwatch.js` and `entities.js` |
| RPC failover (`rpc.js`) | the endpoint that answered last | `rpc`, `rpcSoft`, `tryEndpoints`, `rpcBatchOne` | every component that reads the chain; its errors decide an outage's kind and the end of a history pass |
| Retention and roll-up (`db.js`) | minute, day, raw-transfer, top-transfer, fee and flow tables | `applyBatch`, corrections, `insertFeeSamples`, `prune` | the ledger calls it; every window reads it |
| Snapshot, flag set and readings (`indexer.js`) | the snapshot, `spanClock`, flagged addresses, supplies and their date; the adjusted columns | `start`, `tickOnce`, `progressRefresh`, `refreshNoisy`, `measureClock`, `adjustBackfill` | the ledger, the routes |
| Chain-profile watch (`verify-network.js`, `chainwatch.js`) | `watch_subjects`, `seen_contracts`; a module-level observation | `runOnce`, `diffObservations`, `record`, `reportChanges` | RPC; the TVL scanner reads its queue |
| Weekly report (`scripts/weekly*.mjs`) | nothing: one run | cover check, bisection of closes, supply checks, new high | the published series; an RPC |
| HTTP surface (`server.js`, `api.js`, `mcp.js`, `usage.js`) | limiter windows, page cache; `usage`, `api_keys`, `key_daily` | admission, body, answer, count, shutdown | every component |
| Entity derivation (`entities.js`, `db.js`) | `address_meta`: what an address is, its names and the evidence | `refresh`: `sampleValidators`, two rounds of requests, `classify`, `upsertAddressMeta` | RPC; the TVL scanner's discovery, recheck, naming probe and attribution write the same rows |
| Read routes and pages, backup, network profile | short-lived caches, files, data | reads, scripts | |

### What is hard here, and what makes each component correct

* **Ledger.** Aggregates are additive, so a batch must be added exactly once although it is
  retried, halved, interrupted and resumed; nothing may be skipped although the head and the
  logs come from different endpoints; overlapping timers must not walk twice; and the walk must not stall
  at a provider that refuses long ranges.
* **Availability.** The record may say nothing it did not watch: not after a crash, not across a
  restart, not about an endpoint that merely refused; and every published number must agree with the others.
* **Billing.** An order is credited once, all bought time is served, and no payment is passed by,
  with a poller that may die between any two commits, an endpoint that is behind, and
  amounts that are the only link between a transfer and an order.
* **Alerts, drafts, digest.** Messages once per cooldown, event or day; nothing lost to a failed
  send; nothing sent on a stale copy for longer than the copy may live.
* **History passes.** Four passes and the live index write the same additive pairs. Each block
  must be added once, moved once from the rule it was filed under, and the published start of
  the attribution must be true, on databases left by older code and after a death
  between two meta rows.
* **TVL.** A fixed budget is shared by five sources. Every contract must be read again and again,
  every counted reading renewed, no missing answer stored, and nobody but contracts counted,
  while three other loops write the same tables. Whom a contract belongs to is asked of the chain,
  with answers missing, by rules that change; no balance may be counted under two owners.
* **Entities.** Six statements write one row, each knowing a part of it: a kind must keep the evidence it
  rests on, a name once read must not be lost to a pass that read none, and a holder that never answers
  must not keep the others from being asked.
* **RPC failover.** Calls under way together share one endpoint in use; an error speaks for all endpoints only if each
  of them was asked, and a strict answer must not have lost an item.
* **Retention.** Seven statements cut the tables back, each by itself, while corrections still
  arrive; a chain that halts must not lose what its windows read; folded days must keep every count once.
* **Snapshot and flag set.** What is served comes from several readings of different ages, some
  from disk after a restart; a figure must go with the date and the clock it was measured at.
* **Profile watch.** Requests fail one by one, passes overlap and are cut short, and yet one
  absence may neither be missed nor be told twice.
* **HTTP.** Two awaits inside a request, a tier that lapses, sweeps, a client that leaves, a
  process that goes down: quotas hold and usage is counted once.

PROJECT.json lists the hazards one by one, each with its line and the properties that watch it.

## 2. Modules

`Journal` is the abstract specification that `Indexer` implements; `Uptime` is the pure fold that
`Availability` publishes through, and `ChainWatch` the pure half of `NetworkWatch`;
a module called `...Proofs` holds the theorems about the module it is named for (`ClientsProofs`, `WatchProofs`, `TerminalProofs` and `TvlProofs` those about `MCClients`, `MCWatch`, `MCTerminal` and `MCTvlScan`; `JobsProofs` those about `MCJobs` and `Retention`). Names follow the source; an operator called `X_Something` is a
plausible mistake in `X`, kept to show that the properties notice it.

Parts that share no state are checked in one run each group, as a sum: `MCWatch`
(`Availability`, `ChainAlert`, `NetworkWatch`, `Failover`), `MCClients` (`Payments`, `AlertRules`, `Digest`),
`MCJobs` (`Drafts`, `WeeklyReport`), `MCTvlScan` (`TvlScan`, `Attribution`), `MCTerminal` (`Terminal`, `Entities`). A behaviour of such a run is a behaviour of one of its parts,
chosen at the start and named by `part`, `half` or `doing`, while the others rest; nothing is claimed about their interleaving, and there is
none to claim: they touch no common variable. `MCClients`, `MCWatch`, `MCJobs`, `MCTerminal` and `MCTvlScan` leave every parameter to the configuration, so that theorems hold for all values of them. The other `MC*` modules name parameters for TLC; a module without such
parameters is run as it is.

### Indexer (and Journal)

A block stands for its transfers, and the additive aggregates for `applied[b]`, how often block
`b` was added to them.

| Variable | Code |
|---|---|
| `tip[e]` | the newest block endpoint `e` has; the head and each log range may be answered by different endpoints (`tryEndpoints`) |
| `checkpoint`, `indexFrom` | meta rows `checkpoint`, `index_from` |
| `applied` | what `applyBatch` has committed |
| `session` | how far `start()` has got: the seed, its own first tick, the timer |
| `running` | the flag in `nonReentrant` |
| `job[c]` | the walk an invocation is in: the range in hand, the right halves waiting for it, tries |
| `short`, `crashes`, `lost`, `orphaned` | history only: blocks an accepted answer lacked; deaths; commits whose checkpoint write never landed; the blocks of those that came before there was a checkpoint |

`Start`/`StartWithoutSeed` are `start()` and `backfill()`; `BeginTick`/`IdleTick` are `tickOnce`
behind `nonReentrant`; `ReadAndApply` is `getLogsRange` followed by the `applyBatch`
transaction; `Mark` is the separate `setCheckpoint`; `Fail` and `LoseMark` are the catch of
`indexRange` (three tries, halving to `MaxSplitDepth`, then the whole walk is given up); `Crash`
loses all that is not on disk. The recursion of `indexRange` is kept as the list
`todo` of the ends of pending ranges.

`Journal` says what is promised with none of this: a journal opened at a block, written at most
a chunk ahead of a frontier which moves only over written blocks. `Indexer` maps `first` to
`indexFrom`, `frontier` to `checkpoint` and `written` to the blocks applied or short.

### Availability (and Uptime)

One unit of time is one poll. `events` and `seenThrough` are on disk; `state`, `headAt`,
`seenAt` are `chain.state`, `chain.headAt` and `markSeen`'s throttle. `held` is history: which
state the process held in each unit, against which the published figures are judged. Actions:
`Boot` (`openObservationWindow`), `SeedFrom`/`SeedFails` (`start()`), `PollHead`/`PollFails`
(`tickOnce`), `RefreshHead`/`RefreshFails` (`progressRefresh`, which notes the head without moving the
watermark), `Stop`, `Crash`, `TimePasses`. How endpoints fail is a set of kinds per request: refused credentials, another
answer that is no result, silence. `Uptime` has `UptimeFrom` and `Incidents`, with the clipping
and the watermark of `chainuptime.js`. What the loop of `uptimeFrom` adds up per row is the number of `Spent`'s units,
the instants of the window paired with the row whose segment holds them: two segments that overlapped would book an instant twice, as in the code.

### Payments

One unit of time is one block of Base. What runs without an `await` is cut into its commits
(`SettleLog` = `markOrderPaid`, `Upgrade` = `upgradeToPro`, `FinishRange` = the checkpoint), between which only
`Crash` may come. `Tick` reads a head and `ReadRange` the logs, each from an endpoint up to
`Lag` blocks behind. `CreateOrder` is the route with its downgrade and the random draw;
`AllDrawsTaken` allows 25 draws that all hit a taken amount. `credits`, `examined`,
`missed`, `served`, `watched` are history.

### ChainAlert

`Note` is `setChainState` calling `note`: `News` is `transition`, `DueForSend` the cooldown of each destination, and
the send is recorded before it is awaited, whether or not it arrives. A restart forgets everything, as the code's map does.

### AlertRules

`POST /v1/alerts` is cut at its two awaits: the body (`Authenticate` has read the tier) and the DNS
answer for the webhook's host (`CheckLimit` has counted). `CheckRules` is `checkRules` for an
event matching any set of rules, with the reload of the stale copy, the cooldown and
`markFired`. Restarts empty the copy.

### Drafts

`BeginTick` is the synchronous part of a tick (drafts inserted with `INSERT OR IGNORE`, the
undelivered ones read). A send is two steps: `Arrives`, the message is in the channel, and `Sent`, the answer is back and the draft marked;
`SendFails` may come before the first or between the two, as `sendTelegram` gives up after ten seconds or cannot read an answer. Ticks
overlap, as `setInterval` does not wait; one is under way while `tick` holds ids it is still to send, which it sends by id (`Sending`). What is inserted is a sequence of its own:
the entries of the feed without a draft (`Fresh`), each at its `Place`. `Crash` may come after sends arrived and before their marks. `posts` is history: what
the channel was sent, in order.

### Digest

`BeginCheck`, `Sent`/`SendFails`, `MarkDay`, `CountQuiet` are the pieces of `maybeSendDigest`
between which a death or midnight may come. A send may fail although it arrived. `marked` and `arrived` are history.

### RouteHistory

Blocks are abstracted to how often their share was added by each additive pass (`added`), the
rule their mixed mints and burns are filed under (`filed`: the two older rules v0 and v1, the per-event rule
v2). A mint or burn of neither route in a transaction that one of them touched is left out (see the departures below). `Init` ranges over the databases older code
may have left (untouched, v0 with a pass half done, v1 likewise), as the code's own migration
comments describe them. `Boot` runs the four inits, `Index` is the live pass, and each pass has its `Plan`, `Chunk`,
`Refused` (halving), `Exhausted`, `Finish` and `Skip`. Each endpoint forgets old blocks on its own (`pruned[e]`): a chunk can be read as long as one of them `Serves` it,
and `Exhausted` ends the pass at the smallest span when one of them says pruned and the others fail, whether or not they still have the blocks. `TornBoot` and `TornPlan` die between two
meta rows, and `torn` remembers it: only `AddedExactlyOnce` is promised after such a death. The ledger's own hazards are not repeated: here each block is indexed once.

### TvlScan

One pass is `Discover`, `Recheck`, `Select`, one `Read` per target, `Store`, `Probe`; answers
may be missing from any step. `Store` may be cut after the readings and after the first cursor.
`Move`, `Forget`, `Emit`, `Derive` are the loops that write the tables meanwhile. A reading's
age keeps only the order of readings, and the targets are a set, read in any order. Ties between addresses of equal worth go by address. `strays` remembers the
readings nothing else explains: of addresses without a row, left by older policies, and of delegated accounts the deriver was first to reclassify.

### Attribution

The other half of a TVL pass. `BeginProbe`, `Ask(a)`, `EndProbe` are `probeAttribution`: the candidates without an answer of this week
by these rules, the largest, as many as one pass asks; the three batches for one address with any reply
missing; what is stored becoming what is served. `Known` is `setDerivedAttributions`, `Aggregate` and `Total` are the two
figures published, `Snapshot` is `recordTvlSnapshot`. `Abandon` is a batch no endpoint answers, `Deploy` a restart with any registry,
`WeekLater` an answer growing too old. One rule of each kind and one currency stand for the many; the balances are whatever the scan stored.
`askedUnder` is history: the rules an address was last asked under.

### Entities

What an address is and what it calls itself, by all who write its row. The deriver: `ReadCodes` (`sampleValidators` and the bytecode of the targets), `ReadExtra`
(what contracts say when called), `Derive` (`classify` and one `upsertAddressMeta` per row, cut short by a death), `DeriverFails`. The TVL pass: `BeginProbe` and `Probe(a)` are
`probeIdentities` with `setAddressIdentity` and `noteIdentityAttempt`, `Attribute` the implementation that `setAttribution` stores, `Discover` a first row, `Recheck` is
`markEoa`. `Upgrade` is the chain. A row keeps what decides: which words are known, never what they say; `is` is the pair of `is_contract` and `code_size`.
`ByBalance` are the holders worth naming that no protocol has. `learned` and `corrected` are history.

### Retention

Time is in minutes, a transfer is a row with an amount of its own. `applyBatch` writes the minute, the address, the raw row, cut to the
cap, and the largest of the batch; its date lies anywhere up to now, as the clock of a range interpolates. `Correct` is any of the writes that add to minutes counted long before; `insertFeeSamples` keeps a
block's first sample. `blocks` are the minutes a block came in: a halt is minutes without one. `pruneAddrs` measures the block time as the tick does, over the
headers of the live strip that answered, stamped in whole seconds, and turns a week into `weekBlocks`. `RollUp` is the transaction that folds and deletes minutes; the six statements of `prune` after it
are actions of their own, and `Crash` may come between any two. `log` and `late` are history: all there ever was; `shortest` is the fewest blocks a prune made of a week.

### Terminal

`start()` is `Boot` (what is on disk is served), `Anchor` (the head and the far header of the clock), `BootSupplies`, `backfill`
and, on an empty database that turns out to hold noise, `adjustBackfill`. A tick is `TickHead`, `TickHeaders`, `Index`, `Publish`. A chunk is one step
here: counting it right is `Indexer`'s matter. A clock is the pair of headers it was measured
between, a supply is named by its moment, and the two noisy addresses behave alike, so that `Flagged` is the rule in
integers. The live sample, used until there is a header, is a constant.
Whether the supply's TTL has run out and its read is answered is left to chance.

A block is in the minute its range gives it (`Dated`): `chunkClock` between the two headers of what was read, which is a chunk or a piece that `indexRange` has
split off (`Ends`), and `approxTs` where a header was missing or the piece is one block. The second reading reads whole chunks and may have other headers. `dated` (history) keeps what the
first reading made of each block of an uninterrupted cold backfill, and `moved` collects the minutes from which and into which the second
moved one; `AdjustedIsWhatTheSetLeaves` is about the other minutes. There a range moves nothing: it holds the same blocks in both readings, is
cleared with the rest of the span, and gets its sum where there is a row to `UPDATE`.

### Failover

One record per batch under way: `Begin` fixes its order, `Refuse` and `Answer` are what the endpoint in turn replies, item by item, `Failed` the catch that goes on to the next.
`call` holds what the error will carry (`allAuth`, `causes`); `heard` is history. `StateFromError` and `HistoryPruned` are the two verdicts the indexer draws from an error. The other
models take what such a call comes to: `Availability` its kinds of failure, `RouteHistory` a pruned history, `TvlScan` and `NetworkWatch` their missing items.

### NetworkWatch (and ChainWatch)

`runOnce` as its parts in turn (`checkEndpoints`, `checkTokens`, `checkDeployed`, `checkUntracked`, `Report`, `Queue`), any request of which may be refused, with what a refused answer
reads as. `observed` and `emitters` are module-level and shared by whatever pass runs; `Start` has the guard. `ChainWatch` has
`diffObservations` with its thresholds and the rows it stores. `look`, `silent`, `absent`, `told` and `published` are history: what the passes found and what a reader of the reports knows.

### WeeklyReport

One run of the script over any chain and any series: `assertSeriesCovers`; the search for the close of each day
(`BeginSearch` from any first guess, `GallopUp`/`GallopDown`, `Halve`, `Found`); `ReadHighest`, up to three times;
`buildReport`. Time is in days. The days still to read are a set, of which the latest comes first (`NextDay`); what the index says of some days (`net`) and the supply at a block are what was
`Issued` by blocks. `GivesUp` is a request that stays refused.

### Access

A request arrives (`Preflight`, `Unkeyed`, `handleV1`, `Mint`, `handleMcp`, `Api`, `serveTemplated`), waits for a body or for a
file, is answered and finishes, or its client is `Gone`. `rateLimit` is the fixed window of each limiter and `Sweep` its cleaning; `Messages` are the JSON-RPC
messages of both eras. `shutdown`, `Closed`, `TimedOut`, `Crash`, `Restart` are the process; `Lapse` is a paid time that is over, `upgradeToPro` the poller crediting an order. One address and one key: limiters keep
a window per address or key and never mix them. `admitted` and `raised` are history: what was let in in the window that runs, and whether the key became Pro in this minute.
In that minute `QuotaPerWindow` asks for less: calls turned away by the free limit were counted, so that a key just raised may be turned away after no more than the free tier lets in.

## 3. Runs

Nine runs pass and three show a violation. Where a property is a conjunction, its parts are named
in the module and each is a promise of its own.

| Run | What it shows |
|---|---|
| `ledger` | two lagging endpoints, two overlapping ticks, refusals, a lost checkpoint write and a death: no hole up to the checkpoint, each block added once plus once per lost write, nothing indexed below `index_from` but the batches whose mark was lost before the first checkpoint, the whole a refinement of `Journal`; and the checkpoint reaches every block although ranges longer than two blocks are refused |
| `ledger_replay` (violation) | a death between `applyBatch` and `setCheckpoint` counts a batch twice |
| `watch` | availability: nothing is claimed that no session held, the published figures agree, an orderly stop costs nothing; alerts: one announcement per destination and cooldown, the last word stale only through that cooldown; profile: silence and absence reported exactly when they have repeated, once, the reports accounting for all the record holds, all of which is queued; calls: an error blames the key, or pruned history, only on the word of the endpoints, each asked once, and a strict answer has no error in it |
| `clients` | billing: no double credit, even with a shared amount; all bought time served; no transfer passed by; a paid order lacks its credit only through a death; webhooks: one call per cooldown, silence after a deletion, no match ignored longer than copy and cooldown explain, the limit exceeded only by requests under way together; digest: a busy day is marked only after its digest arrived, told twice only after a death or a lost answer, the heartbeat counting reported days |
| `jobs` | drafts: one per event, told in order, told again at most once for each tick that may hold it, each answer lost after the message arrived and each send a death cut off, and each delivered in the end; weekly report: each close is the last block before midnight, a check fails exactly where index and chain differ, a new high is one, and the script ends |
| `routes` | each share added once, whatever death comes; each mixed event moved once, the published start true, and nothing given up that every endpoint still serves, unless a boot or a plan was cut between its rows; every pass ends, or comes down to a last chunk of one block (a refile pass cut at its first row asks for block 0) |
| `tvl` | no reading made up, the recheck skips nobody, wallets stay out of the table; every contract and every counted reading visited again and again once failures cease; a balance counted once, under the owner the chain confirmed to a question asked by the rules in force, the two totals agreeing; every holder attributed again and again as the chain has it |
| `tvl_today` (violation) | a level that falls to zero during a day leaves that day's earlier, positive level in the history |
| `retention` | days keep every count once; what windows over time read is held, also while the chain halts, or said to be cut; addresses are held for as many blocks as some prune made of a week; the largest of whole days, and mean and median of the same blocks |
| `terminal` | figures: a supply goes with its date and a flag set with its clock, after restarts too; the second reading leaves, in every minute that both readings gave the same blocks, exactly what the set leaves; stored history is always served and the clock reaches the first block of sent history; who: a kind has its evidence in the row and a name read is kept, whichever writer came last; every holder's name is settled and every busy address classified as the chain has it |
| `access` | no limiter lets through more than its limit in a window or turns away before; a success is counted once, a key's total is the sum of its days and a cached page is recent (`AnswersAreTrue`); every request ends |
| `access_preflight` (violation) | a preflight of an invented route is counted |

`ledger_replay` refutes what `indexer.js:1829` says of `nonReentrant` ("the guard is the only thing standing
between a long catch-up and double-counted volume"): the separate checkpoint write is another.
`access_preflight` refutes `usage.js:62` ("an invented route answers 404 and writes nothing"): `handleV1` answers `OPTIONS`
with 204 before it looks at the path. `tvl_today` refutes `db.js:243` ("a re-run during the same day overwrites"):
`tvl.js:443` filters a level of zero out before it could overwrite.

### Departures seen while modelling

Where a comment or document says more than the code does, the property is stated as far as it is true,
and its comment says what it leaves out. No run is spent on these; a maintainer may want to know them.

| Where | What the code does | How likely |
|---|---|---|
| `indexer.js:875` against `:1801` "never skip blocks" | logs from an endpoint behind the head are taken as complete; `NoHole` excepts `short` blocks | whenever endpoints differ by a block at the tip |
| `indexer.js:947` against `:114`, `:1899` | inside a long walk the watermark stands still, and a crash forfeits the walk, not `SEEN_TTL` | every crash in a long catch-up |
| `indexer.js:157` against `:72` "nobody answered at all" | an endpoint that answers with an error counts as chain downtime | every such answer |
| `payments.js:63` against `:95` "credit itself is safe" | a death between `markOrderPaid` and `upgradeToPro` leaves a paid order without Pro | two adjacent synchronous commits |
| `payments.js:85` against `constants.js:261` | an order paid in its last seconds is expired by the tick that read an older head | payments in the last poll before the deadline |
| `payments.js:74` | a re-scanned transfer settles a newer order of the same amount | needs an equal draw of 999,999 offsets besides a re-scan |
| `chainalert.js:96` against `:18` "restate a fact already sent" | down, up, down in a cooldown ends with "up" as the last word | any flap shorter than the cooldown |
| `api.js:548` against `openapi.js:427` | two requests in flight both pass the count of rules | concurrent requests of one key |
| `whalewatch.js:75` | a tick started during a slow send posts the same draft again | a send slower than the timer |
| `whalewatch.js:55` | a send that failed after the message arrived is repeated by the next tick | an answer that takes more than ten seconds, or is not JSON |
| `server.js:270` against `usage.js:77` "known rather than assumed" | a day nobody checked does not reset the quiet days | a busy day spent down, or unsendable |
| `indexer.js:897` against `:1057` "re-read once" | a last chunk of one block has no clock and is refused for ever; `PassesEnd` excepts it (`OneBlockLeft`, of passes whose rows are there) | about one open span in 2000 |
| `rpc.js:49` against `:88` "must not be silently treated as "no activity"" | an item the endpoint leaves out of its body is undefined in a strict answer too, and `indexer.js:706` and `:675` read undefined logs as none: the range is recorded empty; `AnswerIsWhole` excepts absent items | an endpoint that breaks JSON-RPC |
| `indexer.js:1080` against `:1141` "no longer served by the RPC endpoints" | one endpoint that says pruned is enough: history that another, busy at the moment, still serves is given up for good (the smoke test wants it so); `GivesUpOnlyWhatOneHasDropped` promises only what every endpoint still has | mixed endpoints, at the smallest span |
| `indexer.js:1309` against `:1062` "resumes exactly where it stopped" | an absent `hi` row reads as 0 and the pass is taken for done; a refile pass that lacks its floor too asks for block 0 alone, which has no clock, for ever (`CutShort` in `PassesEnd`) | a death between two rows at first boot of new code |
| `indexer.js:1217` against `openapi.js:713` | the reroute publishes the start of a minute it has only half corrected | final only if the pass ends at pruned history; less than a minute |
| `indexer.js:1216` against `:411` | history that the CCTP pass filed per event is corrected as if filed per transaction (events of the CCTP pair only by their transaction; not in the model) | databases older than CCTP measurement |
| `tvl.js:160` | of two contracts with one symbol the later reading replaces the earlier; `ReadingIsTheBalance` asks only that it is the balance in one of them | the testnet profile lists such a pair |
| `db.js:1168` against `tvl.js:12` "never guessed" | noting an attempt inserts `is_contract = 1`; `RecheckedRowsHaveCode` speaks of rows made from bytecode | readings without metadata left by older policies |
| `entities.js:160` against `db.js:1287` | the deriver makes a delegated account a non-suspect and leaves its readings; `TableHoldsContractsOnly` excepts `strays` | delegated accounts busy enough to be derived |
| `tvl.js:423` against `:421` | the cursors pass a slice the endpoint did not answer | partial refusals; healed a cycle later |
| `tvl.js:393` | the registry pushes the end of the slow slice over the cap, and the cursor passes it; for ever only if the lanes stay in step | a registry that the other sources do not contain |
| `tvl.js:336` "No reply is not a no" | of the first batch one reply is enough: what a missing one would have confirmed is recorded as a no, and an attribution is withdrawn for a week; `EveryHolderIsAttributed` asks only for again and again | a rate-limited item in a batch |
| `tvl.js:350` | a pass cut short has stored attributions the process does not serve until the next whole probe or restart | a batch refused everywhere in the middle of a probe |
| `tvl.js:297` | a deployment without any rule keeps what earlier rules derived | no profile of the repository |
| `db.js:1036` | `implementation` alone is not kept against a null: a call of the deriver that failed erases the address attribution read from the slot, and the kind falls from proxy until the next cycle | a rate-limited item in a batch |
| `entities.js:80` | "validator" is what the last pass sampled: a producer not sampled again is reclassified by its code, though `blocks_made` keeps its count | busy addresses that also produce blocks |
| `db.js:1292` | the recheck leaves the kind: a row may say contract and hold no code until the address is derived again; `KindHasItsEvidence` excepts `corrected` | delegated accounts an older rule took for contracts |
| `tvl.js:204` | one reply of two settles the name: a refused other one is not asked again | a rate-limited item in a batch |
| `verify-network.js:445` | a token outside a sample that could not be read is left as active as it was observed | whenever no window of the sample is readable |
| `db.js:1481` against `db.js:1500` "a halted head does not move either", `api.js:471` "a rolling ~7 days" | a week is counted in blocks of the average time of the last fifteen headers, in whole seconds: 6.1 to 8.2 days at half-second blocks, and with a halt among the headers a few blocks, so that the first prune after a long halt drops nearly every address, seen this week or not; `WindowsSurviveAHalt` speaks of blocks | a prune within fifteen blocks of the end of a halt |
| `db.js:1508` against `api.js:492` | the fold cuts at a minute, the long series begins at a day: a first day may be a part of one | once, at the start of a record |
| `indexer.js:1024` against `:1008` "the span that gets zeroed is the span that was written" | each reading dates blocks by the ranges it read. One that was split (`:928`) or lacked a header (`:875`) in the first reading only is dated by another clock in the second, so that a block near a minute's edge changes its minute: its adjusted volume may then exceed the minute's real one, lie outside the cleared span, or find no row to update; `AdjustedIsWhatTheSetLeaves` excepts such minutes (`moved`) | a refused range or a missing header in the first backfill |
| `indexer.js:1045`, `:1803` against `:1043` "The first block this database ever indexed" | `index_from` is written again when there is still no checkpoint: batches committed before a first checkpoint that never landed lie below it; `IndexFromIsFirst` excepts these (`orphaned`) | a death or a failed write between the first batch and the first checkpoint |
| `indexer.js:1052` | a cold backfill interrupted before its second reading is not read again: its adjusted volume keeps the noise | a death or a refused range in the first backfill |
| `indexer.js:100` | `recordChainEvent` throwing leaves the changed state unrecorded | a full disk |
| `tvl.js:148` against `:377` | a counted reading in a token no longer tracked is never renewed (not in the model: every reading is of a tracked token) | a token taken off the list while held |

### Bounds, and why they are enough

* `ledger`: four blocks, chunks of three, one halving, a provider limit of two blocks, two tries: a walk has two
  chunks, a full chunk has to split and its halves differ in length, a gap can open left or right of a range, and an endpoint
  can be behind within a range. Two invocations are all that can compete for one flag. One
  death and one lost write show what each costs; the theorems drop all these bounds.
* `watch`. Availability: three units of time, with TTL and incident minimum at two and one stop or crash, give a transition
  before, inside and after every window, a gap shorter and one as long as the minimum, and a restart within and after the TTL.
  Alerts: a cooldown of two, three units, one restart: a flap within it and one past it.
  Profile: a token, a named and an unknown contract, two invocations, four passes; thresholds two and three (three and four in the code) are
  each reached, passed and reached again after a sighting. Calls: two endpoints, two batches of two items, one strict and one tolerant: either can move the
  endpoint in use while the other is between two attempts.
* `clients`. Billing: two keys, one amount shared by both, two transfers, ranges of two blocks and one crash
  reach a renewal, an expiry, a shared amount and a re-scan; the theorems drop these bounds, as those about webhooks do theirs. Webhooks: limits zero and one (1 and 20 in the code), a cache life of one and a cooldown of two both
  passing within the time bound, a third rule made after a deletion, two requests competing for one place, one restart.
  Digest: five days against a heartbeat of two, three checks a day at most.
* `jobs`. Two ticks overlap; two events in a feed of two, pushed four times, so that the feed repeats one and forgets the other; one answer is lost and one death cuts sends off. A chain of four blocks over four days, weeks of one day:
  every way of placing blocks in days, days without a block, a burst in a day; the search begins at any block, and the third read of the high happens.
* `routes`: four blocks with minutes of two, spans of four narrowing to two, so that a chunk begins
  inside a minute, ends on one, and a remainder of one block exists; one death, torn or not; the coverage of held minutes begins later
  than the index, and each of two endpoints may forget the blocks up to there or one more, before or without the other.
* `tvl`. Scan: two addresses of every kind of code; a slice of one with a sweep and a hot place of one each makes every
  source compete for its place; the cap is the code's (the places plus the slices). Owners: two addresses, one of which claims the listed factory falsely, facts of three kinds,
  a registry that lists one of them and one that does not, one question per pass so that two candidates compete, a failure and a deployment.
* `retention`: days of two minutes, weeks of one day, five minutes of clock (largest transfers kept as long as a week), three transfers, one correction, two samples, four of these together: minutes are folded in two prunes, corrected after
  they were folded, and the row cap and the top of a day are both exceeded; any minutes are without a block, and a strip of two headers makes one to two blocks of a week, or fewer after a halt.
* `terminal`: five blocks, two of them stamped alike and one after a gap, two with bots, minutes of two, chunks of three of a backfill of four blocks, a clock of at least two blocks, one crash: a backfill of several chunks, each whole or in pieces,
  with headers or without; a second reading that moves blocks into minutes with and without a row and one that moves none; a
  sent history that grows downwards below the clock's far end, a set that flips with the clock. The live sample's pace is a constant, one block per unit, where the code uses what it last measured. Who: a busy address that is a proxy or delegates, a larger holder that may be silent or
  produce blocks, one question per pass and two attempts, so that they compete for it, one missing answer or death, one change of code.
* `access`: two requests over three minutes with hours and days of two, limits of one and two: windows end, are swept, and a limit is
  passed by the second request; a tier is bought and lapses between the two; one restart; a file may take a minute to load, so that a page is made from figures a minute old. A third request would be needed for a call to be turned away after its
  key was raised; that case is covered by the proof.

Deadlock is checked where the system has no bounded clock or budget (`ledger*`, `routes`, `terminal`, `tvl*`). The other runs end when theirs is
spent and say so in the configuration.

### Fairness

* `ledger`: the supervisor restarts the process, the timer fires, each fetch has a timeout
  (`rpc.js`), so `Mark` or `Fail` comes; strong fairness of `ReadAndApply` says that an endpoint asked again
  and again for a range it can serve answers in the end. Nothing is assumed of ranges over its limit.
* `jobs`: the 15 s timer ticks; a send asked again and again succeeds in the end. The script's own steps go on.
* `routes`: the tick goes on; planning and a chunk that some endpoint can serve are answered in the end when asked again and again, and so is
  the news that history is pruned once no endpoint has it. While one has, nothing says that the pass ends by the word of another.
* `tvl`: weak fairness of the pass as a whole: its timer is set again after every pass and
  every call answers or times out. Failures are bounded by `MaxFails`; what is shown is recovery after them. Strong fairness of `WeekLater`: every answer grows
  a week old, and (its guard) not before every candidate could be asked, which takes passes of minutes.
* `terminal`: the timers of the tick, the deriver and the TVL pass go on and their requests are answered or time out (a naming probe may go unanswered for ever); a head, a header and a due refresh asked for again and again are served some time.
* `access`: the process runs; node ends a connection on which nothing arrives; the ten seconds of a shutdown pass.

## 4. Proofs

`IndexerProofs` proves about `Indexer`, for every number of blocks, endpoints and invocations, every chunk,
split depth, number of tries and provider limit: `TypeCorrect`, `NoHoles`, `CountedOnce`,
`IndexFromFirst` and `Refinement` (`Spec => JournalView!Spec`). They rest on `IndexerAssumption`
only: sizes are naturals, chunk, tries and limit at least one, and there is an endpoint.

None of the checked invariants is inductive. `CountedOncePerLostMark`
alone allows a state with two walks at one block, whose next step breaks it. `IInv` adds:

* `OneWalk`: at most one invocation is in a walk. `nonReentrant` sees to it for ticks; the seed,
  which does not pass through it, is over before the first tick.
* `WalksInShape`: a walk stands exactly at `Base`, the block after the checkpoint (or the opened
  first block); its pending ranges follow each other, within one chunk and up to its head.
  That is what makes a retried range start where nothing is recorded yet.
* `Counted`: `lost + 1` only for blocks recorded or in flight (a batch committed and not marked);
  blocks beyond have been added `lost` times at most. When a mark is lost, in-flight blocks become blocks
  beyond, and `lost` grows by one in the same step.
* `OrphansOnly`: as long as there is no checkpoint, what was ever added is in flight or lost its mark (`orphaned`). Opening the ledger again may then put `index_from` after the latter and after nothing else.
* `InFlightCovered`, `Opened`: a committed batch has every block its endpoint had; the ledger has a
  first block once there is a checkpoint.

The proof has one lemma per way a walk's record changes (`WalkBegins`, `NextHalf`, `NextChunk`, `SplitRange`), one per
action (`...Keeps`), and combines them in `Invariance`. The refinement follows from the
invariant: `Start` and a first `BeginTick` are `Open` or a stutter, `ReadAndApply` is `Write`, `Mark`
is `Advance` (its range is written by `InFlightCovered`), and every other step a stutter.

`ClientsProofs` proves about `MCClients`, whose parts it takes one by one, every property of the run `clients`. The four properties of billing it proves for any keys, amounts, durations, ranges, lags and bounds from `PaymentsAssumption`:
`OrdersAreCreditedOnce`, `PaidOrdersAreCredited`, `BoughtTimeIsServed`, `TransfersAreRead`. None of the four is inductive by itself. `PaymentsInv` adds:

* `CreditedArePaid`: a credited order is paid, and paid is for ever (`SettledOrders`, `ExpiredOrders`: only pending orders change status). That is why `markOrderPaid`'s condition on the status is enough.
* `OrderInHand`: between the two commits of a settlement the order is paid and not credited. It makes the second commit add a new credit, and the
  count of paid and uncredited orders grow by one with the first commit and shrink with the second; a death in between leaves it (`AStepOfASettlement`
  sorts the steps, `PaidAndCreditedStep` counts).
* `RangeInHand`: a range begins at the block after the checkpoint, and once read, all of it was given to `processLogs` or was missing; the checkpoint is set and the watch begun together. It
  holds although an endpoint that is behind moves the checkpoint backwards: the blocks are then read again.
* Bought time: `Remaining` changes only with time, which moves it to `served`, and with a credit, which adds a duration (`PaidTimeStep`).

`TvlProofs` proves about `MCTvlScan`, for any addresses, tokens, kinds of code, registries, facts, limits and bounds, from `TvlScanAssumption` and `AttributionAssumption`, the two safety properties of the run `tvl`.

* `ScanInv`, for `TableIsAlwaysTrue`. A pass selects from the tables, awaits answers, and stores what it got in tables that others wrote meanwhile; so what the property says of the table is said of the answers in hand (`AnswersAreHeld`,
  `AnswersOfContracts`) and of the targets still to be read (`TargetsAreContracts`) as well, and between two scans nothing is in hand. That is what survives the deriver calling a target a wallet in the middle of a scan: it becomes a stray then.
  `StillToRecheck` says of each delegated account on record as a contract that it lies after the cursor, wherever a sweep stopped. `TargetsAreSelected` is about `selectTargets`.
* `AttributionInv`, for `CountedAlwaysOnceUnderItsOwner`. That a pass asks by the rules in force is not inductive, as between two passes the process may run other rules than those it last asked by: what holds throughout is that whoever is not asked
  again was asked under the rules on record (`AskedByThePrint`), and these are the process's own while it asks (`AsksByItsRules`). That a listed address is never derived as well (`ListedWins`) is what makes the entries disjoint; a sum is the number
  of units there are, so that of disjoint parts adds up, of two by `SumOfTwo` and of any number, without induction, by pairing their units (`SumOfParts`).

`TerminalProofs` proves about `MCTerminal`, for any chains, chunks, header spans, rules, addresses, facts and budgets, from `TerminalAssumption` and `EntitiesAssumption`, the three safety properties of the run `terminal`.

* `DatedInv`, for `AlwaysPublishedAsMeasured`: a set is what the rule gives for its rows and its clock, a stored supply goes with its date, and a running process that still goes by the live sample has no clock on disk it would
  contradict. The last is what a restart needs, which serves the stored clock before it has measured one.
* `AdjustedInv`, for `AdjustedIsAlwaysWhatTheSetLeaves`, whatever pieces the first reading came in and whichever headers either lacked. Of a backfill of an empty database, `ColdRunCounts` says after every chunk how far it has got: in the first
  reading each minute is the noisy count of the blocks dated in it (and nobody is flagged: `NobodyYet`); in the second the sum in hand is, of every minute that nothing was moved out of or into, the count without the flagged, and the minutes on disk are
  not touched before its end. The end overwrites the span, zeroes included. Counts are sizes of sets of blocks, so that a range adds its own (`LogsAdd` from `CountedApart`). That a block both readings date alike lies in the span is `ReadWithin`: a range's
  own clock never runs backwards (`ClockInOrder`, from stamps that never fall; equal ones do no harm), so its blocks lie between the minutes of its ends. A minute with a sum also had one the first time, so there is a row to write to (`NoiseOnlyAdds`).
* `EntitiesInv`, for `RowIsAlwaysExplained`: the form of rows and of what the deriver holds between its rounds, and that nothing was learned of an address without a row. `RowIsWritten` reduces each writer to the one row it leaves;
  `KindIsGivenOnEvidence` is about `classify`.

The other three properties of the run follow from what the parts promise, as a behaviour of the whole is one of each part (`HooksPart`, `DailyPart`): `RulesAreAlwaysKept` and `MatchesAreAlwaysHeard` for any keys, requests, limits,
cache life and cooldown, from `AlertRulesAssumption` (sizes are naturals, the pro limit is not below the free one, there are finitely many requests), `DigestIsAlwaysTrue` for any heartbeat.

* `RulesInv` adds what a reload, a restart and a firing preserve together: the row of a rule and its entry in the copy both hold its last
  firing (`RowsKnow`, `CopyKnows`); the copy has every rule made before it was read and none deleted before (`CopyIsOfItsMoment`). `CurrentIsFit` draws from these what `checkRules` goes by, be it
  read afresh or not. The limit needs `PlacesAreHeld`: the rules of a key and its requests that were counted and are not stored yet take, together, no more than the limit and the other requests.
* `DigestInv`: the digest of a busy day is out before the day is marked (`SentBeforeMarked`), and the digests of a day neither marked nor about to be have arrived no more often than something undid them (`UnmarkedWereUndone`). The heartbeat
  needs `QuietDaysAreAStreak`: unless the process died between the two rows, the stored count is that of the latest marked days, none of them busy; between the two writes it is the check that knows it.

`JobsProofs` proves about `Retention`, for any windows, caps and bounds, from `RetentionAssumption` (a week and the days of the largest transfers are whole days, a batch contributes no more of the largest than a day keeps), the three
properties of the run `retention`: `HistoryIsAlwaysWhole`, `WindowsAreAlwaysHeld`, `AlwaysServedAsItWas`.

* Every window ends at one instant, `Reach`, and every table is cut back from the same one. It never goes back: the minute it names is held as long as no later one is, as a cut stops a week short of it (that is what a cut
  from the wall clock would break on a chain that halts). So what `RetentionInv` says of all that lies from a window's beginning on (`MinutesAreWhole`, `AddressDaysAreHeld`, `RawIsHeld`, `FeesAgree`, `LargestAreHeld`) stays said of less and
  less, and a step answers only for what it writes or deletes. A death between two statements of `prune` needs no case of its own: each statement keeps all of the invariant.
* Addresses are cut by block, back from a block that is not ahead of the clock, by a week no shorter than `shortest`; heights never fall with time (`HeightsInOrder`), so `AddressInv` is kept by whatever a strip of headers makes of a week.
* `DaysAreWhole` has no window: folding moves a minute's sum to its day in one transaction, and what a correction adds to a minute cut long ago is folded later. A sum is the number of units it consists of, so that a day's splits
  into what is folded and what stays (`SumOfTwo`) and a log that grows adds what it brought (`SumOfSums`).
* The largest are cut twice, per batch and per day. That neither cut drops one of the day's largest is a lemma on sets: the largest of a whole that lie in a part are among the largest of the part, and the largest of what was
  kept are those of all there was, as long as these were kept.

It also proves about `MCJobs`, for any feed, ticks, chain, calendar and bounds, from `JobsAssumption` (there are finitely many events and ticks, the feed holds something, a week has days, the two weeks lie after day 0, the gallop has a first step), the two
invariants of the run `jobs`.

* `PosterInv`, for `PostingIsOnceInOrder`. That the channel first hears of the drafts in order, though ticks overlap and each may break off anywhere, follows from two facts: the drafts posted are the first ones (`PostedFromTheFirst`), and what precedes a
  draft that a tick still holds is posted or held by the same tick (`EarlierComesFirst`, which a failure that went on with the next draft would break). Per tick, `TicksAreCounted` bounds how often a draft was posted by what cut its sends off (`Cuts`): an answer that
  was lost, or a death, which may cut off one send of each tick; once a draft has its mark only the ticks that still hold it can add a copy.
* `ReportInv`, for `TheReportIsTrue`. A search keeps midnight between its bounds (`SearchStands`), which needs stamps that never fall, from block to block and so over any distance (`StampsAreSorted`). So what is read are closes (`ReadsAreCloses`), and between
  the closes of two days lie exactly the blocks stamped after the first and up to the second (`NetIsTheDifference`): this gives the checks, and the closes rebuilt backwards and forwards from the reads (`ClosesFromIs`). That there is a highest close before the week, and a
  first of equals, is `PriorHighIs`.

`WatchProofs` proves about `MCWatch`, for any cooldown, endpoints, thresholds, contracts and bounds, the four properties of the run `watch`. The parts share no state, so each has an invariant of its own, which the steps of the others leave alone.

* `AlertInv`, for `OperatorIsAlwaysToldOnceAndLast`. `CooldownsRun` says that `lastSentAt` knows every announcement of the session, `SilentWhileUnknown` that a boot into a healthy chain, the one change that is no news, has no
  earlier word to leave standing.
* `CallsInv`, for `CallsAreAlwaysTrue`. That a call which fails has asked every endpoint follows from `AskedInOrder`: the endpoints asked and those left are together the order the call began with, whatever
  became of the endpoint in use since. `Tried` keeps with each refusal the cause it left (`CauseFits`), so that the error's verdict is about what was heard.
* `ProfileInv`, for `ReportsAlwaysMatchTheRecord`. The property compares a report with the histories of what the passes found, and those with nothing the code keeps. What ties them is that one
  pass runs at a time (`OnePassAtATime`, the guard of `runOnce`), that the shared observation is of that pass as it found things (`ObservedBy`), and that a row's misses count the very passes the history counts (`RowsCountMisses`).
  Overlap is where this could fail: without the guard a second pass would clear the observation under the first. The thresholds are above one (`ChainWatchAssumption`).

* `RecordInv`, for `UptimeIsAlwaysHonest`. The transitions are in order and the watermark is not behind the last one (`RecordType`: the marker of a gap is written at the watermark, and must not precede the transition it closes), so the segments
  are disjoint and cover what lies between the first transition and the watermark (`OneSegment`, `SegmentsCover`); the totals of a window are then numbers of instants (`SpentIsBooked`) that add up to it (`BookedOnce`), and the incidents list the
  same ones (`IncidentsAgree`). That they are true needs history: `SegmentsWereHeld` says that each segment's state was held through all of its `Stretch`, which for the last one reaches to now only while `LastIsCurrent`, the last transition being
  the state the process is in; a crash shrinks it to the watermark. `NothingMissed` is the converse, as long as nothing crashed. The window itself drops only transitions whose segments ended before it (`SinceBooksTheSame`).

`RouteHistoryProofs` proves about `RouteHistory`, for every chain, set of endpoints, coverage, span and range limit, any database `Init` allows and any number of deaths, from `RouteHistoryAssumption`, the three safety properties of the run `routes`:
`NothingIsTwice`, `MeasuredSinceHonest`, `GivesUpNothingElse`. `RouteInvariant` holds the inductive invariant: the rows of a pass, read through absent ones as 0, do not contradict each other (`AllRowsFit`, and
`AllRowsWhole` unless a death tore two rows apart); what is not indexed, or not opened for a pass, is untouched (`UnreadIsUntouched`); `hi` and `floor` say exactly which blocks are still filed by which older rule (`FiledAsTheRowsSay`), which is
why a re-filing never takes a block from the wrong rule; and every block from the published start on was reached (`SinceIsReached`). One lemma per action; `ChunkStep` and `BootStep` are the ones where all parts meet.

`AccessProofs` proves about `Access`, for any number of requests, limits, windows and times, from `AccessAssumption` (sizes are at least one, the free limit is not above the Pro one), the two safety properties of the run `access`:
`AnswersAreAlwaysTrue` and `QuotaIsKept`.

* A step moves one request, or drops all that are open. `Stage` says what a request has where it stands (one that waits for a body or a file has no answer yet), so that it enters each count once: `/v1` when it is out (`FinishStep`), `/mcp` when it is
  made (`McpStep`), the key's calls when it is let in (`KeyCounted`), whatever comes after. The total of the days is the number of their units. A page is recent because a request that waits for a file is no older than the reading (`LoadAge`) and
  what is cached was made of no older figures.
* `QuotaOK` relates a counter to what was let in: `count` is at least that, and once it is more, what was let in has reached `Floor`, the least limit that applied in this window. A lapse lowers it, a raise leaves it until the minute ends; a sweep
  takes only windows that count for nothing any more (`SweepKeepsCounts`), and no window is ahead of the clock's (`TickEndsWindows`).

Only model-checked: liveness everywhere (temporal reasoning under fairness is out of the prover's reach). Every invariant and every action property that a run checks is a theorem.

## 5. What is not modelled

* The calls inside the other models: each takes an answer, a late answer, a partial answer or a failure, whichever its caller can tell apart; an
  absent item of a strict batch, which `Failover` shows to pass, is not carried into `Indexer`.
* What a transfer, an address or a contract is classified as: pure functions of their own data: `Entities` takes the classes bytecode falls into as given. Which names contracts give themselves.
* SQLite writes that throw, but for `setCheckpoint`, where the catch changes the walk, and the statements of `prune`.
* The read side: sums, shares, rankings, search, CSV, HTML, OpenAPI, compression.
* Wording of messages and of the weekly draft; backups; the network profile and the registries as data (a profile is fixed but for `Deploy`).
* A failed chain-state page is not retried by the code and no text promises it is: `ChainAlert`
  records the send whether or not it arrives.

## 6. Plan

Order: what loses or doubles published figures first, then what talks to people, then what
shares tables.

1. Done: everything under 2.
2. Next to model: which callers take an absent item for an empty one; the rankings and series of the read side where they carry a rule (`dbDerived`, the series' complete days).
3. Compositions: the shutdown of `server.js` (which loops may be between two writes
   when the database closes); drafts fed by a ledger that replays; a batch replayed after its minutes were folded.
4. Theorems: each safety property of a run has one; what is added to the models next brings its own.
