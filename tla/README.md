# sf-info-lib in TLA+

`sf-info-lib` is the library behind an information service for a browser game.
Crawlers ask it which players to look at, send it what they found, and users ask
it for statistics and for advice (whom to attack to complete the scrapbook, whom
to lure into the underworld). Its state is a PostgreSQL database and a set of
in-memory caches built from it. All of it is async Rust on tokio: any number of
requests run at once, and what keeps them apart is row locks and unique keys in
the database, and a semaphore, mutexes and a channel in memory.

This directory models what can go wrong between these requests. TLC checks the
models on small instances; TLAPS proves the main theorems for every value of the
constants.

Contents: 1 Inventory, 2 The modules, 3 The runs, 4 Bounds and symmetry,
5 Fairness, 6 Disagreements found, 7 What is proved, 8 What is only
model-checked, 9 What is not modelled, 10 Plan.

## 1 Inventory

Paths are relative to `src/` of the repository (`src/db/...` is `src/src/db/...`
in `PROJECT.json`).

| component | state it keeps | operations |
|---|---|---|
| crawl reports (`src/db/crawling.rs` 17-367) | tables `player`, `player_info`, `guild`, `description`, `otherplayer_resp` | `handle_crawl_report`, `insert_player`, `mark_removed` |
| crawl queue (`src/db/crawling.rs` 187-223, 409-445) | column `player.next_report_attempt` | `get_characters_to_crawl`, the schedule in `insert_player` |
| Hall of Fame crawl (`src/db/crawling.rs` 447-596) | `server.last_hof_crawl`, table `todo_hof_page` | `get_hof_pages_to_crawl`, `insert_hof_pages` |
| cache updates (`src/db/update.rs`) | `UPDATE_SENDER` (a channel), `server_updates` (batches), a semaphore | `fill_all_server_caches`, `continuously_update_server_caches`, `apply_server_cache_updates` |
| scrapbook cache (`src/db/scrapbook.rs`) | `SCRAPBOOK_PLAYER_CACHE`: players, and an index from equipment to sorted, varint-coded player lists; a result cache | `update_scrapbook_cache`, `get_scrapbook_advice`, `calc_best_targets`, `find_best` |
| underworld cache (`src/db/underworld.rs`) | `NUDE_PLAYER_CACHE`: a list sorted by stats | `update_underworld_enemies`, `get_best_nude_players` |
| database access (`src/db/mod.rs`) | connection pool, `GAMESTATE_POOL`, `LOOKUP_CACHE` | `get_db`, `get_gamestate`, `get_server_id` |
| statistics (`src/db/stats.rs`) | the list of servers, cached for six hours under a mutex | `get_servers`, `get_hof_players`, `get_player_guild_history` (reads) |
| helpers (`src/common.rs`, `src/types.rs`) | none | `compress_ident`, `decompress_ident`, durations |
| maintenance programs (`examples/compact_ids.rs`, `reencode_others.rs`, `remove_old.rs`) | the tables, offline or beside running reports | `main` of each |
| dumps (`examples/zhof*.rs`, `optimize_reponses.rs_`) | none | one-off scripts |

**How they interact.** A poll takes due players and moves their
`next_report_attempt` half an hour ahead: a lease nobody has to acknowledge. The
crawler later reports each player with a response or without one.
`handle_crawl_report` passes a response to `insert_player`, which in one READ
COMMITTED transaction reads the row without locking it, interns guild and
description, writes the row, *sends a `PlayerUpdate` to the caches*, stores the
response and an entry in `player_info`, and commits. A player without a response
is flagged by `mark_removed`: one statement, then the update. The first send (or
the first request for advice) starts a task that fills the caches from the
database and afterwards receives the updates, groups them by server and spawns a
task for every batch that is full or old. Advice reads the caches. The Hall of
Fame is how names get into `player` before anybody crawled them.

**What is hard.** Two reports of one player whose reads and writes interleave;
two first reports of a name; two transactions that intern one guild; an update
that is sent before the commit that may fail; a lease that runs out while its
crawler is still at work, and the late report that follows; polls that look at
one snapshot and lock rows one by one; clocks of crawlers; the fill of the caches
beside running reports; batches applied out of order; requests that compute one
answer at once; programs that rewrite ids while reports come in; a restart
anywhere. There are no tests for any of this in the repository.

**What makes each part correct.** Reports: row, history and interned rows belong
together at every commit, and the caches were told. Queue: a player has one
crawler at a time, its lease is not cut short, nobody drops out, the longest
waiting comes first. Caches: they end up with the last update of everybody.
Hall of Fame: every page of a crawl is reported or still to do, no name it showed
is missed, and a page that nobody reports is handed out again.
Advice: the answer is what a plain search of the cached data gives, although the
lists are compressed, searched in pruned slots, and game states and answers are
shared by requests; what can be asked for once is asked for once. Maintenance: a
history entry stays with its player and its response through every move of ids,
also if a program is stopped, and what it took away for its work comes back.
`PROJECT.json` lists the hazards one by one, each at its line, with the
properties that would catch it.

## 2 The modules

| module | role |
|---|---|
| `PlayerHistory` | abstract specification: what the reports promise about `player` and `player_info` |
| `PlayerReports` | the reports, statement by statement; implements `PlayerHistory` |
| `PlayerReports_proofs` | its inductive invariant and theorems |
| `CrawlQueue` | the queue in `next_report_attempt`, under a clock |
| `CrawlQueue_proofs` | its inductive invariant and theorems |
| `CacheContents` | what an update means for the contents of the caches, as maps and sets |
| `CacheUpdates` | sender, fill, receiver, batches, tasks and both caches |
| `CacheUpdates_proofs` | its inductive invariant and theorems |
| `ServerCache` | abstract specification: the caches of one server as maps and sets |
| `DeltaVarint` | `DeltaVarintArray`: coding and decoding of a sorted list |
| `DeltaVarint_proofs` | that decoding gives back what was encoded, and the lemmas on recursion, loops and sequences it takes |
| `Idents` | `compress_ident`, `decompress_ident`, with their theorems |
| `Advice` | requests for targets, nude players and servers, and all they share; implements `ServerCache` |
| `Advice_proofs` | the inductive invariants of the caches, of the answers and of what requests share, and their theorems |
| `HofCrawl` | the crawl of the Hall of Fame: its restarts, leases of pages, reports of pages |
| `HofCrawl_proofs` | its inductive invariant and theorems |
| `Maintenance` | the three programs of `examples` that rewrite the database, beside reports |
| `Maintenance_proofs` | its inductive invariant and theorems |
| `MCPlayerReports`, `MCCrawlQueue`, `MCCacheUpdates`, `MCAdvice`, `MCHofCrawl`, `MCMaintenance` | instances for TLC |

### PlayerReports

A handler is one request working on one player. `pc` is where it is, `job` the
report at hand, `seen` the row it read, `target` the `player_id` it writes, `keys`
the guild and description rows it inserted and holds. The other variables are the
committed tables, the sequence of `player_id`, and the last update sent for each
player. The open transactions hold their uncommitted writes in the registers, and
`Commit` makes all of them visible at once.

| action | code (`crawling.rs`) |
|---|---|
| `Receive` | the loop of `handle_crawl_report` |
| `SelectExisting` | `SELECT player_id, equipment, attributes, ...`: no lock |
| `SelectGuild`, `InsertGuild` | the id of the guild, or `INSERT ... ON CONFLICT DO UPDATE` |
| `Discard` | the row read is as new as the report: `rollback` |
| `UpdatePlayer`, `InsertPlayer`, `InsertConflict` | `UPDATE player` or `INSERT INTO player`, then the send |
| `SelectDescription`, `InsertDescription` | the same for the description |
| `Commit` | `otherplayer_resp`, `player_info`, `commit` |
| `Abort` | any `?` of `insert_player` or `mark_removed` |
| `FlagRemoved`, `AnnounceRemoved` | `mark_removed`: one statement, then the send |
| `Discover` | a new name inserted by `insert_hof_pages` |
| `Restart` | the process dies: registers and updates are gone, tables stay |

PostgreSQL is modelled by how this code uses it: a statement sees what is
committed when it starts; a row that an open transaction wrote makes others wait;
an INSERT waits for an open INSERT of the same unique key; a sequence does not
take back what it handed out. What a response contains is reduced to what the
code compares or links: its profile (level, attributes, xp: `has_changed`), its
guild or none, its description.

### CrawlQueue

`player[n]` has the four columns the queue depends on. `poll[q]` is a request of
`get_characters_to_crawl`: the clock it read (before waiting for a connection) and
the snapshot its statement saw. `job[h]` is a reported player between SELECT and
UPDATE. `lease` is a history variable. A poll is four steps: `Ask` reads the clock,
`Scan` fixes the snapshot, `Claim` takes the locks (each row is looked at again in
its newest version) and moves `next_report_attempt`, or `PollFails`. That `Claim`
locks all its rows in one step is an abstraction: the code locks them one after
another, and a row that changes between two of these locks is one that changed
before or after `Claim`.
A report is `Arrive`, `Read`, and `Write` or `ReportFails`; `Write` has the five
tiers of the schedule and the clamp of future fetch times.

Two assumptions about the environment are constants. `MaxAge`: a report is
recorded at most that long after its fetch; every delay must be at least
`MaxAge + Lease`, which the code's shortest delay (11 hours) and lease (half an
hour) give for reports up to 10.5 hours old. `MaxWait`: a poll is over that long
after it read the clock, at most a lease; the code waits 100 seconds for a
connection and fails otherwise. `MaxSkew` is how far a crawler's clock runs ahead;
nothing is assumed of it.

### CacheUpdates

`db` is what a row holds for the caches, `open` the report in progress of a
player (one at a time: races between reports are `PlayerReports`), `phase` and
`fill` the life of the receiving task, `channel` the unbounded channel, `batch`
and `aged` the map `server_updates`, `tasks` the spawned
`apply_server_cache_updates` in spawn order. `nude`, `info` and `index` are the two
caches of a server, as maps and sets that change by the rules of `CacheContents`:
the code keeps sorted lists, which are in `Advice`. `owed` (the last
update sent for a player in this process) and `raced` (a task got the semaphore
before an older one of its server) are history variables.

| action | code |
|---|---|
| `Report`, `Conclude` | `insert_player`: the send, then commit or rollback |
| `FlagRemoved`, `AnnounceRemoved` | `mark_removed`: commit, then the send |
| `Advise` | requests for advice touch `UPDATE_SENDER` |
| `ListServers`, `StartFails`, `Fetch`, `FetchFails`, `Store`, `Filled` | `fill_all_server_caches` |
| `Receive` | one round of the receive loop |
| `Age` | time passes for a batch |
| `Acquire`, `UpdateUnderworld`, `UpdateScrapbook` | `apply_server_cache_updates`: each cache is read, changed on a copy and written back |
| `Restart` | everything in memory is gone |

### HofCrawl

`todo[p]` is the row of page `p` in `todo_hof_page`, with the number of the crawl
that inserted it: the same page of the next crawl is another row. `poll[q]` is a
request of `get_hof_pages_to_crawl`, `report[r]` a request of `insert_hof_pages`
and the page it is at. `crawled`, `shown`, `pages`, `began` and `handed` are
history variables, all about the last crawl.

| action | code (`crawling.rs`) |
|---|---|
| `Begin`, `LockServer` | BEGIN, the clock, and the UPDATE of `server`: it looks at the date in a subquery, then waits for the row |
| `ClearPages`, `FillPages` | DELETE of all pages, INSERT of the pages up to `player_count`, commit |
| `PickPages`, `HandOut` | one UPDATE: its subquery picks due pages, then their rows are locked and leased |
| `PollFails`, `ReportFails`, `Restart` | `?`, a lost connection, a deadlock PostgreSQL ends, the process dies: what is open rolls back |
| `Arrive`, `DeletePage` | DELETE of the page's row, leased or not |
| `SelectNames`, `InsertName` | the names that are not in the table, inserted with `ON CONFLICT DO NOTHING` |
| `CommitPage` | the commit; row and names change at once |

What matters here is what PostgreSQL does after it has waited for a row: the row's
newest version is used, but `WHERE idx IN (SELECT ...)` is not evaluated again. So
two requests that both found the last crawl too old restart it twice, and two that
picked a page before either leased it both get it. The code accepts both;
`EarlyRestartOnlyByOverlap` and `DoubleHandOutOnlyByOverlap` say that nothing else
leads there. The default of `next_report_attempt` is the time the transaction
began, which is just before the code reads its clock: `FillPages` sets it to one
less. A page that cannot be parsed is skipped and has no action: nothing changes.

### Advice

One server; requests for others share only locks with it. `scrap` and `nudes` are
its two caches as the code keeps them: a map of players and, for each item, a
`DeltaVarintArray` of `player_id`s (the field `cached` tells whether there is one);
a list sorted by stats. `pool` is
`GAMESTATE_POOL`, with the holder of each state and the scrapbook left in it;
`known` and `writer` are the server's entry in `LOOKUP_CACHE` and its write lock;
`results` are the cached answers, `servers` and `counter` the time of the cached
list of servers and its mutex. `req[r]` is a request between two of its awaits.
`version` and the fields `data`, `version` and `crossed` of a request are history.

| action | code |
|---|---|
| `UpdateUnderworld`, `UpdateScrapbook` | a batch reaches the two caches, one after the other (`underworld.rs` 11-95, `scrapbook.rs` 182-258) |
| `Ask`, `AnswerFromCache` | `get_scrapbook_advice`: the cached answer, if it is younger than an hour |
| `AskNude`, `AskServers` | `get_best_nude_players`, `get_servers` |
| `Connect`, `Fail` | `get_db`: a cell that one task fills; any `?` before the answer |
| `ReadLookup`, `WriteLookup`, `InsertServer` | `get_server_id`: looked up under the read lock, again under the write lock, then asked of the database |
| `CalcTargets` | a game state is taken, filled and emptied, `calc_best_targets` up to its query for the names; without a usable scrapbook the answer is empty, and goes the way of every other |
| `AnswerTargets` | the names are there: who has no row is left out, the state is released, the time is read |
| `StoreTargets` | the cache's write lock is there: the answer is stored, with the time read before; now and then old ones are thrown away |
| `CalcNude`, `AnswerNude` | both binary searches, the names from the database |
| `LockServers`, `CountServers` | `get_servers` under its mutex |
| `Tick` | time passes |

What is left open by the code is left open here: where `binary_search` lands among
equal keys (`Landings`), in which order a hash map is walked (`Sortings`, `\E
order`), and in which state an unparsable, refused or incomplete answer of the
game leaves a shared game state (`Updated`). `calc_per_player_count` counts by list, as
the code does; `TargetsAreBest` compares with a search by player. `Base` and
`Width` of the varints are constants, 128 and 2^64 in the code.

Only a server without a cache is answered without storing anything
(`scrapbook.rs` 286-288). A scrapbook that does not parse, that `update` refuses or
that is missing from the answer gives `Ok(vec![])` (327-341), which is stored with
the present time and given for an hour like any answer. A request is at `store`
between reading that time and getting the write lock, so a later answer may be
stored first; `crossed` tells of a request that another one to its question was
stored beside it. `Rowless` are the ids in the caches
that may have no row when the names are asked for, each time anew: an update whose
transaction rolled back, or has not committed yet, and ids that `compact_ids` has
moved away. `filter_map` drops them, and the answer, stored or not, is shorter by
them: the field `unnamed`, which is history, says who they were.

### Maintenance

`player`, `infos` and `resps` are the tables reduced to ids, with the player and
the content that was reported as history. `rep[h]` is `insert_player` at the
statements that read or lock ids. `prog` is the one program that runs, `tasks[i]`
its transaction about player or response `i`, with the rows it has changed and not
committed.

| action | code |
|---|---|
| `Open`, `UpdatePlayer`, `InsertPlayer`, `FindResponse`, `InsertInfo`, `Commit`, `Abort` | `insert_player` (`crawling.rs`) |
| `CountPlayers`, `ListIds` | `compact_ids.rs`: SELECT COUNT, SELECT the ids, and the map from old to new ids |
| `DropKey`, `RestoreKey` | the foreign key of `player_info`, dropped and added again |
| `MoveInfos`, `MovePlayer`, `MovesEnd` | a chunk's two UPDATEs and its COMMIT; the first error of any chunk ends the program |
| `SelectMax`, `ResetSequence` | SELECT MAX, then ALTER SEQUENCE |
| `ListOld`, `MatchResponse`, `Repoint`, `DeleteOld` | `reencode_others.rs`: the responses of an old version; encode and look for the same bytes, or insert them; UPDATE the rows; DELETE and COMMIT |
| `ListUnused`, `RemoveUnused` | `remove_old.rs`: responses without a row, deleted one by one |
| `Interrupt`, `TaskFails`, `WorkEnds` | CTRL+C, a panic, a failed transaction; the end |

Two history variables mark what the code accepts: `broken` (a run was stopped or
failed while the key was away) and `raced` (an id was drawn and not yet committed at
SELECT MAX, or drawn between it and ALTER SEQUENCE). `crossed` marks a report that was open while its player was
moved. The properties exempt these cases and no others.

### How the modules fit together

`PlayerReports` and `CrawlQueue` share `insert_player`: the first has its
transaction without the clock, the second has its schedule without the other
tables. `CrawlQueue.Write` is one step because between the UPDATE and the commit
the row is locked. `PlayerReports.announced` and `CacheUpdates.db/channel` meet at
the send: `CommitIsAnnounced` is what `CacheUpdates` relies on when it lets each
player have one report in progress (a commit is announced before it happens, and
is the last announced). `PlayerReports.Discover` and `CrawlQueue.Discover` are the names
`HofCrawl.CommitPage` inserts; `Loaded` in `Restart` is the query `CacheUpdates.Fetch`
models.

`CacheContents` is what `CacheUpdates` and `Advice` have in common: which players an
update adds to which map. `CacheUpdates` says which batches reach the caches and
in which order; `Advice` takes any batches in any order and shows, by the
refinement `CacheHoldsSets`, that its sorted, searched and compressed lists behave
as the maps and sets of `ServerCache`, which is all `CacheUpdates` assumes.
`Maintenance` is `PlayerReports` reduced to ids, with the duplicates of a response
that `PlayerReports`, where responses are their contents, cannot have.

## 3 The runs

| run | question | result |
|---|---|---|
| `reports` | Two requests, three reports of two players, every order of statements, with removals, discoveries, rollbacks and restarts | rows agree with their history, links resolve, writers exclude each other, no circle of waiting transactions closes, commits are announced, a row goes back only after a race, and the transactions implement `PlayerHistory` |
| `queue` | Two polls and a report race for two players under a clock | leases exclude each other and are respected, the longest waiting is first, no date lies in the future, nobody drops out, every next attempt is accounted for |
| `queue_live` | Is everybody who is due served? | yes, while crawlers poll |
| `caches` | Three updates of two players of one server, while the fill runs and batches are applied in any order | the last update is kept and shown unless batches raced; who got no update is shown as loaded |
| `caches_live` | Two servers, one or both fills may fail | the channel drains, all batches are applied |
| `hof` | Requests for pages, reports of pages, restarts of the crawl and failures, in every order | no page and no name is lost, pages come back after a lease, and what is done twice was done by requests that overlap |
| `advice` | Two requests at a time for targets, nude players and servers, beside batches of updates and a clock | answers are those of a plain search, lists behave as sets, locks are asked through once, shared states are not mixed up, answers live an hour |
| `maintenance` | Two runs of the three programs, stopped anywhere, beside two reports | history stays with its player and its response, drawn ids are free, the foreign key comes back unless a run was stopped |
| `reported_backwards` | Does `last_reported` ever go back? | it does (section 6) |
| `reported_again` | Is a player who is reported again present again? | no (section 6) |
| `old_batch` | Is an old batch written? | not without a further update (section 6) |
| `new_items` | Is every item in the index? | not one that is new (section 6) |

The properties, in the words of the code:

- `RowIsLastEntry`: the columns of `player` are those of the `player_info` row
  committed last. It holds because the UPDATE locks the row until the commit.
- `ChangedShowsProfile`: `last_changed` names an entry with the present profile,
  also when the decision was made on a stale read.
- `LinksResolve`: no committed row points at a guild, description or response
  that was rolled back.
- `WritersExclude`: two open transactions never hold the same player, `player_id`,
  guild or description.
- `CommitIsAnnounced`: the update sent for a report that commits is the last one
  sent, or was followed by the removal of a player who is flagged.
- `OnlyARaceGoesBack`: a row goes back only by a writer whose read was replaced.
- `Atomic`: refinement of `PlayerHistory`.
- `WaitsGoUp`: all take guild, player, description in that order, so whoever is
  waited for is further on than the one who waits, and no circle can close.
- `LeaseExclusive`, `LeaseRespected`, `OldestFirst`, `NoFutureReports`,
  `NeverLost`, `NextIsAccounted`, `DueIsServed`: the queue, see the comments.
- `LastUpdateKept`, `Converged`, `LoadedAsCommitted`, `UpdatesAreTaken`,
  `BatchesAreApplied`: the caches, see the comments.
- `PagesAccounted`: a page of the crawl is to do, or was reported in this crawl and
  every name it showed is in the table: also if a report waited while the crawl was
  restarted, or skipped a name another transaction was inserting.
- `PagesReturn`: a page that is to do is due, or leased for one lease at most.
- `EarlyRestartOnlyByOverlap`, `DoubleHandOutOnlyByOverlap`: see section 2.
- `TargetsAreBest`: every answer, at once or from the cache, is right for its question
  and the players it was computed from, less those who had no row when the names
  were asked for: nobody takes their place, and who remains keeps the order. To a
  scrapbook the game does not understand it is empty, whatever others left in the
  state. A forgotten reset of a shared game state, a wrong slot in `find_best` or a
  wrong list would give another's answer.
- `NudesAreBest`: nobody of the right strength is passed over for a lower level,
  except among those of exactly the strength asked for; who has no row is left out
  in the same way.
- `AskedOnce`: of all requests that find the server unknown, or the list of servers
  old, one asks the database. `StatesAreReused`: a state belongs to one request,
  and the pool does not outgrow the requests.
- `RenewedOnlyByOverlap`: an answer that is still good is replaced, or replaced by
  older data, only by a request that had been computing it already. It is about every
  change to the cache: empty answers are stored, and old ones thrown away, under the
  same rule.
- `CacheHoldsSets`: the refinement; in `TypeOK`, lists stay strictly sorted and both
  decoders agree.
- `HistoryKeepsItsPlayer`, `HistoryKeepsItsResponse`: a row of `player_info` keeps
  meaning what was reported of whom, across moves, merges and deletions.
- `FreshIdsAreFree`: no player is given an id that is taken, after the sequence was
  set back either, unless an id was drawn, and not committed, before SELECT MAX, or
  drawn between it and ALTER SEQUENCE.
- `ForeignKeyComesBack`: the key is away only during a run or after one that was
  stopped or failed, and where it is it holds for every row.

Deadlock is checked in all passing runs. Each property has a mutant in
`PROJECT.json`: a plausible bug in one mapped definition (a missing lock, a
dropped WHERE clause, a lost permit) under which TLC finds it violated.

## 4 Bounds and symmetry

- `MCPlayerReports`: 2 names, 2 handlers, 3 reports, 3 responses. The responses
  are chosen so that two share a profile and two share guild and description; one
  has no guild. Two transactions are what a race needs; the third report comes
  after a race or a restart. `MaxTime = 2` gives older, equal and newer fetch
  times. `MaxPid = 5` is never reached: 3 reports and 2 discoveries draw at most 5.
  About 430 000 states.
- `MCCrawlQueue`: 2 names, 2 polls, 1 report in progress, limit 2 (so the limit
  cuts with one claimable name less and the order matters with limit 1, which is
  covered because an answer may be shorter), clock up to 4. The unit of time is a
  lease; delays are 2 to 4 and keep the order of the real ones. Four ticks let a
  player be leased, run out, be leased again and be reported late. About 1.8
  million states. `CrawlLive` has one poll with limit 1 and a clock up to 3.
- `MCCacheUpdates`: 1 server, 2 players, 3 contents (nude; dressed in another
  item; low level), 3 updates, batches of 2: a batch can be full, old, replaced
  while a task is queued, and there can be two tasks. About 2.3 million states.
  `CachesLive` has 2 servers, 2 updates, batches of 1.
- `MCHofCrawl`: 2 names, 2 pages, 2 requests for pages and 2 reports in progress,
  3 requests in all, lease and age of a crawl 1, clock up to 4. Every race here is
  one of two requests; the third is the crawl before them or what comes after. A
  crawl, a lease, its end and the next crawl take four ticks. About 800 000 states.
- `MCAdvice`: 2 requests at a time, 4 steps of questions, batches and ticks in all.
  `player_id`s 1, 5 and 46 with base 4 give differences of two and three bytes (4,
  41, 45). Five batches fill, dress, undress, remove and change players; two are
  equally strong, so that searches have a choice of landings. The questions have an
  empty scrapbook, one with an item, one that the game refuses and one without an
  answer; `Limit` and `Size` are 2, so that both cut. Player 5, who is the second or
  the first of many answers, may have no row. Answers live 1 tick, the list of
  servers 2. About 470 000 states.
- `MCMaintenance`: 2 names, 2 reports and 2 runs in all; a response in the encoding
  of old and in that of now, and another one, up to 4 ids of responses and 5 of
  players, of which id 3 may be in use at the start: there is a hole to fill, and the
  second run meets what a stopped first one left. About 1.6 million states. A chunk
  is one id. A row left under an id that a new player draws later needs a third
  name and is not reached.
- Symmetry is used in the safety runs of reports, queue, advice, Hall of Fame and
  maintenance (names, handlers, polls are interchangeable), never where liveness is
  checked.
- `MaxReports`, `MaxRequests`, `MaxNow`, `MaxSends`, `MaxPid`, `MaxTime`, `MaxWork`,
  `MaxResp`, `MaxRuns` are the only bounds on counters; each is named where it is
  declared.

## 5 Fairness

- `PlayerReports` states none. That transactions do not wait for each other for
  ever is `WaitsGoUp`, which is proved; that a transaction which waits for nobody
  goes on is up to tokio and PostgreSQL.
- `CrawlQueue`: `Ask` weakly, `Scan` and `Claim` strongly fair for each poll
  slot: crawlers poll again and again, and not every poll fails. Without the
  latter nothing could be promised. Reports are not assumed.
- `CacheUpdates`: weak fairness of the fill, of the receiver, of the tasks, and
  of `Age`: time passes whether or not updates arrive. `Report` and `Restart` are
  not fair.

- `HofCrawl` states no liveness: pages nobody asks for are not crawled, and whether
  a crawler answers is not up to this code.
- `Advice` and `Maintenance` state none either: a request waits for locks that are
  released, and TLC's check for deadlocks shows that one can always go on
  (`Quiet`, the only step without effect, asks that nobody is at work).

## 6 Disagreements found

Each is a run that checks one property, the text it comes from, and the code.

1. `reported_backwards`: `insert_player` decides on a row it read without a lock
   (line 144) and updates it unconditionally (229). Of two overlapping reports the
   one that commits last wins, also if it is the older, although the migration
   calls the column "The last time, that this player was reported at". The passing
   property `OnlyARaceGoesBack` says that there is no other way to go back.
2. `reported_again`: the same UPDATE does not touch `is_removed`. A player who
   was flagged and is then reported with data stays flagged, is never handed out
   again and is not loaded into the caches at the next start, although the column
   tells "Wether or not this player has been removed from the server".
3. `old_batch`: the age of a batch is looked at when another update of the same
   server arrives (`update.rs` 112); the comment above the loop says that batches
   are written once "enough time has passed".
4. `new_items`: `update_scrapbook_cache` rebuilds the lists of the idents already
   in its map (`scrapbook.rs` 216); an item nobody wore when the map was built is
   never added.

Two more have no run of their own; the passing properties say that nothing else goes
wrong there.

- The binary search of `get_best_nude_players` (`underworld.rs` 108) may land anywhere
  among the players with exactly `max_attrs` stats and leave out those before, although
  the comment on what it leaves (112) says "Contains players with at most the given
  stats". In the model this is the choice of `Landings`, and `NudesAreBest` exempts
  nobody else.
- `compact_ids.rs` tells its user "CTRL+C to abort at any point" (104). Stopped after
  DROP CONSTRAINT it leaves `player_info` without its foreign key, and if all moves were
  done by then, the next run finds nothing to move (77-93), sets the sequence and ends
  without restoring the key. In the model this is `Interrupt` at `restore`, then
  `CountPlayers` and a `ListIds` without tasks. `ForeignKeyComesBack` marks it by `broken`,
  which stays, and says that there is no other way to lose the key.

## 7 What is proved

All theorems are for any number of players, requests, responses and any delays
that satisfy the named assumptions (`ReportsAssumption`, `QueueAssumption`,
`HofAssumption`, `MaintenanceAssumption`, `CacheAssumption`, `AdviceAssumption`,
`NoneAssumption`), and for all items.

**`CrawlQueue_proofs`.** `QueueInv` is inductive: `TypeOK`, `SeenPast` (dates a
report has read lie in the past), `LeaseBound` (leases end at most `Lease` after
now), `LeaseRespected`, `NoFutureReports` and `NeverLost`. A report moves the next
attempt to its fetch time plus a delay; that this is not before the end of the
lease needs `LeaseBound` and the bound on the age of reports that is part of
`TypeOK`. `TypeCorrect`, `LeasesAreRespected`, `ReportsLieInThePast` and
`NobodyIsLost` follow; `NextAttemptsAreAccounted` is kept by every step that keeps
`QueueInv`. `LeasesAreExclusive` is an action property: a
claimed row is due by its newest version, and due rows have no running lease.
`OldestAreHandedOutFirst` needs `SnapOK`, about rows that changed after a poll's
snapshot: whoever changed one moved its next attempt past the poll's clock
(reports by `MaxAge + Lease`, claims by `Lease`, both at least `MaxWait`), so a
row that is still due has the value the snapshot ordered it by.

**`PlayerReports_proofs`.** `ReportsInv` has eleven parts, none of which is
inductive alone:

| part | says | needed for |
|---|---|---|
| `TypeOK` | shapes, registers agree with labels | all |
| `PidsOK` | `player_id`s are drawn once, below `nextPid`, one per name | `TargetsOK`, `RowIsLastEntry` |
| `ReadsOK` | what a handler read was a row of that player with that id | `TargetsOK` |
| `WritersExclude` | see above | `RowIsLastEntry`, `AnnouncedOK` |
| `TargetsOK` | a transaction past its UPDATE or INSERT writes the id of its name | `RowIsLastEntry` |
| `KeysOK` | whoever is past a key has it committed or holds it | `LinksResolve` |
| `LinksResolve`, `RowIsLastEntry` | see above | |
| `DatesOK`, `ProfilesOK` | `last_changed` names an entry with the profile, in rows and in stale reads alike | `ChangedShowsProfile` |
| `AnnouncedOK` | while a transaction is open, its update is the last sent, or a flagged player's removal is | `CommitIsAnnounced` |

Each part has a lemma that every step keeps it, with one step per action;
`ReportsInvariant` combines them. `ImplementsHistory` is the refinement: `Commit`
maps to `Record`, `FlagRemoved` to `Flag`, `Discover` to `Discover`, all else to
a stutter. `WaitsHaveNoCircle` is `WaitsGoUp` for any number of handlers. It needs
`LocksOK` (which keys a handler holds at which statement) and `LocksInOrder` (they
were taken in the order of the tables).

**`Idents`.** `IdentsAreDistinct`: two items never share an ident, and every ident
fits into the positive half of an `i32`. `IdentsAreReadBack`: `decompress_ident`
gives back every item whose model is below 100 and colour below 16, which is what
`insert_player` stores. Both are arithmetic on field widths.

**`HofCrawl_proofs`.** `CrawlInv` is inductive: `TypeOK`; `ServerLocked` (who has
the server's row is alone with it); `PagesLocked` (while a restart has all pages,
no open report has deleted one); `HeldRow` (a row an open report has deleted is
there for everybody else); `NamesInserted` (at the INSERTs, what a page showed is
in the table, inserted by this report or still to insert); `PagesAccounted`. The
hard case is `CommitPage`: the row it removes is of this crawl by `PagesLocked`, it
is nobody else's by `TypeOK`, and its names are in by `NamesInserted`.
`PagesAreAccountedFor` and `TypeCorrect` follow. `LeaseInv` adds `PagesReturn` and
two parts about requests in progress: `RestartJustified` (whoever is restarting
found the last crawl over, or began before the one committed since) and
`PickJustified` (a picked page that is still there was not leased, or was leased
since). `PagesDoReturn`, `EarlyRestartNeedsOverlap` and `DoubleHandOutNeedsOverlap`
follow, the last two as action properties.

**`Maintenance_proofs`.** `IInv` is inductive. Of a report it says what it holds at
each statement (`RepsOK`), of a program where it has tasks (`ProgOK`); then come two
halves, each about ids that are drawn or replaced while others refer to them.

| part | says | needed for |
|---|---|---|
| `NewOnesOK` | an id or a name is inserted by one transaction, and nobody has it | `SequenceOK`, `HistoryKeepsItsPlayer` |
| `MovesOK` | a half-moved id is still its player's, its chunk has all its rows, and whoever may add one is `crossed` | `HistoryKeepsItsPlayer` |
| `ReportsKeepPlayer` | a report that was not crossed writes its player's id | `HistoryKeepsItsPlayer` |
| `KeyOK` | what is linked under the key is there until it commits | `ForeignKeyComesBack` |
| `SequenceOK` | what SELECT MAX saw is the largest until the sequence is set | `FreshIdsAreFree` |
| `FreshOK` | drawn ids of responses are below the sequence, unused, and each one's own | `FoundOK`, `TargetsOK` |
| `FoundOK` | the id a report found has its content or is gone, never another content | `HistoryKeepsItsResponse` |
| `TargetsOK` | what replaces a response means the same, and is there once rows refer to it | `HistoryKeepsItsResponse` |

The hard cases are `MovePlayer`, which renames rows while others commit rows of the
same id, and `DeleteOld`: the response it removes may be what another task has
chosen as its replacement. If that task has taken rows, `Linked` makes the
DELETE wait; if not, `Repoint` fails later. `TypeCorrect`, `EntriesKeepTheirPlayer`,
`EntriesKeepTheirResponse`, `NextIdsAreFree` and `KeyComesBack` follow from
`InvariantHolds`.

**`CacheUpdates_proofs`.** `IInv` follows an update from the sender to the caches.

| part | says | needed for |
|---|---|---|
| `PhaseOK` | nothing is under way before the receiver starts or after it died; no batch exists while the caches are filled | all |
| `HomeOK` | players stay with their server; a batch that is left is not full | `TypeOK`, `KeptOK` |
| `WorkerOK` | one task works, the eldest of its server unless batches raced, and what it has read is what is there | `KeptOK`, `IndexesOK`, `NudesOK` |
| `IndexesOK` | the index leads from its idents to exactly the players in `info` who have them, and is empty only if nobody has any | `Converged`, `LoadedAsCommitted` |
| `NudesOK` | the list of nude players agrees with `info`, or is ahead of it by the updates of the working task | `Converged`, `LoadedAsCommitted` |
| `KeptOK` | what is youngest in the first of channel, batch and tasks that has anything for a player was sent last; with nothing under way, `info` has it | `LastUpdateKept`, `Converged` |
| `LoadedOK` | what was fetched or stored for a player nothing was sent for is as committed | `LoadedAsCommitted` |

The hard cases are `Receive`, which moves the youngest update of one player and the
batch of all others, and `UpdateScrapbook`, which takes a task out from the midst of
the rest: that the youngest of a player is not the one that leaves, unless it is
the only one, is why `WorkerOK` says the worker is the eldest. `TypeCorrect`,
`LastUpdateIsKept`, `CachesConverge` and `LoadedIsAsCommitted` follow.

**`DeltaVarint_proofs`.** `ListsAreReadBack`: `to_vec` and `iter`, the two readers of
an array, both give back the list it was made from, for every base above 1, every
width above the base and every list of numbers below the width, empty and unsorted
ones included. Varints are read back first
(`VarintIsReadBack`), also where more bytes follow; then the differences; then the
sums, where each addition undoes the wrapped subtraction (`Wraps`).
The induction theorems of the library take an operator and cannot be used, so
induction is stated about sets (`Induction`, `StrongInduction`) and the recursive
functions are shown to obey their equations by `Recursion`, which is about functions
on any set with a measure. `Iteration` is the rule for a loop over a list: what
holds before it and is kept by each step holds at its end.

**`Advice_proofs`.** There are two invariants. `IInv` has what requests share and
nothing of what they compute: the data of an answer is any value.

| part | says | needed for |
|---|---|---|
| `Shape`, `Numbers` | the fields of a request; nothing comes from a later batch or time | all |
| `Stamped` | the time a request will store its answer with is not in the future | `RenewedOnlyByOverlap` |
| `Locks` | whoever asks the database has the lock for it, and the answer is still missing | `AskedOnce` |
| `Uncrossed` | for a request under way during which nobody stored an answer to its question, what is stored is over an hour old and of no later data | `RenewedOnlyByOverlap` |
| `Pool` | states are held one each, by exactly those who wait for names of targets, and are no more than handlers | `StatesAreReused` |

The hard case is `CalcTargets`, which takes the first free state or makes a new
one: that all states are held, each by another handler and none by this one, bounds
their number by an injection into the other handlers. `RenewedOnlyByOverlap` has only
one step to look at (`OnlyStoringChangesResults`): the answer that `StoreTargets` replaces
is of `Uncrossed`, and what it throws away was old at the time `Stamped` bounds. `TheDatabaseIsAskedOnce`,
`GameStatesAreReused` and `AnswersAreRenewedByOverlap` follow.

`AnswersInv` adds what is in the caches and in the answers.

| part | says | needed for |
|---|---|---|
| `Caches` | every array is a strictly rising list that both readers read alike, its players are in `info` and have the item; the list of nude players falls by stats and has each player once | `CacheHoldsSets`, `Answers` |
| `Types` | the locks, the clock, the flags | `TypeOK` |
| `Answers` | what a request holds from the query for the names on, and what is cached, is right for its question and for the data it was computed from, less whom the database did not know | `TargetsAreBest`, `NudesAreBest` |

The argument goes from the bytes upwards:

1. `Landing`: wherever a binary search among rising keys ends, nothing before is
   greater and nothing behind is less, also where several keys are equal.
2. A correction of an item's list (`Corrected`) and of the list of nude players
   puts in and takes out at such places, so a sorted list stays sorted and holds the
   set or map it should; with `ListIsReadBack` this holds of the arrays, too. These
   two are the steps of the refinement: `UpdateUnderworld` and `UpdateScrapbook` map
   to those of `ServerCache`, all else to a stutter. `ListsImplementSets` follows.
3. `calc_per_player_count` counts, for each player, the lists it is in. A list is
   that of one item and has a player once, so this is the number of his items that
   are missing in the scrapbook (`NewItems`). The last slot takes ten and
   more; nobody has more than ten, so in it, too, the count is the slot.
4. `find_best` walks the slots from the most items down and stops when it has enough:
   what it leaves out has fewer items, and what it cuts off is weaker. So the first
   `Limit` are the first in the order by items and strength, whatever the order in
   which the hash map was walked. `TheBestTargetsAreFound` follows.
5. `BestNude` starts from where its search landed and keeps the `Size` best by
   level of everybody behind it, by `Iteration` over the players. Equal stats may lie
   on both sides of the place it starts from, which is why `NudesAreBest` exempts
   them. `TheBestNudesAreFound` follows.
6. Leaving out those without a row keeps the order of the others, and their number
   with those left out is that of the best (`LeavingOut`), so what was right
   before is right with `unnamed` (`TargetsWithNames`, `NudesWithNames`). Where there is no
   usable scrapbook the request holds the empty answer it began with.
7. An answer from the cache is the answer that was right when it was stored, of
   the same question, so it is right for the data it was computed from.

`TypesHold` is `TypeOK`. `AdviceAssumption` says what the steps need of the
constants: requests are finitely many; a batch has finitely many players, whose ids
fit the width; a player has at most `MaxEquip` items, the slots of the game; stats and
levels are numbers; `Limit` is above 1 and `Size` above 0, which the code's are.

TLC checked the parts of `QueueInv`, `ReportsInv`, `AnswersInv` and each `IInv` as
invariants of the same instances before they were proved.

## 8 What is only model-checked

- Liveness (`DueIsServed`, `UpdatesAreTaken`, `BatchesAreApplied`): TLAPS has no
  rules for ENABLED here, and fairness needs it.
- That no state is a deadlock, for the same reason.

Every other property of a run has a theorem. What the properties exempt (`raced`,
`broken`, `crossed`, the disagreements of section 6) is exempt in the theorems alike.

## 9 What is not modelled

- The content of a response, its parsing and its encoding: an invalid response is
  one of the reasons for `Abort`; for `reencode_others`, `MeaningOf` says which
  contents mean the same.
- The order in which one statement locks several rows: two such statements may
  deadlock, which ends one of them (`PollFails`, `ReportFails`).
- Statement timeouts and the limit of the connection pool: a statement that fails
  is `Abort`, `PollFails`, `ReportFails` or `Fail`.
- In `PlayerReports`, duplicate rows of `otherplayer_resp`: contents are a set
  there. `Maintenance` has them.
- Of advice: the names themselves. A player is its id, so an id that `compact_ids`
  gave to another player while the caches had the old one, and that is then shown under
  the other's name, is not told apart. Also the normalisation of a url, and failures inside `get_servers` that are not failures of
  a query.
- Of `stats.rs`: `get_hof_players` and `get_player_guild_history`, which only read;
  `get_server_info`, `get_server_levels` and `get_class_distribution` end in `todo!()`.
- Of the programs: chunks of several ids (they would meet fewer reports half-way),
  the index `reencode_others` creates, progress output and the count `compact_ids`
  prints at the end.
- `ident_to_info` and `url_to_info` (formatting); `types.rs` (declarations; the
  durations are constants of the models); `mfbot.rs` (one query), `error.rs`; the
  dumps: no state.

## 10 Plan

Done: all components that keep state are modelled and checked: `PlayerReports`,
`CrawlQueue`, `CacheUpdates`, `Advice`, `HofCrawl`, `Maintenance`, with `Idents` and
`DeltaVarint` below them. Every safety property, action property and refinement that a
passing run checks is proved. What is left:

- Liveness, which section 8 says the provers cannot reach. Its safety half is there:
  `NeverLost`, `PagesAccounted`, `LastUpdateKept` say that what must happen
  is still to come as long as it has not happened.
- A theorem that joins two components: the batches of `Advice` are any, those of
  `CacheUpdates` are what the tasks take, and `CacheContents` is what both say a batch
  means. That the lists of `Advice`, fed by these tasks, converge to the database
  would follow from `CachesConverge` and `ListsImplementSets`.

Runs are kept few: a component's safety and liveness share an instance where its
size allows it.
