# TLA+ models of skipjackd

skipjackd is a local search daemon in Rust. A command line client or an MCP
proxy sends newline-delimited JSON over a Unix socket; the daemon asks several
search providers, merges what they return and caches it. These modules model
the parts of it whose correctness depends on order, time, failure or on rules
that meet each other. Source paths below are relative to the repository's root.

## The system

| Component | State | Operations | Interacts with |
|---|---|---|---|
| Provider health, `HealthState` in `src/daemon/manager.rs` | events in a sliding window, run of failures, status, time it went down | `record_success`, `record_failure`, `check_recovery`, `is_healthy` | every search reads it when it chooses providers, every provider task writes it when it ends (one write lock) |
| Rate limiter, `src/anti_blocking/rate_limiter.rs` | per name a deque of time stamps | `acquire` (may sleep) | every provider task, and again every attempt of a provider's own `search` |
| Retry, `src/anti_blocking/retry.rs` | the attempt number of one call | `retry_with_backoff`, `is_retryable` | wraps a provider's `search` |
| Rotating client, `src/anti_blocking/rotating_client.rs` | request counter, HTTP client | `client()` | every attempt of a provider |
| Providers, `src/search/providers/` | limiter, HTTP client, key | `search`, constructors | the network |
| Cache, `src/cache/` | SQLite table from key to response, TTL, two counters | `open` (recreates a corrupt file), `get`, `set`, `clear`, `evict_expired`, `stats` | searches (combined rows), provider tasks (rows of one provider), operator (`clear`) |
| Search dispatch, `Manager` in `src/daemon/manager.rs` | the requests in flight, their provider tasks, their deadline | `search` (concurrent or tiered), `clear_cache` | all of the above |
| Merge and rank, `src/search/` | none | `merge`, `rank` | the end of a dispatch |
| Connections, `src/daemon/server.rs` | bytes read, one request at a time | `read_line_limited`, `handle_connection`, `dispatch_request`, `handle_fetch` | the manager, the clients, the network |
| Accept loop and signals, `src/daemon/mod.rs` | published configuration, reload flag, shutdown permit | `accept_loop`, `signal_handler` | connections, the operator |
| Daemon life cycle, `src/daemon/mod.rs` | PID file, socket file, the process | `start`, graceful stop, `cleanup` | other processes through the two paths |
| Command line, `src/cli.rs` | none | one request per connection; `stop` | the daemon; the PID file and the socket path |
| MCP proxy, `src/mcp.rs` | none | four tools over stdio | the daemon |
| Configuration and start, `src/main.rs`, `src/config.rs`, `Manager::new` | file, environment, keys | load, override, validate, register providers | everything, once |
| IP rotation, TLS configuration, user agents | cursor; none | `next_ip`, `configure_client` | nobody; HTTP clients |

What is hard in it, and what must hold:

- *Shared state read before an await and used after it.* Health is read when
  providers are chosen, cache rows when tasks start, the clock before the lock
  of the cache is held; others change all of them in between. A row must always
  be what its key says, and a cached answer as complete as the dispatch it replaces.
- *Partial failure.* Providers fail, panic or stay silent; a client leaves, a
  connection breaks, the daemon dies. A request must be answered within its
  limit with what did arrive, no task may outlive it, a partial answer must not
  be stored as a full one, and nothing may be done twice.
- *Time.* Sliding windows, cooldowns, TTLs, backoff and hints: boundary
  instants, late reports, timers that fire late.
- *One budget spent in two places.* The pipeline and the provider take slots of
  one bucket, and retries, drops and rotations happen between them.
- *Bytes.* A line comes in any pieces; the limit counts the newline.
- *Processes that share files.* Start, stop, `stop` and crash over one PID file
  and one socket path, with nothing locked.
- *Signals against the accept loop.* A SIGHUP or SIGTERM may come at any point.
- *Rules that meet.* A file, defaults of two levels and variables in no order
  make one configuration; scores, a cut and a second ranking make one list.

`PROJECT.json` lists each hazard at its line with the properties that cover it.

## The modules

| Module | Models | Notes |
|---|---|---|
| `HealthState` | the record and its operations, as operators from record and time to record | used by the next one and by `SearchDispatch` |
| `HealthTracking` | one record under any order of operations | one action per operation: each runs under the write lock |
| `RateLimiter` | `acquire` by many tasks | one action per turn of the loop (it holds the mutex), one for the sleep, one for an abort |
| `ProviderExchange` | what each of the four providers makes of one HTTP exchange; `is_retryable` | operators; the exchange is an input |
| `ProviderCalls` | `execute_provider_pipeline` after a cache miss, `retry_with_backoff`, `client()` | composes `RateLimiter` and `ProviderExchange`; a thread per task, time between any two steps |
| `QueryCache` | `cache_key` and the effect of `get`, `set`, `clear` on the table, as operators | used by the next two |
| `CacheStore` | the store itself: `open`, threads, counters, crashes, damage to the file | `set` is two actions: it reads the clock before it holds the mutex |
| `SearchDispatch` | `Manager::search` and everything it spawns | composes `HealthState` and `QueryCache`; one action per stretch between two await points |
| `Ranking` | `canonicalize_url`, `merge`, `rank`, and a ranked row merged again | one action per turn of the merge loop, one for the cut, one for the ranking |
| `RequestReply` | what a connection promises: one allowed response per line, in order | abstract |
| `PageFetch` | `handle_fetch`: validation, redirects, time and size limits | used by the next one |
| `Connection` | `read_line_limited`, `handle_connection`, `dispatch_request`, `write_response` | composes `PageFetch`, implements `RequestReply` |
| `Clients` | the tools of the proxy and the commands of the command line, against a daemon that dies and restarts | the daemon's side is reduced to when it answers |
| `AcceptLoop` | `accept_loop`, `signal_handler`, tasks of connections | one action per stretch between two await points |
| `DaemonLifecycle` | `Daemon::start`, shutdown, `cleanup`, crashes | one action per file system call |
| `StopCommand` | `cmd_stop` | composes `DaemonLifecycle` |
| `Startup` | `main`'s choice of mode, `Config::load`, `Manager::new` | one action per variable applied and per provider registered; a variable may hold a table |

`MC*` modules give the constants of each run their values; `*_proofs` hold the
theorems. How state corresponds to the code, where it is not obvious:

- `HealthTracking.health` and `SearchDispatch.health[p]` are the Rust struct
  field by field; `NoTime` is `None`. `health_score() < 0.5` is compared without
  the division. `HealthTracking.fresh` is history, the reports since the last
  recovery. `prune_expired` pops while the front is old; the deque is in
  time order, so counting the expired events is the same.
- `RateLimiter.windows[n]` is the deque of name `n`; `log` is a history variable,
  every acquisition ever granted.
- `ProviderCalls.stage[t]` is where a task is in the pipeline; `http[n]` is the
  `RotatingClient` of provider `n`, whose clients are numbered in the order in
  which they are built; `own[t]` is a client that is built but not in place yet,
  because it is built outside the lock. `asked`, `slot`, `told` and `stale` are
  history. Between a slot and its request there is no await, but time: building a
  client takes 20-50 ms, as `rotating_client.rs:11-15` says. `Delay` bounds it,
  and `RequestsKeepRate` is stated up to it.
- `SearchDispatch`: `pc[r]` says where `Manager::search` is for request `r`,
  `task[r, p]` where the spawned task of provider `p` is: `lookup` (before its
  cache check), `acquiring`, `calling`, `backoff`, `succeeded` or `failed`
  (before its health update), `finished`, `collected` (joined). A task aborted
  with its `JoinSet` stops at its next await; one that a worker is polling at
  that moment goes on to that await, which is what `last` is for. A result is a
  record of who found it, for which query and language, and when. Merging keeps
  some of the union up to the limit: pages and scores are `Ranking`'s.
- A cache key is the text that is hashed, cut at its bars: `cache_key` puts a bar
  before each provider's name and escapes none in the query. Two queries *mix*
  when one is the other up to a bar; what is claimed of rows and answers is
  claimed of queries that mix with none; `AnswersTheQuery` is refuted of the others.
- `CacheStore`: `sets` is every call of `set` so far, with the time it read and
  the calls that had ended before it began; a response is the number of the call
  that brought it. `file` and `cache` are what is on the disk and outlive a crash.
- `Ranking`: floats are whole numbers of one unit, in which `Worth[n]` is
  `1/(n+1)`: twelfths in the runs, where it is whole for the first four places.
  The theorems ask of `Worth` only that it falls. `score` is `rank_score`, which
  `rank` overwrites; `native`, history, is what the provider had made it.
  `MergeAgain` is a response of one provider that is found in the cache, as it
  was ranked, by a search that merges it with other providers' responses.
  A URL is what `canonicalize_url` tells apart. The order of equal scores is
  whatever a `HashMap` gives, so it is left open.
- `Connection`: bytes are of four kinds, an ASCII byte, the two halves of a
  character of two bytes, and the newline. `socket` has what has arrived and is
  not read, `chunk` what is in `BufReader`, `line` and `total` are `buf` and
  `total` of the code. `url`, `hops`, `page`, `body` are the fetch in progress.
  A URL has the results that a lookup of its name may have. `validate_url` looks
  once and the HTTP client looks again when it connects (`server.rs:273` and
  `:377`), and nothing ties the two: so the model says which URLs pass and
  nothing of the address a connection goes to. There is no property about that,
  for what could be said follows from the guard alone.
- `Clients.conns` is every connection made, with what the daemon makes of it:
  `open`, `sent` (a line has been written), `serving`, `answered`, `closed`.
  `Due` is when `Connection`, `PageFetch` and `SearchDispatch` answer by.
- `DaemonLifecycle`: `pid_file` is absent, empty (truncated, not yet written) or
  a pid; `sock_file` the process whose listener is bound at the path. `exists`,
  `remove_file`, `bind` and the two halves of `fs::write` are separate steps.
  A process may be killed between any two of them, and pids are reused. Starts
  and cleanups overlap as they please. Two history variables say whether they
  have met on the two paths: `raced`, two starts that are past their checks, or
  have read what is no longer so, at the same time; `overlapped`, a start past
  its check while another process is still to remove the socket.
- `StopCommand.pending` is the processes that have caught a SIGTERM and not acted
  on it. `signal_handler` is spawned before the manager is built, so a process
  in `building` dies of the signal or keeps it, and then serves and drains.
- `AcceptLoop`: a configuration is its version number; `hup` and `term` are
  pending signals; `permit` is the stored permit of `Notify`.
- `Startup`: a document is a function from the paths of its keys and tables to
  typed values. A variable is parsed as any TOML value, so it sets a document at
  its path: one value, or an inline table with what is in it. The variables are
  applied one at a time in any order, as `std::env::vars` gives them. Lists in a
  variable are left out.

The definitions marked `fault` in the modules are not part of any
specification. Each is a plausible bug of the definition after it, and shows
that the property it is meant to break can be broken.

## The runs

| Run | Question | Result |
|---|---|---|
| `health_tracking` | Do status, counter, time stamp and events agree in every order of operations? Is recovery only ever earned? | holds |
| `provider_calls` | Two pipelines of one provider with retries, hints, deadlines and rotations: does what really leaves keep the rate, is a hint honoured, does a rotation take effect, does every call end? | holds |
| `dispatch_concurrent` | Two searches in concurrent mode over shared cache and health: health gate, deadline, no orphans, and an answer though providers stay silent for ever | holds |
| `dispatch_tiered` | A tiered and a concurrent search with retries, cache errors and `clear_cache`: keys, whose results an answer holds, completeness of cached ones, tier order | holds |
| `cache_store` | Threads on one cache through crashes, restarts and damage: is a hit the key's own and young, does what was cleared stay away, do starts keep sound rows? | holds |
| `ranking` | Over every list of up to three results, merged once or again from the cache: are keys stable, is the best of each page kept, does a provider's order survive? | holds |
| `connection` | Lines in any pieces, a fetch through redirects, a client that leaves: one fitting reply per line in order, pages whole, every line answered? | holds |
| `clients` | Calls that overlap, time out and meet a daemon that dies: own answers only, nothing served twice, every tool call ends? | holds |
| `accept_loop` | Who is given old settings after a reload? Are SIGTERM and SIGHUP ever lost? | holds |
| `daemon` | Starts, stops, a `stop` command and crashes anywhere: until starts or cleanups meet, one daemon, named by the PID file, reachable; is what `stop` reports true? | holds |
| `daemon_restart` | And is a daemon reachable that was started during another one's cleanup? | violated |
| `startup` | Whatever the file, the variables, the tables in them and their order: is every key what the file or a variable that concerns it makes of it? | holds |

Bounds, and why they suffice:

- *Health*: threshold 3 and sample 3 as in the code, a window of 2 ticks, a
  cooldown of 3 and 7 instants: events expire, the provider goes down, a late
  failure restarts the cooldown, recovery comes and a second run starts. At most
  5 events in the window: more than the threshold and the sample together need
  to disagree.
- *Provider calls*: two tasks, one bucket of three slots in a window of three
  ticks, two attempts and every second request rotating; a request may leave one
  tick after its slot, and a later slot's before it. `MaxTime` bounds the ticks
  that pass while nobody sleeps; with 0 time passes only while some task is
  asleep, whatever the other is doing. A call needs two slots,
  a retried one three, so the tasks take slots from each other, wait across a
  window, and two rotations overlap. A hint of two ticks is longer than any
  backoff. Buckets share nothing, so one provider is enough; which errors are
  retried for the other three is in `ProviderExchange` and the same for all.
- *Dispatch*: two requests and two providers, which is what two tasks with one
  key, a partial answer and a provider shared by two requests need. In
  `dispatch_concurrent` requests arrive at two instants, timeout and TTL are one
  tick, the failure threshold is 1 and the cooldown is longer than the run: a
  provider that is down when a search begins and one that goes down afterwards
  are told apart by their times. Recovery is in `health_tracking` and in the
  theorems. `dispatch_tiered` uses two tiers, two attempts, errors of the cache,
  a query with and without a freshness, and requests that all arrive at once.
- *Cache store*: two threads, two keys (a provider's own rows and combined
  ones), two sets, two gets and two starts: a set that overlaps another of its
  key, or a clear, or a restart.
- *Ranking*: lists of up to three results from five URLs of two pages, one of
  them with a hidden tracker, two providers, two scores each and a date; limits
  0, 2 and 3; the default configuration, one with all dimensions and one with a
  negative weight. A replaced result, a tie and a cut need three. Merged twice
  (`MaxMerges`): the second time around a ranked row, before or after a result of
  another provider.
- *Connection*: a limit of three bytes and a buffer of two, so that every line
  but the shortest comes in pieces; lines at the limit, over it by one, blank,
  not JSON, and with a character that may be cut; a page within, at and over the
  size limit, and a name whose lookups find a restricted address or not.
- *Clients*: two calls, every tool and every command, timeout 1, a fetch that may
  take longer than it, two starts.
- *Daemon*: three pids (one cleaning up, one serving, one starting), four
  starts, so that a pid is reused after a crash, and a `stop` command; SIGTERM
  comes from elsewhere as well. Two pids and two starts show the violation.
- *Accept loop*: two clients (both could be stale), two edits and two SIGHUPs, so
  that the second comes while the first is handled; an edit may be unloadable.
- *Startup*: up to three of twelve variables, among them ones that meet in one
  path, spell one key, or hold a table above it; two files, two entries that may
  have one name, three key rings.

`CHECK_DEADLOCK FALSE` is set where the model really ends: all calls made, all
requests answered and the clock at its bound, all starts used, the client gone,
the daemon gone, the configuration loaded. `MaxTime`, `MaxEvents`, `MaxSets`,
`MaxGets`, `MaxLines`, `MaxStarts`, `MaxEdits` and `MaxHups` bound counters that
the code does not bound.

Fairness, and what justifies it:

- `ProviderCalls.FairCallSpec`: the runtime runs a task that can run, time
  passes, and an exchange ends because every HTTP client is built with a
  timeout. Nobody has to drop a task. With an endless stream of rival calls the
  code would not prevent overtaking in the limiter; calls are finite here.
- `SearchDispatch.FairSpec`: time passes, and as long as a dispatcher or a task
  is ready one of them is polled (`Polled`; one weak fairness for all of them,
  which the runtime's queue of ready tasks gives). Nothing is assumed of providers, of the rate limiter or of
  backoff.
- `Connection.FairSpec`: the connection is polled and time passes while a fetch
  is under way. Nothing is assumed of the network or of the client, and a search
  need not end: that it does is the hypothesis of `EveryLineAnswered` and the
  subject of `dispatch_concurrent`.
- `Clients.FairSpec`: clients act, time passes, and an answer that is due is
  written. The daemon need not accept, serve or survive.
- `AcceptLoop.FairLoopSpec`: `select!` picks at random among its ready branches, so
  a branch that is ready again and again is taken (strong fairness for the two
  signals, the permit and accepting a client); weak fairness for the rest.
  Clients need not send, and no signal needs to come.

## Where code and documentation part

Checked by a run: *Restart* (`daemon_restart`). `cleanup` removes the PID file,
then whatever is at the socket path. A daemon started in between has its new
socket deleted and serves nobody. `ReachableUnlessOverlapped` shows that nothing
else does that unless starts race.

Stated in a module and refuted by TLC, each with a configuration of its own that
shows the counterexample:

- *Overlapping starts* (`OneDaemon`, `MCDaemonOverlap.cfg`). The PID file is
  checked first and written last, and nothing is locked: of two starts neither
  sees the other, and both serve (`src/daemon/mod.rs:9-10`: "Refuses to start if
  the daemon is already running").
- *Bars* (`AnswersTheQuery`, `MCDispatchBars.cfg`). `q|brave` for DuckDuckGo
  alone and `q` for Brave and DuckDuckGo have one key: the first is answered
  with the second's results, though `README.md:192` says that the cache is keyed
  on the query.
- *The line limit* (`LimitIncludesDelimiter`, `MCConnectionLimit.cfg`). A line
  of `max_size` bytes and its newline is answered;
  `src/daemon/server.rs:124-125` says that a line is refused which exceeds
  `max_size` "including delimiter".
- *Top of the ranking* (`TopByRank`, `MCRankingCut.cfg`). The cut to the limit
  is made by the scores the results arrive with, before the ranking that is said
  to decide it (`src/daemon/manager.rs:542`).
- *Order of a provider* (`RankGetsProviderOrder`, `MCRankingAgain.cfg`). A
  cached response has the composite scores of the search that stored it. Merged
  again, it comes in their order, and `rank` counts places from it, though it
  assumes the provider's order (`src/search/rank.rs:84-85`).
- *Tables in variables* (`OverridesNamedKeys`, `MCStartupTables.cfg`). A
  variable such as `SKIPJACKD_CACHE='{default_ttl_secs=5}'` puts a table in the
  place of the whole one: the file's other keys of it give way to defaults, and
  a variable such as `SKIPJACKD_CACHE__DB_PATH` counts only if it comes later,
  in an order that nothing fixes. `README.md:181` says that variables override
  keys.

Stated in a module and refuted by TLC under the bounds above:

- `DegradedMeansFailing` (`HealthTracking`): "Provider error rate exceeds 50% in
  the sliding window", but a Degraded provider is no longer asked, so no success
  can clear the status, and `check_recovery` only looks at Unhealthy.
- `ServedWithinTTL` (`SearchDispatch`): a merged answer with one contributor is
  stored under that provider's own key with a new time stamp, although its
  results may have come from that very row: they outlive the TTL.
- `AnsweredInTime` for tiered mode (`SearchDispatch`): a tier is joined without
  a deadline, and a silent provider holds the search for as long as it likes.
- `AnswerWithinLimit`, `AnswerInLanguage` (`SearchDispatch`): the cache key has
  neither limit nor language nor country, though `README.md:36` names the latter
  two.
- `NewClientsSeeReload`, `ShutdownRequestStops` (`AcceptLoop`): the
  configuration is cloned before the wait in accept, and a Shutdown request is
  only acknowledged.
- `FetchGetsItsTime`, `HttpErrorsFail` (`Clients`): the proxy gives a fetch up
  after `request_timeout_secs` although it may ask for up to 120 seconds
  (`README.md:79`); `fetch --json` exits 0 whatever became of the page, and so
  does the command without it for a page with an HTTP error.
- `AlwaysListed` (`Startup`): a key variable that is not set disables the entry,
  so that the provider is not in `list_providers` as a comment in `jina.rs`
  says.

Seen while modelling; the models have the behaviour of the code:

- The first attempt of a call costs two slots. With `rate_limit_rpm = 1` and a
  request timeout under a minute the provider is never asked.
- After a reload the manager keeps the limits, providers, TTL and timeouts it
  was built with.
- `protocol.rs:106` says that a connection stays open after an error; an
  over-long line closes it. A chunk that ends inside a character is dropped.
- Only a task that was told to wait waits: others ask before Retry-After is
  over. A 429 inside Jina's body is an HTTP error and not retried.
- Jina and DuckDuckGo ignore freshness, language and safe search, DuckDuckGo the
  limit; SearXNG keeps items without title or URL, and reads a body before it
  looks at its size.
- `canonicalize_url` drops the slash of the root and of a query's value although
  its comment says that it does not, and keeps `?ref/` as `?ref`, which it would
  drop.
- `--config=path` is ignored by the daemon, and the proxy always reads the
  default file. A provider table cannot be reached by a variable
  (`SKIPJACKD_PROVIDERS__X` is an error), a number given for a text key fails
  the start, and a file with part of a ranking table loses the rest of its
  defaults. An empty key leaves Brave available and Jina not.
- `open` recreates only a file that SQLite finds corrupt at open; damage found
  later is an error of every call. `evict_expired` has no caller.
- `stop` verifies the process by the name in the configuration: with a name
  other than that of the binary it never stops anything.

## The proofs

All are checked by tlapm without any trusted step, and hold for every value of
the constants that meets the named assumptions (`HealthConstants`,
`TrackingBounds`, `RateConstants`, `CallConstants`, `CacheConstants`,
`StoreConstants`, `DispatchConstants`, `ClientConstants`, `LifecycleConstants`,
`StopConstants`, `LoopConstants`, `FetchConstants`, `ConnectionConstants`,
`RankingConstants`, `StartupConstants`). The bounds are
constants too, so the theorems cover every bound.

- `HealthTracking_proofs`. `IInv` conjoins the type, `EventsOrdered` and the
  three properties. `RunIsFailures` says, of each length `k` that the deque
  reaches back, that the counter has at least `k` exactly when the last `k`
  reports were failures and came after the last recovery. It is not inductive on
  its own: pruning shortens the deque, and only because it drops a prefix do the
  covered events stay the last ones (`PushShape`). `EventsOrdered` makes the pruned set a
  prefix (`DroppedCount`). `RecoveryEarned` is an action property: a recovery at
  `now` has its last failure at `unhealthy_since` (`SinceLastFailure`), and order
  makes every other failure older.
- `ProviderCalls_proofs`, first for the limiter alone. The deque is a suffix of
  the history and what it has forgotten is out of the window (`WindowIsRecent`).
  A slot is taken when the pruned deque is shorter than the limit, so the
  acquisition `rpm` places back is among the forgotten ones and at least a
  window old: `RateBound`. `SleepsOnlyAtLimit` needs `WakesAtExpiry`: while a
  sleeper's wake-up lies ahead its bucket is full and its head is what the
  sleeper waits for.
  Then for the pipeline. Its steps are steps of `RateLimiter` or leave that
  module's variables alone, by construction, so the limiter's theorems hold of it
  (`PipelineKeepsRate`). `RotationHolds` needs that the numbers of clients
  only grow (`ClientsNumbered`), that a client under construction is nobody
  else's (`Private`), and that after its install the client in place is never
  again the one the task was to replace (`Replaced`).
  `RateBound` is about slots, `RequestsAreSpaced` about the requests that leave.
  A slot may be taken and no request follow (the pipeline's own slot, a dropped
  task), never the reverse: `PaidFor` says that each request, and each task about
  to send one, has a slot of its own (`SlotsDiffer`), granted at most `Delay`
  before (`SlotsFit`). Requests may leave in another order than their slots were
  granted, so the proof counts: of the slots of `rpm + 1` requests in a row, two
  are at least `rpm` slots apart, hence a window, and the requests a window less
  `Delay`. The code has no bound of its own on that time: `Delay` stands for how
  long the building of a client and the scheduler may take.
  `HintsHonoured` rests on `Waits`: a task that was told a time sleeps at least
  until then, whatever the jitter, and stays past it until it asks again.
- `SearchDispatch_proofs`. `DispatchInv` conjoins the shapes of the state, `Begun`
  (a request that has begun has tasks for providers it chose, and chose only
  providers it may ask), `OutMatches` (what a task brings back is its own
  provider's) and the three properties, for queries that mix with none: there a
  key is one query's and one set of providers' (`Unmixed`). They need each other: rows are right
  because merged answers list their contributors (`MergedShape`), and those are
  right because a row found under a provider's own key is that provider's
  (`FoundRow`). One lemma per action follows, resting on three about what
  actions have in common: returning (`ReturnDispatch`), spawning
  (`SpawnDispatch`) and moving a task (`TaskDispatch`). Nothing is assumed of
  time, health or the order of steps. On top of it, `WorkInv` is about when
  searches end: a search that has not looked in the cache has no tasks
  (`NoTasksYet`), which `NoOrphans` and `TiersInOrder` need; a chosen provider
  that is down went down after it was chosen (`DownSinceChosen`), because a
  failure stamps the time at which it is reported and a deadline was set no
  later than now, hence `NoNewWorkWhenDown`. `AnsweredInTime` is proved for
  offers that are all concurrent; for tiered mode it is false.
  Of the end of a search (`Ranking`), for any lists of results, limits, weights
  and tracker names. A strict total order on a finite set numbers its elements
  (`OrderNumbers`, by counting: the number of those before an element is an
  injection into as many places); the filter of a URL's parameters and the sort
  by composite score are both defined by such numbers, so that neither needs
  recursion. `PagesKeepTheirKeys` follows for the first, except for a parameter
  such as `?ref/`, which is no tracker until its slash has been dropped: keying
  the key once more would drop it. `BestIsKept`: `MergeInv` says that the map
  holds the pages of the results merged so far, each with the first of its best.
  `ProvidersKeepTheirOrder`: the cut leaves the providers' scores in descending
  order (`CutInOrder`), of two results of a provider the later one is worth no
  more (`CompositeFalls`), and the sort puts no result before one that is worth
  more or worth the same and came first. What is cached then has composite scores,
  so the invariant `OrderInv` adds that of a provider's results a higher score
  means one that the provider preferred (`Agrees`): ranking keeps that
  (`RankAgrees`), and so does merging with other providers (`JoinedAgree`). It is
  so only where the place alone counts. A negative weight of the position, which
  the configuration may have, and the freshness dimension are excluded.
- `CacheStore_proofs`. `StoreInv`: a row carries the time its own set has read
  (`RowsAreTheirs`), which is the set's although the clock has moved on since
  (`CallsAreTheirs`), so a hit is as young as its set; a set whose rows have been
  cleared had ended (`ClearedHaveEnded`), so the one still under way that stores
  after a clear is not among them; only a corrupt file is removed.
- `Connection_proofs`. `PagesWhole` is about the fetch in progress: a page is
  given only when nothing of it is left, within the limits. `RepliesOnce` is the refinement of `RequestReply`.
  `ConnInv` counts: the newline that ends line `j` is at a position `end[j]` of
  the unread bytes, which moves with every byte read (`Framed`), so the first
  newline of the stream ends the line that is due, and `total` is what has been
  read of it. Hence a line is refused exactly when it is too long, whether its
  end is in the chunk or not, what is parsed is that line, and the response
  under way is one allowed for it; each step then is one of `RequestReply` or a
  stutter. A line that is not ASCII may be cut inside a character, and there only
  the length is followed. If the client has left, nothing is claimed of its bytes.
- `Startup_proofs`. `OverlayHolds`: at every point of the override loop each key
  has the file's value or what a variable applied already makes of it; or it is
  gone with a table that one of them has put there; or something that is no
  table, or no value of the key's type, stands at it or above it (`Layers`). In
  the last case the document does not fit and there is no configuration, in the
  second the key gets a default. No order of the variables is assumed. Of two
  that concern one key, by spelling it in another case or by a table above it,
  either may win.
- `Clients_proofs`. `ClientInv`: a request that nobody serves yet is the current
  one of its call, which may have given up (`ConnFits`); a call has been served
  the requests before its current one, and perhaps that (`CallFits`). So a daemon
  that reads a line late, dies or starts again serves nothing twice, and what is
  on a connection is for its owner.
- `DaemonLifecycle_proofs`. Nothing is assumed of how starts, stops and crashes
  overlap. `PidInv`: while no two starts have raced, one that claims the paths
  excludes any daemon that still owns the PID file, and whoever owns it is named
  by it (`PidFollows`). A start claims them when it is past its check, and as
  soon as the pid it has read is no longer in the file or no longer alive, for
  then nothing will refuse it. `SocketInv` adds that no cleanup is under way during
  a start, and that the socket follows. Both exclusions are needed:
  `MCDaemonOverlap.cfg` and the run `daemon_restart` show what happens otherwise. `StopInv`
  adds what `stop` commands need: a process that was signalled is never starting
  again under its number unless it has died in between, but for one that was
  building its manager and has its socket already (`SignalledIsOld`), so that
  `StopIsTrue`.
  For the accept loop, `StaleInv`: a loop waiting with old settings has given
  them to nobody since the publication, hence `AtMostOneStale`.

Only model-checked: liveness (`CallsEnd`, `EveryRequestAnswered`, `SigtermStops`,
`ReloadIsApplied`, `EveryLineAnswered`, `ToolCallsEnd`), since the prover does not
handle fairness and ENABLED. Every invariant, action property and refinement of
the passing runs is proved. Where an induction over data would have been needed, the
definition says by a quantifier what a recursion would have computed: the k-th
element is the one with k - 1 before it, the first newline is the one with none
before it.

## Not modelled

- How items are taken out of HTML or JSON, request parameters, serialisation,
  TOML, Markdown, printing and wording: data without control. `normalize_paths`
  likewise.
- IP rotation: the providers keep the strategy, the subnet and the proxies and
  nobody reads them. TLS settings and user agents are random choices without
  state; that a client cannot be built is in `ProviderCalls`, `PageFetch` and
  `Startup`. Per-provider `retry_max_attempts` and `cache_ttl_secs` have no reader.
- `Provider::build_client` has no caller. The stdio side of the proxy is a library's.
- `start` of the command line runs the daemon of `DaemonLifecycle`; its check of
  the daemon's name is left out.
- Retry beyond 63 attempts (the shift overflows) and the panic of
  `from_secs_f64` on a huge hint; a panic of a task as such is in `SearchDispatch`.
- A wall clock that goes back, which would make a row older or younger than it is.
- Damage to the cache while it is open. Directories created at a start are one
  step with the call after them.

## Plan

1. Done: health, limiter, pipeline, dispatch, cache, ranking, connections,
   fetches, clients, accept loop, life cycle, `stop`, configuration; the
   refinement `OneReplyEach`.
2. Abstract specifications: a circuit breaker that `HealthTracking` implements,
   and a search service (answer once, from the providers allowed) that
   `SearchDispatch` implements.
3. Done: every invariant, action property and refinement that a run checks is
   proved. To prove: the refinements of point 2.
4. The request parameters of the four providers against `SearchRequest`, and the
   limits of `normalize_paths`.
