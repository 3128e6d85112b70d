--------------------------- MODULE SearchDispatch ---------------------------
(***************************************************************************)
(* Manager::search in src/daemon/manager.rs: requests that arrive          *)
(* concurrently, the provider tasks each one spawns, and what all of them  *)
(* share: the health records, the cache and the clock.                     *)
(*                                                                         *)
(* A step is a stretch of code between two await points (or under one      *)
(* lock).  Computation takes no time: the clock moves only when everyone   *)
(* waits for a provider, a rate-limiter slot, a backoff or a timeout.      *)
(* Providers answer, fail or stay silent as they please.                   *)
(***************************************************************************)
EXTENDS HealthState, QueryCache, FiniteSetsExt

CONSTANTS
    Requests,       \* calls of Manager::search
    Providers,      \* the enabled providers of the catalog
    Playwright,     \* those with Tag::Playwright
    Tier,           \* provider -> its smallest tag priority
    SortedNames,    \* a set of providers -> their names in order
    Words,          \* what may stand in a key between two bars
    Offers,         \* what a request may ask for
    Yields,         \* numbers of results a provider may return
    Timeout,        \* request_timeout_secs
    MaxAttempts,    \* retry_config.max_attempts
    CacheErrors,    \* which of cache.get and cache.set may return an error
    Clears,         \* what clear_cache is called for: a provider, or "all"
    MaxTime         \* bound: last tick at which requests arrive

ASSUME DispatchConstants ==
    /\ Playwright \subseteq Providers
    /\ Tier \in [Providers -> Nat]
    /\ Providers \subseteq Words       \* no bar in the name of a provider
    /\ SortedNames \in [SUBSET Providers -> Seq(Providers)]
    /\ \A ps \in SUBSET Providers :
          {SortedNames[ps][i] : i \in DOMAIN SortedNames[ps]} = ps
    /\ \A o \in Offers :
          /\ o.query \in [text : Seq(Words) \ {<<>>},
                         freshness : {<<>>} \cup {<<tag>> : tag \in Words \ Providers}]
          /\ o.providers \subseteq Providers
          /\ o.mode \in {"concurrent", "tiered"}
          /\ o.limit \in Nat \ {0}
    /\ Yields \subseteq Nat
    /\ Timeout \in Nat \ {0}
    /\ MaxAttempts \in Nat \ {0}
    /\ CacheErrors \subseteq {"get", "set"}
    /\ Clears \subseteq Providers \cup {"all"}
    /\ MaxTime \in Nat

VARIABLES
    now,            \* the clock, monotonic and wall
    health,         \* provider -> HealthState
    cache,          \* the query cache
    request,        \* request -> what it asks for
    pc,             \* request -> where Manager::search is
    chosen,         \* request -> providers_to_dispatch / all_providers
    deadline,       \* request -> its deadline
    task,           \* <<request, provider>> -> where the spawned task is
    attempt,        \* <<request, provider>> -> attempts of the retry loop
    out,            \* <<request, provider>> -> the response of its task
    last,           \* aborted tasks whose poll in progress still runs
    answer          \* request -> the response returned

dispatchVars == <<request, pc, chosen, deadline, answer>>
taskVars     == <<task, attempt, out, last>>
vars         == <<now, health, cache, dispatchVars, taskVars>>

Queries == {o.query : o \in Offers}

KeyOf(q, ps) == cache_key(q, SortedNames[ps])
Keys == {KeyOf(e[1], e[2]) : e \in Queries \X SUBSET Providers}

Jobs    == Requests \X Providers

(* What cache.get finds, and whether cache.set stores: an error is taken   *)
(* for a miss by the one, and only logged for the other.                   *)
Found(key)  == {Holds(cache, key, now)} \cup (IF "get" \in CacheErrors THEN {FALSE} ELSE {})
Stores      == {TRUE} \cup (IF "set" \in CacheErrors THEN {FALSE} ELSE {})

NoRequest  == [query |-> "none"]
NoResponse == [providers_used |-> {"none"}, results |-> {}, cache_hit |-> FALSE]

(* A SearchResponse: providers_used, the results, the cache_hit flag. *)
Response(used, results) ==
    [providers_used |-> used, results |-> results, cache_hit |-> FALSE]

(* The results p returns for o at time t: who found them, for which query  *)
(* and language, when, and a number to tell them apart.                    *)
ResultsOf(p, o, n, t) ==
    {[provider |-> p, query |-> o.query, language |-> o.language, at |-> t, nr |-> i] :
        i \in 1..n}

Languages == {o.language : o \in Offers}
Results   == [provider : Providers, query : Queries, language : Languages,
              at : Nat, nr : Nat]
Responses == [providers_used : SUBSET Providers, results : SUBSET Results,
              cache_hit : BOOLEAN]
Rows      == [response : Responses, provider_list : SUBSET Providers,
              created_at : Nat]

Init ==
    /\ now = 0
    /\ health = [p \in Providers |-> NewHealth]
    /\ cache = [k \in Keys |-> NoRow]
    /\ request = [r \in Requests |-> NoRequest]
    /\ pc = [r \in Requests |-> "idle"]
    /\ chosen = [r \in Requests |-> {}]
    /\ deadline = [r \in Requests |-> 0]
    /\ task = [j \in Jobs |-> "none"]
    /\ attempt = [j \in Jobs |-> 0]
    /\ out = [j \in Jobs |-> NoResponse]
    /\ last = {}
    /\ answer = [r \in Requests |-> NoResponse]

-----------------------------------------------------------------------------
(* The candidates of a request: its provider list, or the whole catalog;   *)
(* concurrent mode leaves the Playwright providers out.                    *)
Eligible(o) ==
    LET asked == IF o.providers = {} THEN Providers ELSE o.providers
    IN  IF o.mode = "concurrent" THEN asked \ Playwright ELSE asked

Active   == {"lookup", "acquiring", "calling", "backoff", "succeeded", "failed"}
Waiting  == {"acquiring", "calling", "backoff"}

Spawned(r)   == {p \in Providers : task[<<r, p>>] # "none"}
Settled(r)   == \A p \in Spawned(r) : task[<<r, p>>] = "collected"
Collected(r) == {p \in Providers : task[<<r, p>>] = "collected" /\ out[<<r, p>>] # NoResponse}

(* The join loop ends when every spawned task has been joined; concurrent  *)
(* mode also gives up at the deadline, a tier of tiered mode never does.   *)
JoinOnlySettled(r) == Settled(r)      \* fault: join_next without its timeout
JoinLate(r) ==                        \* fault: given up one tick too late
    Settled(r) \/ (request[r].mode = "concurrent" /\ now > deadline[r])

JoinOver(r) ==
    \/ Settled(r)
    \/ request[r].mode = "concurrent" /\ now >= deadline[r]

(* Results of the completed tiers, counted before they are merged. *)
Cumulative(r) ==
    MapThenSumSet(LAMBDA p : Cardinality(out[<<r, p>>].results), Collected(r))

(* The tiers not yet started, and the providers of the first of them. *)
Unstarted(r) == chosen[r] \ Spawned(r)
LastTier(r)  == {p \in Unstarted(r) : \A q \in Unstarted(r) : Tier[p] >= Tier[q]}
                                      \* fault: tiers sorted the wrong way
FirstTier(r) == {p \in Unstarted(r) : \A q \in Unstarted(r) : Tier[p] <= Tier[q]}
TiersOver(r) ==
    \/ Unstarted(r) = {}
    \/ Cumulative(r) >= request[r].limit
    \/ now >= deadline[r]

(* ResultMerger::merge and rank: every contributor is listed; of results    *)
(* for one page the best score stays, and the rest is cut to the limit.    *)
(* Pages and scores are left open: some of the results are left, at least  *)
(* one if there was any.                                                   *)
MergedResponses(r) ==
    LET used == UNION {out[<<r, p>>].providers_used : p \in Collected(r)}
        all  == UNION {out[<<r, p>>].results : p \in Collected(r)}
    IN  {Response(used, top) : top \in {kept \in SUBSET all :
            /\ Cardinality(kept) <= request[r].limit
            /\ all # {} => kept # {}}}

-----------------------------------------------------------------------------
(* The dispatcher: Manager::search *)

(* Fault: providers recover, but those still down are not left out. *)
Anyone(o, records) == Eligible(o)

Candidates(o, records) == {p \in Eligible(o) : IsHealthy(records[p])}

(* Under the write lock: recover every provider whose cooldown is over,    *)
(* then keep the eligible ones that are healthy.                           *)
Choose(r, o) ==
    LET recovered == [p \in Providers |-> CheckRecovery(health[p], now)] IN
    /\ pc[r] = "idle"
    /\ now <= MaxTime
    /\ request' = [request EXCEPT ![r] = o]
    /\ health' = recovered
    /\ chosen' = [chosen EXCEPT ![r] = Candidates(o, recovered)]
    /\ deadline' = [deadline EXCEPT ![r] = now + Timeout]
    /\ pc' = [pc EXCEPT ![r] = "chosen"]
    /\ UNCHANGED <<now, cache, answer, taskVars>>

Return(r, response) ==
    /\ answer' = [answer EXCEPT ![r] = response]
    /\ pc' = [pc EXCEPT ![r] = "answered"]

NobodyToAsk(r) == request[r].mode = "concurrent" /\ chosen[r] = {}
CombinedKey(r) == KeyOf(request[r].query, chosen[r])

(* No eligible provider: an empty answer, neither read from nor written to *)
(* the cache.                                                              *)
AnswerEmpty(r) ==
    /\ pc[r] = "chosen"
    /\ NobodyToAsk(r)
    /\ Return(r, Response({}, {}))
    /\ UNCHANGED <<now, health, cache, request, chosen, deadline, taskVars>>

AnswerFromCache(r) ==
    /\ pc[r] = "chosen"
    /\ ~NobodyToAsk(r)
    /\ TRUE \in Found(CombinedKey(r))
    /\ Return(r, CacheGet(cache, CombinedKey(r)))
    /\ UNCHANGED <<now, health, cache, request, chosen, deadline, taskVars>>

Spawn(r, ps) ==
    task' = [j \in Jobs |-> IF j[1] = r /\ j[2] \in ps THEN "lookup" ELSE task[j]]

(* A miss: concurrent mode spawns every provider at once, tiered mode      *)
(* enters its loop over the tiers.                                         *)
Dispatch(r) ==
    /\ pc[r] = "chosen"
    /\ ~NobodyToAsk(r)
    /\ FALSE \in Found(CombinedKey(r))
    /\ Spawn(r, IF request[r].mode = "concurrent" THEN chosen[r] ELSE {})
    /\ pc' = [pc EXCEPT ![r] = "waiting"]
    /\ UNCHANGED <<now, health, cache, request, chosen, deadline, answer,
                   attempt, out, last>>

NextTier(r) ==
    /\ pc[r] = "waiting"
    /\ request[r].mode = "tiered"
    /\ JoinOver(r)
    /\ ~TiersOver(r)
    /\ Spawn(r, FirstTier(r))
    /\ UNCHANGED <<now, health, cache, dispatchVars, attempt, out, last>>

(* join_next hands over one task that has returned. *)
Collect(r, p) ==
    /\ pc[r] = "waiting"
    /\ task[<<r, p>>] = "finished"
    /\ task' = [task EXCEPT ![<<r, p>>] = "collected"]
    /\ UNCHANGED <<now, health, cache, dispatchVars, attempt, out, last>>

(* Fault: the answer is stored for all that were asked, not all that came. *)
StoreUnderChosen(r) ==
    \E response \in MergedResponses(r) :
        /\ cache' = CacheSet(cache, CombinedKey(r), response, chosen[r], now)
        /\ Return(r, response)

(* Merge, store under the key of the providers that did answer, return.    *)
StoreAndReturn(r) ==
    \E response \in MergedResponses(r), stored \in Stores :
        LET key == KeyOf(request[r].query, response.providers_used) IN
        /\ cache' = IF stored
                    THEN CacheSet(cache, key, response, response.providers_used, now)
                    ELSE cache
        /\ Return(r, response)

(* Fault: the tasks are detached instead of owned by the JoinSet. *)
LeaveTasks(r) == UNCHANGED taskVars

(* Returning drops the request's locals and its JoinSet.  That aborts the  *)
(* tasks still running: each is cancelled where it awaits, unless a worker *)
(* is polling it, which runs on to the next await.                         *)
DropTasks(r) ==
    \E polled \in SUBSET {p \in Providers : task[<<r, p>>] \in Active} :
        LET kept == {<<r, p>> : p \in polled}
            mine == {j \in Jobs : j[1] = r} \ kept
        IN  /\ task' = [j \in Jobs |-> IF j \in mine THEN "none" ELSE task[j]]
            /\ attempt' = [j \in Jobs |-> IF j \in mine THEN 0 ELSE attempt[j]]
            /\ out' = [j \in Jobs |-> IF j \in mine THEN NoResponse ELSE out[j]]
            /\ last' = last \cup kept

FinishConcurrent(r) ==
    /\ pc[r] = "waiting"
    /\ request[r].mode = "concurrent"
    /\ JoinOver(r)
    /\ StoreAndReturn(r)
    /\ DropTasks(r)
    /\ UNCHANGED <<now, health, request, chosen, deadline>>

FinishTiered(r) ==
    /\ pc[r] = "waiting"
    /\ request[r].mode = "tiered"
    /\ JoinOver(r)
    /\ TiersOver(r)
    /\ StoreAndReturn(r)
    /\ DropTasks(r)
    /\ UNCHANGED <<now, health, request, chosen, deadline>>

-----------------------------------------------------------------------------
(* A provider task: execute_provider_pipeline, then its health event. *)

(* The task goes on to its next await, which is its end if it is aborted.  *)
Goto(r, p, place) ==
    /\ task' = [task EXCEPT ![<<r, p>>] = IF <<r, p>> \in last THEN "none" ELSE place]
    /\ last' = last \ {<<r, p>>}

ProviderKey(r, p) == KeyOf(request[r].query, {p})

PipelineHit(r, p) ==
    /\ task[<<r, p>>] = "lookup"
    /\ TRUE \in Found(ProviderKey(r, p))
    /\ out' = [out EXCEPT ![<<r, p>>] = CacheGet(cache, ProviderKey(r, p))]
    /\ Goto(r, p, "succeeded")
    /\ UNCHANGED <<now, health, cache, dispatchVars, attempt>>

PipelineMiss(r, p) ==
    /\ task[<<r, p>>] = "lookup"
    /\ FALSE \in Found(ProviderKey(r, p))
    /\ Goto(r, p, "acquiring")
    /\ UNCHANGED <<now, health, cache, dispatchVars, attempt, out>>

(* rate_limiter.acquire returns (RateLimiter says when).  The call that     *)
(* follows begins with the provider's own acquire of the same bucket: it   *)
(* is part of the time a provider takes.                                   *)
Acquired(r, p) ==
    /\ task[<<r, p>>] = "acquiring"
    /\ attempt' = [attempt EXCEPT ![<<r, p>>] = 1]
    /\ Goto(r, p, "calling")
    /\ UNCHANGED <<now, health, cache, dispatchVars, out>>

(* The provider answers; the response is cached before anyone sees it. *)
Replies(r, p) ==
    /\ task[<<r, p>>] = "calling"
    /\ \E n \in Yields, stored \in Stores :
          LET response == Response({p}, ResultsOf(p, request[r], n, now)) IN
          /\ out' = [out EXCEPT ![<<r, p>>] = response]
          /\ cache' = IF stored
                      THEN CacheSet(cache, ProviderKey(r, p), response, {p}, now)
                      ELSE cache
    /\ Goto(r, p, "succeeded")
    /\ UNCHANGED <<now, health, dispatchVars, attempt>>

(* Fault: one attempt too many. *)
BacksOffOnceMore(r, p) ==
    /\ task[<<r, p>>] = "calling"
    /\ attempt[<<r, p>>] <= MaxAttempts
    /\ Goto(r, p, "backoff")
    /\ UNCHANGED <<now, health, cache, dispatchVars, attempt, out>>

(* A retryable error before the last attempt backs off. *)
BacksOff(r, p) ==
    /\ task[<<r, p>>] = "calling"
    /\ attempt[<<r, p>>] < MaxAttempts
    /\ Goto(r, p, "backoff")
    /\ UNCHANGED <<now, health, cache, dispatchVars, attempt, out>>

Retries(r, p) ==
    /\ task[<<r, p>>] = "backoff"
    /\ attempt' = [attempt EXCEPT ![<<r, p>>] = @ + 1]
    /\ Goto(r, p, "calling")
    /\ UNCHANGED <<now, health, cache, dispatchVars, out>>

(* A terminal error, or any error at the last attempt. *)
Fails(r, p) ==
    /\ task[<<r, p>>] = "calling"
    /\ Goto(r, p, "failed")
    /\ UNCHANGED <<now, health, cache, dispatchVars, attempt, out>>

(* The task panics: join_next yields an error and no health is recorded. *)
Panics(r, p) ==
    /\ task[<<r, p>>] = "calling"
    /\ Goto(r, p, "finished")
    /\ UNCHANGED <<now, health, cache, dispatchVars, attempt, out>>

(* Under the write lock; then the task returns. *)
ReportSuccess(r, p) ==
    /\ task[<<r, p>>] = "succeeded"
    /\ health' = [health EXCEPT ![p] = RecordSuccess(@, now)]
    /\ Goto(r, p, "finished")
    /\ UNCHANGED <<now, cache, dispatchVars, attempt, out>>

ReportFailure(r, p) ==
    /\ task[<<r, p>>] = "failed"
    /\ health' = [health EXCEPT ![p] = RecordFailure(@, now)]
    /\ Goto(r, p, "finished")
    /\ UNCHANGED <<now, cache, dispatchVars, attempt, out>>

-----------------------------------------------------------------------------
(* clear_cache, for everything or for one provider, at any moment. *)
ClearCache ==
    /\ \E k \in Keys : cache[k] # NoRow
    /\ \/ "all" \in Clears /\ cache' = ClearAll(cache)
       \/ \E p \in Clears \ {"all"} : cache' = ClearProvider(cache, p)
    /\ UNCHANGED <<now, health, dispatchVars, taskVars>>

(* A dispatcher that can only wait, and tasks that all do. *)
MustWait(r) ==
    \/ pc[r] \in {"idle", "answered"}
    \/ /\ pc[r] = "waiting"
       /\ ~JoinOver(r)
       /\ \A p \in Providers : task[<<r, p>>] # "finished"

Tick ==
    /\ now < MaxTime \/ \E r \in Requests : pc[r] = "waiting" /\ now <= deadline[r]
    /\ \A r \in Requests : MustWait(r)
    /\ \A j \in Jobs : task[j] \in Active => task[j] \in Waiting
    /\ last = {}
    /\ now' = now + 1
    /\ UNCHANGED <<health, cache, dispatchVars, taskVars>>

Dispatcher(r) ==
    \/ AnswerEmpty(r)
    \/ AnswerFromCache(r)
    \/ Dispatch(r)
    \/ NextTier(r)
    \/ \E p \in Providers : Collect(r, p)
    \/ FinishConcurrent(r)
    \/ FinishTiered(r)

Worker(r, p) ==
    \/ PipelineHit(r, p)
    \/ PipelineMiss(r, p)
    \/ Acquired(r, p)
    \/ Replies(r, p)
    \/ BacksOff(r, p)
    \/ Retries(r, p)
    \/ Fails(r, p)
    \/ Panics(r, p)
    \/ ReportSuccess(r, p)
    \/ ReportFailure(r, p)

Next ==
    \/ Tick
    \/ ClearCache
    \/ \E r \in Requests :
          \/ \E o \in Offers : Choose(r, o)
          \/ Dispatcher(r)
          \/ \E p \in Providers : Worker(r, p)

Spec == Init /\ [][Next]_vars

(* What a task does without waiting for anybody: its lookup, its health    *)
(* event, and the rest of a poll that the abort came into.                 *)
Polled(r, p) ==
    \/ PipelineHit(r, p)
    \/ PipelineMiss(r, p)
    \/ ReportSuccess(r, p)
    \/ ReportFailure(r, p)
    \/ <<r, p>> \in last /\ Worker(r, p)

(* The runtime polls something as long as anything is ready, and time      *)
(* passes.  No provider has to answer: nothing is assumed of Acquired,     *)
(* Replies, Fails or Panics.                                               *)
FairSpec ==
    /\ Spec
    /\ WF_vars(Tick)
    /\ WF_vars(\E r \in Requests : Dispatcher(r) \/ \E p \in Providers : Polled(r, p))

-----------------------------------------------------------------------------
(* The shapes of the shared state, of each request and of each task. *)
DispatchTypes ==
    /\ now \in Nat
    /\ cache \in [Keys -> Rows \cup {NoRow}]
    /\ request \in [Requests -> Offers \cup {NoRequest}]
    /\ pc \in [Requests -> {"idle", "chosen", "waiting", "answered"}]
    /\ chosen \in [Requests -> SUBSET Providers]
    /\ task \in [Jobs -> Active \cup {"none", "finished", "collected"}]
    /\ out \in [Jobs -> Responses \cup {NoResponse}]
    /\ answer \in [Requests -> Responses \cup {NoResponse}]

TypeOK ==
    /\ DispatchTypes
    /\ \A p \in Providers : health[p] \in Health
    /\ deadline \in [Requests -> Nat]
    /\ attempt \in [Jobs -> 0..MaxAttempts]
    /\ last \in SUBSET {j \in Jobs : task[j] \in Active}

(* Two queries mix when they are the same up to the first bar and differ   *)
(* after it: only then can their keys be the same.                         *)
Mix(q, u)  == q.text # u.text /\ q.text[1] = u.text[1]
Unmixed(q) == \A u \in Queries : ~Mix(q, u)

(* A row is what its key says: results for the key's query from the key's  *)
(* providers, and from no fewer providers than it claims.  Partial answers *)
(* (timeouts, errors, a provider left out as unhealthy) must not be stored *)
(* as the full one.  Of a query that mixes with none.                      *)
RowsMatchKeys ==
    \A q \in Queries, ps \in SUBSET Providers :
        LET row == cache[KeyOf(q, ps)] IN
        Unmixed(q) /\ row # NoRow =>
            /\ row.response.providers_used = ps
            /\ \A x \in row.response.results : x.query = q /\ x.provider \in ps

(* An answer served from the cache is as complete as the dispatch it       *)
(* replaces: every provider that would have been asked has contributed,    *)
(* whatever other queries are asked, unless they mix with this one.        *)
HitIsComplete ==
    \A r \in Requests :
        answer[r].cache_hit /\ Unmixed(request[r].query) =>
            answer[r].providers_used = chosen[r]

(* An answer, fresh or cached, has results for the query asked and from    *)
(* providers the request allows, whatever other requests put in the cache, *)
(* unless their queries mix with this one.                                 *)
AnswersTheRequest ==
    \A r \in Requests : pc[r] = "answered" /\ Unmixed(request[r].query) =>
        \A x \in answer[r].results :
            x.query = request[r].query /\ x.provider \in Eligible(request[r])

(* A provider that is down gets no new work: a task still running for it   *)
(* belongs to a request that chose it before its last failure.             *)
NoNewWorkWhenDown ==
    \A r \in Requests, p \in Providers :
        task[<<r, p>>] \in Active /\ health[p].status = "Unhealthy" =>
            deadline[r] - Timeout <= health[p].unhealthy_since

(* A search returns within its request_timeout, answers or no answers.     *)
AnsweredInTime ==
    \A r \in Requests : pc[r] = "waiting" => now <= deadline[r]

(* An answered request leaves no task behind, beyond polls in progress.    *)
NoOrphans ==
    \A j \in Jobs : pc[j[1]] = "answered" /\ task[j] \in Active => j \in last

(* The tiers run one after the other, cheapest first: a provider is asked  *)
(* only after every chosen provider of an earlier tier has been joined.    *)
TiersInOrder ==
    \A r \in Requests : request[r] # NoRequest /\ pc[r] = "waiting" =>
        \A p, q \in chosen[r] :
            /\ request[r].mode = "tiered"
            /\ Tier[p] < Tier[q]
            /\ task[<<r, q>>] # "none"
            => task[<<r, p>>] = "collected"

(* Every request that is received is answered, even if every provider      *)
(* stays silent for ever.                                                  *)
EveryRequestAnswered ==
    \A r \in Requests : pc[r] = "chosen" ~> pc[r] = "answered"

-----------------------------------------------------------------------------
(* What the documentation says of an answer, and the code does not keep.   *)

(* "Ranked, deduplicated results (at most `limit` entries)". *)
AnswerWithinLimit ==
    \A r \in Requests : pc[r] = "answered" =>
        Cardinality(answer[r].results) <= request[r].limit

(* "Query cache is keyed on (query, provider, language, country)". *)
AnswerInLanguage ==
    \A r \in Requests : pc[r] = "answered" =>
        \A x \in answer[r].results : x.language = request[r].language

(* The same line: keyed on the query.  Here for queries of any text.       *)
AnswersTheQuery ==
    \A r \in Requests : pc[r] = "answered" =>
        \A x \in answer[r].results : x.query = request[r].query

(* "Default TTL in seconds for cache entries": while the entry of a single *)
(* provider is served, that provider was asked less than a TTL before,     *)
(* give or take the time one search may take.                              *)
ServedWithinTTL ==
    \A p \in Providers, q \in Queries :
        LET row == cache[KeyOf(q, {p})] IN
        Fresh(row, now) =>
            \A x \in row.response.results : x.at + Timeout + TTL > now

-----------------------------------------------------------------------------
(* Why RowsMatchKeys, HitIsComplete and AnswersTheRequest hold.            *)

(* A request that has not begun has nothing; one that has begun asks only  *)
(* providers that it may ask.                                              *)
Begun ==
    \A r \in Requests :
        /\ pc[r] = "idle" =>
              /\ answer[r] = NoResponse
              /\ \A p \in Providers : task[<<r, p>>] = "none" /\ out[<<r, p>>] = NoResponse
        /\ pc[r] # "idle" =>
              /\ request[r] \in Offers
              /\ chosen[r] \subseteq Eligible(request[r])
        /\ \A p \in Providers : task[<<r, p>>] # "none" => p \in chosen[r]

(* What a task brings back is its provider's, for its request's query,     *)
(* whether it was fetched or found in the cache.                           *)
OutMatches ==
    \A r \in Requests, p \in Providers :
        out[<<r, p>>] # NoResponse /\ Unmixed(request[r].query) =>
            /\ out[<<r, p>>].providers_used = {p}
            /\ \A x \in out[<<r, p>>].results : x.query = request[r].query /\ x.provider = p

DispatchInv ==
    /\ DispatchTypes
    /\ Begun
    /\ OutMatches
    /\ RowsMatchKeys
    /\ HitIsComplete
    /\ AnswersTheRequest

-----------------------------------------------------------------------------
(* Why AnsweredInTime, NoNewWorkWhenDown, NoOrphans and TiersInOrder hold. *)

(* A request whose cache lookup is still to come has no tasks.             *)
NoTasksYet ==
    \A r \in Requests : pc[r] \in {"idle", "chosen"} =>
        \A p \in Providers : task[<<r, p>>] = "none"

(* A request's deadline is a timeout after it began, and that was not      *)
(* later than now.                                                         *)
DeadlinesAhead ==
    /\ deadline \in [Requests -> Nat]
    /\ \A r \in Requests : pc[r] # "idle" => deadline[r] <= now + Timeout

ConcurrentInTime ==
    \A r \in Requests :
        pc[r] \in {"chosen", "waiting"} /\ request[r].mode = "concurrent" => now <= deadline[r]

(* A chosen provider that is down went down after it was chosen.           *)
DownSinceChosen ==
    /\ DOMAIN health = Providers
    /\ \A p \in Providers : health[p].status = "Unhealthy" =>
          /\ health[p].unhealthy_since \in Nat
          /\ \A r \in Requests : pc[r] # "idle" /\ p \in chosen[r] =>
                 deadline[r] - Timeout <= health[p].unhealthy_since

WorkInv ==
    /\ NoTasksYet
    /\ DeadlinesAhead
    /\ ConcurrentInTime
    /\ DownSinceChosen
    /\ NoOrphans
    /\ TiersInOrder
=============================================================================
