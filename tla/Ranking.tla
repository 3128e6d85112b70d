------------------------------- MODULE Ranking -------------------------------
(***************************************************************************)
(* The end of a search: ResultMerger::merge (src/search/merge.rs) and rank *)
(* (src/search/rank.rs), as search_concurrent and search_tiered call them. *)
(*                                                                         *)
(* rank puts the composite score in place of the provider's.  A response   *)
(* of one provider is cached as ranked, under the key of that provider's   *)
(* own row, and from there it is merged again, with scores as they come.   *)
(*                                                                         *)
(* A URL is what canonicalize_url tells apart: the page, whether the host  *)
(* is in capitals, whether the path ends in a slash, the list of its       *)
(* parameters and whether there is a fragment.  A parameter has a name, is *)
(* bare if no = follows the name, and may end in a slash.                  *)
(***************************************************************************)
EXTENDS Integers, Sequences, FiniteSets, SequencesExt

CONSTANTS
    Inputs,         \* the lists of results that may arrive, in arrival order
    Others,         \* those that may arrive around a row of the cache
    Limits,         \* the limits a request may carry
    MaxLimit,       \* the greatest of them
    Configs,        \* the RankingConfigs there may be
    WeightOf,       \* provider -> its weight
    Worth,          \* place -> 1 / (1 + place), in the unit of all scores
    Trackers,       \* tracking_params
    MaxMerges       \* bound: times that results are merged

Params        == [name : STRING, bare : BOOLEAN, slash : BOOLEAN]
Urls          == [page : STRING, capitals : BOOLEAN, fragment : BOOLEAN,
                  slash : BOOLEAN, params : Seq(Params)]
Dimensions    == [enabled : BOOLEAN, weight : Int]

(* score is rank_score; native, a history, what the provider made it.      *)
SearchResults == [url : Urls, provider : DOMAIN WeightOf, score : Int, native : Int,
                  date : STRING]

(* Weights are not validated and may be negative. *)
ASSUME RankingConstants ==
    /\ Inputs \cup Others \subseteq Seq(SearchResults)
    /\ \A s \in Inputs \cup Others : \A i \in DOMAIN s : s[i].native = s[i].score
    /\ Limits \subseteq 0..MaxLimit /\ MaxLimit \in Nat
    /\ Worth \in [0..MaxLimit -> Int]
    /\ \A p, q \in 0..MaxLimit : p < q => Worth[p] > Worth[q]
    /\ Configs \subseteq [reputation : Dimensions, position : Dimensions, freshness : Dimensions]
    /\ WeightOf \in [DOMAIN WeightOf -> Int]
    /\ Trackers \subseteq STRING

VARIABLES
    given,          \* all results of all responses
    limit, config,
    at,             \* results merged so far
    seen,           \* canonical URL -> the result kept for it
    results,        \* the results of the response
    phase,          \* "merging", "merged" or "ranked"
    merges          \* merges so far

rankVars == <<given, limit, config, at, seen, results, phase, merges>>

RankInit ==
    /\ given \in Inputs /\ limit \in Limits /\ config \in Configs
    /\ at = 0 /\ seen = <<>> /\ results = <<>> /\ phase = "merging"
    /\ merges = 1

-----------------------------------------------------------------------------
(* The k-th index of the finite set S, in the order that before, a set of  *)
(* pairs, gives.                                                           *)
Nth(S, before, k) == CHOOSE i \in S : Cardinality({j \in S : <<j, i>> \in before}) = k - 1

Ascending(S) == {e \in S \X S : e[1] < e[2]}

(* The parameters that stay: a bare name with a slash behind it is not the *)
(* name of a tracker.                                                      *)
Tracking(q) == q.name \in Trackers /\ ~(q.bare /\ q.slash)

Untracked(params) ==
    LET kept == {k \in DOMAIN params : ~Tracking(params[k])} IN
    [k \in 1..Cardinality(kept) |-> params[Nth(kept, Ascending(kept), k)]]

(* canonicalize_url: fragment and tracking parameters go, the host loses   *)
(* its capitals, and one slash at the very end goes, which is the path's   *)
(* only when no parameter is left.                                         *)
Unslash(params) ==
    IF params = <<>> THEN params
    ELSE [params EXCEPT ![Len(params)].slash = FALSE]

(* Fault: the slash goes before the parameters do. *)
canonicalize_early(u) ==
    LET kept == Untracked(u.params) IN
    [page |-> u.page, capitals |-> FALSE, fragment |-> FALSE,
     slash |-> u.slash /\ u.params # <<>>, params |-> Unslash(kept)]

canonicalize_url(u) ==
    LET kept == Untracked(u.params) IN
    [page |-> u.page, capitals |-> FALSE, fragment |-> FALSE,
     slash |-> u.slash /\ kept # <<>>, params |-> Unslash(kept)]

-----------------------------------------------------------------------------
(* merge, the loop: a result replaces the one kept for its page only with  *)
(* a higher score.  Fault: with an equal score too.                        *)
KeepsLatest(r, key) == key \notin DOMAIN seen \/ r.score >= seen[key].score

Keeps(r, key) == key \notin DOMAIN seen \/ r.score > seen[key].score

MergeOne ==
    LET r   == given[at + 1]
        key == canonicalize_url(r.url)
    IN  /\ phase = "merging" /\ at < Len(given)
        /\ at' = at + 1
        /\ seen' = [k \in DOMAIN seen \cup {key} |-> IF k = key /\ Keeps(r, key) THEN r ELSE seen[k]]
        /\ UNCHANGED <<given, limit, config, results, phase, merges>>

(* merge, the end: the map has no order, so results of equal score come in *)
(* any; then the cut.                                                      *)
Ordered(s) == \A i, j \in DOMAIN s : i < j => seen[s[i]].score >= seen[s[j]].score

Cut ==
    {[i \in 1..(IF Len(s) < limit THEN Len(s) ELSE limit) |-> seen[s[i]]] :
        s \in {t \in SetToSeqs(DOMAIN seen) : Ordered(t)}}

SortAndCut ==
    /\ phase = "merging" /\ at = Len(given)
    /\ results' \in Cut
    /\ phase' = "merged"
    /\ UNCHANGED <<given, limit, config, at, seen, merges>>

-----------------------------------------------------------------------------
(* compute_composite_score. *)
One == Worth[0]

FreshnessOf(date) ==
    CASE date = "recent" -> One [] date \in {"old", "future"} -> 0 [] OTHER -> One \div 2

Part(dimension, value) == IF dimension.enabled THEN dimension.weight * value ELSE 0

composite(r, position) ==
    Part(config.reputation, One * WeightOf[r.provider])
    + Part(config.position, Worth[position])
    + Part(config.freshness, FreshnessOf(r.date))

(* Fault: places are counted from the end. *)
PlaceFromEnd(s, i)  == Cardinality({j \in i + 1..Len(s) : s[j].provider = s[i].provider})

(* rank: the place of a result among those of its provider. *)
Place(s, i) == Cardinality({j \in 1..i - 1 : s[j].provider = s[i].provider})

(* A stable sort by composite score, which becomes the score. *)
Scored(s) == [i \in DOMAIN s |-> [s[i] EXCEPT !.score = composite(s[i], Place(s, i))]]

ByScore(s) ==
    {e \in (DOMAIN s) \X (DOMAIN s) :
        \/ s[e[1]].score > s[e[2]].score
        \/ s[e[1]].score = s[e[2]].score /\ e[1] < e[2]}

rank(s) ==
    LET t == Scored(s) IN
    [k \in DOMAIN s |-> t[Nth(DOMAIN s, ByScore(t), k)]]

Rank ==
    /\ phase = "merged"
    /\ results' = rank(results)
    /\ phase' = "ranked"
    /\ UNCHANGED <<given, limit, config, at, seen, merges>>

(* A response of one provider is found in the cache as that provider's, by *)
(* another request, and comes among the responses of other providers.      *)
OneProvider(s)  == \A i, j \in DOMAIN s : s[i].provider = s[j].provider
Elsewhere(s, t) == \A i \in DOMAIN s, j \in DOMAIN t : s[i].provider # t[j].provider

MergeAgain(before, after, lim) ==
    /\ phase = "ranked" /\ merges < MaxMerges
    /\ OneProvider(given)
    /\ Elsewhere(given, before \o after)
    /\ given' = before \o results \o after
    /\ limit' = lim
    /\ at' = 0 /\ seen' = <<>> /\ results' = <<>> /\ phase' = "merging"
    /\ merges' = merges + 1
    /\ UNCHANGED config

RankNext ==
    \/ MergeOne
    \/ SortAndCut
    \/ Rank
    \/ \E before, after \in Others, lim \in Limits : MergeAgain(before, after, lim)

RankSpec == RankInit /\ [][RankNext]_rankVars

-----------------------------------------------------------------------------
(* What a tracker, a fragment or capitals add to a URL never makes another *)
(* page of it, and a key is its own key: unless one of the parameters is   *)
(* the bare name of a tracker with a slash, which is kept as no tracker    *)
(* and then loses the slash.                                               *)
Tracked(u) ==
    {[u EXCEPT !.fragment = ~@], [u EXCEPT !.capitals = ~@]}
    \cup {[u EXCEPT !.params = Append(@, q)] :
            q \in [name : Trackers, bare : BOOLEAN, slash : {FALSE}]}

NoHiddenTracker(u) ==
    \A k \in DOMAIN u.params : u.params[k].name \in Trackers => Tracking(u.params[k])

KeysAreStable ==
    \A i \in DOMAIN given :
        LET u   == given[i].url
            key == canonicalize_url(u)
        IN  /\ NoHiddenTracker(u) => canonicalize_url(key) = key
            /\ \A v \in Tracked(u) : canonicalize_url(v) = key

(* Of the results for one page the best is kept, and of the best the one   *)
(* that came first, at every turn of the loop.                             *)
SamePage(i, j) == canonicalize_url(given[i].url) = canonicalize_url(given[j].url)
Best(i) ==
    \A j \in 1..at : SamePage(i, j) =>
        given[j].score < given[i].score \/ (given[j].score = given[i].score /\ i <= j)

BestOfEachPage ==
    /\ {seen[k] : k \in DOMAIN seen} = {given[i] : i \in {i \in 1..at : Best(i)}}
    /\ \A k \in DOMAIN seen : canonicalize_url(seen[k].url) = k

(* Where the composite score is the place alone, two results of a provider *)
(* are never exchanged, however often they are ranked, cached and merged   *)
(* with others: what the provider scored higher stays ahead.               *)
InProviderOrder(s) ==
    \A i, j \in DOMAIN s :
        i < j /\ s[i].provider = s[j].provider => s[i].native >= s[j].native

ByPlace ==
    config.position.enabled /\ config.position.weight > 0 /\ ~config.freshness.enabled

ProviderOrderKept == phase = "ranked" /\ ByPlace => InProviderOrder(results)

(* "Results from the same provider are assumed to arrive in provider       *)
(* order": what rank assumes of the list it is given.                      *)
RankGetsProviderOrder == phase = "merged" => InProviderOrder(results)

(* "Merge, deduplicate, rank, and return top-N": what is left out ranks no *)
(* higher than what is returned.  The cut comes first, by the scores the   *)
(* results arrive with.                                                    *)
TopByRank ==
    phase = "ranked" =>
        \E t \in SetToSeqs(DOMAIN seen) :
            LET full == Scored([i \in DOMAIN t |-> seen[t[i]]])
                kept == {i \in DOMAIN t : \E k \in DOMAIN results : results[k].url = full[i].url}
            IN  /\ Ordered(t)
                /\ \A i \in kept, j \in DOMAIN t \ kept : full[i].score >= full[j].score

-----------------------------------------------------------------------------
(* What makes the properties inductive: the results have their types, seen *)
(* holds the pages of the results merged so far, and each the first of its *)
(* best ones, and of one provider's results the better score is that of    *)
(* the one the provider preferred.                                         *)
GivenTyped ==
    /\ given \in Seq(SearchResults) /\ at \in 0..Len(given)
    /\ limit \in Limits /\ config \in Configs
    /\ results \in Seq(SearchResults) /\ Len(results) <= limit

PageOf(i) == canonicalize_url(given[i].url)

MergeInv ==
    /\ DOMAIN seen = {PageOf(i) : i \in 1..at}
    /\ \A k \in DOMAIN seen : \E i \in 1..at : PageOf(i) = k /\ Best(i) /\ seen[k] = given[i]

Descending(s) == \A i, j \in DOMAIN s : i < j => s[i].score >= s[j].score

Agrees(s) ==
    \A i, j \in DOMAIN s :
        s[i].provider = s[j].provider /\ s[i].score >= s[j].score => s[i].native >= s[j].native

ProvidersOf(s) == {s[i].provider : i \in DOMAIN s}

OrderInv ==
    /\ ProvidersOf(results) \subseteq ProvidersOf(given)
    /\ ByPlace => Agrees(given) /\ Agrees(results)
    /\ phase = "merged" => Descending(results)
    /\ ProviderOrderKept
=============================================================================
