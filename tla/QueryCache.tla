----------------------------- MODULE QueryCache -----------------------------
(***************************************************************************)
(* The SQLite cache as the search path uses it: cache_key in               *)
(* src/cache/mod.rs, and get, set and clear in src/cache/sqlite.rs.  The   *)
(* table is a function from keys to rows; every call holds the connection  *)
(* mutex, so each operator is one atomic step of whoever uses it.          *)
(*                                                                         *)
(* The SHA-256 key is modelled by the text that is hashed into it, cut at  *)
(* every bar: the query, then the provider names in order, then the        *)
(* freshness tag.  Nothing is escaped, so a query with a bar in it may     *)
(* share its key with a shorter query for more providers.  Language,       *)
(* country, safe-search and limit are not hashed.                          *)
(***************************************************************************)
EXTENDS Integers, Sequences

CONSTANTS
    TTL             \* cache.default_ttl_secs, the ttl of every row

ASSUME CacheConstants == TTL \in Nat

NoRow == [created_at |-> -1]

(* provider_list is the stored list clear() filters on. *)
Row(response, providers, now) ==
    [response |-> response, provider_list |-> providers, created_at |-> now]

(* A query is its text, cut at the bars, and its freshness tag, if any.    *)
key_undated(query, names) == query.text \o names
                                      \* fault: the freshness is not hashed
cache_key(query, names) == query.text \o names \o query.freshness

FreshAtLimit(row, now) == row # NoRow /\ row.created_at + TTL >= now
                                      \* fault: one second too long
Fresh(row, now) == row # NoRow /\ row.created_at + TTL > now

(* get: the response with its cache_hit flag forced on. *)
Holds(cache, key, now) == Fresh(cache[key], now)
CacheGet(cache, key)   == [cache[key].response EXCEPT !.cache_hit = TRUE]

(* INSERT OR REPLACE *)
CacheSet(cache, key, response, providers, now) ==
    [cache EXCEPT ![key] = Row(response, providers, now)]

ClearAll(cache) == [key \in DOMAIN cache |-> NoRow]

ClearSole(cache, p) ==                \* fault: only the pattern of a sole entry
    [key \in DOMAIN cache |->
        IF cache[key] # NoRow /\ cache[key].provider_list = {p}
        THEN NoRow ELSE cache[key]]

(* The four LIKE patterns: p is one of the listed names. *)
ClearProvider(cache, p) ==
    [key \in DOMAIN cache |->
        IF cache[key] # NoRow /\ p \in cache[key].provider_list
        THEN NoRow ELSE cache[key]]
=============================================================================
