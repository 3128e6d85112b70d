----------------------------- MODULE CacheStore -----------------------------
(***************************************************************************)
(* The cache as a store on disk: src/cache/sqlite.rs with several threads  *)
(* calling it, a process that crashes and starts again, and a database     *)
(* file that may be damaged.  QueryCache has its operations as operators.  *)
(*                                                                         *)
(* Each call holds the connection mutex while it uses the database: that   *)
(* is one step.  What it does before is a step of its own: set reads the   *)
(* clock, stats reads the two counters.                                    *)
(***************************************************************************)
EXTENDS QueryCache, Sequences, FiniteSets

CONSTANTS
    Threads,        \* callers
    Keys,           \* key -> the providers its rows are listed under
    MaxSets,        \* bound: calls of set
    MaxGets,        \* bound: calls of get that are counted
    MaxStarts,      \* bound: starts of the process
    MaxTime         \* bound: last second

ASSUME StoreConstants ==
    /\ MaxSets \in Nat /\ MaxGets \in Nat
    /\ MaxStarts \in Nat /\ MaxTime \in Nat

VARIABLES
    now,            \* the clock, in seconds
    file,           \* "absent", "sound" or "corrupt"
    cache,          \* the table in it
    process,        \* "down", "opening", "removing", "reopening" or "up"
    starts,
    hits, misses,   \* the counters
    call,           \* thread -> the call it is in, or what its last one got
    sets,           \* history: the calls of set
    cleared         \* history: calls of set whose rows have been cleared

vars == <<now, file, cache, process, starts, hits, misses, call, sets, cleared>>

counters == <<hits, misses>>
disk     == <<file, process, starts>>

NoCall      == [op |-> "none"]
NoRows      == [key \in DOMAIN Keys |-> NoRow]
Response(n) == [set |-> n, cache_hit |-> FALSE]

Init ==
    /\ now = 0
    /\ file \in {"absent", "corrupt"} /\ cache = NoRows
    /\ process = "down" /\ starts = 0
    /\ hits = 0 /\ misses = 0
    /\ call = [t \in Threads |-> NoCall]
    /\ sets = <<>> /\ cleared = {}

Call(t, c)    == call' = [call EXCEPT ![t] = c]
Idle(t)       == process = "up" /\ call[t].op \in {"none", "got", "reported"}
InCall(t, op) == process = "up" /\ call[t].op = op

-----------------------------------------------------------------------------
(* Cache::open: a corrupt file is removed, and opening is tried once more. *)
BeginOpen ==
    /\ process = "down" /\ starts < MaxStarts
    /\ process' = "opening" /\ starts' = starts + 1
    /\ UNCHANGED <<now, file, cache, counters, call, sets, cleared>>

Opened ==
    /\ process' = "up" /\ file' = "sound"
    /\ hits' = 0 /\ misses' = 0

(* Fault: every error of the first attempt is taken for corruption. *)
TryOpenOrRemove ==
    /\ process \in {"opening", "reopening"}
    /\ \/ file # "corrupt" /\ Opened
       \/ /\ process' = IF process = "opening" THEN "removing" ELSE "down"
          /\ UNCHANGED <<file, counters>>
    /\ UNCHANGED <<now, cache, starts, call, sets, cleared>>

(* try_open: any error but corruption, and any of the second attempt, ends *)
(* the start.  Without a file one is created.                              *)
TryOpen ==
    /\ process \in {"opening", "reopening"}
    /\ \/ file # "corrupt" /\ Opened
       \/ /\ process' = IF file = "corrupt" /\ process = "opening" THEN "removing" ELSE "down"
          /\ UNCHANGED <<file, counters>>
    /\ UNCHANGED <<now, cache, starts, call, sets, cleared>>

(* remove_file; an error of it is logged and no more. *)
RemoveCorrupt ==
    /\ process = "removing"
    /\ process' = "reopening"
    /\ \/ file' = "absent" /\ cache' = NoRows
       \/ UNCHANGED <<file, cache>>
    /\ UNCHANGED <<now, starts, counters, call, sets, cleared>>

(* The process ends, whatever its threads are doing. *)
Crash ==
    /\ process # "down"
    /\ process' = "down"
    /\ call' = [t \in Threads |-> NoCall]
    /\ UNCHANGED <<now, file, cache, starts, counters, sets, cleared>>

(* The file is damaged while nobody has it open. *)
Corrupts ==
    /\ process = "down" /\ file = "sound"
    /\ file' = "corrupt"
    /\ UNCHANGED <<now, cache, process, starts, counters, call, sets, cleared>>

-----------------------------------------------------------------------------
(* get: a hit, a miss, or an error of the database, which counts as none. *)
Hit(t, key) ==
    /\ Holds(cache, key, now)
    /\ hits' = hits + 1 /\ UNCHANGED misses
    /\ Call(t, [op |-> "got", key |-> key, at |-> now, response |-> CacheGet(cache, key)])

Miss(t, key) ==
    /\ ~Holds(cache, key, now)
    /\ misses' = misses + 1 /\ UNCHANGED hits
    /\ Call(t, NoCall)

GetFails(t) == Call(t, NoCall) /\ UNCHANGED counters

Get(t, key) ==
    /\ Idle(t) /\ hits + misses < MaxGets
    /\ Hit(t, key) \/ Miss(t, key) \/ GetFails(t)
    /\ UNCHANGED <<now, cache, sets, cleared, disk>>

(* set reads the clock, then waits for the mutex. *)
BeginSet(t, key) ==
    /\ Idle(t) /\ Len(sets) < MaxSets
    /\ sets' = Append(sets, [key |-> key, stamp |-> now, ended |-> FALSE,
                             after |-> {n \in DOMAIN sets : sets[n].ended}])
    /\ Call(t, [op |-> "set", set |-> Len(sets) + 1, now |-> now])
    /\ UNCHANGED <<now, cache, cleared, counters, disk>>

(* Fault: a conflict updates the response and leaves created_at alone. *)
StoredInPlace(n, stamp) ==
    LET row == cache[sets[n].key] IN
    CacheSet(cache, sets[n].key, Response(n), Keys[sets[n].key],
             IF row = NoRow THEN stamp ELSE row.created_at)

Stored(n, stamp) ==
    CacheSet(cache, sets[n].key, Response(n), Keys[sets[n].key], stamp)

EndSet(t) ==
    /\ InCall(t, "set")
    /\ \/ cache' = Stored(call[t].set, call[t].now)
       \/ UNCHANGED cache                               \* the insert fails
    /\ sets' = [sets EXCEPT ![call[t].set].ended = TRUE]
    /\ Call(t, NoCall)
    /\ UNCHANGED <<now, cleared, counters, disk>>

(* clear, of everything or of one provider's rows. *)
Clear(t) ==
    /\ Idle(t)
    /\ cache' = ClearAll(cache)
    /\ cleared' = {n \in DOMAIN sets : sets[n].ended}
    /\ Call(t, NoCall)
    /\ UNCHANGED <<now, sets, counters, disk>>

ClearOf(t, p) ==
    /\ Idle(t)
    /\ cache' = ClearProvider(cache, p)
    /\ cleared' = cleared \cup {n \in DOMAIN sets : sets[n].ended /\ p \in Keys[sets[n].key]}
    /\ Call(t, NoCall)
    /\ UNCHANGED <<now, sets, counters, disk>>

evict_expired(t) ==
    /\ Idle(t)
    /\ cache' = [key \in DOMAIN Keys |-> IF Holds(cache, key, now) THEN cache[key] ELSE NoRow]
    /\ Call(t, NoCall)
    /\ UNCHANGED <<now, sets, cleared, counters, disk>>

(* stats: hits, misses, and then the rows under the mutex. *)
ReadHits(t) ==
    /\ Idle(t)
    /\ Call(t, [op |-> "stats", hit_count |-> hits])
    /\ UNCHANGED <<now, cache, sets, cleared, counters, disk>>

ReadMisses(t) ==
    /\ InCall(t, "stats")
    /\ Call(t, [op |-> "counting", hit_count |-> call[t].hit_count,
                miss_count |-> misses])
    /\ UNCHANGED <<now, cache, sets, cleared, counters, disk>>

CountRows(t) ==
    /\ InCall(t, "counting")
    /\ Call(t, [op |-> "reported", hit_count |-> call[t].hit_count,
                miss_count |-> call[t].miss_count,
                total_entries |-> Cardinality({key \in DOMAIN Keys : cache[key] # NoRow})])
    /\ UNCHANGED <<now, cache, sets, cleared, counters, disk>>

Tick ==
    /\ now < MaxTime
    /\ now' = now + 1
    /\ UNCHANGED <<file, cache, process, starts, counters, call, sets, cleared>>

Next ==
    \/ BeginOpen
    \/ TryOpen
    \/ RemoveCorrupt
    \/ Crash
    \/ Corrupts
    \/ Tick
    \/ \E t \in Threads :
          \/ \E key \in DOMAIN Keys : Get(t, key) \/ BeginSet(t, key)
          \/ EndSet(t)
          \/ Clear(t)
          \/ \E p \in UNION {Keys[key] : key \in DOMAIN Keys} : ClearOf(t, p)
          \/ evict_expired(t)
          \/ ReadHits(t)
          \/ ReadMisses(t)
          \/ CountRows(t)

Spec == Init /\ [][Next]_vars

-----------------------------------------------------------------------------
TypeOK ==
    /\ now \in 0..MaxTime /\ starts \in 0..MaxStarts
    /\ file \in {"absent", "sound", "corrupt"}
    /\ process \in {"down", "opening", "removing", "reopening", "up"}
    /\ process = "up" => file = "sound"
    /\ hits + misses <= MaxGets
    /\ DOMAIN cache = DOMAIN Keys
    /\ file = "absent" => cache = NoRows
    /\ cleared \subseteq DOMAIN sets

(* What get returns was given to a set of that key less than a TTL ago,    *)
(* in this run of the process or an earlier one, and no clear of it has    *)
(* ended since that set did.                                               *)
HitsAreOwnAndYoung ==
    \A t \in Threads : call[t].op = "got" =>
        LET s == sets[call[t].response.set] IN
        /\ call[t].response.cache_hit
        /\ s.key = call[t].key
        /\ s.stamp <= call[t].at /\ call[t].at < s.stamp + TTL

ClearedStayAway ==
    \A key \in DOMAIN Keys : cache[key] # NoRow => cache[key].response.set \notin cleared

(* Although created_at is read before the mutex is held, a row may carry   *)
(* an older time than the one it replaces only if the two calls of set     *)
(* overlapped: it is never older than its own call, nor than one that had  *)
(* returned when that began.                                               *)
RowsKeepUp ==
    \A key \in DOMAIN Keys : cache[key] # NoRow =>
        LET own == cache[key].response.set IN
        \A n \in {own} \cup sets[own].after :
            sets[n].key = key => cache[key].created_at >= sets[n].stamp

(* A start keeps the rows of a file that is not corrupt, however it ends;  *)
(* so does a crash.                                                        *)
SoundRowsSurvive ==
    [][file = "sound" /\ (process # "up" \/ process' # "up") => cache' = cache]_vars

-----------------------------------------------------------------------------
(* Why they hold.  What a set was called with does not change, and a row   *)
(* carries the time its set has read.                                      *)
SetRecords == [key : DOMAIN Keys, stamp : Nat, ended : BOOLEAN, after : SUBSET Nat]

SetsInTime ==
    /\ now \in Nat
    /\ sets \in Seq(SetRecords)
    /\ \A n \in DOMAIN sets :
          /\ sets[n].stamp <= now
          /\ \A m \in sets[n].after : m \in DOMAIN sets /\ sets[m].stamp <= sets[n].stamp

RowsAreTheirs ==
    /\ DOMAIN cache = DOMAIN Keys
    /\ \A key \in DOMAIN Keys : cache[key] # NoRow =>
          LET n == cache[key].response.set IN
          /\ n \in DOMAIN sets
          /\ cache[key] = Row(Response(n), Keys[key], sets[n].stamp)
          /\ sets[n].key = key

CallsAreTheirs ==
    /\ DOMAIN call = Threads
    /\ \A t \in Threads :
          /\ call[t].op = "got" => call[t].response.set \in DOMAIN sets
          /\ call[t].op = "set" =>
                /\ call[t].set \in DOMAIN sets
                /\ call[t].now = sets[call[t].set].stamp
                /\ ~sets[call[t].set].ended
                /\ \A u \in Threads \ {t} : call[u].op = "set" => call[u].set # call[t].set

ClearedHaveEnded == \A n \in cleared : n \in DOMAIN sets /\ sets[n].ended

RemovesOnlyCorrupt == process = "removing" => file = "corrupt"

StoreInv ==
    /\ SetsInTime
    /\ RowsAreTheirs
    /\ CallsAreTheirs
    /\ ClearedHaveEnded
    /\ RemovesOnlyCorrupt
    /\ HitsAreOwnAndYoung
    /\ ClearedStayAway
=============================================================================
