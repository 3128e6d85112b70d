-------------------------- MODULE CacheStore_proofs --------------------------
(***************************************************************************)
(* The cache keeps its promises for every number of threads, keys, calls,  *)
(* crashes and starts, and every TTL.                                      *)
(***************************************************************************)
EXTENDS CacheStore, TLAPS

(* The actions that leave the history of set, and the clock, alone. *)
Elsewhere(t) ==
    \/ \E key \in DOMAIN Keys : Get(t, key)
    \/ Clear(t)
    \/ \E p \in UNION {Keys[key] : key \in DOMAIN Keys} : ClearOf(t, p)
    \/ evict_expired(t) \/ ReadHits(t) \/ ReadMisses(t) \/ CountRows(t)

Process == BeginOpen \/ TryOpen \/ RemoveCorrupt \/ Crash \/ Corrupts

LEMMA ElsewhereSets ==
    ASSUME Process \/ \E t \in Threads : Elsewhere(t)
    PROVE  sets' = sets /\ now' = now
BY DEF Process, BeginOpen, TryOpen, Opened, RemoveCorrupt, Crash, Corrupts, Elsewhere,
       Get, Clear, ClearOf, evict_expired, ReadHits, ReadMisses, CountRows, disk, counters

LEMMA NextCases ==
    Next <=> \/ Process \/ Tick
             \/ \E t \in Threads :
                   \/ Elsewhere(t) \/ EndSet(t)
                   \/ \E key \in DOMAIN Keys : BeginSet(t, key)
BY DEF Next, Process, Elsewhere

-----------------------------------------------------------------------------
(* The history of set only grows, and nothing in it changes but ended. *)
Kept ==
    \A n \in DOMAIN sets :
        /\ n \in DOMAIN sets'
        /\ sets'[n].key = sets[n].key /\ sets'[n].stamp = sets[n].stamp
        /\ sets[n].ended => sets'[n].ended

LEMMA BeginSetStep ==
    ASSUME SetsInTime, NEW t \in Threads, NEW key \in DOMAIN Keys, BeginSet(t, key)
    PROVE  /\ SetsInTime' /\ Kept
           /\ Len(sets) + 1 \in DOMAIN sets' /\ Len(sets) + 1 \notin DOMAIN sets
           /\ sets'[Len(sets) + 1].stamp = now /\ ~sets'[Len(sets) + 1].ended
           /\ \A n \in DOMAIN sets : sets'[n] = sets[n]
<1> DEFINE ended == {n \in DOMAIN sets : sets[n].ended}
           new   == [key |-> key, stamp |-> now, ended |-> FALSE, after |-> ended]
<1>1. sets' = Append(sets, new) /\ now' = now
    BY DEF BeginSet
<1>2. sets \in Seq(SetRecords) /\ now \in Nat /\ Len(sets) \in Nat
      /\ DOMAIN sets = 1..Len(sets)
    BY DEF SetsInTime
<1>3. new \in SetRecords
    BY <1>2 DEF SetRecords
<1>4. /\ sets' \in Seq(SetRecords)
      /\ DOMAIN sets' = 1..Len(sets) + 1
      /\ \A n \in DOMAIN sets : sets'[n] = sets[n]
      /\ sets'[Len(sets) + 1] = new
    BY <1>1, <1>2, <1>3
<1>5. ASSUME NEW n \in DOMAIN sets'
      PROVE  /\ sets'[n].stamp <= now
             /\ \A m \in sets'[n].after : m \in DOMAIN sets' /\ sets'[m].stamp <= sets'[n].stamp
    <2>1. CASE n \in DOMAIN sets
        BY <1>2, <1>4, <2>1 DEF SetsInTime
    <2>2. CASE n = Len(sets) + 1
        <3>1. sets'[n].stamp = now /\ sets'[n].after = ended
            BY <1>4, <2>2
        <3> QED BY <1>2, <1>4, <3>1 DEF SetsInTime
    <2> QED BY <1>2, <1>4, <2>1, <2>2
<1>6. SetsInTime'
    BY <1>1, <1>2, <1>4, <1>5 DEF SetsInTime
<1> QED BY <1>2, <1>4, <1>6 DEF Kept

LEMMA EndSetStep ==
    ASSUME SetsInTime, CallsAreTheirs, NEW t \in Threads, EndSet(t)
    PROVE  /\ SetsInTime' /\ Kept
           /\ DOMAIN sets' = DOMAIN sets
           /\ \A n \in DOMAIN sets : n # call[t].set => sets'[n] = sets[n]
<1> DEFINE n0 == call[t].set
<1>1. /\ sets' = [sets EXCEPT ![n0].ended = TRUE] /\ now' = now
      /\ n0 \in DOMAIN sets
    BY DEF EndSet, InCall, CallsAreTheirs
<1>2. sets \in Seq(SetRecords) /\ sets[n0] \in SetRecords
    BY <1>1 DEF SetsInTime
<1>3. [sets[n0] EXCEPT !.ended = TRUE] \in SetRecords
    BY <1>2 DEF SetRecords
<1>4. /\ sets' \in Seq(SetRecords)
      /\ DOMAIN sets' = DOMAIN sets
      /\ \A n \in DOMAIN sets :
            sets'[n] = IF n = n0 THEN [sets[n0] EXCEPT !.ended = TRUE] ELSE sets[n]
    BY <1>1, <1>2, <1>3
<1>5. \A n \in DOMAIN sets : /\ sets'[n].key = sets[n].key
                             /\ sets'[n].stamp = sets[n].stamp
                             /\ sets'[n].after = sets[n].after
                             /\ sets[n].ended => sets'[n].ended
    BY <1>2, <1>4, ZenonT(60) DEF SetRecords
<1>6. SetsInTime'
    BY <1>1, <1>4, <1>5 DEF SetsInTime
<1> QED BY <1>4, <1>5, <1>6 DEF Kept

LEMMA SetsStep ==
    ASSUME SetsInTime, CallsAreTheirs, Next
    PROVE  SetsInTime' /\ Kept
<1>1. CASE Process \/ \E t \in Threads : Elsewhere(t)
    BY <1>1, ElsewhereSets DEF SetsInTime, Kept
<1>2. CASE Tick
    <2>1. sets' = sets /\ now' = now + 1
        BY <1>2 DEF Tick
    <2>2. now \in Nat /\ now' \in Nat
        BY <2>1 DEF SetsInTime
    <2>3. ASSUME NEW n \in DOMAIN sets
          PROVE  sets[n].stamp <= now'
        <3>1. sets[n] \in SetRecords
            BY DEF SetsInTime
        <3>2. sets[n].stamp \in Nat /\ sets[n].stamp <= now
            BY <3>1 DEF SetsInTime, SetRecords
        <3> QED BY <2>1, <2>2, <3>2
    <2>4. SetsInTime'
        BY <2>1, <2>2, <2>3 DEF SetsInTime
    <2> QED BY <2>1, <2>4 DEF Kept
<1> QED BY <1>1, <1>2, NextCases, BeginSetStep, EndSetStep

-----------------------------------------------------------------------------
(* Every row still is what its set was called with. *)
RowOf(key, row) ==
    /\ row.response.set \in DOMAIN sets
    /\ row = Row(Response(row.response.set), Keys[key], sets[row.response.set].stamp)
    /\ sets[row.response.set].key = key

LEMMA RowsStay ==
    ASSUME RowsAreTheirs, Kept,
           DOMAIN cache' = DOMAIN cache,
           \A key \in DOMAIN Keys : cache'[key] \in {cache[key], NoRow} \/ RowOf(key, cache'[key])
    PROVE  RowsAreTheirs'
BY DEF RowsAreTheirs, Kept, RowOf

(* What EndSet stores. *)
LEMMA StoredRow ==
    ASSUME RowsAreTheirs, CallsAreTheirs, NEW t \in Threads, InCall(t, "set")
    PROVE  LET n    == call[t].set
               next == Stored(n, call[t].now) IN
           /\ n \in DOMAIN sets
           /\ DOMAIN next = DOMAIN cache
           /\ \A key \in DOMAIN Keys :
                 \/ next[key] = cache[key]
                 \/ /\ key = sets[n].key /\ RowOf(key, next[key])
                    /\ next[key].response.set = n
BY DEF RowsAreTheirs, CallsAreTheirs, InCall, Stored, CacheSet, Row, RowOf, Response

(* Reading leaves the rows, clearing and evicting take some away. *)
LEMMA ElsewhereRows ==
    ASSUME Process \/ \E t \in Threads : Elsewhere(t), RowsAreTheirs
    PROVE  /\ DOMAIN cache' = DOMAIN cache
           /\ \A key \in DOMAIN Keys : cache'[key] \in {cache[key], NoRow}
<1>1. CASE Process
    BY <1>1 DEF Process, BeginOpen, TryOpen, Opened, RemoveCorrupt, Crash, Corrupts, NoRows,
                RowsAreTheirs
<1>2. ASSUME NEW t \in Threads, Elsewhere(t)
      PROVE  /\ DOMAIN cache' = DOMAIN cache
             /\ \A key \in DOMAIN Keys : cache'[key] \in {cache[key], NoRow}
    BY <1>2 DEF Elsewhere, Get, Clear, ClearOf, evict_expired, ReadHits, ReadMisses,
                CountRows, ClearAll, ClearProvider, RowsAreTheirs
<1> QED BY <1>1, <1>2

LEMMA RowsStep ==
    ASSUME SetsInTime, RowsAreTheirs, CallsAreTheirs, Next
    PROVE  RowsAreTheirs'
<1>1. Kept
    BY SetsStep
<1>2. CASE Process \/ \E t \in Threads : Elsewhere(t)
    BY <1>1, <1>2, ElsewhereRows, RowsStay
<1>3. ASSUME NEW t \in Threads, NEW key \in DOMAIN Keys, BeginSet(t, key) PROVE RowsAreTheirs'
    BY <1>1, <1>3, RowsStay DEF BeginSet
<1>4. CASE Tick
    BY <1>1, <1>4, RowsStay DEF Tick
<1>5. ASSUME NEW t \in Threads, EndSet(t) PROVE RowsAreTheirs'
    <2>1. InCall(t, "set") /\ (cache' = Stored(call[t].set, call[t].now) \/ cache' = cache)
        BY <1>5 DEF EndSet
    <2> QED BY <1>1, <2>1, StoredRow, RowsStay
<1> QED BY <1>2, <1>3, <1>4, <1>5, NextCases

-----------------------------------------------------------------------------
(* No two threads are in the same call, and only its own thread ends it.   *)
LEMMA ElsewhereCalls ==
    ASSUME RowsAreTheirs, CallsAreTheirs, NEW t \in Threads, Elsewhere(t)
    PROVE  /\ \A u \in Threads \ {t} : call'[u] = call[u]
           /\ DOMAIN call' = Threads
           /\ call'[t].op # "set"
           /\ call'[t].op = "got" =>
                 \E key \in DOMAIN Keys :
                    /\ Fresh(cache[key], now)
                    /\ call'[t] = [op |-> "got", key |-> key, at |-> now,
                                   response |-> CacheGet(cache, key)]
<1>1. ASSUME NEW key \in DOMAIN Keys, Get(t, key)
      PROVE  \/ /\ call' = [call EXCEPT ![t] = [op |-> "got", key |-> key, at |-> now,
                                                response |-> CacheGet(cache, key)]]
                /\ Fresh(cache[key], now)
             \/ call' = [call EXCEPT ![t] = NoCall]
    BY <1>1 DEF Get, Hit, Miss, GetFails, Call, Holds
<1>2. ASSUME Clear(t) \/ (\E p \in UNION {Keys[key] : key \in DOMAIN Keys} : ClearOf(t, p))
             \/ evict_expired(t)
      PROVE  call' = [call EXCEPT ![t] = NoCall]
    BY <1>2 DEF Clear, ClearOf, evict_expired, Call
<1>3. ASSUME ReadHits(t) \/ ReadMisses(t) \/ CountRows(t)
      PROVE  /\ \A u \in Threads \ {t} : call'[u] = call[u]
             /\ DOMAIN call' = Threads
             /\ call'[t].op \in {"stats", "counting", "reported"}
    <2>1. DOMAIN call = Threads
        BY DEF CallsAreTheirs
    <2>2. CASE ReadHits(t)
        BY <2>1, <2>2 DEF ReadHits, Call
    <2>3. CASE ReadMisses(t)
        BY <2>1, <2>3 DEF ReadMisses, Call
    <2>4. CASE CountRows(t)
        BY <2>1, <2>4 DEF CountRows, Call
    <2> QED BY <1>3, <2>2, <2>3, <2>4
<1>4. NoCall.op = "none"
    BY DEF NoCall
<1>5. DOMAIN call = Threads
    BY DEF CallsAreTheirs
<1>6. CASE \E key \in DOMAIN Keys : Get(t, key)
    BY <1>1, <1>4, <1>5, <1>6
<1>7. CASE Clear(t) \/ (\E p \in UNION {Keys[key] : key \in DOMAIN Keys} : ClearOf(t, p))
           \/ evict_expired(t)
    BY <1>2, <1>4, <1>5, <1>7
<1>8. CASE ReadHits(t) \/ ReadMisses(t) \/ CountRows(t)
    BY <1>3, <1>8
<1> QED BY <1>6, <1>7, <1>8 DEF Elsewhere

(* What a get that hits is given. *)
LEMMA HitRow ==
    ASSUME SetsInTime, RowsAreTheirs, NEW key \in DOMAIN Keys, Fresh(cache[key], now)
    PROVE  LET r == CacheGet(cache, key) IN
           /\ r.cache_hit
           /\ r.set \in DOMAIN sets /\ sets[r.set].key = key
           /\ sets[r.set].stamp <= now /\ now < sets[r.set].stamp + TTL
<1>1. PICK n \in DOMAIN sets :
         sets[n].key = key /\ cache[key] = Row(Response(n), Keys[key], sets[n].stamp)
    BY DEF Fresh, RowsAreTheirs
<1>2. /\ cache[key].response = [set |-> n, cache_hit |-> FALSE]
      /\ cache[key].created_at = sets[n].stamp
    BY <1>1 DEF Row, Response
<1>3. sets[n].stamp \in Nat /\ now \in Nat /\ sets[n].stamp <= now
    <2>1. sets[n] \in SetRecords
        BY <1>1 DEF SetsInTime
    <2> QED BY <1>1, <2>1 DEF SetsInTime, SetRecords
<1>4. now < sets[n].stamp + TTL
    BY <1>2, <1>3, CacheConstants DEF Fresh
<1>5. /\ CacheGet(cache, key).cache_hit
      /\ CacheGet(cache, key).set = n
    <2> DEFINE r == cache[key].response
    <2>1. r = [set |-> n, cache_hit |-> FALSE]
        BY <1>2
    <2> HIDE DEF r
    <2>2. [r EXCEPT !.cache_hit = TRUE].cache_hit
        BY <2>1
    <2>3. [r EXCEPT !.cache_hit = TRUE].set = n
        BY <2>1
    <2> QED BY <2>2, <2>3 DEF CacheGet, r
<1> QED BY <1>1, <1>3, <1>4, <1>5

(* Steps that leave every call as it is, or end it. *)
LEMMA CallsStay ==
    ASSUME CallsAreTheirs, HitsAreOwnAndYoung, Kept,
           call' = call \/ call' = [t \in Threads |-> NoCall],
           \A n \in DOMAIN sets : sets'[n].ended = sets[n].ended
    PROVE  CallsAreTheirs' /\ HitsAreOwnAndYoung'
BY DEF CallsAreTheirs, HitsAreOwnAndYoung, Kept, NoCall

LEMMA CallsStep ==
    ASSUME SetsInTime, RowsAreTheirs, CallsAreTheirs, HitsAreOwnAndYoung, Next
    PROVE  CallsAreTheirs' /\ HitsAreOwnAndYoung'
<1>1. Kept
    BY SetsStep
<1>2. CASE Process \/ Tick
    <2>1. sets' = sets /\ (call' = call \/ call' = [t \in Threads |-> NoCall])
        BY <1>2 DEF Process, BeginOpen, TryOpen, Opened, RemoveCorrupt, Crash, Corrupts, Tick
    <2> QED BY <1>1, <2>1, CallsStay
<1>3. ASSUME NEW t \in Threads, Elsewhere(t) PROVE CallsAreTheirs' /\ HitsAreOwnAndYoung'
    <2>1. sets' = sets
        BY <1>3, ElsewhereSets
    <2>2. call'[t].op = "got" =>
             /\ call'[t].response.cache_hit
             /\ call'[t].response.set \in DOMAIN sets
             /\ sets[call'[t].response.set].key = call'[t].key
             /\ sets[call'[t].response.set].stamp <= call'[t].at
             /\ call'[t].at < sets[call'[t].response.set].stamp + TTL
        <3> SUFFICES ASSUME call'[t].op = "got"
                     PROVE  /\ call'[t].response.cache_hit
                            /\ call'[t].response.set \in DOMAIN sets
                            /\ sets[call'[t].response.set].key = call'[t].key
                            /\ sets[call'[t].response.set].stamp <= call'[t].at
                            /\ call'[t].at < sets[call'[t].response.set].stamp + TTL
            OBVIOUS
        <3>1. PICK key \in DOMAIN Keys :
                 /\ Fresh(cache[key], now)
                 /\ call'[t] = [op |-> "got", key |-> key, at |-> now,
                                response |-> CacheGet(cache, key)]
            BY <1>3, ElsewhereCalls
        <3>2. /\ call'[t].response = CacheGet(cache, key)
              /\ call'[t].key = key /\ call'[t].at = now
            BY <3>1
        <3> QED BY <3>1, <3>2, HitRow
    <2>3. CallsAreTheirs'
        BY <1>3, <2>1, <2>2, ElsewhereCalls DEF CallsAreTheirs
    <2>4. HitsAreOwnAndYoung'
        BY <1>3, <2>1, <2>2, ElsewhereCalls DEF HitsAreOwnAndYoung
    <2> QED BY <2>3, <2>4
<1>4. ASSUME NEW t \in Threads, NEW key \in DOMAIN Keys, BeginSet(t, key)
      PROVE  CallsAreTheirs' /\ HitsAreOwnAndYoung'
    <2> DEFINE n0 == Len(sets) + 1
    <2>1. /\ call' = [call EXCEPT ![t] = [op |-> "set", set |-> n0, now |-> now]]
          /\ DOMAIN call = Threads
        BY <1>4 DEF BeginSet, Call, CallsAreTheirs
    <2>2. /\ DOMAIN call' = Threads
          /\ call'[t].op = "set" /\ call'[t].set = n0 /\ call'[t].now = now
          /\ \A u \in Threads \ {t} : call'[u] = call[u]
        BY <2>1
    <2>3. /\ n0 \in DOMAIN sets' /\ n0 \notin DOMAIN sets
          /\ sets'[n0].stamp = now /\ ~sets'[n0].ended
          /\ \A n \in DOMAIN sets : sets'[n] = sets[n]
        BY <1>4, BeginSetStep
    <2>4. CallsAreTheirs'
        BY <1>1, <2>2, <2>3 DEF CallsAreTheirs, Kept
    <2>5. HitsAreOwnAndYoung'
        BY <2>2, <2>3 DEF CallsAreTheirs, HitsAreOwnAndYoung
    <2> QED BY <2>4, <2>5
<1>5. ASSUME NEW t \in Threads, EndSet(t) PROVE CallsAreTheirs' /\ HitsAreOwnAndYoung'
    <2>1. /\ DOMAIN call' = Threads
          /\ call'[t].op = "none"
          /\ \A u \in Threads \ {t} : call'[u] = call[u]
          /\ call[t].op = "set"
        BY <1>5 DEF EndSet, Call, NoCall, InCall, CallsAreTheirs
    <2>2. /\ DOMAIN sets' = DOMAIN sets
          /\ \A n \in DOMAIN sets : n # call[t].set => sets'[n] = sets[n]
        BY <1>5, EndSetStep
    <2>3. CallsAreTheirs'
        BY <1>1, <2>1, <2>2 DEF CallsAreTheirs, Kept
    <2>4. HitsAreOwnAndYoung'
        BY <1>1, <2>1, <2>2 DEF CallsAreTheirs, HitsAreOwnAndYoung, Kept
    <2> QED BY <2>3, <2>4
<1> QED BY <1>2, <1>3, <1>4, <1>5, NextCases

-----------------------------------------------------------------------------
(* What has been cleared stays away: a row that is left is of a set that   *)
(* the clear did not see end, or not listed under what was cleared.        *)
LEMMA ClearedStep ==
    ASSUME SetsInTime, RowsAreTheirs, CallsAreTheirs, ClearedHaveEnded, ClearedStayAway, Next
    PROVE  ClearedHaveEnded' /\ ClearedStayAway'
<1>1. Kept
    BY SetsStep
<1>2. ASSUME cleared' = cleared PROVE ClearedHaveEnded'
    BY <1>1, <1>2 DEF ClearedHaveEnded, Kept
<1>3. ASSUME cleared' = cleared,
             \A key \in DOMAIN Keys : cache'[key] \in {cache[key], NoRow}
      PROVE  ClearedStayAway'
    BY <1>3 DEF ClearedStayAway
<1>4. ASSUME Process \/ \E t \in Threads : Elsewhere(t), cleared' = cleared
      PROVE  ClearedHaveEnded' /\ ClearedStayAway'
    BY <1>2, <1>3, <1>4, ElsewhereRows
<1>5. CASE Process
    BY <1>4, <1>5 DEF Process, BeginOpen, TryOpen, Opened, RemoveCorrupt, Crash, Corrupts
<1>6. ASSUME NEW t \in Threads, Clear(t) PROVE ClearedHaveEnded' /\ ClearedStayAway'
    <2>1. /\ sets' = sets /\ cleared' = {n \in DOMAIN sets : sets[n].ended}
          /\ cache' = ClearAll(cache)
        BY <1>6 DEF Clear
    <2> QED BY <2>1 DEF ClearedHaveEnded, ClearedStayAway, ClearAll, RowsAreTheirs
<1>7. ASSUME NEW t \in Threads, NEW p, ClearOf(t, p)
      PROVE  ClearedHaveEnded' /\ ClearedStayAway'
    <2>1. /\ sets' = sets
          /\ cleared' = cleared \cup {n \in DOMAIN sets : sets[n].ended /\ p \in Keys[sets[n].key]}
          /\ cache' = ClearProvider(cache, p)
        BY <1>7 DEF ClearOf
    <2>2. ClearedHaveEnded'
        BY <2>1 DEF ClearedHaveEnded
    <2>3. ASSUME NEW key \in DOMAIN Keys, cache'[key] # NoRow
          PROVE  cache'[key].response.set \notin cleared'
        <3>1. cache'[key] = cache[key] /\ p \notin cache[key].provider_list
            BY <2>1, <2>3 DEF ClearProvider, RowsAreTheirs
        <3>2. PICK n \in DOMAIN sets :
                 /\ n = cache[key].response.set /\ sets[n].key = key
                 /\ cache[key] = Row(Response(n), Keys[key], sets[n].stamp)
            BY <2>3, <3>1 DEF RowsAreTheirs
        <3>3. p \notin Keys[sets[n].key]
            BY <3>1, <3>2 DEF Row
        <3> QED BY <2>1, <2>3, <3>1, <3>2, <3>3 DEF ClearedStayAway
    <2> QED BY <2>2, <2>3 DEF ClearedStayAway
<1>8. ASSUME NEW t \in Threads,
             \/ \E key \in DOMAIN Keys : Get(t, key)
             \/ evict_expired(t) \/ ReadHits(t) \/ ReadMisses(t) \/ CountRows(t)
      PROVE  ClearedHaveEnded' /\ ClearedStayAway'
    BY <1>4, <1>8 DEF Elsewhere, Get, evict_expired, ReadHits, ReadMisses, CountRows
<1>9. ASSUME NEW t \in Threads, NEW key \in DOMAIN Keys, BeginSet(t, key)
      PROVE  ClearedHaveEnded' /\ ClearedStayAway'
    BY <1>2, <1>3, <1>9 DEF BeginSet
<1>10. CASE Tick
    BY <1>2, <1>3, <1>10 DEF Tick
<1>11. ASSUME NEW t \in Threads, EndSet(t) PROVE ClearedHaveEnded' /\ ClearedStayAway'
    <2>1. /\ InCall(t, "set") /\ cleared' = cleared
          /\ cache' = Stored(call[t].set, call[t].now) \/ cache' = cache
        BY <1>11 DEF EndSet
    <2>2. call[t].set \notin cleared
        BY <2>1 DEF InCall, CallsAreTheirs, ClearedHaveEnded
    <2>3. ClearedStayAway'
        BY <2>1, <2>2, StoredRow DEF ClearedStayAway
    <2> QED BY <1>2, <2>1, <2>3
<1> QED BY <1>5, <1>6, <1>7, <1>8, <1>9, <1>10, <1>11, NextCases DEF Elsewhere

-----------------------------------------------------------------------------
LEMMA InitStore == Init => StoreInv
<1> SUFFICES ASSUME Init PROVE StoreInv
    OBVIOUS
<1>1. sets = <<>> /\ cleared = {} /\ now = 0 /\ process = "down"
    BY DEF Init
<1>2. \A key \in DOMAIN Keys : cache[key] = NoRow
    BY DEF Init, NoRows
<1>3. call = [t \in Threads |-> NoCall] /\ NoCall.op = "none" /\ DOMAIN cache = DOMAIN Keys
    BY DEF Init, NoCall, NoRows
<1> QED BY <1>1, <1>2, <1>3 DEF StoreInv, SetsInTime, RowsAreTheirs, CallsAreTheirs,
        ClearedHaveEnded, RemovesOnlyCorrupt, HitsAreOwnAndYoung, ClearedStayAway

LEMMA StoreStep == StoreInv /\ [Next]_vars => StoreInv'
<1> SUFFICES ASSUME StoreInv, [Next]_vars PROVE StoreInv'
    OBVIOUS
<1>1. CASE UNCHANGED vars
    BY <1>1 DEF vars, StoreInv, SetsInTime, RowsAreTheirs, CallsAreTheirs, ClearedHaveEnded,
                RemovesOnlyCorrupt, HitsAreOwnAndYoung, ClearedStayAway
<1>2. CASE Next
    <2>1. SetsInTime' /\ RowsAreTheirs' /\ CallsAreTheirs' /\ HitsAreOwnAndYoung'
        BY <1>2, SetsStep, RowsStep, CallsStep DEF StoreInv
    <2>2. ClearedHaveEnded' /\ ClearedStayAway'
        BY <1>2, ClearedStep DEF StoreInv
    <2>3. RemovesOnlyCorrupt'
        BY <1>2 DEF StoreInv, RemovesOnlyCorrupt, Next, BeginOpen, TryOpen, Opened,
           RemoveCorrupt, Crash, Corrupts, Tick, Get, BeginSet, EndSet, Clear, ClearOf,
           evict_expired, ReadHits, ReadMisses, CountRows, disk, Idle, InCall
    <2> QED BY <2>1, <2>2, <2>3 DEF StoreInv
<1> QED BY <1>1, <1>2

THEOREM StoreInvariance == Spec => []StoreInv
BY InitStore, StoreStep, PTL DEF Spec

(* A hit is what was stored under that very key, less than a TTL ago.      *)
THEOREM HitsHold == Spec => []HitsAreOwnAndYoung
<1>1. StoreInv => HitsAreOwnAndYoung
    BY DEF StoreInv
<1> QED BY <1>1, StoreInvariance, PTL

(* No set whose end a clear has seen is ever served again, not even by a   *)
(* thread that began it before, or after a restart.                        *)
THEOREM ClearsHold == Spec => []ClearedStayAway
<1>1. StoreInv => ClearedStayAway
    BY DEF StoreInv
<1> QED BY <1>1, StoreInvariance, PTL

(* A row is no older than its own set, nor than a set of its key that had  *)
(* returned before that one began, although the clock is read before the   *)
(* mutex is held.                                                          *)
THEOREM RowsAreKept == Spec => []RowsKeepUp
<1>1. StoreInv => RowsKeepUp
    <2> SUFFICES ASSUME StoreInv, NEW key \in DOMAIN Keys, cache[key] # NoRow,
                        NEW n \in {cache[key].response.set} \cup sets[cache[key].response.set].after,
                        sets[n].key = key
                 PROVE  cache[key].created_at >= sets[n].stamp
        BY DEF RowsKeepUp
    <2>1. PICK own \in DOMAIN sets :
             /\ own = cache[key].response.set
             /\ cache[key] = Row(Response(own), Keys[key], sets[own].stamp)
        BY DEF StoreInv, RowsAreTheirs
    <2>2. cache[key].created_at = sets[own].stamp
        BY <2>1 DEF Row
    <2>3. sets[own] \in SetRecords
        BY DEF StoreInv, SetsInTime
    <2>4. sets[own].stamp \in Nat
        BY <2>3 DEF SetRecords
    <2>5. n = own \/ n \in sets[own].after
        BY <2>1
    <2>6. sets[n].stamp <= sets[own].stamp /\ sets[n].stamp \in Nat
        <3>1. CASE n = own
            BY <2>4, <3>1
        <3>2. CASE n \in sets[own].after
            <4>1. n \in DOMAIN sets /\ sets[n].stamp <= sets[own].stamp
                BY <3>2 DEF StoreInv, SetsInTime
            <4>2. sets[n] \in SetRecords
                BY <4>1 DEF StoreInv, SetsInTime
            <4> QED BY <4>1, <4>2 DEF SetRecords
        <3> QED BY <2>5, <3>1, <3>2
    <2> QED BY <2>2, <2>4, <2>6
<1> QED BY <1>1, StoreInvariance, PTL

(* Neither a start nor a crash loses the rows of a sound file.             *)
THEOREM SoundRowsKept == Spec => SoundRowsSurvive
<1>1. StoreInv /\ [Next]_vars
      => [file = "sound" /\ (process # "up" \/ process' # "up") => cache' = cache]_vars
    <2> SUFFICES ASSUME StoreInv, Next, file = "sound", process # "up" \/ process' # "up"
                 PROVE  cache' = cache
        OBVIOUS
    <2>1. CASE Process
        BY <2>1 DEF Process, BeginOpen, TryOpen, RemoveCorrupt, Crash, Corrupts,
                    StoreInv, RemovesOnlyCorrupt
    <2>2. CASE Tick
        BY <2>2 DEF Tick
    <2>3. ASSUME NEW t \in Threads,
                 Elsewhere(t) \/ EndSet(t) \/ \E key \in DOMAIN Keys : BeginSet(t, key)
          PROVE  process = "up" /\ process' = process
        BY <2>3 DEF Elsewhere, Get, Clear, ClearOf, evict_expired, ReadHits, ReadMisses,
                    CountRows, EndSet, BeginSet, Idle, InCall, disk
    <2> QED BY <2>1, <2>2, <2>3, NextCases
<1> QED BY <1>1, StoreInvariance, PTL DEF Spec, SoundRowsSurvive
=============================================================================
