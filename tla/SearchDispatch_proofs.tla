----------------------- MODULE SearchDispatch_proofs -----------------------
(* Proofs about SearchDispatch: what the cache and the answers hold, and   *)
(* when searches and their tasks end, for any number of requests,          *)
(* providers and offers, and any limits.                                   *)
EXTENDS SearchDispatch, Ranking, TLAPS, FiniteSetTheorems, FunctionTheorems

USE DEF Active, Jobs

(* What the steps of a task leave alone. *)
LEMMA GotoShape ==
    ASSUME NEW r \in Requests, NEW p \in Providers, NEW place,
           DispatchTypes,
           task[<<r, p>>] \in Active,
           place \in Active \cup {"finished"},
           Goto(r, p, place)
    PROVE  /\ task' \in [Jobs -> Active \cup {"none", "finished", "collected"}]
           /\ \A q \in Requests, s \in Providers :
                  task'[<<q, s>>] # "none" => task[<<q, s>>] # "none"
BY DEF Goto, DispatchTypes

LEMMA KeysAreKeys ==
    ASSUME NEW q \in Queries, NEW ps \in SUBSET Providers
    PROVE  KeyOf(q, ps) \in Keys
<1>1. PICK e \in Queries \X SUBSET Providers : e = <<q, ps>>
  OBVIOUS
<1>2. KeyOf(e[1], e[2]) \in Keys /\ e[1] = q /\ e[2] = ps
  BY <1>1 DEF Keys
<1> QED
  BY <1>2

LEMMA QueryShape ==
    ASSUME NEW q \in Queries
    PROVE  /\ q.text \in Seq(Words) /\ Len(q.text) \in Nat \ {0}
           /\ q.freshness \in Seq(Words) /\ Len(q.freshness) \in {0, 1}
           /\ Len(q.freshness) = 1 => q.freshness[1] \notin Providers
           /\ q = [text |-> q.text, freshness |-> q.freshness]
<1>1. q \in [text : Seq(Words) \ {<<>>},
             freshness : {<<>>} \cup {<<tag>> : tag \in Words \ Providers}]
  BY DispatchConstants DEF Queries
<1>2. q.text \in Seq(Words) /\ Len(q.text) \in Nat \ {0}
  BY <1>1
<1>3. q = [text |-> q.text, freshness |-> q.freshness]
  BY <1>1
<1>4. \/ q.freshness = <<>>
      \/ \E tag \in Words \ Providers : q.freshness = <<tag>>
  BY <1>1
<1>5. CASE q.freshness = <<>>
  BY <1>2, <1>3, <1>5
<1>6. ASSUME NEW tag \in Words \ Providers, q.freshness = <<tag>>
      PROVE  /\ q.freshness \in Seq(Words) /\ Len(q.freshness) = 1
             /\ q.freshness[1] \notin Providers
  BY <1>6
<1> QED
  BY <1>2, <1>3, <1>4, <1>5, <1>6

(* Where the three pieces of a key are. *)
LEMMA Pieces ==
    ASSUME NEW S, NEW t \in Seq(S), NEW m \in Seq(S), NEW f \in Seq(S),
           NEW key, key = (t \o m) \o f
    PROVE  /\ Len(key) = Len(t) + Len(m) + Len(f)
           /\ Len(t) > 0 => key[1] = t[1]
           /\ \A i \in 1..Len(m) : key[Len(t) + i] = m[i]
           /\ \A i \in 1..Len(f) : key[Len(t) + Len(m) + i] = f[i]
<1>1. /\ Len(t) \in Nat /\ Len(m) \in Nat /\ Len(f) \in Nat
      /\ t \o m \in Seq(S) /\ Len(t \o m) = Len(t) + Len(m)
      /\ \A i \in 1..Len(t) : (t \o m)[i] = t[i]
      /\ \A i \in 1..Len(m) : (t \o m)[Len(t) + i] = m[i]
  OBVIOUS
<1>2. PICK tm \in Seq(S) : tm = t \o m
  BY <1>1
<1>3. /\ Len(tm \o f) = Len(tm) + Len(f)
      /\ \A i \in 1..Len(tm) : (tm \o f)[i] = tm[i]
      /\ \A i \in 1..Len(f) : (tm \o f)[Len(tm) + i] = f[i]
  OBVIOUS
<1>4. key = tm \o f
  BY <1>2
<1>5. /\ Len(key) = Len(t) + Len(m) + Len(f)
      /\ \A i \in 1..(Len(t) + Len(m)) : key[i] = tm[i]
      /\ \A i \in 1..Len(f) : key[Len(t) + Len(m) + i] = f[i]
  BY <1>1, <1>2, <1>3, <1>4
<1>6. Len(t) > 0 => key[1] = t[1]
  <2>1. SUFFICES ASSUME Len(t) > 0 PROVE key[1] = t[1]
    OBVIOUS
  <2>2. 1 \in 1..(Len(t) + Len(m)) /\ 1 \in 1..Len(t)
    BY <1>1, <2>1
  <2>3. key[1] = tm[1]
    BY <1>5, <2>2
  <2>4. tm[1] = t[1]
    BY <1>1, <1>2, <2>2
  <2> QED
    BY <2>3, <2>4
<1>7. ASSUME NEW i \in 1..Len(m) PROVE key[Len(t) + i] = m[i]
  <2>1. Len(t) + i \in 1..(Len(t) + Len(m))
    BY <1>1
  <2>2. key[Len(t) + i] = tm[Len(t) + i]
    BY <1>5, <2>1
  <2>3. tm[Len(t) + i] = m[i]
    BY <1>1, <1>2
  <2> QED
    BY <2>2, <2>3
<1> QED
  BY <1>2, <1>4, <1>5, <1>6, <1>7

(* The key of a query that mixes with none is that of no other query and   *)
(* no other providers.                                                     *)
LEMMA KeysTellApart ==
    ASSUME NEW q \in Queries, NEW u \in Queries,
           NEW ps \in SUBSET Providers, NEW qs \in SUBSET Providers,
           Unmixed(q), KeyOf(q, ps) = KeyOf(u, qs)
    PROVE  q = u /\ ps = qs
<1>1. PICK m \in Seq(Providers), n \in Seq(Providers) :
          /\ m = SortedNames[ps] /\ n = SortedNames[qs]
          /\ {m[i] : i \in DOMAIN m} = ps
          /\ {n[i] : i \in DOMAIN n} = qs
  <2>1. /\ SortedNames[ps] \in Seq(Providers) /\ SortedNames[qs] \in Seq(Providers)
        /\ {SortedNames[ps][i] : i \in DOMAIN SortedNames[ps]} = ps
        /\ {SortedNames[qs][i] : i \in DOMAIN SortedNames[qs]} = qs
    BY DispatchConstants
  <2> QED
    BY <2>1
<1>2. m \in Seq(Words) /\ n \in Seq(Words)
  <2>1. Providers \subseteq Words
    BY DispatchConstants
  <2> QED
    BY <2>1
<1>3. PICK t \in Seq(Words), f \in Seq(Words) :
          /\ q = [text |-> t, freshness |-> f]
          /\ Len(t) \in Nat \ {0} /\ Len(f) \in {0, 1}
          /\ Len(f) = 1 => f[1] \notin Providers
  BY QueryShape
<1>4. PICK w \in Seq(Words), g \in Seq(Words) :
          /\ u = [text |-> w, freshness |-> g]
          /\ Len(w) \in Nat \ {0} /\ Len(g) \in {0, 1}
          /\ Len(g) = 1 => g[1] \notin Providers
  BY QueryShape
<1>5. PICK key : key = (t \o m) \o f /\ key = (w \o n) \o g
  BY <1>1, <1>3, <1>4 DEF KeyOf, cache_key
<1>6. /\ Len(key) = Len(t) + Len(m) + Len(f)
      /\ key[1] = t[1]
      /\ \A i \in 1..Len(m) : key[Len(t) + i] = m[i]
      /\ \A i \in 1..Len(f) : key[Len(t) + Len(m) + i] = f[i]
  <2>1. Len(t) > 0
    BY <1>3
  <2>2. m \in Seq(Words) /\ key = (t \o m) \o f
    BY <1>2, <1>5
  <2> QED
    BY <2>1, <2>2, Pieces, SMTT(60)
<1>7. /\ Len(key) = Len(w) + Len(n) + Len(g)
      /\ key[1] = w[1]
      /\ \A i \in 1..Len(n) : key[Len(w) + i] = n[i]
      /\ \A i \in 1..Len(g) : key[Len(w) + Len(n) + i] = g[i]
  <2>1. Len(w) > 0
    BY <1>4
  <2>2. n \in Seq(Words) /\ key = (w \o n) \o g
    BY <1>2, <1>5
  <2> QED
    BY <2>1, <2>2, Pieces, SMTT(60)
<1>8. t = w
  <2>1. ~Mix(q, u)
    BY DEF Unmixed
  <2>2. t[1] = w[1] /\ q.text = t /\ u.text = w
    BY <1>3, <1>4, <1>6, <1>7
  <2> QED
    BY <2>1, <2>2 DEF Mix
<1>9. Len(m) \in Nat /\ Len(n) \in Nat
  OBVIOUS
<1>10. Len(m) + Len(f) = Len(n) + Len(g)
  <2>1. Len(t) + Len(m) + Len(f) = Len(t) + Len(n) + Len(g)
    BY <1>6, <1>7, <1>8
  <2>2. Len(t) \in Nat /\ Len(f) \in Nat /\ Len(g) \in Nat
    BY <1>3, <1>4
  <2>3. PICK a \in Nat, b \in Nat, c \in Nat, d \in Nat, e \in Nat :
            a = Len(t) /\ b = Len(m) /\ c = Len(f) /\ d = Len(n) /\ e = Len(g)
    BY <1>9, <2>2
  <2>4. a + b + c = a + d + e
    BY <2>1, <2>3
  <2>5. b + c = d + e
    BY <2>4
  <2> QED
    BY <2>3, <2>5
<1>11. /\ \A i \in 1..Len(m) : m[i] \in Providers
       /\ \A i \in 1..Len(n) : n[i] \in Providers
  OBVIOUS
<1>12. Len(f) = Len(g)
  <2>1. CASE Len(f) = 1 /\ Len(g) = 0
    <3>1. Len(n) = Len(m) + 1
      BY <1>9, <1>10, <2>1
    <3>2. key[Len(t) + Len(m) + 1] = f[1] /\ key[Len(w) + Len(n)] = n[Len(n)]
      BY <1>6, <1>7, <1>9, <2>1, <3>1
    <3>3. Len(t) + Len(m) + 1 = Len(w) + Len(n)
      BY <1>3, <1>8, <1>9, <3>1
    <3>4. n[Len(n)] \in Providers
      BY <1>9, <1>11, <3>1
    <3> QED
      BY <1>3, <2>1, <3>2, <3>3, <3>4
  <2>2. CASE Len(g) = 1 /\ Len(f) = 0
    <3>1. Len(m) = Len(n) + 1
      BY <1>9, <1>10, <2>2
    <3>2. key[Len(w) + Len(n) + 1] = g[1] /\ key[Len(t) + Len(m)] = m[Len(m)]
      BY <1>6, <1>7, <1>9, <2>2, <3>1
    <3>3. Len(w) + Len(n) + 1 = Len(t) + Len(m)
      BY <1>3, <1>8, <1>9, <3>1
    <3>4. m[Len(m)] \in Providers
      BY <1>9, <1>11, <3>1
    <3> QED
      BY <1>4, <2>2, <3>2, <3>3, <3>4
  <2> QED
    BY <1>3, <1>4, <2>1, <2>2
<1>13. Len(m) = Len(n)
  BY <1>3, <1>9, <1>10, <1>12
<1>14. \A i \in 1..Len(m) : m[i] = n[i]
  BY <1>6, <1>7, <1>8, <1>13
<1>15. m = n
  BY <1>13, <1>14
<1>16. \A i \in 1..Len(f) : f[i] = g[i]
  BY <1>6, <1>7, <1>8, <1>12, <1>13
<1>17. f = g
  BY <1>12, <1>16
<1> QED
  BY <1>1, <1>3, <1>4, <1>8, <1>15, <1>17

(* A row that is found is there; its response is what its key says.        *)
LEMMA FoundRow ==
    ASSUME DispatchTypes, RowsMatchKeys,
           NEW o \in Offers, NEW ps \in SUBSET Providers,
           TRUE \in Found(KeyOf(o.query, ps))
    PROVE  LET response == CacheGet(cache, KeyOf(o.query, ps)) IN
           /\ response \in Responses
           /\ Unmixed(o.query) =>
                 /\ response.providers_used = ps
                 /\ \A x \in response.results : x.query = o.query /\ x.provider \in ps
<1> DEFINE key == KeyOf(o.query, ps)
<1>1. key \in Keys /\ o.query \in Queries
  BY KeysAreKeys DEF Queries
<1>2. Unmixed(o.query) /\ cache[key] # NoRow =>
         /\ cache[key].response.providers_used = ps
         /\ \A x \in cache[key].response.results : x.query = o.query /\ x.provider \in ps
  BY <1>1 DEF RowsMatchKeys
<1> HIDE DEF key
<1>3. Holds(cache, key, now)
  BY Zenon DEF Found, key
<1>4. cache[key] # NoRow
  BY <1>3 DEF Holds, Fresh
<1>5. cache[key] \in Rows
  BY <1>1, <1>4 DEF DispatchTypes
<1>6. cache[key].response \in Responses
  BY <1>5 DEF Rows
<1>7. /\ CacheGet(cache, key) \in Responses
      /\ CacheGet(cache, key).providers_used = cache[key].response.providers_used
      /\ CacheGet(cache, key).results = cache[key].response.results
  BY <1>6 DEF CacheGet, Responses
<1> QED
  BY <1>2, <1>4, <1>7 DEF key

(* A merged answer: its contributors were chosen, its results are theirs. *)
LEMMA MergedShape ==
    ASSUME DispatchTypes, Begun, OutMatches,
           NEW r \in Requests, pc[r] = "waiting",
           NEW response \in MergedResponses(r)
    PROVE  /\ response \in Responses
           /\ response.cache_hit = FALSE
           /\ Unmixed(request[r].query) =>
                 /\ response.providers_used \subseteq chosen[r]
                 /\ \A x \in response.results :
                        x.query = request[r].query /\ x.provider \in response.providers_used
<1> DEFINE used == UNION {out[<<r, p>>].providers_used : p \in Collected(r)}
           all  == UNION {out[<<r, p>>].results : p \in Collected(r)}
<1>1. PICK top \in SUBSET all : response = Response(used, top)
  BY DEF MergedResponses
<1>2. ASSUME NEW p \in Collected(r)
      PROVE  /\ p \in Providers
             /\ p \in chosen[r]
             /\ out[<<r, p>>] \in Responses
             /\ Unmixed(request[r].query) =>
                   /\ out[<<r, p>>].providers_used = {p}
                   /\ \A x \in out[<<r, p>>].results :
                          x.query = request[r].query /\ x.provider = p
  <2>1. /\ p \in Providers
        /\ task[<<r, p>>] = "collected"
        /\ out[<<r, p>>] # NoResponse
    BY <1>2 DEF Collected
  <2>2. <<r, p>> \in Jobs
    BY <2>1
  <2> QED
    BY <2>1, <2>2 DEF DispatchTypes, Begun, OutMatches
<1>3. used \subseteq Providers
  <2>1. SUFFICES ASSUME NEW p \in Collected(r), NEW n \in out[<<r, p>>].providers_used
                 PROVE  n \in Providers
    OBVIOUS
  <2> QED
    BY <1>2 DEF Responses
<1>4. all \subseteq Results
  <2>1. SUFFICES ASSUME NEW p \in Collected(r), NEW x \in out[<<r, p>>].results
                 PROVE  x \in Results
    OBVIOUS
  <2> QED
    BY <1>2 DEF Responses
<1>5. ASSUME Unmixed(request[r].query)
      PROVE  /\ used \subseteq chosen[r]
             /\ \A x \in all : x.query = request[r].query /\ x.provider \in used
  <2>1. ASSUME NEW n \in used PROVE n \in chosen[r]
    <3>1. PICK p \in Collected(r) : n \in out[<<r, p>>].providers_used
      BY <2>1
    <3> QED
      BY <1>2, <1>5, <3>1
  <2>2. ASSUME NEW p \in Collected(r), NEW x \in out[<<r, p>>].results
        PROVE  x.query = request[r].query /\ x.provider \in used
    <3>1. x.provider = p /\ x.query = request[r].query
      BY <1>2, <1>5, <2>2
    <3>2. p \in used
      BY <1>2, <1>5
    <3> QED
      BY <3>1, <3>2
  <2> HIDE DEF used
  <2> QED
    BY <2>1, <2>2
<1> HIDE DEF used, all
<1>6. /\ response = [providers_used |-> used, results |-> top, cache_hit |-> FALSE]
      /\ top \subseteq Results
  BY <1>1, <1>4 DEF Response
<1> QED
  BY <1>1, <1>3, <1>4, <1>5, <1>6 DEF Responses

-----------------------------------------------------------------------------
LEMMA InitDispatch == Init => DispatchInv
<1> SUFFICES ASSUME Init PROVE DispatchInv
  OBVIOUS
<1>1. DispatchTypes
  BY DEF Init, DispatchTypes
<1>2. Begun
  BY DEF Init, Begun
<1>3. OutMatches
  BY DEF Init, OutMatches
<1>4. RowsMatchKeys
  BY KeysAreKeys DEF Init, RowsMatchKeys
<1>5. HitIsComplete
  BY DEF Init, HitIsComplete, NoResponse
<1>6. AnswersTheRequest
  BY DEF Init, AnswersTheRequest
<1> QED
  BY <1>1, <1>2, <1>3, <1>4, <1>5, <1>6 DEF DispatchInv

(* Time and health are not what the invariant is about. *)
LEMMA TickDispatch == DispatchInv /\ Tick => DispatchInv'
<1> SUFFICES ASSUME DispatchInv, Tick PROVE DispatchInv'
  OBVIOUS
<1>1. UNCHANGED <<cache, request, pc, chosen, answer, task, out>> /\ now' \in Nat
  BY DEF DispatchInv, DispatchTypes, Tick, dispatchVars, taskVars
<1> QED
  BY <1>1 DEF DispatchInv, DispatchTypes, Begun, OutMatches, RowsMatchKeys,
              HitIsComplete, AnswersTheRequest

(* Clearing rows leaves no row that was not there. *)
LEMMA ClearDispatch == DispatchInv /\ ClearCache => DispatchInv'
<1> SUFFICES ASSUME DispatchInv, ClearCache PROVE DispatchInv'
  OBVIOUS
<1>1. UNCHANGED <<now, request, pc, chosen, answer, task, out>>
  BY DEF ClearCache, dispatchVars, taskVars
<1>2. /\ cache' \in [Keys -> Rows \cup {NoRow}]
      /\ \A k \in Keys : cache'[k] \in {cache[k], NoRow}
  <2>1. cache \in [Keys -> Rows \cup {NoRow}]
    BY DEF DispatchInv, DispatchTypes
  <2>2. \/ cache' = ClearAll(cache)
        \/ \E p \in Clears \ {"all"} : cache' = ClearProvider(cache, p)
    BY DEF ClearCache
  <2> QED
    BY <2>1, <2>2 DEF ClearAll, ClearProvider
<1>3. RowsMatchKeys'
  BY <1>2, KeysAreKeys DEF DispatchInv, RowsMatchKeys
<1> QED
  BY <1>1, <1>2, <1>3 DEF DispatchInv, DispatchTypes, Begun, OutMatches,
                          HitIsComplete, AnswersTheRequest

-----------------------------------------------------------------------------
(* The dispatcher *)

LEMMA ChooseDispatch ==
    ASSUME DispatchInv, NEW r \in Requests, NEW o \in Offers, Choose(r, o)
    PROVE  DispatchInv'
<1>1. /\ UNCHANGED <<now, cache, answer, task, out>>
      /\ pc[r] = "idle"
      /\ request' = [request EXCEPT ![r] = o]
      /\ pc' = [pc EXCEPT ![r] = "chosen"]
  BY DEF Choose, taskVars
<1>2. PICK picked \in SUBSET Eligible(o) : chosen' = [chosen EXCEPT ![r] = picked]
  BY DEF Choose, Candidates
<1>3. Eligible(o) \subseteq Providers
  BY DispatchConstants DEF Eligible
<1>4. /\ \A q \in Requests \ {r} : /\ pc'[q] = pc[q]
                                   /\ request'[q] = request[q]
                                   /\ chosen'[q] = chosen[q]
      /\ pc'[r] = "chosen" /\ request'[r] = o /\ chosen'[r] = picked
  BY <1>1, <1>2 DEF DispatchInv, DispatchTypes
<1>5. /\ answer[r] = NoResponse
      /\ \A p \in Providers : task[<<r, p>>] = "none" /\ out[<<r, p>>] = NoResponse
  BY <1>1 DEF DispatchInv, Begun
<1>6. DispatchTypes'
  BY <1>1, <1>2, <1>3 DEF DispatchInv, DispatchTypes
<1>7. Begun'
  BY <1>1, <1>4, <1>5 DEF DispatchInv, Begun, Eligible
<1>8. OutMatches'
  <2>1. SUFFICES ASSUME NEW q \in Requests, NEW p \in Providers,
                        out'[<<q, p>>] # NoResponse, Unmixed(request'[q].query)
                 PROVE  /\ out'[<<q, p>>].providers_used = {p}
                        /\ \A x \in out'[<<q, p>>].results :
                               x.query = request'[q].query /\ x.provider = p
    BY DEF OutMatches
  <2>2. out[<<q, p>>] # NoResponse /\ q # r
    BY <2>1, <1>1, <1>5
  <2> QED
    BY <2>1, <2>2, <1>1, <1>4 DEF DispatchInv, OutMatches
<1>9. RowsMatchKeys'
  BY <1>1 DEF DispatchInv, RowsMatchKeys
<1>10. HitIsComplete'
  BY <1>1, <1>4, <1>5 DEF DispatchInv, HitIsComplete, NoResponse
<1>11. AnswersTheRequest'
  BY <1>1, <1>4, ZenonT(60) DEF DispatchInv, AnswersTheRequest, Eligible
<1> QED
  BY <1>6, <1>7, <1>8, <1>9, <1>10, <1>11 DEF DispatchInv

(* A request is answered with a response that fits it; its tasks and what  *)
(* they brought may be dropped.                                            *)
LEMMA ReturnDispatch ==
    ASSUME DispatchInv,
           NEW r \in Requests, NEW response \in Responses,
           pc[r] # "idle", Return(r, response),
           UNCHANGED <<now, request, chosen>>,
           Unmixed(request[r].query) =>
               /\ response.cache_hit => response.providers_used = chosen[r]
               /\ \A x \in response.results :
                      x.query = request[r].query /\ x.provider \in Eligible(request[r]),
           cache' \in [Keys -> Rows \cup {NoRow}],
           RowsMatchKeys',
           task' \in [Jobs -> Active \cup {"none", "finished", "collected"}],
           \A j \in Jobs : task'[j] \in {task[j], "none"},
           out' \in [Jobs -> Responses \cup {NoResponse}],
           \A j \in Jobs : out'[j] \in {out[j], NoResponse}
    PROVE  DispatchInv'
<1>1. /\ answer' \in [Requests -> Responses \cup {NoResponse}]
      /\ pc' \in [Requests -> {"idle", "chosen", "waiting", "answered"}]
      /\ \A q \in Requests \ {r} : pc'[q] = pc[q] /\ answer'[q] = answer[q]
      /\ pc'[r] = "answered" /\ answer'[r] = response
  BY DEF Return, DispatchInv, DispatchTypes
<1>2. DispatchTypes'
  BY <1>1 DEF DispatchInv, DispatchTypes
<1>3. Begun'
  <2>1. SUFFICES ASSUME NEW q \in Requests, NEW p \in Providers
                 PROVE  /\ pc'[q] = "idle" =>
                              /\ answer'[q] = NoResponse
                              /\ task'[<<q, p>>] = "none"
                              /\ out'[<<q, p>>] = NoResponse
                        /\ pc'[q] # "idle" =>
                              /\ request'[q] \in Offers
                              /\ chosen'[q] \subseteq Eligible(request'[q])
                        /\ task'[<<q, p>>] # "none" => p \in chosen'[q]
    BY <1>1 DEF DispatchInv, Begun, Eligible
  <2>2. <<q, p>> \in Jobs
    OBVIOUS
  <2> QED
    BY <1>1, <2>2 DEF DispatchInv, Begun
<1>4. OutMatches'
  <2>1. SUFFICES ASSUME NEW q \in Requests, NEW p \in Providers,
                        out'[<<q, p>>] # NoResponse, Unmixed(request'[q].query)
                 PROVE  /\ out'[<<q, p>>].providers_used = {p}
                        /\ \A x \in out'[<<q, p>>].results :
                               x.query = request'[q].query /\ x.provider = p
    BY DEF OutMatches
  <2>2. out'[<<q, p>>] = out[<<q, p>>]
    BY <2>1
  <2> QED
    BY <2>1, <2>2 DEF DispatchInv, OutMatches
<1>5. HitIsComplete'
  BY <1>1 DEF DispatchInv, HitIsComplete
<1>6. AnswersTheRequest'
  BY <1>1, ZenonT(60) DEF DispatchInv, AnswersTheRequest, Eligible
<1> QED
  BY <1>2, <1>3, <1>4, <1>5, <1>6 DEF DispatchInv

LEMMA AnswerEmptyDispatch ==
    ASSUME DispatchInv, NEW r \in Requests, AnswerEmpty(r)
    PROVE  DispatchInv'
<1> DEFINE response == Response({}, {})
<1>1. /\ UNCHANGED <<now, cache, request, chosen, task, out>>
      /\ pc[r] # "idle"
      /\ Return(r, response)
  BY DEF AnswerEmpty, taskVars
<1>2. response \in Responses /\ response.cache_hit = FALSE /\ response.results = {}
  BY DEF Response, Responses
<1> HIDE DEF response
<1>3. RowsMatchKeys'
  BY <1>1 DEF DispatchInv, RowsMatchKeys
<1> QED
  BY <1>1, <1>2, <1>3, ReturnDispatch DEF DispatchInv, DispatchTypes

LEMMA AnswerFromCacheDispatch ==
    ASSUME DispatchInv, NEW r \in Requests, AnswerFromCache(r)
    PROVE  DispatchInv'
<1> DEFINE key      == CombinedKey(r)
           response == CacheGet(cache, key)
<1>1. /\ UNCHANGED <<now, cache, request, chosen, task, out>>
      /\ pc[r] = "chosen"
      /\ TRUE \in Found(key)
      /\ Return(r, response)
  BY DEF AnswerFromCache, taskVars
<1>2. /\ request[r] \in Offers
      /\ chosen[r] \subseteq Eligible(request[r])
      /\ chosen[r] \in SUBSET Providers
  BY <1>1 DEF DispatchInv, Begun, DispatchTypes
<1>3. key = KeyOf(request[r].query, chosen[r])
  BY DEF CombinedKey
<1>4. DispatchTypes /\ RowsMatchKeys
  BY DEF DispatchInv
<1>5. /\ response \in Responses
      /\ Unmixed(request[r].query) =>
            /\ response.providers_used = chosen[r]
            /\ \A x \in response.results : x.query = request[r].query /\ x.provider \in chosen[r]
  <2> HIDE DEF key
  <2> QED
    BY <1>1, <1>2, <1>3, <1>4, FoundRow
<1> HIDE DEF key, response
<1>6. RowsMatchKeys'
  BY <1>1, <1>4 DEF RowsMatchKeys
<1> QED
  BY <1>1, <1>2, <1>4, <1>5, <1>6, ReturnDispatch DEF DispatchTypes

(* Tasks are spawned for chosen providers only. *)
LEMMA SpawnDispatch ==
    ASSUME DispatchInv, NEW r \in Requests, pc[r] # "idle",
           NEW ps \in SUBSET chosen[r], Spawn(r, ps),
           UNCHANGED <<now, cache, request, chosen, answer, out>>,
           pc' \in [Requests -> {"idle", "chosen", "waiting", "answered"}],
           pc'[r] = "waiting",
           \A q \in Requests \ {r} : pc'[q] = pc[q]
    PROVE  DispatchInv'
<1>1. /\ task' \in [Jobs -> Active \cup {"none", "finished", "collected"}]
      /\ \A j \in Jobs : task'[j] # task[j] => j[1] = r /\ j[2] \in ps
  BY DEF Spawn, DispatchInv, DispatchTypes
<1>2. DispatchTypes'
  BY <1>1 DEF DispatchInv, DispatchTypes
<1>3. Begun'
  <2>1. /\ \A q \in Requests : pc'[q] = "idle" => q # r /\ pc[q] = "idle"
        /\ \A q \in Requests : pc'[q] # "idle" => pc[q] # "idle"
    OBVIOUS
  <2>2. ASSUME NEW q \in Requests, NEW p \in Providers, pc'[q] = "idle"
        PROVE  answer'[q] = NoResponse /\ task'[<<q, p>>] = "none" /\ out'[<<q, p>>] = NoResponse
    <3>1. pc[q] = "idle" /\ q # r /\ <<q, p>> \in Jobs
      BY <2>1, <2>2
    <3>2. task'[<<q, p>>] = task[<<q, p>>]
      BY <1>1, <3>1
    <3> QED
      BY <3>1, <3>2 DEF DispatchInv, Begun
  <2>3. ASSUME NEW q \in Requests, NEW p \in Providers, task'[<<q, p>>] # "none"
        PROVE  p \in chosen'[q]
    <3>1. <<q, p>> \in Jobs
      OBVIOUS
    <3>2. CASE task'[<<q, p>>] = task[<<q, p>>]
      BY <2>3, <3>2 DEF DispatchInv, Begun
    <3>3. CASE task'[<<q, p>>] # task[<<q, p>>]
      BY <1>1, <3>1, <3>3
    <3> QED
      BY <3>2, <3>3
  <2>4. ASSUME NEW q \in Requests
        PROVE  /\ pc'[q] = "idle" => answer'[q] = NoResponse
               /\ pc'[q] # "idle" =>
                     /\ request'[q] \in Offers
                     /\ chosen'[q] \subseteq Eligible(request'[q])
    BY <2>1 DEF DispatchInv, Begun, Eligible
  <2> QED
    BY <2>2, <2>3, <2>4 DEF Begun
<1>4. OutMatches'
  <2>1. SUFFICES ASSUME NEW q \in Requests, NEW p \in Providers,
                        out'[<<q, p>>] # NoResponse, Unmixed(request'[q].query)
                 PROVE  /\ out'[<<q, p>>].providers_used = {p}
                        /\ \A x \in out'[<<q, p>>].results :
                               x.query = request'[q].query /\ x.provider = p
    BY DEF OutMatches
  <2>2. out[<<q, p>>] # NoResponse
    BY <2>1
  <2> QED
    BY <2>1, <2>2 DEF DispatchInv, OutMatches
<1>5. RowsMatchKeys'
  BY DEF DispatchInv, RowsMatchKeys
<1>6. HitIsComplete'
  BY DEF DispatchInv, HitIsComplete
<1>7. AnswersTheRequest'
  BY DEF DispatchInv, AnswersTheRequest, Eligible
<1> QED
  BY <1>2, <1>3, <1>4, <1>5, <1>6, <1>7 DEF DispatchInv

LEMMA DispatchDispatch ==
    ASSUME DispatchInv, NEW r \in Requests, Dispatch(r)
    PROVE  DispatchInv'
<1>1. PICK ps \in {chosen[r], {}} : Spawn(r, ps)
  BY DEF Dispatch
<1>2. /\ UNCHANGED <<now, cache, request, chosen, answer, out>>
      /\ pc[r] = "chosen"
      /\ pc' = [pc EXCEPT ![r] = "waiting"]
  BY DEF Dispatch
<1>3. /\ pc' \in [Requests -> {"idle", "chosen", "waiting", "answered"}]
      /\ pc'[r] = "waiting"
      /\ \A q \in Requests \ {r} : pc'[q] = pc[q]
  BY <1>2 DEF DispatchInv, DispatchTypes
<1>4. ps \in SUBSET chosen[r] /\ pc[r] # "idle"
  BY <1>1, <1>2
<1> QED
  BY <1>1, <1>2, <1>3, <1>4, SpawnDispatch

LEMMA NextTierDispatch ==
    ASSUME DispatchInv, NEW r \in Requests, NextTier(r)
    PROVE  DispatchInv'
<1>1. /\ UNCHANGED <<now, cache, request, pc, chosen, answer, out>>
      /\ pc[r] = "waiting"
      /\ Spawn(r, FirstTier(r))
  BY DEF NextTier, dispatchVars
<1>2. FirstTier(r) \in SUBSET chosen[r]
  BY DEF FirstTier, Unstarted
<1>3. pc' \in [Requests -> {"idle", "chosen", "waiting", "answered"}]
  BY <1>1 DEF DispatchInv, DispatchTypes
<1> QED
  BY <1>1, <1>2, <1>3, SpawnDispatch

(* A task moves on: it may bring something back, and it may store a row.   *)
LEMMA TaskDispatch ==
    ASSUME DispatchInv,
           NEW r \in Requests, NEW p \in Providers,
           task[<<r, p>>] # "none",
           now' \in Nat,
           UNCHANGED <<request, pc, chosen, answer>>,
           task' \in [Jobs -> Active \cup {"none", "finished", "collected"}],
           \A q \in Requests, s \in Providers :
               task'[<<q, s>>] # "none" => task[<<q, s>>] # "none",
           NEW response \in Responses,
           Unmixed(request[r].query) =>
               /\ response.providers_used = {p}
               /\ \A x \in response.results : x.query = request[r].query /\ x.provider = p,
           out' \in {out, [out EXCEPT ![<<r, p>>] = response]},
           cache' \in [Keys -> Rows \cup {NoRow}],
           RowsMatchKeys'
    PROVE  DispatchInv'
<1>1. <<r, p>> \in Jobs
  OBVIOUS
<1>2. /\ out' \in [Jobs -> Responses \cup {NoResponse}]
      /\ \A j \in Jobs \ {<<r, p>>} : out'[j] = out[j]
      /\ out'[<<r, p>>] \in {out[<<r, p>>], response}
  <2>1. out \in [Jobs -> Responses \cup {NoResponse}]
    BY DEF DispatchInv, DispatchTypes
  <2>2. CASE out' = out
    BY <2>1, <2>2
  <2>3. CASE out' = [out EXCEPT ![<<r, p>>] = response]
    <3>1. out'[<<r, p>>] = response
      BY <1>1, <2>1, <2>3
    <3>2. \A j \in Jobs \ {<<r, p>>} : out'[j] = out[j]
      BY <2>1, <2>3
    <3>3. out' \in [Jobs -> Responses \cup {NoResponse}]
      BY <2>1, <2>3
    <3> QED
      BY <3>1, <3>2, <3>3
  <2> QED
    BY <2>2, <2>3
<1>3. DispatchTypes'
  BY <1>2 DEF DispatchInv, DispatchTypes
<1>4. pc[r] # "idle"
  BY DEF DispatchInv, Begun
<1>5. Begun'
  <2>1. ASSUME NEW q \in Requests, NEW s \in Providers, pc[q] = "idle"
        PROVE  answer'[q] = NoResponse /\ task'[<<q, s>>] = "none" /\ out'[<<q, s>>] = NoResponse
    <3>1. <<q, s>> \in Jobs \ {<<r, p>>}
      BY <1>4, <2>1
    <3> QED
      BY <1>2, <2>1, <3>1 DEF DispatchInv, Begun
  <2>2. ASSUME NEW q \in Requests
        PROVE  /\ pc'[q] = "idle" => answer'[q] = NoResponse
               /\ pc'[q] # "idle" =>
                     /\ request'[q] \in Offers
                     /\ chosen'[q] \subseteq Eligible(request'[q])
               /\ \A s \in Providers : task'[<<q, s>>] # "none" => s \in chosen'[q]
    BY DEF DispatchInv, Begun, Eligible
  <2> QED
    BY <2>1, <2>2 DEF Begun
<1>6. OutMatches'
  <2>1. SUFFICES ASSUME NEW q \in Requests, NEW s \in Providers,
                        out'[<<q, s>>] # NoResponse, Unmixed(request'[q].query)
                 PROVE  /\ out'[<<q, s>>].providers_used = {s}
                        /\ \A x \in out'[<<q, s>>].results :
                               x.query = request'[q].query /\ x.provider = s
    BY DEF OutMatches
  <2>2. CASE out'[<<q, s>>] = out[<<q, s>>]
    BY <2>1, <2>2 DEF DispatchInv, OutMatches
  <2>3. CASE out'[<<q, s>>] # out[<<q, s>>]
    <3>1. <<q, s>> \in Jobs
      OBVIOUS
    <3>2. <<q, s>> = <<r, p>>
      BY <1>2, <2>3, <3>1
    <3>3. q = r /\ s = p /\ out'[<<q, s>>] = response
      BY <1>2, <2>3, <3>2
    <3> QED
      BY <2>1, <3>3
  <2> QED
    BY <2>2, <2>3
<1>7. HitIsComplete'
  BY DEF DispatchInv, HitIsComplete
<1>8. AnswersTheRequest'
  BY DEF DispatchInv, AnswersTheRequest, Eligible
<1> QED
  BY <1>3, <1>5, <1>6, <1>7, <1>8 DEF DispatchInv

(* A task moves on and touches nothing that is shared. *)
LEMMA QuietDispatch ==
    ASSUME DispatchInv,
           NEW r \in Requests, NEW p \in Providers,
           task[<<r, p>>] # "none",
           UNCHANGED <<now, cache, request, pc, chosen, answer, out>>,
           task' \in [Jobs -> Active \cup {"none", "finished", "collected"}],
           \A q \in Requests, s \in Providers :
               task'[<<q, s>>] # "none" => task[<<q, s>>] # "none"
    PROVE  DispatchInv'
<1> DEFINE response == Response({p}, {})
<1>1. /\ response \in Responses
      /\ response.providers_used = {p}
      /\ response.results = {}
  BY DEF Response, Responses
<1>2. now' \in Nat /\ cache' \in [Keys -> Rows \cup {NoRow}]
  BY DEF DispatchInv, DispatchTypes
<1>3. RowsMatchKeys'
  BY DEF DispatchInv, RowsMatchKeys
<1> HIDE DEF response
<1> QED
  BY <1>1, <1>2, <1>3, TaskDispatch

LEMMA CollectDispatch ==
    ASSUME DispatchInv, NEW r \in Requests, NEW p \in Providers, Collect(r, p)
    PROVE  DispatchInv'
<1>1. /\ UNCHANGED <<now, cache, request, pc, chosen, answer, out>>
      /\ task[<<r, p>>] = "finished"
      /\ task' = [task EXCEPT ![<<r, p>>] = "collected"]
  BY DEF Collect, dispatchVars
<1>2. /\ task' \in [Jobs -> Active \cup {"none", "finished", "collected"}]
      /\ \A q \in Requests, s \in Providers :
             task'[<<q, s>>] # "none" => task[<<q, s>>] # "none"
  BY <1>1 DEF DispatchInv, DispatchTypes
<1> QED
  BY <1>1, <1>2, QuietDispatch

(* A row that is what its key says keeps the cache what its keys say. *)
LEMMA StoreKeepsRows ==
    ASSUME DispatchTypes, RowsMatchKeys,
           NEW o \in Offers, NEW ps \in SUBSET Providers, NEW response \in Responses,
           Unmixed(o.query) =>
               /\ response.providers_used = ps
               /\ \A x \in response.results : x.query = o.query /\ x.provider \in ps,
           NEW stored \in BOOLEAN,
           cache' = IF stored
                    THEN CacheSet(cache, KeyOf(o.query, ps), response, ps, now)
                    ELSE cache
    PROVE  /\ cache' \in [Keys -> Rows \cup {NoRow}]
           /\ RowsMatchKeys'
<1> DEFINE row == Row(response, ps, now)
           key == KeyOf(o.query, ps)
<1>1. row \in Rows /\ row.response = response
  BY DEF Row, Rows, DispatchTypes
<1>2. key \in Keys /\ o.query \in Queries
  BY KeysAreKeys DEF Queries
<1>3. CASE stored
  <2>1. cache' = [cache EXCEPT ![key] = row]
    BY <1>3 DEF CacheSet
  <2> HIDE DEF row, key
  <2>2. /\ cache' \in [Keys -> Rows \cup {NoRow}]
        /\ cache'[key] = row
        /\ \A k \in Keys \ {key} : cache'[k] = cache[k]
    BY <1>1, <1>2, <2>1 DEF DispatchTypes
  <2>3. ASSUME NEW q \in Queries, NEW qs \in SUBSET Providers,
               Unmixed(q), cache'[KeyOf(q, qs)] # NoRow
        PROVE  /\ cache'[KeyOf(q, qs)].response.providers_used = qs
               /\ \A x \in cache'[KeyOf(q, qs)].response.results : x.query = q /\ x.provider \in qs
    <3>1. CASE KeyOf(q, qs) = key
      <4>1. q = o.query /\ qs = ps
        BY <1>2, <2>3, <3>1, KeysTellApart DEF key
      <4> QED
        BY <1>1, <2>2, <2>3, <3>1, <4>1
    <3>2. CASE KeyOf(q, qs) # key
      <4>1. KeyOf(q, qs) \in Keys
        BY KeysAreKeys
      <4>2. cache'[KeyOf(q, qs)] = cache[KeyOf(q, qs)]
        BY <2>2, <3>2, <4>1
      <4> QED
        BY <2>3, <4>2 DEF RowsMatchKeys
    <3> QED
      BY <3>1, <3>2
  <2>4. RowsMatchKeys'
    <3>1. SUFFICES ASSUME NEW q \in Queries, NEW qs \in SUBSET Providers,
                          Unmixed(q), cache'[KeyOf(q, qs)] # NoRow
          PROVE  /\ cache'[KeyOf(q, qs)].response.providers_used = qs
                 /\ \A x \in cache'[KeyOf(q, qs)].response.results :
                        x.query = q /\ x.provider \in qs
      BY DEF RowsMatchKeys
    <3> QED
      BY <2>3, <3>1
  <2> QED
    BY <2>2, <2>4
<1>4. CASE ~stored
  <2>1. cache' = cache
    BY <1>4
  <2>2. RowsMatchKeys'
    BY <2>1 DEF RowsMatchKeys
  <2> QED
    BY <2>1, <2>2 DEF DispatchTypes
<1> QED
  BY <1>3, <1>4

(* Both modes end alike: merge, store under the contributors, return, drop *)
(* the tasks.                                                              *)
LEMMA FinishDispatch ==
    ASSUME DispatchInv, NEW r \in Requests,
           pc[r] = "waiting",
           StoreAndReturn(r), DropTasks(r),
           UNCHANGED <<now, request, chosen>>
    PROVE  DispatchInv'
<1>1. PICK response \in MergedResponses(r), stored \in Stores :
          /\ cache' = IF stored
                      THEN CacheSet(cache, KeyOf(request[r].query, response.providers_used),
                                    response, response.providers_used, now)
                      ELSE cache
          /\ Return(r, response)
  BY DEF StoreAndReturn
<1>2. DispatchTypes /\ Begun /\ OutMatches /\ RowsMatchKeys
  BY DEF DispatchInv
<1>3. /\ response \in Responses
      /\ response.cache_hit = FALSE
      /\ Unmixed(request[r].query) =>
            /\ response.providers_used \subseteq chosen[r]
            /\ \A x \in response.results :
                   x.query = request[r].query /\ x.provider \in response.providers_used
  BY <1>2, MergedShape
<1>4. /\ request[r] \in Offers
      /\ chosen[r] \subseteq Eligible(request[r])
      /\ response.providers_used \in SUBSET Providers
  BY <1>2, <1>3 DEF Begun, Responses
<1>6. stored \in BOOLEAN
  BY DEF Stores
<1>8. cache' \in [Keys -> Rows \cup {NoRow}] /\ RowsMatchKeys'
  BY <1>1, <1>2, <1>3, <1>4, <1>6, StoreKeepsRows
<1>9. PICK mine \in SUBSET Jobs :
          /\ task' = [j \in Jobs |-> IF j \in mine THEN "none" ELSE task[j]]
          /\ out' = [j \in Jobs |-> IF j \in mine THEN NoResponse ELSE out[j]]
  <2>1. PICK polled \in SUBSET Providers :
            LET mine == {j \in Jobs : j[1] = r} \ {<<r, p>> : p \in polled}
            IN  /\ task' = [j \in Jobs |-> IF j \in mine THEN "none" ELSE task[j]]
                /\ out' = [j \in Jobs |-> IF j \in mine THEN NoResponse ELSE out[j]]
    BY DEF DropTasks
  <2> WITNESS {j \in Jobs : j[1] = r} \ {<<r, p>> : p \in polled} \in SUBSET Jobs
  <2> QED
    BY <2>1
<1>10. /\ task' \in [Jobs -> Active \cup {"none", "finished", "collected"}]
       /\ \A j \in Jobs : task'[j] \in {task[j], "none"}
       /\ out' \in [Jobs -> Responses \cup {NoResponse}]
       /\ \A j \in Jobs : out'[j] \in {out[j], NoResponse}
  BY <1>2, <1>9 DEF DispatchTypes
<1>11. Unmixed(request[r].query) =>
           \A x \in response.results :
               x.query = request[r].query /\ x.provider \in Eligible(request[r])
  BY <1>3, <1>4
<1>12. pc[r] # "idle"
  OBVIOUS
<1> QED
  BY <1>1, <1>3, <1>8, <1>10, <1>11, <1>12, ReturnDispatch

LEMMA DispatcherDispatch ==
    ASSUME DispatchInv, NEW r \in Requests, Dispatcher(r)
    PROVE  DispatchInv'
<1>1. CASE AnswerEmpty(r)
  BY <1>1, AnswerEmptyDispatch
<1>2. CASE AnswerFromCache(r)
  BY <1>2, AnswerFromCacheDispatch
<1>3. CASE Dispatch(r)
  BY <1>3, DispatchDispatch
<1>4. CASE NextTier(r)
  BY <1>4, NextTierDispatch
<1>5. CASE \E p \in Providers : Collect(r, p)
  BY <1>5, CollectDispatch
<1>6. CASE FinishConcurrent(r)
  <2>1. /\ pc[r] = "waiting"
        /\ StoreAndReturn(r) /\ DropTasks(r)
        /\ UNCHANGED <<now, request, chosen>>
    BY <1>6 DEF FinishConcurrent
  <2> QED
    BY <2>1, FinishDispatch
<1>7. CASE FinishTiered(r)
  <2>1. /\ pc[r] = "waiting"
        /\ StoreAndReturn(r) /\ DropTasks(r)
        /\ UNCHANGED <<now, request, chosen>>
    BY <1>7 DEF FinishTiered
  <2> QED
    BY <2>1, FinishDispatch
<1> QED
  BY <1>1, <1>2, <1>3, <1>4, <1>5, <1>6, <1>7 DEF Dispatcher

-----------------------------------------------------------------------------
(* The tasks *)

(* A task exists only for a request that has begun.                        *)
LEMMA OwnOffer ==
    ASSUME DispatchInv, NEW r \in Requests, NEW p \in Providers,
           task[<<r, p>>] # "none"
    PROVE  request[r] \in Offers
BY DEF DispatchInv, Begun

LEMMA PipelineHitDispatch ==
    ASSUME DispatchInv, NEW r \in Requests, NEW p \in Providers, PipelineHit(r, p)
    PROVE  DispatchInv'
<1> DEFINE key      == ProviderKey(r, p)
           response == CacheGet(cache, key)
<1>1. /\ UNCHANGED <<now, cache, request, pc, chosen, answer>>
      /\ task[<<r, p>>] = "lookup"
      /\ TRUE \in Found(key)
      /\ out' = [out EXCEPT ![<<r, p>>] = response]
      /\ Goto(r, p, "succeeded")
  BY DEF PipelineHit, dispatchVars
<1>2. DispatchTypes /\ RowsMatchKeys
  BY DEF DispatchInv
<1>3. /\ request[r] \in Offers
      /\ key = KeyOf(request[r].query, {p})
  BY <1>1, OwnOffer DEF ProviderKey
<1>4. /\ response \in Responses
      /\ Unmixed(request[r].query) =>
            /\ response.providers_used = {p}
            /\ \A x \in response.results : x.query = request[r].query /\ x.provider \in {p}
  <2>1. {p} \in SUBSET Providers
    OBVIOUS
  <2> HIDE DEF key
  <2> QED
    BY <1>1, <1>2, <1>3, <2>1, FoundRow
<1> HIDE DEF key, response
<1>5. Unmixed(request[r].query) =>
         /\ response.providers_used = {p}
         /\ \A x \in response.results : x.query = request[r].query /\ x.provider = p
  BY <1>4
<1>6. /\ task' \in [Jobs -> Active \cup {"none", "finished", "collected"}]
      /\ \A q \in Requests, s \in Providers :
             task'[<<q, s>>] # "none" => task[<<q, s>>] # "none"
  BY <1>1, <1>2, GotoShape
<1>7. now' \in Nat /\ cache' \in [Keys -> Rows \cup {NoRow}]
  BY <1>1, <1>2 DEF DispatchTypes
<1>8. RowsMatchKeys'
  BY <1>1, <1>2 DEF RowsMatchKeys
<1>9. out' \in {out, [out EXCEPT ![<<r, p>>] = response]}
  BY <1>1
<1>10. task[<<r, p>>] # "none"
  BY <1>1
<1> QED
  BY <1>1, <1>4, <1>5, <1>6, <1>7, <1>8, <1>9, <1>10, TaskDispatch

LEMMA RepliesDispatch ==
    ASSUME DispatchInv, NEW r \in Requests, NEW p \in Providers, Replies(r, p)
    PROVE  DispatchInv'
<1> DEFINE key == ProviderKey(r, p)
<1>1. PICK n \in Yields, stored \in Stores :
          LET response == Response({p}, ResultsOf(p, request[r], n, now)) IN
          /\ out' = [out EXCEPT ![<<r, p>>] = response]
          /\ cache' = IF stored
                      THEN CacheSet(cache, key, response, {p}, now)
                      ELSE cache
  BY DEF Replies
<1> DEFINE response == Response({p}, ResultsOf(p, request[r], n, now))
<1>2. /\ UNCHANGED <<now, request, pc, chosen, answer>>
      /\ task[<<r, p>>] = "calling"
      /\ Goto(r, p, "succeeded")
  BY DEF Replies, dispatchVars
<1>3. DispatchTypes /\ RowsMatchKeys
  BY DEF DispatchInv
<1>4. task[<<r, p>>] # "none"
  BY <1>2
<1>5. request[r] \in Offers /\ key = KeyOf(request[r].query, {p})
  BY <1>4, OwnOffer DEF ProviderKey
<1>6. /\ out' = [out EXCEPT ![<<r, p>>] = response]
      /\ cache' = IF stored THEN CacheSet(cache, key, response, {p}, now) ELSE cache
  BY <1>1
<1>7. \A x \in ResultsOf(p, request[r], n, now) :
          x \in Results /\ x.query = request[r].query /\ x.provider = p
  <2>1. SUFFICES ASSUME NEW i \in 1..n
                 PROVE  LET x == [provider |-> p, query |-> request[r].query,
                                  language |-> request[r].language, at |-> now, nr |-> i]
                        IN  x \in Results /\ x.query = request[r].query /\ x.provider = p
    BY DEF ResultsOf
  <2>2. n \in Nat /\ now \in Nat
    BY <1>3, DispatchConstants DEF DispatchTypes
  <2>3. request[r].query \in Queries /\ request[r].language \in Languages
    BY <1>5 DEF Queries, Languages
  <2> QED
    BY <2>2, <2>3 DEF Results
<1>8. /\ response \in Responses
      /\ response.providers_used = {p}
      /\ \A x \in response.results : x.query = request[r].query /\ x.provider = p
  BY <1>7 DEF Response, Responses
<1> HIDE DEF key, response
<1>9. cache' \in [Keys -> Rows \cup {NoRow}] /\ RowsMatchKeys'
  <2>1. stored \in BOOLEAN
    BY DEF Stores
  <2>2. /\ {p} \in SUBSET Providers
        /\ \A x \in response.results : x.query = request[r].query /\ x.provider \in {p}
    BY <1>8
  <2> QED
    BY <1>3, <1>5, <1>6, <1>8, <2>1, <2>2, StoreKeepsRows
<1>10. /\ task' \in [Jobs -> Active \cup {"none", "finished", "collected"}]
       /\ \A q \in Requests, s \in Providers :
              task'[<<q, s>>] # "none" => task[<<q, s>>] # "none"
  BY <1>2, <1>3, GotoShape
<1>11. now' \in Nat
  BY <1>2, <1>3 DEF DispatchTypes
<1>12. out' \in {out, [out EXCEPT ![<<r, p>>] = response]}
  BY <1>6
<1> QED
  BY <1>2, <1>4, <1>8, <1>9, <1>10, <1>11, <1>12, TaskDispatch, ZenonT(60)

LEMMA WorkerDispatch ==
    ASSUME DispatchInv, NEW r \in Requests, NEW p \in Providers, Worker(r, p)
    PROVE  DispatchInv'
<1>1. CASE PipelineHit(r, p)
  BY <1>1, PipelineHitDispatch
<1>2. CASE Replies(r, p)
  BY <1>2, RepliesDispatch
<1>3. CASE \/ PipelineMiss(r, p) \/ Acquired(r, p) \/ BacksOff(r, p)
           \/ Retries(r, p) \/ Fails(r, p) \/ Panics(r, p)
           \/ ReportSuccess(r, p) \/ ReportFailure(r, p)
  <2>1. PICK place \in Active \cup {"finished"} :
            /\ task[<<r, p>>] \in Active
            /\ Goto(r, p, place)
            /\ UNCHANGED <<now, cache, request, pc, chosen, answer, out>>
    BY <1>3 DEF PipelineMiss, Acquired, BacksOff, Retries, Fails, Panics,
                ReportSuccess, ReportFailure, dispatchVars
  <2>2. DispatchTypes
    BY DEF DispatchInv
  <2>3. /\ task' \in [Jobs -> Active \cup {"none", "finished", "collected"}]
        /\ \A q \in Requests, s \in Providers :
               task'[<<q, s>>] # "none" => task[<<q, s>>] # "none"
    BY <2>1, <2>2, GotoShape
  <2>4. task[<<r, p>>] # "none"
    BY <2>1
  <2> QED
    BY <2>1, <2>3, <2>4, QuietDispatch
<1> QED
  BY <1>1, <1>2, <1>3 DEF Worker

-----------------------------------------------------------------------------
LEMMA NextDispatch == DispatchInv /\ [Next]_vars => DispatchInv'
<1> SUFFICES ASSUME DispatchInv, [Next]_vars PROVE DispatchInv'
  OBVIOUS
<1>1. CASE Tick
  BY <1>1, TickDispatch
<1>2. CASE ClearCache
  BY <1>2, ClearDispatch
<1>3. ASSUME NEW r \in Requests, NEW o \in Offers, Choose(r, o) PROVE DispatchInv'
  BY <1>3, ChooseDispatch
<1>4. ASSUME NEW r \in Requests, Dispatcher(r) PROVE DispatchInv'
  BY <1>4, DispatcherDispatch
<1>5. ASSUME NEW r \in Requests, NEW p \in Providers, Worker(r, p) PROVE DispatchInv'
  BY <1>5, WorkerDispatch
<1>6. CASE UNCHANGED vars
  <2>1. UNCHANGED <<now, cache, request, pc, chosen, answer, task, out>>
    BY <1>6 DEF vars, dispatchVars, taskVars
  <2> QED
    BY <2>1 DEF DispatchInv, DispatchTypes, Begun, OutMatches, RowsMatchKeys,
                HitIsComplete, AnswersTheRequest
<1> QED
  BY <1>1, <1>2, <1>3, <1>4, <1>5, <1>6 DEF Next

(* The invariant of the search path: the shapes of its state, and why what *)
(* is cached and answered is what it claims to be.                         *)
THEOREM DispatchInvariance == Spec => []DispatchInv
<1>1. Init => DispatchInv
  BY InitDispatch
<1>2. DispatchInv /\ [Next]_vars => DispatchInv'
  BY NextDispatch
<1> QED
  BY <1>1, <1>2, PTL DEF Spec

(* A cache row holds the results of exactly the providers its key names,   *)
(* for its key's query, however searches, failures, timeouts and clears    *)
(* interleave: a partial answer is never stored as the full one.           *)
THEOREM RowsAreTheirKeys == Spec => []RowsMatchKeys
<1>1. DispatchInv => RowsMatchKeys
  BY DEF DispatchInv
<1> QED
  BY <1>1, DispatchInvariance, PTL

(* A search answered from the cache is answered by every provider it would *)
(* have asked.                                                             *)
THEOREM HitsAreComplete == Spec => []HitIsComplete
<1>1. DispatchInv => HitIsComplete
  BY DEF DispatchInv
<1> QED
  BY <1>1, DispatchInvariance, PTL

(* An answer, fresh or cached, is about the query asked and comes from     *)
(* providers the request allows.                                           *)
THEOREM AnswersFit == Spec => []AnswersTheRequest
<1>1. DispatchInv => AnswersTheRequest
  BY DEF DispatchInv
<1> QED
  BY <1>1, DispatchInvariance, PTL

-----------------------------------------------------------------------------
(* When searches end and what work they leave: WorkInv.                    *)

(* A down provider's time stamp is that of its last failure; a success or  *)
(* a recovery brings it up.                                                *)
LEMMA HealthMoves ==
    ASSUME NEW h, NEW t \in Nat
    PROVE  /\ RecordSuccess(h, t).status # "Unhealthy"
           /\ RecordFailure(h, t).status = "Unhealthy" =>
                 \/ RecordFailure(h, t).unhealthy_since = t
                 \/ /\ h.status = "Unhealthy"
                    /\ RecordFailure(h, t).unhealthy_since = h.unhealthy_since
           /\ CheckRecovery(h, t) = h \/ CheckRecovery(h, t).status # "Unhealthy"
<1>1. RecordSuccess(h, t).status # "Unhealthy"
  BY DEF RecordSuccess
<1>2. RecordFailure(h, t).status = "Unhealthy" =>
         \/ RecordFailure(h, t).unhealthy_since = t
         \/ /\ h.status = "Unhealthy"
            /\ RecordFailure(h, t).unhealthy_since = h.unhealthy_since
  BY DEF RecordFailure
<1>3. CheckRecovery(h, t) = h \/ CheckRecovery(h, t).status # "Unhealthy"
  BY DEF CheckRecovery
<1> QED BY <1>1, <1>2, <1>3

LEMMA InitWork == Init => WorkInv
<1> SUFFICES ASSUME Init PROVE WorkInv
  OBVIOUS
<1>1. NoTasksYet
  BY DEF Init, NoTasksYet
<1>2. DeadlinesAhead
  BY DEF Init, DeadlinesAhead
<1>3. ConcurrentInTime
  BY DEF Init, ConcurrentInTime
<1>4. DownSinceChosen
  <2>1. health = [p \in Providers |-> NewHealth]
    BY DEF Init
  <2>2. NewHealth.status = "Healthy"
    BY DEF NewHealth
  <2> QED
    BY <2>1, <2>2 DEF DownSinceChosen
<1>5. NoOrphans /\ TiersInOrder
  BY DEF Init, NoOrphans, TiersInOrder
<1> QED
  BY <1>1, <1>2, <1>3, <1>4, <1>5 DEF WorkInv

(* Time moves only when every search can wait for it.                      *)
LEMMA TickWork == DispatchTypes /\ WorkInv /\ Tick => WorkInv'
<1> SUFFICES ASSUME DispatchTypes, WorkInv, Tick PROVE WorkInv'
  OBVIOUS
<1>1. /\ UNCHANGED <<health, request, pc, chosen, deadline, task, last>>
      /\ now' = now + 1 /\ now \in Nat
      /\ \A r \in Requests : MustWait(r)
  BY DEF Tick, dispatchVars, taskVars, DispatchTypes
<1>2. NoTasksYet' /\ DownSinceChosen' /\ NoOrphans' /\ TiersInOrder'
  BY <1>1 DEF WorkInv, NoTasksYet, DownSinceChosen, NoOrphans, TiersInOrder
<1>3. DeadlinesAhead'
  BY <1>1, DispatchConstants DEF WorkInv, DeadlinesAhead
<1>4. ASSUME NEW r \in Requests, pc[r] \in {"chosen", "waiting"}, request[r].mode = "concurrent"
      PROVE  now + 1 <= deadline[r]
  <2>1. ~JoinOver(r)
    BY <1>1, <1>4 DEF MustWait
  <2>2. ~(now >= deadline[r]) /\ deadline[r] \in Nat
    BY <2>1, <1>4 DEF JoinOver, WorkInv, DeadlinesAhead
  <2> QED
    BY <1>1, <2>2
<1>5. ConcurrentInTime'
  BY <1>1, <1>4 DEF ConcurrentInTime
<1> QED
  BY <1>2, <1>3, <1>5 DEF WorkInv

(* A request asks providers that are up at that moment.                    *)
LEMMA ChooseWork ==
    ASSUME DispatchTypes, WorkInv, NEW r \in Requests, NEW o \in Offers, Choose(r, o)
    PROVE  WorkInv'
<1> DEFINE recovered == [p \in Providers |-> CheckRecovery(health[p], now)]
<1>1. /\ pc[r] = "idle"
      /\ request' = [request EXCEPT ![r] = o]
      /\ health' = recovered
      /\ chosen' = [chosen EXCEPT ![r] = {p \in Eligible(o) : IsHealthy(recovered[p])}]
      /\ deadline' = [deadline EXCEPT ![r] = now + Timeout]
      /\ pc' = [pc EXCEPT ![r] = "chosen"]
      /\ UNCHANGED <<now, task, last>>
  BY DEF Choose, Candidates, taskVars
<1>2. now \in Nat /\ Timeout \in Nat
  BY DispatchConstants DEF DispatchTypes
<1>3. \A p \in Providers :
         recovered[p] = health[p] \/ recovered[p].status # "Unhealthy"
  BY <1>2, HealthMoves
<1>4. \A p \in Eligible(o) : IsHealthy(recovered[p]) => recovered[p].status # "Unhealthy"
  BY DEF IsHealthy
<1>5. DOMAIN recovered = Providers
  OBVIOUS
<1> HIDE DEF recovered
<1>6. /\ pc'[r] = "chosen" /\ request'[r] = o /\ deadline'[r] = now + Timeout
      /\ chosen'[r] = {p \in Eligible(o) : IsHealthy(recovered[p])}
      /\ \A q \in Requests \ {r} : /\ pc'[q] = pc[q]
                                   /\ request'[q] = request[q]
                                   /\ chosen'[q] = chosen[q]
                                   /\ deadline'[q] = deadline[q]
  BY <1>1 DEF DispatchTypes, WorkInv, DeadlinesAhead
<1>7. NoTasksYet'
  BY <1>1, <1>6 DEF WorkInv, NoTasksYet
<1>8. DeadlinesAhead'
  BY <1>1, <1>2, <1>6 DEF WorkInv, DeadlinesAhead
<1>9. ConcurrentInTime'
  BY <1>1, <1>2, <1>6 DEF WorkInv, ConcurrentInTime
<1>10. DownSinceChosen'
  <2>1. ASSUME NEW p \in Providers, health'[p].status = "Unhealthy"
        PROVE  /\ health'[p] = health[p]
               /\ p \notin chosen'[r]
    BY <2>1, <1>1, <1>3, <1>4, <1>6
  <2>2. ASSUME NEW p \in Providers, health'[p].status = "Unhealthy",
               NEW q \in Requests, pc'[q] # "idle", p \in chosen'[q]
        PROVE  deadline'[q] - Timeout <= health'[p].unhealthy_since
    <3>1. q # r
      BY <2>1, <2>2
    <3> QED
      BY <2>1, <2>2, <3>1, <1>6 DEF WorkInv, DownSinceChosen
  <2>3. \A p \in Providers : health'[p].status = "Unhealthy" => health'[p].unhealthy_since \in Nat
    BY <2>1 DEF WorkInv, DownSinceChosen
  <2>4. DOMAIN health' = Providers
    BY <1>1, <1>5
  <2> QED
    BY <2>2, <2>3, <2>4 DEF DownSinceChosen
<1>11. NoOrphans'
  BY <1>1, <1>6 DEF WorkInv, NoOrphans
<1>12. TiersInOrder'
  BY <1>1, <1>6 DEF WorkInv, TiersInOrder
<1> QED
  BY <1>7, <1>8, <1>9, <1>10, <1>11, <1>12 DEF WorkInv

(* A search that returns keeps no task but those being polled.             *)
LEMMA ReturnWork ==
    ASSUME DispatchTypes, WorkInv, NEW r \in Requests, pc[r] # "idle",
           pc' = [pc EXCEPT ![r] = "answered"],
           UNCHANGED <<now, health, request, chosen, deadline>>,
           \A j \in Jobs : /\ j[1] # r => task'[j] = task[j]
                           /\ j[1] = r => task'[j] = "none" \/ j \in last'
                           /\ j \in last => j \in last'
    PROVE  WorkInv'
<1>1. pc'[r] = "answered" /\ \A q \in Requests \ {r} : pc'[q] = pc[q]
  BY DEF DispatchTypes
<1>2. \A q \in Requests \ {r}, p \in Providers : task'[<<q, p>>] = task[<<q, p>>]
  OBVIOUS
<1>3. NoTasksYet'
  BY <1>1, <1>2 DEF WorkInv, NoTasksYet
<1>4. DeadlinesAhead' /\ ConcurrentInTime' /\ DownSinceChosen'
  BY <1>1 DEF WorkInv, DeadlinesAhead, ConcurrentInTime, DownSinceChosen
<1>5. NoOrphans'
  <2> SUFFICES ASSUME NEW q \in Requests, NEW p \in Providers,
                      pc'[q] = "answered", task'[<<q, p>>] \in Active
               PROVE  <<q, p>> \in last'
    BY DEF NoOrphans
  <2>1. <<q, p>> \in Jobs /\ <<q, p>>[1] = q
    OBVIOUS
  <2> QED
    BY <1>1, <1>2, <2>1 DEF WorkInv, NoOrphans
<1>6. TiersInOrder'
  <2> SUFFICES ASSUME NEW q \in Requests, request[q] # NoRequest, pc'[q] = "waiting",
                      NEW p \in chosen[q], NEW s \in chosen[q],
                      request[q].mode = "tiered", Tier[p] < Tier[s],
                      task'[<<q, s>>] # "none"
               PROVE  task'[<<q, p>>] = "collected"
    BY DEF TiersInOrder
  <2>1. q # r /\ pc[q] = "waiting" /\ p \in Providers /\ s \in Providers
    BY <1>1 DEF DispatchTypes
  <2> QED
    BY <1>2, <2>1 DEF WorkInv, TiersInOrder
<1> QED
  BY <1>3, <1>4, <1>5, <1>6 DEF WorkInv

(* Tasks are started for one request, which waits for them from then on.   *)
LEMMA SpawnWork ==
    ASSUME DispatchTypes, WorkInv, NEW r \in Requests, pc[r] \in {"chosen", "waiting"},
           NEW ps, Spawn(r, ps),
           pc' = [pc EXCEPT ![r] = "waiting"],
           UNCHANGED <<now, health, request, chosen, deadline, last>>,
           \A p, q \in chosen[r] :
               /\ request[r] # NoRequest /\ request[r].mode = "tiered"
               /\ Tier[p] < Tier[q] /\ task'[<<r, q>>] # "none"
               => task'[<<r, p>>] = "collected"
    PROVE  WorkInv'
<1>1. pc'[r] = "waiting" /\ \A q \in Requests \ {r} : pc'[q] = pc[q]
  BY DEF DispatchTypes
<1>2. \A q \in Requests \ {r}, p \in Providers : task'[<<q, p>>] = task[<<q, p>>]
  BY DEF Spawn
<1>3. NoTasksYet'
  BY <1>1, <1>2 DEF WorkInv, NoTasksYet
<1>4. DeadlinesAhead' /\ DownSinceChosen'
  BY <1>1 DEF WorkInv, DeadlinesAhead, DownSinceChosen
<1>5. ConcurrentInTime'
  BY <1>1 DEF WorkInv, ConcurrentInTime
<1>6. NoOrphans'
  <2> SUFFICES ASSUME NEW q \in Requests, NEW p \in Providers,
                      pc'[q] = "answered", task'[<<q, p>>] \in Active
               PROVE  <<q, p>> \in last'
    BY DEF NoOrphans
  <2>1. q # r /\ <<q, p>> \in Jobs /\ <<q, p>>[1] = q
    BY <1>1
  <2> QED
    BY <1>1, <1>2, <2>1 DEF WorkInv, NoOrphans
<1>7. TiersInOrder'
  <2> SUFFICES ASSUME NEW q \in Requests, request[q] # NoRequest, pc'[q] = "waiting",
                      NEW p \in chosen[q], NEW s \in chosen[q],
                      request[q].mode = "tiered", Tier[p] < Tier[s],
                      task'[<<q, s>>] # "none"
               PROVE  task'[<<q, p>>] = "collected"
    BY DEF TiersInOrder
  <2>1. CASE q = r
    BY <2>1
  <2>2. CASE q # r
    <3>1. pc[q] = "waiting" /\ p \in Providers /\ s \in Providers
      BY <1>1, <2>2 DEF DispatchTypes
    <3> QED
      BY <1>2, <2>2, <3>1 DEF WorkInv, TiersInOrder
  <2> QED
    BY <2>1, <2>2
<1> QED
  BY <1>3, <1>4, <1>5, <1>6, <1>7 DEF WorkInv

LEMMA DispatchWork ==
    ASSUME DispatchTypes, WorkInv, NEW r \in Requests, Dispatch(r)
    PROVE  WorkInv'
<1>1. /\ pc[r] = "chosen" /\ pc' = [pc EXCEPT ![r] = "waiting"]
      /\ Spawn(r, IF request[r].mode = "concurrent" THEN chosen[r] ELSE {})
      /\ UNCHANGED <<now, health, request, chosen, deadline, last>>
  BY DEF Dispatch
<1>2. ASSUME NEW p \in chosen[r], NEW q \in chosen[r],
             request[r].mode = "tiered", task'[<<r, q>>] # "none"
      PROVE  task'[<<r, p>>] = "collected"
  <2>1. Spawn(r, {})
    BY <1>1, <1>2
  <2>2. <<r, q>> \in Jobs
    BY DEF DispatchTypes
  <2>3. task'[<<r, q>>] = task[<<r, q>>]
    BY <2>1, <2>2 DEF Spawn
  <2>4. task[<<r, q>>] = "none"
    BY <1>1 DEF WorkInv, NoTasksYet, DispatchTypes
  <2> QED
    BY <1>2, <2>3, <2>4
<1> QED
  BY <1>1, <1>2, SpawnWork

(* The next tier starts when all that was started has been joined.         *)
LEMMA NextTierWork ==
    ASSUME DispatchTypes, WorkInv, NEW r \in Requests, NextTier(r)
    PROVE  WorkInv'
<1>1. /\ pc[r] = "waiting" /\ request[r].mode = "tiered"
      /\ JoinOver(r)
      /\ Spawn(r, FirstTier(r))
      /\ UNCHANGED <<now, health, request, pc, chosen, deadline, last>>
  BY DEF NextTier, dispatchVars
<1>2. \A p \in Providers : task[<<r, p>>] # "none" => task[<<r, p>>] = "collected"
  BY <1>1 DEF JoinOver, Settled, Spawned
<1>3. ASSUME NEW p \in chosen[r], NEW q \in chosen[r],
             request[r] # NoRequest, Tier[p] < Tier[q], task'[<<r, q>>] # "none"
      PROVE  task'[<<r, p>>] = "collected"
  <2>1. p \in Providers /\ q \in Providers /\ <<r, p>> \in Jobs /\ <<r, q>> \in Jobs
    BY DEF DispatchTypes
  <2>2. Tier[p] \in Nat /\ Tier[q] \in Nat
    BY <2>1, DispatchConstants
  <2>3. task[<<r, p>>] # "none"
    <3>1. CASE q \in FirstTier(r)
      BY <1>3, <2>1, <2>2, <3>1 DEF FirstTier, Unstarted, Spawned
    <3>2. CASE q \notin FirstTier(r)
      <4>1. task'[<<r, q>>] = task[<<r, q>>]
        BY <1>1, <2>1, <3>2 DEF Spawn
      <4> QED
        BY <1>1, <1>3, <2>1, <4>1 DEF WorkInv, TiersInOrder
    <3> QED
      BY <3>1, <3>2
  <2>4. p \notin FirstTier(r)
    BY <2>1, <2>3 DEF FirstTier, Unstarted, Spawned
  <2>5. task'[<<r, p>>] = task[<<r, p>>]
    BY <1>1, <2>1, <2>4 DEF Spawn
  <2> QED
    BY <1>2, <2>1, <2>3, <2>5
<1>4. pc' = [pc EXCEPT ![r] = "waiting"]
  BY <1>1 DEF DispatchTypes
<1> QED
  BY <1>1, <1>3, <1>4, SpawnWork

(* A task goes on, returns or is joined.                                   *)
LEMMA TaskWork ==
    ASSUME DispatchTypes, WorkInv, NEW r \in Requests, NEW p \in Providers,
           task[<<r, p>>] \notin {"none", "collected"},
           NEW place, task' = [task EXCEPT ![<<r, p>>] = place],
           pc[r] = "answered" /\ place \in Active => <<r, p>> \in last',
           \A j \in Jobs \ {<<r, p>>} : j \in last => j \in last',
           UNCHANGED <<now, request, pc, chosen, deadline>>,
           DownSinceChosen'
    PROVE  WorkInv'
<1>1. /\ <<r, p>> \in Jobs
      /\ task'[<<r, p>>] = place
      /\ \A j \in Jobs \ {<<r, p>>} : task'[j] = task[j]
  BY DEF DispatchTypes
<1>2. NoTasksYet'
  <2> SUFFICES ASSUME NEW q \in Requests, pc[q] \in {"idle", "chosen"}, NEW s \in Providers
               PROVE  task'[<<q, s>>] = "none"
    BY DEF NoTasksYet
  <2>1. task[<<q, s>>] = "none" /\ <<q, s>> \in Jobs
    BY DEF WorkInv, NoTasksYet
  <2> QED
    BY <1>1, <2>1
<1>3. DeadlinesAhead' /\ ConcurrentInTime'
  BY DEF WorkInv, DeadlinesAhead, ConcurrentInTime
<1>4. NoOrphans'
  <2> SUFFICES ASSUME NEW j \in Jobs, pc[j[1]] = "answered", task'[j] \in Active
               PROVE  j \in last'
    BY DEF NoOrphans
  <2>1. CASE j = <<r, p>>
    BY <1>1, <2>1
  <2>2. CASE j # <<r, p>>
    BY <1>1, <2>2 DEF WorkInv, NoOrphans
  <2> QED
    BY <2>1, <2>2
<1>5. TiersInOrder'
  <2> SUFFICES ASSUME NEW q \in Requests, request[q] # NoRequest, pc[q] = "waiting",
                      NEW s \in chosen[q], NEW u \in chosen[q],
                      request[q].mode = "tiered", Tier[s] < Tier[u],
                      task'[<<q, u>>] # "none"
               PROVE  task'[<<q, s>>] = "collected"
    BY DEF TiersInOrder
  <2>1. s \in Providers /\ u \in Providers /\ <<q, s>> \in Jobs /\ <<q, u>> \in Jobs
    BY DEF DispatchTypes
  <2>2. task[<<q, u>>] # "none"
    BY <1>1, <2>1
  <2>3. task[<<q, s>>] = "collected"
    BY <2>1, <2>2 DEF WorkInv, TiersInOrder
  <2> QED
    BY <1>1, <2>1, <2>3
<1> QED
  BY <1>2, <1>3, <1>4, <1>5 DEF WorkInv

(* A step of a task: it goes to some place, or ends where it was aborted,  *)
(* and may record its success or failure.                                  *)
LEMMA WorkerWork ==
    ASSUME DispatchTypes, WorkInv, NEW r \in Requests, NEW p \in Providers, Worker(r, p)
    PROVE  WorkInv'
<1>1. PICK place \in Active \cup {"finished"} :
          /\ task[<<r, p>>] \in Active
          /\ Goto(r, p, place)
          /\ UNCHANGED <<now, request, pc, chosen, deadline>>
  BY DEF Worker, PipelineHit, PipelineMiss, Acquired, Replies, BacksOff, Retries, Fails,
         Panics, ReportSuccess, ReportFailure, dispatchVars
<1>2. \/ health' = health
      \/ health' = [health EXCEPT ![p] = RecordSuccess(@, now)]
      \/ health' = [health EXCEPT ![p] = RecordFailure(@, now)]
  BY DEF Worker, PipelineHit, PipelineMiss, Acquired, Replies, BacksOff, Retries, Fails,
         Panics, ReportSuccess, ReportFailure
<1>3. DownSinceChosen'
  <2>1. DOMAIN health = Providers /\ now \in Nat
    BY DEF WorkInv, DownSinceChosen, DispatchTypes
  <2>2. /\ DOMAIN health' = Providers
        /\ \A s \in Providers : health'[s].status = "Unhealthy" =>
              \/ health'[s].unhealthy_since = now
              \/ /\ health[s].status = "Unhealthy"
                 /\ health'[s].unhealthy_since = health[s].unhealthy_since
    <3>1. DOMAIN health' = Providers
      BY <1>2, <2>1
    <3>2. \A s \in Providers \ {p} : health'[s] = health[s]
      BY <1>2, <2>1
    <3>3. health'[p] \in {health[p], RecordSuccess(health[p], now), RecordFailure(health[p], now)}
      BY <1>2, <2>1
    <3>4. health'[p].status = "Unhealthy" =>
              \/ health'[p].unhealthy_since = now
              \/ /\ health[p].status = "Unhealthy"
                 /\ health'[p].unhealthy_since = health[p].unhealthy_since
      BY <3>3, <2>1, HealthMoves
    <3> QED
      BY <3>1, <3>2, <3>4
  <2>3. \A q \in Requests : pc[q] # "idle" => deadline[q] - Timeout <= now
    BY <2>1, DispatchConstants DEF WorkInv, DeadlinesAhead
  <2> QED
    BY <1>1, <2>1, <2>2, <2>3 DEF WorkInv, DownSinceChosen
<1>4. pc[r] = "answered" => <<r, p>> \in last
  BY <1>1 DEF WorkInv, NoOrphans
<1>5. /\ last' = last \ {<<r, p>>}
      /\ task' = [task EXCEPT ![<<r, p>>] = IF <<r, p>> \in last THEN "none" ELSE place]
  BY <1>1 DEF Goto
<1>6. pc[r] = "answered" /\ (IF <<r, p>> \in last THEN "none" ELSE place) \in Active
          => <<r, p>> \in last'
  BY <1>4
<1>7. task[<<r, p>>] \notin {"none", "collected"}
  BY <1>1
<1> QED
  BY <1>1, <1>3, <1>5, <1>6, <1>7, TaskWork

LEMMA CollectWork ==
    ASSUME DispatchTypes, WorkInv, NEW r \in Requests, NEW p \in Providers, Collect(r, p)
    PROVE  WorkInv'
<1>1. /\ task[<<r, p>>] = "finished"
      /\ task' = [task EXCEPT ![<<r, p>>] = "collected"]
      /\ UNCHANGED <<now, health, request, pc, chosen, deadline, last>>
  BY DEF Collect, dispatchVars
<1>2. DownSinceChosen'
  BY <1>1 DEF WorkInv, DownSinceChosen
<1> QED
  BY <1>1, <1>2, TaskWork

(* The aborted tasks are gone, or in their last poll.                      *)
LEMMA FinishWork ==
    ASSUME DispatchTypes, WorkInv, NEW r \in Requests,
           pc[r] = "waiting", StoreAndReturn(r), DropTasks(r),
           UNCHANGED <<now, health, request, chosen, deadline>>
    PROVE  WorkInv'
<1>1. pc' = [pc EXCEPT ![r] = "answered"]
  BY DEF StoreAndReturn, Return
<1>2. PICK kept \in SUBSET Jobs :
          /\ task' = [j \in Jobs |-> IF j \in {i \in Jobs : i[1] = r} \ kept
                                     THEN "none" ELSE task[j]]
          /\ last' = last \cup kept
          /\ \A j \in kept : j[1] = r
  <2>1. PICK polled \in SUBSET {p \in Providers : task[<<r, p>>] \in Active} :
            LET kept == {<<r, p>> : p \in polled}
            IN  /\ task' = [j \in Jobs |-> IF j \in {i \in Jobs : i[1] = r} \ kept
                                           THEN "none" ELSE task[j]]
                /\ last' = last \cup kept
    BY DEF DropTasks
  <2> WITNESS {<<r, p>> : p \in polled} \in SUBSET Jobs
  <2> QED
    BY <2>1
<1>3. \A j \in Jobs : /\ j[1] # r => task'[j] = task[j]
                      /\ j[1] = r => task'[j] = "none" \/ j \in last'
                      /\ j \in last => j \in last'
  BY <1>2
<1> QED
  BY <1>1, <1>3, ReturnWork

LEMMA NextWork == DispatchTypes /\ WorkInv /\ [Next]_vars => WorkInv'
<1> SUFFICES ASSUME DispatchTypes, WorkInv, [Next]_vars PROVE WorkInv'
  OBVIOUS
<1>1. CASE Tick
  BY <1>1, TickWork
<1>2. CASE ClearCache \/ UNCHANGED vars
  <2>1. UNCHANGED <<now, health, request, pc, chosen, deadline, task, last>>
    BY <1>2 DEF ClearCache, vars, dispatchVars, taskVars
  <2> QED
    BY <2>1 DEF WorkInv, NoTasksYet, DeadlinesAhead, ConcurrentInTime, DownSinceChosen,
                NoOrphans, TiersInOrder
<1>3. ASSUME NEW r \in Requests, NEW o \in Offers, Choose(r, o) PROVE WorkInv'
  BY <1>3, ChooseWork
<1>4. ASSUME NEW r \in Requests, AnswerEmpty(r) \/ AnswerFromCache(r) PROVE WorkInv'
  <2>1. /\ pc[r] = "chosen" /\ pc' = [pc EXCEPT ![r] = "answered"]
        /\ UNCHANGED <<now, health, request, chosen, deadline, task, last>>
    BY <1>4 DEF AnswerEmpty, AnswerFromCache, Return, taskVars
  <2>2. \A p \in Providers : task[<<r, p>>] = "none"
    BY <2>1 DEF WorkInv, NoTasksYet
  <2>3. \A j \in Jobs : j[1] = r => task'[j] = "none"
    BY <2>1, <2>2
  <2> QED
    BY <2>1, <2>3, ReturnWork, ZenonT(60)
<1>5. ASSUME NEW r \in Requests, Dispatch(r) PROVE WorkInv'
  BY <1>5, DispatchWork
<1>6. ASSUME NEW r \in Requests, NextTier(r) PROVE WorkInv'
  BY <1>6, NextTierWork
<1>7. ASSUME NEW r \in Requests, NEW p \in Providers, Collect(r, p) PROVE WorkInv'
  BY <1>7, CollectWork
<1>8. ASSUME NEW r \in Requests, FinishConcurrent(r) \/ FinishTiered(r) PROVE WorkInv'
  <2>1. /\ pc[r] = "waiting" /\ StoreAndReturn(r) /\ DropTasks(r)
        /\ UNCHANGED <<now, health, request, chosen, deadline>>
    BY <1>8 DEF FinishConcurrent, FinishTiered
  <2> QED
    BY <2>1, FinishWork
<1>9. ASSUME NEW r \in Requests, NEW p \in Providers, Worker(r, p) PROVE WorkInv'
  BY <1>9, WorkerWork
<1> QED
  BY <1>1, <1>2, <1>3, <1>4, <1>5, <1>6, <1>7, <1>8, <1>9 DEF Next, Dispatcher

(* Searches keep their deadlines, their tiers and their tasks in order.    *)
THEOREM WorkInvariance == Spec => []WorkInv
<1>1. Init => WorkInv
  BY InitWork
<1>2. DispatchInv /\ WorkInv /\ [Next]_vars => WorkInv'
  BY NextWork DEF DispatchInv
<1> QED
  BY <1>1, <1>2, DispatchInvariance, PTL DEF Spec

(* A task running for a provider that is down belongs to a search that     *)
(* chose it before its last failure: new searches leave it alone.          *)
THEOREM DownGetsNoWork == Spec => []NoNewWorkWhenDown
<1>1. DispatchInv /\ WorkInv => NoNewWorkWhenDown
  <2> SUFFICES ASSUME DispatchInv, WorkInv, NEW r \in Requests, NEW p \in Providers,
                      task[<<r, p>>] \in Active, health[p].status = "Unhealthy"
               PROVE  deadline[r] - Timeout <= health[p].unhealthy_since
    BY DEF NoNewWorkWhenDown
  <2>1. pc[r] # "idle" /\ p \in chosen[r]
    BY DEF DispatchInv, Begun, WorkInv, NoTasksYet
  <2> QED
    BY <2>1 DEF WorkInv, DownSinceChosen
<1> QED
  BY <1>1, DispatchInvariance, WorkInvariance, PTL

(* A search that has returned leaves no task but those whose last poll is  *)
(* still running, whenever it returned and whatever they were doing.       *)
THEOREM NoTaskOutlives == Spec => []NoOrphans
<1>1. WorkInv => NoOrphans
  BY DEF WorkInv
<1> QED
  BY <1>1, WorkInvariance, PTL

(* A provider of a later tier is asked only when every chosen provider of  *)
(* an earlier one has been joined.                                         *)
THEOREM CheapTiersFirst == Spec => []TiersInOrder
<1>1. WorkInv => TiersInOrder
  BY DEF WorkInv
<1> QED
  BY <1>1, WorkInvariance, PTL

(* In concurrent mode nobody waits past the deadline of the search; tiered *)
(* mode promises no such thing.                                            *)
THEOREM ConcurrentKeepsTime ==
    ASSUME \A o \in Offers : o.mode = "concurrent"
    PROVE  Spec => []AnsweredInTime
<1>1. DispatchInv /\ WorkInv => AnsweredInTime
  <2> SUFFICES ASSUME DispatchInv, WorkInv, NEW r \in Requests, pc[r] = "waiting"
               PROVE  now <= deadline[r]
    BY DEF AnsweredInTime
  <2>1. request[r].mode = "concurrent"
    BY DEF DispatchInv, Begun
  <2> QED
    BY <2>1 DEF WorkInv, ConcurrentInTime
<1> QED
  BY <1>1, DispatchInvariance, WorkInvariance, PTL

-----------------------------------------------------------------------------
(* Ranking: any lists of results, limits, weights and tracker names.       *)

(* A strict total order on a finite set numbers it: Nth finds the k-th     *)
(* element, with k - 1 below it, and keeps the order.                      *)
LEMMA OrderNumbers ==
  ASSUME NEW S, IsFiniteSet(S), NEW R,
         \A x \in S : <<x, x>> \notin R,
         \A x, y, z \in S : <<x, y>> \in R /\ <<y, z>> \in R => <<x, z>> \in R,
         \A x, y \in S : x = y \/ <<x, y>> \in R \/ <<y, x>> \in R
  PROVE  /\ Cardinality(S) \in Nat
         /\ \A k \in 1..Cardinality(S) :
              /\ Nth(S, R, k) \in S
              /\ Cardinality({j \in S : <<j, Nth(S, R, k)>> \in R}) = k - 1
         /\ \A k, l \in 1..Cardinality(S) : k < l => <<Nth(S, R, k), Nth(S, R, l)>> \in R
PROOF
<1> DEFINE n        == Cardinality(S)
           Below(x) == {j \in S : <<j, x>> \in R}
           place    == [x \in S |-> Cardinality(Below(x))]
<1>1. n \in Nat
  BY FS_CardinalityType
<1>2. ASSUME NEW x \in S
      PROVE  IsFiniteSet(Below(x)) /\ Cardinality(Below(x)) \in 0..n - 1
  <2>1. IsFiniteSet(S \ {x}) /\ Cardinality(S \ {x}) = n - 1
    BY FS_RemoveElement
  <2>2. Below(x) \in SUBSET (S \ {x})
    OBVIOUS
  <2> HIDE DEF Below, n
  <2>3. IsFiniteSet(Below(x)) /\ Cardinality(Below(x)) <= Cardinality(S \ {x})
    BY <2>1, <2>2, FS_Subset
  <2>4. Cardinality(Below(x)) \in Nat
    BY <2>3, FS_CardinalityType
  <2> QED
    BY <1>1, <2>1, <2>3, <2>4
<1>3. ASSUME NEW x \in S, NEW y \in S, <<x, y>> \in R
      PROVE  Cardinality(Below(x)) < Cardinality(Below(y))
  <2>1. IsFiniteSet(Below(y)) /\ Cardinality(Below(y)) \in Nat
    BY <1>1, <1>2
  <2>2. x \in Below(y)
    BY <1>3
  <2>3. IsFiniteSet(Below(y) \ {x}) /\ Cardinality(Below(y) \ {x}) = Cardinality(Below(y)) - 1
    BY <2>1, <2>2, FS_RemoveElement
  <2>4. Below(x) \in SUBSET (Below(y) \ {x})
    BY <1>3
  <2> HIDE DEF Below
  <2>5. Cardinality(Below(x)) <= Cardinality(Below(y) \ {x})
    BY <2>3, <2>4, FS_Subset
  <2>6. Cardinality(Below(x)) \in Nat
    BY <1>1, <1>2
  <2> QED
    BY <2>1, <2>3, <2>5, <2>6
<1>4. place \in [S -> 0..n - 1]
  BY <1>2
<1>5. \A x, y \in S : place[x] = place[y] => x = y
  <2> SUFFICES ASSUME NEW x \in S, NEW y \in S, place[x] = place[y], x # y
               PROVE  FALSE
    OBVIOUS
  <2>1. Cardinality(Below(x)) = Cardinality(Below(y))
    OBVIOUS
  <2> HIDE DEF Below, place, n
  <2>2. Cardinality(Below(x)) \in 0..n - 1 /\ Cardinality(Below(y)) \in 0..n - 1
    BY <1>2
  <2>3. <<x, y>> \in R \/ <<y, x>> \in R
    OBVIOUS
  <2>4. CASE <<x, y>> \in R
    BY <1>1, <2>1, <2>2, <2>4, <1>3
  <2>5. CASE <<y, x>> \in R
    BY <1>1, <2>1, <2>2, <2>5, <1>3
  <2> QED
    BY <2>3, <2>4, <2>5
<1>6. place \in Injection(S, 0..n - 1)
  BY <1>4, <1>5, Fun_IsInj
<1>7. IsFiniteSet(0..n - 1) /\ Cardinality(0..n - 1) = n
  <2>1. 0 \in Int /\ n - 1 \in Int
    BY <1>1
  <2> QED
    BY <2>1, <1>1, FS_Interval
<1>8. place \in Surjection(S, 0..n - 1)
  BY <1>6, <1>7, FS_Injection
<1>9. \A t \in 0..n - 1 : \E x \in S : place[x] = t
  BY <1>8 DEF Surjection
<1>10. ASSUME NEW k \in 1..n
       PROVE  Nth(S, R, k) \in S /\ Cardinality(Below(Nth(S, R, k))) = k - 1
  <2>1. k - 1 \in 0..n - 1
    BY <1>1
  <2>2. \E x \in S : Cardinality(Below(x)) = k - 1
    BY <2>1, <1>9
  <2> QED
    BY <2>2 DEF Nth
<1>11. ASSUME NEW k \in 1..n, NEW l \in 1..n, k < l
       PROVE  <<Nth(S, R, k), Nth(S, R, l)>> \in R
  <2> DEFINE x == Nth(S, R, k)
             y == Nth(S, R, l)
  <2>1. x \in S /\ y \in S /\ Cardinality(Below(x)) = k - 1 /\ Cardinality(Below(y)) = l - 1
    BY <1>10
  <2> HIDE DEF x, y, Below, n
  <2>2. x # y
    <3>1. k \in Int /\ l \in Int /\ k < l
      BY <1>1, <1>11
    <3> QED
      BY <2>1, <3>1
  <2>3. <<y, x>> \notin R
    <3> SUFFICES ASSUME <<y, x>> \in R
                 PROVE  FALSE
      OBVIOUS
    <3>1. Cardinality(Below(y)) < Cardinality(Below(x))
      BY <2>1, <1>3
    <3> QED
      BY <3>1, <2>1, <1>11, <1>1
  <2>4. <<x, y>> \in R
    BY <2>1, <2>2, <2>3
  <2> QED
    BY <2>4 DEF x, y
<1> HIDE DEF Below, place
<1> QED
  BY <1>1, <1>10, <1>11 DEF Below

(* Numbers in ascending order. *)
LEMMA AscendingNumbers ==
  ASSUME NEW S, IsFiniteSet(S), S \subseteq Int
  PROVE  /\ Cardinality(S) \in Nat
         /\ \A k \in 1..Cardinality(S) : Nth(S, Ascending(S), k) \in S
PROOF
<1> DEFINE R == Ascending(S)
<1>1. \A x \in S : <<x, x>> \notin R
  BY DEF Ascending
<1>2. \A x, y, z \in S : <<x, y>> \in R /\ <<y, z>> \in R => <<x, z>> \in R
  BY DEF Ascending
<1>3. \A x, y \in S : x = y \/ <<x, y>> \in R \/ <<y, x>> \in R
  BY DEF Ascending
<1> HIDE DEF R
<1>4. /\ Cardinality(S) \in Nat
      /\ \A k \in 1..Cardinality(S) : Nth(S, R, k) \in S
  BY <1>1, <1>2, <1>3, OrderNumbers
<1> QED
  BY <1>4 DEF R

(* Of 1..m the k-th is k. *)
LEMMA IntervalNumbers ==
  ASSUME NEW m \in Nat, NEW k \in 1..m
  PROVE  Nth(1..m, Ascending(1..m), k) = k
PROOF
<1> DEFINE Below(i) == {j \in 1..m : <<j, i>> \in Ascending(1..m)}
<1>1. ASSUME NEW i \in 1..m
      PROVE  Cardinality(Below(i)) = i - 1
  <2>1. Below(i) = 1..i - 1
    BY DEF Ascending
  <2>2. Cardinality(1..i - 1) = i - 1
    <3>1. 1 \in Int /\ i - 1 \in Int
      OBVIOUS
    <3>2. Cardinality(1..i - 1) = IF 1 > i - 1 THEN 0 ELSE (i - 1) - 1 + 1
      BY <3>1, FS_Interval
    <3> QED
      BY <3>2
  <2> QED
    BY <2>1, <2>2
<1> HIDE DEF Below
<1>2. Cardinality(Below(k)) = k - 1
  BY <1>1
<1>3. ASSUME NEW i \in 1..m, Cardinality(Below(i)) = k - 1
      PROVE  i = k
  <2>1. i - 1 = k - 1
    BY <1>1, <1>3
  <2> QED
    BY <2>1
<1>4. Nth(1..m, Ascending(1..m), k) = CHOOSE i \in 1..m : Cardinality(Below(i)) = k - 1
  BY DEF Nth, Below
<1> QED
  BY <1>2, <1>3, <1>4

(* What is left of a list of parameters is from the list, and no tracker.  *)
LEMMA UntrackedKeeps ==
  ASSUME NEW params \in Seq(Params)
  PROVE  /\ Untracked(params) \in Seq(Params)
         /\ \A k \in DOMAIN Untracked(params) :
              \E i \in DOMAIN params :
                 Untracked(params)[k] = params[i] /\ ~Tracking(params[i])
PROOF
<1> DEFINE kept   == {k \in DOMAIN params : ~Tracking(params[k])}
           Pos(k) == Nth(kept, Ascending(kept), k)
<1>1. Len(params) \in Nat /\ DOMAIN params = 1..Len(params)
  OBVIOUS
<1>2. IsFiniteSet(kept)
  <2>1. IsFiniteSet(1..Len(params))
    BY <1>1, FS_Interval
  <2>2. kept \in SUBSET (1..Len(params))
    BY <1>1
  <2> HIDE DEF kept
  <2> QED
    BY <2>1, <2>2, FS_Subset
<1>3. kept \subseteq Int
  BY <1>1
<1>4. kept \subseteq DOMAIN params /\ \A i \in kept : ~Tracking(params[i])
  OBVIOUS
<1>5. Untracked(params) = [k \in 1..Cardinality(kept) |-> params[Pos(k)]]
  BY DEF Untracked
<1> HIDE DEF kept
<1>6. Cardinality(kept) \in Nat /\ \A k \in 1..Cardinality(kept) : Pos(k) \in kept
  BY <1>2, <1>3, AscendingNumbers
<1> HIDE DEF Pos
<1>7. \A k \in 1..Cardinality(kept) : params[Pos(k)] \in Params
  BY <1>1, <1>4, <1>6
<1>8. Untracked(params) \in [1..Cardinality(kept) -> Params]
  BY <1>5, <1>7
<1>9. Untracked(params) \in Seq(Params)
  BY <1>6, <1>8
<1> QED
  BY <1>4, <1>5, <1>6, <1>9

(* A list without trackers stays. *)
LEMMA UntrackedSame ==
  ASSUME NEW params \in Seq(Params), \A k \in DOMAIN params : ~Tracking(params[k])
  PROVE  Untracked(params) = params
PROOF
<1> DEFINE m == Len(params)
<1>1. m \in Nat /\ DOMAIN params = 1..m
  OBVIOUS
<1>2. {k \in DOMAIN params : ~Tracking(params[k])} = 1..m
  BY <1>1
<1>3. Cardinality(1..m) = m
  BY <1>1, FS_Interval
<1> HIDE DEF m
<1>4. Untracked(params) = [k \in 1..m |-> params[Nth(1..m, Ascending(1..m), k)]]
  BY <1>2, <1>3 DEF Untracked
<1>5. \A k \in 1..m : Nth(1..m, Ascending(1..m), k) = k
  BY <1>1, IntervalNumbers
<1>6. params = [k \in 1..m |-> params[k]]
  BY <1>1
<1> QED
  BY <1>4, <1>5, <1>6

(* A tracker at the end leaves no trace. *)
LEMMA UntrackedAppend ==
  ASSUME NEW params \in Seq(Params), NEW q \in Params, Tracking(q)
  PROVE  Untracked(Append(params, q)) = Untracked(params)
PROOF
<1> DEFINE kept == {k \in DOMAIN params : ~Tracking(params[k])}
           more == Append(params, q)
<1>1. /\ DOMAIN more = 1..Len(params) + 1
      /\ \A k \in DOMAIN params : more[k] = params[k]
      /\ more[Len(params) + 1] = q
      /\ DOMAIN params = 1..Len(params)
  OBVIOUS
<1> HIDE DEF more
<1>2. {k \in DOMAIN more : ~Tracking(more[k])} = kept
  <2>1. ASSUME NEW k \in DOMAIN more, ~Tracking(more[k])
        PROVE  k \in kept
    <3>1. k # Len(params) + 1
      BY <1>1, <2>1
    <3>2. k \in DOMAIN params
      BY <1>1, <3>1
    <3> QED
      BY <1>1, <2>1, <3>2
  <2>2. ASSUME NEW k \in kept
        PROVE  k \in DOMAIN more /\ ~Tracking(more[k])
    BY <1>1
  <2> HIDE DEF kept
  <2> QED
    BY <2>1, <2>2
<1>3. IsFiniteSet(kept) /\ kept \subseteq Int /\ kept \subseteq DOMAIN params
  <2>1. IsFiniteSet(1..Len(params))
    BY FS_Interval
  <2>2. kept \in SUBSET (1..Len(params))
    BY <1>1
  <2> HIDE DEF kept
  <2>3. IsFiniteSet(kept)
    BY <2>1, <2>2, FS_Subset
  <2> QED
    BY <1>1, <2>2, <2>3
<1>4. Untracked(params) = [k \in 1..Cardinality(kept) |-> params[Nth(kept, Ascending(kept), k)]]
  BY DEF Untracked
<1> HIDE DEF kept
<1>5. Untracked(more) = [k \in 1..Cardinality(kept) |-> more[Nth(kept, Ascending(kept), k)]]
  BY <1>2 DEF Untracked
<1>6. \A k \in 1..Cardinality(kept) : Nth(kept, Ascending(kept), k) \in kept
  BY <1>3, AscendingNumbers
<1>7. \A k \in 1..Cardinality(kept) :
         more[Nth(kept, Ascending(kept), k)] = params[Nth(kept, Ascending(kept), k)]
  BY <1>1, <1>3, <1>6
<1> QED
  BY <1>4, <1>5, <1>7 DEF more

(* Taking the slash from the last parameter. *)
LEMMA UnslashShape ==
  ASSUME NEW params \in Seq(Params)
  PROVE  /\ Unslash(params) \in Seq(Params)
         /\ DOMAIN Unslash(params) = DOMAIN params
         /\ (Unslash(params) = <<>>) <=> (params = <<>>)
         /\ \A k \in DOMAIN params : Unslash(params)[k].name = params[k].name
         /\ Unslash(Unslash(params)) = Unslash(params)
PROOF
<1>1. CASE params = <<>>
  BY <1>1 DEF Unslash
<1>2. CASE params # <<>>
  <2> DEFINE n    == Len(params)
             end == [params[n] EXCEPT !.slash = FALSE]
             done == [params EXCEPT ![n] = end]
  <2>1. n \in 1..n /\ n \in Nat /\ DOMAIN params = 1..n
    BY <1>2
  <2>2. \A k \in 1..n : params[k] \in Params
    BY <2>1
  <2>3. end \in Params /\ end.name = params[n].name /\ end.slash = FALSE
    BY <2>1, <2>2 DEF Params
  <2>4. Unslash(params) = done
    BY <1>2 DEF Unslash
  <2> HIDE DEF end
  <2>5. done \in Seq(Params) /\ Len(done) = n /\ DOMAIN done = 1..n /\ done[n] = end
    BY <2>1, <2>3
  <2>6. done # <<>>
    BY <2>1, <2>5
  <2>7. \A k \in 1..n : done[k].name = params[k].name
    BY <2>1, <2>3
  <2> HIDE DEF done, n
  <2>8. Unslash(done) = done
    <3>1. Unslash(done) = [done EXCEPT ![n] = [done[n] EXCEPT !.slash = FALSE]]
      BY <2>5, <2>6 DEF Unslash
    <3>2. [end EXCEPT !.slash = FALSE] = end
      BY <2>3 DEF Params
    <3> QED
      BY <2>1, <2>5, <3>1, <3>2
  <2> QED
    BY <1>2, <2>1, <2>4, <2>5, <2>6, <2>7, <2>8
<1> QED
  BY <1>1, <1>2

(* What is added to a URL is lost in its key. *)
LEMMA AddedIsLost ==
  ASSUME NEW u \in Urls, NEW v \in Tracked(u)
  PROVE  canonicalize_url(v) = canonicalize_url(u)
PROOF
<1>1. u.params \in Seq(Params)
  BY DEF Urls
<1>2. CASE v = [u EXCEPT !.fragment = ~@] \/ v = [u EXCEPT !.capitals = ~@]
  <2>1. v.page = u.page /\ v.slash = u.slash /\ v.params = u.params
    BY <1>2 DEF Urls
  <2> QED
    BY <2>1 DEF canonicalize_url
<1>3. ASSUME NEW q \in [name : Trackers, bare : BOOLEAN, slash : {FALSE}],
             v = [u EXCEPT !.params = Append(@, q)]
      PROVE  canonicalize_url(v) = canonicalize_url(u)
  <2>1. q \in Params
    BY RankingConstants DEF Params
  <2>2. Tracking(q)
    BY DEF Tracking
  <2>3. v.page = u.page /\ v.slash = u.slash /\ v.params = Append(u.params, q)
    BY <1>3 DEF Urls
  <2>4. Untracked(v.params) = Untracked(u.params)
    BY <1>1, <2>1, <2>2, <2>3, UntrackedAppend
  <2> QED
    BY <2>3, <2>4 DEF canonicalize_url
<1> QED
  BY <1>2, <1>3 DEF Tracked

(* A key is its own key. *)
LEMMA KeyOfKey ==
  ASSUME NEW u \in Urls, NoHiddenTracker(u)
  PROVE  canonicalize_url(canonicalize_url(u)) = canonicalize_url(u)
PROOF
<1> DEFINE kept == Untracked(u.params)
           key  == canonicalize_url(u)
<1>1. u.params \in Seq(Params)
  BY DEF Urls
<1>2. kept \in Seq(Params)
  BY <1>1, UntrackedKeeps
<1>3. \A k \in DOMAIN kept : kept[k].name \notin Trackers
  <2> SUFFICES ASSUME NEW k \in DOMAIN kept
               PROVE  kept[k].name \notin Trackers
    OBVIOUS
  <2>1. PICK i \in DOMAIN u.params : kept[k] = u.params[i] /\ ~Tracking(u.params[i])
    BY <1>1, UntrackedKeeps
  <2> QED
    BY <2>1 DEF NoHiddenTracker
<1>4. /\ key.page = u.page /\ key.capitals = FALSE /\ key.fragment = FALSE
      /\ key.slash = (u.slash /\ kept # <<>>)
      /\ key.params = Unslash(kept)
  BY DEF canonicalize_url
<1> HIDE DEF kept
<1>5. /\ Unslash(kept) \in Seq(Params)
      /\ DOMAIN Unslash(kept) = DOMAIN kept
      /\ (Unslash(kept) = <<>>) <=> (kept = <<>>)
      /\ \A k \in DOMAIN kept : Unslash(kept)[k].name = kept[k].name
      /\ Unslash(Unslash(kept)) = Unslash(kept)
  BY <1>2, UnslashShape
<1>6. \A k \in DOMAIN Unslash(kept) : ~Tracking(Unslash(kept)[k])
  BY <1>3, <1>5 DEF Tracking
<1>7. Untracked(Unslash(kept)) = Unslash(kept)
  BY <1>5, <1>6, UntrackedSame
<1>8. canonicalize_url(key) =
        [page |-> u.page, capitals |-> FALSE, fragment |-> FALSE,
         slash |-> (u.slash /\ kept # <<>>) /\ Unslash(kept) # <<>>,
         params |-> Unslash(Unslash(kept))]
  BY <1>4, <1>7 DEF canonicalize_url
<1>9. canonicalize_url(u) =
        [page |-> u.page, capitals |-> FALSE, fragment |-> FALSE,
         slash |-> u.slash /\ kept # <<>>, params |-> Unslash(kept)]
  BY DEF canonicalize_url, kept
<1>10. ((u.slash /\ kept # <<>>) /\ Unslash(kept) # <<>>) = (u.slash /\ kept # <<>>)
  BY <1>5
<1> QED
  BY <1>5, <1>8, <1>9, <1>10

(* The results have their types from the start. *)
LEMMA RankInitInv == RankInit => GivenTyped /\ MergeInv
PROOF
<1>1. RankInit => GivenTyped
  BY RankingConstants DEF RankInit, GivenTyped
<1>2. RankInit => MergeInv
  BY DEF RankInit, MergeInv, PageOf
<1> QED
  BY <1>1, <1>2

LEMMA GivenResults ==
  ASSUME GivenTyped
  PROVE  /\ at \in Nat /\ Len(given) \in Nat /\ at <= Len(given)
         /\ DOMAIN given = 1..Len(given)
         /\ \A i \in 1..Len(given) :
              given[i] \in SearchResults /\ given[i].url \in Urls /\ given[i].score \in Int
PROOF
<1>1. given \in Seq(SearchResults) /\ at \in 0..Len(given)
  BY DEF GivenTyped
<1>2. \A i \in 1..Len(given) : given[i] \in SearchResults
  BY <1>1
<1>3. \A r \in SearchResults : r.url \in Urls /\ r.score \in Int
  BY DEF SearchResults
<1> QED
  BY <1>1, <1>2, <1>3

LEMMA ConfigTyped ==
  ASSUME GivenTyped
  PROVE  /\ config.reputation \in Dimensions /\ config.position \in Dimensions
         /\ config.freshness \in Dimensions
         /\ limit \in Nat
BY RankingConstants DEF GivenTyped

(* Of the results for one page the first of the best is kept. *)
LEMMA MergeOneStep ==
  ASSUME GivenTyped, MergeInv, MergeOne
  PROVE  MergeInv'
PROOF
<1>1. PICK n \in Int : n = at + 1
  BY GivenResults
<1> DEFINE r == given[n]
           key == canonicalize_url(r.url)
           Kept(k) == IF k = key /\ Keeps(r, key) THEN r ELSE seen[k]
<1>2. /\ at < Len(given) /\ at' = n /\ UNCHANGED given
      /\ seen' = [k \in DOMAIN seen \cup {key} |-> Kept(k)]
  BY <1>1 DEF MergeOne
<1>3. at \in Nat /\ n \in 1..Len(given) /\ 1..n = (1..at) \cup {n} /\ n \notin 1..at
  BY <1>1, <1>2, GivenResults
<1>4. \A i \in 1..n : given[i].score \in Int
  BY <1>3, GivenResults
<1>5. key = PageOf(n)
  BY DEF PageOf
<1>6. \A i \in Int : PageOf(i)' = PageOf(i)
  BY <1>2 DEF PageOf
<1>7. \A i, j : SamePage(i, j) <=> PageOf(i) = PageOf(j)
  BY DEF SamePage, PageOf
<1>8. \A i, j : SamePage(i, j)' <=> SamePage(i, j)
  BY <1>2 DEF SamePage
<1>9. ASSUME NEW i \in 1..n,
             \A j \in 1..n : SamePage(i, j) =>
                given[j].score < given[i].score \/ (given[j].score = given[i].score /\ i <= j)
      PROVE  Best(i)'
  <2>1. \A j \in 1..at' : SamePage(i, j)' =>
           given'[j].score < given'[i].score \/ (given'[j].score = given'[i].score /\ i <= j)
    BY <1>2, <1>8, <1>9
  <2> QED
    BY <2>1 DEF Best
<1>10. DOMAIN seen' = {PageOf(i) : i \in 1..n}
  BY <1>2, <1>3, <1>5 DEF MergeInv
<1>11. ASSUME NEW k \in DOMAIN seen'
      PROVE  \E i \in 1..n : PageOf(i) = k /\ Best(i)' /\ seen'[k] = given[i]
  <2>1. CASE k # key
    <3>1. k \in DOMAIN seen /\ seen'[k] = seen[k]
      BY <1>2, <1>11, <2>1
    <3>2. PICK i \in 1..at : PageOf(i) = k /\ Best(i) /\ seen[k] = given[i]
      BY <3>1 DEF MergeInv
    <3>3. Best(i)'
      <4> HIDE DEF r, key, Kept
      <4>1. \A j \in 1..at : SamePage(i, j) =>
               given[j].score < given[i].score \/ (given[j].score = given[i].score /\ i <= j)
        BY <3>2 DEF Best
      <4>2. ~SamePage(i, n)
        BY <1>5, <1>7, <2>1, <3>2
      <4> QED
        BY <1>3, <1>9, <4>1, <4>2
    <3> QED
      BY <1>3, <3>1, <3>2, <3>3
  <2>2. CASE k = key /\ key \notin DOMAIN seen
    <3>1. seen'[k] = r
      BY <1>2, <2>2 DEF Keeps
    <3>2. \A j \in 1..at : ~SamePage(n, j)
      BY <1>5, <1>7, <2>2 DEF MergeInv
    <3> HIDE DEF r, key, Kept
    <3>3. \A j \in 1..n : SamePage(n, j) =>
             given[j].score < given[n].score \/ (given[j].score = given[n].score /\ n <= j)
      <4>1. \A j \in 1..n : SamePage(n, j) => j = n
        BY <1>3, <3>2
      <4> QED
        BY <4>1
    <3>4. Best(n)'
      BY <1>3, <1>9, <3>3
    <3> QED
      BY <1>3, <1>5, <2>2, <3>1, <3>4 DEF r
  <2>3. CASE k = key /\ key \in DOMAIN seen
    <3>1. PICK i \in 1..at : PageOf(i) = k /\ Best(i) /\ seen[k] = given[i]
      BY <2>3 DEF MergeInv
    <3>2. \A j \in 1..at : SamePage(i, j) =>
             given[j].score < given[i].score \/ (given[j].score = given[i].score /\ i <= j)
      BY <3>1 DEF Best
    <3>3. SamePage(i, n) /\ \A j \in 1..n : SamePage(n, j) <=> SamePage(i, j)
      BY <1>5, <1>7, <2>3, <3>1
    <3>4. CASE Keeps(r, key)
      <4>1. seen'[k] = r
        BY <1>2, <2>3, <3>4
      <4>2. given[n].score > given[i].score
        BY <2>3, <3>1, <3>4 DEF Keeps
      <4> HIDE DEF r, key, Kept
      <4>3. \A j \in 1..n : SamePage(n, j) =>
               given[j].score < given[n].score \/ (given[j].score = given[n].score /\ n <= j)
        <5> SUFFICES ASSUME NEW j \in 1..n, SamePage(n, j), j # n
                     PROVE  given[j].score < given[n].score
          BY <1>3
        <5>1. j \in 1..at /\ SamePage(i, j)
          BY <1>3, <3>3
        <5>2. given[j].score <= given[i].score
          <6>1. given[j].score < given[i].score \/ given[j].score = given[i].score
            BY <3>2, <5>1
          <6>2. given[j].score \in Int /\ given[i].score \in Int
            BY <1>3, <1>4
          <6> QED
            BY <6>1, <6>2
        <5>3. /\ given[j].score \in Int /\ given[i].score \in Int
              /\ given[n].score \in Int
          BY <1>3, <1>4
        <5> QED
          BY <4>2, <5>2, <5>3
      <4>4. Best(n)'
        BY <1>3, <1>9, <4>3
      <4> QED
        BY <1>3, <1>5, <2>3, <4>1, <4>4 DEF r
    <3>5. CASE ~Keeps(r, key)
      <4>1. seen'[k] = seen[k]
        BY <1>2, <2>3, <3>5
      <4>2. given[n].score <= given[i].score
        BY <1>3, <1>4, <2>3, <3>1, <3>5 DEF Keeps
      <4> HIDE DEF r, key, Kept
      <4>3. \A j \in 1..n : SamePage(i, j) =>
               given[j].score < given[i].score \/ (given[j].score = given[i].score /\ i <= j)
        <5> SUFFICES ASSUME NEW j \in 1..n, SamePage(i, j)
                     PROVE  given[j].score < given[i].score
                            \/ (given[j].score = given[i].score /\ i <= j)
          OBVIOUS
        <5>1. CASE j \in 1..at
          BY <3>2, <5>1
        <5>2. CASE j = n
          <6>1. /\ given[n].score \in Int /\ given[i].score \in Int
                /\ n \in Int /\ i \in Int /\ i <= n
            BY <1>3, <1>4
          <6> QED
            BY <4>2, <5>2, <6>1
        <5> QED
          BY <1>3, <5>1, <5>2
      <4>4. Best(i)'
        BY <1>3, <1>9, <4>3
      <4> QED
        BY <1>3, <3>1, <4>1, <4>4
    <3> QED
      BY <3>4, <3>5
  <2> QED
    BY <2>1, <2>2, <2>3
<1> HIDE DEF r, key, Kept
<1>12. \A i \in 1..n : PageOf(i)' = PageOf(i)
  BY <1>3, <1>6
<1>13. DOMAIN seen' = {PageOf(i)' : i \in 1..n}
  BY <1>10, <1>12
<1>14. \A k \in DOMAIN seen' : \E i \in 1..n :
         PageOf(i)' = k /\ Best(i)' /\ seen'[k] = given'[i]
  <2> SUFFICES ASSUME NEW k \in DOMAIN seen'
               PROVE  \E i \in 1..n :
                         PageOf(i)' = k /\ Best(i)' /\ seen'[k] = given'[i]
    OBVIOUS
  <2>1. PICK i \in 1..n : PageOf(i) = k /\ Best(i)' /\ seen'[k] = given[i]
    BY <1>11
  <2> QED
    BY <2>1, <1>2, <1>12
<1>15. (DOMAIN seen)' = {PageOf(i)' : i \in 1..at'}
  BY <1>2, <1>13
<1>16. \A k \in DOMAIN seen' : \E i \in 1..at' :
         PageOf(i)' = k /\ Best(i)' /\ seen'[k] = given'[i]
  BY <1>2, <1>14
<1> QED
  BY <1>15, <1>16 DEF MergeInv

(* Merging hands on some of the results, by falling score. *)
LEMMA CutInOrder ==
  ASSUME GivenTyped, MergeInv, NEW s \in Cut
  PROVE  /\ s \in Seq(SearchResults) /\ Len(s) <= limit
         /\ Descending(s)
         /\ \A k \in DOMAIN s : \E i \in DOMAIN given : s[k] = given[i]
PROOF
<1>1. PICK t \in SetToSeqs(DOMAIN seen) :
         /\ Ordered(t)
         /\ s = [i \in 1..(IF Len(t) < limit THEN Len(t) ELSE limit) |-> seen[t[i]]]
  BY DEF Cut
<1>2. IsFiniteSet(DOMAIN seen)
  <2> DEFINE f == [i \in 1..at |-> PageOf(i)]
  <2>1. f \in Surjection(1..at, DOMAIN seen)
    BY DEF MergeInv, Surjection
  <2>2. IsFiniteSet(1..at)
    BY GivenResults, FS_Interval
  <2> QED
    BY <2>1, <2>2, FS_Surjection
<1> DEFINE n == Cardinality(DOMAIN seen)
           m == IF n < limit THEN n ELSE limit
<1>3. n \in Nat
  BY <1>2, FS_CardinalityType
<1>4. t \in [1..n -> DOMAIN seen]
  BY <1>1 DEF SetToSeqs
<1>5. Len(t) = n
  BY <1>3, <1>4
<1>6. m \in Nat /\ m <= n /\ m <= limit
  BY <1>3, ConfigTyped
<1>7. \A k \in DOMAIN seen : \E i \in DOMAIN given : seen[k] = given[i]
  <2> SUFFICES ASSUME NEW k \in DOMAIN seen
               PROVE  \E i \in DOMAIN given : seen[k] = given[i]
    OBVIOUS
  <2>1. PICK i \in 1..at : seen[k] = given[i]
    BY DEF MergeInv
  <2> QED
    BY <2>1, GivenResults
<1>8. s = [i \in 1..m |-> seen[t[i]]]
  BY <1>1, <1>5
<1>9. \A i, j \in 1..n : i < j => seen[t[i]].score >= seen[t[j]].score
  BY <1>1, <1>4 DEF Ordered
<1> HIDE DEF m, n
<1>10. \A i \in 1..m : t[i] \in DOMAIN seen /\ i \in 1..n
  BY <1>3, <1>4, <1>6
<1>11. \A k \in DOMAIN s : \E i \in DOMAIN given : s[k] = given[i]
  BY <1>7, <1>8, <1>10
<1>12. s \in [1..m -> SearchResults]
  BY <1>7, <1>8, <1>10, GivenResults
<1>13. s \in Seq(SearchResults) /\ Len(s) <= limit
  BY <1>6, <1>8, <1>12
<1>14. Descending(s)
  BY <1>8, <1>9, <1>10 DEF Descending
<1> QED
  BY <1>11, <1>13, <1>14

(* The place of a result among those of its provider: each has its own.    *)
LEMMA PlacesRise ==
  ASSUME NEW s \in Seq(SearchResults), NEW i \in DOMAIN s
  PROVE  /\ Place(s, i) \in 0..Len(s) - 1
         /\ \A j \in DOMAIN s :
              j < i /\ s[j].provider = s[i].provider => Place(s, j) < Place(s, i)
PROOF
<1> DEFINE Mine(k) == {j \in 1..k - 1 : s[j].provider = s[k].provider}
<1>1. DOMAIN s = 1..Len(s) /\ Len(s) \in Nat
  OBVIOUS
<1>2. ASSUME NEW k \in DOMAIN s
      PROVE  /\ IsFiniteSet(Mine(k)) /\ Place(s, k) = Cardinality(Mine(k))
             /\ Place(s, k) \in 0..k - 1
  <2>1. k \in Nat /\ k >= 1
    BY <1>1
  <2>2. IsFiniteSet(1..k - 1) /\ Cardinality(1..k - 1) = k - 1
    <3>1. k - 1 \in Int /\ 1 \in Int /\ ~(1 > k - 1 + 1)
      BY <2>1
    <3>2. /\ IsFiniteSet(1..k - 1)
          /\ Cardinality(1..k - 1) = IF 1 > k - 1 THEN 0 ELSE (k - 1) - 1 + 1
      BY <3>1, FS_Interval
    <3> QED
      BY <2>1, <3>2
  <2>3. Mine(k) \in SUBSET (1..k - 1)
    OBVIOUS
  <2>4. Place(s, k) = Cardinality(Mine(k))
    BY DEF Place
  <2> HIDE DEF Mine
  <2>5. IsFiniteSet(Mine(k)) /\ Cardinality(Mine(k)) <= Cardinality(1..k - 1)
    BY <2>2, <2>3, FS_Subset
  <2>6. Cardinality(Mine(k)) \in Nat
    BY <2>5, FS_CardinalityType
  <2> QED
    BY <2>1, <2>2, <2>4, <2>5, <2>6
<1>3. ASSUME NEW j \in DOMAIN s, j < i, s[j].provider = s[i].provider
      PROVE  Place(s, j) < Place(s, i)
  <2>1. i \in Int /\ j \in Int /\ 1 <= j
    BY <1>1
  <2>2. Mine(j) \in SUBSET Mine(i) /\ j \in Mine(i) /\ j \notin Mine(j)
    BY <1>3, <2>1
  <2> HIDE DEF Mine
  <2>3. /\ Cardinality(Mine(j)) <= Cardinality(Mine(i))
        /\ Cardinality(Mine(j)) # Cardinality(Mine(i))
    BY <1>2, <2>2, FS_Subset
  <2>4. /\ Place(s, j) = Cardinality(Mine(j)) /\ Place(s, i) = Cardinality(Mine(i))
        /\ Place(s, j) \in Int /\ Place(s, i) \in Int
    BY <1>2, <2>1
  <2> QED
    BY <2>3, <2>4
<1>4. Place(s, i) \in 0..i - 1
  BY <1>2
<1>5. i \in 1..Len(s)
  BY <1>1
<1> QED
  BY <1>1, <1>3, <1>4, <1>5

LEMMA ProductRises ==
  ASSUME NEW w \in Nat \ {0}, NEW x \in Int, NEW y \in Int, x < y
  PROVE  w * x < w * y
PROOF
<1>1. w * (y - x) > 0
  OBVIOUS
<1>2. w * (y - x) = w * y - w * x
  OBVIOUS
<1>3. w * x \in Int /\ w * y \in Int
  OBVIOUS
<1> QED
  BY <1>1, <1>2, <1>3

LEMMA PartTyped ==
  ASSUME NEW d \in Dimensions, NEW x \in Int
  PROVE  Part(d, x) \in Int
PROOF
<1>1. d.enabled \in BOOLEAN /\ d.weight \in Int
  BY DEF Dimensions
<1>2. d.weight * x \in Int
  BY <1>1
<1> QED
  BY <1>2 DEF Part

LEMMA CompositeTyped ==
  ASSUME GivenTyped, NEW r \in SearchResults, NEW p \in 0..MaxLimit
  PROVE  composite(r, p) \in Int
PROOF
<1>1. One \in Int /\ Worth[p] \in Int
  BY RankingConstants DEF One
<1>2. WeightOf[r.provider] \in Int
  BY RankingConstants DEF SearchResults
<1>3. One * WeightOf[r.provider] \in Int
  BY <1>1, <1>2
<1>4. FreshnessOf(r.date) \in Int
  <2>1. One \div 2 \in Int
    BY <1>1
  <2> QED
    BY <1>1, <2>1 DEF FreshnessOf
<1>5. /\ Part(config.reputation, One * WeightOf[r.provider]) \in Int
      /\ Part(config.position, Worth[p]) \in Int
      /\ Part(config.freshness, FreshnessOf(r.date)) \in Int
  BY <1>1, <1>3, <1>4, ConfigTyped, PartTyped
<1> QED
  BY <1>5 DEF composite

(* Where the place is all that counts between two results of a provider, a *)
(* later place is worth less.                                              *)
LEMMA CompositeFalls ==
  ASSUME GivenTyped, ByPlace,
         NEW r \in SearchResults, NEW t \in SearchResults, r.provider = t.provider,
         NEW a \in 0..MaxLimit, NEW b \in 0..MaxLimit, a < b
  PROVE  composite(t, b) < composite(r, a)
PROOF
<1> DEFINE x == Worth[b]
           y == Worth[a]
           w == config.position.weight
           c == Part(config.reputation, One * WeightOf[r.provider])
<1>1. x \in Int /\ y \in Int /\ x < y
  BY RankingConstants
<1>2. w \in Nat \ {0} /\ config.position.enabled
  <2>1. w \in Int
    BY ConfigTyped DEF Dimensions
  <2> QED
    BY <2>1 DEF ByPlace
<1>3. c \in Int
  <2>1. One \in Int /\ WeightOf[r.provider] \in Int
    BY RankingConstants DEF SearchResults, One
  <2>2. One * WeightOf[r.provider] \in Int
    BY <2>1
  <2> QED
    BY <2>2, ConfigTyped, PartTyped
<1>4. w * x < w * y /\ w * x \in Int /\ w * y \in Int
  <2> HIDE DEF x, y, w
  <2>1. w * x < w * y
    BY <1>1, <1>2, ProductRises
  <2> QED
    BY <2>1, <1>1, <1>2
<1>5. \A z : Part(config.freshness, z) = 0
  BY DEF Part, ByPlace
<1>6. composite(r, a) = c + w * y + 0
  BY <1>2, <1>5 DEF composite, Part
<1>7. composite(t, b) = c + w * x + 0
  BY <1>2, <1>5 DEF composite, Part
<1> HIDE DEF c, x, y, w
<1> QED
  BY <1>3, <1>4, <1>6, <1>7

(* What rank does to the scores: the results stay results.                 *)
LEMMA ScoredShape ==
  ASSUME GivenTyped, NEW s \in Seq(SearchResults), Len(s) <= limit
  PROVE  /\ Scored(s) \in Seq(SearchResults) /\ DOMAIN Scored(s) = DOMAIN s
         /\ \A i \in DOMAIN s :
              /\ Place(s, i) \in 0..MaxLimit
              /\ s[i] \in SearchResults
              /\ Scored(s)[i].score = composite(s[i], Place(s, i))
              /\ Scored(s)[i].score \in Int
              /\ Scored(s)[i].provider = s[i].provider
              /\ Scored(s)[i].native = s[i].native
PROOF
<1>1. limit \in Nat /\ limit <= MaxLimit /\ MaxLimit \in Nat
  BY RankingConstants DEF GivenTyped
<1>2. DOMAIN s = 1..Len(s) /\ Len(s) \in Nat
  OBVIOUS
<1>3. ASSUME NEW i \in DOMAIN s
      PROVE  /\ Place(s, i) \in 0..MaxLimit /\ s[i] \in SearchResults
             /\ composite(s[i], Place(s, i)) \in Int
  <2>1. Place(s, i) \in 0..Len(s) - 1
    BY PlacesRise
  <2>2. Place(s, i) \in 0..MaxLimit
    BY <1>1, <1>2, <2>1
  <2>3. s[i] \in SearchResults
    OBVIOUS
  <2> QED
    BY <2>2, <2>3, CompositeTyped
<1>4. ASSUME NEW r \in SearchResults, NEW x \in Int
      PROVE  /\ [r EXCEPT !.score = x] \in SearchResults
             /\ [r EXCEPT !.score = x].score = x
             /\ [r EXCEPT !.score = x].provider = r.provider
             /\ [r EXCEPT !.score = x].native = r.native
  BY DEF SearchResults
<1>5. \A i \in DOMAIN s :
         Scored(s)[i] = [s[i] EXCEPT !.score = composite(s[i], Place(s, i))]
  BY DEF Scored
<1>6. Scored(s) \in Seq(SearchResults) /\ DOMAIN Scored(s) = DOMAIN s
  <2> DEFINE v(i) == [s[i] EXCEPT !.score = composite(s[i], Place(s, i))]
  <2>1. \A i \in 1..Len(s) : v(i) \in SearchResults
    BY <1>2, <1>3, <1>4
  <2>2. Scored(s) = [i \in 1..Len(s) |-> v(i)]
    BY <1>2 DEF Scored
  <2> HIDE DEF v
  <2>3. Scored(s) \in [1..Len(s) -> SearchResults]
    BY <2>1, <2>2
  <2> QED
    BY <1>2, <2>3
<1> DEFINE c(i) == composite(s[i], Place(s, i))
<1>7. ASSUME NEW i \in DOMAIN s
      PROVE  /\ Scored(s)[i].score = c(i)
             /\ Scored(s)[i].provider = s[i].provider
             /\ Scored(s)[i].native = s[i].native
  <2>1. Scored(s)[i] = [s[i] EXCEPT !.score = c(i)]
    BY <1>5
  <2>2. s[i] \in SearchResults /\ c(i) \in Int
    BY <1>3
  <2> HIDE DEF c
  <2> QED
    BY <1>4, <2>1, <2>2
<1> QED
  BY <1>3, <1>6, <1>7

(* Sorting by score is sorting: the order is strict and total.             *)
LEMMA ScoresOrder ==
  ASSUME NEW t \in Seq(SearchResults)
  PROVE  LET D == DOMAIN t
             R == ByScore(t)
         IN  /\ \A x \in D : <<x, x>> \notin R
             /\ \A x, y, z \in D : <<x, y>> \in R /\ <<y, z>> \in R => <<x, z>> \in R
             /\ \A x, y \in D : x = y \/ <<x, y>> \in R \/ <<y, x>> \in R
             /\ \A x, y \in D : <<x, y>> \in R => t[x].score >= t[y].score
PROOF
<1> DEFINE D        == DOMAIN t
           R        == ByScore(t)
           score(i) == t[i].score
<1>1. \A x \in D : x \in Int /\ score(x) \in Int
  <2> SUFFICES ASSUME NEW x \in D
               PROVE  x \in Int /\ score(x) \in Int
    OBVIOUS
  <2>1. t[x] \in SearchResults /\ x \in Int
    OBVIOUS
  <2> QED
    BY <2>1 DEF SearchResults
<1>2. \A x, y \in D : <<x, y>> \in R <=>
         (score(x) > score(y) \/ (score(x) = score(y) /\ x < y))
  BY DEF ByScore
<1> HIDE DEF D, R, score
<1>3. \A x \in D : <<x, x>> \notin R
  BY <1>1, <1>2
<1>4. \A x, y, z \in D : <<x, y>> \in R /\ <<y, z>> \in R => <<x, z>> \in R
  BY <1>1, <1>2
<1>5. \A x, y \in D : x = y \/ <<x, y>> \in R \/ <<y, x>> \in R
  <2> SUFFICES ASSUME NEW x \in D, NEW y \in D
               PROVE  x = y \/ <<x, y>> \in R \/ <<y, x>> \in R
    OBVIOUS
  <2>1. \/ score(x) > score(y) \/ score(y) > score(x)
        \/ score(x) = score(y) /\ (x < y \/ y < x \/ x = y)
    BY <1>1
  <2> QED
    BY <2>1, <1>2
<1>6. \A x, y \in D : <<x, y>> \in R => score(x) >= score(y)
  BY <1>1, <1>2
<1> QED
  BY <1>3, <1>4, <1>5, <1>6 DEF D, R, score

(* A ranked list is a rearrangement of the scored one.                     *)
LEMMA RankShape ==
  ASSUME GivenTyped, NEW s \in Seq(SearchResults), Len(s) <= limit
  PROVE  /\ rank(s) \in Seq(SearchResults) /\ Len(rank(s)) = Len(s)
         /\ \A k \in DOMAIN rank(s) : \E x \in DOMAIN s : rank(s)[k] = Scored(s)[x]
         /\ Descending(rank(s))
PROOF
<1> DEFINE D == DOMAIN s
           t == Scored(s)
           R == ByScore(t)
           n == Len(s)
<1>1. D = 1..n /\ n \in Nat
  OBVIOUS
<1>2. IsFiniteSet(D) /\ Cardinality(D) = n
  BY <1>1, FS_Interval
<1>3. t \in Seq(SearchResults) /\ DOMAIN t = D /\ \A x \in D : t[x] \in SearchResults
  <2>1. t \in Seq(SearchResults) /\ DOMAIN t = D
    BY ScoredShape
  <2> HIDE DEF t, D
  <2> QED
    BY <2>1
<1>4. rank(s) = [k \in D |-> t[Nth(D, R, k)]]
  BY DEF rank
<1>5. /\ \A x \in D : <<x, x>> \notin R
      /\ \A x, y, z \in D : <<x, y>> \in R /\ <<y, z>> \in R => <<x, z>> \in R
      /\ \A x, y \in D : x = y \/ <<x, y>> \in R \/ <<y, x>> \in R
      /\ \A x, y \in D : <<x, y>> \in R => t[x].score >= t[y].score
  <2> HIDE DEF t, D
  <2> QED
    BY <1>3, ScoresOrder
<1> HIDE DEF D, R, n, t
<1>6. /\ \A k \in 1..n : Nth(D, R, k) \in D
      /\ \A k, l \in 1..n : k < l => <<Nth(D, R, k), Nth(D, R, l)>> \in R
  BY <1>2, <1>5, OrderNumbers
<1>7. rank(s) \in [1..n -> SearchResults]
  BY <1>1, <1>3, <1>4, <1>6
<1>8. rank(s) \in Seq(SearchResults) /\ Len(rank(s)) = n /\ DOMAIN rank(s) = 1..n
  BY <1>1, <1>7
<1>9. \A k \in 1..n : \E x \in D : rank(s)[k] = t[x]
  BY <1>1, <1>4, <1>6
<1>10. \A k, l \in 1..n : k < l => rank(s)[k].score >= rank(s)[l].score
  BY <1>1, <1>4, <1>5, <1>6
<1>11. Descending(rank(s))
  BY <1>8, <1>10 DEF Descending
<1> QED
  BY <1>8, <1>9, <1>11 DEF n, D, t

(* Types, and what the merge has kept, at every turn of the loop and in    *)
(* every merge.                                                            *)
LEMMA MergeInvariance == RankSpec => [](GivenTyped /\ MergeInv)
PROOF
<1>1. GivenTyped /\ MergeInv /\ [RankNext]_rankVars => GivenTyped' /\ MergeInv'
  <2> SUFFICES ASSUME GivenTyped, MergeInv, [RankNext]_rankVars
               PROVE  GivenTyped' /\ MergeInv'
    OBVIOUS
  <2>1. CASE MergeOne
    <3>1. GivenTyped'
      BY <2>1 DEF GivenTyped, MergeOne
    <3> QED
      BY <2>1, <3>1, MergeOneStep
  <2>2. CASE SortAndCut
    <3>1. UNCHANGED <<given, limit, config, at, seen>> /\ results' \in Cut
      BY <2>2 DEF SortAndCut
    <3>2. results' \in Seq(SearchResults) /\ Len(results') <= limit
      BY <3>1, CutInOrder
    <3>3. GivenTyped'
      BY <3>1, <3>2 DEF GivenTyped
    <3>4. MergeInv'
      BY <3>1 DEF MergeInv, Best, SamePage, PageOf
    <3> QED
      BY <3>3, <3>4
  <2>3. CASE Rank
    <3>1. UNCHANGED <<given, limit, config, at, seen>> /\ results' = rank(results)
      BY <2>3 DEF Rank
    <3>2. results' \in Seq(SearchResults) /\ Len(results') <= limit
      BY <3>1, RankShape DEF GivenTyped
    <3>3. GivenTyped'
      BY <3>1, <3>2 DEF GivenTyped
    <3>4. MergeInv'
      BY <3>1 DEF MergeInv, Best, SamePage, PageOf
    <3> QED
      BY <3>3, <3>4
  <2>4. ASSUME NEW before \in Others, NEW after \in Others, NEW lim \in Limits,
               MergeAgain(before, after, lim)
        PROVE  GivenTyped' /\ MergeInv'
    <3>1. /\ given' = before \o results \o after /\ limit' = lim /\ config' = config
          /\ at' = 0 /\ seen' = <<>> /\ results' = <<>>
      BY <2>4 DEF MergeAgain
    <3>2. /\ before \in Seq(SearchResults) /\ after \in Seq(SearchResults)
          /\ results \in Seq(SearchResults)
      BY RankingConstants DEF GivenTyped
    <3>3. before \o results \o after \in Seq(SearchResults)
      BY <3>2
    <3>4. lim \in Nat
      BY RankingConstants
    <3>5. GivenTyped'
      BY <3>1, <3>3, <3>4 DEF GivenTyped
    <3>6. MergeInv'
      BY <3>1 DEF MergeInv, PageOf
    <3> QED
      BY <3>5, <3>6
  <2>5. CASE UNCHANGED rankVars
    <3>1. GivenTyped'
      BY <2>5 DEF GivenTyped, rankVars
    <3>2. MergeInv'
      BY <2>5 DEF MergeInv, Best, SamePage, PageOf, rankVars
    <3> QED
      BY <3>1, <3>2
  <2> QED
    BY <2>1, <2>2, <2>3, <2>4, <2>5 DEF RankNext
<1> QED
  BY <1>1, RankInitInv, PTL DEF RankSpec

(* The key of a page is stable, whatever is added to a URL. *)
THEOREM PagesKeepTheirKeys == RankSpec => []KeysAreStable
PROOF
<1>1. GivenTyped => KeysAreStable
  <2> SUFFICES ASSUME GivenTyped, NEW i \in DOMAIN given
               PROVE  LET u   == given[i].url
                          key == canonicalize_url(u)
                      IN  /\ NoHiddenTracker(u) => canonicalize_url(key) = key
                          /\ \A v \in Tracked(u) : canonicalize_url(v) = key
    BY DEF KeysAreStable
  <2>1. given[i].url \in Urls
    BY GivenResults
  <2> QED
    BY <2>1, AddedIsLost, KeyOfKey
<1> QED
  BY <1>1, MergeInvariance, PTL

(* Best of each page, at every turn of the loop. *)
THEOREM BestIsKept == RankSpec => []BestOfEachPage
PROOF
<1>1. GivenTyped /\ MergeInv => BestOfEachPage
  <2> SUFFICES ASSUME GivenTyped, MergeInv
               PROVE  BestOfEachPage
    OBVIOUS
  <2>1. at \in Nat /\ \A i \in 1..at : given[i].score \in Int
    BY GivenResults
  <2>2. ASSUME NEW k \in DOMAIN seen
        PROVE  /\ \E i \in 1..at : Best(i) /\ seen[k] = given[i]
               /\ canonicalize_url(seen[k].url) = k
    BY DEF MergeInv, PageOf
  <2>3. ASSUME NEW i \in 1..at, Best(i)
        PROVE  \E k \in DOMAIN seen : seen[k] = given[i]
    <3>1. PageOf(i) \in DOMAIN seen
      BY DEF MergeInv
    <3>2. PICK j \in 1..at : PageOf(j) = PageOf(i) /\ Best(j) /\ seen[PageOf(i)] = given[j]
      BY <3>1 DEF MergeInv
    <3>3. SamePage(i, j) /\ SamePage(j, i)
      BY <3>2 DEF SamePage, PageOf
    <3>4. i = j
      BY <2>1, <2>3, <3>2, <3>3 DEF Best
    <3> QED
      BY <3>1, <3>2, <3>4
  <2> QED
    BY <2>2, <2>3 DEF BestOfEachPage
<1> QED
  BY <1>1, MergeInvariance, PTL

(* Ranking a list in which scores and the providers' own agree: the new    *)
(* scores agree with them too.                                             *)
LEMMA RankAgrees ==
  ASSUME GivenTyped, ByPlace,
         NEW s \in Seq(SearchResults), Len(s) <= limit, Descending(s), Agrees(s)
  PROVE  Agrees(rank(s))
PROOF
<1> DEFINE t == Scored(s)
<1>1. ASSUME NEW x \in DOMAIN s, NEW y \in DOMAIN s,
             s[x].provider = s[y].provider, t[x].score >= t[y].score
      PROVE  s[x].native >= s[y].native
  <2>1. /\ x \in Int /\ y \in Int
        /\ s[x] \in SearchResults /\ s[y] \in SearchResults
        /\ s[x].native \in Int /\ s[x].native >= s[x].native
    <3>1. s[x] \in SearchResults /\ s[y] \in SearchResults /\ x \in Int /\ y \in Int
      OBVIOUS
    <3>2. s[x].native \in Int
      BY <3>1 DEF SearchResults
    <3> QED
      BY <3>1, <3>2
  <2>2. ~(y < x)
    <3> SUFFICES ASSUME y < x
                 PROVE  FALSE
      OBVIOUS
    <3>1. Place(s, y) < Place(s, x)
      BY <1>1, PlacesRise
    <3>2. /\ Place(s, x) \in 0..MaxLimit /\ Place(s, y) \in 0..MaxLimit
          /\ t[x].score = composite(s[x], Place(s, x)) /\ t[x].score \in Int
          /\ t[y].score = composite(s[y], Place(s, y)) /\ t[y].score \in Int
      BY ScoredShape
    <3> HIDE DEF t
    <3>3. composite(s[x], Place(s, x)) < composite(s[y], Place(s, y))
      BY <1>1, <2>1, <3>1, <3>2, CompositeFalls
    <3> QED
      BY <1>1, <3>2, <3>3
  <2>3. CASE x = y
    BY <2>1, <2>3
  <2>4. CASE x < y
    <3>1. s[x].score >= s[y].score
      BY <2>4 DEF Descending
    <3> QED
      BY <1>1, <3>1 DEF Agrees
  <2> QED
    BY <2>1, <2>2, <2>3, <2>4
<1>2. SUFFICES ASSUME NEW k \in DOMAIN rank(s), NEW l \in DOMAIN rank(s),
                      rank(s)[k].provider = rank(s)[l].provider,
                      rank(s)[k].score >= rank(s)[l].score
               PROVE  rank(s)[k].native >= rank(s)[l].native
  BY DEF Agrees
<1>3. PICK x \in DOMAIN s : rank(s)[k] = t[x]
  BY RankShape
<1>4. PICK y \in DOMAIN s : rank(s)[l] = t[y]
  BY RankShape
<1>5. /\ t[x].provider = s[x].provider /\ t[x].native = s[x].native
      /\ t[y].provider = s[y].provider /\ t[y].native = s[y].native
  BY ScoredShape
<1> HIDE DEF t
<1> QED
  BY <1>1, <1>2, <1>3, <1>4, <1>5

(* Lists that agree, of different providers, agree when put together.      *)
LEMMA JoinedAgree ==
  ASSUME NEW s \in Seq(SearchResults), NEW before \in Others, NEW after \in Others,
         Agrees(s),
         \A i \in DOMAIN s, j \in DOMAIN before : s[i].provider # before[j].provider,
         \A i \in DOMAIN s, j \in DOMAIN after : s[i].provider # after[j].provider
  PROVE  Agrees(before \o s \o after)
PROOF
<1> DEFINE all == before \o s \o after
           Raw(r) == r.native = r.score
<1>1. before \in Seq(SearchResults) /\ after \in Seq(SearchResults)
  BY RankingConstants
<1>2. /\ \A j \in DOMAIN before : Raw(before[j])
      /\ \A j \in DOMAIN after : Raw(after[j])
  BY RankingConstants
<1>3. ASSUME NEW k \in DOMAIN all
      PROVE  \/ \E j \in DOMAIN before : all[k] = before[j]
             \/ \E i \in DOMAIN s : all[k] = s[i]
             \/ \E j \in DOMAIN after : all[k] = after[j]
  <2>1. /\ Len(before) \in Nat /\ Len(s) \in Nat /\ Len(after) \in Nat
        /\ DOMAIN before = 1..Len(before) /\ DOMAIN s = 1..Len(s)
        /\ DOMAIN after = 1..Len(after)
    BY <1>1
  <2>2. Len(all) = Len(before) + Len(s) + Len(after) /\ DOMAIN all = 1..Len(all)
    BY <1>1
  <2>3. CASE k <= Len(before)
    <3>1. k \in 1..Len(before) /\ all[k] = before[k]
      BY <1>1, <2>1, <2>2, <2>3
    <3> QED
      BY <2>1, <3>1
  <2>4. CASE k > Len(before) /\ k <= Len(before) + Len(s)
    <3>1. k - Len(before) \in 1..Len(s) /\ all[k] = s[k - Len(before)]
      BY <1>1, <2>1, <2>2, <2>4
    <3> QED
      BY <2>1, <3>1
  <2>5. CASE k > Len(before) + Len(s)
    <3>1. k - (Len(before) + Len(s)) \in 1..Len(after)
      BY <2>1, <2>2, <2>5
    <3>2. all[k] = after[k - (Len(before) + Len(s))]
      BY <1>1, <2>1, <2>2, <2>5
    <3> QED
      BY <2>1, <3>1, <3>2
  <2> QED
    BY <2>1, <2>2, <2>3, <2>4, <2>5
<1>4. SUFFICES ASSUME NEW k \in DOMAIN all, NEW l \in DOMAIN all,
                      all[k].provider = all[l].provider, all[k].score >= all[l].score
               PROVE  all[k].native >= all[l].native
  BY DEF Agrees
<1> HIDE DEF all
<1>5. CASE \E i \in DOMAIN s : all[k] = s[i]
  <2>1. \E j \in DOMAIN s : all[l] = s[j]
    BY <1>3, <1>4, <1>5
  <2> QED
    BY <1>4, <1>5, <2>1 DEF Agrees
<1>6. CASE ~\E i \in DOMAIN s : all[k] = s[i]
  <2>1. Raw(all[k])
    BY <1>2, <1>3, <1>6
  <2>2. ~\E i \in DOMAIN s : all[l] = s[i]
    BY <1>3, <1>4, <1>6
  <2>3. Raw(all[l])
    BY <1>2, <1>3, <2>2
  <2> QED
    BY <1>4, <2>1, <2>3
<1> QED
  BY <1>5, <1>6

(* What a provider scored higher stays ahead, however often its results    *)
(* are ranked, cached and merged with those of others.                     *)
THEOREM ProvidersKeepTheirOrder == RankSpec => []ProviderOrderKept
PROOF
<1>1. RankInit => OrderInv
  <2> SUFFICES ASSUME RankInit
               PROVE  OrderInv
    OBVIOUS
  <2>1. results = <<>> /\ phase = "merging" /\ given \in Inputs
    BY DEF RankInit
  <2>2. Agrees(given)
    BY <2>1, RankingConstants DEF Agrees
  <2>3. Agrees(results) /\ ProvidersOf(results) = {}
    BY <2>1 DEF Agrees, ProvidersOf
  <2> QED
    BY <2>1, <2>2, <2>3 DEF OrderInv, ProviderOrderKept
<1>2. GivenTyped /\ MergeInv /\ OrderInv /\ [RankNext]_rankVars => OrderInv'
  <2> SUFFICES ASSUME GivenTyped, MergeInv, OrderInv, [RankNext]_rankVars
               PROVE  OrderInv'
    OBVIOUS
  <2>1. CASE MergeOne
    <3>1. phase' = "merging" /\ phase = "merging" /\ UNCHANGED <<given, config, results>>
      BY <2>1 DEF MergeOne
    <3> QED
      BY <3>1 DEF OrderInv, ProviderOrderKept, ByPlace, Agrees, ProvidersOf
  <2>2. CASE SortAndCut
    <3>1. phase' = "merged" /\ UNCHANGED <<given, config>> /\ results' \in Cut
      BY <2>2 DEF SortAndCut
    <3>2. /\ Descending(results')
          /\ \A k \in DOMAIN results' : \E i \in DOMAIN given : results'[k] = given[i]
      BY <3>1, CutInOrder
    <3>3. ProvidersOf(results') \subseteq ProvidersOf(given)
      BY <3>2 DEF ProvidersOf
    <3>4. Agrees(given) => Agrees(results')
      BY <3>2 DEF Agrees
    <3> QED
      BY <3>1, <3>2, <3>3, <3>4
      DEF OrderInv, ProviderOrderKept, ByPlace, Agrees, ProvidersOf, Descending
  <2>3. CASE Rank
    <3>1. /\ phase = "merged" /\ phase' = "ranked" /\ UNCHANGED <<given, config>>
          /\ results' = rank(results)
      BY <2>3 DEF Rank
    <3>2. results \in Seq(SearchResults) /\ Len(results) <= limit /\ Descending(results)
      BY <3>1 DEF GivenTyped, OrderInv
    <3>3. /\ \A k \in DOMAIN rank(results) :
                \E x \in DOMAIN results : rank(results)[k] = Scored(results)[x]
          /\ Descending(rank(results))
      BY <3>2, RankShape
    <3>4. \A x \in DOMAIN results : Scored(results)[x].provider = results[x].provider
      BY <3>2, ScoredShape
    <3>5. ProvidersOf(rank(results)) \subseteq ProvidersOf(results)
      BY <3>3, <3>4 DEF ProvidersOf
    <3>6. ByPlace => Agrees(rank(results))
      BY <3>2, RankAgrees DEF OrderInv
    <3>7. Agrees(rank(results)) => InProviderOrder(rank(results))
      BY <3>3 DEF Agrees, Descending, InProviderOrder
    <3> HIDE DEF rank
    <3> QED
      BY <3>1, <3>5, <3>6, <3>7
      DEF OrderInv, ProviderOrderKept, ByPlace, Agrees, ProvidersOf, InProviderOrder
  <2>4. ASSUME NEW before \in Others, NEW after \in Others, NEW lim \in Limits,
               MergeAgain(before, after, lim)
        PROVE  OrderInv'
    <3>1. /\ given' = before \o results \o after /\ config' = config
          /\ results' = <<>> /\ phase' = "merging"
          /\ Elsewhere(given, before \o after)
      BY <2>4 DEF MergeAgain
    <3>2. /\ before \in Seq(SearchResults) /\ after \in Seq(SearchResults)
          /\ results \in Seq(SearchResults)
      BY RankingConstants DEF GivenTyped
    <3>3. /\ \A j \in DOMAIN before : \E k \in DOMAIN (before \o after) :
                before[j] = (before \o after)[k]
          /\ \A j \in DOMAIN after : \E k \in DOMAIN (before \o after) :
                after[j] = (before \o after)[k]
      <4>1. ASSUME NEW j \in DOMAIN before
            PROVE  j \in DOMAIN (before \o after) /\ before[j] = (before \o after)[j]
        BY <3>2
      <4>2. ASSUME NEW j \in DOMAIN after
            PROVE  /\ Len(before) + j \in DOMAIN (before \o after)
                   /\ after[j] = (before \o after)[Len(before) + j]
        BY <3>2
      <4> QED
        BY <4>1, <4>2
    <3>4. \A i \in DOMAIN results : \E k \in DOMAIN given : results[i].provider = given[k].provider
      BY DEF OrderInv, ProvidersOf
    <3>5. /\ \A i \in DOMAIN results, j \in DOMAIN before :
                results[i].provider # before[j].provider
          /\ \A i \in DOMAIN results, j \in DOMAIN after :
                results[i].provider # after[j].provider
      <4>1. \A i \in DOMAIN given, k \in DOMAIN (before \o after) :
               given[i].provider # (before \o after)[k].provider
        BY <3>1 DEF Elsewhere
      <4> DEFINE both == before \o after
      <4> HIDE DEF both
      <4>2. ASSUME NEW i \in DOMAIN results, NEW k \in DOMAIN both
            PROVE  results[i].provider # both[k].provider
        BY <3>4, <4>1 DEF both
      <4>3. ASSUME NEW i \in DOMAIN results, NEW j \in DOMAIN before
            PROVE  results[i].provider # before[j].provider
        <5>1. PICK k \in DOMAIN both : before[j] = both[k]
          BY <3>3 DEF both
        <5> QED
          BY <4>2, <5>1
      <4>4. ASSUME NEW i \in DOMAIN results, NEW j \in DOMAIN after
            PROVE  results[i].provider # after[j].provider
        <5>1. PICK k \in DOMAIN both : after[j] = both[k]
          BY <3>3 DEF both
        <5> QED
          BY <4>2, <5>1
      <4> QED
        BY <4>3, <4>4
    <3>6. ByPlace => Agrees(before \o results \o after)
      BY <3>2, <3>5, JoinedAgree DEF OrderInv
    <3>7. Agrees(<<>>) /\ ProvidersOf(<<>>) = {}
      BY DEF Agrees, ProvidersOf
    <3> QED
      BY <3>1, <3>6, <3>7 DEF OrderInv, ProviderOrderKept, ByPlace, Agrees, ProvidersOf
  <2>5. CASE UNCHANGED rankVars
    BY <2>5 DEF rankVars, OrderInv, ProviderOrderKept, InProviderOrder, Descending,
                Agrees, ProvidersOf, ByPlace
  <2> QED
    BY <2>1, <2>2, <2>3, <2>4, <2>5 DEF RankNext
<1>3. OrderInv => ProviderOrderKept
  BY DEF OrderInv
<1> QED
  BY <1>1, <1>2, <1>3, MergeInvariance, PTL DEF RankSpec
=============================================================================
