--------------------------- MODULE Clients_proofs ---------------------------
(* Proofs about Clients: whose answers a call gets, and how often its      *)
(* requests are served, for any number of calls and starts of the daemon.  *)
EXTENDS Clients, TLAPS, SequenceTheorems

(* Every handler sends at least one request.                               *)
LEMMA RequestsShape ==
    ASSUME NEW c \in Calls, NEW inv \in Invocations[c]
    PROVE  RequestsOf(inv) \in Seq(RequestTypes) /\ Len(RequestsOf(inv)) >= 1
<1>1. \/ /\ inv.client = "mcp"
         /\ inv.tool \in {"search", "fetch", "list_providers", "cache_stats"}
      \/ /\ inv.client = "cli"
         /\ inv.tool \in {"search", "fetch", "status", "list_providers", "cache_clear"}
  BY ClientConstants
<1>2. RequestsOf(inv) \in {<<"Search">>, <<"Fetch">>, <<"ListProviders">>, <<"CacheStats">>,
                           <<"Health", "ProviderStatus", "CacheStats">>, <<"CacheClear">>}
  <2>1. CASE inv.client = "mcp" /\ inv.tool = "search"
    BY <2>1 DEF RequestsOf, HandlerOf, ToolOf, handle_search, Handler
  <2>2. CASE inv.client = "mcp" /\ inv.tool = "fetch"
    BY <2>2 DEF RequestsOf, HandlerOf, ToolOf, handle_fetch, Handler
  <2>3. CASE inv.client = "mcp" /\ inv.tool = "list_providers"
    BY <2>3 DEF RequestsOf, HandlerOf, ToolOf, handle_list_providers, Handler
  <2>4. CASE inv.client = "mcp" /\ inv.tool = "cache_stats"
    BY <2>4 DEF RequestsOf, HandlerOf, ToolOf, handle_cache_stats, Handler
  <2>5. CASE inv.client = "cli" /\ inv.tool = "search"
    BY <2>5 DEF RequestsOf, HandlerOf, CommandOf, cmd_search, Handler
  <2>6. CASE inv.client = "cli" /\ inv.tool = "fetch"
    BY <2>6 DEF RequestsOf, HandlerOf, CommandOf, cmd_fetch, Handler
  <2>7. CASE inv.client = "cli" /\ inv.tool = "status"
    BY <2>7 DEF RequestsOf, HandlerOf, CommandOf, cmd_status, Handler
  <2>8. CASE inv.client = "cli" /\ inv.tool = "list_providers"
    BY <2>8 DEF RequestsOf, HandlerOf, CommandOf, cmd_providers, Handler
  <2>9. CASE inv.client = "cli" /\ inv.tool = "cache_clear"
    BY <2>9 DEF RequestsOf, HandlerOf, CommandOf, cmd_cache_clear, Handler
  <2> QED
    BY <1>1, <2>1, <2>2, <2>3, <2>4, <2>5, <2>6, <2>7, <2>8, <2>9
<1>3. ASSUME NEW s \in {<<"Search">>, <<"Fetch">>, <<"ListProviders">>, <<"CacheStats">>,
                        <<"Health", "ProviderStatus", "CacheStats">>, <<"CacheClear">>}
      PROVE  s \in Seq(RequestTypes) /\ Len(s) >= 1
  <2>1. \A x \in RequestTypes : <<x>> \in Seq(RequestTypes) /\ Len(<<x>>) = 1
    OBVIOUS
  <2>2. \A x, y, z \in RequestTypes :
           <<x, y, z>> \in Seq(RequestTypes) /\ Len(<<x, y, z>>) = 3
    OBVIOUS
  <2>3. /\ "Search" \in RequestTypes /\ "Fetch" \in RequestTypes
        /\ "ListProviders" \in RequestTypes /\ "CacheStats" \in RequestTypes
        /\ "Health" \in RequestTypes /\ "ProviderStatus" \in RequestTypes
        /\ "CacheClear" \in RequestTypes
    BY DEF RequestTypes
  <2>4. CASE s = <<"Health", "ProviderStatus", "CacheStats">>
    BY <2>2, <2>3, <2>4
  <2>5. CASE \E x \in RequestTypes : s = <<x>>
    BY <2>1, <2>5
  <2>6. s = <<"Health", "ProviderStatus", "CacheStats">> \/ \E x \in RequestTypes : s = <<x>>
    BY <2>3, Zenon
  <2> QED
    BY <2>4, <2>5, <2>6
<1> QED
  BY <1>2, <1>3

(* A prefix told by its length and its elements.                           *)
LEMMA PrefixIsSubSeq ==
    ASSUME NEW S, NEW s \in Seq(S), NEW u \in Seq(S), NEW n \in 0..Len(u),
           Len(s) = n, \A k \in 1..n : s[k] = u[k]
    PROVE  s = SubSeq(u, 1, n) /\ (n = Len(u) => s = u)
<1>1. SubSeq(u, 1, n) \in Seq(S) /\ Len(SubSeq(u, 1, n)) = n
  BY SubSeqProperties
<1>2. \A k \in 1..n : SubSeq(u, 1, n)[k] = u[k]
  BY SubSeqProperties
<1>3. s = SubSeq(u, 1, n)
  BY <1>1, <1>2, SeqEqual
<1>4. n = Len(u) => s = u
  BY SeqEqual
<1> QED
  BY <1>3, <1>4

(* One call or one connection is replaced.                                 *)
LEMMA CallUpdate ==
    ASSUME NEW S, NEW T, NEW f \in [S -> T], NEW x \in S, NEW v \in T
    PROVE  /\ [f EXCEPT ![x] = v] \in [S -> T]
           /\ [f EXCEPT ![x] = v][x] = v
           /\ \A y \in S \ {x} : [f EXCEPT ![x] = v][y] = f[y]
OBVIOUS

LEMMA ConnUpdate ==
    ASSUME NEW T, NEW s \in Seq(T), NEW i \in DOMAIN s, NEW v \in T
    PROVE  /\ [s EXCEPT ![i] = v] \in Seq(T)
           /\ DOMAIN [s EXCEPT ![i] = v] = DOMAIN s
           /\ [s EXCEPT ![i] = v][i] = v
           /\ \A j \in DOMAIN s \ {i} : [s EXCEPT ![i] = v][j] = s[j]
OBVIOUS

(* A call that a step leaves alone, and whose connection goes on only as   *)
(* far as it has been served.                                              *)
LEMMA CallKeeps ==
    ASSUME NEW q \in Calls, CallFits(q),
           call'[q] = call[q], served'[q] = served[q],
           call[q].pc \in {"sending", "waiting"} =>
              /\ call[q].conn \in DOMAIN conns'
              /\ conns'[call[q].conn].owner = conns[call[q].conn].owner
              /\ conns'[call[q].conn].request = conns[call[q].conn].request
              /\ conns'[call[q].conn].server \in {"serving", "answered"} =>
                     conns[call[q].conn].server \in {"serving", "answered"}
    PROVE  CallFits(q)'
BY DEF CallFits, ServedUpTo, Conn, Request

(* A connection that a step leaves alone, with its owner.                  *)
LEMMA ConnKeeps ==
    ASSUME NEW j \in DOMAIN conns, ConnFits(j),
           conns'[j].server \in {conns[j].server, "closed"},
           conns'[j].owner = conns[j].owner,
           conns'[j].request = conns[j].request,
           conns'[j].reply = conns[j].reply,
           conns[j].server \in {"open", "sent"} =>
              /\ call'[conns[j].owner] = call[conns[j].owner]
              /\ served'[conns[j].owner] = served[conns[j].owner]
    PROVE  ConnFits(j)'
BY DEF ConnFits, ServedUpTo, Request, Tells, read_line_limited

-----------------------------------------------------------------------------
(* The clients *)

LEMMA EndsShape ==
    ASSUME ClientTypes, NEW c \in Calls, NEW outcome \in Outcomes, Ends(c, outcome)
    PROVE  /\ call' \in [Calls -> CallRecords]
           /\ \A q \in Calls \ {c} : call'[q] = call[q]
           /\ call'[c].pc = "done" /\ call'[c].outcome = outcome
           /\ call'[c].inv = call[c].inv /\ call'[c].step = call[c].step
           /\ call'[c].conn = call[c].conn /\ call'[c].replies = call[c].replies
BY DEF Ends, ClientTypes, CallRecords, Outcomes

(* A call moves on while its connections stay: it must not leave a request *)
(* that is not served yet, unless it gives up.                             *)
LEMMA CallMoves ==
    ASSUME ClientInv, NEW c \in Calls,
           call' \in [Calls -> CallRecords],
           \A q \in Calls \ {c} : call'[q] = call[q],
           conns' \in Seq(ConnRecords), DOMAIN conns' = DOMAIN conns,
           \A j \in DOMAIN conns :
              /\ conns'[j].server = conns[j].server /\ conns'[j].owner = conns[j].owner
              /\ conns'[j].request = conns[j].request /\ conns'[j].reply = conns[j].reply,
           served' = served, now' = now,
           CallFits(c)',
           \A k \in DOMAIN call'[c].replies :
              /\ call'[c].replies[k].to = c
              /\ call'[c].replies[k].request = RequestsOf(call'[c].inv)[k],
           \A j \in DOMAIN conns : conns[j].owner = c /\ conns[j].server \in {"open", "sent"} =>
              /\ call'[c].pc = "done" /\ call'[c].outcome # "ok"
              /\ call'[c].conn = call[c].conn
              /\ call'[c].step = call[c].step /\ call'[c].inv = call[c].inv
    PROVE  ClientInv'
<1>1. ClientTypes'
  BY DEF ClientInv, ClientTypes
<1>2. \A q \in Calls : CallFits(q)'
  <2>1. ASSUME NEW q \in Calls, q # c PROVE CallFits(q)'
    <3>1. CallFits(q)
      BY DEF ClientInv
    <3>2. call[q].pc \in {"sending", "waiting"} => call[q].conn \in DOMAIN conns
      BY <3>1 DEF CallFits
    <3> QED
      BY <2>1, <3>1, <3>2, CallKeeps
  <2> QED
    BY <2>1
<1>3. \A j \in DOMAIN conns' : ConnFits(j)'
  <2> SUFFICES ASSUME NEW j \in DOMAIN conns PROVE ConnFits(j)'
    OBVIOUS
  <2>1. ConnFits(j) /\ conns[j].owner \in Calls
    <3>1. conns[j] \in ConnRecords
      BY DEF ClientInv, ClientTypes
    <3> QED
      BY <3>1 DEF ClientInv, ConnRecords
  <2>2. CASE conns[j].owner = c /\ conns[j].server \in {"open", "sent"}
    BY <2>1, <2>2, ZenonT(60) DEF ConnFits, ServedUpTo, Request
  <2>3. CASE ~(conns[j].owner = c /\ conns[j].server \in {"open", "sent"})
    BY <2>1, <2>3, ConnKeeps
  <2> QED
    BY <2>2, <2>3
<1>4. OwnAnswers'
  BY DEF ClientInv, OwnAnswers
<1> QED
  BY <1>1, <1>2, <1>3, <1>4 DEF ClientInv

(* A call that ends without success.                                       *)
LEMMA EndsClient ==
    ASSUME ClientInv, NEW c \in Calls, call[c].pc \in {"connecting", "sending", "waiting"},
           NEW outcome \in Outcomes \ {"ok", "none"}, Ends(c, outcome),
           conns' \in Seq(ConnRecords), DOMAIN conns' = DOMAIN conns,
           \A j \in DOMAIN conns :
              /\ conns'[j].server = conns[j].server /\ conns'[j].owner = conns[j].owner
              /\ conns'[j].request = conns[j].request /\ conns'[j].reply = conns[j].reply,
           served' = served, now' = now
    PROVE  ClientInv'
<1>1. ClientTypes /\ CallFits(c) /\ OwnAnswers
  BY DEF ClientInv
<1>2. /\ call' \in [Calls -> CallRecords]
      /\ \A q \in Calls \ {c} : call'[q] = call[q]
      /\ call'[c].pc = "done" /\ call'[c].outcome = outcome
      /\ call'[c].inv = call[c].inv /\ call'[c].step = call[c].step
      /\ call'[c].conn = call[c].conn /\ call'[c].replies = call[c].replies
  BY <1>1, EndsShape
<1>3. CallFits(c)'
  <2>1. \E n \in 0..Len(RequestsOf(call[c].inv)) : ServedUpTo(c, n)
    BY <1>1 DEF CallFits, ServedUpTo
  <2>2. \A n : ServedUpTo(c, n) => ServedUpTo(c, n)'
    BY <1>2 DEF ServedUpTo
  <2>3. call[c].inv \in Invocations[c]
    BY <1>1 DEF CallFits
  <2> QED
    BY <1>2, <2>1, <2>2, <2>3 DEF CallFits
<1>4. \A k \in DOMAIN call'[c].replies :
         /\ call'[c].replies[k].to = c
         /\ call'[c].replies[k].request = RequestsOf(call'[c].inv)[k]
  BY <1>1, <1>2 DEF OwnAnswers
<1> QED
  BY <1>2, <1>3, <1>4, CallMoves

LEMMA BeginsClient ==
    ASSUME ClientInv, NEW c \in Calls, NEW inv \in Invocations[c], Begins(c, inv)
    PROVE  ClientInv'
<1>1. ClientTypes /\ CallFits(c) /\ OwnAnswers
  BY DEF ClientInv
<1>2. call[c].pc = "idle" /\ UNCHANGED <<now, conns, served>>
  BY DEF Begins
<1>3. PICK pc \in {"connecting", "done"}, outcome \in {"none", "-32602", "exit_1"} :
         /\ call' = [call EXCEPT ![c].inv = inv, ![c].pc = pc, ![c].outcome = outcome]
         /\ pc = "connecting" => outcome = "none"
  BY DEF Begins
<1>4. /\ call' \in [Calls -> CallRecords]
      /\ \A q \in Calls \ {c} : call'[q] = call[q]
      /\ call'[c].pc = pc /\ call'[c].outcome = outcome
      /\ call'[c].inv = inv /\ call'[c].step = call[c].step
      /\ call'[c].conn = call[c].conn /\ call'[c].replies = call[c].replies
  <2>1. inv \in AllInvocations
    BY DEF AllInvocations
  <2> QED
    BY <1>1, <1>3, <2>1, ZenonT(60) DEF ClientTypes, CallRecords, Outcomes
<1>5. call[c].step = 1 /\ call[c].replies = <<>> /\ served[c] = <<>>
  BY <1>1, <1>2 DEF CallFits
<1>6. Len(RequestsOf(inv)) \in Nat /\ Len(RequestsOf(inv)) >= 1
  BY RequestsShape
<1>7. ServedUpTo(c, 0)'
  BY <1>2, <1>4, <1>5, <1>6 DEF ServedUpTo
<1>8. CallFits(c)'
  BY <1>3, <1>4, <1>5, <1>6, <1>7 DEF CallFits
<1>9. \A j \in DOMAIN conns : ~(conns[j].owner = c /\ conns[j].server \in {"open", "sent"})
  BY <1>2 DEF ClientInv, ConnFits
<1>10. \A k \in DOMAIN call'[c].replies :
          /\ call'[c].replies[k].to = c
          /\ call'[c].replies[k].request = RequestsOf(call'[c].inv)[k]
  BY <1>4, <1>5
<1>11. conns' \in Seq(ConnRecords)
  BY <1>1, <1>2 DEF ClientTypes
<1> QED
  BY <1>2, <1>4, <1>8, <1>9, <1>10, <1>11, CallMoves

(* A new connection has no request that anybody serves.                    *)
LEMMA ConnectsClient ==
    ASSUME ClientInv, NEW c \in Calls, Connects(c)
    PROVE  ClientInv'
<1> DEFINE conn == [server |-> "open", client |-> TRUE, owner |-> c,
                    begun |-> 0, request |-> "none", reply |-> NoReply]
<1>0. PICK n : n = Len(conns) + 1
  OBVIOUS
<1>1. ClientTypes /\ CallFits(c) /\ OwnAnswers
  BY DEF ClientInv
<1>2. /\ call[c].pc = "connecting"
      /\ conns' = Append(conns, conn)
      /\ call' = [call EXCEPT ![c].pc = "sending", ![c].conn = n]
      /\ UNCHANGED <<now, served>>
  BY <1>0 DEF Connects
<1>3. conn \in ConnRecords
  BY DEF ConnRecords, AllReplies, NoReply
<1>4. conn.server = "open" /\ conn.owner = c
  OBVIOUS
<1> HIDE DEF conn
<1>5. /\ conns' \in Seq(ConnRecords)
      /\ DOMAIN conns' = DOMAIN conns \cup {n}
      /\ \A j \in DOMAIN conns : conns'[j] = conns[j]
      /\ conns'[n] = conn /\ n \in Nat
  BY <1>0, <1>1, <1>2, <1>3 DEF ClientTypes
<1>6. /\ call' \in [Calls -> CallRecords]
      /\ \A q \in Calls \ {c} : call'[q] = call[q]
      /\ call'[c].pc = "sending" /\ call'[c].outcome = call[c].outcome
      /\ call'[c].inv = call[c].inv /\ call'[c].step = call[c].step
      /\ call'[c].conn = n /\ call'[c].replies = call[c].replies
  BY <1>1, <1>2, <1>5, ZenonT(60) DEF ClientTypes, CallRecords, Outcomes
<1>7. ClientTypes'
  BY <1>1, <1>2, <1>5, <1>6 DEF ClientTypes
<1>8. /\ call[c].step \in 1..Len(RequestsOf(call[c].inv))
      /\ Len(call[c].replies) = call[c].step - 1
      /\ call[c].outcome = "none" /\ call[c].inv \in Invocations[c]
      /\ ServedUpTo(c, call[c].step - 1)
  BY <1>1, <1>2 DEF CallFits
<1>9. ServedUpTo(c, call[c].step - 1)'
  BY <1>2, <1>6, <1>8 DEF ServedUpTo
<1>10. \A q \in Calls : CallFits(q)'
  <2>1. CallFits(c)'
    BY <1>4, <1>5, <1>6, <1>8, <1>9 DEF CallFits, Conn
  <2>2. ASSUME NEW q \in Calls, q # c PROVE CallFits(q)'
    <3>1. CallFits(q)
      BY DEF ClientInv
    <3>2. call[q].pc \in {"sending", "waiting"} => call[q].conn \in DOMAIN conns
      BY <3>1 DEF CallFits
    <3> QED
      BY <1>2, <1>5, <1>6, <2>2, <3>1, <3>2, CallKeeps
  <2> QED
    BY <2>1, <2>2
<1>11. \A j \in DOMAIN conns' : ConnFits(j)'
  <2>1. ASSUME NEW j \in DOMAIN conns PROVE ConnFits(j)'
    <3>1. ConnFits(j)
      BY DEF ClientInv
    <3>2. conns[j].server \in {"open", "sent"} => conns[j].owner # c
      BY <3>1, <1>2 DEF ConnFits
    <3>3. conns[j].owner \in Calls
      <4>1. conns[j] \in ConnRecords
        BY <1>1 DEF ClientTypes
      <4> QED
        BY <4>1 DEF ConnRecords
    <3> QED
      BY <1>2, <1>5, <1>6, <3>1, <3>2, <3>3, ConnKeeps
  <2>2. ConnFits(n)'
    BY <1>4, <1>5, <1>6, <1>8, <1>9 DEF ConnFits
  <2> QED
    BY <1>5, <2>1, <2>2
<1>12. OwnAnswers'
  <2> SUFFICES ASSUME NEW q \in Calls, NEW k \in DOMAIN call'[q].replies
               PROVE  /\ call'[q].replies[k].to = q
                      /\ call'[q].replies[k].request = RequestsOf(call'[q].inv)[k]
    BY DEF OwnAnswers
  <2>1. call'[q].replies = call[q].replies /\ call'[q].inv = call[q].inv
    BY <1>6
  <2> QED
    BY <1>1, <2>1 DEF OwnAnswers
<1> QED
  BY <1>7, <1>10, <1>11, <1>12 DEF ClientInv

(* The line is written, on the call's own connection.                      *)
LEMMA SendsClient ==
    ASSUME ClientInv, NEW c \in Calls, Sends(c)
    PROVE  ClientInv'
<1>0. PICK i : i = call[c].conn
  OBVIOUS
<1>1. ClientTypes /\ CallFits(c) /\ OwnAnswers
  BY DEF ClientInv
<1>2. /\ call[c].pc = "sending" /\ conns[i].server = "open"
      /\ conns' = [conns EXCEPT ![i].server = "sent", ![i].request = Request(c)]
      /\ call' = [call EXCEPT ![c].pc = "waiting", ![c].sent_at = now]
      /\ UNCHANGED <<now, served>>
  BY <1>0 DEF Sends, Conn
<1>3. /\ call[c].step \in 1..Len(RequestsOf(call[c].inv))
      /\ Len(call[c].replies) = call[c].step - 1
      /\ call[c].outcome = "none" /\ call[c].inv \in Invocations[c]
      /\ i \in DOMAIN conns /\ conns[i].owner = c
  BY <1>0, <1>1, <1>2 DEF CallFits, Conn
<1>4. ServedUpTo(c, call[c].step - 1)
  BY <1>2, <1>3 DEF ClientInv, ConnFits
<1>5. Request(c) \in RequestTypes
  BY <1>3, RequestsShape DEF Request
<1>6. /\ conns' \in Seq(ConnRecords) /\ DOMAIN conns' = DOMAIN conns
      /\ \A j \in DOMAIN conns \ {i} : conns'[j] = conns[j]
      /\ conns'[i].server = "sent" /\ conns'[i].request = Request(c)
      /\ conns'[i].owner = c
  <2>1. conns[i] \in ConnRecords
    BY <1>1, <1>3 DEF ClientTypes
  <2>2. [conns[i] EXCEPT !.server = "sent", !.request = Request(c)] \in ConnRecords
    BY <1>5, <2>1 DEF ConnRecords
  <2>3. conns' = [conns EXCEPT ![i] = [conns[i] EXCEPT !.server = "sent", !.request = Request(c)]]
    BY <1>2
  <2>4. conns'[i].server = "sent" /\ conns'[i].request = Request(c) /\ conns'[i].owner = c
    BY <1>3, <2>1, <2>3 DEF ConnRecords
  <2> QED
    BY <1>1, <1>3, <2>2, <2>3, <2>4 DEF ClientTypes
<1>7. /\ call' \in [Calls -> CallRecords]
      /\ \A q \in Calls \ {c} : call'[q] = call[q]
      /\ call'[c].pc = "waiting" /\ call'[c].outcome = call[c].outcome
      /\ call'[c].inv = call[c].inv /\ call'[c].step = call[c].step
      /\ call'[c].conn = i /\ call'[c].replies = call[c].replies
  BY <1>0, <1>1, <1>2 DEF ClientTypes, CallRecords, Outcomes
<1>8. ClientTypes'
  BY <1>1, <1>2, <1>6, <1>7 DEF ClientTypes
<1>9. ServedUpTo(c, call[c].step - 1)' /\ Request(c)' = Request(c)
  BY <1>2, <1>4, <1>7 DEF ServedUpTo, Request
<1>10. \A q \in Calls : CallFits(q)'
  <2>1. CallFits(c)'
    BY <1>3, <1>6, <1>7, <1>9 DEF CallFits, Conn
  <2>2. ASSUME NEW q \in Calls, q # c PROVE CallFits(q)'
    <3>1. CallFits(q)
      BY DEF ClientInv
    <3>2. call[q].pc \in {"sending", "waiting"} =>
             call[q].conn \in DOMAIN conns /\ conns[call[q].conn].owner = q
      BY <3>1 DEF CallFits, Conn
    <3>3. call[q].pc \in {"sending", "waiting"} => call[q].conn # i
      BY <1>3, <2>2, <3>2
    <3> QED
      BY <1>2, <1>6, <1>7, <2>2, <3>1, <3>2, <3>3, CallKeeps
  <2> QED
    BY <2>1, <2>2
<1>11. \A j \in DOMAIN conns' : ConnFits(j)'
  <2>1. ASSUME NEW j \in DOMAIN conns, j # i PROVE ConnFits(j)'
    <3>1. ConnFits(j)
      BY DEF ClientInv
    <3>2. conns[j].server \in {"open", "sent"} => conns[j].owner # c
      BY <1>0, <2>1, <3>1 DEF ConnFits
    <3>3. conns[j].owner \in Calls
      <4>1. conns[j] \in ConnRecords
        BY <1>1 DEF ClientTypes
      <4> QED
        BY <4>1 DEF ConnRecords
    <3> QED
      BY <1>2, <1>6, <1>7, <2>1, <3>1, <3>2, <3>3, ConnKeeps
  <2>2. ConnFits(i)'
    BY <1>3, <1>6, <1>7, <1>9 DEF ConnFits
  <2> QED
    BY <1>6, <2>1, <2>2
<1>12. OwnAnswers'
  <2> SUFFICES ASSUME NEW q \in Calls, NEW k \in DOMAIN call'[q].replies
               PROVE  /\ call'[q].replies[k].to = q
                      /\ call'[q].replies[k].request = RequestsOf(call'[q].inv)[k]
    BY DEF OwnAnswers
  <2>1. call'[q].replies = call[q].replies /\ call'[q].inv = call[q].inv
    BY <1>7
  <2> QED
    BY <1>1, <2>1 DEF OwnAnswers
<1> QED
  BY <1>8, <1>10, <1>11, <1>12 DEF ClientInv

(* The connections after a client has left one: all but its flag.          *)
LEMMA LeavesConn ==
    ASSUME ClientTypes, NEW i \in DOMAIN conns,
           conns' = [conns EXCEPT ![i].client = FALSE]
    PROVE  /\ conns' \in Seq(ConnRecords) /\ DOMAIN conns' = DOMAIN conns
           /\ \A j \in DOMAIN conns :
                 /\ conns'[j].server = conns[j].server /\ conns'[j].owner = conns[j].owner
                 /\ conns'[j].request = conns[j].request /\ conns'[j].reply = conns[j].reply
<1>1. conns \in Seq(ConnRecords) /\ conns[i] \in ConnRecords
  BY DEF ClientTypes
<1>2. PICK left : left = [conns[i] EXCEPT !.client = FALSE]
  OBVIOUS
<1>3. /\ left \in ConnRecords
      /\ left.server = conns[i].server /\ left.owner = conns[i].owner
      /\ left.request = conns[i].request /\ left.reply = conns[i].reply
  BY <1>1, <1>2 DEF ConnRecords
<1>4. conns' = [conns EXCEPT ![i] = left]
  BY <1>2
<1>5. /\ conns' \in Seq(ConnRecords) /\ DOMAIN conns' = DOMAIN conns
      /\ conns'[i] = left /\ \A j \in DOMAIN conns \ {i} : conns'[j] = conns[j]
  <2>1. LET new == [conns EXCEPT ![i] = left] IN
        /\ new \in Seq(ConnRecords) /\ DOMAIN new = DOMAIN conns
        /\ new[i] = left /\ \A j \in DOMAIN conns \ {i} : new[j] = conns[j]
    BY <1>1, <1>3, ConnUpdate, Zenon
  <2> QED
    BY <1>4, <2>1, Zenon
<1> QED
  BY <1>3, <1>5

(* A reply is added to those received, and the call goes on to its next    *)
(* request or succeeds.                                                    *)
LEMMA SucceedsClient ==
    ASSUME ClientInv, NEW c \in Calls, call[c].pc = "waiting",
           Conn(c).server = "answered", Tells(Conn(c).reply),
           NEW i \in DOMAIN conns, i = call[c].conn,
           conns' = [conns EXCEPT ![i].client = FALSE],
           NEW last \in BOOLEAN, last <=> call[c].step = Len(RequestsOf(call[c].inv)),
           call' = [call EXCEPT ![c].pc = IF last THEN "done" ELSE "connecting",
                                ![c].outcome = IF last THEN "ok" ELSE "none",
                                ![c].step = IF last THEN @ ELSE @ + 1,
                                ![c].replies = Append(@, Conn(c).reply)],
           UNCHANGED <<now, served>>
    PROVE  ClientInv'
<1>1. ClientTypes /\ CallFits(c) /\ OwnAnswers
  BY DEF ClientInv
<1>2. PICK reply : reply = Conn(c).reply
  OBVIOUS
<1>3. /\ reply \in AllReplies
      /\ reply.to = c /\ reply.request = Request(c)
  <2>1. conns[i] \in ConnRecords
    BY <1>1 DEF ClientTypes
  <2>2. reply \in AllReplies
    BY <1>2, <2>1 DEF ConnRecords, Conn
  <2>3. Conn(c).owner = c /\ Conn(c).request = Request(c)
    BY <1>1 DEF CallFits
  <2>4. ConnFits(i)
    BY DEF ClientInv
  <2> QED
    BY <1>2, <2>2, <2>3, <2>4 DEF ConnFits, Conn
<1>4. /\ call[c].step \in 1..Len(RequestsOf(call[c].inv))
      /\ Len(call[c].replies) = call[c].step - 1
      /\ call[c].inv \in Invocations[c]
      /\ ServedUpTo(c, call[c].step)
  BY <1>1 DEF CallFits
<1>5. /\ call' \in [Calls -> CallRecords]
      /\ \A q \in Calls \ {c} : call'[q] = call[q]
      /\ call'[c].pc = (IF last THEN "done" ELSE "connecting")
      /\ call'[c].outcome = (IF last THEN "ok" ELSE "none")
      /\ call'[c].step = (IF last THEN call[c].step ELSE call[c].step + 1)
      /\ call'[c].inv = call[c].inv
      /\ call'[c].replies = Append(call[c].replies, reply)
  <2>1. call[c] \in CallRecords
    BY <1>1 DEF ClientTypes
  <2>2. /\ call[c].replies \in Seq(AllReplies)
        /\ Append(call[c].replies, reply) \in Seq(AllReplies)
        /\ call[c].step \in Nat
    BY <1>3, <2>1 DEF CallRecords
  <2>3. PICK pc \in {"done", "connecting"}, outcome \in {"ok", "none"}, step \in Nat :
           /\ pc = (IF last THEN "done" ELSE "connecting")
           /\ outcome = (IF last THEN "ok" ELSE "none")
           /\ step = (IF last THEN call[c].step ELSE call[c].step + 1)
    BY <2>2
  <2>4. PICK replies \in Seq(AllReplies) : replies = Append(call[c].replies, reply)
    BY <2>2
  <2>5. call' = [call EXCEPT ![c].pc = pc, ![c].outcome = outcome, ![c].step = step,
                             ![c].replies = replies]
    BY <1>2, <2>3, <2>4
  <2>6. PICK new : new = [call[c] EXCEPT !.pc = pc, !.outcome = outcome, !.step = step,
                                         !.replies = replies]
    OBVIOUS
  <2>7. /\ new \in CallRecords
        /\ new.pc = pc /\ new.outcome = outcome /\ new.step = step
        /\ new.inv = call[c].inv /\ new.replies = replies
    BY <2>1, <2>6 DEF CallRecords, Outcomes
  <2>8. call' = [call EXCEPT ![c] = new]
    BY <2>5, <2>6
  <2>9. /\ call' \in [Calls -> CallRecords]
        /\ \A q \in Calls \ {c} : call'[q] = call[q]
        /\ call'[c] = new
    <3>1. call \in [Calls -> CallRecords] /\ new \in CallRecords
      BY <1>1, <2>7 DEF ClientTypes
    <3>2. LET f == [call EXCEPT ![c] = new] IN
          f \in [Calls -> CallRecords] /\ f[c] = new /\ \A q \in Calls \ {c} : f[q] = call[q]
      BY <3>1, CallUpdate, SMT
    <3> QED
      BY <2>8, <3>2, Zenon
  <2> QED
    BY <2>3, <2>4, <2>7, <2>9
<1>6. Len(RequestsOf(call[c].inv)) \in Nat
  BY <1>4, RequestsShape
<1>7. PICK n : n = call[c].step
  OBVIOUS
<1>8. ServedUpTo(c, n)'
  BY <1>4, <1>5, <1>7 DEF ServedUpTo
<1>9. CallFits(c)'
  <2>1. CASE last
    BY <1>4, <1>5, <1>6, <1>7, <1>8, <2>1 DEF CallFits
  <2>2. CASE ~last
    <3>1. Len(Append(call[c].replies, reply)) = n
      <4>1. call[c].replies \in Seq(AllReplies)
        BY <1>1 DEF ClientTypes, CallRecords, Outcomes
      <4> QED
        BY <1>3, <1>4, <1>7, <4>1
    <3>2. n + 1 \in 1..Len(RequestsOf(call[c].inv))
      BY <1>4, <1>6, <1>7, <2>2
    <3>3. call'[c].pc = "connecting" /\ call'[c].outcome = "none" /\ call'[c].step = n + 1
      BY <1>5, <1>7, <2>2
    <3>4. (n + 1) - 1 = n
      BY <1>4, <1>6, <1>7
    <3> QED
      BY <1>4, <1>5, <1>8, <3>1, <3>2, <3>3, <3>4 DEF CallFits
  <2> QED
    BY <2>1, <2>2
<1>10. \A k \in DOMAIN call'[c].replies :
          /\ call'[c].replies[k].to = c
          /\ call'[c].replies[k].request = RequestsOf(call'[c].inv)[k]
  <2>1. call[c].replies \in Seq(AllReplies)
    BY <1>1 DEF ClientTypes, CallRecords, Outcomes
  <2>2. /\ DOMAIN call'[c].replies = DOMAIN call[c].replies \cup {n}
        /\ call'[c].replies[n] = reply
        /\ \A k \in DOMAIN call[c].replies : call'[c].replies[k] = call[c].replies[k]
    BY <1>3, <1>4, <1>5, <1>6, <1>7, <2>1
  <2>3. reply.to = c /\ reply.request = RequestsOf(call[c].inv)[n]
    BY <1>3, <1>7 DEF Request
  <2> QED
    BY <1>1, <1>5, <2>2, <2>3 DEF OwnAnswers
<1>11. \A j \in DOMAIN conns : ~(conns[j].owner = c /\ conns[j].server \in {"open", "sent"})
  BY DEF ClientInv, ConnFits, Conn
<1>12. /\ conns' \in Seq(ConnRecords) /\ DOMAIN conns' = DOMAIN conns
       /\ \A j \in DOMAIN conns :
             /\ conns'[j].server = conns[j].server /\ conns'[j].owner = conns[j].owner
             /\ conns'[j].request = conns[j].request /\ conns'[j].reply = conns[j].reply
  BY <1>1, LeavesConn
<1> QED
  BY <1>5, <1>9, <1>10, <1>11, <1>12, CallMoves

LEMMA ClientClient ==
    ASSUME ClientInv, NEW c \in Calls, Client(c)
    PROVE  ClientInv'
<1>1. ClientTypes /\ CallFits(c)
  BY DEF ClientInv
<1>2. CASE Connects(c)
  BY <1>2, ConnectsClient
<1>3. CASE Sends(c)
  BY <1>3, SendsClient
<1>4. CASE FindsNoDaemon(c) \/ LosesConnection(c)
  <2>1. PICK outcome \in Outcomes \ {"ok", "none"} : Ends(c, outcome)
    BY <1>4 DEF FindsNoDaemon, LosesConnection, Code, Unreachable, Outcomes
  <2>2. /\ call[c].pc \in {"connecting", "sending", "waiting"}
        /\ UNCHANGED <<now, conns, served>>
    BY <1>4 DEF FindsNoDaemon, LosesConnection
  <2>3. conns' \in Seq(ConnRecords)
    BY <1>1, <2>2 DEF ClientTypes
  <2> QED
    BY <2>1, <2>2, <2>3, EndsClient
<1>5. CASE TimesOut(c)
  <2>1. /\ call[c].pc = "waiting" /\ Ends(c, "-32001")
        /\ conns' = [conns EXCEPT ![call[c].conn].client = FALSE]
        /\ UNCHANGED <<now, served>>
    BY <1>5 DEF TimesOut, GivesUp
  <2>2. PICK i \in DOMAIN conns : i = call[c].conn
    BY <1>1, <2>1 DEF CallFits
  <2>3. /\ conns' \in Seq(ConnRecords) /\ DOMAIN conns' = DOMAIN conns
        /\ \A j \in DOMAIN conns :
              /\ conns'[j].server = conns[j].server /\ conns'[j].owner = conns[j].owner
              /\ conns'[j].request = conns[j].request /\ conns'[j].reply = conns[j].reply
    BY <1>1, <2>1, <2>2, LeavesConn
  <2>4. "-32001" \in Outcomes \ {"ok", "none"}
    BY DEF Outcomes
  <2> QED
    BY <2>1, <2>3, <2>4, EndsClient
<1>6. CASE Receives(c)
  <2>1. /\ call[c].pc = "waiting" /\ Conn(c).server = "answered"
        /\ conns' = [conns EXCEPT ![call[c].conn].client = FALSE]
        /\ UNCHANGED <<now, served>>
    BY <1>6 DEF Receives
  <2>2. PICK i \in DOMAIN conns : i = call[c].conn
    BY <1>1, <2>1 DEF CallFits
  <2>3. CASE \E outcome \in Outcomes \ {"ok", "none"} : Ends(c, outcome)
    <3>1. /\ conns' \in Seq(ConnRecords) /\ DOMAIN conns' = DOMAIN conns
          /\ \A j \in DOMAIN conns :
                /\ conns'[j].server = conns[j].server /\ conns'[j].owner = conns[j].owner
                /\ conns'[j].request = conns[j].request /\ conns'[j].reply = conns[j].reply
      BY <1>1, <2>1, <2>2, LeavesConn
    <3> QED
      BY <2>1, <2>3, <3>1, EndsClient
  <2>4. PICK last \in BOOLEAN : last <=> call[c].step = Len(RequestsOf(call[c].inv))
    OBVIOUS
  <2>5. CASE /\ Tells(Conn(c).reply)
             /\ call' = [call EXCEPT ![c].pc = IF last THEN "done" ELSE "connecting",
                                     ![c].outcome = IF last THEN "ok" ELSE "none",
                                     ![c].step = IF last THEN @ ELSE @ + 1,
                                     ![c].replies = Append(@, Conn(c).reply)]
    BY <2>1, <2>2, <2>4, <2>5, SucceedsClient
  <2> QED
    BY <1>6, <2>3, <2>4, <2>5 DEF Receives, Tells, Code, map_daemon_error, Outcomes
<1> QED
  BY <1>2, <1>3, <1>4, <1>5, <1>6 DEF Client

-----------------------------------------------------------------------------
(* The daemon *)

(* The daemon begins to serve the current request of a call, once.         *)
LEMMA ServesClient ==
    ASSUME ClientInv, NEW i \in DOMAIN conns, Serves(i)
    PROVE  ClientInv'
<1>0. PICK c : c = conns[i].owner
  OBVIOUS
<1>1. ClientTypes /\ OwnAnswers /\ ConnFits(i) /\ \A q \in Calls : CallFits(q)
  BY DEF ClientInv
<1>2. /\ conns[i].server = "sent"
      /\ conns' = [conns EXCEPT ![i].server = "serving", ![i].begun = now]
      /\ served' = [served EXCEPT ![c] = Append(served[c], conns[i].request)]
      /\ UNCHANGED <<now, call>>
  BY <1>0 DEF Serves
<1>3. conns[i] \in ConnRecords /\ c \in Calls
  <2>1. conns[i] \in ConnRecords
    BY <1>1 DEF ClientTypes
  <2> QED
    BY <1>0, <2>1 DEF ConnRecords
<1>4. PICK n : n = call[c].step
  OBVIOUS
<1>5. /\ i = call[c].conn
      /\ call[c].pc \in {"sending", "waiting", "done"} /\ call[c].outcome # "ok"
      /\ n \in 1..Len(RequestsOf(call[c].inv))
      /\ ServedUpTo(c, n - 1)
      /\ conns[i].request = RequestsOf(call[c].inv)[n]
  BY <1>0, <1>1, <1>2, <1>4 DEF ConnFits, Request
<1>6. call[c].inv \in Invocations[c]
  BY <1>1, <1>3, <1>5 DEF CallFits
<1>7. /\ RequestsOf(call[c].inv) \in Seq(RequestTypes)
      /\ conns[i].request \in RequestTypes
  BY <1>3, <1>5, <1>6, RequestsShape
<1>8. /\ served' \in [Calls -> Seq(RequestTypes)]
      /\ \A q \in Calls \ {c} : served'[q] = served[q]
      /\ served'[c] = Append(served[c], conns[i].request)
  BY <1>1, <1>2, <1>3, <1>7 DEF ClientTypes
<1>9. /\ conns' \in Seq(ConnRecords) /\ DOMAIN conns' = DOMAIN conns
      /\ \A j \in DOMAIN conns \ {i} : conns'[j] = conns[j]
      /\ conns'[i].server = "serving" /\ conns'[i].owner = c
      /\ conns'[i].request = conns[i].request
  <2>1. PICK new : new = [conns[i] EXCEPT !.server = "serving", !.begun = now]
    OBVIOUS
  <2>2. /\ new \in ConnRecords
        /\ new.server = "serving" /\ new.owner = c /\ new.request = conns[i].request
    <3>1. now \in Nat
      BY <1>1 DEF ClientTypes
    <3> QED
      BY <1>0, <1>3, <2>1, <3>1 DEF ConnRecords
  <2>3. conns' = [conns EXCEPT ![i] = new]
    BY <1>2, <2>1
  <2>4. conns \in Seq(ConnRecords)
    BY <1>1 DEF ClientTypes
  <2>5. LET s == [conns EXCEPT ![i] = new] IN
        /\ s \in Seq(ConnRecords) /\ DOMAIN s = DOMAIN conns
        /\ s[i] = new /\ \A j \in DOMAIN conns \ {i} : s[j] = conns[j]
    BY <2>2, <2>4, ConnUpdate, Zenon
  <2>6. /\ conns' \in Seq(ConnRecords) /\ DOMAIN conns' = DOMAIN conns
        /\ conns'[i] = new /\ \A j \in DOMAIN conns \ {i} : conns'[j] = conns[j]
    BY <2>3, <2>5, Zenon
  <2> QED
    BY <2>2, <2>6
<1>10. ClientTypes'
  BY <1>1, <1>2, <1>8, <1>9 DEF ClientTypes
<1>11. ServedUpTo(c, n)'
  <2>1. served[c] \in Seq(RequestTypes)
    BY <1>1, <1>3 DEF ClientTypes
  <2> QED
    BY <1>2, <1>5, <1>7, <1>8, <2>1 DEF ServedUpTo
<1>12. \A q \in Calls : CallFits(q)'
  <2>1. CallFits(c)'
    <3>1. CASE call[c].pc = "done"
      BY <1>1, <1>2, <1>3, <1>5, <1>6, <1>11, <3>1 DEF CallFits, ServedUpTo
    <3>2. CASE call[c].pc \in {"sending", "waiting"}
      BY <1>1, <1>2, <1>3, <1>4, <1>5, <1>6, <1>9, <1>11, <3>2 DEF CallFits, Conn, Request
    <3> QED
      BY <1>5, <3>1, <3>2
  <2>2. ASSUME NEW q \in Calls, q # c PROVE CallFits(q)'
    <3>1. CallFits(q)
      BY <1>1
    <3>2. call[q].pc \in {"sending", "waiting"} =>
             call[q].conn \in DOMAIN conns /\ conns[call[q].conn].owner = q
      BY <3>1 DEF CallFits, Conn
    <3>3. call[q].pc \in {"sending", "waiting"} => call[q].conn # i
      BY <1>0, <2>2, <3>2
    <3> QED
      BY <1>2, <1>8, <1>9, <2>2, <3>1, <3>2, <3>3, CallKeeps
  <2> QED
    BY <2>1, <2>2
<1>13. \A j \in DOMAIN conns' : ConnFits(j)'
  <2>1. ASSUME NEW j \in DOMAIN conns, j # i PROVE ConnFits(j)'
    <3>1. ConnFits(j)
      BY DEF ClientInv
    <3>2. conns[j].server \in {"open", "sent"} => conns[j].owner # c
      BY <1>5, <2>1, <3>1 DEF ConnFits
    <3>3. conns[j].owner \in Calls
      <4>1. conns[j] \in ConnRecords
        BY <1>1 DEF ClientTypes
      <4> QED
        BY <4>1 DEF ConnRecords
    <3> QED
      BY <1>2, <1>8, <1>9, <2>1, <3>1, <3>2, <3>3, ConnKeeps
  <2>2. ConnFits(i)'
    BY <1>9 DEF ConnFits
  <2> QED
    BY <1>9, <2>1, <2>2
<1>14. OwnAnswers'
  BY <1>1, <1>2 DEF OwnAnswers
<1> QED
  BY <1>10, <1>12, <1>13, <1>14 DEF ClientInv

(* Connections that go on without the calls: answered, or ended.           *)
LEMMA ConnsMove ==
    ASSUME ClientInv, conns' \in Seq(ConnRecords), DOMAIN conns' = DOMAIN conns,
           UNCHANGED call, UNCHANGED served, now' \in Nat,
           \A j \in DOMAIN conns :
              /\ conns'[j].owner = conns[j].owner /\ conns'[j].request = conns[j].request
              /\ \/ /\ conns'[j].server \in {conns[j].server, "closed"}
                    /\ conns'[j].reply = conns[j].reply
                 \/ /\ conns[j].server = "serving" /\ conns'[j].server \in {"answered", "closed"}
                    /\ Tells(conns'[j].reply) /\ conns'[j].server = "answered" =>
                          /\ conns'[j].reply.to = conns[j].owner
                          /\ conns'[j].reply.request = conns[j].request
    PROVE  ClientInv'
<1>1. ClientTypes'
  BY DEF ClientInv, ClientTypes
<1>2. \A q \in Calls : CallFits(q)'
  <2> SUFFICES ASSUME NEW q \in Calls PROVE CallFits(q)'
    OBVIOUS
  <2>1. CallFits(q)
    BY DEF ClientInv
  <2>2. call[q].pc \in {"sending", "waiting"} => call[q].conn \in DOMAIN conns
    BY <2>1 DEF CallFits
  <2> QED
    BY <2>1, <2>2, CallKeeps
<1>3. \A j \in DOMAIN conns' : ConnFits(j)'
  <2> SUFFICES ASSUME NEW j \in DOMAIN conns PROVE ConnFits(j)'
    OBVIOUS
  <2>1. ConnFits(j)
    BY DEF ClientInv
  <2>2. CASE conns'[j].server \in {conns[j].server, "closed"} /\ conns'[j].reply = conns[j].reply
    BY <2>1, <2>2, ConnKeeps
  <2>3. CASE /\ conns'[j].server \in {"answered", "closed"}
             /\ Tells(conns'[j].reply) /\ conns'[j].server = "answered" =>
                   /\ conns'[j].reply.to = conns'[j].owner
                   /\ conns'[j].reply.request = conns'[j].request
    BY <2>3 DEF ConnFits, Tells, read_line_limited
  <2> QED
    BY <2>2, <2>3
<1>4. OwnAnswers'
  BY DEF ClientInv, OwnAnswers
<1> QED
  BY <1>1, <1>2, <1>3, <1>4 DEF ClientInv

(* What the daemon answers names the connection's owner and request.       *)
LEMMA RepliesShape ==
    ASSUME NEW i \in DOMAIN conns, conns[i] \in ConnRecords, NEW reply \in RepliesTo(i)
    PROVE  /\ reply \in AllReplies
           /\ Tells(reply) => /\ reply.to = conns[i].owner
                              /\ reply.request = conns[i].request
<1>1. conns[i].owner \in Calls /\ conns[i].request \in RequestTypes \cup {"none"}
  BY DEF ConnRecords
<1>2. CASE conns[i].request = "Fetch"
  BY <1>1, <1>2 DEF RepliesTo, AllReplies, Tells, read_line_limited
<1>3. CASE conns[i].request # "Fetch"
  BY <1>1, <1>3 DEF RepliesTo, AllReplies, Tells, read_line_limited
<1> QED
  BY <1>2, <1>3

LEMMA AnswersClient ==
    ASSUME ClientInv, NEW i \in DOMAIN conns, Answers(i)
    PROVE  ClientInv'
<1>1. ClientTypes
  BY DEF ClientInv
<1>2. PICK reply \in RepliesTo(i) :
         conns' = [conns EXCEPT ![i].server = IF conns[i].client THEN "answered" ELSE "closed",
                                ![i].reply = IF conns[i].client THEN reply ELSE NoReply]
  BY DEF Answers
<1>3. conns[i].server = "serving" /\ UNCHANGED <<now, call, served>>
  BY DEF Answers
<1>4. conns \in Seq(ConnRecords) /\ conns[i] \in ConnRecords
  BY <1>1 DEF ClientTypes
<1>5. /\ reply \in AllReplies
      /\ Tells(reply) => reply.to = conns[i].owner /\ reply.request = conns[i].request
  BY <1>4, RepliesShape
<1>6. PICK server \in {"answered", "closed"}, written \in AllReplies :
         /\ server = IF conns[i].client THEN "answered" ELSE "closed"
         /\ written = IF conns[i].client THEN reply ELSE NoReply
  <2>1. NoReply \in AllReplies
    BY DEF NoReply, AllReplies
  <2> QED
    BY <1>5, <2>1
<1>7. Tells(written) /\ server = "answered" =>
         written.to = conns[i].owner /\ written.request = conns[i].request
  BY <1>5, <1>6
<1>8. PICK new : new = [conns[i] EXCEPT !.server = server, !.reply = written]
  OBVIOUS
<1>9. /\ new \in ConnRecords
      /\ new.server = server /\ new.reply = written
      /\ new.owner = conns[i].owner /\ new.request = conns[i].request
  BY <1>4, <1>8 DEF ConnRecords
<1>10. conns' = [conns EXCEPT ![i] = new]
  BY <1>2, <1>6, <1>8
<1>11. LET s == [conns EXCEPT ![i] = new] IN
       /\ s \in Seq(ConnRecords) /\ DOMAIN s = DOMAIN conns
       /\ s[i] = new /\ \A j \in DOMAIN conns \ {i} : s[j] = conns[j]
  BY <1>4, <1>9, ConnUpdate, Zenon
<1>12. /\ conns' \in Seq(ConnRecords) /\ DOMAIN conns' = DOMAIN conns
       /\ conns'[i] = new /\ \A j \in DOMAIN conns \ {i} : conns'[j] = conns[j]
  BY <1>10, <1>11, Zenon
<1>13. \A j \in DOMAIN conns :
          /\ conns'[j].owner = conns[j].owner /\ conns'[j].request = conns[j].request
          /\ \/ /\ conns'[j].server \in {conns[j].server, "closed"}
                /\ conns'[j].reply = conns[j].reply
             \/ /\ conns[j].server = "serving" /\ conns'[j].server \in {"answered", "closed"}
                /\ Tells(conns'[j].reply) /\ conns'[j].server = "answered" =>
                      /\ conns'[j].reply.to = conns[j].owner
                      /\ conns'[j].reply.request = conns[j].request
  <2> SUFFICES ASSUME NEW j \in DOMAIN conns
               PROVE  /\ conns'[j].owner = conns[j].owner /\ conns'[j].request = conns[j].request
                      /\ \/ /\ conns'[j].server \in {conns[j].server, "closed"}
                            /\ conns'[j].reply = conns[j].reply
                         \/ /\ conns[j].server = "serving"
                            /\ conns'[j].server \in {"answered", "closed"}
                            /\ Tells(conns'[j].reply) /\ conns'[j].server = "answered" =>
                                  /\ conns'[j].reply.to = conns[j].owner
                                  /\ conns'[j].reply.request = conns[j].request
    OBVIOUS
  <2>1. CASE j = i
    BY <1>3, <1>6, <1>7, <1>9, <1>12, <2>1
  <2>2. CASE j # i
    BY <1>12, <2>2
  <2> QED
    BY <2>1, <2>2
<1>14. now' \in Nat
  BY <1>1, <1>3 DEF ClientTypes
<1> QED
  BY <1>3, <1>12, <1>13, <1>14, ConnsMove

(* With the daemon its connections end; what it has answered can be read.  *)
LEMMA DiesClient == ClientInv /\ Dies => ClientInv'
<1> SUFFICES ASSUME ClientInv, Dies PROVE ClientInv'
  OBVIOUS
<1>1. conns \in Seq(ConnRecords) /\ now \in Nat
  BY DEF ClientInv, ClientTypes
<1>2. /\ conns' = [i \in DOMAIN conns |->
                      IF conns[i].server = "answered" THEN conns[i]
                      ELSE [conns[i] EXCEPT !.server = "closed"]]
      /\ UNCHANGED <<now, call, served>>
  BY DEF Dies
<1>3. ASSUME NEW r \in ConnRecords
      PROVE  /\ [r EXCEPT !.server = "closed"] \in ConnRecords
             /\ [r EXCEPT !.server = "closed"].server = "closed"
             /\ [r EXCEPT !.server = "closed"].owner = r.owner
             /\ [r EXCEPT !.server = "closed"].request = r.request
             /\ [r EXCEPT !.server = "closed"].reply = r.reply
  BY <1>3 DEF ConnRecords
<1>4. DOMAIN conns = 1..Len(conns) /\ Len(conns) \in Nat
  BY <1>1
<1>5. ASSUME NEW j \in DOMAIN conns
      PROVE  /\ conns'[j] \in ConnRecords
             /\ conns'[j].server \in {conns[j].server, "closed"}
             /\ conns'[j].owner = conns[j].owner
             /\ conns'[j].request = conns[j].request
             /\ conns'[j].reply = conns[j].reply
  <2>1. conns[j] \in ConnRecords
    BY <1>1
  <2>2. CASE conns[j].server = "answered"
    <3>1. conns'[j] = conns[j]
      BY <1>2, <2>2, Zenon
    <3> QED
      BY <2>1, <3>1
  <2>3. CASE conns[j].server # "answered"
    <3>1. conns'[j] = [conns[j] EXCEPT !.server = "closed"]
      BY <1>2, <2>3, Zenon
    <3>2. LET x == [conns[j] EXCEPT !.server = "closed"] IN
          /\ x \in ConnRecords /\ x.server = "closed" /\ x.owner = conns[j].owner
          /\ x.request = conns[j].request /\ x.reply = conns[j].reply
      BY <1>3, <2>1, Zenon
    <3>3. /\ conns'[j] \in ConnRecords /\ conns'[j].server = "closed"
          /\ conns'[j].owner = conns[j].owner
          /\ conns'[j].request = conns[j].request /\ conns'[j].reply = conns[j].reply
      BY <3>1, <3>2, Zenon
    <3> QED
      BY <3>3
  <2> QED
    BY <2>2, <2>3
<1>6. conns' \in Seq(ConnRecords) /\ DOMAIN conns' = DOMAIN conns
  <2>1. DOMAIN conns' = DOMAIN conns
    BY <1>2, Zenon
  <2>2. conns' = [i \in 1..Len(conns) |-> conns'[i]]
    BY <1>2, <1>4, Zenon
  <2>3. \A j \in 1..Len(conns) : conns'[j] \in ConnRecords
    BY <1>4, <1>5, Zenon
  <2>4. conns' \in [1..Len(conns) -> ConnRecords]
    BY <2>2, <2>3, Zenon
  <2>5. conns' \in Seq(ConnRecords)
    <3>1. ASSUME NEW n \in Nat, NEW s \in [1..n -> ConnRecords] PROVE s \in Seq(ConnRecords)
      BY SMT
    <3> QED
      BY <1>4, <2>4, <3>1, Zenon
  <2> QED
    BY <2>1, <2>5
<1> QED
  BY <1>1, <1>2, <1>5, <1>6, ConnsMove

-----------------------------------------------------------------------------
LEMMA InitClient == Init => ClientInv
<1> SUFFICES ASSUME Init PROVE ClientInv
  OBVIOUS
<1>1. Idle \in CallRecords
  BY DEF Idle, CallRecords, Outcomes, AllInvocations
<1>2. ClientTypes
  BY <1>1 DEF Init, ClientTypes
<1>3. \A c \in Calls : call[c] = Idle /\ served[c] = <<>>
  BY DEF Init
<1>4. Idle.pc = "idle" /\ Idle.outcome = "none" /\ Idle.step = 1 /\ Idle.replies = <<>>
  BY DEF Idle
<1>5. \A c \in Calls : CallFits(c)
  BY <1>3, <1>4 DEF CallFits
<1>6. \A i \in DOMAIN conns : ConnFits(i)
  BY DEF Init
<1>7. OwnAnswers
  BY <1>3, <1>4 DEF OwnAnswers
<1> QED
  BY <1>2, <1>5, <1>6, <1>7 DEF ClientInv

LEMMA NextClient == ClientInv /\ [Next]_vars => ClientInv'
<1> SUFFICES ASSUME ClientInv, [Next]_vars PROVE ClientInv'
  OBVIOUS
<1>1. CASE Tick \/ Starts \/ UNCHANGED vars
  <2>1. UNCHANGED <<conns, call, served>>
    BY <1>1 DEF Tick, Starts, vars
  <2>2. now' \in Nat
    BY <1>1 DEF Tick, Starts, vars, ClientInv, ClientTypes
  <2>3. conns' \in Seq(ConnRecords)
    BY <2>1 DEF ClientInv, ClientTypes
  <2> QED
    BY <2>1, <2>2, <2>3, ConnsMove
<1>2. CASE Dies
  BY <1>2, DiesClient
<1>3. ASSUME NEW c \in Calls, Client(c) PROVE ClientInv'
  BY <1>3, ClientClient
<1>4. ASSUME NEW c \in Calls, NEW inv \in Invocations[c], Begins(c, inv) PROVE ClientInv'
  BY <1>4, BeginsClient
<1>5. ASSUME NEW i \in DOMAIN conns, Serves(i) PROVE ClientInv'
  BY <1>5, ServesClient
<1>6. ASSUME NEW i \in DOMAIN conns, Answers(i) PROVE ClientInv'
  BY <1>6, AnswersClient
<1> QED
  BY <1>1, <1>2, <1>3, <1>4, <1>5, <1>6 DEF Next

(* Every call is in step with its connections and with the daemon.         *)
THEOREM ClientInvariance == Spec => []ClientInv
<1>1. Init => ClientInv
  BY InitClient
<1>2. ClientInv /\ [Next]_vars => ClientInv'
  BY NextClient
<1> QED
  BY <1>1, <1>2, PTL DEF Spec

(* A call gets the answers to its own requests, in their order, whatever   *)
(* comes late, is lost, or was meant for another.                          *)
THEOREM AnswersReachTheirCall == Spec => []OwnAnswers
<1>1. ClientInv => OwnAnswers
  BY DEF ClientInv
<1> QED
  BY <1>1, ClientInvariance, PTL

(* The requests of a call are served at most once and in order, and those  *)
(* of a call that succeeds exactly once, with any number of restarts of    *)
(* the daemon.                                                             *)
THEOREM RequestsServedOnce == Spec => []ServedAtMostOnce
<1>1. ClientInv => ServedAtMostOnce
  <2> SUFFICES ASSUME ClientInv, NEW c \in Calls, call[c].pc # "idle"
               PROVE  /\ \E n \in 0..Len(RequestsOf(call[c].inv)) :
                             served[c] = SubSeq(RequestsOf(call[c].inv), 1, n)
                      /\ call[c].outcome = "ok" => served[c] = RequestsOf(call[c].inv)
    BY DEF ServedAtMostOnce
  <2>1. ClientTypes /\ CallFits(c)
    BY DEF ClientInv
  <2>2. call[c].inv \in Invocations[c]
    BY <2>1 DEF CallFits
  <2>3. /\ RequestsOf(call[c].inv) \in Seq(RequestTypes)
        /\ served[c] \in Seq(RequestTypes)
    BY <2>1, <2>2, RequestsShape DEF ClientTypes
  <2>4. ASSUME NEW n, ServedUpTo(c, n)
        PROVE  /\ n \in 0..Len(RequestsOf(call[c].inv))
               /\ served[c] = SubSeq(RequestsOf(call[c].inv), 1, n)
               /\ n = Len(RequestsOf(call[c].inv)) => served[c] = RequestsOf(call[c].inv)
    BY <2>3, <2>4, PrefixIsSubSeq DEF ServedUpTo
  <2>5. \E n : ServedUpTo(c, n)
    <3>1. call[c].pc \in {"connecting", "sending", "waiting", "done"}
      BY <2>1 DEF ClientTypes, CallRecords, Outcomes
    <3> QED
      BY <2>1, <3>1 DEF CallFits
  <2>6. call[c].outcome = "ok" => ServedUpTo(c, Len(RequestsOf(call[c].inv)))
    BY <2>1 DEF CallFits
  <2> QED
    BY <2>4, <2>5, <2>6
<1> QED
  BY <1>1, ClientInvariance, PTL
=============================================================================
