------------------------------- MODULE Clients -------------------------------
(***************************************************************************)
(* The clients of the daemon: the tools of the MCP proxy (src/mcp.rs) and  *)
(* the commands of the command line (src/cli.rs).  Each opens a connection *)
(* per request, writes one line and waits for one; the proxy gives up      *)
(* after request_timeout_secs, the command line never does.  The daemon    *)
(* may die and start again at any moment, and it goes on with requests     *)
(* whose client has left.                                                  *)
(*                                                                         *)
(* The daemon's side of a connection is reduced to when it answers: what   *)
(* Connection, PageFetch and SearchDispatch say about that is in Due.      *)
(***************************************************************************)
EXTENDS Naturals, Sequences, FiniteSets

CONSTANTS
    Calls,          \* tool calls and commands
    Invocations,    \* call -> what it may be: client, tool and arguments
    Timeout,        \* request_timeout_secs of proxy and daemon
    MaxFetchTimeout,\* MAX_FETCH_TIMEOUT_SECS
    MaxLimit,       \* the limit the proxy accepts
    HttpStatus,     \* statuses of fetched pages
    MaxStarts,      \* bound: starts of the daemon
    MaxTime         \* bound: calls begin before this tick

ASSUME ClientConstants ==
    /\ Timeout \in Nat /\ MaxFetchTimeout \in Nat /\ MaxLimit \in Nat
    /\ MaxStarts \in Nat /\ MaxTime \in Nat
    /\ \A c \in Calls : \A inv \in Invocations[c] :
          \/ /\ inv.client = "mcp"
             /\ inv.tool \in {"search", "fetch", "list_providers", "cache_stats"}
          \/ /\ inv.client = "cli"
             /\ inv.tool \in {"search", "fetch", "status", "list_providers", "cache_clear"}

VARIABLES
    now,            \* the clock
    up,             \* the daemon listens
    starts,         \* how often it was started
    conns,          \* the connections made: a sequence of records
    call,           \* call -> what it is and where it is
    served          \* history: call -> requests the daemon began to serve

vars == <<now, up, starts, conns, call, served>>

(* What each tool and each command checks, and the requests it then sends, *)
(* one connection each.  The number stands for its argument: a limit or a  *)
(* timeout; an empty query, an unknown freshness or mode are refused alike.*)
(* How an answer is printed is left out.                                   *)
Handler(accepts, requests) == [accepts |-> accepts, requests |-> requests]

handle_search(inv) == Handler(inv.number \in 1..MaxLimit, <<"Search">>)
handle_fetch(inv)  == Handler(inv.number \in 1..MaxFetchTimeout, <<"Fetch">>)
handle_list_providers == Handler(TRUE, <<"ListProviders">>)
handle_cache_stats    == Handler(TRUE, <<"CacheStats">>)

(* The command line leaves the limit, and a timeout of 0, to the daemon. *)
cmd_search      == Handler(TRUE, <<"Search">>)
cmd_fetch(inv)  == Handler(inv.number <= MaxFetchTimeout, <<"Fetch">>)
cmd_status      == Handler(TRUE, <<"Health", "ProviderStatus", "CacheStats">>)
cmd_providers   == Handler(TRUE, <<"ListProviders">>)
cmd_cache_clear == Handler(TRUE, <<"CacheClear">>)

(* The router of the proxy and the subcommands. *)
ToolOf(inv) ==
    CASE inv.tool = "search"         -> handle_search(inv)
      [] inv.tool = "fetch"          -> handle_fetch(inv)
      [] inv.tool = "list_providers" -> handle_list_providers
      [] inv.tool = "cache_stats"    -> handle_cache_stats

CommandOf(inv) ==
    CASE inv.tool = "search"         -> cmd_search
      [] inv.tool = "fetch"          -> cmd_fetch(inv)
      [] inv.tool = "status"         -> cmd_status
      [] inv.tool = "list_providers" -> cmd_providers
      [] inv.tool = "cache_clear"    -> cmd_cache_clear

HandlerOf(inv)  == IF inv.client = "mcp" THEN ToolOf(inv) ELSE CommandOf(inv)
RequestsOf(inv) == HandlerOf(inv).requests
Accepts(inv)    == HandlerOf(inv).accepts

NoInvocation == [client |-> "none"]
NoReply      == [type |-> "none"]
Idle == [inv |-> NoInvocation, pc |-> "idle", step |-> 1, conn |-> 0,
         sent_at |-> 0, outcome |-> "none", replies |-> <<>>]

Init ==
    /\ now = 0
    /\ up = TRUE /\ starts = 1
    /\ conns = <<>>
    /\ call = [c \in Calls |-> Idle]
    /\ served = [c \in Calls |-> <<>>]

Ends(c, outcome) ==
    call' = [call EXCEPT ![c].pc = "done", ![c].outcome = outcome]

(* The proxy's error codes; the command line has one exit code for all of  *)
(* them, but for a daemon that cannot be reached.                          *)
Code(c, code) == IF call[c].inv.client = "mcp" THEN code ELSE "exit_1"
Unreachable(c) == IF call[c].inv.client = "mcp" THEN "-32000" ELSE "exit_2"
map_daemon_error(code) == IF code = "-32601" THEN "-32000" ELSE code

-----------------------------------------------------------------------------
(* The clients *)

Begins(c, inv) ==
    /\ call[c].pc = "idle"
    /\ now < MaxTime
    /\ call' = [call EXCEPT ![c].inv = inv,
                            ![c].pc = IF Accepts(inv) THEN "connecting" ELSE "done",
                            ![c].outcome = IF Accepts(inv) THEN "none"
                                           ELSE IF inv.client = "mcp" THEN "-32602" ELSE "exit_1"]
    /\ UNCHANGED <<now, up, starts, conns, served>>

(* Fault: a connection that another call has given up is used again. *)
ConnectsAgain(c) ==
    /\ call[c].pc = "connecting"
    /\ up
    /\ LET left == {i \in DOMAIN conns : conns[i].server \in {"serving", "answered"}
                                         /\ ~conns[i].client} IN
       IF left = {}
       THEN /\ conns' = Append(conns, [server |-> "open", client |-> TRUE, owner |-> c,
                                       begun |-> 0, request |-> "none", reply |-> NoReply])
            /\ call' = [call EXCEPT ![c].pc = "sending", ![c].conn = Len(conns) + 1]
       ELSE \E i \in left :
            /\ conns' = [conns EXCEPT ![i].client = TRUE]
            /\ call' = [call EXCEPT ![c].pc = "waiting", ![c].conn = i, ![c].sent_at = now]
    /\ UNCHANGED <<now, up, starts, served>>

(* Every request has a connection of its own. *)
Connects(c) ==
    /\ call[c].pc = "connecting"
    /\ up
    /\ conns' = Append(conns, [server |-> "open", client |-> TRUE, owner |-> c,
                               begun |-> 0, request |-> "none", reply |-> NoReply])
    /\ call' = [call EXCEPT ![c].pc = "sending", ![c].conn = Len(conns) + 1]
    /\ UNCHANGED <<now, up, starts, served>>

FindsNoDaemon(c) ==
    /\ call[c].pc = "connecting"
    /\ ~up
    /\ Ends(c, Unreachable(c))
    /\ UNCHANGED <<now, up, starts, conns, served>>

Conn(c)    == conns[call[c].conn]
Request(c) == RequestsOf(call[c].inv)[call[c].step]

Sends(c) ==
    /\ call[c].pc = "sending"
    /\ Conn(c).server = "open"
    /\ conns' = [conns EXCEPT ![call[c].conn].server = "sent",
                              ![call[c].conn].request = Request(c)]
    /\ call' = [call EXCEPT ![c].pc = "waiting", ![c].sent_at = now]
    /\ UNCHANGED <<now, up, starts, served>>

(* Fault: the request is sent again when the connection is lost. *)
SendsAgain(c) ==
    /\ call[c].pc \in {"sending", "waiting"}
    /\ Conn(c).server = "closed"
    /\ call' = [call EXCEPT ![c].pc = "connecting"]
    /\ UNCHANGED <<now, up, starts, conns, served>>

(* The daemon went away before the line was written, or before it answered. *)
LosesConnection(c) ==
    /\ call[c].pc \in {"sending", "waiting"}
    /\ Conn(c).server = "closed"
    /\ Ends(c, Code(c, "-32000"))
    /\ UNCHANGED <<now, up, starts, conns, served>>

(* A failed fetch fails the command, unless it prints JSON; the proxy      *)
(* hands it over as a result.                                              *)
Refused(c, reply) ==
    /\ reply.type = "FetchResult" /\ reply.status = "error"
    /\ call[c].inv.client = "cli" /\ call[c].inv.mode # "json"

(* An answer of more than MAX_MESSAGE_SIZE cannot be read. *)
read_line_limited(reply) == reply.type # "too_large"

(* What the call becomes with a reply: an Error response is an error, any  *)
(* other reply leads to the next request or ends the call.                 *)
Receives(c) ==
    LET reply == Conn(c).reply
        last  == call[c].step = Len(RequestsOf(call[c].inv))
    IN
    /\ call[c].pc = "waiting"
    /\ Conn(c).server = "answered"
    /\ conns' = [conns EXCEPT ![call[c].conn].client = FALSE]
    /\ \/ /\ ~read_line_limited(reply)
          /\ Ends(c, Code(c, "-32000"))
       \/ /\ reply.type = "Error"
          /\ Ends(c, Code(c, map_daemon_error("-32603")))
       \/ /\ Refused(c, reply)
          /\ Ends(c, "exit_1")
       \/ /\ read_line_limited(reply) /\ reply.type # "Error"
          /\ ~Refused(c, reply)
          /\ call' = [call EXCEPT ![c].pc = IF last THEN "done" ELSE "connecting",
                                  ![c].outcome = IF last THEN "ok" ELSE "none",
                                  ![c].step = IF last THEN @ ELSE @ + 1,
                                  ![c].replies = Append(@, reply)]
    /\ UNCHANGED <<now, up, starts, served>>

(* Fault: the time limit is for a request the daemon has not looked at. *)
GivesUpUnserved(c) ==
    /\ call[c].pc = "waiting"
    /\ call[c].inv.client = "mcp"
    /\ Conn(c).server # "serving"
    /\ now >= call[c].sent_at + Timeout

(* tokio::time::timeout around the read: the proxy leaves.  The command    *)
(* line has no timeout.                                                    *)
GivesUp(c) ==
    /\ call[c].pc = "waiting"
    /\ call[c].inv.client = "mcp"
    /\ now >= call[c].sent_at + Timeout

TimesOut(c) ==
    /\ GivesUp(c)
    /\ Ends(c, "-32001")
    /\ conns' = [conns EXCEPT ![call[c].conn].client = FALSE]
    /\ UNCHANGED <<now, up, starts, served>>

-----------------------------------------------------------------------------
(* The daemon *)

Serves(i) ==
    /\ conns[i].server = "sent"
    /\ up
    /\ conns' = [conns EXCEPT ![i].server = "serving", ![i].begun = now]
    /\ served' = [served EXCEPT ![conns[i].owner] = Append(@, conns[i].request)]
    /\ UNCHANGED <<now, up, starts, call>>

(* The replies to a request.  A page may be longer than a message. *)
RepliesTo(i) ==
    LET type == conns[i].request IN
    IF type = "Fetch"
    THEN [type : {"FetchResult"}, status : {"ok"}, http_status : HttpStatus,
          to : {conns[i].owner}, request : {type}]
         \cup [type : {"FetchResult"}, status : {"error"}, http_status : {0},
               to : {conns[i].owner}, request : {type}]
         \cup {[type |-> "too_large"]}
    ELSE {[type |-> "result", status |-> "ok", to |-> conns[i].owner, request |-> type]}
         \cup (IF type \in {"Search", "CacheClear"} THEN {[type |-> "Error"]} ELSE {})

(* The time at which the answer to a request is due: a fetch keeps to its  *)
(* timeout_secs, a search in concurrent mode to request_timeout_secs, one  *)
(* in tiered mode to nothing, and the others take no time.                 *)
Untimed(i) ==
    conns[i].request = "Search" /\ call[conns[i].owner].inv.mode = "tiered"

Due(i) ==
    /\ conns[i].server = "serving"
    /\ ~Untimed(i)
    /\ now >= conns[i].begun + (CASE conns[i].request = "Fetch"  -> call[conns[i].owner].inv.number
                                  [] conns[i].request = "Search" -> Timeout
                                  [] OTHER                       -> 0)

(* The response is written; that fails if the client has left. *)
Answers(i) ==
    /\ conns[i].server = "serving"
    /\ \E reply \in RepliesTo(i) :
          conns' = [conns EXCEPT ![i].server = IF conns[i].client THEN "answered" ELSE "closed",
                                 ![i].reply = IF conns[i].client THEN reply ELSE NoReply]
    /\ UNCHANGED <<now, up, starts, call, served>>

(* Connections end with the process; what it has written can be read. *)
Dies ==
    /\ up
    /\ up' = FALSE
    /\ conns' = [i \in DOMAIN conns |->
                    IF conns[i].server = "answered" THEN conns[i]
                    ELSE [conns[i] EXCEPT !.server = "closed"]]
    /\ UNCHANGED <<now, starts, call, served>>

Starts ==
    /\ ~up /\ starts < MaxStarts
    /\ up' = TRUE /\ starts' = starts + 1
    /\ UNCHANGED <<now, conns, call, served>>

-----------------------------------------------------------------------------
(* Clients act at once; only the daemon's answers take time. *)
Tick ==
    /\ \/ now < MaxTime
       \/ /\ now < MaxTime + Timeout
          /\ \E c \in Calls : call[c].pc = "waiting" /\ call[c].inv.client = "mcp"
    /\ \A c \in Calls :
          /\ call[c].pc \in {"idle", "waiting", "done"}
          /\ ~GivesUp(c)
          /\ call[c].pc = "waiting" => Conn(c).server \notin {"answered", "closed"}
    /\ \A i \in DOMAIN conns : ~Due(i)
    /\ now' = now + 1
    /\ UNCHANGED <<up, starts, conns, call, served>>

Client(c) ==
    \/ Connects(c)
    \/ FindsNoDaemon(c)
    \/ Sends(c)
    \/ LosesConnection(c)
    \/ Receives(c)
    \/ TimesOut(c)

Next ==
    \/ Tick
    \/ Dies
    \/ Starts
    \/ \E c \in Calls : Client(c) \/ \E inv \in Invocations[c] : Begins(c, inv)
    \/ \E i \in DOMAIN conns : Serves(i) \/ Answers(i)

Spec == Init /\ [][Next]_vars

(* Time passes and clients act.  The daemon need not serve anybody; but a  *)
(* request with a limit is answered by then (Tick waits for it).           *)
FairSpec ==
    /\ Spec
    /\ WF_vars(Tick)
    /\ \A c \in Calls : WF_vars(Client(c))
    /\ WF_vars(\E i \in DOMAIN conns : Due(i) /\ Answers(i))

-----------------------------------------------------------------------------
TypeOK ==
    /\ now \in 0..(MaxTime + Timeout)
    /\ starts \in 1..MaxStarts /\ up \in BOOLEAN
    /\ \A i \in DOMAIN conns :
          /\ conns[i].server \in {"open", "sent", "serving", "answered", "closed"}
          /\ conns[i].owner \in Calls
          /\ conns[i].server = "answered" <=> conns[i].reply # NoReply
    /\ \A c \in Calls :
          /\ call[c].pc \in {"idle", "connecting", "sending", "waiting", "done"}
          /\ call[c].pc = "done" <=> call[c].outcome # "none"
          /\ call[c].pc \in {"sending", "waiting"} => call[c].conn \in DOMAIN conns

(* A client gets the answers to its own requests, in their order: an       *)
(* answer that comes after the proxy has given up reaches nobody.          *)
OwnAnswers ==
    \A c \in Calls : \A k \in DOMAIN call[c].replies :
        /\ call[c].replies[k].to = c
        /\ call[c].replies[k].request = RequestsOf(call[c].inv)[k]

(* A request is served at most once, whatever is lost on the way, and a    *)
(* call that succeeds had each of its requests served once, in order.      *)
ServedAtMostOnce ==
    \A c \in Calls : call[c].pc # "idle" =>
        /\ \E n \in 0..Len(RequestsOf(call[c].inv)) :
               served[c] = SubSeq(RequestsOf(call[c].inv), 1, n)
        /\ call[c].outcome = "ok" => served[c] = RequestsOf(call[c].inv)

(* Every tool call of the proxy ends, even if the daemon never answers, or *)
(* dies, or starts again in the middle of it.                              *)
ToolCallsEnd ==
    \A c \in Calls : call[c].inv.client = "mcp" ~> call[c].pc = "done"

-----------------------------------------------------------------------------
(* What the documentation says and the program does not keep.              *)

(* "Per-request timeout (max 120)": the fetch tool gives a page the time   *)
(* that was asked for before it reports a timeout.                         *)
FetchGetsItsTime ==
    \A c \in Calls : call[c].inv.client = "mcp" /\ call[c].inv.tool = "fetch"
                     /\ call[c].outcome = "-32001" =>
        now >= call[c].sent_at + call[c].inv.number

(* "non-zero on error (including HTTP errors)": a page with an error       *)
(* status makes the fetch command fail.                                    *)
HttpErrorsFail ==
    \A c \in Calls : call[c].inv.client = "cli" /\ call[c].outcome = "ok" =>
        \A k \in DOMAIN call[c].replies :
            call[c].replies[k].type = "FetchResult" => call[c].replies[k].http_status < 400

-----------------------------------------------------------------------------
(* Why OwnAnswers and ServedAtMostOnce hold.                               *)
RequestTypes == {"Search", "Fetch", "ListProviders", "CacheStats", "Health",
                 "ProviderStatus", "CacheClear"}

AllReplies ==
    [type : {"FetchResult"}, status : {"ok", "error"}, http_status : HttpStatus \cup {0},
     to : Calls, request : {"Fetch"}]
    \cup [type : {"result"}, status : {"ok"}, to : Calls,
          request : RequestTypes \cup {"none"}]
    \cup [type : {"too_large", "Error", "none"}]

ConnRecords == [server  : {"open", "sent", "serving", "answered", "closed"},
                client  : BOOLEAN, owner : Calls, begun : Nat,
                request : RequestTypes \cup {"none"}, reply : AllReplies]

Outcomes == {"none", "ok", "exit_1", "exit_2", "-32000", "-32001", "-32602", "-32603"}

AllInvocations == {NoInvocation} \cup UNION {Invocations[c] : c \in Calls}

CallRecords == [inv     : AllInvocations,
                pc      : {"idle", "connecting", "sending", "waiting", "done"},
                step    : Nat, conn : Nat, sent_at : Nat,
                outcome : Outcomes,
                replies : Seq(AllReplies)]

ClientTypes ==
    /\ now \in Nat
    /\ conns \in Seq(ConnRecords)
    /\ call \in [Calls -> CallRecords]
    /\ served \in [Calls -> Seq(RequestTypes)]

(* What the daemon has begun to serve of a call: its first n requests.     *)
ServedUpTo(c, n) ==
    /\ n \in 0..Len(RequestsOf(call[c].inv))
    /\ Len(served[c]) = n
    /\ \A k \in 1..n : served[c][k] = RequestsOf(call[c].inv)[k]

(* A call makes its requests one by one, each over a connection of its     *)
(* own; the daemon has begun to serve those before the current one, and    *)
(* perhaps that.                                                           *)
CallFits(c) ==
    /\ call[c].pc = "idle" =>
          /\ call[c].step = 1 /\ call[c].replies = <<>> /\ served[c] = <<>>
          /\ call[c].outcome = "none"
    /\ call[c].pc # "idle" => call[c].inv \in Invocations[c]
    /\ call[c].pc \in {"connecting", "sending", "waiting"} =>
          /\ call[c].step \in 1..Len(RequestsOf(call[c].inv))
          /\ Len(call[c].replies) = call[c].step - 1
          /\ call[c].outcome = "none"
    /\ call[c].pc = "connecting" => ServedUpTo(c, call[c].step - 1)
    /\ call[c].pc \in {"sending", "waiting"} =>
          /\ call[c].conn \in DOMAIN conns /\ Conn(c).owner = c
          /\ Conn(c).server \in {"serving", "answered"} => ServedUpTo(c, call[c].step)
          /\ ServedUpTo(c, call[c].step - 1) \/ ServedUpTo(c, call[c].step)
    /\ call[c].pc = "waiting" => Conn(c).request = Request(c)
    /\ call[c].pc = "done" => \E n \in 0..Len(RequestsOf(call[c].inv)) : ServedUpTo(c, n)
    /\ call[c].outcome = "ok" => ServedUpTo(c, Len(RequestsOf(call[c].inv)))

(* The reply on a connection is for its owner and its request.  A request  *)
(* not served yet is the current one of its call, which may have given up. *)
Tells(reply) == read_line_limited(reply) /\ reply.type # "Error"

ConnFits(i) ==
    /\ conns[i].server = "answered" /\ Tells(conns[i].reply) =>
          /\ conns[i].reply.to = conns[i].owner
          /\ conns[i].reply.request = conns[i].request
    /\ conns[i].server \in {"open", "sent"} =>
          LET c == conns[i].owner IN
          /\ i = call[c].conn
          /\ call[c].pc \in {"sending", "waiting", "done"}
          /\ call[c].outcome # "ok"
          /\ call[c].step \in 1..Len(RequestsOf(call[c].inv))
          /\ ServedUpTo(c, call[c].step - 1)
          /\ conns[i].server = "sent" => conns[i].request = Request(c)

ClientInv ==
    /\ ClientTypes
    /\ \A c \in Calls : CallFits(c)
    /\ \A i \in DOMAIN conns : ConnFits(i)
    /\ OwnAnswers
=============================================================================
