----------------------------- MODULE Connection -----------------------------
(***************************************************************************)
(* One connection of the daemon: read_line_limited, handle_connection,     *)
(* dispatch_request and write_response in src/daemon/server.rs, between a  *)
(* client that writes lines and waits for answers, and the manager.        *)
(*                                                                         *)
(* The socket is a sequence of bytes of four kinds: an ASCII byte, the two *)
(* halves of a character of two bytes, and the newline.  BufReader is      *)
(* filled with whatever has arrived, so a line may come in any pieces.     *)
(***************************************************************************)
EXTENDS PageFetch, Integers, Sequences

CONSTANTS
    Lines,          \* lines a client may write, without their newline
    Parses,         \* text -> the request it is the JSON of
    MaxSize,        \* MAX_MESSAGE_SIZE
    BufferSize,     \* capacity of BufReader
    MaxLines        \* bound: lines a client writes

(* The variants of Request; text of any other type does not parse. *)
RequestTypes == {"Search", "Fetch", "CacheClear", "ListProviders", "ProviderStatus",
                 "CacheStats", "Health", "Shutdown"}

ASSUME ConnectionConstants ==
    /\ Lines \subseteq Seq({"a", "u", "v"})
    /\ \A text \in DOMAIN Parses : Parses[text].type \in RequestTypes
    /\ MaxSize \in Nat /\ MaxLines \in Nat
    /\ BufferSize \in Nat \ {0}

VARIABLES
    sent,           \* the lines the client has written
    client,         \* "writing" or "gone"
    socket,         \* bytes that have not been read
    chunk,          \* bytes in BufReader
    line, total,    \* buf and total of read_line_limited
    pc,             \* "reading", "handling", "writing", "refusing", "closed"
    request,        \* the request being dispatched
    response,       \* the response to be written
    written         \* the responses written

readVars == <<socket, chunk, line, total>>
vars     == <<sent, client, readVars, pc, request, response, written, fetchVars>>

Newline   == "n"
NoRequest == [type |-> "none"]
None      == [type |-> "none"]

Reply(type)        == [type |-> type]
ParseError         == [type |-> "Error", code |-> -32700]
TooLarge           == [type |-> "Error", code |-> -32600]
InternalError      == [type |-> "Error", code |-> -32603]

Init ==
    /\ sent = <<>> /\ client = "writing"
    /\ socket = <<>> /\ chunk = <<>> /\ line = <<>> /\ total = 0
    /\ pc = "reading" /\ request = NoRequest /\ response = None
    /\ written = <<>>
    /\ FetchInit

-----------------------------------------------------------------------------
(* The client writes a line at once; the bytes arrive in any pieces. *)
Writes(l) ==
    /\ client = "writing"
    /\ Len(sent) < MaxLines
    /\ sent' = Append(sent, l)
    /\ socket' = socket \o l \o <<Newline>>
    /\ UNCHANGED <<client, chunk, line, total, pc, request, response, written, fetchVars>>

(* It may leave at any time, in the middle of a line too. *)
Leaves(rest) ==
    /\ client = "writing"
    /\ client' = "gone"
    /\ socket' = socket \o rest
    /\ UNCHANGED <<sent, chunk, line, total, pc, request, response, written, fetchVars>>

-----------------------------------------------------------------------------
(* from_utf8(chunk).unwrap_or(""): a chunk that begins or ends inside a     *)
(* character is no UTF-8, and nothing of it is kept.                       *)
IsUtf8(bytes) ==
    \A i \in DOMAIN bytes :
        /\ bytes[i] = "u" => i < Len(bytes) /\ bytes[i + 1] = "v"
        /\ bytes[i] = "v" => i > 1 /\ bytes[i - 1] = "u"

Decoded(bytes) == IF IsUtf8(bytes) THEN bytes ELSE <<>>

(* Fault: the newline at the end is not counted against the limit. *)
ExceedsBare(n) == n > MaxSize

(* total counts the newline, and so does the limit. *)
Exceeds(n) == n > MaxSize + 1

(* The first newline of the chunk, the bytes before it and those after it. *)
FirstNewline(p) ==
    /\ p \in DOMAIN chunk
    /\ chunk[p] = Newline
    /\ \A i \in 1..(p - 1) : chunk[i] # Newline

HasLine   == \E p \in DOMAIN chunk : chunk[p] = Newline
Before(p) == SubSeq(chunk, 1, p - 1)
After(p)  == SubSeq(chunk, p + 1, Len(chunk))

(* fill_buf on an empty buffer: some of what has arrived. *)
Fill(n) ==
    /\ pc = "reading"
    /\ chunk = <<>>
    /\ n <= Len(socket)
    /\ chunk' = SubSeq(socket, 1, n)
    /\ socket' = SubSeq(socket, n + 1, Len(socket))
    /\ UNCHANGED <<sent, client, line, total, pc, request, response, written, fetchVars>>

(* No newline in the chunk: all of it is appended. *)
AppendsChunk ==
    /\ pc = "reading"
    /\ chunk # <<>> /\ ~HasLine
    /\ ~Exceeds(total + Len(chunk))
    /\ line' = line \o Decoded(chunk)
    /\ total' = total + Len(chunk)
    /\ chunk' = <<>>
    /\ UNCHANGED <<sent, client, socket, pc, request, response, written, fetchVars>>

(* A line is complete: parsed and dispatched, or answered with an error.   *)
(* The buffer is cleared for the next one.                                 *)
TakesLine(p) ==
    /\ pc = "reading"
    /\ FirstNewline(p)
    /\ ~Exceeds(total + p)
    /\ chunk' = After(p)
    /\ line' = <<>> /\ total' = 0
    /\ LET text == line \o Decoded(Before(p)) IN
       IF text \in DOMAIN Parses
       THEN pc' = "handling" /\ request' = Parses[text] /\ UNCHANGED response
       ELSE pc' = "writing" /\ response' = ParseError /\ UNCHANGED request
    /\ UNCHANGED <<sent, client, socket, written, fetchVars>>

(* Over the limit: nothing is consumed any more. *)
RefusesLine ==
    /\ pc = "reading"
    /\ chunk # <<>>
    /\ \/ ~HasLine /\ Exceeds(total + Len(chunk))
       \/ \E p \in DOMAIN chunk : FirstNewline(p) /\ Exceeds(total + p)
    /\ pc' = "refusing" /\ response' = TooLarge
    /\ UNCHANGED <<sent, client, readVars, request, written, fetchVars>>

(* End of file, or a read error: what was read of a line is dropped. *)
Disconnects ==
    /\ pc = "reading"
    /\ chunk = <<>> /\ socket = <<>> /\ client = "gone"
    /\ pc' = "closed"
    /\ UNCHANGED <<sent, client, readVars, request, response, written, fetchVars>>

-----------------------------------------------------------------------------
(* dispatch_request: the answers a request may get, Fetch apart. *)
Answers(type) ==
    CASE type = "Search"         -> {Reply("SearchResult"), InternalError}
      [] type = "CacheClear"     -> {Reply("CacheCleared"), InternalError}
      [] type = "ListProviders"  -> {Reply("ProviderList")}
      [] type = "ProviderStatus" -> {Reply("ProviderStatus")}
      [] type = "CacheStats"     -> {Reply("CacheStats")}
      [] type = "Health"         -> {Reply("Health")}
      [] type = "Shutdown"       -> {Reply("ShutdownAck")}

AllAnswers(type) == IF type = "Fetch" THEN {Reply("FetchResult")} ELSE Answers(type)

Handles ==
    /\ pc = "handling"
    /\ request.type # "Fetch"
    /\ response' \in Answers(request.type)
    /\ pc' = "writing"
    /\ UNCHANGED <<sent, client, readVars, request, written, fetchVars>>

BeginsFetch ==
    /\ pc = "handling"
    /\ request.type = "Fetch"
    /\ \E u \in Urls, secs \in Timeouts : BeginFetch(u, secs)
    /\ UNCHANGED <<sent, client, readVars, pc, request, response, written>>

Fetches ==
    /\ FetchNext
    /\ UNCHANGED <<sent, client, readVars, pc, request, response, written>>

EndsFetch ==
    /\ pc = "handling"
    /\ fetch = "done"
    /\ response' = Reply("FetchResult")
    /\ pc' = "writing"
    /\ fetch' = "none" /\ url' = NoUrl /\ hops' = 0 /\ timeout' = 0
    /\ elapsed' = 0 /\ page' = NoPage /\ body' = 0 /\ result' = NoResult
    /\ UNCHANGED <<sent, client, readVars, request, written>>

(* write_response fails if nobody is there to read it. *)
WritesResponse ==
    /\ pc \in {"writing", "refusing"}
    /\ client = "writing"
    /\ written' = Append(written, response)
    /\ pc' = IF pc = "refusing" THEN "closed" ELSE "reading"
    /\ UNCHANGED <<sent, client, readVars, request, response, fetchVars>>

WriteFails ==
    /\ pc \in {"writing", "refusing"}
    /\ client = "gone"
    /\ pc' = "closed"
    /\ UNCHANGED <<sent, client, readVars, request, response, written, fetchVars>>

Reads ==
    \/ \E n \in 1..BufferSize : Fill(n)
    \/ AppendsChunk
    \/ \E p \in 1..BufferSize : TakesLine(p)
    \/ RefusesLine
    \/ Disconnects

Replies ==
    \/ BeginsFetch
    \/ Fetches
    \/ EndsFetch
    \/ WritesResponse
    \/ WriteFails

Next ==
    \/ \E l \in Lines : Writes(l) \/ Leaves(l)
    \/ Reads
    \/ Handles
    \/ Replies

Spec == Init /\ [][Next]_vars

(* The runtime polls the connection.  A fetch ends because time passes; of *)
(* the network nothing is assumed, and a search need not end.              *)
FairSpec ==
    /\ Spec
    /\ WF_vars(Reads)
    /\ WF_vars(BeginsFetch \/ EndsFetch \/ WritesResponse \/ WriteFails)
    /\ WF_vars(request.type # "Search" /\ Handles)
    /\ WF_vars((FetchTick \/ FetchTimesOut)
               /\ UNCHANGED <<sent, client, readVars, pc, request, response, written>>)

-----------------------------------------------------------------------------
(* What a line may be answered with: a refusal if and only if it is too    *)
(* long.  A line of ASCII is taken for what it is, whatever pieces it came *)
(* in; one with longer characters may have lost a piece.                   *)
AllowedFor(text) ==
    IF text \in DOMAIN Parses THEN AllAnswers(Parses[text].type) ELSE {ParseError}

Ascii(l) == \A i \in DOMAIN l : l[i] = "a"

AnswersTo(l) ==
    CASE Len(l) > MaxSize -> {TooLarge}
      [] Len(l) <= MaxSize /\ Ascii(l) -> AllowedFor(l)
      [] OTHER -> {ParseError} \cup UNION {AllowedFor(text) : text \in DOMAIN Parses}

Responses == UNION {AnswersTo(l) : l \in Lines}

Bytes == {"a", "u", "v", Newline}

TypeOK ==
    /\ sent \in Seq(Lines)
    /\ client \in {"writing", "gone"}
    /\ socket \in Seq(Bytes) /\ chunk \in Seq(Bytes)
    /\ Len(chunk) <= BufferSize
    /\ line \in Seq(Bytes \ {Newline})
    /\ total \in Nat /\ Len(line) <= total /\ total <= MaxSize + 1
    /\ pc \in {"reading", "handling", "writing", "refusing", "closed"}
    /\ written \in Seq(Responses)
    /\ fetch \in {"none", "sending", "reading", "done"}
    /\ fetch # "none" => pc = "handling" /\ request.type = "Fetch"

Protocol == INSTANCE RequestReply WITH
    Allowed <- [l \in Lines |-> AnswersTo(l)],
    Refusal <- TooLarge,
    open    <- pc # "closed"

(* Each line gets exactly one answer, in order, and one that fits it,      *)
(* however the bytes arrive and whenever the client leaves; after a line   *)
(* that is too long nothing more is read.                                  *)
OneReplyEach == Protocol!Spec

(* "Returns Err(MaxSizeExceeded) if the line (including delimiter) exceeds *)
(* max_size bytes": a line that does, with its newline, is refused.        *)
LimitIncludesDelimiter ==
    \A n \in DOMAIN written :
        n <= Len(sent) /\ Len(sent[n]) + 1 > MaxSize => written[n] = TooLarge

(* If searches end, every line that is written is answered or the          *)
(* connection is closed, although the network may never answer a fetch.    *)
SearchesEnd == []<>~(pc = "handling" /\ request.type = "Search")

EveryLineAnswered ==
    SearchesEnd =>
        \A n \in 1..MaxLines : Len(sent) >= n ~> (Len(written) >= n \/ pc = "closed")

-----------------------------------------------------------------------------
(* Why OneReplyEach holds.  Of the lines written, Taken have been cut from *)
(* the bytes; those that are left are the rest of the next line, of which  *)
(* total bytes have been read, and the lines after it.                     *)
Taken  == Len(written) + (IF pc \in {"handling", "writing"} THEN 1 ELSE 0)
Stream == chunk \o socket

(* The bytes are the lines after number n, without the first k of them.    *)
(* The newline that ends line j is at end[j].                              *)
Framed(end, n, k, bytes, lines) ==
    /\ end \in [n..Len(lines) -> Int]
    /\ end[n] = 0 - k
    /\ end[Len(lines)] = Len(bytes)
    /\ \A i, j \in n..Len(lines) : i <= j => end[i] <= end[j]
    /\ \A j \in (n + 1)..Len(lines) :
          /\ end[j] = end[j - 1] + Len(lines[j]) + 1
          /\ end[j] >= 1 /\ bytes[end[j]] = Newline
          /\ \A i \in 1..Len(lines[j]) :
                end[j - 1] + i >= 1 => bytes[end[j - 1] + i] = lines[j][i]

(* While the client is there: what has been read of the next line, and     *)
(* what is held against the line being answered.                           *)
Reading ==
    /\ Taken <= Len(sent)
    /\ \E end \in [Taken..Len(sent) -> Int] : Framed(end, Taken, total, Stream, sent)
    /\ Taken < Len(sent) /\ Ascii(sent[Taken + 1]) => Len(line) = total /\ Ascii(line)

Pending ==
    LET l == sent[Len(written) + 1] IN
    /\ pc \in {"handling", "writing", "refusing"} => Len(written) < Len(sent)
    /\ pc \in {"handling", "writing"} => total = 0 /\ line = <<>> /\ Len(l) <= MaxSize
    /\ pc = "handling" =>
          \E text \in DOMAIN Parses :
              request = Parses[text] /\ (Ascii(l) => text = l)
    /\ pc = "writing" => response \in AnswersTo(l)
    /\ pc = "refusing" => response = TooLarge /\ Len(l) > MaxSize

ConnInv ==
    /\ TypeOK
    /\ client = "writing" =>
          /\ pc \in {"reading", "handling", "writing"} => Reading
          /\ Pending
=============================================================================
