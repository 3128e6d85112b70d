--------------------------- MODULE ProviderExchange ---------------------------
(***************************************************************************)
(* What the four providers of src/search/providers/ make of one HTTP       *)
(* exchange, and how retry.rs classifies the outcome.                      *)
(*                                                                         *)
(* An exchange is what happened to the request: no answer in time, a       *)
(* connection that failed, or a status with a Retry-After header (NoHint   *)
(* when it is absent or not a number) and a body.  Of a body only its kind *)
(* matters, the code Jina repeats inside it, and its list of items.        *)
(***************************************************************************)
EXTENDS Integers, Sequences

NoHint == -1

Providers == {"duckduckgo", "brave", "jina", "searxng"}

Tags == {"Ok", "HttpError", "RateLimited", "AccessDenied", "CaptchaDetected",
         "Timeout", "ParseError", "NotConfigured", "Internal"}

(* Result<SearchResponse, ProviderError>. *)
Outcome(tag, status, hint, results) ==
    [tag |-> tag, status |-> status, hint |-> hint, results |-> results]
Fails(tag)        == Outcome(tag, 0, NoHint, <<>>)
HttpError(status) == Outcome("HttpError", status, NoHint, <<>>)
Found(items)      == Outcome("Ok", 200, NoHint, items)

-----------------------------------------------------------------------------
(* parse_results of the four.  A result keeps the position it had in the   *)
(* answer, which its score comes from; all but SearXNG drop those without  *)
(* a title or a URL.                                                       *)
Numbered(items) == [i \in DOMAIN items |-> [item |-> items[i], position |-> i - 1]]
Usable(items)   == SelectSeq(Numbered(items), LAMBDA r : r.item.title /\ r.item.url)

(* HTML always parses. *)
duckduckgo_parse_results(body) == Found(Usable(body.items))

(* No body at all is no result. *)
brave_parse_results(body) ==
    CASE body.kind = "empty"                   -> Found(<<>>)
      [] body.kind \in {"malformed", "captcha"} -> Fails("ParseError")
      [] OTHER                                 -> Found(Usable(body.items))

(* Jina repeats the status inside the body. *)
jina_parse_results(body) ==
    CASE body.kind \in {"empty", "malformed", "captcha"} -> Fails("ParseError")
      [] body.kind = "page" /\ body.code # 200 -> HttpError(body.code)
      [] OTHER                                 -> Found(Usable(body.items))

searxng_parse_results(body) ==
    IF body.kind \in {"empty", "malformed", "captcha"} THEN Fails("ParseError")
    ELSE Found(Numbered(body.items))

-----------------------------------------------------------------------------
(* search of the four, from the moment the request is sent: a request that *)
(* fails, a status that says no, or a body that is cut short or not what   *)
(* it should be.                                                           *)
Exchange(x, refused, hint, answer) ==
    CASE x.sent = "timed out"   -> Fails("Timeout")
      [] x.sent = "unreachable" -> Fails("Internal")
      [] x.sent = "answered" /\ x.status \in refused -> Fails("AccessDenied")
      [] x.sent = "answered" /\ x.status = 429 -> Outcome("RateLimited", 429, hint, <<>>)
      [] x.sent = "answered" /\ x.status \in 200..299 ->
            IF x.body.kind = "cut short" THEN Fails("Internal") ELSE answer
      [] OTHER -> HttpError(x.status)

detect_captcha(body) == body.kind = "captcha"

duckduckgo_search(x) ==
    Exchange(x, {403}, NoHint,
             IF detect_captcha(x.body) THEN Fails("CaptchaDetected")
             ELSE duckduckgo_parse_results(x.body))

(* Brave and Jina need a key, and read Retry-After. *)
brave_search(x) == Exchange(x, {401, 403}, x.hint, brave_parse_results(x.body))

jina_search(x) == Exchange(x, {401, 403}, x.hint, jina_parse_results(x.body))

(* SearXNG runs on a host of its own; what it sends has a limit. *)
searxng_search(x) ==
    Exchange(x, {403}, NoHint,
             IF x.body.kind = "too large" THEN Fails("ParseError")
             ELSE searxng_parse_results(x.body))

OutcomeOf(p, x) ==
    CASE p = "duckduckgo" -> duckduckgo_search(x)
      [] p = "brave"      -> brave_search(x)
      [] p = "jina"       -> jina_search(x)
      [] p = "searxng"    -> searxng_search(x)

-----------------------------------------------------------------------------
(* Which errors are worth another attempt: whatever may pass by itself. *)
is_retryable(o) ==
    \/ o.tag \in {"RateLimited", "Timeout", "Internal"}
    \/ o.tag = "HttpError" /\ o.status # 404 /\ o.status >= 500
=============================================================================
