------------------------------ MODULE PageFetch ------------------------------
(***************************************************************************)
(* handle_fetch in src/daemon/server.rs: one page fetched for a client,    *)
(* through redirects, within a time limit and a limit on its body.         *)
(*                                                                         *)
(* A URL is what validate_url looks at: the scheme, the kind of host and   *)
(* what a lookup of its name may find.  Every lookup is a new one: that of *)
(* validate_url, and the one of the HTTP client when it connects, which    *)
(* may find something else, so that nothing is said of where it connects.  *)
(* A page is its status, its length in some unit and what detect_spa finds *)
(* in it.  The network answers as it likes.                                *)
(***************************************************************************)
EXTENDS Naturals

CONSTANTS
    Urls,           \* the URLs there are
    Pages,          \* the responses the network may give
    Timeouts,       \* the timeout_secs a request may carry
    MaxFetchTimeout,\* MAX_FETCH_TIMEOUT_SECS
    MaxRedirects,   \* MAX_REDIRECTS
    MaxBody         \* MAX_FETCH_BODY_SIZE

ASSUME FetchConstants ==
    /\ Timeouts \subseteq Nat
    /\ MaxFetchTimeout \in Nat /\ MaxRedirects \in Nat \ {0} /\ MaxBody \in Nat
    /\ \A p \in Pages : p.length \in Nat

VARIABLES
    fetch,          \* "none", "sending", "reading" or "done"
    url,            \* the URL being asked, then the final one
    hops,           \* URLs of this chain that have been asked
    timeout,        \* timeout_secs of the request
    elapsed,        \* time since the request was sent
    page,           \* the response being read
    body,           \* bytes of it that are buffered
    result          \* the FetchResult

fetchVars == <<fetch, url, hops, timeout, elapsed, page, body, result>>

NoUrl    == [scheme |-> "none"]
NoPage   == [status |-> 0]
NoResult == [status |-> "none"]

FetchInit ==
    /\ fetch = "none" /\ url = NoUrl /\ hops = 0 /\ timeout = 0 /\ elapsed = 0
    /\ page = NoPage /\ body = 0 /\ result = NoResult

-----------------------------------------------------------------------------
(* is_hostname_blocked and is_ip_blocked: a blocked name stands for itself, *)
(* a blocked range for the address class "restricted".                     *)
is_hostname_blocked(u) == u.host = "blocked name"
is_ip_blocked(address) == address = "restricted"

(* validate_url, whose lookup finds these addresses, or none.              *)
validate_url(u, addresses) ==
    /\ u.scheme \in {"http", "https"}
    /\ u.host # "none"
    /\ ~is_hostname_blocked(u)
    /\ addresses # {}
    /\ \A address \in addresses : ~is_ip_blocked(address)

(* detect_spa: any one of the three heuristics is enough. *)
detect_spa(p) == p.text_is_short \/ ~p.semantic_elements \/ p.spa_root

FetchResult(status, http_status) == [status |-> status, http_status |-> http_status]

Finish(status, http_status) ==
    /\ fetch' = "done"
    /\ result' = FetchResult(status, http_status)

(* The request is refused, or the client cannot be built, or it is sent. *)
BeginFetch(u, secs) ==
    /\ fetch = "none"
    /\ url' = u /\ timeout' = secs
    /\ \/ /\ Finish("error", 0)
          /\ UNCHANGED hops
       \/ /\ 0 < secs /\ secs <= MaxFetchTimeout
          /\ \E found \in u.lookups : validate_url(u, found)
          /\ fetch' = "sending" /\ hops' = 1
          /\ UNCHANGED result
    /\ UNCHANGED <<elapsed, page, body>>

(* The redirect policy.  The URLs asked so far include the first one. *)
Follow(u, found) == hops < MaxRedirects /\ validate_url(u, found)

Redirected(u) ==
    /\ fetch = "sending"
    /\ \E found \in u.lookups : Follow(u, found)
    /\ url' = u /\ hops' = hops + 1
    /\ UNCHANGED <<fetch, timeout, elapsed, page, body, result>>

(* A response that is no redirect, or a redirect that is not followed:     *)
(* attempt.stop() hands over the redirect itself.                          *)
Responds(p) ==
    /\ fetch = "sending"
    /\ p.redirect => \E u \in Urls : \E found \in u.lookups : ~Follow(u, found)
    /\ fetch' = "reading" /\ page' = p
    /\ UNCHANGED <<url, hops, timeout, elapsed, body, result>>

(* The client finds no address, or cannot connect, or gets no response. *)
SendFails ==
    /\ fetch = "sending"
    /\ Finish("error", 0)
    /\ UNCHANGED <<url, hops, timeout, elapsed, page, body>>

AppendToFull(n) ==                    \* fault: looks at the size, then appends
    /\ body' = body + n
    /\ IF body > MaxBody
       THEN Finish("error", page.status)
       ELSE UNCHANGED <<fetch, result>>

(* read_body_capped appends a chunk and then looks at the size. *)
AppendChunk(n) ==
    /\ body' = body + n
    /\ IF body + n > MaxBody
       THEN Finish("error", page.status)
       ELSE UNCHANGED <<fetch, result>>

ReadsBody(n) ==
    /\ fetch = "reading"
    /\ page.declared => page.length <= MaxBody
    /\ body + n <= page.length
    /\ AppendChunk(n)
    /\ UNCHANGED <<url, hops, timeout, elapsed, page>>

(* Content-Length is over the limit, or the connection breaks. *)
ReadFails ==
    /\ fetch = "reading"
    /\ Finish("error", page.status)
    /\ UNCHANGED <<url, hops, timeout, elapsed, page, body>>

(* The body is complete.  The status says nothing of the HTTP status. *)
Completes ==
    /\ fetch = "reading"
    /\ body = page.length
    /\ Finish(IF ~page.utf8 THEN "error"
              ELSE IF detect_spa(page) THEN "spa_detected" ELSE "ok",
              page.status)
    /\ UNCHANGED <<url, hops, timeout, elapsed, page, body>>

(* Fault: the timeout covers the request only. *)
SendTimesOut ==
    /\ fetch = "sending"
    /\ elapsed >= timeout
    /\ Finish("error", 0)
    /\ UNCHANGED <<url, hops, timeout, elapsed, page, body>>

(* The client's timeout covers the request and the body. *)
FetchTimesOut ==
    /\ fetch \in {"sending", "reading"}
    /\ elapsed >= timeout
    /\ Finish("error", IF fetch = "sending" THEN 0 ELSE page.status)
    /\ UNCHANGED <<url, hops, timeout, elapsed, page, body>>

FetchTick ==
    /\ fetch \in {"sending", "reading"}
    /\ elapsed < timeout
    /\ elapsed' = elapsed + 1
    /\ UNCHANGED <<fetch, url, hops, timeout, page, body, result>>

FetchNext ==
    \/ \E u \in Urls : Redirected(u)
    \/ \E p \in Pages : Responds(p)
    \/ SendFails
    \/ \E n \in 1..(MaxBody + 1) : ReadsBody(n)
    \/ ReadFails
    \/ Completes
    \/ FetchTimesOut
    \/ FetchTick

-----------------------------------------------------------------------------
(* A page is given to the client only if all of it was read and none of it *)
(* is beyond the limit: what is cut short is an error.                     *)
GivenPagesAreWhole ==
    result.status \in {"ok", "spa_detected"} =>
        /\ body = page.length
        /\ body <= MaxBody
        /\ page.utf8
        /\ elapsed <= timeout
=============================================================================
