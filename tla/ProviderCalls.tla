---------------------------- MODULE ProviderCalls ----------------------------
(***************************************************************************)
(* execute_provider_pipeline in src/daemon/manager.rs after a cache miss,  *)
(* with everything below it: a slot of the rate limiter, the retry loop of *)
(* retry.rs, and for each attempt the provider's own search, which takes a *)
(* slot of the same bucket again, a client from the RotatingClient and one *)
(* HTTP exchange.                                                          *)
(*                                                                         *)
(* A task is one run of the pipeline for one provider, on a thread of its  *)
(* own: between any two of its steps other tasks take theirs and time      *)
(* passes.  From the slot to the request it does not await; building a     *)
(* client there takes 20-50 ms and the scheduler its share, which together *)
(* is at most Delay.  The search that spawned the task may abort it        *)
(* wherever it awaits.                                                     *)
(***************************************************************************)
EXTENDS RateLimiter, ProviderExchange

CONSTANTS
    MaxAttempts, BaseDelay, CapDelay,   \* RetryConfig
    RotateEvery,        \* tls_rotate_every; 0 never rotates
    Exchanges,          \* what may become of an HTTP request
    Delay,              \* the longest time from a slot to its request
    MaxTime             \* bound: ticks that may pass with nobody asleep

ASSUME CallConstants ==
    /\ Names \subseteq Providers
    /\ MaxAttempts \in Nat \ {0}        \* retry_with_backoff panics on 0
    /\ BaseDelay \in Nat /\ CapDelay \in Nat
    /\ RotateEvery \in Nat /\ Delay \in Nat
    /\ \A x \in Exchanges : x.hint \in Nat \cup {NoHint}    \* Option<u64>

VARIABLES
    stage,      \* task -> where it is in the pipeline
    attempt,    \* task -> attempts that have failed
    ready,      \* task -> when its backoff ends
    http,       \* name -> [counter, client]: the RotatingClient
    built,      \* name -> clients built so far; they are numbered
    own,        \* task -> the client it has built and not yet installed
    using,      \* task -> the client its request goes through
    stale,      \* history: task -> the client this call must not return
    told,       \* history: task -> no new attempt before this time
    slot,       \* history: task -> which of the name's slots it took last
    asked       \* history: name -> [task, at, slot] of every request

callVars == <<stage, attempt, ready, http, built, own, using, stale, told, slot, asked>>
allVars  == <<vars, callVars>>

NoClient == 0

CallInit ==
    /\ Init
    /\ stage = [t \in Tasks |-> "new"]
    /\ attempt = [t \in Tasks |-> 0]
    /\ ready = [t \in Tasks |-> 0]
    /\ http = [n \in Names |-> [counter |-> 0, client |-> 1]]
    /\ built = [n \in Names |-> 1]
    /\ own = [t \in Tasks |-> NoClient]
    /\ using = [t \in Tasks |-> NoClient]
    /\ stale = [t \in Tasks |-> NoClient]
    /\ told = [t \in Tasks |-> 0]
    /\ slot = [t \in Tasks |-> 0]
    /\ asked = [n \in Names |-> <<>>]

Stages  == {"new", "paced", "attempt", "search", "count", "build", "install",
            "send", "asking", "backoff", "done", "failed", "dropped"}
Over    == {"done", "failed", "dropped"}
Leaving(t) == stage[t] \in {"count", "build", "install", "send"}

Go(t, s) == stage' = [stage EXCEPT ![t] = s]

-----------------------------------------------------------------------------
(* Time passes, but no task is kept from its request for longer than Delay. *)
Asleep(t) ==
    \/ pc[t] = "sleeping" /\ now < wake[t]
    \/ stage[t] = "backoff" /\ now < ready[t]

Passes ==
    /\ now < MaxTime \/ \E t \in Tasks : Asleep(t)
    /\ \A t \in Tasks : Leaving(t) => now - log[resource[t]][slot[t]] < Delay
    /\ Tick
    /\ UNCHANGED callVars

Pauses(t)  == Sleep(t) /\ UNCHANGED callVars
Resumes(t) == WakeUp(t) /\ UNCHANGED callVars

(* execute_provider_pipeline, step 2. *)
Begins(t, n) ==
    /\ stage[t] = "new"
    /\ Acquire(t, n)
    /\ Go(t, "paced")
    /\ UNCHANGED <<attempt, ready, http, built, own, using, stale, told, slot, asked>>

Paced(t) ==
    /\ stage[t] = "paced"
    /\ TakeSlot(t)
    /\ Go(t, "attempt")
    /\ UNCHANGED <<attempt, ready, http, built, own, using, stale, told, slot, asked>>

(* Fault: the slot of the pipeline is good enough for every attempt. *)
AttemptsUnpaced(t) ==
    /\ stage[t] = "attempt"
    /\ slot' = [slot EXCEPT ![t] = Len(log[resource[t]])]
    /\ Go(t, "count")
    /\ UNCHANGED <<vars, attempt, ready, http, built, own, using, stale, told, asked>>

(* Provider::search: the same bucket once more, for every attempt. *)
Attempts(t) ==
    /\ stage[t] = "attempt"
    /\ Acquire(t, resource[t])
    /\ Go(t, "search")
    /\ UNCHANGED <<attempt, ready, http, built, own, using, stale, told, slot, asked>>

Searches(t) ==
    /\ stage[t] = "search"
    /\ TakeSlot(t)
    /\ slot' = [slot EXCEPT ![t] = Len(log[resource[t]]) + 1]
    /\ Go(t, "count")
    /\ UNCHANGED <<attempt, ready, http, built, own, using, stale, told, asked>>

-----------------------------------------------------------------------------
(* RotatingClient::client: count, rebuild at every multiple, read.  A      *)
(* build that fails leaves the client there is.                            *)
Counts(t) ==
    LET n     == resource[t]
        count == http[n].counter + 1
        turn  == RotateEvery > 0 /\ count % RotateEvery = 0
    IN  /\ stage[t] = "count"
        /\ http' = [http EXCEPT ![n].counter = count]
        /\ stale' = [stale EXCEPT ![t] = IF turn THEN http[n].client ELSE NoClient]
        /\ Go(t, IF turn THEN "build" ELSE "send")
        /\ UNCHANGED <<vars, attempt, ready, built, own, using, told, slot, asked>>

Builds(t) ==
    LET n == resource[t] IN
    /\ stage[t] = "build"
    /\ built' = [built EXCEPT ![n] = @ + 1]
    /\ own' = [own EXCEPT ![t] = built[n] + 1]
    /\ Go(t, "install")
    /\ UNCHANGED <<vars, attempt, ready, http, using, stale, told, slot, asked>>

BuildFails(t) ==
    /\ stage[t] = "build"
    /\ stale' = [stale EXCEPT ![t] = NoClient]
    /\ Go(t, "send")
    /\ UNCHANGED <<vars, attempt, ready, http, built, own, using, told, slot, asked>>

(* Fault: a build that finds another one done since puts nothing in place. *)
InstallsIfFirst(t) ==
    LET n == resource[t] IN
    /\ stage[t] = "install"
    /\ http' = [http EXCEPT ![n].client = IF own[t] < built[n] THEN @ ELSE own[t]]
    /\ own' = [own EXCEPT ![t] = NoClient]
    /\ Go(t, "send")
    /\ UNCHANGED <<vars, attempt, ready, built, using, stale, told, slot, asked>>

Installs(t) ==
    LET n == resource[t] IN
    /\ stage[t] = "install"
    /\ http' = [http EXCEPT ![n].client = own[t]]
    /\ own' = [own EXCEPT ![t] = NoClient]
    /\ Go(t, "send")
    /\ UNCHANGED <<vars, attempt, ready, built, using, stale, told, slot, asked>>

(* The request leaves through the client that is in place now. *)
Sends(t) ==
    LET n == resource[t] IN
    /\ stage[t] = "send"
    /\ using' = [using EXCEPT ![t] = http[n].client]
    /\ asked' = [asked EXCEPT ![n] = Append(@, [task |-> t, at |-> now, slot |-> slot[t]])]
    /\ Go(t, "asking")
    /\ UNCHANGED <<vars, attempt, ready, http, built, own, stale, told, slot>>

-----------------------------------------------------------------------------
(* retry_with_backoff.  Full jitter: any delay up to the computed one.     *)
Computed(n) ==
    LET shifted == BaseDelay * 2 ^ n IN IF shifted < CapDelay THEN shifted ELSE CapDelay

(* Fault: the smaller of the two. *)
DelaysShort(n, hint) ==
    {IF hint # NoHint /\ hint < jitter THEN hint ELSE jitter : jitter \in 0..Computed(n)}

Delays(n, hint) ==
    {IF hint > jitter THEN hint ELSE jitter : jitter \in 0..Computed(n)}

GivesUp(t, o) == ~is_retryable(o) \/ attempt[t] + 1 >= MaxAttempts

(* The exchange ends; the outcome ends the pipeline or starts a backoff.   *)
(* A success is stored in the cache before the task returns: CacheStore.   *)
Answers(t, x) ==
    LET o == OutcomeOf(resource[t], x) IN
    /\ stage[t] = "asking"
    /\ \/ o.tag = "Ok" /\ Go(t, "done")
          /\ UNCHANGED <<attempt, ready, told>>
       \/ o.tag # "Ok" /\ GivesUp(t, o) /\ Go(t, "failed")
          /\ UNCHANGED <<attempt, ready, told>>
       \/ /\ o.tag # "Ok" /\ ~GivesUp(t, o)
          /\ \E delay \in Delays(attempt[t], o.hint) :
                ready' = [ready EXCEPT ![t] = now + delay]
          /\ attempt' = [attempt EXCEPT ![t] = @ + 1]
          /\ told' = [told EXCEPT ![t] = IF o.hint = NoHint THEN now ELSE now + o.hint]
          /\ Go(t, "backoff")
    /\ using' = [using EXCEPT ![t] = NoClient]
    /\ stale' = [stale EXCEPT ![t] = NoClient]
    /\ UNCHANGED <<vars, http, built, own, slot, asked>>

Retries(t) ==
    /\ stage[t] = "backoff"
    /\ now >= ready[t]
    /\ ready' = [ready EXCEPT ![t] = 0]
    /\ Go(t, "attempt")
    /\ UNCHANGED <<vars, attempt, http, built, own, using, stale, told, slot, asked>>

(* The deadline of the search: asleep in the limiter, waiting for the      *)
(* answer, or in a backoff.                                                *)
Drops(t) ==
    /\ \/ stage[t] \in {"paced", "search"} /\ Abort(t)
       \/ stage[t] \in {"asking", "backoff"} /\ UNCHANGED vars
    /\ ready' = [ready EXCEPT ![t] = 0]
    /\ using' = [using EXCEPT ![t] = NoClient]
    /\ stale' = [stale EXCEPT ![t] = NoClient]
    /\ Go(t, "dropped")
    /\ UNCHANGED <<attempt, http, built, own, told, slot, asked>>

CallNext ==
    \/ Passes
    \/ \E t \in Tasks :
          \/ \E n \in Names : Begins(t, n)
          \/ Paced(t) \/ Attempts(t) \/ Searches(t)
          \/ Pauses(t) \/ Resumes(t)
          \/ Counts(t) \/ Builds(t) \/ BuildFails(t) \/ Installs(t) \/ Sends(t)
          \/ \E x \in Exchanges : Answers(t, x)
          \/ Retries(t)
          \/ Drops(t)

CallSpec == CallInit /\ [][CallNext]_allVars

(* The runtime runs a task that can run and lets time pass; every client   *)
(* is built with a timeout, so each exchange ends.                         *)
Runs(t) ==
    \/ Paced(t) \/ Attempts(t) \/ Searches(t) \/ Pauses(t) \/ Resumes(t)
    \/ Counts(t) \/ Builds(t) \/ BuildFails(t) \/ Installs(t) \/ Sends(t)
    \/ \E x \in Exchanges : Answers(t, x)
    \/ Retries(t)

FairCallSpec == CallSpec /\ WF_allVars(Passes) /\ \A t \in Tasks : WF_allVars(Runs(t))

-----------------------------------------------------------------------------
(* Every variable keeps its range, and a client that is used was built. *)
CallTypeOK ==
    /\ TypeOK
    /\ stage \in [Tasks -> Stages]
    /\ attempt \in [Tasks -> 0..MaxAttempts - 1]
    /\ ready \in [Tasks -> Nat] /\ told \in [Tasks -> Nat] /\ slot \in [Tasks -> Nat]
    /\ \A n \in Names : http[n].counter \in Nat /\ http[n].client \in 1..built[n]
    /\ \A t \in Tasks : {own[t], using[t], stale[t]} \subseteq 0..built[resource[t]]

(* What rate_limit_rpm promises the provider: of the requests that really  *)
(* leave, any rpm + 1 in a row span a window, up to the time a request may *)
(* lag behind its slot, whatever is retried, dropped or overtaken.         *)
RequestsKeepRate ==
    \A n \in Names : \A i \in DOMAIN asked[n] :
        i + rpm[n] <= Len(asked[n]) =>
            asked[n][i + rpm[n]].at - asked[n][i].at >= Window - Delay

(* A provider that said when to come back is not asked earlier by the task *)
(* it said it to: neither jitter nor a free slot shortens the wait.        *)
HintHonoured ==
    \A t \in Tasks : stage[t] = "asking" =>
        \A i \in DOMAIN asked[resource[t]] :
            LET r == asked[resource[t]][i] IN
            /\ r.task = t
            /\ \A j \in DOMAIN asked[resource[t]] : asked[resource[t]][j].task = t => j <= i
            => r.at >= told[t]

(* The call that rotates never gets the client it was to replace, however  *)
(* the installs of two rotating calls overtake each other.                 *)
RotationTakesEffect ==
    \A t \in Tasks : using[t] # NoClient => using[t] # stale[t]

(* Every run of the pipeline ends, in an answer or an error, or dropped.   *)
CallsEnd == \A t \in Tasks : stage[t] # "new" ~> stage[t] \in Over
-----------------------------------------------------------------------------
(* Why the rate holds.  Each request, and each that is about to leave, has *)
(* a slot of its own in the limiter's history, granted at most Delay       *)
(* before; the requests need not leave in the order of their slots.        *)
Unsent(n) == {t \in Tasks : resource[t] = n /\ Leaving(t)}

SlotsFit ==
    \A n \in Names :
        /\ \A t \in Unsent(n) :
              slot[t] \in DOMAIN log[n] /\ now - log[n][slot[t]] <= Delay
        /\ \A i \in DOMAIN asked[n] :
              LET r == asked[n][i] IN
              /\ r.slot \in DOMAIN log[n]
              /\ log[n][r.slot] <= r.at /\ r.at <= log[n][r.slot] + Delay
              /\ r.at <= now

SlotsDiffer ==
    \A n \in Names :
        /\ \A t, u \in Unsent(n) : t # u => slot[t] # slot[u]
        /\ \A t \in Unsent(n), i \in DOMAIN asked[n] : slot[t] # asked[n][i].slot
        /\ \A i, j \in DOMAIN asked[n] : i # j => asked[n][i].slot # asked[n][j].slot

AskedInOrder ==
    \A n \in Names : \A i, j \in DOMAIN asked[n] : i <= j => asked[n][i].at <= asked[n][j].at

Request == [task : Tasks, at : Nat, slot : Nat]

PaidFor ==
    /\ slot \in [Tasks -> Nat] /\ asked \in [Names -> Seq(Request)]
    /\ SlotsFit /\ SlotsDiffer /\ AskedInOrder

(* Why hints are honoured.  A task that is told to wait sleeps until then, *)
(* and time does not go back before it asks again.                         *)
Waits ==
    /\ told \in [Tasks -> Nat] /\ ready \in [Tasks -> Nat]
    /\ attempt \in [Tasks -> 0..MaxAttempts - 1]
    /\ \A t \in Tasks :
          /\ stage[t] \in {"new", "paced"} => told[t] = 0
          /\ stage[t] = "backoff" => told[t] <= ready[t]
          /\ stage[t] \in {"attempt", "search", "count", "build", "install", "send"} =>
                told[t] <= now

HintInv == Waits /\ HintHonoured
=============================================================================
