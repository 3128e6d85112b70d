----------------------------- MODULE RateLimiter -----------------------------
(***************************************************************************)
(* RateLimiter::acquire in src/anti_blocking/rate_limiter.rs: one sliding  *)
(* window of timestamps per name, shared by every task of the daemon.  The *)
(* body of the loop runs under a mutex and is one step; between two turns  *)
(* of it a task sleeps, other tasks take slots, and a task that is aborted *)
(* with its JoinSet leaves without one.                                    *)
(***************************************************************************)
EXTENDS Integers, Sequences, FiniteSets

CONSTANTS
    Tasks,          \* tasks that call acquire
    Names,          \* provider names, one bucket each
    rpm,            \* the limit each name is acquired with
    Window          \* the 60-second window

ASSUME RateConstants ==
    /\ rpm \in [Names -> Nat \ {0}]     \* acquire asserts rpm > 0
    /\ Window \in Nat \ {0}

VARIABLES
    now,            \* Instant::now()
    windows,        \* name -> timestamps of recent acquisitions, oldest first
    pc,             \* task -> where it is in acquire
    resource,       \* task -> the name it acquires
    wake,           \* task -> when its sleep ends
    log             \* history: name -> every acquisition ever granted

vars == <<now, windows, pc, resource, wake, log>>

Init ==
    /\ now = 0
    /\ windows = [n \in Names |-> <<>>]
    /\ pc = [t \in Tasks |-> "idle"]
    /\ resource \in [Tasks -> Names]
    /\ wake = [t \in Tasks |-> 0]
    /\ log = [n \in Names |-> <<>>]

(* Pop the front while it is at least a window old.  The deque is in time  *)
(* order, so that is the number of expired entries.                        *)
Expired(times) == {i \in DOMAIN times : now - times[i] >= Window}
Prune(times)   == SubSeq(times, Cardinality(Expired(times)) + 1, Len(times))

-----------------------------------------------------------------------------
Tick ==
    /\ now' = now + 1
    /\ UNCHANGED <<windows, pc, resource, wake, log>>

Acquire(t, n) ==
    /\ pc[t] = "idle"
    /\ pc' = [pc EXCEPT ![t] = "checking"]
    /\ resource' = [resource EXCEPT ![t] = n]
    /\ UNCHANGED <<now, windows, wake, log>>

(* Fault: one slot too many. *)
TakeSlotAtLimit(t) ==
    LET n    == resource[t]
        kept == Prune(windows[n])
    IN
    /\ pc[t] = "checking"
    /\ Len(kept) <= rpm[n]
    /\ windows' = [windows EXCEPT ![n] = Append(kept, now)]
    /\ log' = [log EXCEPT ![n] = Append(@, now)]
    /\ pc' = [pc EXCEPT ![t] = "idle"]
    /\ UNCHANGED <<now, resource, wake>>

(* Room in the pruned window: take the slot and return. *)
TakeSlot(t) ==
    LET n    == resource[t]
        kept == Prune(windows[n])
    IN  /\ pc[t] = "checking"
        /\ Len(kept) < rpm[n]
        /\ windows' = [windows EXCEPT ![n] = Append(kept, now)]
        /\ log' = [log EXCEPT ![n] = Append(@, now)]
        /\ pc' = [pc EXCEPT ![t] = "idle"]
        /\ UNCHANGED <<now, resource, wake>>

(* Fault: sleeps for age - window. *)
SleepBackwards(t) ==
    LET n    == resource[t]
        kept == Prune(windows[n])
    IN
    /\ pc[t] = "checking"
    /\ Len(kept) >= rpm[n]
    /\ windows' = [windows EXCEPT ![n] = kept]
    /\ wake' = [wake EXCEPT ![t] = now + (now - kept[1]) - Window]
    /\ pc' = [pc EXCEPT ![t] = "sleeping"]
    /\ UNCHANGED <<now, resource, log>>

(* At capacity: sleep until the oldest entry leaves the window. *)
Sleep(t) ==
    LET n    == resource[t]
        kept == Prune(windows[n])
    IN  /\ pc[t] = "checking"
        /\ Len(kept) >= rpm[n]
        /\ windows' = [windows EXCEPT ![n] = kept]
        /\ wake' = [wake EXCEPT ![t] = kept[1] + Window]
        /\ pc' = [pc EXCEPT ![t] = "sleeping"]
        /\ UNCHANGED <<now, resource, log>>

(* The timer never fires early, but may fire late. *)
WakeUp(t) ==
    /\ pc[t] = "sleeping"
    /\ now >= wake[t]
    /\ pc' = [pc EXCEPT ![t] = "checking"]
    /\ UNCHANGED <<now, windows, resource, wake, log>>

(* The dispatch timed out and dropped the task at its only await point. *)
Abort(t) ==
    /\ pc[t] = "sleeping"
    /\ pc' = [pc EXCEPT ![t] = "idle"]
    /\ UNCHANGED <<now, windows, resource, wake, log>>

Next ==
    \/ Tick
    \/ \E t \in Tasks :
          \/ \E n \in Names : Acquire(t, n)
          \/ TakeSlot(t)
          \/ Sleep(t)
          \/ WakeUp(t)
          \/ Abort(t)

Spec == Init /\ [][Next]_vars

-----------------------------------------------------------------------------
(* Every variable keeps its range. *)
TypeOK ==
    /\ now \in Nat
    /\ windows \in [Names -> Seq(Nat)]
    /\ pc \in [Tasks -> {"idle", "checking", "sleeping"}]
    /\ resource \in [Tasks -> Names]
    /\ wake \in [Tasks -> Nat]
    /\ log \in [Names -> Seq(Nat)]

(* What the limiter is for: any rpm + 1 consecutive acquisitions of a name *)
(* span a whole window, whoever made them and however they interleaved.    *)
RateBound ==
    \A n \in Names : \A i \in DOMAIN log[n] :
        i + rpm[n] <= Len(log[n]) => log[n][i + rpm[n]] - log[n][i] >= Window

(* No slot is wasted: while a task's sleep has time left, the name really  *)
(* is at its limit, rpm acquisitions of it being inside the window.        *)
SleepsOnlyAtLimit ==
    \A t \in Tasks :
        pc[t] = "sleeping" /\ now < wake[t] =>
            LET n == resource[t] IN
            /\ Len(log[n]) >= rpm[n]
            /\ now - log[n][Len(log[n]) - rpm[n] + 1] < Window

(* The deque is the recent end of the history, never longer than the       *)
(* limit, and what it has forgotten is out of the window.                  *)
WindowIsRecent ==
    \A n \in Names :
        LET gone == Len(log[n]) - Len(windows[n]) IN
        /\ gone >= 0
        /\ Len(windows[n]) <= rpm[n]
        /\ \A i \in DOMAIN windows[n] : windows[n][i] = log[n][gone + i]
        /\ \A i \in 1..gone : now - log[n][i] >= Window

-----------------------------------------------------------------------------
(* Strengthening: the history is in time order, and a sleeper's wake-up    *)
(* time is when the oldest entry of its full bucket expires.               *)
LogOrdered ==
    \A n \in Names :
        /\ \A i, j \in DOMAIN log[n] : i <= j => log[n][i] <= log[n][j]
        /\ \A i \in DOMAIN log[n] : log[n][i] <= now

WakesAtExpiry ==
    \A t \in Tasks :
        pc[t] = "sleeping" /\ now < wake[t] =>
            LET w == windows[resource[t]] IN
            /\ Len(w) = rpm[resource[t]]
            /\ w[1] + Window = wake[t]

IInv == TypeOK /\ LogOrdered /\ WindowIsRecent /\ WakesAtExpiry /\ RateBound
=============================================================================
