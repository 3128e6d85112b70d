----------------------------- MODULE HealthState -----------------------------
(***************************************************************************)
(* The health record the daemon keeps for one provider, and the operations *)
(* on it: HealthState in src/daemon/manager.rs.  Every operator maps a     *)
(* record and the current time to the record the method leaves behind, so  *)
(* that HealthTracking (one record on its own) and SearchDispatch (one     *)
(* record per provider, shared by many tasks) use the same definitions.    *)
(*                                                                         *)
(* Times are ticks of the monotonic clock (Instant).  Subtracting the      *)
(* window from an early Instant is defined on the platforms the daemon is  *)
(* built for, so a cutoff may be negative.                                 *)
(***************************************************************************)
EXTENDS Integers, Sequences, FiniteSets

CONSTANTS
    Threshold,      \* consecutive_failure_threshold (3 in Manager::new)
    Window,         \* window_duration
    Cooldown,       \* recovery_cooldown, from the configuration
    MinSample       \* events needed before a score counts (3 in record_failure)

ASSUME HealthConstants ==
    /\ Threshold \in Nat \ {0}
    /\ Window \in Nat
    /\ Cooldown \in Nat
    /\ MinSample \in Nat \ {0}

HealthEvent  == {"Success", "Failure"}
HealthStatus == {"Healthy", "Degraded", "Unhealthy"}

NoTime == -1        \* Option<Instant>::None

Health == [events               : Seq([at : Nat, event : HealthEvent]),
           consecutive_failures : Nat,
           status               : HealthStatus,
           unhealthy_since      : Nat \cup {NoTime}]

(* HealthState::new *)
NewHealth == [events               |-> <<>>,
              consecutive_failures |-> 0,
              status               |-> "Healthy",
              unhealthy_since      |-> NoTime]

-----------------------------------------------------------------------------
(* prune_expired pops the front of the deque while it is older than the    *)
(* window.  The deque is in time order, so that removes exactly as many    *)
(* events as have expired.                                                 *)
Expired(events, now)      == {i \in DOMAIN events : events[i].at < now - Window}
PruneExpired(events, now) == SubSeq(events, Cardinality(Expired(events, now)) + 1,
                                    Len(events))

(* The events a record_* call at time now leaves in the deque. *)
Push(events, kind, now) ==
    Append(PruneExpired(events, now), [at |-> now, event |-> kind])

(* health_score() < 0.5 at time now, without the division: the score is    *)
(* the success rate of the events inside the window, 1.0 if there is none. *)
InWindow(events, now)   == {i \in DOMAIN events : events[i].at >= now - Window}
SuccessesIn(events, now) ==
    {i \in InWindow(events, now) : events[i].event = "Success"}
MostlyFailing(events, now) ==
    2 * Cardinality(SuccessesIn(events, now)) < Cardinality(InWindow(events, now))

-----------------------------------------------------------------------------
RecordSuccess(h, now) ==
    [events               |-> Push(h.events, "Success", now),
     consecutive_failures |-> 0,
     status               |-> "Healthy",
     unhealthy_since      |-> NoTime]

(* Fault: the cooldown keeps running from the failure that began it. *)
FailureSinceFirst(h, now) ==
    LET evs  == Push(h.events, "Failure", now)
        run  == h.consecutive_failures + 1
        down == run >= Threshold
    IN  [events               |-> evs,
         consecutive_failures |-> run,
         status               |-> IF down THEN "Unhealthy"
                                  ELSE IF Len(evs) >= MinSample /\ MostlyFailing(evs, now)
                                       THEN "Degraded" ELSE h.status,
         unhealthy_since      |-> IF down /\ h.unhealthy_since = NoTime
                                  THEN now ELSE h.unhealthy_since]

(* Fault: the counter stops at its threshold. *)
FailureCapped(h, now) ==
    LET evs  == Push(h.events, "Failure", now)
        run  == IF h.consecutive_failures < Threshold
                THEN h.consecutive_failures + 1 ELSE Threshold
        down == run >= Threshold
    IN  [events               |-> evs,
         consecutive_failures |-> run,
         status               |-> IF down THEN "Unhealthy"
                                  ELSE IF Len(evs) >= MinSample /\ MostlyFailing(evs, now)
                                       THEN "Degraded" ELSE h.status,
         unhealthy_since      |-> IF down THEN now ELSE h.unhealthy_since]

(* A failure that leaves the record below the threshold and the sample     *)
(* good or small does not touch the status: a Degraded provider stays so.  *)
RecordFailure(h, now) ==
    LET evs  == Push(h.events, "Failure", now)
        run  == h.consecutive_failures + 1
        down == run >= Threshold
    IN  [events               |-> evs,
         consecutive_failures |-> run,
         status               |-> IF down THEN "Unhealthy"
                                  ELSE IF Len(evs) >= MinSample /\ MostlyFailing(evs, now)
                                       THEN "Degraded" ELSE h.status,
         unhealthy_since      |-> IF down THEN now ELSE h.unhealthy_since]

(* Fault: measured against the window instead of the cooldown. *)
PastTheWindow(h, now) ==
    /\ h.status = "Unhealthy"
    /\ h.unhealthy_since # NoTime
    /\ now - h.unhealthy_since >= Window

(* check_recovery: only an Unhealthy record whose cooldown has passed.     *)
(* The events are kept.                                                    *)
CooledDown(h, now) ==
    /\ h.status = "Unhealthy"
    /\ h.unhealthy_since # NoTime
    /\ now - h.unhealthy_since >= Cooldown

(* Fault: the recovered record keeps its run of failures. *)
RecoverKeepsRun(h, now) ==
    IF CooledDown(h, now)
    THEN [h EXCEPT !.status = "Healthy", !.unhealthy_since = NoTime]
    ELSE h

CheckRecovery(h, now) ==
    IF CooledDown(h, now)
    THEN [h EXCEPT !.status = "Healthy",
                   !.consecutive_failures = 0,
                   !.unhealthy_since = NoTime]
    ELSE h

IsHealthy(h) == h.status = "Healthy"
=============================================================================
