--------------------------- MODULE HealthTracking ---------------------------
(***************************************************************************)
(* One provider's health record over time.  The record is only reached     *)
(* through the Manager's write lock, so each operation is one step; the    *)
(* tasks that call record_success and record_failure, and the requests     *)
(* that call check_recovery, come in any order: a task dispatched before   *)
(* the provider went down may report long after.                           *)
(***************************************************************************)
EXTENDS HealthState

CONSTANTS
    MaxTime,        \* bound: the last tick explored
    MaxEvents       \* bound: events in the deque

ASSUME TrackingBounds == MaxTime \in Nat /\ MaxEvents \in Nat

VARIABLES
    now,            \* Instant::now()
    health,         \* the HealthState
    fresh           \* history: reports since the last recovery, or ever

vars == <<now, health, fresh>>

Init ==
    /\ now = 0
    /\ health = NewHealth
    /\ fresh = 0

Tick ==
    /\ now < MaxTime
    /\ now' = now + 1
    /\ UNCHANGED <<health, fresh>>

record_success ==
    /\ Len(PruneExpired(health.events, now)) < MaxEvents
    /\ health' = RecordSuccess(health, now)
    /\ fresh' = fresh + 1
    /\ UNCHANGED now

record_failure ==
    /\ Len(PruneExpired(health.events, now)) < MaxEvents
    /\ health' = RecordFailure(health, now)
    /\ fresh' = fresh + 1
    /\ UNCHANGED now

check_recovery ==
    /\ health' = CheckRecovery(health, now)
    /\ fresh' = IF CooledDown(health, now) THEN 0 ELSE fresh
    /\ UNCHANGED now

Next == Tick \/ record_success \/ record_failure \/ check_recovery

Spec == Init /\ [][Next]_vars

-----------------------------------------------------------------------------
(* The record has the fields and ranges of the Rust struct. *)
TypeOK ==
    /\ now \in Nat
    /\ health \in Health
    /\ fresh \in Nat

(* The three fields that each say "this provider is down" never disagree:  *)
(* the status, the counter against its threshold, and unhealthy_since.  A  *)
(* record that disagreed would be stuck: check_recovery skips a status of  *)
(* Unhealthy without a time, and a stale counter would take a recovered    *)
(* provider down on its first failure.                                     *)
DownConsistent ==
    /\ health.status = "Unhealthy" <=> health.consecutive_failures >= Threshold
    /\ health.status = "Unhealthy" <=> health.unhealthy_since # NoTime

(* consecutive_failures counts the failures since the last success or the  *)
(* last recovery, no more and no fewer: as far back as the deque reaches,  *)
(* the counter covers the k latest reports just when all of them are       *)
(* failures and came after the recovery, although pruning shortens the     *)
(* deque alone and recovery resets the counter alone.                      *)
LastAreFailures(k) ==
    \A i \in DOMAIN health.events :
        i > Len(health.events) - k => health.events[i].event = "Failure"

RunIsFailures ==
    \A k \in 1..Len(health.events) :
        k <= health.consecutive_failures <=> k <= fresh /\ LastAreFailures(k)

(* The deque is in time order and holds nothing from the future: what      *)
(* prune_expired relies on when it stops at the first fresh event.         *)
EventsOrdered ==
    /\ \A i, j \in DOMAIN health.events :
           i <= j => health.events[i].at <= health.events[j].at
    /\ \A i \in DOMAIN health.events : health.events[i].at <= now

(* The cooldown runs from the last failure reported, not from the first:   *)
(* a late failure of a task in flight restarts it.                         *)
SinceLastFailure ==
    health.unhealthy_since # NoTime =>
        /\ health.events # <<>>
        /\ health.events[Len(health.events)].event = "Failure"
        /\ health.events[Len(health.events)].at = health.unhealthy_since

(* A provider leaves Unhealthy only on a success reported by a task or     *)
(* when every failure still on record is at least a cooldown old.          *)
RecoveryIsEarned ==
    [][ health.status = "Unhealthy" /\ health'.status # "Unhealthy" =>
          \/ /\ health'.events # <<>>
             /\ health'.events[Len(health'.events)] = [at |-> now, event |-> "Success"]
          \/ \A i \in DOMAIN health.events :
                 health.events[i].event = "Failure" =>
                     now - health.events[i].at >= Cooldown ]_vars

(* "Provider error rate exceeds 50% in the sliding window": what the       *)
(* documentation of HealthStatus::Degraded says the status means.          *)
DegradedMeansFailing ==
    health.status = "Degraded" => MostlyFailing(health.events, now)

-----------------------------------------------------------------------------
(* The strengthening under which the properties above are inductive. *)
IInv ==
    /\ TypeOK
    /\ EventsOrdered
    /\ DownConsistent
    /\ RunIsFailures
    /\ SinceLastFailure
=============================================================================
