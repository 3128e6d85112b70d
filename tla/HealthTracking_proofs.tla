------------------------ MODULE HealthTracking_proofs ------------------------
(***************************************************************************)
(* Proofs about HealthTracking, for every threshold, window, cooldown and  *)
(* sample size: IInv is an inductive invariant, and the properties the     *)
(* runs check follow from it.                                              *)
(***************************************************************************)
EXTENDS HealthTracking, FiniteSetTheorems, TLAPS

Event == [at : Nat, event : HealthEvent]

(* prune_expired drops a prefix: between none and all of the events. *)
LEMMA DroppedCount ==
    ASSUME NEW evs \in Seq(Event), NEW t \in Nat
    PROVE  Cardinality(Expired(evs, t)) \in 0..Len(evs)
<1> DEFINE n == Len(evs)
<1>0. n \in Nat
    OBVIOUS
<1> HIDE DEF n
<1>1. IsFiniteSet(1..n) /\ Cardinality(1..n) = n
    BY <1>0, FS_Interval
<1>2. Expired(evs, t) \subseteq 1..n
    BY DEF Expired, n
<1>3. /\ IsFiniteSet(Expired(evs, t))
      /\ Cardinality(Expired(evs, t)) <= Cardinality(1..n)
    BY <1>1, <1>2, FS_Subset
<1>4. Cardinality(Expired(evs, t)) \in Nat
    BY <1>3, FS_CardinalityType
<1> QED BY <1>0, <1>1, <1>3, <1>4 DEF n

(* What a record_* call leaves in the deque, by position: the new event    *)
(* last, and before it a suffix of the old deque, moved down by the number *)
(* of events dropped.                                                      *)
LEMMA PushShape ==
    ASSUME NEW evs \in Seq(Event), NEW t \in Nat, NEW kind \in HealthEvent
    PROVE  \E d \in 0..Len(evs) :
               /\ Push(evs, kind, t) \in Seq(Event)
               /\ Len(Push(evs, kind, t)) = Len(evs) - d + 1
               /\ Push(evs, kind, t)[Len(evs) - d + 1] = [at |-> t, event |-> kind]
               /\ \A i \in 1..(Len(evs) - d) : Push(evs, kind, t)[i] = evs[i + d]
<1> DEFINE d == Cardinality(Expired(evs, t))
           kept == SubSeq(evs, d + 1, Len(evs))
           new == [at |-> t, event |-> kind]
<1>1. d \in 0..Len(evs)
    BY DroppedCount
<1>2. Push(evs, kind, t) = Append(kept, new)
    BY DEF Push, PruneExpired
<1>3. new \in Event
    BY DEF Event
<1> HIDE DEF d, new
<1>4. /\ kept \in Seq(Event)
      /\ Len(kept) = Len(evs) - d
      /\ \A i \in 1..(Len(evs) - d) : kept[i] = evs[i + d]
    BY <1>1
<1> HIDE DEF kept
<1>5. /\ Append(kept, new) \in Seq(Event)
      /\ Len(Append(kept, new)) = Len(evs) - d + 1
      /\ Append(kept, new)[Len(evs) - d + 1] = new
      /\ \A i \in 1..(Len(evs) - d) : Append(kept, new)[i] = evs[i + d]
    BY <1>1, <1>3, <1>4
<1> QED BY <1>1, <1>2, <1>5 DEF new

(* The deque keeps its time order, and nothing in it is later than now.    *)
LEMMA PushOrdered ==
    ASSUME NEW evs \in Seq(Event), NEW t \in Nat, NEW kind \in HealthEvent,
           \A i, j \in 1..Len(evs) : i <= j => evs[i].at <= evs[j].at,
           \A i \in 1..Len(evs) : evs[i].at <= t
    PROVE  LET P == Push(evs, kind, t)
           IN  /\ \A i, j \in 1..Len(P) : i <= j => P[i].at <= P[j].at
               /\ \A i \in 1..Len(P) : P[i].at <= t
<1> DEFINE P == Push(evs, kind, t)
<1>1. PICK d \in 0..Len(evs) :
          /\ P \in Seq(Event)
          /\ Len(P) = Len(evs) - d + 1
          /\ P[Len(evs) - d + 1] = [at |-> t, event |-> kind]
          /\ \A i \in 1..(Len(evs) - d) : P[i] = evs[i + d]
    BY PushShape
<1> HIDE DEF P
<1>0. Len(evs) \in Nat /\ Len(P) = Len(evs) - d + 1
    BY <1>1
<1>2. P[Len(P)].at = t
    BY <1>1
<1>3. ASSUME NEW i \in 1..Len(P) PROVE P[i].at <= t
    <2>1. CASE i = Len(P)
        BY <2>1, <1>2
    <2>2. CASE i # Len(P)
        <3>1. i \in 1..(Len(evs) - d) /\ i + d \in 1..Len(evs)
            BY <2>2, <1>0
        <3> QED BY <3>1, <1>1
    <2> QED BY <2>1, <2>2
<1>4. ASSUME NEW i \in 1..Len(P), NEW j \in 1..Len(P), i <= j
      PROVE  P[i].at <= P[j].at
    <2>1. CASE j = Len(P)
        BY <2>1, <1>2, <1>3
    <2>2. CASE j # Len(P)
        <3>1. /\ i \in 1..(Len(evs) - d) /\ i + d \in 1..Len(evs)
              /\ j \in 1..(Len(evs) - d) /\ j + d \in 1..Len(evs)
              /\ i + d <= j + d
            BY <2>2, <1>0, <1>4
        <3>2. P[i] = evs[i + d] /\ P[j] = evs[j + d]
            BY <3>1, <1>1
        <3> QED BY <3>1, <3>2
    <2> QED BY <2>1, <2>2
<1> QED BY <1>3, <1>4 DEF P

(* A deque is a function on 1..Len, as the invariants quantify over it.    *)
LEMMA EventsDomain ==
    ASSUME TypeOK
    PROVE  /\ health.events \in Seq(Event)
           /\ DOMAIN health.events = 1..Len(health.events)
           /\ Len(health.events) \in Nat
           /\ \A i \in DOMAIN health.events : health.events[i].at \in Nat
           /\ health.consecutive_failures \in Nat /\ fresh \in Nat
<1>1. health.events \in Seq(Event) /\ health.consecutive_failures \in Nat /\ fresh \in Nat
    BY DEF TypeOK, Health, Event
<1>2. \A i \in DOMAIN health.events : health.events[i] \in Event
    BY <1>1
<1>3. \A i \in DOMAIN health.events : health.events[i].at \in Nat
    BY <1>2 DEF Event
<1> QED BY <1>1, <1>3

-----------------------------------------------------------------------------
LEMMA InitIInv == Init => IInv
<1> SUFFICES ASSUME Init PROVE IInv
    OBVIOUS
<1>1. health = NewHealth /\ now = 0 /\ fresh = 0
    BY DEF Init
<1>2. <<>> \in Seq([at : Nat, event : HealthEvent]) /\ Len(<<>>) = 0
      /\ DOMAIN <<>> = {}
    OBVIOUS
<1>3. TypeOK
    BY <1>1, <1>2 DEF TypeOK, Health, NewHealth, HealthStatus, NoTime
<1>4. EventsOrdered /\ RunIsFailures
    <2>1. health.events = <<>>
        BY <1>1 DEF NewHealth
    <2> QED BY <1>2, <2>1 DEF EventsOrdered, RunIsFailures
<1>5. DownConsistent /\ SinceLastFailure
    BY <1>1, HealthConstants DEF DownConsistent, SinceLastFailure, NewHealth, NoTime
<1> QED BY <1>3, <1>4, <1>5 DEF IInv

(* Time passes: only EventsOrdered looks at the clock. *)
LEMMA TickIInv == IInv /\ Tick => IInv'
<1> SUFFICES ASSUME IInv, Tick PROVE IInv'
    OBVIOUS
<1>1. health' = health /\ fresh' = fresh /\ now' = now + 1 /\ now \in Nat
    BY DEF Tick, IInv, TypeOK
<1>2. TypeOK'
    BY <1>1 DEF IInv, TypeOK
<1>3. EventsOrdered'
    <2>1. \A i \in DOMAIN health.events :
              health.events[i].at \in Nat /\ health.events[i].at <= now
        BY EventsDomain DEF IInv, EventsOrdered
    <2> QED BY <1>1, <2>1 DEF IInv, EventsOrdered
<1>4. DownConsistent' /\ RunIsFailures' /\ SinceLastFailure'
    BY <1>1 DEF IInv, DownConsistent, RunIsFailures, LastAreFailures, SinceLastFailure
<1> QED BY <1>2, <1>3, <1>4 DEF IInv

(* A success ends every run of failures and every outage. *)
LEMMA SuccessIInv == IInv /\ record_success => IInv'
<1> SUFFICES ASSUME IInv, record_success PROVE IInv'
    OBVIOUS
<1> DEFINE e == health.events
           P == Push(e, "Success", now)
<1>0. TypeOK /\ now \in Nat /\ fresh \in Nat /\ "Success" \in HealthEvent
    BY DEF IInv, TypeOK, HealthEvent
<1>1. e \in Seq(Event) /\ DOMAIN e = 1..Len(e)
    BY <1>0, EventsDomain
<1>2. /\ now' = now /\ fresh' = fresh + 1
      /\ health' = [events |-> P, consecutive_failures |-> 0,
                    status |-> "Healthy", unhealthy_since |-> NoTime]
    BY DEF record_success, RecordSuccess
<1>3. /\ P \in Seq(Event) /\ Len(P) \in Nat \ {0} /\ DOMAIN P = 1..Len(P)
      /\ P[Len(P)].event = "Success"
    <2>1. PICK d \in 0..Len(e) :
              /\ P \in Seq(Event)
              /\ Len(P) = Len(e) - d + 1
              /\ P[Len(e) - d + 1] = [at |-> now, event |-> "Success"]
        BY <1>0, <1>1, PushShape
    <2> HIDE DEF P
    <2> QED BY <2>1
<1>4. /\ \A i, j \in 1..Len(P) : i <= j => P[i].at <= P[j].at
      /\ \A i \in 1..Len(P) : P[i].at <= now
    BY <1>0, <1>1, PushOrdered DEF IInv, EventsOrdered
<1> HIDE DEF P
<1>5. TypeOK'
    BY <1>0, <1>2, <1>3 DEF TypeOK, Health, Event, HealthStatus, NoTime
<1>6. EventsOrdered'
    BY <1>2, <1>3, <1>4 DEF EventsOrdered
<1>7. DownConsistent' /\ SinceLastFailure'
    BY <1>2, HealthConstants DEF DownConsistent, SinceLastFailure
<1>8. RunIsFailures'
    <2>1. health'.events = P /\ health'.consecutive_failures = 0
        BY <1>2
    <2>2. ASSUME NEW k \in 1..Len(P)
          PROVE  ~(k <= 0) /\ Len(P) > Len(P) - k
        BY <1>3
    <2>3. \A k \in 1..Len(P) :
              ~(k <= 0) /\ ~\A i \in DOMAIN P : i > Len(P) - k => P[i].event = "Failure"
        BY <1>3, <2>2
    <2> QED BY <2>1, <2>3 DEF RunIsFailures, LastAreFailures
<1> QED BY <1>5, <1>6, <1>7, <1>8 DEF IInv

(* A failure lengthens the run by one; reaching the threshold takes the    *)
(* provider down and restarts the cooldown.                                *)
LEMMA FailureIInv == IInv /\ record_failure => IInv'
<1> SUFFICES ASSUME IInv, record_failure PROVE IInv'
    OBVIOUS
<1> DEFINE e == health.events
           cf == health.consecutive_failures
           P == Push(e, "Failure", now)
           down == cf + 1 >= Threshold
           poor == Len(P) >= MinSample /\ MostlyFailing(P, now)
<1>0. /\ TypeOK /\ now \in Nat /\ "Failure" \in HealthEvent /\ cf \in Nat /\ fresh \in Nat
      /\ health.status \in HealthStatus
      /\ health.unhealthy_since \in Nat \cup {NoTime}
    BY DEF IInv, TypeOK, Health, HealthEvent
<1>1. e \in Seq(Event) /\ DOMAIN e = 1..Len(e)
    BY <1>0, EventsDomain
<1>2. /\ now' = now /\ fresh' = fresh + 1
      /\ health' = [events |-> P, consecutive_failures |-> cf + 1,
                    status |-> IF down THEN "Unhealthy"
                               ELSE IF poor THEN "Degraded" ELSE health.status,
                    unhealthy_since |-> IF down THEN now ELSE health.unhealthy_since]
    BY DEF record_failure, RecordFailure
<1>3. PICK d \in 0..Len(e) :
          /\ P \in Seq(Event)
          /\ Len(P) = Len(e) - d + 1
          /\ P[Len(e) - d + 1] = [at |-> now, event |-> "Failure"]
          /\ \A i \in 1..(Len(e) - d) : P[i] = e[i + d]
    BY <1>0, <1>1, PushShape, ZenonT(60)
<1>4. /\ \A i, j \in 1..Len(P) : i <= j => P[i].at <= P[j].at
      /\ \A i \in 1..Len(P) : P[i].at <= now
    BY <1>0, <1>1, PushOrdered DEF IInv, EventsOrdered
<1>5. /\ health.status = "Unhealthy" <=> cf >= Threshold
      /\ health.status = "Unhealthy" <=> health.unhealthy_since # NoTime
    BY DEF IInv, DownConsistent
<1> HIDE DEF P, poor
<1>6. TypeOK'
    BY <1>0, <1>2, <1>3 DEF TypeOK, Health, Event, HealthStatus, NoTime
<1>7. EventsOrdered'
    <2>1. health'.events = P /\ DOMAIN P = 1..Len(P)
        BY <1>2, <1>3
    <2> QED BY <2>1, <1>2, <1>4 DEF EventsOrdered
<1>8. DownConsistent'
    <2>1. CASE down
        BY <2>1, <1>0, <1>2 DEF DownConsistent, NoTime
    <2>2. CASE ~down
        <3>1. ~(cf >= Threshold) /\ ~(cf + 1 >= Threshold)
            BY <2>2, <1>0, HealthConstants
        <3>2. health.status # "Unhealthy" /\ health.unhealthy_since = NoTime
            BY <3>1, <1>5
        <3>3. health'.status # "Unhealthy" /\ health'.unhealthy_since = NoTime
            BY <2>2, <3>2, <1>2
        <3> QED BY <3>1, <3>3, <1>2 DEF DownConsistent
    <2> QED BY <2>1, <2>2
<1>9. RunIsFailures'
    <2>0. /\ Len(e) \in Nat /\ Len(P) = Len(e) - d + 1 /\ DOMAIN P = 1..Len(P)
          /\ P[Len(P)].event = "Failure"
          /\ health'.events = P /\ health'.consecutive_failures = cf + 1
        BY <1>1, <1>2, <1>3
    <2> HIDE DEF e, cf
    <2>1. ASSUME NEW k \in 1..Len(P)
          PROVE  k <= cf + 1 <=> k <= fresh + 1 /\
                     \A i \in 1..Len(P) : i > Len(P) - k => P[i].event = "Failure"
        <3>1. CASE k = 1
            <4>1. \A i \in 1..Len(P) : i > Len(P) - 1 => i = Len(P)
                BY <2>0
            <4> QED BY <1>0, <2>0, <3>1, <4>1
        <3>2. CASE k # 1
            <4>1. k - 1 \in 1..Len(e)
                BY <2>0, <3>2
            <4>2. k - 1 <= cf <=> k - 1 <= fresh /\
                     \A i \in 1..Len(e) : i > Len(e) - (k - 1) => e[i].event = "Failure"
                BY <4>1, <1>1 DEF IInv, RunIsFailures, LastAreFailures, e, cf
            <4>3. ASSUME \A i \in 1..Len(e) : i > Len(e) - (k - 1) => e[i].event = "Failure",
                         NEW i \in 1..Len(P), i > Len(P) - k
                  PROVE  P[i].event = "Failure"
                <5>1. CASE i = Len(P)
                    BY <2>0, <5>1
                <5>2. CASE i # Len(P)
                    <6>1. /\ i \in 1..(Len(e) - d) /\ i + d \in 1..Len(e)
                          /\ i + d > Len(e) - (k - 1)
                        BY <2>0, <4>3, <5>2
                    <6> QED BY <1>3, <4>3, <6>1
                <5> QED BY <5>1, <5>2
            <4>4. ASSUME \A i \in 1..Len(P) : i > Len(P) - k => P[i].event = "Failure",
                         NEW i \in 1..Len(e), i > Len(e) - (k - 1)
                  PROVE  e[i].event = "Failure"
                <5>1. /\ i - d \in 1..(Len(e) - d) /\ i - d \in 1..Len(P)
                      /\ i - d > Len(P) - k /\ (i - d) + d = i
                    BY <2>0, <3>2, <4>4
                <5>2. P[i - d] = e[i]
                    BY <1>3, <5>1
                <5> QED BY <4>4, <5>1, <5>2
            <4>5. (k - 1 <= cf <=> k <= cf + 1) /\ (k - 1 <= fresh <=> k <= fresh + 1)
                BY <1>0, <2>0 DEF cf
            <4> QED BY <4>2, <4>3, <4>4, <4>5
        <3> QED BY <3>1, <3>2
    <2>2. fresh' = fresh + 1
        BY <1>2
    <2> QED BY <2>0, <2>1, <2>2 DEF RunIsFailures, LastAreFailures
<1>10. SinceLastFailure'
    <2>1. CASE down
        <3>1. Len(P) \in 1..Len(P) /\ P # <<>>
            BY <1>3
        <3> QED BY <3>1, <2>1, <1>2, <1>3 DEF SinceLastFailure
    <2>2. CASE ~down
        <3>1. health'.unhealthy_since = NoTime
            BY <2>2, <1>0, <1>2, <1>5, HealthConstants
        <3> QED BY <3>1 DEF SinceLastFailure
    <2> QED BY <2>1, <2>2
<1> QED BY <1>6, <1>7, <1>8, <1>9, <1>10 DEF IInv

(* check_recovery either leaves the record or clears the outage whole. *)
LEMMA RecoveryIInv == IInv /\ check_recovery => IInv'
<1> SUFFICES ASSUME IInv, check_recovery PROVE IInv'
    OBVIOUS
<1>1. CASE ~CooledDown(health, now)
    <2>1. health' = health /\ now' = now /\ fresh' = fresh
        BY <1>1 DEF check_recovery, CheckRecovery
    <2> QED BY <2>1 DEF IInv, TypeOK, EventsOrdered, DownConsistent, RunIsFailures,
                       LastAreFailures, SinceLastFailure
<1>2. CASE CooledDown(health, now)
    <2>0. TypeOK /\ health \in Health
        BY DEF IInv, TypeOK
    <2>1. /\ now' = now /\ fresh' = 0
          /\ health' = [health EXCEPT !.status = "Healthy",
                                      !.consecutive_failures = 0,
                                      !.unhealthy_since = NoTime]
        BY <1>2 DEF check_recovery, CheckRecovery
    <2>2. /\ health'.events = health.events
          /\ health'.status = "Healthy"
          /\ health'.consecutive_failures = 0
          /\ health'.unhealthy_since = NoTime
          /\ health' \in Health
        BY <2>0, <2>1 DEF Health, HealthStatus
    <2>3. DOMAIN health.events = 1..Len(health.events) /\ Len(health.events) \in Nat
        BY <2>0, EventsDomain
    <2>4. TypeOK' /\ EventsOrdered'
        BY <2>1, <2>2 DEF IInv, TypeOK, EventsOrdered
    <2>5. DownConsistent' /\ SinceLastFailure'
        BY <2>2, HealthConstants DEF DownConsistent, SinceLastFailure
    <2>6. RunIsFailures'
        <3>1. \A k \in 1..Len(health.events) : ~(k <= 0)
            BY <2>3
        <3> QED BY <2>1, <2>2, <3>1 DEF RunIsFailures
    <2> QED BY <2>4, <2>5, <2>6 DEF IInv
<1> QED BY <1>1, <1>2

LEMMA NextIInv == IInv /\ [Next]_vars => IInv'
<1> SUFFICES ASSUME IInv, [Next]_vars PROVE IInv'
    OBVIOUS
<1>1. CASE Tick            BY <1>1, TickIInv
<1>2. CASE record_success  BY <1>2, SuccessIInv
<1>3. CASE record_failure  BY <1>3, FailureIInv
<1>4. CASE check_recovery  BY <1>4, RecoveryIInv
<1>5. CASE UNCHANGED vars
    BY <1>5 DEF vars, IInv, TypeOK, EventsOrdered, DownConsistent, RunIsFailures,
                LastAreFailures, SinceLastFailure
<1> QED BY <1>1, <1>2, <1>3, <1>4, <1>5 DEF Next

-----------------------------------------------------------------------------
(* IInv holds in every reachable state of HealthState's operations.        *)
THEOREM Invariance == Spec => []IInv
<1> QED BY InitIInv, NextIInv, PTL DEF Spec

(* The fields of the record keep the ranges of the Rust struct.            *)
THEOREM TypeCorrect == Spec => []TypeOK
<1>1. IInv => TypeOK
    BY DEF IInv
<1> QED BY <1>1, Invariance, PTL

(* Status, failure counter and unhealthy_since always agree on whether the *)
(* provider is down: no order of record_success, record_failure and        *)
(* check_recovery can leave a record that check_recovery cannot recover.   *)
THEOREM DownIsConsistent == Spec => []DownConsistent
<1>1. IInv => DownConsistent
    BY DEF IInv
<1> QED BY <1>1, Invariance, PTL

(* As far back as the deque reaches, consecutive_failures is the number of  *)
(* failures since the last success or recovery.                            *)
THEOREM RunCountsFailures == Spec => []RunIsFailures
<1>1. IInv => RunIsFailures
    BY DEF IInv
<1> QED BY <1>1, Invariance, PTL

(* While a provider is down, its cooldown is measured from its last event, *)
(* a failure.                                                              *)
THEOREM CooldownFromLastFailure == Spec => []SinceLastFailure
<1>1. IInv => SinceLastFailure
    BY DEF IInv
<1> QED BY <1>1, Invariance, PTL

(* One step of RecoveryIsEarned, from the invariant.                       *)
LEMMA StepRecovery ==
    ASSUME IInv, [Next]_vars,
           health.status = "Unhealthy", health'.status # "Unhealthy"
    PROVE  \/ /\ health'.events # <<>>
              /\ health'.events[Len(health'.events)] = [at |-> now, event |-> "Success"]
           \/ \A i \in DOMAIN health.events :
                  health.events[i].event = "Failure" => now - health.events[i].at >= Cooldown
<1>0. /\ TypeOK /\ now \in Nat
      /\ health.events \in Seq(Event) /\ DOMAIN health.events = 1..Len(health.events)
      /\ \A i \in DOMAIN health.events : health.events[i].at \in Nat
      /\ health.consecutive_failures \in Nat
    BY EventsDomain DEF IInv, TypeOK
<1>1. CASE Tick
    BY <1>1 DEF Tick
<1>2. CASE record_success
    <2>1. "Success" \in HealthEvent
        BY DEF HealthEvent
    <2>2. health'.events = Push(health.events, "Success", now)
        BY <1>2 DEF record_success, RecordSuccess
    <2> DEFINE e == health.events
               P == Push(e, "Success", now)
    <2>3. PICK d \in 0..Len(e) :
              /\ P \in Seq(Event)
              /\ Len(P) = Len(e) - d + 1
              /\ P[Len(e) - d + 1] = [at |-> now, event |-> "Success"]
        BY <1>0, <2>1, PushShape
    <2> HIDE DEF P
    <2>4. P # <<>> /\ P[Len(P)] = [at |-> now, event |-> "Success"]
        BY <1>0, <2>3
    <2>5. health'.events = P
        BY <2>2 DEF P
    <2> QED BY <2>4, <2>5
<1>3. CASE record_failure
    <2>1. health.consecutive_failures >= Threshold
        BY DEF IInv, DownConsistent
    <2>2. health.consecutive_failures + 1 >= Threshold
        BY <2>1, <1>0, HealthConstants
    <2>3. health'.status = "Unhealthy"
        BY <1>3, <2>2 DEF record_failure, RecordFailure
    <2> QED BY <2>3
<1>4. CASE check_recovery
    <2>1. CooledDown(health, now)
        BY <1>4 DEF check_recovery, CheckRecovery
    <2>2. /\ now - health.unhealthy_since >= Cooldown
          /\ health.events # <<>>
          /\ health.events[Len(health.events)].at = health.unhealthy_since
        BY <2>1 DEF CooledDown, IInv, SinceLastFailure
    <2>3. ASSUME NEW i \in 1..Len(health.events)
          PROVE  now - health.events[i].at >= Cooldown
        <3>1. Len(health.events) \in 1..Len(health.events) /\ i <= Len(health.events)
            BY <2>2, <1>0
        <3>2. health.events[i].at <= health.events[Len(health.events)].at
            BY <3>1, <1>0 DEF IInv, EventsOrdered
        <3>3. health.events[i].at \in Nat /\ health.events[Len(health.events)].at \in Nat
            BY <3>1, <1>0
        <3> QED BY <3>2, <3>3, <2>2, <1>0, HealthConstants
    <2> QED BY <2>3, <1>0
<1>5. CASE UNCHANGED vars
    BY <1>5 DEF vars
<1> QED BY <1>1, <1>2, <1>3, <1>4, <1>5 DEF Next

(* No provider is let back in early: only a reported success, or a full    *)
(* cooldown after the last failure, ends an outage.                        *)
THEOREM RecoveryEarned == Spec => RecoveryIsEarned
<1>1. IInv /\ [Next]_vars =>
        [ health.status = "Unhealthy" /\ health'.status # "Unhealthy" =>
          \/ /\ health'.events # <<>>
             /\ health'.events[Len(health'.events)] = [at |-> now, event |-> "Success"]
          \/ \A i \in DOMAIN health.events :
                 health.events[i].event = "Failure" =>
                     now - health.events[i].at >= Cooldown ]_vars
    BY StepRecovery
<1> QED BY <1>1, Invariance, PTL DEF Spec, RecoveryIsEarned
=============================================================================
