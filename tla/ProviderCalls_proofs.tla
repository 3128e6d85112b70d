------------------------- MODULE ProviderCalls_proofs -------------------------
(***************************************************************************)
(* The rate limiter, and the pipeline that is built on it, for every       *)
(* number of tasks and names, every limit, window, number of attempts and  *)
(* every network.  The limiter keeps its rate: proved from IInv, whose     *)
(* point is that the deque is always the recent end of the history.  The   *)
(* pipeline uses the limiter as RateLimiter describes it, so that all this *)
(* holds in it, and a rotation takes effect for the call that makes it.    *)
(* The requests keep the rate as well, because each is paid for by a slot  *)
(* of its own (PaidFor); and they come no earlier than a Retry-After       *)
(* allows (HintInv).                                                       *)
(***************************************************************************)
EXTENDS ProviderCalls, FiniteSetTheorems, WellFoundedInduction, TLAPS

-----------------------------------------------------------------------------
(* The limiter. *)

LEMMA PrefixSize ==
    ASSUME NEW n \in Nat
    PROVE  IsFiniteSet(1..n) /\ Cardinality(1..n) = n
BY FS_Interval

(* Pruning drops d entries from the front; every entry that is left is     *)
(* where it was, d places further on.                                      *)
LEMMA PruneShape ==
    ASSUME NEW times \in Seq(Nat)
    PROVE  LET d == Cardinality(Expired(times)) IN
           /\ d \in 0..Len(times)
           /\ Prune(times) \in Seq(Nat)
           /\ Len(Prune(times)) = Len(times) - d
           /\ \A i \in 1..(Len(times) - d) : Prune(times)[i] = times[i + d]
<1> DEFINE d == Cardinality(Expired(times))
           n == Len(times)
<1>0. n \in Nat
    OBVIOUS
<1> HIDE DEF n
<1>1. IsFiniteSet(1..n) /\ Cardinality(1..n) = n
    BY <1>0, PrefixSize
<1>2. Expired(times) \subseteq 1..n
    BY DEF Expired, n
<1>3. /\ IsFiniteSet(Expired(times))
      /\ Cardinality(Expired(times)) <= Cardinality(1..n)
    BY <1>1, <1>2, FS_Subset
<1>4. Cardinality(Expired(times)) \in Nat
    BY <1>3, FS_CardinalityType
<1>5. d \in 0..n
    BY <1>0, <1>1, <1>3, <1>4
<1> HIDE DEF d
<1>6. Prune(times) = SubSeq(times, d + 1, Len(times))
    BY DEF Prune, d
<1>7. /\ Prune(times) \in Seq(Nat)
      /\ Len(Prune(times)) = Len(times) - d
      /\ \A i \in 1..(Len(times) - d) : Prune(times)[i] = times[i + d]
    BY <1>5, <1>6, SMTT(60) DEF n
<1> QED BY <1>5, <1>7 DEF d, n

(* On an ordered list pruning drops exactly the entries a window old: the  *)
(* first d are expired and the rest are not.                               *)
LEMMA PruneExact ==
    ASSUME NEW times \in Seq(Nat), now \in Nat,
           \A i, j \in 1..Len(times) : i <= j => times[i] <= times[j]
    PROVE  LET d == Cardinality(Expired(times)) IN
           /\ \A i \in 1..d : now - times[i] >= Window
           /\ \A i \in (d + 1)..Len(times) : now - times[i] < Window
<1> DEFINE n == Len(times)
           E == Expired(times)
           d == Cardinality(E)
<1>0. n \in Nat /\ Window \in Nat /\ \A i \in 1..n : times[i] \in Nat
    BY RateConstants
<1>1. d \in 0..n
    BY PruneShape
<1>2. E = {i \in 1..n : now - times[i] >= Window}
    BY DEF Expired
<1>3. \A i, j \in 1..n : i <= j /\ j \in E => i \in E
    BY <1>0, <1>2
<1> HIDE DEF n, E, d
<1>4. ASSUME NEW i \in 1..d PROVE i \in E
    <2> SUFFICES ASSUME i \notin E PROVE FALSE
        OBVIOUS
    <2>1. E \subseteq 1..(i - 1)
        BY <1>0, <1>1, <1>2, <1>3
    <2>2. i - 1 \in Nat
        BY <1>1
    <2>3. IsFiniteSet(1..(i - 1)) /\ Cardinality(1..(i - 1)) = i - 1
        BY <2>2, PrefixSize
    <2>4. d <= i - 1
        BY <2>1, <2>3, FS_Subset DEF d
    <2> QED BY <2>4, <1>1
<1>5. ASSUME NEW i \in (d + 1)..n PROVE i \notin E
    <2> SUFFICES ASSUME i \in E PROVE FALSE
        OBVIOUS
    <2>1. 1..i \subseteq E /\ i \in Nat
        BY <1>0, <1>1, <1>3
    <2>2. IsFiniteSet(1..i) /\ Cardinality(1..i) = i
        BY <2>1, PrefixSize
    <2>3. IsFiniteSet(1..n) /\ E \subseteq 1..n
        BY <1>0, <1>2, PrefixSize
    <2>4. IsFiniteSet(E)
        BY <2>3, FS_Subset
    <2>5. i <= d
        BY <2>1, <2>2, <2>4, FS_Subset DEF d
    <2> QED BY <2>5, <1>1, <2>1
<1>6. \A i \in 1..d : now - times[i] >= Window
    BY <1>2, <1>4
<1>7. \A i \in (d + 1)..n : now - times[i] < Window
    <2> TAKE i \in (d + 1)..n
    <2>1. i \in 1..n /\ i \notin E
        BY <1>0, <1>1, <1>5
    <2>2. ~(now - times[i] >= Window) /\ times[i] \in Nat
        BY <2>1, <1>2, <1>0
    <2> QED BY <2>2, <1>0
<1> QED BY <1>6, <1>7 DEF n, E, d

(* What the invariant says of one name, by position. *)
LEMMA Bucket ==
    ASSUME IInv, NEW n \in Names
    PROVE  LET w    == windows[n]
               h    == log[n]
               gone == Len(h) - Len(w)
           IN  /\ w \in Seq(Nat) /\ Len(w) \in Nat /\ Len(w) <= rpm[n]
               /\ h \in Seq(Nat) /\ Len(h) \in Nat
               /\ gone \in Nat
               /\ \A i \in 1..Len(h) : h[i] \in Nat /\ h[i] <= now
               /\ \A i, j \in 1..Len(h) : i <= j => h[i] <= h[j]
               /\ \A i \in 1..Len(h) : i + rpm[n] <= Len(h) => h[i + rpm[n]] - h[i] >= Window
               /\ \A i \in 1..gone : now - h[i] >= Window
               /\ \A i \in 1..Len(w) : w[i] = h[gone + i]
               /\ \A i, j \in 1..Len(w) : i <= j => w[i] <= w[j]
<1> DEFINE w == windows[n]
           h == log[n]
           gone == Len(h) - Len(w)
<1>1. w \in Seq(Nat) /\ h \in Seq(Nat)
    BY DEF IInv, TypeOK
<1>2. /\ DOMAIN w = 1..Len(w) /\ Len(w) \in Nat
      /\ DOMAIN h = 1..Len(h) /\ Len(h) \in Nat
      /\ \A i \in 1..Len(h) : h[i] \in Nat
    BY <1>1
<1>3. /\ gone >= 0 /\ Len(w) <= rpm[n]
      /\ \A i \in DOMAIN w : w[i] = h[gone + i]
      /\ \A i \in 1..gone : now - h[i] >= Window
    BY DEF IInv, WindowIsRecent
<1>4. /\ \A i, j \in DOMAIN h : i <= j => h[i] <= h[j]
      /\ \A i \in DOMAIN h : h[i] <= now
    BY DEF IInv, LogOrdered
<1>5. \A i \in DOMAIN h : i + rpm[n] <= Len(h) => h[i + rpm[n]] - h[i] >= Window
    BY DEF IInv, RateBound
<1> HIDE DEF w, h
<1>6. gone \in Nat
    BY <1>2, <1>3
<1>7. \A i, j \in 1..Len(w) : i <= j => w[i] <= w[j]
    <2> TAKE i, j \in 1..Len(w)
    <2> HAVE i <= j
    <2>1. gone + i \in 1..Len(h) /\ gone + j \in 1..Len(h) /\ gone + i <= gone + j
        BY <1>2, <1>6
    <2>2. w[i] = h[gone + i] /\ w[j] = h[gone + j]
        BY <1>2, <1>3
    <2> QED BY <2>1, <2>2, <1>2, <1>4
<1> QED BY <1>1, <1>2, <1>3, <1>4, <1>5, <1>6, <1>7 DEF w, h

(* Pruning a bucket keeps it the recent end of the history: what is left   *)
(* is inside the window, what is gone is outside it.                       *)
LEMMA KeptIsRecent ==
    ASSUME IInv, NEW n \in Names
    PROVE  LET kept == Prune(windows[n])
               gone == Len(log[n]) - Len(kept)
           IN  /\ kept \in Seq(Nat)
               /\ gone \in Nat
               /\ Len(kept) <= rpm[n]
               /\ Len(kept) <= Len(windows[n])
               /\ \A i \in 1..Len(kept) : kept[i] = log[n][gone + i]
               /\ \A i \in 1..Len(kept) : now - kept[i] < Window
               /\ \A i \in 1..gone : now - log[n][i] >= Window
<1> DEFINE w == windows[n]
           h == log[n]
           kept == Prune(w)
           old == Len(h) - Len(w)
           d == Cardinality(Expired(w))
<1>0. now \in Nat /\ rpm[n] \in Nat /\ Window \in Nat
    BY RateConstants DEF IInv, TypeOK
<1>1. /\ w \in Seq(Nat) /\ Len(w) \in Nat /\ Len(w) <= rpm[n]
      /\ h \in Seq(Nat) /\ Len(h) \in Nat
      /\ old \in Nat
      /\ \A i \in 1..Len(w) : w[i] = h[old + i]
      /\ \A i \in 1..old : now - h[i] >= Window
      /\ \A i, j \in 1..Len(w) : i <= j => w[i] <= w[j]
    BY Bucket
<1> HIDE DEF w, h, old
<1>4. /\ d \in 0..Len(w) /\ kept \in Seq(Nat) /\ Len(kept) = Len(w) - d
      /\ \A i \in 1..(Len(w) - d) : kept[i] = w[i + d]
    BY <1>1, PruneShape
<1>5. /\ \A i \in 1..d : now - w[i] >= Window
      /\ \A i \in (d + 1)..Len(w) : now - w[i] < Window
    BY <1>0, <1>1, PruneExact
<1> HIDE DEF kept, d
<1>6. Len(h) - Len(kept) = old + d /\ Len(kept) = Len(w) - d /\ d \in 0..Len(w)
    BY <1>1, <1>4 DEF old
<1>7. ASSUME NEW i \in 1..Len(kept)
      PROVE  kept[i] = h[old + d + i] /\ now - kept[i] < Window
    <2>1. /\ i \in 1..(Len(w) - d) /\ i + d \in 1..Len(w) /\ i + d \in (d + 1)..Len(w)
          /\ old + (i + d) = old + d + i
        BY <1>1, <1>6
    <2>2. kept[i] = w[i + d] /\ w[i + d] = h[old + (i + d)] /\ now - w[i + d] < Window
        BY <2>1, <1>1, <1>4, <1>5
    <2> QED BY <2>1, <2>2
<1>8. ASSUME NEW i \in 1..(old + d) PROVE now - h[i] >= Window
    <2>1. CASE i <= old
        BY <2>1, <1>1
    <2>2. CASE i > old
        <3>1. i - old \in 1..d /\ i - old \in 1..Len(w) /\ old + (i - old) = i
            BY <2>2, <1>1, <1>6
        <3>2. now - w[i - old] >= Window /\ w[i - old] = h[i]
            BY <3>1, <1>1, <1>5
        <3> QED BY <3>2
    <2> QED BY <2>1, <2>2, <1>1, <1>6
<1>9. /\ old + d \in Nat /\ Len(kept) <= rpm[n] /\ Len(kept) <= Len(w)
    BY <1>0, <1>1, <1>6
<1> QED BY <1>4, <1>6, <1>7, <1>8, <1>9 DEF w, h, kept, d, old

-----------------------------------------------------------------------------
LEMMA InitIInv == Init => IInv
<1> SUFFICES ASSUME Init PROVE IInv
    OBVIOUS
<1>0. <<>> \in Seq(Nat) /\ Len(<<>>) = 0 /\ DOMAIN <<>> = {}
    OBVIOUS
<1>1. TypeOK
    BY <1>0 DEF Init, TypeOK
<1>2. LogOrdered /\ RateBound
    BY <1>0 DEF Init, LogOrdered, RateBound
<1>3. WindowIsRecent
    BY <1>0, RateConstants DEF Init, WindowIsRecent
<1>4. WakesAtExpiry
    BY DEF Init, WakesAtExpiry
<1> QED BY <1>1, <1>2, <1>3, <1>4 DEF IInv

(* While a sleep has time left nothing can be pruned from its full bucket. *)
LEMMA SleeperBucketFull ==
    ASSUME IInv, NEW s \in Tasks, pc[s] = "sleeping", now < wake[s]
    PROVE  LET kept == Prune(windows[resource[s]]) IN
           /\ Len(kept) = rpm[resource[s]]
           /\ kept[1] + Window = wake[s]
<1> DEFINE n == resource[s]
           w == windows[n]
           d == Cardinality(Expired(w))
<1>0. /\ n \in Names /\ now \in Nat /\ wake[s] \in Nat
      /\ rpm[n] \in Nat \ {0} /\ Window \in Nat
    BY RateConstants DEF IInv, TypeOK
<1>1. Len(w) = rpm[n] /\ w[1] + Window = wake[s]
    BY DEF IInv, WakesAtExpiry
<1>2. /\ w \in Seq(Nat)
      /\ \A i, j \in 1..Len(w) : i <= j => w[i] <= w[j]
    BY <1>0, Bucket
<1>3. /\ d \in 0..Len(w) /\ Prune(w) \in Seq(Nat)
      /\ Len(Prune(w)) = Len(w) - d
      /\ \A i \in 1..(Len(w) - d) : Prune(w)[i] = w[i + d]
    BY <1>2, PruneShape
<1>4. \A i \in 1..d : now - w[i] >= Window
    BY <1>0, <1>2, PruneExact
<1> HIDE DEF w, d, n
<1>5. w[1] \in Nat
    BY <1>0, <1>1, <1>2
<1>6. d = 0
    BY <1>0, <1>1, <1>3, <1>4, <1>5 DEF n
<1>7. 1 \in 1..(Len(w) - d) /\ 1 + d = 1 /\ Len(w) - d = rpm[n]
    BY <1>0, <1>1, <1>6 DEF n
<1>8. Len(Prune(w)) = rpm[n] /\ Prune(w)[1] = w[1]
    BY <1>3, <1>7
<1> QED BY <1>1, <1>8 DEF w, n

(* A slot is taken: the acquisition rpm places back is out of the window,  *)
(* because the pruned bucket holds fewer than rpm of those inside it.      *)
LEMMA TakeSlotIInv ==
    ASSUME IInv, NEW t \in Tasks, TakeSlot(t)
    PROVE  IInv'
<1> DEFINE n == resource[t]
           h == log[n]
           kept == Prune(windows[n])
           gone == Len(h) - Len(kept)
<1>0. /\ n \in Names /\ now \in Nat /\ TypeOK
      /\ rpm[n] \in Nat \ {0} /\ Window \in Nat
    BY RateConstants DEF IInv, TypeOK
<1>h. /\ h \in Seq(Nat) /\ Len(h) \in Nat
      /\ \A i \in 1..Len(h) : h[i] \in Nat /\ h[i] <= now
      /\ \A i, j \in 1..Len(h) : i <= j => h[i] <= h[j]
      /\ \A i \in 1..Len(h) : i + rpm[n] <= Len(h) => h[i + rpm[n]] - h[i] >= Window
    BY <1>0, Bucket
<1>k. /\ kept \in Seq(Nat) /\ gone \in Nat
      /\ \A i \in 1..Len(kept) : kept[i] = h[gone + i]
      /\ \A i \in 1..gone : now - h[i] >= Window
    BY <1>0, KeptIsRecent
<1>1. /\ kept \in Seq(Nat) /\ Len(kept) \in Nat /\ gone \in Nat
      /\ \A i \in 1..Len(kept) : kept[i] = h[gone + i]
      /\ \A i \in 1..gone : now - h[i] >= Window
    BY <1>k
<1>a. rpm[n] \in Nat \ {0} /\ Len(h) \in Nat
    BY <1>0, <1>h
<1>2. /\ pc[t] = "checking" /\ Len(kept) < rpm[n]
      /\ windows' = [windows EXCEPT ![n] = Append(kept, now)]
      /\ log' = [log EXCEPT ![n] = Append(h, now)]
      /\ pc' = [pc EXCEPT ![t] = "idle"]
      /\ UNCHANGED <<now, resource, wake>>
    BY DEF TakeSlot
<1> HIDE DEF kept, n, h
<1>3. TypeOK'
    BY <1>0, <1>h, <1>1, <1>2 DEF TypeOK
<1>4. /\ log'[n] = Append(h, now) /\ windows'[n] = Append(kept, now)
      /\ \A m \in Names : m # n => log'[m] = log[m] /\ windows'[m] = windows[m]
    BY <1>0, <1>2 DEF TypeOK
<1>5. /\ Len(log'[n]) = Len(h) + 1 /\ log'[n][Len(h) + 1] = now
      /\ DOMAIN log'[n] = 1..(Len(h) + 1)
      /\ \A i \in 1..Len(h) : log'[n][i] = h[i]
    BY <1>0, <1>h, <1>4
<1>6. /\ Len(windows'[n]) = Len(kept) + 1 /\ windows'[n][Len(kept) + 1] = now
      /\ DOMAIN windows'[n] = 1..(Len(kept) + 1)
      /\ \A i \in 1..Len(kept) : windows'[n][i] = kept[i]
    BY <1>0, <1>1, <1>4
<1>7. LogOrdered'
    <2> SUFFICES ASSUME NEW m \in Names
                 PROVE  /\ \A i, j \in DOMAIN log'[m] : i <= j => log'[m][i] <= log'[m][j]
                        /\ \A i \in DOMAIN log'[m] : log'[m][i] <= now
        BY <1>2 DEF LogOrdered
    <2>1. CASE m # n
        BY <2>1, <1>4 DEF IInv, LogOrdered
    <2>2. CASE m = n
        <3>1. ASSUME NEW i \in 1..(Len(h) + 1) PROVE log'[n][i] <= now
            BY <1>0, <1>h, <1>5
        <3>2. ASSUME NEW i \in 1..(Len(h) + 1), NEW j \in 1..(Len(h) + 1), i <= j
              PROVE  log'[n][i] <= log'[n][j]
            <4>1. CASE j = Len(h) + 1
                BY <4>1, <3>1, <1>5
            <4>2. CASE j # Len(h) + 1
                <5>1. i \in 1..Len(h) /\ j \in 1..Len(h)
                    BY <4>2, <3>2, <1>h
                <5>2. h[i] <= h[j]
                    BY <5>1, <3>2, <1>h
                <5> QED BY <5>1, <5>2, <1>5
            <4> QED BY <4>1, <4>2
        <3> QED BY <2>2, <3>1, <3>2, <1>5
    <2> QED BY <2>1, <2>2
<1>8. RateBound'
    <2> SUFFICES ASSUME NEW m \in Names, NEW i \in DOMAIN log'[m],
                        i + rpm[m] <= Len(log'[m])
                 PROVE  log'[m][i + rpm[m]] - log'[m][i] >= Window
        BY DEF RateBound
    <2>1. CASE m # n
        BY <2>1, <1>4 DEF IInv, RateBound
    <2>2. CASE m = n /\ i + rpm[n] = Len(h) + 1
        <3>0. i \in 1..(Len(h) + 1) /\ i + rpm[n] = Len(h) + 1
            BY <2>2, <1>5
        <3>k. Len(kept) < rpm[n] /\ Len(kept) \in Nat /\ gone = Len(h) - Len(kept)
            BY <1>1, <1>2
        <3>1. i \in 1..gone /\ i \in 1..Len(h)
            BY <3>0, <3>k, <1>a
        <3>2. now - h[i] >= Window /\ log'[n][i] = h[i]
            BY <3>1, <1>1, <1>5
        <3> QED BY <3>2, <2>2, <1>5
    <2>3. CASE m = n /\ i + rpm[n] # Len(h) + 1
        <3>0. i \in 1..(Len(h) + 1) /\ i + rpm[n] <= Len(h) + 1 /\ i + rpm[n] # Len(h) + 1
            BY <2>3, <1>5
        <3>1. i \in 1..Len(h) /\ i + rpm[n] \in 1..Len(h)
            BY <3>0, <1>a
        <3>2. h[i + rpm[n]] - h[i] >= Window
            BY <3>1, <1>0, <1>h, SMTT(60)
        <3>3. log'[n][i] = h[i] /\ log'[n][i + rpm[n]] = h[i + rpm[n]]
            BY <3>1, <1>5
        <3> QED BY <3>2, <3>3, <2>3
    <2> QED BY <2>1, <2>2, <2>3
<1>9. WindowIsRecent'
    <2> SUFFICES ASSUME NEW m \in Names
                 PROVE  LET g == Len(log'[m]) - Len(windows'[m]) IN
                        /\ g >= 0
                        /\ Len(windows'[m]) <= rpm[m]
                        /\ \A i \in DOMAIN windows'[m] : windows'[m][i] = log'[m][g + i]
                        /\ \A i \in 1..g : now - log'[m][i] >= Window
        BY <1>2 DEF WindowIsRecent
    <2>1. CASE m # n
        BY <2>1, <1>4 DEF IInv, WindowIsRecent
    <2>2. CASE m = n
        <3>1. Len(log'[n]) - Len(windows'[n]) = gone
            BY <1>h, <1>1, <1>5, <1>6
        <3>2. gone >= 0 /\ Len(windows'[n]) <= rpm[n]
            BY <1>0, <1>1, <1>2, <1>6
        <3>3. ASSUME NEW i \in 1..(Len(kept) + 1)
              PROVE  windows'[n][i] = log'[n][gone + i]
            <4>1. CASE i = Len(kept) + 1
                <5>1. gone + i = Len(h) + 1
                    BY <4>1, <1>h, <1>1
                <5> QED BY <4>1, <5>1, <1>5, <1>6
            <4>2. CASE i # Len(kept) + 1
                <5>1. i \in 1..Len(kept) /\ gone + i \in 1..Len(h)
                    BY <4>2, <1>h, <1>1
                <5> QED BY <5>1, <1>1, <1>5, <1>6
            <4> QED BY <4>1, <4>2
        <3>4. ASSUME NEW i \in 1..gone PROVE now - log'[n][i] >= Window
            <4>1. i \in 1..Len(h)
                BY <1>h, <1>1
            <4> QED BY <4>1, <1>1, <1>5
        <3> QED BY <2>2, <3>1, <3>2, <3>3, <3>4, <1>6
    <2> QED BY <2>1, <2>2
<1>10. WakesAtExpiry'
    <2> SUFFICES ASSUME NEW s \in Tasks, pc'[s] = "sleeping", now < wake[s]
                 PROVE  /\ Len(windows'[resource[s]]) = rpm[resource[s]]
                        /\ windows'[resource[s]][1] + Window = wake[s]
        BY <1>2 DEF WakesAtExpiry
    <2>1. pc[s] = "sleeping"
        BY <1>0, <1>2 DEF TypeOK
    <2>2. /\ Len(windows[resource[s]]) = rpm[resource[s]]
          /\ windows[resource[s]][1] + Window = wake[s]
        BY <2>1 DEF IInv, WakesAtExpiry
    <2>3. resource[s] # n
        <3> SUFFICES ASSUME resource[s] = n PROVE FALSE
            OBVIOUS
        <3>1. Len(kept) = rpm[n]
            BY <2>1, SleeperBucketFull DEF kept
        <3> QED BY <3>1, <1>0, <1>2
    <2>4. resource[s] \in Names
        BY <1>0 DEF TypeOK
    <2> QED BY <2>2, <2>3, <2>4, <1>4
<1> QED BY <1>3, <1>7, <1>8, <1>9, <1>10 DEF IInv

(* Going to sleep writes back the pruned bucket, which is full; the task   *)
(* wakes when its oldest entry expires.                                    *)
LEMMA SleepIInv ==
    ASSUME IInv, NEW t \in Tasks, Sleep(t)
    PROVE  IInv'
<1> DEFINE n == resource[t]
           h == log[n]
           kept == Prune(windows[n])
           gone == Len(h) - Len(kept)
<1>0. /\ n \in Names /\ now \in Nat /\ TypeOK
      /\ rpm[n] \in Nat \ {0} /\ Window \in Nat
    BY RateConstants DEF IInv, TypeOK
<1>k. /\ kept \in Seq(Nat) /\ gone \in Nat /\ Len(kept) <= rpm[n]
      /\ \A i \in 1..Len(kept) : kept[i] = h[gone + i]
      /\ \A i \in 1..gone : now - h[i] >= Window
    BY <1>0, KeptIsRecent
<1>2. /\ pc[t] = "checking" /\ Len(kept) >= rpm[n]
      /\ windows' = [windows EXCEPT ![n] = kept]
      /\ wake' = [wake EXCEPT ![t] = kept[1] + Window]
      /\ pc' = [pc EXCEPT ![t] = "sleeping"]
      /\ UNCHANGED <<now, resource, log>>
    BY DEF Sleep
<1> HIDE DEF kept, n, h
<1>1. Len(kept) \in Nat /\ Len(kept) = rpm[n] /\ kept[1] \in Nat
    BY <1>0, <1>k, <1>2
<1>3. TypeOK'
    <2>1. kept[1] + Window \in Nat /\ kept \in Seq(Nat)
        BY <1>0, <1>1, <1>k
    <2> QED BY <2>1, <1>0, <1>2 DEF TypeOK
<1>4. LogOrdered' /\ RateBound'
    BY <1>2 DEF IInv, LogOrdered, RateBound
<1>5. /\ windows'[n] = kept
      /\ \A m \in Names : m # n => windows'[m] = windows[m]
    BY <1>0, <1>2 DEF TypeOK
<1>6. WindowIsRecent'
    <2> SUFFICES ASSUME NEW m \in Names
                 PROVE  LET g == Len(log[m]) - Len(windows'[m]) IN
                        /\ g >= 0
                        /\ Len(windows'[m]) <= rpm[m]
                        /\ \A i \in DOMAIN windows'[m] : windows'[m][i] = log[m][g + i]
                        /\ \A i \in 1..g : now - log[m][i] >= Window
        BY <1>2 DEF WindowIsRecent
    <2>1. CASE m # n
        BY <2>1, <1>5 DEF IInv, WindowIsRecent
    <2>2. CASE m = n
        <3>1. DOMAIN kept = 1..Len(kept)
            BY <1>k
        <3> QED BY <2>2, <3>1, <1>k, <1>5 DEF h
    <2> QED BY <2>1, <2>2
<1>7. WakesAtExpiry'
    <2> SUFFICES ASSUME NEW s \in Tasks, pc'[s] = "sleeping", now < wake'[s]
                 PROVE  /\ Len(windows'[resource[s]]) = rpm[resource[s]]
                        /\ windows'[resource[s]][1] + Window = wake'[s]
        BY <1>2 DEF WakesAtExpiry
    <2>1. CASE s = t
        <3>1. wake'[t] = kept[1] + Window
            BY <1>0, <1>2 DEF TypeOK
        <3> QED BY <2>1, <3>1, <1>1, <1>5 DEF n
    <2>2. CASE s # t
        <3>1. pc[s] = "sleeping" /\ wake'[s] = wake[s] /\ resource[s] \in Names
            BY <2>2, <1>0, <1>2 DEF TypeOK
        <3>2. CASE resource[s] = n
            <4>1. Len(kept) = rpm[n] /\ kept[1] + Window = wake[s]
                BY <3>1, <3>2, SleeperBucketFull DEF kept
            <4> QED BY <4>1, <3>1, <3>2, <1>5
        <3>3. CASE resource[s] # n
            BY <3>1, <3>3, <1>5 DEF IInv, WakesAtExpiry
        <3> QED BY <3>2, <3>3
    <2> QED BY <2>1, <2>2
<1> QED BY <1>3, <1>4, <1>6, <1>7 DEF IInv

(* Time only makes what is gone older; a sleeper's bucket does not change. *)
LEMMA TickIInv == IInv /\ Tick => IInv'
<1> SUFFICES ASSUME IInv, Tick PROVE IInv'
    OBVIOUS
<1>1. /\ now \in Nat /\ now' = now + 1 /\ TypeOK
      /\ UNCHANGED <<windows, pc, resource, wake, log>>
    BY DEF Tick, IInv, TypeOK
<1>2. TypeOK'
    BY <1>1 DEF TypeOK
<1>3. RateBound'
    BY <1>1 DEF IInv, RateBound
<1>4. LogOrdered'
    <2> SUFFICES ASSUME NEW n \in Names
                 PROVE  /\ \A i, j \in DOMAIN log[n] : i <= j => log[n][i] <= log[n][j]
                        /\ \A i \in DOMAIN log[n] : log[n][i] <= now + 1
        BY <1>1 DEF LogOrdered
    <2>1. DOMAIN log[n] = 1..Len(log[n])
        BY <1>1 DEF TypeOK
    <2>2. /\ \A i \in 1..Len(log[n]) : log[n][i] \in Nat /\ log[n][i] <= now
          /\ \A i, j \in 1..Len(log[n]) : i <= j => log[n][i] <= log[n][j]
        BY Bucket
    <2> QED BY <2>1, <2>2, <1>1
<1>5. WindowIsRecent'
    <2> SUFFICES ASSUME NEW n \in Names
                 PROVE  LET g == Len(log'[n]) - Len(windows'[n]) IN
                        /\ g >= 0
                        /\ Len(windows'[n]) <= rpm[n]
                        /\ \A i \in DOMAIN windows'[n] : windows'[n][i] = log'[n][g + i]
                        /\ \A i \in 1..g : now' - log'[n][i] >= Window
        BY DEF WindowIsRecent
    <2> DEFINE h == log[n]
               g == Len(h) - Len(windows[n])
    <2>0. /\ g \in Nat /\ Len(h) \in Nat /\ Len(windows[n]) \in Nat
          /\ \A i \in 1..Len(h) : h[i] \in Nat
          /\ \A i \in 1..g : now - h[i] >= Window
        BY Bucket
    <2>1. /\ Len(windows[n]) <= rpm[n]
          /\ \A i \in DOMAIN windows[n] : windows[n][i] = h[g + i]
        BY DEF IInv, WindowIsRecent
    <2>2. \A i \in 1..g : h[i] \in Nat
        BY <2>0
    <2> HIDE DEF g, h
    <2>3. \A i \in 1..g : now + 1 - h[i] >= Window
        BY <2>0, <2>2, <1>1, RateConstants
    <2>4. g >= 0
        BY <2>0
    <2>5. log' = log /\ windows' = windows /\ now' = now + 1
        BY <1>1
    <2>6. Len(log'[n]) - Len(windows'[n]) = g
        BY <2>5 DEF g, h
    <2>7. \A i \in DOMAIN windows'[n] : windows'[n][i] = log'[n][g + i]
        BY <2>1, <2>5 DEF h
    <2>8. \A i \in 1..g : now' - log'[n][i] >= Window
        <3> TAKE i \in 1..g
        <3>1. log'[n][i] = h[i]
            BY <2>5 DEF h
        <3>2. now + 1 - h[i] >= Window /\ h[i] \in Nat
            BY <2>2, <2>3
        <3> QED BY <3>1, <3>2, <2>5, <1>1
    <2> QED BY <2>1, <2>4, <2>5, <2>6, <2>7, <2>8
<1>6. WakesAtExpiry'
    <2>1. \A t \in Tasks : now + 1 < wake[t] => now < wake[t]
        BY <1>1 DEF TypeOK
    <2> QED BY <2>1, <1>1 DEF IInv, WakesAtExpiry
<1> QED BY <1>2, <1>3, <1>4, <1>5, <1>6 DEF IInv

(* The steps that only move a task: none of them makes a sleeper.          *)
LEMMA MoveIInv ==
    ASSUME IInv, NEW t \in Tasks,
           (\E n \in Names : Acquire(t, n)) \/ WakeUp(t) \/ Abort(t)
    PROVE  IInv'
<1> DEFINE Moved ==
             /\ UNCHANGED <<now, windows, wake, log>>
             /\ pc' \in [Tasks -> {"idle", "checking", "sleeping"}]
             /\ resource' \in [Tasks -> Names]
             /\ \A s \in Tasks :
                   pc'[s] = "sleeping" => pc[s] = "sleeping" /\ resource'[s] = resource[s]
<1>0. TypeOK
    BY DEF IInv
<1>a. ASSUME NEW n \in Names, Acquire(t, n) PROVE Moved
    BY <1>0, <1>a DEF TypeOK, Acquire
<1>b. ASSUME pc' = [pc EXCEPT ![t] = "checking"] \/ pc' = [pc EXCEPT ![t] = "idle"],
             UNCHANGED <<now, windows, resource, wake, log>>
      PROVE  Moved
    BY <1>0, <1>b DEF TypeOK
<1>c. ASSUME WakeUp(t) PROVE Moved
    BY <1>b, <1>c DEF WakeUp
<1>d. ASSUME Abort(t) PROVE Moved
    BY <1>b, <1>d DEF Abort
<1> HIDE DEF Moved
<1>e. Moved
    BY <1>a, <1>c, <1>d
<1>1. /\ UNCHANGED <<now, windows, wake, log>>
      /\ pc' \in [Tasks -> {"idle", "checking", "sleeping"}]
      /\ resource' \in [Tasks -> Names]
      /\ \A s \in Tasks :
            pc'[s] = "sleeping" => pc[s] = "sleeping" /\ resource'[s] = resource[s]
    BY <1>e DEF Moved
<1>2. TypeOK'
    BY <1>1 DEF IInv, TypeOK
<1>3. LogOrdered' /\ WindowIsRecent' /\ RateBound'
    BY <1>1 DEF IInv, LogOrdered, WindowIsRecent, RateBound
<1>4. WakesAtExpiry'
    BY <1>1 DEF IInv, WakesAtExpiry
<1> QED BY <1>2, <1>3, <1>4 DEF IInv

LEMMA NextIInv == IInv /\ [Next]_vars => IInv'
<1> SUFFICES ASSUME IInv, [Next]_vars PROVE IInv'
    OBVIOUS
<1>1. CASE Tick
    BY <1>1, TickIInv
<1>2. ASSUME NEW t \in Tasks, TakeSlot(t) PROVE IInv'
    BY <1>2, TakeSlotIInv
<1>3. ASSUME NEW t \in Tasks, Sleep(t) PROVE IInv'
    BY <1>3, SleepIInv
<1>4. ASSUME NEW t \in Tasks,
             (\E n \in Names : Acquire(t, n)) \/ WakeUp(t) \/ Abort(t)
      PROVE  IInv'
    BY <1>4, MoveIInv
<1>5. CASE UNCHANGED vars
    BY <1>5 DEF vars, IInv, TypeOK, LogOrdered, WindowIsRecent, WakesAtExpiry, RateBound
<1> QED BY <1>1, <1>2, <1>3, <1>4, <1>5 DEF Next

-----------------------------------------------------------------------------
(* IInv holds in every reachable state of the limiter. *)
THEOREM Invariance == Spec => []IInv
<1> QED BY InitIInv, NextIInv, PTL DEF Spec

(* Every variable keeps its range. *)
THEOREM TypeCorrect == Spec => []TypeOK
<1>1. IInv => TypeOK
    BY DEF IInv
<1> QED BY <1>1, Invariance, PTL

(* acquire never grants a name more than its rpm inside one window,        *)
(* whatever the number of tasks and the order in which they lock, sleep,   *)
(* wake and are aborted.                                                   *)
THEOREM RateHolds == Spec => []RateBound
<1>1. IInv => RateBound
    BY DEF IInv
<1> QED BY <1>1, Invariance, PTL

(* The deque is the recent end of the history: pruning forgets nothing     *)
(* that still counts.                                                      *)
THEOREM DequeIsRecent == Spec => []WindowIsRecent
<1>1. IInv => WindowIsRecent
    BY DEF IInv
<1> QED BY <1>1, Invariance, PTL

(* A task with sleep left to run would be refused if it looked again: the  *)
(* limiter never keeps a task waiting while a slot is free.                *)
THEOREM NoIdleSlot == Spec => []SleepsOnlyAtLimit
<1>1. IInv => SleepsOnlyAtLimit
    <2> SUFFICES ASSUME IInv, NEW t \in Tasks, pc[t] = "sleeping", now < wake[t]
                 PROVE  LET n == resource[t] IN
                        /\ Len(log[n]) >= rpm[n]
                        /\ now - log[n][Len(log[n]) - rpm[n] + 1] < Window
        BY DEF SleepsOnlyAtLimit
    <2> DEFINE n == resource[t]
               w == windows[n]
               h == log[n]
    <2>0. /\ n \in Names /\ now \in Nat /\ wake[t] \in Nat
          /\ rpm[n] \in Nat \ {0} /\ Window \in Nat
        BY RateConstants DEF IInv, TypeOK
    <2>1. Len(w) = rpm[n] /\ w[1] + Window = wake[t]
        BY DEF IInv, WakesAtExpiry
    <2>2. /\ Len(h) \in Nat /\ Len(h) - Len(w) \in Nat
          /\ \A i \in 1..Len(h) : h[i] \in Nat
          /\ \A i \in 1..Len(w) : w[i] = h[Len(h) - Len(w) + i]
        BY <2>0, Bucket
    <2> HIDE DEF n, w, h
    <2>3. /\ 1 \in 1..Len(w) /\ Len(h) >= rpm[n]
          /\ Len(h) - Len(w) + 1 = Len(h) - rpm[n] + 1
          /\ Len(h) - rpm[n] + 1 \in 1..Len(h)
        BY <2>0, <2>1, <2>2
    <2>4. w[1] = h[Len(h) - rpm[n] + 1] /\ w[1] \in Nat
        BY <2>2, <2>3
    <2>5. now - w[1] < Window
        BY <2>0, <2>1, <2>4
    <2> QED BY <2>3, <2>4, <2>5 DEF n, w, h
<1> QED BY <1>1, Invariance, PTL

-----------------------------------------------------------------------------
(* The inductive invariant behind RotationTakesEffect: a client that is    *)
(* built and not installed is nobody else's, is not in place, and is not   *)
(* what any call wants to get rid of; a client that was to be replaced is  *)
(* out of its place once the call that replaces it is past the install.    *)
ClientType ==
    /\ resource \in [Tasks -> Names]
    /\ stage \in [Tasks -> Stages]
    /\ own \in [Tasks -> Nat] /\ using \in [Tasks -> Nat] /\ stale \in [Tasks -> Nat]
    /\ built \in [Names -> Nat]
    /\ http \in [Names -> [counter : Nat, client : Nat]]

Holders ==
    \A t \in Tasks :
        /\ stage[t] # "install" => own[t] = NoClient
        /\ stage[t] # "asking" => using[t] = NoClient
        /\ stage[t] \notin {"build", "install", "send", "asking"} => stale[t] = NoClient

ClientsNumbered ==
    /\ \A n \in Names : http[n].client <= built[n]
    /\ \A t \in Tasks : own[t] <= built[resource[t]] /\ stale[t] <= built[resource[t]]

Private ==
    /\ \A t \in Tasks : own[t] # NoClient => own[t] # http[resource[t]].client
    /\ \A t, u \in Tasks :
          own[t] # NoClient /\ resource[u] = resource[t] =>
              own[t] # stale[u] /\ (u # t => own[t] # own[u])

Replaced ==
    /\ \A t \in Tasks :
          stage[t] = "send" /\ stale[t] # NoClient => stale[t] # http[resource[t]].client
    /\ RotationTakesEffect

RInv == ClientType /\ Holders /\ ClientsNumbered /\ Private /\ Replaced

LEMMA InitRInv == CallInit => RInv
BY DEF CallInit, Init, RInv, ClientType, Holders, ClientsNumbered, Private, Replaced,
       RotationTakesEffect, NoClient, Stages

(* A step that leaves the clients alone and does not move a task into or   *)
(* out of the stages that hold one. *)
Plain == {"new", "paced", "attempt", "search", "count", "backoff", "done", "failed", "dropped"}

LEMMA PlainSteps ==
    ASSUME RInv, NEW t \in Tasks,
           UNCHANGED <<http, built, own, using, stale>>,
           \/ UNCHANGED <<stage, resource>>
           \/ /\ stage[t] \in Plain
              /\ \E n \in Names : resource' = [resource EXCEPT ![t] = n]
              /\ \E s \in Plain : stage' = [stage EXCEPT ![t] = s]
           \/ /\ stage[t] \in Plain /\ UNCHANGED resource
              /\ \E s \in Plain : stage' = [stage EXCEPT ![t] = s]
    PROVE  RInv'
<1>1. CASE UNCHANGED <<stage, resource>>
    BY <1>1 DEF RInv, ClientType, Holders, ClientsNumbered, Private, Replaced, RotationTakesEffect
<1>2. ASSUME NEW n \in Names, NEW s \in Plain, stage[t] \in Plain,
             stage' = [stage EXCEPT ![t] = s],
             resource' = [resource EXCEPT ![t] = n] \/ UNCHANGED resource
      PROVE  RInv'
    <2>1. own[t] = NoClient /\ using[t] = NoClient /\ stale[t] = NoClient
        BY <1>2 DEF RInv, Holders, Plain
    <2>2. ClientType'
        BY <1>2 DEF RInv, ClientType, Plain, Stages
    <2>3. Holders'
        BY <1>2, <2>1 DEF RInv, ClientType, Holders, Plain, Stages
    <2>4. ClientsNumbered'
        BY <1>2, <2>1 DEF RInv, ClientType, ClientsNumbered, NoClient
    <2>5. Private'
        <3>1. \A u \in Tasks : u # t => resource'[u] = resource[u]
            BY <1>2 DEF RInv, ClientType
        <3>2. ASSUME NEW u \in Tasks, own'[u] # NoClient
              PROVE  own'[u] # http'[resource'[u]].client
            BY <1>2, <2>1, <3>1, <3>2 DEF RInv, Private
        <3>3. ASSUME NEW u \in Tasks, NEW v \in Tasks, own'[u] # NoClient,
                     resource'[v] = resource'[u]
              PROVE  own'[u] # stale'[v] /\ (v # u => own'[u] # own'[v])
            BY <1>2, <2>1, <3>1, <3>3 DEF RInv, Private
        <3> QED BY <3>2, <3>3 DEF Private
    <2>6. Replaced'
        BY <1>2, <2>1 DEF RInv, ClientType, Replaced, RotationTakesEffect, Plain
    <2> QED BY <2>2, <2>3, <2>4, <2>5, <2>6 DEF RInv
<1> QED
    <2>1. CASE /\ stage[t] \in Plain
               /\ \E n \in Names : resource' = [resource EXCEPT ![t] = n]
               /\ \E s \in Plain : stage' = [stage EXCEPT ![t] = s]
        BY <2>1, <1>2
    <2>2. CASE /\ stage[t] \in Plain /\ UNCHANGED resource
               /\ \E s \in Plain : stage' = [stage EXCEPT ![t] = s]
        <3>1. resource[t] \in Names
            BY DEF RInv, ClientType
        <3> QED BY <2>2, <3>1, <1>2
    <2> QED BY <1>1, <2>1, <2>2

(* client(), its counting step: the client in place becomes the one this   *)
(* call must not return; nobody's private client is in place.              *)
LEMMA CountsKeeps == ASSUME RInv, NEW t \in Tasks, Counts(t) PROVE RInv'
<1> USE DEF RInv, ClientType
<1>1. ClientType'
    BY DEF Counts, vars, Go, Stages, NoClient
<1>2. Holders'
    BY DEF Counts, vars, Go, Holders, NoClient, Stages
<1>3. ClientsNumbered'
    BY DEF Counts, vars, Go, ClientsNumbered, NoClient
<1>4. Private'
    BY DEF Counts, vars, Go, Private, Holders, NoClient
<1>5. Replaced'
    BY DEF Counts, vars, Go, Replaced, RotationTakesEffect, Holders, NoClient
<1> QED BY <1>1, <1>2, <1>3, <1>4, <1>5

(* A new client has a number of its own. *)
LEMMA BuildsKeeps == ASSUME RInv, NEW t \in Tasks, Builds(t) PROVE RInv'
<1> USE DEF RInv, ClientType
<1>1. ClientType'
    BY DEF Builds, vars, Go, Stages
<1>2. Holders'
    BY DEF Builds, vars, Go, Holders, Stages
<1>3. ClientsNumbered'
    BY DEF Builds, vars, Go, ClientsNumbered
<1>4. Private'
    BY DEF Builds, vars, Go, Private, ClientsNumbered, NoClient
<1>5. Replaced'
    BY DEF Builds, vars, Go, Replaced, RotationTakesEffect, Holders
<1> QED BY <1>1, <1>2, <1>3, <1>4, <1>5

LEMMA BuildFailsKeeps == ASSUME RInv, NEW t \in Tasks, BuildFails(t) PROVE RInv'
<1> USE DEF RInv, ClientType
<1>1. ClientType'
    BY DEF BuildFails, vars, Go, Stages, NoClient
<1>2. Holders'
    BY DEF BuildFails, vars, Go, Holders, Stages, NoClient
<1>3. ClientsNumbered'
    BY DEF BuildFails, vars, Go, ClientsNumbered, NoClient
<1>4. Private'
    BY DEF BuildFails, vars, Go, Private, NoClient
<1>5. Replaced'
    BY DEF BuildFails, vars, Go, Replaced, RotationTakesEffect, Holders, NoClient
<1> QED BY <1>1, <1>2, <1>3, <1>4, <1>5

(* The client that comes into place is one that no call wants to get rid   *)
(* of, and the private clients of the others are still private.            *)
LEMMA InstallsKeeps == ASSUME RInv, NEW t \in Tasks, Installs(t) PROVE RInv'
<1> USE DEF RInv, ClientType
<1>1. ClientType'
    BY DEF Installs, vars, Go, Stages, NoClient
<1>2. Holders'
    BY DEF Installs, vars, Go, Holders, Stages, NoClient
<1>3. ClientsNumbered'
    BY DEF Installs, vars, Go, ClientsNumbered, NoClient
<1>4. Private'
    BY DEF Installs, vars, Go, Private, NoClient
<1>5. own[t] # NoClient => \A u \in Tasks : resource[u] = resource[t] => stale[u] # own[t]
    BY DEF Private
<1>6. Replaced'
    BY <1>5 DEF Installs, vars, Go, Replaced, RotationTakesEffect, Holders, NoClient
<1> QED BY <1>1, <1>2, <1>3, <1>4, <1>6

(* The request takes what is in place. *)
LEMMA SendsKeeps == ASSUME RInv, NEW t \in Tasks, Sends(t) PROVE RInv'
<1> USE DEF RInv, ClientType
<1>1. ClientType'
    BY DEF Sends, vars, Go, Stages
<1>2. Holders'
    BY DEF Sends, vars, Go, Holders, Stages
<1>3. ClientsNumbered'
    BY DEF Sends, vars, Go, ClientsNumbered
<1>4. Private'
    BY DEF Sends, vars, Go, Private
<1>5. Replaced'
    BY DEF Sends, vars, Go, Replaced, RotationTakesEffect, Holders
<1> QED BY <1>1, <1>2, <1>3, <1>4, <1>5

(* The exchange is over, or the task is: it holds nothing any more. *)
LEMMA Releases ==
    ASSUME RInv, NEW t \in Tasks, NEW s \in Plain,
           stage[t] \in Plain \cup {"asking"},
           stage' = [stage EXCEPT ![t] = s],
           using' = [using EXCEPT ![t] = NoClient],
           stale' = [stale EXCEPT ![t] = NoClient],
           UNCHANGED <<resource, http, built, own>>
    PROVE  RInv'
<1> USE DEF RInv, ClientType
<1>1. ClientType'
    BY DEF Stages, NoClient, Plain
<1>2. Holders'
    BY DEF Holders, Stages, NoClient, Plain
<1>3. ClientsNumbered'
    BY DEF ClientsNumbered, NoClient
<1>4. Private'
    BY DEF Private, NoClient
<1>5. Replaced'
    BY DEF Replaced, RotationTakesEffect, Holders, NoClient, Plain
<1> QED BY <1>1, <1>2, <1>3, <1>4, <1>5

-----------------------------------------------------------------------------
LEMMA NextRInv == RInv /\ [CallNext]_allVars => RInv'
<1> SUFFICES ASSUME RInv, [CallNext]_allVars PROVE RInv'
    OBVIOUS
<1>1. CASE UNCHANGED allVars
    <2>1. UNCHANGED <<stage, resource, http, built, own, using, stale>>
        BY <1>1 DEF allVars, vars, callVars
    <2> QED BY <2>1 DEF RInv, ClientType, Holders, ClientsNumbered, Private, Replaced, RotationTakesEffect
<1>2. CASE Passes
    <2>1. UNCHANGED <<stage, resource, http, built, own, using, stale>>
        BY <1>2 DEF Passes, Tick, callVars
    <2> QED BY <2>1 DEF RInv, ClientType, Holders, ClientsNumbered, Private, Replaced, RotationTakesEffect
<1>3. ASSUME NEW t \in Tasks,
             \/ \E n \in Names : Begins(t, n)
             \/ Paced(t) \/ Attempts(t) \/ Searches(t)
             \/ Pauses(t) \/ Resumes(t)
             \/ Counts(t) \/ Builds(t) \/ BuildFails(t) \/ Installs(t) \/ Sends(t)
             \/ \E x \in Exchanges : Answers(t, x)
             \/ Retries(t)
             \/ Drops(t)
      PROVE  RInv'
    <2>0. stage \in [Tasks -> Stages] /\ resource[t] \in Names
        BY DEF RInv, ClientType
    <2>1. ASSUME NEW n \in Names, Begins(t, n) PROVE RInv'
        <3>1. /\ UNCHANGED <<http, built, own, using, stale>>
              /\ stage[t] \in Plain
              /\ resource' = [resource EXCEPT ![t] = n]
              /\ stage' = [stage EXCEPT ![t] = "paced"] /\ "paced" \in Plain
            BY <2>1 DEF Begins, Acquire, Go, Plain
        <3> QED BY <3>1, PlainSteps
    <2>2. CASE Paced(t)
        <3>1. /\ UNCHANGED <<http, built, own, using, stale, resource>>
              /\ stage[t] \in Plain
              /\ stage' = [stage EXCEPT ![t] = "attempt"] /\ "attempt" \in Plain
            BY <2>2 DEF Paced, TakeSlot, Go, Plain
        <3> QED BY <3>1, PlainSteps
    <2>3. CASE Attempts(t)
        <3>1. /\ UNCHANGED <<http, built, own, using, stale>>
              /\ stage[t] \in Plain
              /\ resource' = [resource EXCEPT ![t] = resource[t]]
              /\ stage' = [stage EXCEPT ![t] = "search"] /\ "search" \in Plain
            BY <2>3 DEF Attempts, Acquire, Go, Plain
        <3> QED BY <2>0, <3>1, PlainSteps
    <2>4. CASE Searches(t)
        <3>1. /\ UNCHANGED <<http, built, own, using, stale, resource>>
              /\ stage[t] \in Plain
              /\ stage' = [stage EXCEPT ![t] = "count"] /\ "count" \in Plain
            BY <2>4 DEF Searches, TakeSlot, Go, Plain
        <3> QED BY <3>1, PlainSteps
    <2>5. CASE Pauses(t) \/ Resumes(t)
        <3>1. UNCHANGED <<http, built, own, using, stale, resource, stage>>
            BY <2>5 DEF Pauses, Resumes, Sleep, WakeUp, callVars
        <3> QED BY <3>1, PlainSteps
    <2>6. ASSUME NEW x \in Exchanges, Answers(t, x) PROVE RInv'
        <3>1. /\ UNCHANGED <<resource, http, built, own>>
              /\ stage[t] \in Plain \cup {"asking"}
              /\ using' = [using EXCEPT ![t] = NoClient]
              /\ stale' = [stale EXCEPT ![t] = NoClient]
              /\ \E s \in Plain : stage' = [stage EXCEPT ![t] = s]
            BY <2>6 DEF Answers, vars, Go, Plain
        <3> QED BY <3>1, Releases
    <2>7. CASE Retries(t)
        <3>1. /\ UNCHANGED <<http, built, own, using, stale, resource>>
              /\ stage[t] \in Plain
              /\ stage' = [stage EXCEPT ![t] = "attempt"] /\ "attempt" \in Plain
            BY <2>7 DEF Retries, vars, Go, Plain
        <3> QED BY <3>1, PlainSteps
    <2>8. CASE Drops(t)
        <3>1. /\ UNCHANGED <<resource, http, built, own>>
              /\ stage[t] \in Plain \cup {"asking"}
              /\ using' = [using EXCEPT ![t] = NoClient]
              /\ stale' = [stale EXCEPT ![t] = NoClient]
              /\ stage' = [stage EXCEPT ![t] = "dropped"] /\ "dropped" \in Plain
            BY <2>8 DEF Drops, Abort, vars, Go, Plain
        <3> QED BY <3>1, Releases
    <2> QED BY <1>3, <2>1, <2>2, <2>3, <2>4, <2>5, <2>6, <2>7, <2>8, CountsKeeps,
               BuildsKeeps, BuildFailsKeeps, InstallsKeeps, SendsKeeps
<1> QED BY <1>1, <1>2, <1>3 DEF CallNext

LEMMA ClientInvariance == CallSpec => []RInv
<1> QED BY InitRInv, NextRInv, PTL DEF CallSpec

(* A call that rotates the client of a provider never sends its request    *)
(* through the client it was to replace, whatever the number of tasks and  *)
(* however their builds and installs overtake each other.                  *)
THEOREM RotationHolds == CallSpec => []RotationTakesEffect
<1>1. RInv => RotationTakesEffect
    BY DEF RInv, Replaced
<1> QED BY <1>1, ClientInvariance, PTL

-----------------------------------------------------------------------------
(* Every step of the pipeline is a step of the limiter or leaves it alone. *)
LEMMA StepUsesLimiter == RInv /\ [CallNext]_allVars => [Next]_vars
<1> SUFFICES ASSUME RInv, [CallNext]_allVars PROVE [Next]_vars
    OBVIOUS
<1>1. CASE UNCHANGED allVars
    BY <1>1 DEF allVars
<1>2. CASE Passes
    BY <1>2 DEF Passes, Next
<1>3. ASSUME NEW t \in Tasks,
             \/ \E n \in Names : Begins(t, n)
             \/ Paced(t) \/ Attempts(t) \/ Searches(t)
             \/ Pauses(t) \/ Resumes(t)
             \/ Counts(t) \/ Builds(t) \/ BuildFails(t) \/ Installs(t) \/ Sends(t)
             \/ \E x \in Exchanges : Answers(t, x)
             \/ Retries(t)
             \/ Drops(t)
      PROVE  [Next]_vars
    <2>1. ASSUME NEW n \in Names, Begins(t, n) PROVE [Next]_vars
        BY <2>1 DEF Begins, Next
    <2>2. CASE Paced(t) \/ Searches(t)
        BY <2>2 DEF Paced, Searches, Next
    <2>3. CASE Attempts(t)
        <3>1. resource[t] \in Names
            BY DEF RInv, ClientType
        <3> QED BY <2>3, <3>1 DEF Attempts, Next
    <2>4. CASE Pauses(t) \/ Resumes(t)
        BY <2>4 DEF Pauses, Resumes, Next
    <2>5. CASE \/ Counts(t) \/ Builds(t) \/ BuildFails(t) \/ Installs(t) \/ Sends(t)
               \/ Retries(t)
        BY <2>5 DEF Counts, Builds, BuildFails, Installs, Sends, Retries
    <2>6. ASSUME NEW x \in Exchanges, Answers(t, x) PROVE [Next]_vars
        BY <2>6 DEF Answers
    <2>7. CASE Drops(t)
        BY <2>7 DEF Drops, Next
    <2> QED BY <1>3, <2>1, <2>2, <2>3, <2>4, <2>5, <2>6, <2>7
<1> QED BY <1>1, <1>2, <1>3 DEF CallNext

(* The pipeline implements the limiter: what RateLimiter says of acquire   *)
(* holds of it as the pipeline and the providers use it.                   *)
THEOREM PipelineUsesLimiter == CallSpec => Spec
<1>1. CallInit => Init
    BY DEF CallInit
<1> QED BY <1>1, StepUsesLimiter, ClientInvariance, PTL DEF CallSpec, Spec

(* No provider is granted more than its rpm slots in a window, with all    *)
(* the retries of all the searches.                                        *)
THEOREM PipelineKeepsRate == CallSpec => []RateBound
<1> QED BY PipelineUsesLimiter, RateHolds, PTL

-----------------------------------------------------------------------------
(* The requests.  What the invariant says of one provider. *)
LEMMA Ledger ==
    ASSUME IInv, PaidFor, NEW n \in Names
    PROVE  /\ log[n] \in Seq(Nat) /\ Len(log[n]) \in Nat
           /\ DOMAIN log[n] = 1..Len(log[n])
           /\ \A i \in 1..Len(log[n]) : log[n][i] \in Nat
           /\ asked[n] \in Seq(Request) /\ Len(asked[n]) \in Nat
           /\ DOMAIN asked[n] = 1..Len(asked[n])
           /\ \A i \in 1..Len(asked[n]) : asked[n][i] \in Request
<1>1. log[n] \in Seq(Nat) /\ asked[n] \in Seq(Request)
    BY DEF IInv, TypeOK, PaidFor
<1> QED BY <1>1

LEMMA NatMin ==
    ASSUME NEW S \in SUBSET Nat, S # {}
    PROVE  \E m \in S : \A k \in S : m <= k
<1>1. PICK m \in S : \A k \in S : ~(<<k, m>> \in OpToRel(<, Nat))
    BY NatLessThanWellFounded, WFMin
<1>2. \A k \in S : ~(k < m)
    BY <1>1 DEF OpToRel
<1> QED BY <1>2

(* Distinct slots are spread out: among r + 1 of them two are r apart. *)
LEMMA SpreadOut ==
    ASSUME NEW i \in Nat, NEW r \in Nat, NEW f \in [i..(i + r) -> Nat],
           \A j, k \in i..(i + r) : j # k => f[j] # f[k]
    PROVE  \E j, k \in i..(i + r) : f[k] - f[j] >= r
<1> DEFINE I == i..(i + r)
<1>1. {f[j] : j \in I} \in SUBSET Nat /\ {f[j] : j \in I} # {}
    <2>1. i \in I
        OBVIOUS
    <2> QED BY <2>1
<1>2. PICK j \in I : \A k \in I : f[j] <= f[k]
    <2>1. PICK m \in {f[j] : j \in I} : \A k \in {f[j] : j \in I} : m <= k
        BY <1>1, NatMin
    <2> QED BY <2>1
<1>3. ASSUME \A k \in I : ~(f[k] - f[j] >= r)
      PROVE  FALSE
    <2> DEFINE m == f[j]
               B == m..(m + r - 1)
    <2>0. m \in Nat
        OBVIOUS
    <2>1. \A k \in I : f[k] \in B
        BY <1>2, <1>3
    <2>2. f \in [I -> B]
        BY <2>1
    <2> HIDE DEF m
    <2>3. /\ IsFiniteSet(I) /\ Cardinality(I) = r + 1
          /\ IsFiniteSet(B) /\ Cardinality(B) = r
        <3>1. /\ IsFiniteSet(i..(i + r))
              /\ Cardinality(i..(i + r)) = IF i > i + r THEN 0 ELSE (i + r) - i + 1
            BY FS_Interval
        <3>2. m \in Int /\ m + r - 1 \in Int
            BY <2>0
        <3>3. /\ IsFiniteSet(B)
              /\ Cardinality(B) = IF m > m + r - 1 THEN 0 ELSE (m + r - 1) - m + 1
            BY <3>2, FS_Interval
        <3> HIDE DEF B
        <3> QED BY <2>0, <3>1, <3>3
    <2> HIDE DEF I, B
    <2>4. Cardinality(B) < Cardinality(I)
        BY <2>3
    <2>5. \E x, y \in I : x # y /\ f[x] = f[y]
        BY <2>2, <2>3, <2>4, FS_PigeonHole
    <2> QED BY <2>5 DEF I
<1> QED BY <1>2, <1>3

(* From the slots of a provider to its requests: among rpm + 1 requests in *)
(* a row two have slots that are a window apart, and neither left before   *)
(* its slot or more than Delay after it.                                   *)
LEMMA SlotsSpanWindow ==
    ASSUME IInv, PaidFor
    PROVE  RequestsKeepRate
<1> SUFFICES ASSUME NEW n \in Names, NEW i \in DOMAIN asked[n], i + rpm[n] <= Len(asked[n])
             PROVE  asked[n][i + rpm[n]].at - asked[n][i].at >= Window - Delay
    BY DEF RequestsKeepRate
<1> DEFINE h == log[n]
           a == asked[n]
           r == rpm[n]
           L == Len(a)
           m == Len(h)
<1>1. /\ m \in Nat /\ DOMAIN h = 1..m /\ \A j \in 1..m : h[j] \in Nat
      /\ L \in Nat /\ DOMAIN a = 1..L
      /\ \A j \in 1..L : a[j].at \in Nat /\ a[j].slot \in Nat
    BY Ledger DEF Request
<1>2. r \in Nat \ {0} /\ Window \in Nat /\ Delay \in Nat
    BY RateConstants, CallConstants
<1>3. \A j \in 1..L : /\ a[j].slot \in 1..m
                      /\ h[a[j].slot] <= a[j].at /\ a[j].at <= h[a[j].slot] + Delay
    BY <1>1 DEF PaidFor, SlotsFit
<1>4. /\ \A j, k \in 1..L : j # k => a[j].slot # a[k].slot
      /\ \A j, k \in 1..L : j <= k => a[j].at <= a[k].at
    BY <1>1 DEF PaidFor, SlotsDiffer, AskedInOrder
<1>5. /\ \A j, k \in 1..m : j <= k => h[j] <= h[k]
      /\ \A j \in 1..m : j + r <= m => h[j + r] - h[j] >= Window
    BY Bucket
<1>6. i \in 1..L /\ i + r <= L
    BY <1>1
<1> HIDE DEF h, a, r, L, m
<1>7. i \in Nat /\ i..(i + r) \subseteq 1..L
    BY <1>1, <1>2, <1>6
<1> DEFINE f == [j \in i..(i + r) |-> a[j].slot]
<1>8. f \in [i..(i + r) -> Nat]
    BY <1>1, <1>7
<1>9. \A j, k \in i..(i + r) : j # k => f[j] # f[k]
    BY <1>4, <1>7
<1>10. \E j, k \in i..(i + r) : f[k] - f[j] >= r
    <2> HIDE DEF f
    <2> QED BY <1>2, <1>7, <1>8, <1>9, SpreadOut
<1>11. PICK j \in i..(i + r), k \in i..(i + r) : a[k].slot - a[j].slot >= r
    BY <1>10
<1> DEFINE p == a[j].slot
           q == a[k].slot
<1>12. /\ j \in 1..L /\ k \in 1..L /\ i <= j /\ k <= i + r /\ i \in 1..L /\ i + r \in 1..L
    BY <1>2, <1>6, <1>7
<1>13. p \in 1..m /\ q \in 1..m /\ q - p >= r
    BY <1>3, <1>11, <1>12
<1>14. a[i].at <= a[j].at /\ a[k].at <= a[i + r].at
    BY <1>4, <1>12
<1>15. h[q] <= a[k].at /\ a[j].at <= h[p] + Delay
    BY <1>3, <1>12
<1> HIDE DEF p, q
<1>16. p + r \in 1..m /\ p + r <= q /\ p + r <= m
    BY <1>1, <1>2, <1>13
<1>17. h[p + r] - h[p] >= Window /\ h[p + r] <= h[q]
    BY <1>5, <1>13, <1>16
<1>18. /\ h[p] \in Nat /\ h[q] \in Nat /\ h[p + r] \in Nat
       /\ a[i].at \in Nat /\ a[j].at \in Nat /\ a[k].at \in Nat /\ a[i + r].at \in Nat
    BY <1>1, <1>12, <1>13, <1>16
<1>19. a[i + r].at - a[i].at >= Window - Delay
    <2> DEFINE s == h[p]
               u == h[p + r]
               v == h[q]
               A == a[i].at
               B == a[j].at
               C == a[k].at
               D == a[i + r].at
    <2>1. /\ s \in Nat /\ u \in Nat /\ v \in Nat
          /\ A \in Nat /\ B \in Nat /\ C \in Nat /\ D \in Nat
        BY <1>18
    <2>2. A <= B /\ B <= s + Delay /\ u - s >= Window /\ u <= v /\ v <= C /\ C <= D
        BY <1>14, <1>15, <1>17
    <2> HIDE DEF s, u, v, A, B, C, D
    <2>3. D - A >= Window - Delay
        BY <1>2, <2>1, <2>2
    <2> QED BY <2>3 DEF A, D
<1> QED BY <1>19 DEF a, r

(* A step that sends nothing and takes no slot to send with.  It may grant *)
(* slots, and let time pass while no request lags too far behind.          *)
LEMMA NothingAsked ==
    ASSUME IInv, IInv', PaidFor, UNCHANGED <<asked, slot>>,
           now' \in Nat, now <= now',
           \A n \in Names : /\ Unsent(n)' = Unsent(n)
                            /\ \A t \in Unsent(n) : now' - log[n][slot[t]] <= Delay
                            /\ Len(log[n]) <= Len(log'[n])
                            /\ \A i \in 1..Len(log[n]) : log'[n][i] = log[n][i]
    PROVE  PaidFor'
<1>1. ASSUME NEW n \in Names
      PROVE  /\ \A i \in DOMAIN log[n] : i \in DOMAIN log'[n] /\ log'[n][i] = log[n][i]
             /\ \A i \in DOMAIN asked[n] : asked[n][i].at \in Nat
    <2>1. /\ DOMAIN log[n] = 1..Len(log[n]) /\ Len(log[n]) \in Nat
          /\ \A i \in DOMAIN asked[n] : asked[n][i].at \in Nat
        BY Ledger DEF Request
    <2>2. log'[n] \in Seq(Nat)
        BY DEF IInv, TypeOK
    <2>3. DOMAIN log'[n] = 1..Len(log'[n]) /\ Len(log'[n]) \in Nat
        BY <2>2
    <2> QED BY <2>1, <2>3
<1>2. now \in Nat
    BY DEF IInv, TypeOK
<1>3. SlotsFit'
    <2> SUFFICES ASSUME NEW n \in Names
                 PROVE  /\ \A t \in Unsent(n) :
                              slot[t] \in DOMAIN log'[n] /\ now' - log'[n][slot[t]] <= Delay
                        /\ \A i \in DOMAIN asked[n] :
                              /\ asked[n][i].slot \in DOMAIN log'[n]
                              /\ log'[n][asked[n][i].slot] <= asked[n][i].at
                              /\ asked[n][i].at <= log'[n][asked[n][i].slot] + Delay
                              /\ asked[n][i].at <= now'
        BY DEF SlotsFit
    <2>1. ASSUME NEW t \in Unsent(n)
          PROVE  slot[t] \in DOMAIN log'[n] /\ now' - log'[n][slot[t]] <= Delay
        BY <1>1, <2>1 DEF PaidFor, SlotsFit
    <2>2. ASSUME NEW i \in DOMAIN asked[n]
          PROVE  /\ asked[n][i].slot \in DOMAIN log'[n]
                 /\ log'[n][asked[n][i].slot] <= asked[n][i].at
                 /\ asked[n][i].at <= log'[n][asked[n][i].slot] + Delay
                 /\ asked[n][i].at <= now'
        <3>1. /\ asked[n][i].slot \in DOMAIN log[n]
              /\ log[n][asked[n][i].slot] <= asked[n][i].at
              /\ asked[n][i].at <= log[n][asked[n][i].slot] + Delay
              /\ asked[n][i].at <= now
            BY <2>2 DEF PaidFor, SlotsFit
        <3>2. asked[n][i].at <= now'
            BY <1>1, <1>2, <2>2, <3>1
        <3> QED BY <1>1, <3>1, <3>2
    <2> QED BY <2>1, <2>2
<1>4. SlotsDiffer'
    BY DEF PaidFor, SlotsDiffer
<1>5. AskedInOrder'
    BY DEF PaidFor, AskedInOrder
<1> QED BY <1>3, <1>4, <1>5 DEF PaidFor

(* A task that stays on the same side of its request, and on the same      *)
(* provider while it has one under way.                                    *)
LEMMA SameUnsent ==
    ASSUME RInv, NEW t \in Tasks, NEW s \in Stages,
           stage' = [stage EXCEPT ![t] = s],
           stage[t] \in {"count", "build", "install", "send"} <=>
               s \in {"count", "build", "install", "send"},
           \/ UNCHANGED resource
           \/ /\ stage[t] \notin {"count", "build", "install", "send"}
              /\ \E m \in Names : resource' = [resource EXCEPT ![t] = m]
    PROVE  \A n \in Names : Unsent(n)' = Unsent(n)
<1> DEFINE Late == {"count", "build", "install", "send"}
<1>1. \A u \in Tasks : stage'[u] \in Late <=> stage[u] \in Late
    BY DEF RInv, ClientType
<1>2. \A u \in Tasks : stage[u] \in Late => resource'[u] = resource[u]
    BY DEF RInv, ClientType
<1> QED BY <1>1, <1>2 DEF Unsent, Leaving

(* The limiter's history as a step of the limiter leaves it. *)
LEMMA Granted ==
    ASSUME IInv, NEW t \in Tasks, TakeSlot(t)
    PROVE  /\ resource[t] \in Names /\ UNCHANGED <<now, resource>>
           /\ \A n \in Names : n # resource[t] => log'[n] = log[n]
           /\ Len(log'[resource[t]]) = Len(log[resource[t]]) + 1
           /\ log'[resource[t]][Len(log[resource[t]]) + 1] = now
           /\ \A n \in Names : /\ Len(log[n]) <= Len(log'[n])
                               /\ \A i \in 1..Len(log[n]) : log'[n][i] = log[n][i]
<1>1. resource[t] \in Names /\ \A n \in Names : log[n] \in Seq(Nat)
    BY DEF IInv, TypeOK
<1>2. log' = [log EXCEPT ![resource[t]] = Append(log[resource[t]], now)]
    BY DEF TakeSlot
<1>3. log'[resource[t]] = Append(log[resource[t]], now)
    BY <1>1, <1>2 DEF IInv, TypeOK
<1>4. \A n \in Names : n # resource[t] => log'[n] = log[n]
    BY <1>1, <1>2 DEF IInv, TypeOK
<1>5. ASSUME NEW n \in Names
      PROVE  /\ Len(log[n]) <= Len(log'[n])
             /\ \A i \in 1..Len(log[n]) : log'[n][i] = log[n][i]
    <2>1. CASE n = resource[t]
        BY <1>1, <1>3, <2>1
    <2>2. CASE n # resource[t]
        <3>1. log'[n] = log[n] /\ Len(log[n]) \in Nat
            BY <1>1, <1>4, <2>2
        <3> QED BY <3>1
    <2> QED BY <2>1, <2>2
<1> QED BY <1>1, <1>3, <1>4, <1>5 DEF TakeSlot

(* The pipeline's own slot pays for no request. *)
LEMMA PacedPays ==
    ASSUME IInv, IInv', RInv, PaidFor, NEW t \in Tasks, Paced(t)
    PROVE  PaidFor'
<1>1. /\ stage[t] = "paced" /\ stage' = [stage EXCEPT ![t] = "attempt"]
      /\ TakeSlot(t) /\ UNCHANGED <<asked, slot>>
    BY DEF Paced, Go
<1>2. UNCHANGED <<now, resource>> /\ now \in Nat
    BY <1>1, Granted DEF IInv, TypeOK
<1>3. \A n \in Names : Unsent(n)' = Unsent(n)
    BY <1>1, <1>2, SameUnsent DEF Stages
<1>4. \A n \in Names : /\ Len(log[n]) <= Len(log'[n])
                       /\ \A i \in 1..Len(log[n]) : log'[n][i] = log[n][i]
    BY <1>1, Granted
<1>5. \A n \in Names : \A u \in Unsent(n) : now' - log[n][slot[u]] <= Delay
    BY <1>2 DEF PaidFor, SlotsFit
<1> QED BY <1>1, <1>2, <1>3, <1>4, <1>5, NothingAsked

(* The slot of an attempt is behind all the others and of this moment: it  *)
(* pays for the request that is about to leave.                            *)
LEMMA SearchesPays ==
    ASSUME IInv, IInv', RInv, PaidFor, NEW t \in Tasks, Searches(t)
    PROVE  PaidFor'
<1> DEFINE p == resource[t]
           new == Len(log[p]) + 1
<1>1. /\ stage[t] = "search" /\ stage' = [stage EXCEPT ![t] = "count"]
      /\ TakeSlot(t) /\ UNCHANGED asked /\ slot' = [slot EXCEPT ![t] = new]
    BY DEF Searches, Go
<1>2. /\ UNCHANGED <<now, resource>> /\ p \in Names /\ now \in Nat /\ Delay \in Nat
      /\ stage \in [Tasks -> Stages]
    BY <1>1, Granted, CallConstants DEF RInv, ClientType, IInv, TypeOK
<1>3. new \in Nat /\ slot \in [Tasks -> Nat]
    BY <1>2, Ledger DEF PaidFor
<1>4. slot' \in [Tasks -> Nat] /\ slot'[t] = new /\ \A u \in Tasks : u # t => slot'[u] = slot[u]
    <2> HIDE DEF new
    <2> QED BY <1>1, <1>3
<1>5. \A n \in Names : Unsent(n)' = IF n = p THEN Unsent(n) \cup {t} ELSE Unsent(n)
    BY <1>1, <1>2 DEF Unsent, Leaving
<1>6. \A n \in Names : t \notin Unsent(n)
    BY <1>1 DEF Unsent, Leaving
<1>7. ASSUME NEW n \in Names
      PROVE  /\ DOMAIN log[n] = 1..Len(log[n]) /\ Len(log[n]) \in Nat
             /\ DOMAIN log'[n] = 1..Len(log'[n])
             /\ \A i \in DOMAIN log[n] : i \in DOMAIN log'[n] /\ log'[n][i] = log[n][i]
    <2>1. DOMAIN log[n] = 1..Len(log[n]) /\ Len(log[n]) \in Nat
        BY Ledger
    <2>2. log'[n] \in Seq(Nat)
        BY DEF IInv, TypeOK
    <2>3. DOMAIN log'[n] = 1..Len(log'[n]) /\ Len(log'[n]) \in Nat
        BY <2>2
    <2>4. Len(log[n]) <= Len(log'[n]) /\ \A i \in 1..Len(log[n]) : log'[n][i] = log[n][i]
        BY <1>1, Granted
    <2> QED BY <2>1, <2>3, <2>4
<1>8. new \in DOMAIN log'[p] /\ log'[p][new] = now
    <2>1. Len(log'[p]) = new /\ log'[p][new] = now
        BY <1>1, Granted
    <2> QED BY <1>2, <1>3, <1>7, <2>1
<1> HIDE DEF new
<1>9. SlotsFit'
    <2> SUFFICES ASSUME NEW n \in Names
                 PROVE  /\ \A u \in Unsent(n)' :
                              slot'[u] \in DOMAIN log'[n] /\ now - log'[n][slot'[u]] <= Delay
                        /\ \A i \in DOMAIN asked[n] :
                              /\ asked[n][i].slot \in DOMAIN log'[n]
                              /\ log'[n][asked[n][i].slot] <= asked[n][i].at
                              /\ asked[n][i].at <= log'[n][asked[n][i].slot] + Delay
                              /\ asked[n][i].at <= now
        BY <1>1, <1>2 DEF SlotsFit
    <2>1. ASSUME NEW u \in Unsent(n)'
          PROVE  slot'[u] \in DOMAIN log'[n] /\ now - log'[n][slot'[u]] <= Delay
        <3>1. CASE u = t
            <4>1. n = p
                BY <1>5, <1>6, <2>1, <3>1
            <4>2. now - now <= Delay
                BY <1>2
            <4> QED BY <1>4, <1>8, <3>1, <4>1, <4>2
        <3>2. CASE u # t
            <4>1. u \in Unsent(n) /\ u \in Tasks
                BY <1>5, <2>1, <3>2 DEF Unsent
            <4>2. slot[u] \in DOMAIN log[n] /\ now - log[n][slot[u]] <= Delay
                BY <4>1 DEF PaidFor, SlotsFit
            <4> QED BY <1>4, <1>7, <3>2, <4>1, <4>2
        <3> QED BY <3>1, <3>2
    <2>2. ASSUME NEW i \in DOMAIN asked[n]
          PROVE  /\ asked[n][i].slot \in DOMAIN log'[n]
                 /\ log'[n][asked[n][i].slot] <= asked[n][i].at
                 /\ asked[n][i].at <= log'[n][asked[n][i].slot] + Delay
                 /\ asked[n][i].at <= now
        <3>1. /\ asked[n][i].slot \in DOMAIN log[n]
              /\ log[n][asked[n][i].slot] <= asked[n][i].at
              /\ asked[n][i].at <= log[n][asked[n][i].slot] + Delay
              /\ asked[n][i].at <= now
            BY <2>2 DEF PaidFor, SlotsFit
        <3> QED BY <1>7, <3>1
    <2> QED BY <2>1, <2>2
<1>10. SlotsDiffer'
    <2> SUFFICES ASSUME NEW n \in Names
                 PROVE  /\ \A u, v \in Unsent(n)' : u # v => slot'[u] # slot'[v]
                        /\ \A u \in Unsent(n)', i \in DOMAIN asked[n] : slot'[u] # asked[n][i].slot
                        /\ \A i, j \in DOMAIN asked[n] : i # j => asked[n][i].slot # asked[n][j].slot
        BY <1>1 DEF SlotsDiffer
    <2>1. \A u \in Unsent(n)' : \/ u \in Unsent(n) /\ u # t /\ slot'[u] = slot[u]
                                \/ n = p /\ u = t /\ slot'[u] = new
        BY <1>4, <1>5, <1>6 DEF Unsent
    <2>2. new \notin DOMAIN log[p]
        BY <1>2, <1>7 DEF new
    <2>3. /\ \A u \in Unsent(n) : slot[u] \in DOMAIN log[n]
          /\ \A i \in DOMAIN asked[n] : asked[n][i].slot \in DOMAIN log[n]
        BY DEF PaidFor, SlotsFit
    <2>4. /\ \A u, v \in Unsent(n) : u # v => slot[u] # slot[v]
          /\ \A u \in Unsent(n), i \in DOMAIN asked[n] : slot[u] # asked[n][i].slot
          /\ \A i, j \in DOMAIN asked[n] : i # j => asked[n][i].slot # asked[n][j].slot
        BY DEF PaidFor, SlotsDiffer
    <2>5. \A u, v \in Unsent(n)' : u # v => slot'[u] # slot'[v]
        BY <2>1, <2>2, <2>3, <2>4
    <2>6. \A u \in Unsent(n)', i \in DOMAIN asked[n] : slot'[u] # asked[n][i].slot
        BY <2>1, <2>2, <2>3, <2>4
    <2> QED BY <2>4, <2>5, <2>6
<1>11. AskedInOrder'
    BY <1>1 DEF PaidFor, AskedInOrder
<1> QED BY <1>1, <1>4, <1>9, <1>10, <1>11 DEF PaidFor

LEMMA AppendKeepsType ==
    ASSUME NEW S, NEW s \in Seq(S), NEW e \in S
    PROVE  Append(s, e) \in Seq(S)
OBVIOUS

(* The request spends the slot its task took, and leaves after all the     *)
(* others. *)
LEMMA SendsPays ==
    ASSUME IInv, IInv', RInv, PaidFor, NEW t \in Tasks, Sends(t)
    PROVE  PaidFor'
<1> DEFINE p == resource[t]
           r == [task |-> t, at |-> now, slot |-> slot[t]]
           K == Len(asked[p])
<1>1. /\ stage[t] = "send" /\ stage' = [stage EXCEPT ![t] = "asking"]
      /\ asked' = [asked EXCEPT ![p] = Append(asked[p], r)]
      /\ UNCHANGED <<now, resource, log, slot>>
    BY DEF Sends, Go, vars
<1>2. /\ p \in Names /\ stage \in [Tasks -> Stages] /\ r \in Request /\ now \in Nat
      /\ asked \in [Names -> Seq(Request)]
    BY DEF RInv, ClientType, IInv, TypeOK, PaidFor, Request
<1>r. r.task = t /\ r.at = now /\ r.slot = slot[t]
    OBVIOUS
<1> HIDE DEF r
<1>3. asked' \in [Names -> Seq(Request)]
    <2> DEFINE Requests == Seq(Request)
               longer   == Append(asked[p], r)
    <2>1. longer \in Requests
        <3>1. asked[p] \in Requests
            BY <1>2
        <3> QED BY <3>1, <1>2, AppendKeepsType
    <2>2. asked' = [asked EXCEPT ![p] = longer] /\ asked \in [Names -> Requests] /\ p \in Names
        BY <1>1, <1>2
    <2> HIDE DEF p, longer, Requests
    <2>3. asked' \in [Names -> Requests]
        BY <2>1, <2>2
    <2> QED BY <2>3 DEF Requests
<1>4. \A n \in Names : n # p => asked'[n] = asked[n]
    BY <1>1, <1>2
<1>5. /\ K \in Nat /\ DOMAIN asked[p] = 1..K /\ DOMAIN asked'[p] = 1..(K + 1)
      /\ asked'[p][K + 1] = r
      /\ \A i \in 1..K : asked'[p][i] = asked[p][i]
    <2>1. asked'[p] = Append(asked[p], r)
        BY <1>1, <1>2
    <2>2. asked[p] \in Seq(Request)
        BY <1>2
    <2> QED BY <2>1, <2>2
<1>6. \A n \in Names : \A i \in DOMAIN asked'[n] :
          \/ i \in DOMAIN asked[n] /\ asked'[n][i] = asked[n][i]
          \/ n = p /\ i = K + 1 /\ i \notin DOMAIN asked[n] /\ asked'[n][i] = r
    BY <1>4, <1>5
<1>7. /\ t \in Unsent(p) /\ \A n \in Names : n # p => t \notin Unsent(n)
      /\ \A n \in Names : Unsent(n)' = Unsent(n) \ {t}
    BY <1>1, <1>2 DEF Unsent, Leaving
<1>8. /\ slot[t] \in DOMAIN log[p]
      /\ log[p][slot[t]] <= now /\ now <= log[p][slot[t]] + Delay
    <2>1. slot[t] \in DOMAIN log[p] /\ now - log[p][slot[t]] <= Delay
        BY <1>2, <1>7 DEF PaidFor, SlotsFit
    <2>2. log[p][slot[t]] \in Nat /\ log[p][slot[t]] <= now
        BY <1>2, <2>1, Bucket, Ledger
    <2> QED BY <1>2, <2>1, <2>2, CallConstants
<1> HIDE DEF K, p
<1>9. SlotsFit'
    <2> SUFFICES ASSUME NEW n \in Names
                 PROVE  /\ \A u \in Unsent(n)' :
                              slot[u] \in DOMAIN log[n] /\ now - log[n][slot[u]] <= Delay
                        /\ \A i \in DOMAIN asked'[n] :
                              /\ asked'[n][i].slot \in DOMAIN log[n]
                              /\ log[n][asked'[n][i].slot] <= asked'[n][i].at
                              /\ asked'[n][i].at <= log[n][asked'[n][i].slot] + Delay
                              /\ asked'[n][i].at <= now
        BY <1>1 DEF SlotsFit
    <2>1. \A u \in Unsent(n)' :
              slot[u] \in DOMAIN log[n] /\ now - log[n][slot[u]] <= Delay
        BY <1>7 DEF PaidFor, SlotsFit
    <2>2. ASSUME NEW i \in DOMAIN asked'[n]
          PROVE  /\ asked'[n][i].slot \in DOMAIN log[n]
                 /\ log[n][asked'[n][i].slot] <= asked'[n][i].at
                 /\ asked'[n][i].at <= log[n][asked'[n][i].slot] + Delay
                 /\ asked'[n][i].at <= now
        <3>1. CASE i \in DOMAIN asked[n] /\ asked'[n][i] = asked[n][i]
            BY <3>1 DEF PaidFor, SlotsFit
        <3>2. CASE n = p /\ asked'[n][i] = r
            <4>1. now <= now
                BY <1>2
            <4> QED BY <3>2, <4>1, <1>r, <1>8
        <3> QED BY <1>6, <2>2, <3>1, <3>2
    <2> QED BY <2>1, <2>2
<1>10. SlotsDiffer'
    <2> SUFFICES ASSUME NEW n \in Names
                 PROVE  /\ \A u, v \in Unsent(n)' : u # v => slot[u] # slot[v]
                        /\ \A u \in Unsent(n)', i \in DOMAIN asked'[n] : slot[u] # asked'[n][i].slot
                        /\ \A i, j \in DOMAIN asked'[n] : i # j => asked'[n][i].slot # asked'[n][j].slot
        BY <1>1 DEF SlotsDiffer
    <2>1. /\ \A u, v \in Unsent(n) : u # v => slot[u] # slot[v]
          /\ \A u \in Unsent(n), i \in DOMAIN asked[n] : slot[u] # asked[n][i].slot
          /\ \A i, j \in DOMAIN asked[n] : i # j => asked[n][i].slot # asked[n][j].slot
        BY DEF PaidFor, SlotsDiffer
    <2>2. \A u, v \in Unsent(n)' : u # v => slot[u] # slot[v]
        BY <1>7, <2>1
    <2>3. ASSUME NEW u \in Unsent(n)', NEW i \in DOMAIN asked'[n]
          PROVE  slot[u] # asked'[n][i].slot
        <3>1. u \in Unsent(n) /\ u # t
            BY <1>7, <2>3
        <3>2. CASE i \in DOMAIN asked[n] /\ asked'[n][i] = asked[n][i]
            BY <2>1, <3>1, <3>2
        <3>3. CASE n = p /\ asked'[n][i] = r
            BY <2>1, <3>1, <3>3, <1>7, <1>r
        <3> QED BY <1>6, <2>3, <3>2, <3>3
    <2>4. ASSUME NEW i \in DOMAIN asked'[n], NEW j \in DOMAIN asked'[n], i # j
          PROVE  asked'[n][i].slot # asked'[n][j].slot
        <3>1. CASE /\ i \in DOMAIN asked[n] /\ asked'[n][i] = asked[n][i]
                   /\ j \in DOMAIN asked[n] /\ asked'[n][j] = asked[n][j]
            BY <2>1, <2>4, <3>1
        <3>2. CASE /\ i \in DOMAIN asked[n] /\ asked'[n][i] = asked[n][i]
                   /\ n = p /\ asked'[n][j] = r
            BY <2>1, <3>2, <1>7, <1>r
        <3>3. CASE /\ j \in DOMAIN asked[n] /\ asked'[n][j] = asked[n][j]
                   /\ n = p /\ asked'[n][i] = r
            BY <2>1, <3>3, <1>7, <1>r
        <3> QED BY <1>6, <2>4, <3>1, <3>2, <3>3
    <2> QED BY <2>1, <2>2, <2>3, <2>4
<1>11. AskedInOrder'
    <2> SUFFICES ASSUME NEW n \in Names, NEW i \in DOMAIN asked'[n], NEW j \in DOMAIN asked'[n],
                        i <= j
                 PROVE  asked'[n][i].at <= asked'[n][j].at
        BY DEF AskedInOrder
    <2>1. CASE n # p
        BY <1>4, <2>1 DEF PaidFor, AskedInOrder
    <2>2. CASE n = p
        <3>1. \A k \in 1..K : asked[p][k].at <= now
            BY <1>2, <1>5, <2>2 DEF PaidFor, SlotsFit
        <3>2. CASE i \in 1..K /\ j \in 1..K
            BY <1>5, <2>2, <3>2 DEF PaidFor, AskedInOrder
        <3>3. CASE i \in 1..K /\ j = K + 1
            BY <1>5, <1>r, <2>2, <3>1, <3>3
        <3>4. CASE i = K + 1 /\ j = K + 1
            BY <1>2, <1>5, <1>r, <2>2, <3>4
        <3>5. i \in 1..(K + 1) /\ j \in 1..(K + 1)
            BY <1>5, <2>2
        <3> QED BY <1>5, <3>2, <3>3, <3>4, <3>5
    <2> QED BY <2>1, <2>2
<1>12. slot' \in [Tasks -> Nat]
    BY <1>1 DEF PaidFor
<1> QED BY <1>3, <1>9, <1>10, <1>11, <1>12 DEF PaidFor

LEMMA QuietPays ==
    ASSUME IInv, IInv', PaidFor, UNCHANGED <<asked, log, slot, now>>,
           \A n \in Names : Unsent(n)' = Unsent(n)
    PROVE  PaidFor'
<1>1. \A n \in Names : Len(log[n]) \in Nat
    BY Ledger
<1>2. now \in Nat /\ now <= now'
    BY DEF IInv, TypeOK
<1>3. \A n \in Names : \A t \in Unsent(n) : now' - log[n][slot[t]] <= Delay
    BY DEF PaidFor, SlotsFit
<1> QED BY <1>1, <1>2, <1>3, NothingAsked

LEMMA InitPays == CallInit => PaidFor
<1> SUFFICES ASSUME CallInit PROVE PaidFor
    OBVIOUS
<1>1. /\ asked = [n \in Names |-> <<>>] /\ slot \in [Tasks -> Nat]
      /\ \A n \in Names : Unsent(n) = {}
    BY DEF CallInit, Unsent, Leaving
<1>2. asked \in [Names -> Seq(Request)] /\ \A n \in Names : DOMAIN asked[n] = {}
    BY <1>1
<1> QED BY <1>1, <1>2 DEF PaidFor, SlotsFit, SlotsDiffer, AskedInOrder

(* One case per step: only Paced and Searches grant slots, only Sends      *)
(* asks, and time passes only while no request lags too far behind.        *)
LEMMA NextPays ==
    ASSUME IInv, IInv', RInv, PaidFor, [CallNext]_allVars
    PROVE  PaidFor'
<1>0. stage \in [Tasks -> Stages] /\ resource \in [Tasks -> Names] /\ now \in Nat
    BY DEF RInv, ClientType, IInv, TypeOK
<1>1. CASE UNCHANGED allVars
    <2>1. UNCHANGED <<asked, log, slot, now, stage, resource>>
        BY <1>1 DEF allVars, vars, callVars
    <2> QED BY <2>1, QuietPays DEF Unsent, Leaving
<1>2. CASE Passes
    <2>1. UNCHANGED <<asked, log, slot, stage, resource>> /\ now' = now + 1
        BY <1>2 DEF Passes, Tick, callVars
    <2>2. ASSUME NEW n \in Names, NEW t \in Unsent(n)
          PROVE  now' - log[n][slot[t]] <= Delay
        <3>1. t \in Tasks /\ resource[t] = n /\ Leaving(t)
            BY <2>2 DEF Unsent
        <3>2. now - log[n][slot[t]] < Delay
            BY <1>2, <3>1 DEF Passes
        <3>3. log[n][slot[t]] \in Nat
            BY <2>2, Ledger DEF PaidFor, SlotsFit
        <3> QED BY <1>0, <2>1, <3>2, <3>3, CallConstants
    <2>3. \A n \in Names : Unsent(n)' = Unsent(n) /\ Len(log[n]) \in Nat
        BY <2>1, Ledger DEF Unsent, Leaving
    <2>4. now' \in Nat /\ now <= now'
        BY <1>0, <2>1
    <2>5. \A n \in Names : /\ Len(log[n]) <= Len(log'[n])
                           /\ \A i \in 1..Len(log[n]) : log'[n][i] = log[n][i]
        BY <2>1, <2>3
    <2> QED BY <2>1, <2>2, <2>3, <2>4, <2>5, NothingAsked
<1>3. ASSUME NEW t \in Tasks,
             \/ \E n \in Names : Begins(t, n)
             \/ Paced(t) \/ Attempts(t) \/ Searches(t)
             \/ Pauses(t) \/ Resumes(t)
             \/ Counts(t) \/ Builds(t) \/ BuildFails(t) \/ Installs(t) \/ Sends(t)
             \/ \E x \in Exchanges : Answers(t, x)
             \/ Retries(t)
             \/ Drops(t)
      PROVE  PaidFor'
    <2>1. ASSUME NEW n \in Names, Begins(t, n) PROVE PaidFor'
        <3>1. /\ UNCHANGED <<asked, log, slot, now>> /\ stage[t] = "new"
              /\ resource' = [resource EXCEPT ![t] = n] /\ stage' = [stage EXCEPT ![t] = "paced"]
            BY <2>1 DEF Begins, Acquire, Go
        <3>2. \A m \in Names : Unsent(m)' = Unsent(m)
            BY <3>1, SameUnsent DEF Stages
        <3> QED BY <3>1, <3>2, QuietPays
    <2>2. CASE Attempts(t)
        <3>1. /\ UNCHANGED <<asked, log, slot, now>> /\ stage[t] = "attempt" /\ resource[t] \in Names
              /\ resource' = [resource EXCEPT ![t] = resource[t]]
              /\ stage' = [stage EXCEPT ![t] = "search"]
            BY <1>0, <2>2 DEF Attempts, Acquire, Go
        <3>2. \A m \in Names : Unsent(m)' = Unsent(m)
            BY <3>1, SameUnsent DEF Stages
        <3> QED BY <3>1, <3>2, QuietPays
    <2>3. CASE Pauses(t) \/ Resumes(t)
        <3>1. UNCHANGED <<asked, log, slot, now, stage, resource>>
            BY <2>3 DEF Pauses, Resumes, Sleep, WakeUp, callVars
        <3> QED BY <3>1, QuietPays DEF Unsent, Leaving
    <2>4. CASE Counts(t) \/ Builds(t) \/ BuildFails(t) \/ Installs(t)
        <3>1. /\ UNCHANGED <<asked, log, slot, now, resource>>
              /\ stage[t] \in {"count", "build", "install"}
              /\ \E s \in {"build", "install", "send"} : stage' = [stage EXCEPT ![t] = s]
            BY <2>4 DEF Counts, Builds, BuildFails, Installs, Go, vars
        <3>2. \A m \in Names : Unsent(m)' = Unsent(m)
            BY <3>1, SameUnsent DEF Stages
        <3> QED BY <3>1, <3>2, QuietPays
    <2>5. ASSUME \/ \E x \in Exchanges : Answers(t, x)
                 \/ Retries(t)
                 \/ Drops(t)
          PROVE  PaidFor'
        <3>1. /\ UNCHANGED <<asked, log, slot, now, resource>>
              /\ stage[t] \in {"paced", "search", "asking", "backoff"}
              /\ \E s \in {"done", "failed", "backoff", "attempt", "dropped"} :
                    stage' = [stage EXCEPT ![t] = s]
            BY <2>5 DEF Answers, Retries, Drops, Abort, Go, vars
        <3>2. \A m \in Names : Unsent(m)' = Unsent(m)
            BY <3>1, SameUnsent DEF Stages
        <3> QED BY <3>1, <3>2, QuietPays
    <2> QED BY <1>3, <2>1, <2>2, <2>3, <2>4, <2>5, PacedPays, SearchesPays, SendsPays
<1> QED BY <1>1, <1>2, <1>3 DEF CallNext

LEMMA LimiterInvariance == CallSpec => []IInv
<1> QED BY PipelineUsesLimiter, Invariance, PTL

(* The requests that really leave keep the rate as well: any rpm + 1 of    *)
(* them in a row span a window, whatever is retried, dropped or overtaken. *)
THEOREM RequestsAreSpaced == CallSpec => []RequestsKeepRate
<1>1. IInv /\ IInv' /\ RInv /\ PaidFor /\ [CallNext]_allVars => PaidFor'
    BY NextPays
<1>2. IInv /\ PaidFor => RequestsKeepRate
    BY SlotsSpanWindow
<1> QED BY <1>1, <1>2, InitPays, LimiterInvariance, ClientInvariance, PTL DEF CallSpec

-----------------------------------------------------------------------------
(* The hints.  Whatever a provider makes of an exchange, the time it is    *)
(* told to stay away is a number or none. *)
Hinted(o) == o.hint \in Nat \cup {NoHint}

LEMMA ExchangeHint ==
    ASSUME NEW x, NEW refused, NEW hint, NEW o,
           hint \in Nat \cup {NoHint}, Hinted(o)
    PROVE  Hinted(Exchange(x, refused, hint, o))
BY ZenonT(60) DEF Exchange, Outcome, Hinted, Fails, HttpError

LEMMA HintType ==
    ASSUME NEW n \in Names, NEW x \in Exchanges
    PROVE  OutcomeOf(n, x).hint \in Nat \cup {NoHint}
<1>1. n \in Providers /\ x.hint \in Nat \cup {NoHint}
    BY CallConstants
<1>2. \A items : Hinted(Found(items))
    BY DEF Found, Outcome, Hinted
<1>3. \A tag : Hinted(Fails(tag))
    BY DEF Fails, Outcome, Hinted
<1>4. \A status : Hinted(HttpError(status))
    BY DEF HttpError, Outcome, Hinted
<1>6. \A body : Hinted(duckduckgo_parse_results(body))
    BY <1>2 DEF duckduckgo_parse_results
<1>7. \A body : Hinted(brave_parse_results(body))
    BY <1>2, <1>3 DEF brave_parse_results
<1>8. \A body : Hinted(jina_parse_results(body))
    BY <1>2, <1>3, <1>4 DEF jina_parse_results
<1>9. \A body : Hinted(searxng_parse_results(body))
    BY <1>2, <1>3 DEF searxng_parse_results
<1>10. Hinted(duckduckgo_search(x))
    <2> DEFINE o == IF detect_captcha(x.body) THEN Fails("CaptchaDetected")
                    ELSE duckduckgo_parse_results(x.body)
    <2>1. NoHint \in Nat \cup {NoHint} /\ Hinted(o)
        BY <1>3, <1>6
    <2>2. duckduckgo_search(x) = Exchange(x, {403}, NoHint, o)
        BY DEF duckduckgo_search
    <2> HIDE DEF o
    <2> QED BY <2>1, <2>2, ExchangeHint
<1>11. Hinted(brave_search(x))
    <2>1. Hinted(brave_parse_results(x.body))
        BY <1>7
    <2> QED BY <2>1, <1>1, ExchangeHint DEF brave_search
<1>12. Hinted(jina_search(x))
    <2>1. Hinted(jina_parse_results(x.body))
        BY <1>8
    <2> QED BY <2>1, <1>1, ExchangeHint DEF jina_search
<1>13. Hinted(searxng_search(x))
    <2> DEFINE o == IF x.body.kind = "too large" THEN Fails("ParseError")
                    ELSE searxng_parse_results(x.body)
    <2>1. NoHint \in Nat \cup {NoHint} /\ Hinted(o)
        BY <1>3, <1>9
    <2>2. searxng_search(x) = Exchange(x, {403}, NoHint, o)
        BY DEF searxng_search
    <2> HIDE DEF o
    <2> QED BY <2>1, <2>2, ExchangeHint
<1> QED BY <1>1, <1>10, <1>11, <1>12, <1>13 DEF OutcomeOf, Providers, Hinted

(* Neither the jitter nor the cap shortens a wait that was asked for. *)
LEMMA DelayCoversHint ==
    ASSUME NEW n, NEW hint \in Nat \cup {NoHint}, NEW delay \in Delays(n, hint)
    PROVE  delay \in Int /\ delay >= 0 /\ delay >= hint
<1>1. PICK jitter \in 0..Computed(n) : delay = IF hint > jitter THEN hint ELSE jitter
    BY DEF Delays
<1>2. jitter \in Int /\ jitter >= 0
    OBVIOUS
<1> QED BY <1>1, <1>2 DEF NoHint

LEMMA InitHints == CallInit => HintInv
<1> SUFFICES ASSUME CallInit PROVE HintInv
    OBVIOUS
<1>1. MaxAttempts \in Nat \ {0}
    BY CallConstants
<1>2. Waits
    BY <1>1 DEF CallInit, Init, Waits
<1>3. HintHonoured
    BY DEF CallInit, HintHonoured
<1> QED BY <1>2, <1>3 DEF HintInv

(* A step of one task, after which that one is not waiting for an answer,  *)
(* disturbs no hint that another one was given. *)
LEMMA HonourStays ==
    ASSUME HintHonoured, NEW t \in Tasks, UNCHANGED asked, stage'[t] # "asking",
           \A u \in Tasks : u # t => /\ stage'[u] = stage[u] /\ told'[u] = told[u]
                                    /\ resource'[u] = resource[u]
    PROVE  HintHonoured'
BY DEF HintHonoured

LEMMA SendHonours ==
    ASSUME IInv, RInv, PaidFor, Waits, HintHonoured, NEW t \in Tasks, Sends(t)
    PROVE  HintHonoured'
<1> DEFINE p == resource[t]
           r == [task |-> t, at |-> now, slot |-> slot[t]]
<1>1. /\ stage[t] = "send" /\ stage' = [stage EXCEPT ![t] = "asking"]
      /\ asked' = [asked EXCEPT ![p] = Append(asked[p], r)]
      /\ UNCHANGED <<now, resource, told>>
    BY DEF Sends, Go, vars
<1>2. /\ p \in Names /\ stage \in [Tasks -> Stages] /\ now \in Nat
      /\ asked \in [Names -> Seq(Request)]
      /\ resource \in [Tasks -> Names]
    BY DEF RInv, ClientType, IInv, TypeOK, PaidFor
<1>3. asked[p] \in Seq(Request) /\ Len(asked[p]) \in Nat
    BY <1>2, Ledger
<1>4. told[t] <= now
    BY <1>1 DEF Waits
<1> HIDE DEF r
<1>5. asked'[p] = Append(asked[p], r)
    BY <1>1, <1>2
<1>6. /\ DOMAIN asked'[p] = 1..(Len(asked[p]) + 1) /\ DOMAIN asked[p] = 1..Len(asked[p])
      /\ asked'[p][Len(asked[p]) + 1] = r
      /\ \A i \in 1..Len(asked[p]) : asked'[p][i] = asked[p][i]
    BY <1>3, <1>5
<1>7. r.task = t /\ r.at = now
    BY DEF r
<1> SUFFICES ASSUME NEW u \in Tasks, stage'[u] = "asking",
                    NEW i \in DOMAIN asked'[resource[u]],
                    asked'[resource[u]][i].task = u,
                    \A j \in DOMAIN asked'[resource[u]] : asked'[resource[u]][j].task = u => j <= i
             PROVE  asked'[resource[u]][i].at >= told[u]
    BY <1>1 DEF HintHonoured
<1>8. CASE u = t
    <2>1. Len(asked[p]) + 1 \in DOMAIN asked'[p]
        BY <1>3, <1>6
    <2>2. Len(asked[p]) + 1 <= i
        BY <1>6, <1>7, <1>8, <2>1
    <2>3. i = Len(asked[p]) + 1
        BY <1>3, <1>6, <1>8, <2>2
    <2> QED BY <2>3, <1>4, <1>6, <1>7, <1>8, <1>2 DEF Waits
<1>9. CASE u # t
    <2>1. stage[u] = "asking"
        BY <1>1, <1>2, <1>9
    <2>2. CASE resource[u] # p
        <3>1. asked'[resource[u]] = asked[resource[u]]
            BY <1>1, <1>2, <2>2
        <3> QED BY <2>1, <3>1 DEF HintHonoured
    <2>3. CASE resource[u] = p
        <3>1. i # Len(asked[p]) + 1
            BY <1>6, <1>7, <1>9, <2>3
        <3>2. i \in 1..Len(asked[p])
            BY <1>3, <1>6, <2>3, <3>1
        <3>3. \A j \in DOMAIN asked[p] : asked[p][j].task = u => j <= i
            BY <1>3, <1>6, <2>3, SMTT(60)
        <3>4. asked[p][i].at >= told[u]
            BY <1>6, <2>1, <2>3, <3>2, <3>3 DEF HintHonoured
        <3> QED BY <1>6, <2>3, <3>2, <3>4
    <2> QED BY <2>2, <2>3
<1> QED BY <1>8, <1>9

(* The exchange is over: a task that will ask again sleeps at least as     *)
(* long as it was told to. *)
LEMMA AnswersWait ==
    ASSUME IInv, RInv, HintInv, NEW t \in Tasks, NEW x \in Exchanges, Answers(t, x)
    PROVE  HintInv'
<1> DEFINE o == OutcomeOf(resource[t], x)
<1>0. /\ stage \in [Tasks -> Stages] /\ now \in Nat /\ resource[t] \in Names
      /\ Waits /\ HintHonoured /\ MaxAttempts \in Nat \ {0}
    BY CallConstants DEF RInv, ClientType, IInv, TypeOK, HintInv
<1>1. o.hint \in Nat \cup {NoHint}
    BY <1>0, HintType
<1> HIDE DEF o
<1>2. UNCHANGED <<now, resource, asked>>
    BY DEF Answers, vars
<1>3. CASE \E s \in {"done", "failed"} :
              stage' = [stage EXCEPT ![t] = s] /\ UNCHANGED <<attempt, ready, told>>
    <2>1. Waits'
        BY <1>0, <1>2, <1>3 DEF Waits
    <2>2. HintHonoured'
        BY <1>0, <1>2, <1>3, HonourStays
    <2> QED BY <2>1, <2>2 DEF HintInv
<1>4. ASSUME NEW delay \in Delays(attempt[t], o.hint), ~GivesUp(t, o),
             ready' = [ready EXCEPT ![t] = now + delay],
             attempt' = [attempt EXCEPT ![t] = @ + 1],
             told' = [told EXCEPT ![t] = IF o.hint = NoHint THEN now ELSE now + o.hint],
             stage' = [stage EXCEPT ![t] = "backoff"]
      PROVE  HintInv'
    <2>1. delay \in Int /\ delay >= 0 /\ delay >= o.hint
        BY <1>1, DelayCoversHint
    <2> DEFINE until == IF o.hint = NoHint THEN now ELSE now + o.hint
    <2>2. until \in Nat /\ until <= now + delay /\ now + delay \in Nat
        BY <1>0, <1>1, <2>1
    <2>3. attempt[t] + 1 \in 0..MaxAttempts - 1
        BY <1>0, <1>4 DEF GivesUp, Waits
    <2> HIDE DEF until
    <2>4. told' = [told EXCEPT ![t] = until]
        BY <1>4 DEF until
    <2>5. Waits'
        BY <1>0, <1>2, <1>4, <2>2, <2>3, <2>4 DEF Waits
    <2>6. HintHonoured'
        <3>1. stage'[t] # "asking"
            BY <1>0, <1>4
        <3>2. \A u \in Tasks : u # t => stage'[u] = stage[u] /\ told'[u] = told[u]
            BY <1>0, <1>4 DEF Waits
        <3> QED BY <1>0, <1>2, <3>1, <3>2, HonourStays
    <2> QED BY <2>5, <2>6 DEF HintInv
<1> QED BY <1>3, <1>4 DEF Answers, Go, o

(* A step of a task that is given no hint and whose request does not leave *)
(* at it: it may go where it was told to go at a time that has come.       *)
LEMMA MovesWait ==
    ASSUME IInv, RInv, HintInv, NEW t \in Tasks,
           NEW s \in {"paced", "attempt", "search", "count", "build", "install", "send", "dropped"},
           stage' = [stage EXCEPT ![t] = s],
           stage[t] \in {"new"} => s = "paced",
           s = "paced" => stage[t] = "new",
           stage[t] \in {"asking"} => s = "dropped",
           stage[t] = "backoff" => s = "dropped" \/ now >= ready[t],
           stage[t] \notin {"done", "failed", "dropped"},
           ready' = ready \/ ready' = [ready EXCEPT ![t] = 0],
           \A u \in Tasks : u # t => resource'[u] = resource[u],
           UNCHANGED <<now, asked, told, attempt>>
    PROVE  HintInv'
<1>0. /\ stage \in [Tasks -> Stages] /\ now \in Nat /\ Waits /\ HintHonoured
      /\ told[t] \in Nat /\ ready[t] \in Nat
    BY DEF RInv, ClientType, IInv, TypeOK, HintInv, Waits
<1>1. ready' \in [Tasks -> Nat] /\ \A u \in Tasks : u # t => ready'[u] = ready[u]
    BY <1>0 DEF Waits
<1>2. \A u \in Tasks : u # t => stage'[u] = stage[u]
    BY <1>0
<1>3. stage'[t] = s
    BY <1>0
<1>4. s = "paced" => told[t] = 0
    BY <1>0 DEF Waits
<1>5. s \in {"attempt", "search", "count", "build", "install", "send"} => told[t] <= now
    <2>1. CASE stage[t] = "backoff"
        BY <2>1, <1>0 DEF Waits
    <2>2. CASE stage[t] \in {"new", "paced"}
        BY <2>2, <1>0 DEF Waits
    <2>3. CASE stage[t] \in {"attempt", "search", "count", "build", "install", "send"}
        BY <2>3, <1>0 DEF Waits
    <2> QED BY <1>0, <2>1, <2>2, <2>3 DEF Stages
<1>6. Waits'
    BY <1>0, <1>1, <1>2, <1>3, <1>4, <1>5 DEF Waits
<1>7. HintHonoured'
    BY <1>0, <1>2, <1>3, HonourStays
<1> QED BY <1>6, <1>7 DEF HintInv

LEMMA NextHints ==
    ASSUME IInv, RInv, PaidFor, HintInv, [CallNext]_allVars
    PROVE  HintInv'
<1>0. /\ stage \in [Tasks -> Stages] /\ resource \in [Tasks -> Names] /\ now \in Nat
      /\ Waits /\ HintHonoured
    BY DEF RInv, ClientType, HintInv, IInv, TypeOK
<1>1. CASE UNCHANGED allVars
    <2>1. UNCHANGED <<asked, now, stage, resource, told, ready, attempt>>
        BY <1>1 DEF allVars, vars, callVars
    <2> QED BY <2>1, <1>0 DEF HintInv, Waits, HintHonoured
(* Time only goes forward. *)
<1>2. CASE Passes
    <2>1. UNCHANGED <<asked, stage, resource, told, ready, attempt>> /\ now' = now + 1
        BY <1>2 DEF Passes, Tick, callVars
    <2>2. Waits'
        BY <2>1, <1>0 DEF Waits
    <2>3. HintHonoured'
        BY <2>1, <1>0 DEF HintHonoured
    <2> QED BY <2>2, <2>3 DEF HintInv
<1>3. ASSUME NEW t \in Tasks,
             \/ \E n \in Names : Begins(t, n)
             \/ Paced(t) \/ Attempts(t) \/ Searches(t)
             \/ Pauses(t) \/ Resumes(t)
             \/ Counts(t) \/ Builds(t) \/ BuildFails(t) \/ Installs(t) \/ Sends(t)
             \/ \E x \in Exchanges : Answers(t, x)
             \/ Retries(t)
             \/ Drops(t)
      PROVE  HintInv'
    <2>1. ASSUME \/ \E n \in Names : Begins(t, n)
                 \/ Paced(t) \/ Attempts(t) \/ Searches(t)
          PROVE  HintInv'
        <3>1. /\ UNCHANGED <<asked, now, told, ready, attempt>>
              /\ stage[t] \in {"new", "paced", "attempt", "search"}
              /\ \E s \in {"paced", "attempt", "search", "count"} :
                    /\ stage' = [stage EXCEPT ![t] = s]
                    /\ s = "paced" <=> stage[t] = "new"
            BY <2>1 DEF Begins, Paced, Attempts, Searches, Acquire, TakeSlot, Go
        <3>2. \A u \in Tasks : u # t => resource'[u] = resource[u]
            BY <1>0, <2>1 DEF Begins, Paced, Attempts, Searches, Acquire, TakeSlot
        <3> QED BY <3>1, <3>2, MovesWait
    <2>2. CASE Pauses(t) \/ Resumes(t)
        <3>1. UNCHANGED <<asked, now, stage, resource, told, ready, attempt>>
            BY <2>2 DEF Pauses, Resumes, Sleep, WakeUp, callVars
        <3> QED BY <3>1, <1>0 DEF HintInv, Waits, HintHonoured
    <2>3. CASE Counts(t) \/ Builds(t) \/ BuildFails(t) \/ Installs(t)
        <3>1. /\ UNCHANGED <<asked, now, resource, told, ready, attempt>>
              /\ stage[t] \in {"count", "build", "install"}
              /\ \E s \in {"build", "install", "send"} : stage' = [stage EXCEPT ![t] = s]
            BY <2>3 DEF Counts, Builds, BuildFails, Installs, Go, vars
        <3> QED BY <3>1, MovesWait
    <2>4. CASE Sends(t)
        <3>1. /\ UNCHANGED <<now, told, ready, attempt>>
              /\ stage[t] = "send" /\ stage' = [stage EXCEPT ![t] = "asking"]
            BY <2>4 DEF Sends, Go, vars
        <3>2. Waits'
            BY <3>1, <1>0 DEF Waits
        <3>3. HintHonoured'
            BY <2>4, <1>0, SendHonours
        <3> QED BY <3>2, <3>3 DEF HintInv
    <2>5. CASE Retries(t)
        <3>1. /\ UNCHANGED <<asked, now, resource, told, attempt>>
              /\ stage[t] = "backoff" /\ now >= ready[t]
              /\ ready' = [ready EXCEPT ![t] = 0] /\ stage' = [stage EXCEPT ![t] = "attempt"]
            BY <2>5 DEF Retries, Go, vars
        <3> QED BY <3>1, MovesWait
    <2>6. CASE Drops(t)
        <3>1. /\ UNCHANGED <<asked, now, resource, told, attempt>>
              /\ stage[t] \in {"paced", "search", "asking", "backoff"}
              /\ ready' = [ready EXCEPT ![t] = 0] /\ stage' = [stage EXCEPT ![t] = "dropped"]
            BY <2>6 DEF Drops, Abort, Go, vars
        <3> QED BY <3>1, MovesWait
    <2> QED BY <1>3, <2>1, <2>2, <2>3, <2>4, <2>5, <2>6, AnswersWait
<1> QED BY <1>1, <1>2, <1>3 DEF CallNext

(* No task asks a provider before the time the provider told it to wait    *)
(* for, whatever the jitter, the slots of the limiter and the other tasks. *)
THEOREM HintsHonoured == CallSpec => []HintHonoured
<1>1. IInv /\ IInv' /\ RInv /\ PaidFor /\ [CallNext]_allVars => PaidFor'
    BY NextPays
<1>2. IInv /\ RInv /\ PaidFor /\ HintInv /\ [CallNext]_allVars => HintInv'
    BY NextHints
<1>3. HintInv => HintHonoured
    BY DEF HintInv
<1> QED BY <1>1, <1>2, <1>3, InitPays, InitHints, LimiterInvariance, ClientInvariance, PTL
        DEF CallSpec
=============================================================================
