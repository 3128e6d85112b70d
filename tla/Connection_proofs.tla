-------------------------- MODULE Connection_proofs --------------------------
(***************************************************************************)
(* One connection of the daemon, for every set of lines and pages, every   *)
(* limit and size of the buffer, and however the bytes arrive.  A fetch    *)
(* gives whole pages only, from FetchInv.  The connection implements the   *)
(* protocol of RequestReply, from ConnInv: the bytes that are left are at  *)
(* every moment the rest of one line of the client and the lines after it, *)
(* so that a newline found in a piece ends the line that is due.           *)
(***************************************************************************)
EXTENDS Connection, SequenceTheorems, TLAPS

-----------------------------------------------------------------------------
(* Pages. *)

(* What is given to the client is whole, and nothing of it is late. *)
FetchInv ==
    /\ fetch \in {"none", "sending", "reading", "done"}
    /\ hops \in Nat /\ timeout \in Nat /\ elapsed \in Nat /\ body \in Nat
    /\ fetch = "none" => body = 0 /\ elapsed = 0
    /\ fetch # "done" => result = NoResult
    /\ fetch = "sending" => body = 0
    /\ fetch # "done" => body <= MaxBody /\ elapsed <= timeout
    /\ GivenPagesAreWhole

LEMMA FetchStep ==
    ASSUME FetchInv, FetchNext
    PROVE  FetchInv'
<1> USE FetchConstants DEF FetchInv, GivenPagesAreWhole, NoResult
<1>1. ASSUME NEW u \in Urls, Redirected(u) PROVE FetchInv'
    BY <1>1 DEF Redirected, Follow
<1>2. ASSUME NEW p \in Pages, Responds(p) PROVE FetchInv'
    BY <1>2 DEF Responds
<1>3. CASE SendFails
    BY <1>3 DEF SendFails, Finish, FetchResult
<1>4. ASSUME NEW n \in 1..(MaxBody + 1), ReadsBody(n) PROVE FetchInv'
    BY <1>4 DEF ReadsBody, AppendChunk, Finish, FetchResult
<1>5. CASE ReadFails
    BY <1>5 DEF ReadFails, Finish, FetchResult
<1>6. CASE Completes
    BY <1>6 DEF Completes, Finish, FetchResult
<1>7. CASE FetchTimesOut
    BY <1>7 DEF FetchTimesOut, Finish, FetchResult
<1>8. CASE FetchTick
    BY <1>8 DEF FetchTick
<1> QED BY <1>1, <1>2, <1>3, <1>4, <1>5, <1>6, <1>7, <1>8 DEF FetchNext

LEMMA FetchPart ==
    ASSUME FetchInv, [Next]_vars
    PROVE  FetchInv'
<1> USE FetchConstants DEF FetchInv, GivenPagesAreWhole, NoResult
<1>1. CASE UNCHANGED fetchVars
    BY <1>1 DEF fetchVars
<1>2. CASE UNCHANGED vars
    BY <1>1, <1>2 DEF vars
<1>3. ASSUME NEW l \in Lines, Writes(l) \/ Leaves(l) PROVE FetchInv'
    BY <1>1, <1>3 DEF Writes, Leaves
<1>4. CASE Reads
    BY <1>1, <1>4 DEF Reads, Fill, AppendsChunk, TakesLine, RefusesLine, Disconnects
<1>5. CASE Handles \/ WritesResponse \/ WriteFails
    BY <1>1, <1>5 DEF Handles, WritesResponse, WriteFails
<1>6. CASE BeginsFetch
    <2>1. PICK u \in Urls, secs \in Timeouts : BeginFetch(u, secs)
        BY <1>6 DEF BeginsFetch
    <2>2. /\ secs \in Nat /\ timeout' = secs /\ fetch = "none"
          /\ elapsed' = 0 /\ body' = 0
        BY <2>1 DEF BeginFetch
    <2>3. CASE Finish("error", 0) /\ UNCHANGED hops
        BY <2>2, <2>3 DEF Finish, FetchResult
    <2>4. CASE fetch' = "sending" /\ hops' = 1 /\ UNCHANGED result
        BY <2>2, <2>4
    <2> QED BY <2>1, <2>3, <2>4 DEF BeginFetch
<1>7. CASE Fetches
    BY <1>7, FetchStep DEF Fetches
<1>8. CASE EndsFetch
    BY <1>8 DEF EndsFetch
<1> QED BY <1>2, <1>3, <1>4, <1>5, <1>6, <1>7, <1>8 DEF Next, Replies

LEMMA FetchBegins == Init => FetchInv
BY FetchConstants DEF Init, FetchInit, FetchInv, GivenPagesAreWhole,
   NoResult

(* The strengthening of the one that follows. *)
THEOREM FetchInvariance == Spec => []FetchInv
BY FetchBegins, FetchPart, PTL DEF Spec

(* A page that was cut short, or ran into the time limit, is an error.     *)
THEOREM PagesWhole == Spec => []GivenPagesAreWhole
<1>1. FetchInv => GivenPagesAreWhole
    BY DEF FetchInv
<1> QED BY <1>1, FetchInvariance, PTL

-----------------------------------------------------------------------------
(* Bytes and lines. *)

LEMMA ShiftArith ==
    ASSUME NEW a \in Int, NEW b \in Int, NEW d \in Int, a <= b
    PROVE  a - d <= b - d
OBVIOUS

(* The bytes from the one after d on, when d lies in line m or at the      *)
(* newline before it.                                                      *)
LEMMA Shift ==
    ASSUME NEW lines \in Seq(Lines), NEW bytes \in Seq(Bytes),
           NEW n \in 0..Len(lines), NEW k \in Nat, NEW end,
           Framed(end, n, k, bytes, lines),
           NEW m \in n..Len(lines), NEW d \in 0..Len(bytes),
           end[m] <= d, m < Len(lines) => d < end[m + 1]
    PROVE  /\ d - end[m] \in Nat
           /\ \E rest \in [m..Len(lines) -> Int] :
                  Framed(rest, m, d - end[m], SubSeq(bytes, d + 1, Len(bytes)), lines)
<1> DEFINE N == Len(lines)
           B == Len(bytes)
           after == SubSeq(bytes, d + 1, B)
           rest == [j \in m..N |-> end[j] - d]
<1>1. /\ N \in Nat /\ B \in Nat /\ m \in Nat /\ n \in Nat /\ d \in Nat
      /\ n <= m /\ m <= N /\ d <= B
    OBVIOUS
<1>2. /\ end \in [n..N -> Int] /\ end[N] = B
      /\ \A i, j \in n..N : i <= j => end[i] <= end[j]
      /\ \A j \in (n + 1)..N :
          /\ end[j] = end[j - 1] + Len(lines[j]) + 1
          /\ end[j] >= 1 /\ bytes[end[j]] = Newline
          /\ \A i \in 1..Len(lines[j]) :
                end[j - 1] + i >= 1 => bytes[end[j - 1] + i] = lines[j][i]
    BY DEF Framed
<1>3. Len(after) = B - d /\ \A i \in 1..(B - d) : after[i] = bytes[d + i]
    BY <1>1, SMTT(60)
<1>4. \A j \in 1..N : Len(lines[j]) \in Nat
    BY ConnectionConstants, <1>1
<1> HIDE DEF N, B, after
<1>5. rest \in [m..N -> Int] /\ \A j \in m..N : rest[j] = end[j] - d
    BY <1>1, <1>2
<1> HIDE DEF rest
<1>6. end[m] \in Int /\ d - end[m] \in Nat /\ rest[m] = 0 - (d - end[m])
    BY <1>1, <1>2, <1>5, SMTT(60)
<1>7. rest[N] = B - d
    BY <1>1, <1>2, <1>5
<1>8. \A i, j \in m..N : i <= j => rest[i] <= rest[j]
    <2> SUFFICES ASSUME NEW i \in m..N, NEW j \in m..N, i <= j
                 PROVE  rest[i] <= rest[j]
        OBVIOUS
    <2>1. i \in n..N /\ j \in n..N
        BY <1>1
    <2>2. end[i] \in Int /\ end[j] \in Int /\ end[i] <= end[j]
        BY <1>2, <2>1
    <2>3. rest[i] = end[i] - d /\ rest[j] = end[j] - d
        BY <1>5
    <2> QED BY <1>1, <2>2, <2>3, ShiftArith
<1>9. ASSUME NEW j \in (m + 1)..N
      PROVE  /\ rest[j] = rest[j - 1] + Len(lines[j]) + 1
             /\ rest[j] >= 1 /\ after[rest[j]] = Newline
             /\ \A i \in 1..Len(lines[j]) :
                   rest[j - 1] + i >= 1 => after[rest[j - 1] + i] = lines[j][i]
    <2>1. /\ j \in (n + 1)..N /\ j \in m..N /\ j - 1 \in m..N /\ m + 1 \in n..N
          /\ m < N /\ j \in n..N /\ j - 1 \in n..N /\ N \in n..N
        BY <1>1
    <2>2. /\ end[j] = end[j - 1] + Len(lines[j]) + 1
          /\ end[j] >= 1 /\ bytes[end[j]] = Newline
          /\ \A i \in 1..Len(lines[j]) :
                end[j - 1] + i >= 1 => bytes[end[j - 1] + i] = lines[j][i]
        BY <1>2, <2>1
    <2>3. rest[j] = end[j] - d /\ rest[j - 1] = end[j - 1] - d
        BY <1>5, <2>1
    <2>4. /\ end[j] \in Int /\ end[j - 1] \in Int /\ end[m + 1] \in Int
          /\ Len(lines[j]) \in Nat
        BY <1>1, <1>2, <1>4, <2>1
    <2>5. end[m + 1] <= end[j] /\ end[j] <= B /\ d < end[m + 1]
        BY <1>1, <1>2, <2>1 DEF N
    <2> DEFINE a == end[j - 1]
               b == end[j]
               x == rest[j - 1]
               y == rest[j]
               s == Len(lines[j])
               f == end[m + 1]
    <2>6. /\ a \in Int /\ b \in Int /\ s \in Nat /\ f \in Int /\ f <= b /\ b <= B /\ d < f
          /\ y = b - d /\ x = a - d /\ b = a + s + 1
        BY <2>2, <2>3, <2>4, <2>5
    <2> HIDE DEF a, b, x, y, s, f
    <2>7. y = x + s + 1 /\ y >= 1 /\ y <= B - d /\ y \in Int
        BY <1>1, <2>6
    <2>8. rest[j] = rest[j - 1] + Len(lines[j]) + 1 /\ rest[j] >= 1 /\ rest[j] <= B - d
        BY <2>7 DEF x, y, s
    <2>9. after[rest[j]] = Newline
        <3>1. y \in 1..(B - d) /\ d + y = b
            BY <1>1, <2>6, <2>7
        <3> QED BY <1>3, <2>2, <3>1 DEF y, b
    <2>10. ASSUME NEW i \in 1..Len(lines[j]), rest[j - 1] + i >= 1
          PROVE  after[rest[j - 1] + i] = lines[j][i]
        <3>1. i \in 1..s /\ x + i >= 1
            BY <2>10 DEF x, s
        <3>2. x + i \in 1..(B - d) /\ d + (x + i) = a + i /\ a + i >= 1
            BY <1>1, <2>6, <2>7, <3>1
        <3> QED BY <1>3, <2>2, <3>2 DEF x, a
    <2> QED BY <2>8, <2>9, <2>10
<1>10. Framed(rest, m, d - end[m], after, lines)
    BY <1>3, <1>5, <1>6, <1>7, <1>8, <1>9 DEF Framed, N
<1> QED BY <1>5, <1>6, <1>10 DEF N, B, after

(* One line more: its bytes come after all the others. *)
LEMMA Extend ==
    ASSUME NEW lines \in Seq(Lines), NEW bytes \in Seq(Bytes), NEW l \in Lines,
           NEW n \in 0..Len(lines), NEW k \in Nat, NEW end,
           Framed(end, n, k, bytes, lines)
    PROVE  \E more \in [n..(Len(lines) + 1) -> Int] :
               Framed(more, n, k, bytes \o l \o <<Newline>>, Append(lines, l))
<1> DEFINE N == Len(lines)
           B == Len(bytes)
           M == Len(l)
           all == bytes \o l \o <<Newline>>
           lots == Append(lines, l)
           more == [j \in n..(N + 1) |-> IF j <= N THEN end[j] ELSE B + M + 1]
<1>1. N \in Nat /\ B \in Nat /\ M \in Nat /\ n \in Nat /\ n <= N
    BY ConnectionConstants
<1>2. /\ end \in [n..N -> Int] /\ end[n] = 0 - k /\ end[N] = B
      /\ \A i, j \in n..N : i <= j => end[i] <= end[j]
      /\ \A j \in (n + 1)..N :
          /\ end[j] = end[j - 1] + Len(lines[j]) + 1
          /\ end[j] >= 1 /\ bytes[end[j]] = Newline
          /\ \A i \in 1..Len(lines[j]) :
                end[j - 1] + i >= 1 => bytes[end[j - 1] + i] = lines[j][i]
    BY DEF Framed
<1>3. /\ Len(all) = B + M + 1
      /\ \A i \in 1..B : all[i] = bytes[i]
      /\ \A i \in 1..M : all[B + i] = l[i]
      /\ all[B + M + 1] = Newline
    <2>1. /\ l \in Seq(Bytes) /\ <<Newline>> \in Seq(Bytes)
          /\ Len(<<Newline>>) = 1 /\ <<Newline>>[1] = Newline
        BY ConnectionConstants DEF Bytes, Newline
    <2>2. /\ bytes \o l \in Seq(Bytes) /\ Len(bytes \o l) = B + M
          /\ \A i \in 1..B + M : (bytes \o l)[i] = IF i <= B THEN bytes[i] ELSE l[i - B]
        BY <2>1, ConcatProperties
    <2>3. /\ Len(all) = B + M + 1
          /\ \A i \in 1..B + M + 1 :
                all[i] = IF i <= B + M THEN (bytes \o l)[i] ELSE <<Newline>>[i - (B + M)]
        BY <1>1, <2>1, <2>2, ConcatProperties
    <2> HIDE DEF B, M, all
    <2>4. \A i \in 1..B : all[i] = bytes[i]
        <3> TAKE i \in 1..B
        <3>1. i \in 1..B + M /\ i \in 1..B + M + 1 /\ i <= B /\ i <= B + M
            BY <1>1
        <3> QED BY <2>2, <2>3, <3>1
    <2>5. \A i \in 1..M : all[B + i] = l[i]
        <3> TAKE i \in 1..M
        <3>1. /\ B + i \in 1..B + M /\ B + i \in 1..B + M + 1
              /\ ~(B + i <= B) /\ (B + i) - B = i /\ B + i <= B + M
            BY <1>1
        <3> QED BY <2>2, <2>3, <3>1
    <2>6. all[B + M + 1] = Newline
        <3>1. /\ B + M + 1 \in 1..B + M + 1 /\ ~(B + M + 1 <= B + M)
              /\ (B + M + 1) - (B + M) = 1
            BY <1>1
        <3> QED BY <2>1, <2>3, <3>1
    <2> QED BY <2>3, <2>4, <2>5, <2>6
<1>4. /\ Len(lots) = N + 1 /\ lots[N + 1] = l
      /\ \A j \in 1..N : lots[j] = lines[j]
    BY <1>1
<1>5. \A j \in 1..N : Len(lines[j]) \in Nat
    BY ConnectionConstants, <1>1
<1> HIDE DEF N, B, M, all, lots
<1>6. /\ more \in [n..(N + 1) -> Int] /\ more[N + 1] = B + M + 1
      /\ \A j \in n..N : more[j] = end[j]
    BY <1>1, <1>2
<1> HIDE DEF more
<1>7. \A i, j \in n..(N + 1) : i <= j => more[i] <= more[j]
    <2> SUFFICES ASSUME NEW i \in n..(N + 1), NEW j \in n..(N + 1), i <= j
                 PROVE  more[i] <= more[j]
        OBVIOUS
    <2>1. CASE j \in n..N
        <3>1. i \in n..N
            BY <1>1, <2>1
        <3> QED BY <1>2, <1>6, <2>1, <3>1
    <2>2. CASE j = N + 1 /\ i \in n..N
        <3>1. more[i] = end[i] /\ end[i] <= end[N] /\ end[i] \in Int
            BY <1>1, <1>2, <1>6, <2>2
        <3> QED BY <1>1, <1>2, <1>6, <2>2, <3>1
    <2>3. CASE j = N + 1 /\ i = N + 1
        BY <1>1, <1>6, <2>3
    <2> QED BY <1>1, <2>1, <2>2, <2>3
<1>8. ASSUME NEW j \in (n + 1)..(N + 1)
      PROVE  /\ more[j] = more[j - 1] + Len(lots[j]) + 1
             /\ more[j] >= 1 /\ all[more[j]] = Newline
             /\ \A i \in 1..Len(lots[j]) :
                   more[j - 1] + i >= 1 => all[more[j - 1] + i] = lots[j][i]
    <2>1. CASE j \in (n + 1)..N
        <3>1. j \in n..N /\ j - 1 \in n..N /\ j \in 1..N /\ N \in n..N
            BY <1>1, <2>1
        <3>2. /\ more[j] = end[j] /\ more[j - 1] = end[j - 1]
              /\ lots[j] = lines[j] /\ end[j] <= end[N]
              /\ end[j] \in Int /\ end[j - 1] \in Int /\ Len(lines[j]) \in Nat
            BY <1>1, <1>2, <1>4, <1>5, <1>6, <3>1
        <3>3. /\ end[j] = end[j - 1] + Len(lines[j]) + 1
              /\ end[j] >= 1 /\ bytes[end[j]] = Newline
              /\ \A i \in 1..Len(lines[j]) :
                end[j - 1] + i >= 1 => bytes[end[j - 1] + i] = lines[j][i]
            BY <1>2, <2>1
        <3>4. end[j] \in 1..B
            BY <1>1, <1>2, <3>2, <3>3
        <3>5. \A i \in 1..Len(lines[j]) : end[j - 1] + i >= 1 => end[j - 1] + i \in 1..B
            <4> DEFINE a == end[j - 1]
                       b == end[j]
                       s == Len(lines[j])
            <4>1. a \in Int /\ b \in Int /\ s \in Nat /\ b = a + s + 1 /\ b <= B
                BY <1>1, <3>2, <3>3, <3>4
            <4> HIDE DEF a, b, s
            <4>2. \A i \in 1..s : a + i >= 1 => a + i \in 1..B
                BY <1>1, <4>1
            <4> QED BY <4>2 DEF a, s
        <3> QED BY <1>3, <3>2, <3>3, <3>4, <3>5
    <2>2. CASE j = N + 1
        <3>1. more[j] = B + M + 1 /\ more[j - 1] = B /\ lots[j] = l
            BY <1>1, <1>2, <1>4, <1>6, <2>2
        <3> QED BY <1>1, <1>3, <3>1 DEF M
    <2> QED BY <1>1, <2>1, <2>2
<1>9. more[n] = 0 - k
    BY <1>1, <1>2, <1>6
<1>10. Framed(more, n, k, all, lots)
    BY <1>3, <1>4, <1>6, <1>7, <1>8, <1>9 DEF Framed
<1> QED BY <1>6, <1>10 DEF N, all, lots

(* Bytes dropped from the front of one part are dropped from the whole. *)
LEMMA Suffix ==
    ASSUME NEW c \in Seq(Bytes), NEW s \in Seq(Bytes), NEW d \in 0..Len(c)
    PROVE  /\ c \o s \in Seq(Bytes) /\ Len(c \o s) = Len(c) + Len(s)
           /\ \A i \in 1..Len(c) : (c \o s)[i] = c[i]
           /\ SubSeq(c, d + 1, Len(c)) \in Seq(Bytes)
           /\ SubSeq(c \o s, d + 1, Len(c \o s)) = SubSeq(c, d + 1, Len(c)) \o s
<1> DEFINE m == Len(c)
           n == Len(s)
           all == c \o s
           cut == SubSeq(all, d + 1, Len(all))
           rest == SubSeq(c, d + 1, m)
<1>1. /\ all \in Seq(Bytes) /\ Len(all) = m + n
      /\ \A i \in 1..(m + n) : all[i] = IF i <= m THEN c[i] ELSE s[i - m]
    BY ConcatProperties
<1>2. m \in Nat /\ n \in Nat /\ d \in Nat /\ d <= m
    OBVIOUS
<1>3. /\ rest \in Seq(Bytes) /\ Len(rest) = m - d
      /\ \A i \in 1..(m - d) : rest[i] = c[d + i]
    BY <1>2
<1>4. /\ cut \in Seq(Bytes) /\ Len(cut) = m + n - d
      /\ \A i \in 1..(m + n - d) : cut[i] = all[d + i]
    BY <1>1, <1>2
<1>5. /\ rest \o s \in Seq(Bytes) /\ Len(rest \o s) = m - d + n
      /\ \A i \in 1..(m - d + n) :
            (rest \o s)[i] = IF i <= m - d THEN rest[i] ELSE s[i - (m - d)]
    <2>1. /\ rest \o s \in Seq(Bytes) /\ Len(rest \o s) = Len(rest) + n
          /\ \A i \in 1..(Len(rest) + n) :
                (rest \o s)[i] = IF i <= Len(rest) THEN rest[i] ELSE s[i - Len(rest)]
        <3> HIDE DEF rest
        <3> QED BY <1>3, ConcatProperties
    <2> QED BY <1>3, <2>1
<1>6. \A i \in 1..m : all[i] = c[i]
    BY <1>1, <1>2
<1> HIDE DEF all, cut, rest, m, n
<1>7. ASSUME NEW i \in 1..(m + n - d) PROVE cut[i] = (rest \o s)[i]
    <2>1. i \in 1..(m - d + n) /\ d + i \in 1..(m + n)
        BY <1>2
    <2>2. CASE i <= m - d
        <3>1. d + i <= m /\ i \in 1..(m - d)
            BY <1>2, <2>2
        <3> QED BY <1>1, <1>3, <1>4, <1>5, <2>1, <2>2, <3>1
    <2>3. CASE ~(i <= m - d)
        <3>1. ~(d + i <= m) /\ (d + i) - m = i - (m - d)
            BY <1>2, <2>3
        <3> QED BY <1>1, <1>4, <1>5, <2>1, <2>3, <3>1
    <2> QED BY <2>2, <2>3
<1>8. cut = rest \o s
    <2>1. Len(cut) = Len(rest \o s)
        BY <1>2, <1>4, <1>5
    <2> QED BY <1>4, <1>5, <1>7, <2>1, SeqEqual
<1> QED BY <1>1, <1>3, <1>6, <1>8 DEF all, cut, rest, m, n

(* A line that is being read: where its newline is, and what comes before. *)
LEMMA NextLine ==
    ASSUME NEW lines \in Seq(Lines), NEW bytes \in Seq(Bytes), bytes # <<>>,
           NEW n \in 0..Len(lines), NEW k \in Nat, NEW end,
           Framed(end, n, k, bytes, lines)
    PROVE  LET l == lines[n + 1]
               e == end[n + 1]
           IN  /\ n < Len(lines) /\ l \in Lines /\ Len(l) \in Nat
               /\ e \in 1..Len(bytes) /\ Len(l) = k + e - 1
               /\ bytes[e] = Newline
               /\ \A i \in 1..(e - 1) : bytes[i] = l[k + i] /\ bytes[i] # Newline
<1> DEFINE N == Len(lines)
           B == Len(bytes)
           l == lines[n + 1]
           e == end[n + 1]
           s == end[n]
           M == Len(l)
<1>1. N \in Nat /\ B \in Nat /\ B > 0 /\ n \in Nat /\ n <= N
    BY EmptySeq
<1>2. /\ end \in [n..N -> Int] /\ s = 0 - k /\ end[N] = B
      /\ \A i, j \in n..N : i <= j => end[i] <= end[j]
    BY DEF Framed
<1>3. n # N
    BY <1>1, <1>2
<1>4. /\ n < N /\ n + 1 \in (n + 1)..N /\ n + 1 \in n..N /\ N \in n..N
      /\ n + 1 <= N /\ (n + 1) - 1 = n
    BY <1>1, <1>3
<1>5. l \in Lines /\ l \in Seq({"a", "u", "v"}) /\ M \in Nat
    BY <1>4, ConnectionConstants
<1>6. /\ e = s + M + 1 /\ e >= 1 /\ bytes[e] = Newline
      /\ \A i \in 1..M : s + i >= 1 => bytes[s + i] = l[i]
    BY <1>4 DEF Framed
<1>7. e \in Int /\ e <= end[N]
    BY <1>2, <1>4
<1>8. \A i \in 1..M : l[i] # Newline
    BY <1>5 DEF Newline
<1> HIDE DEF N, B, l, e, s, M
<1>9. e \in 1..B /\ M = k + e - 1
    BY <1>1, <1>2, <1>5, <1>6, <1>7
<1>10. ASSUME NEW i \in 1..(e - 1) PROVE bytes[i] = l[k + i] /\ bytes[i] # Newline
    <2>1. k + i \in 1..M /\ s + (k + i) = i /\ s + (k + i) >= 1
        BY <1>2, <1>5, <1>9
    <2> QED BY <1>6, <1>8, <2>1
<1> QED BY <1>4, <1>5, <1>6, <1>9, <1>10 DEF N, B, l, e, M

(* No newline in the chunk: it is a piece of the line, and not the last. *)
LEMMA LineGoesOn ==
    ASSUME NEW lines \in Seq(Lines), NEW c \in Seq(Bytes), NEW s \in Seq(Bytes), c # <<>>,
           NEW n \in 0..Len(lines), NEW k \in Nat, NEW end,
           Framed(end, n, k, c \o s, lines),
           \A i \in DOMAIN c : c[i] # Newline
    PROVE  LET l == lines[n + 1] IN
           /\ n < Len(lines) /\ l \in Lines /\ k + Len(c) <= Len(l)
           /\ \A i \in 1..Len(c) : c[i] = l[k + i]
           /\ \E rest \in [n..Len(lines) -> Int] : Framed(rest, n, k + Len(c), s, lines)
<1> DEFINE all == c \o s
           l == lines[n + 1]
           m == Len(c)
           e == end[n + 1]
<1>1. m \in Nat /\ m > 0 /\ Len(s) \in Nat /\ DOMAIN c = 1..m
    BY EmptySeq
<1>2. m \in 0..m
    BY <1>1
<1>3. /\ all \in Seq(Bytes) /\ Len(all) = m + Len(s)
      /\ \A i \in 1..m : all[i] = c[i]
      /\ SubSeq(all, m + 1, Len(all)) = SubSeq(c, m + 1, m) \o s
    BY <1>2, Suffix
<1>4. SubSeq(all, m + 1, Len(all)) = s
    <2>1. SubSeq(c, m + 1, m) = <<>>
        BY <1>1, SubSeqEmpty
    <2> QED BY <1>3, <2>1, ConcatEmptySeq
<1>5. all # <<>>
    BY <1>1, <1>3
<1>6. /\ n < Len(lines) /\ l \in Lines /\ Len(l) \in Nat
      /\ e \in 1..Len(all) /\ Len(l) = k + e - 1
      /\ all[e] = Newline
      /\ \A i \in 1..(e - 1) : all[i] = l[k + i]
    <2>1. Framed(end, n, k, all, lines) /\ all \in Seq(Bytes) /\ all # <<>>
        BY <1>3, <1>5
    <2> HIDE DEF all
    <2> QED BY <2>1, NextLine
<1> HIDE DEF all, m, l
<1>7. ~(e <= m)
    BY <1>1, <1>3, <1>6
<1>8. n \in n..Len(lines) /\ m \in 0..Len(all) /\ end[n] = 0 - k
    BY <1>1, <1>3 DEF Framed
<1>9. m < e /\ end[n] <= m /\ m - end[n] = k + m
    BY <1>1, <1>3, <1>6, <1>7, <1>8
<1>10. \E rest \in [n..Len(lines) -> Int] :
          Framed(rest, n, m - end[n], SubSeq(all, m + 1, Len(all)), lines)
    BY <1>3, <1>8, <1>9, Shift DEF all
<1> HIDE DEF e
<1>11. k + m <= Len(l)
    BY <1>1, <1>3, <1>6, <1>9
<1>12. ASSUME NEW i \in 1..m PROVE c[i] = l[k + i]
    <2>1. i \in 1..(e - 1)
        BY <1>1, <1>6, <1>9
    <2> QED BY <1>3, <1>6, <2>1
<1> QED BY <1>4, <1>6, <1>9, <1>10, <1>11, <1>12 DEF l, m

(* The first newline is the end of the line. *)
LEMMA LineEnds ==
    ASSUME NEW lines \in Seq(Lines), NEW c \in Seq(Bytes), NEW s \in Seq(Bytes),
           NEW n \in 0..Len(lines), NEW k \in Nat, NEW end,
           Framed(end, n, k, c \o s, lines),
           NEW p \in DOMAIN c, c[p] = Newline, \A i \in 1..(p - 1) : c[i] # Newline
    PROVE  LET l == lines[n + 1] IN
           /\ n < Len(lines) /\ l \in Lines /\ Len(l) = k + p - 1
           /\ \A i \in 1..(p - 1) : c[i] = l[k + i]
           /\ \E rest \in [(n + 1)..Len(lines) -> Int] :
                  Framed(rest, n + 1, 0, SubSeq(c, p + 1, Len(c)) \o s, lines)
<1> DEFINE all == c \o s
           l == lines[n + 1]
           m == Len(c)
           e == end[n + 1]
<1>1. m \in Nat /\ p \in 1..m /\ Len(s) \in Nat /\ DOMAIN c = 1..m
    OBVIOUS
<1>2. p \in 0..m
    BY <1>1
<1>3. /\ all \in Seq(Bytes) /\ Len(all) = m + Len(s)
      /\ \A i \in 1..m : all[i] = c[i]
      /\ SubSeq(all, p + 1, Len(all)) = SubSeq(c, p + 1, m) \o s
    BY <1>2, Suffix
<1>4. all # <<>>
    BY <1>1, <1>3
<1>5. /\ n < Len(lines) /\ l \in Lines /\ Len(l) \in Nat
      /\ e \in 1..Len(all) /\ Len(l) = k + e - 1
      /\ all[e] = Newline
      /\ \A i \in 1..(e - 1) : all[i] = l[k + i] /\ all[i] # Newline
    <2>1. Framed(end, n, k, all, lines) /\ all \in Seq(Bytes) /\ all # <<>>
        BY <1>3, <1>4
    <2> HIDE DEF all
    <2>2. /\ n < Len(lines) /\ l \in Lines /\ Len(l) \in Nat
          /\ e \in 1..Len(all) /\ Len(l) = k + e - 1
          /\ all[e] = Newline
        BY <2>1, NextLine
    <2>3. \A i \in 1..(e - 1) : all[i] = l[k + i] /\ all[i] # Newline
        BY <2>1, NextLine, SMTT(60)
    <2> QED BY <2>2, <2>3
<1> HIDE DEF all, m, l
<1>6. e = p
    <2> HIDE DEF e
    <2>1. e < p => e \in 1..(p - 1) /\ e \in 1..m
        <3>1. e \in Int /\ e >= 1
            BY <1>1, <1>3, <1>5
        <3> QED BY <1>1, <3>1
    <2>2. ~(e < p)
        BY <1>3, <1>5, <2>1
    <2>3. p < e => p \in 1..(e - 1)
        BY <1>1, <1>3, <1>5
    <2>4. ~(p < e)
        BY <1>1, <1>3, <1>5, <2>3
    <2> QED BY <1>1, <1>3, <1>5, <2>2, <2>4
<1>7. n + 1 \in n..Len(lines) /\ p \in 0..Len(all) /\ n \in Nat /\ Len(lines) \in Nat
    <2>1. n \in Nat /\ Len(lines) \in Nat /\ n < Len(lines)
        BY <1>5
    <2>2. p \in 0..Len(all)
        BY <1>1, <1>3
    <2> QED BY <2>1, <2>2
<1>8. n + 1 < Len(lines) => p < end[(n + 1) + 1]
    <2> HAVE n + 1 < Len(lines)
    <2> DEFINE j == n + 2
               g == end[j]
               z == Len(lines[j])
    <2>1. /\ j \in (n + 1)..Len(lines) /\ j \in n..Len(lines)
          /\ j - 1 = n + 1 /\ (n + 1) + 1 = j
        BY <1>7
    <2>2. lines[j] \in Seq({"a", "u", "v"})
        BY <1>7, <2>1, ConnectionConstants
    <2>3. g = end[j - 1] + z + 1
        BY <2>1 DEF Framed
    <2>4. g = e + z + 1 /\ z \in Nat
        BY <2>1, <2>2, <2>3
    <2> HIDE DEF g, z, e
    <2>5. p < g
        BY <1>1, <1>6, <2>4
    <2> QED BY <2>1, <2>5 DEF g
<1>9. end[n + 1] <= p /\ p - end[n + 1] = 0
    BY <1>1, <1>6
<1>10. \E rest \in [(n + 1)..Len(lines) -> Int] :
          Framed(rest, n + 1, p - end[n + 1], SubSeq(all, p + 1, Len(all)), lines)
    BY <1>3, <1>7, <1>8, <1>9, Shift DEF all
<1>11. ASSUME NEW i \in 1..(p - 1) PROVE c[i] = l[k + i]
    <2>1. i \in 1..m /\ i \in 1..(e - 1)
        BY <1>1, <1>6
    <2> QED BY <1>3, <1>5, <2>1
<1> QED BY <1>3, <1>5, <1>6, <1>9, <1>10, <1>11 DEF l, m

-----------------------------------------------------------------------------
(* What a line may be answered with. *)
LEMMA Fits ==
    ASSUME NEW type \in RequestTypes, type # "Fetch", NEW r \in Answers(type)
    PROVE  r \in AllAnswers(type)
BY DEF AllAnswers

(* Only a line that is too long is refused. *)
LEMMA NoRefusal ==
    ASSUME NEW l \in Lines, Len(l) <= MaxSize, NEW r \in AnswersTo(l)
    PROVE  r # TooLarge
<1>1. ASSUME NEW type \in RequestTypes, NEW a \in AllAnswers(type) PROVE a # TooLarge
    <2>1. CASE type = "Fetch"
        BY <1>1, <2>1 DEF AllAnswers, Reply, TooLarge
    <2>2. CASE type = "Search"
        BY <1>1, <2>2 DEF AllAnswers, Answers, Reply, TooLarge, InternalError
    <2>3. CASE type = "CacheClear"
        BY <1>1, <2>3 DEF AllAnswers, Answers, Reply, TooLarge, InternalError
    <2>4. CASE type \in {"ListProviders", "ProviderStatus", "CacheStats", "Health",
                        "Shutdown"}
        BY <1>1, <2>4 DEF AllAnswers, Answers, Reply, TooLarge
    <2> QED BY <2>1, <2>2, <2>3, <2>4 DEF RequestTypes
<1>2. ASSUME NEW text, NEW a \in AllowedFor(text) PROVE a # TooLarge
    BY <1>1, <1>2, ConnectionConstants DEF AllowedFor, ParseError, TooLarge
<1>3. /\ l \in Seq({"a", "u", "v"}) /\ Len(l) \in Nat /\ MaxSize \in Nat
      /\ ~(Len(l) > MaxSize)
    BY ConnectionConstants
<1>4. CASE Ascii(l)
    BY <1>2, <1>3, <1>4 DEF AnswersTo
<1>5. CASE ~Ascii(l)
    <2>1. r = ParseError \/ \E text \in DOMAIN Parses : r \in AllowedFor(text)
        BY <1>3, <1>5 DEF AnswersTo
    <2> QED BY <1>2, <2>1 DEF ParseError, TooLarge
<1> QED BY <1>4, <1>5

(* The answer of text that was taken for the line. *)
LEMMA Answered ==
    ASSUME NEW l \in Lines, Len(l) <= MaxSize, NEW text \in DOMAIN Parses,
           Ascii(l) => text = l, NEW r \in AllAnswers(Parses[text].type)
    PROVE  r \in AnswersTo(l)
<1>1. /\ l \in Seq({"a", "u", "v"}) /\ Len(l) \in Nat /\ MaxSize \in Nat
      /\ ~(Len(l) > MaxSize)
    BY ConnectionConstants
<1>2. r \in AllowedFor(text)
    BY DEF AllowedFor
<1>3. CASE Ascii(l)
    BY <1>1, <1>2, <1>3 DEF AnswersTo
<1>4. CASE ~Ascii(l)
    BY <1>1, <1>2, <1>4 DEF AnswersTo
<1> QED BY <1>3, <1>4

LEMMA Refused ==
    ASSUME NEW l \in Lines, Len(l) <= MaxSize, NEW text, text \notin DOMAIN Parses,
           Ascii(l) => text = l
    PROVE  ParseError \in AnswersTo(l)
<1>1. /\ l \in Seq({"a", "u", "v"}) /\ Len(l) \in Nat /\ MaxSize \in Nat
      /\ ~(Len(l) > MaxSize)
    BY ConnectionConstants
<1>2. ParseError \in AllowedFor(text)
    BY DEF AllowedFor
<1>3. CASE Ascii(l)
    BY <1>1, <1>2, <1>3 DEF AnswersTo
<1>4. CASE ~Ascii(l)
    BY <1>1, <1>4 DEF AnswersTo
<1> QED BY <1>3, <1>4

LEMMA TooLong ==
    ASSUME NEW l \in Lines, Len(l) > MaxSize
    PROVE  AnswersTo(l) = {TooLarge}
<1>1. /\ l \in Seq({"a", "u", "v"}) /\ Len(l) \in Nat /\ MaxSize \in Nat
      /\ ~(Len(l) <= MaxSize)
    BY ConnectionConstants
<1> QED BY <1>1 DEF AnswersTo

(* The line that the next response is for. *)
LEMMA ItsLine ==
    ASSUME TypeOK, Len(written) < Len(sent)
    PROVE  /\ sent[Len(written) + 1] \in Lines
           /\ Len(sent[Len(written) + 1]) \in Nat
           /\ Len(written) \in Nat /\ Len(sent) \in Nat
<1>1. Len(written) \in Nat /\ Len(sent) \in Nat /\ Len(written) + 1 \in 1..Len(sent)
    BY DEF TypeOK
<1>2. sent[Len(written) + 1] \in Lines
    BY <1>1 DEF TypeOK
<1> QED BY <1>1, <1>2, ConnectionConstants

LEMMA GoodResponse ==
    ASSUME ConnInv, client = "writing", pc \in {"writing", "refusing"}
    PROVE  /\ response \in AnswersTo(sent[Len(written) + 1])
           /\ response \in Responses
           /\ response = TooLarge <=> pc = "refusing"
<1> DEFINE l == sent[Len(written) + 1]
<1>1. TypeOK /\ Pending /\ Len(written) < Len(sent)
    BY DEF ConnInv, Pending
<1>2. l \in Lines
    BY <1>1, ItsLine
<1>3. CASE pc = "writing"
    <2>1. response \in AnswersTo(l) /\ Len(l) <= MaxSize
        BY <1>1, <1>3 DEF Pending
    <2>2. response # TooLarge
        BY <1>2, <2>1, NoRefusal
    <2> QED BY <1>2, <1>3, <2>1, <2>2 DEF Responses
<1>4. CASE pc = "refusing"
    <2>1. response = TooLarge /\ Len(l) > MaxSize
        BY <1>1, <1>4 DEF Pending
    <2>2. AnswersTo(l) = {TooLarge}
        BY <1>2, <2>1, TooLong
    <2> QED BY <1>2, <1>4, <2>1, <2>2 DEF Responses
<1> QED BY <1>3, <1>4

-----------------------------------------------------------------------------
(* What is read of a line. *)

LEMMA LineBytes ==
    ASSUME NEW l \in Lines
    PROVE  l \in Seq(Bytes) /\ l \in Seq(Bytes \ {Newline}) /\ Len(l) \in Nat
<1>1. {"a", "u", "v"} = Bytes \ {Newline} /\ {"a", "u", "v"} \subseteq Bytes
    BY DEF Bytes, Newline
<1>2. l \in Seq({"a", "u", "v"})
    BY ConnectionConstants
<1> QED BY <1>1, <1>2, SeqMonotonic

(* A piece without a newline is decoded to no more than its bytes, and to  *)
(* itself if it is ASCII.                                                  *)
LEMMA Piece ==
    ASSUME NEW c \in Seq(Bytes), NEW p \in 0..Len(c), \A i \in 1..p : c[i] # Newline
    PROVE  /\ SubSeq(c, 1, p) \in Seq(Bytes \ {Newline})
           /\ Len(SubSeq(c, 1, p)) = p
           /\ \A i \in 1..p : SubSeq(c, 1, p)[i] = c[i]
           /\ Decoded(SubSeq(c, 1, p)) \in Seq(Bytes \ {Newline})
           /\ Len(Decoded(SubSeq(c, 1, p))) <= p
           /\ (\A i \in 1..p : c[i] = "a") => Decoded(SubSeq(c, 1, p)) = SubSeq(c, 1, p)
<1> DEFINE s == SubSeq(c, 1, p)
<1>1. p \in Int /\ 1 \in Int /\ p \in Nat
    OBVIOUS
<1>2. \A i \in 1..p : c[i] \in Bytes \ {Newline}
    <2> TAKE i \in 1..p
    <2>1. i \in 1..Len(c)
        BY <1>1
    <2>2. c[i] \in Bytes
        BY <2>1, ElementOfSeq
    <2> QED BY <2>2
<1>3. /\ s \in Seq(Bytes \ {Newline})
      /\ Len(s) = IF 1 <= p THEN p - 1 + 1 ELSE 0
      /\ \A i \in 1..(p - 1 + 1) : s[i] = c[1 + i - 1]
    BY <1>1, <1>2, SubSeqProperties
<1>4. Len(s) = p
    BY <1>1, <1>3
<1>5. \A i \in 1..p : s[i] = c[i]
    <2> TAKE i \in 1..p
    <2>1. i \in 1..(p - 1 + 1) /\ 1 + i - 1 = i
        BY <1>1
    <2> QED BY <1>3, <2>1
<1> HIDE DEF s
<1>6. Decoded(s) \in Seq(Bytes \ {Newline}) /\ Len(Decoded(s)) <= p
    BY <1>1, <1>3, <1>4 DEF Decoded
<1>7. ASSUME \A i \in 1..p : c[i] = "a" PROVE Decoded(s) = s
    <2>1. DOMAIN s = 1..p
        BY <1>3, <1>4
    <2> QED BY <1>5, <1>7, <2>1 DEF Decoded, IsUtf8
<1> QED BY <1>3, <1>4, <1>5, <1>6, <1>7 DEF s

LEMMA WholePiece ==
    ASSUME TypeOK, chunk # <<>>, ~HasLine
    PROVE  /\ Len(chunk) \in Nat
           /\ \A i \in 1..Len(chunk) : chunk[i] # Newline
           /\ Decoded(chunk) \in Seq(Bytes \ {Newline})
           /\ Len(Decoded(chunk)) <= Len(chunk)
           /\ (\A i \in 1..Len(chunk) : chunk[i] = "a") => Decoded(chunk) = chunk
<1>1. Len(chunk) \in Nat /\ DOMAIN chunk = 1..Len(chunk) /\ chunk \in Seq(Bytes)
    BY DEF TypeOK
<1>2. \A i \in 1..Len(chunk) : chunk[i] # Newline
    BY <1>1 DEF HasLine
<1>3. SubSeq(chunk, 1, Len(chunk)) = chunk /\ Len(chunk) \in 0..Len(chunk)
    BY <1>1, SubSeqFull
<1> QED BY <1>1, <1>2, <1>3, Piece

LEMMA TypeStep ==
    ASSUME ConnInv, FetchInv, [Next]_vars
    PROVE  TypeOK'
<1> USE DEF TypeOK, readVars, fetchVars
<1>1. TypeOK
    BY DEF ConnInv
<1>2. CASE UNCHANGED vars
    BY <1>1, <1>2 DEF vars
<1>3. ASSUME NEW l \in Lines, Writes(l) PROVE TypeOK'
    <2>1. l \in Seq(Bytes) /\ <<Newline>> \in Seq(Bytes)
        BY LineBytes DEF Bytes
    <2>2. socket \o l \o <<Newline>> \in Seq(Bytes)
        BY <1>1, <2>1, ConcatProperties
    <2> QED BY <1>1, <1>3, <2>2 DEF Writes
<1>4. ASSUME NEW l \in Lines, Leaves(l) PROVE TypeOK'
    <2>1. socket \o l \in Seq(Bytes)
        BY <1>1, LineBytes, ConcatProperties
    <2> QED BY <1>1, <1>4, <2>1 DEF Leaves
<1>5. ASSUME NEW n \in 1..BufferSize, Fill(n) PROVE TypeOK'
    <2>1. n \in 0..Len(socket) /\ n \in Nat /\ n <= BufferSize /\ Len(socket) \in Nat
        BY <1>1, <1>5, ConnectionConstants DEF Fill
    <2>2. SubSeq(socket, 1, n) \in Seq(Bytes) /\ Len(SubSeq(socket, 1, n)) = n
        BY <1>1, <2>1
    <2>3. SubSeq(socket, n + 1, Len(socket)) \in Seq(Bytes)
        BY <1>1, <2>1
    <2> QED BY <1>1, <1>5, <2>1, <2>2, <2>3 DEF Fill
<1>6. CASE AppendsChunk
    <2>1. /\ Len(chunk) \in Nat /\ Decoded(chunk) \in Seq(Bytes \ {Newline})
          /\ Len(Decoded(chunk)) <= Len(chunk) /\ Len(Decoded(chunk)) \in Nat
        BY <1>1, <1>6, WholePiece DEF AppendsChunk
    <2>2. line \o Decoded(chunk) \in Seq(Bytes \ {Newline})
          /\ Len(line \o Decoded(chunk)) = Len(line) + Len(Decoded(chunk))
        BY <1>1, <2>1, ConcatProperties
    <2>3. total + Len(chunk) \in Nat /\ total + Len(chunk) <= MaxSize + 1
        BY <1>1, <1>6, <2>1, ConnectionConstants DEF AppendsChunk, Exceeds
    <2>4. Len(line \o Decoded(chunk)) <= total + Len(chunk)
        BY <1>1, <2>1, <2>2
    <2>5. <<>> \in Seq(Bytes) /\ Len(<<>>) <= BufferSize
        BY ConnectionConstants
    <2> QED BY <1>1, <1>6, <2>2, <2>3, <2>4, <2>5 DEF AppendsChunk
<1>7. ASSUME NEW p \in 1..BufferSize, TakesLine(p) PROVE TypeOK'
    <2>1. p \in 1..Len(chunk) /\ Len(chunk) \in Nat
        BY <1>1, <1>7 DEF TakesLine, FirstNewline
    <2>2. After(p) \in Seq(Bytes) /\ Len(After(p)) <= Len(chunk)
        BY <1>1, <2>1 DEF After
    <2>3. Len(After(p)) <= BufferSize
        BY <1>1, <2>1, <2>2, ConnectionConstants
    <2>4. <<>> \in Seq(Bytes \ {Newline}) /\ Len(<<>>) <= 0 /\ 0 <= MaxSize + 1
        BY ConnectionConstants
    <2>5. pc' \in {"handling", "writing"} /\ fetch = "none"
        BY <1>1, <1>7 DEF TakesLine
    <2> QED BY <1>1, <1>7, <2>2, <2>3, <2>4, <2>5 DEF TakesLine
<1>8. CASE RefusesLine \/ Disconnects
    BY <1>1, <1>8 DEF RefusesLine, Disconnects
<1>9. CASE Handles
    BY <1>1, <1>9 DEF Handles
<1>10. CASE BeginsFetch
    BY <1>1, <1>10 DEF BeginsFetch, BeginFetch, Finish
<1>11. CASE Fetches
    <2>1. fetch # "none" /\ fetch' \in {"none", "sending", "reading", "done"}
        BY <1>11, FetchStep DEF Fetches, FetchNext, FetchInv, Redirected, Responds,
           SendFails, ReadsBody, ReadFails, Completes, FetchTimesOut, FetchTick
    <2> QED BY <1>1, <1>11, <2>1 DEF Fetches
<1>12. CASE EndsFetch
    BY <1>1, <1>12 DEF EndsFetch
<1>13. CASE WritesResponse
    <2>1. response \in Responses
        BY <1>13, GoodResponse DEF WritesResponse
    <2> QED BY <1>1, <1>13, <2>1 DEF WritesResponse
<1>14. CASE WriteFails
    BY <1>1, <1>14 DEF WriteFails
<1> QED BY <1>2, <1>3, <1>4, <1>5, <1>6, <1>7, <1>8, <1>9, <1>10, <1>11, <1>12,
           <1>13, <1>14 DEF Next, Reads, Replies

-----------------------------------------------------------------------------
(* The invariant, action by action. *)

(* What the invariant says of the bytes while a line is being read. *)
LEMMA Frame ==
    ASSUME ConnInv, client = "writing", pc \in {"reading", "handling", "writing"}
    PROVE  /\ Taken \in 0..Len(sent) /\ Len(sent) \in Nat /\ Len(written) \in Nat
           /\ \E end \in [Taken..Len(sent) -> Int] :
                  Framed(end, Taken, total, chunk \o socket, sent)
<1>1. TypeOK /\ Reading /\ Pending
    BY DEF ConnInv
<1>2. Len(sent) \in Nat /\ Len(written) \in Nat
    BY <1>1 DEF TypeOK
<1> QED BY <1>1, <1>2 DEF Reading, Stream, Taken

(* Nothing of what has been read changes, and nothing of what is to come. *)
LEMMA ReadingStays ==
    ASSUME Reading, UNCHANGED <<sent, total, line>>, Taken' = Taken, Stream' = Stream
    PROVE  Reading'
BY DEF Reading

(* Nothing of what is held against a line changes. *)
LEMMA PendingStays ==
    ASSUME TypeOK, Pending, UNCHANGED <<total, line, pc, request, response, written>>,
           Len(sent)' >= Len(sent), Len(sent') \in Nat,
           \A i \in 1..Len(sent) : sent'[i] = sent[i]
    PROVE  Pending'
<1>1. Len(sent) \in Nat /\ Len(written) \in Nat
    BY DEF TypeOK
<1>2. CASE pc \in {"handling", "writing", "refusing"}
    <2>1. Len(written) < Len(sent) /\ Len(written) < Len(sent')
        BY <1>1, <1>2 DEF Pending
    <2>2. Len(written) + 1 \in 1..Len(sent)
        BY <1>1, <2>1
    <2>3. sent'[Len(written) + 1] = sent[Len(written) + 1]
        BY <2>2
    <2> QED BY <1>2, <2>1, <2>3 DEF Pending
<1>3. CASE pc \notin {"handling", "writing", "refusing"}
    BY <1>3 DEF Pending
<1> QED BY <1>2, <1>3

LEMMA WriteStep ==
    ASSUME ConnInv, TypeOK', NEW l \in Lines, Writes(l)
    PROVE  ConnInv'
<1>1. /\ TypeOK /\ Pending /\ client = "writing" /\ client' = "writing"
      /\ sent' = Append(sent, l) /\ socket' = socket \o l \o <<Newline>>
      /\ UNCHANGED <<chunk, total, line, pc, request, response, written>>
    BY DEF ConnInv, Writes
<1>2. /\ Len(sent) \in Nat /\ Len(written) \in Nat /\ Len(sent') = Len(sent) + 1
      /\ \A i \in 1..Len(sent) : sent'[i] = sent[i]
    BY <1>1 DEF TypeOK
<1>3. Pending'
    BY <1>1, <1>2, PendingStays
<1>4. CASE pc \in {"reading", "handling", "writing"}
    <2>1. PICK end \in [Taken..Len(sent) -> Int] :
              Framed(end, Taken, total, chunk \o socket, sent)
        BY <1>1, <1>4, Frame
    <2>2. /\ Taken' = Taken /\ Taken \in 0..Len(sent) /\ total \in Nat
          /\ sent \in Seq(Lines) /\ chunk \in Seq(Bytes) /\ socket \in Seq(Bytes)
        BY <1>1, <1>4, Frame DEF Taken, TypeOK
    <2>3. chunk \o socket \in Seq(Bytes) /\ l \in Seq(Bytes) /\ <<Newline>> \in Seq(Bytes)
        BY <2>2, ConcatProperties, LineBytes DEF Bytes
    <2>4. Stream' = (chunk \o socket) \o l \o <<Newline>>
        <3>1. socket \o l \in Seq(Bytes)
            BY <2>2, <2>3, ConcatProperties
        <3>2. chunk \o ((socket \o l) \o <<Newline>>)
                  = (chunk \o (socket \o l)) \o <<Newline>>
            BY <2>2, <2>3, <3>1, ConcatAssociative
        <3>3. chunk \o (socket \o l) = (chunk \o socket) \o l
            BY <2>2, <2>3, ConcatAssociative, SMTT(60)
        <3> QED BY <1>1, <3>2, <3>3 DEF Stream
    <2>5. \E more \in [Taken..(Len(sent) + 1) -> Int] :
              Framed(more, Taken, total, (chunk \o socket) \o l \o <<Newline>>,
                     Append(sent, l))
        BY <2>1, <2>2, <2>3, Extend
    <2>6. Taken' <= Len(sent')
        BY <1>2, <2>2
    <2>7. \E end1 \in [Taken'..Len(sent') -> Int] :
              Framed(end1, Taken', total', Stream', sent')
        BY <1>1, <1>2, <2>2, <2>4, <2>5
    <2>8. Reading /\ (Taken = Len(sent) => total = 0 /\ line = <<>>)
        <3>1. Reading
            BY <1>1, <1>4 DEF ConnInv
        <3>2. ASSUME Taken = Len(sent) PROVE total = 0
            <4>1. end[Taken] = 0 - total /\ end[Taken] = Len(chunk \o socket)
                BY <2>1, <3>2 DEF Framed
            <4> QED BY <2>2, <2>3, <4>1
        <3>3. Len(line) <= total /\ line \in Seq(Bytes \ {Newline})
            BY <1>1 DEF TypeOK
        <3> QED BY <3>1, <3>2, <3>3, EmptySeq
    <2>9. Ascii(sent'[Taken' + 1]) => Len(line') = total' /\ Ascii(line')
        <3> SUFFICES ASSUME Ascii(sent'[Taken + 1]) PROVE Len(line) = total /\ Ascii(line)
            BY <1>1, <2>2
        <3>1. CASE Taken < Len(sent)
            <4>1. Taken + 1 \in 1..Len(sent)
                BY <1>2, <2>2, <3>1
            <4>2. sent'[Taken + 1] = sent[Taken + 1]
                BY <1>2, <4>1
            <4> QED BY <2>8, <3>1, <4>2 DEF Reading
        <3>2. CASE Taken = Len(sent)
            BY <2>8, <3>2 DEF Ascii
        <3> QED BY <1>2, <2>2, <3>1, <3>2
    <2>10. Reading'
        BY <2>6, <2>7, <2>9 DEF Reading
    <2> QED BY <1>3, <2>10 DEF ConnInv
<1>5. CASE pc \notin {"reading", "handling", "writing"}
    BY <1>1, <1>3, <1>5 DEF ConnInv
<1> QED BY <1>4, <1>5

LEMMA FillStep ==
    ASSUME ConnInv, TypeOK', NEW n \in 1..BufferSize, Fill(n)
    PROVE  ConnInv'
<1>1. /\ TypeOK /\ pc = "reading" /\ pc' = "reading" /\ chunk = <<>>
      /\ chunk' = SubSeq(socket, 1, n)
      /\ socket' = SubSeq(socket, n + 1, Len(socket))
      /\ n \in 0..Len(socket) /\ socket \in Seq(Bytes) /\ Len(socket) \in Nat
      /\ UNCHANGED <<sent, client, line, total, pc, request, response, written>>
    BY ConnectionConstants DEF ConnInv, Fill, TypeOK
<1>2. Stream' = Stream
    <2>1. /\ 1 \in 1..Len(socket) + 1 /\ n \in 1 - 1..Len(socket)
          /\ Len(socket) \in n..Len(socket)
        BY <1>1
    <2>2. chunk' \o socket' = SubSeq(socket, 1, Len(socket))
        BY <1>1, <2>1, ConcatAdjacentSubSeq
    <2>3. SubSeq(socket, 1, Len(socket)) = socket /\ <<>> \o socket = socket
        BY <1>1, SubSeqFull, ConcatEmptySeq
    <2> QED BY <1>1, <2>2, <2>3 DEF Stream
<1>3. Taken' = Taken
    BY <1>1 DEF Taken
<1>4. CASE client = "writing"
    <2>1. Reading' /\ Pending
        BY <1>1, <1>2, <1>3, <1>4, ReadingStays DEF ConnInv
    <2>2. Pending'
        BY <1>1, <2>1 DEF Pending
    <2> QED BY <2>1, <2>2 DEF ConnInv
<1> QED BY <1>1, <1>4 DEF ConnInv

LEMMA AppendStep ==
    ASSUME ConnInv, TypeOK', AppendsChunk
    PROVE  ConnInv'
<1>1. /\ TypeOK /\ pc = "reading" /\ pc' = "reading" /\ chunk # <<>> /\ ~HasLine
      /\ line' = line \o Decoded(chunk) /\ total' = total + Len(chunk) /\ chunk' = <<>>
      /\ UNCHANGED <<sent, client, socket, request, response, written>>
    BY DEF ConnInv, AppendsChunk
<1>2. /\ sent \in Seq(Lines) /\ chunk \in Seq(Bytes) /\ socket \in Seq(Bytes)
      /\ line \in Seq(Bytes \ {Newline}) /\ total \in Nat /\ Len(line) \in Nat
      /\ DOMAIN chunk = 1..Len(chunk) /\ Len(chunk) \in Nat
    BY <1>1 DEF TypeOK
<1>3. CASE client = "writing"
    <2> DEFINE l == sent[Taken + 1]
    <2>1. PICK end \in [Taken..Len(sent) -> Int] :
              Framed(end, Taken, total, chunk \o socket, sent)
        BY <1>1, <1>3, Frame
    <2>2. Taken \in 0..Len(sent) /\ Taken' = Taken
        BY <1>1, <1>3, Frame DEF Taken
    <2>3. \A i \in DOMAIN chunk : chunk[i] # Newline
        BY <1>1 DEF HasLine
    <2>4. /\ Taken < Len(sent) /\ l \in Lines
          /\ total + Len(chunk) <= Len(l)
          /\ \A i \in 1..Len(chunk) : chunk[i] = l[total + i]
          /\ \E rest \in [Taken..Len(sent) -> Int] :
                Framed(rest, Taken, total + Len(chunk), socket, sent)
        BY <1>1, <1>2, <2>1, <2>2, <2>3, LineGoesOn, ZenonT(60)
    <2>5. Stream' = socket
        BY <1>1, <1>2, ConcatEmptySeq DEF Stream
    <2>6. ASSUME Ascii(l) PROVE Len(line') = total' /\ Ascii(line')
        <3>1. Len(line) = total /\ Ascii(line)
            BY <1>1, <1>3, <2>4, <2>6 DEF ConnInv, Reading
        <3>2. DOMAIN l = 1..Len(l) /\ Len(l) \in Nat
            BY <2>4, LineBytes
        <3>3. \A i \in 1..Len(chunk) : chunk[i] = "a"
            <4> TAKE i \in 1..Len(chunk)
            <4>1. total + i \in DOMAIN l
                <5> HIDE DEF l
                <5> QED BY <1>2, <2>4, <3>2
            <4> QED BY <2>4, <2>6, <4>1 DEF Ascii
        <3>4. Decoded(chunk) = chunk
            BY <1>1, <3>3, WholePiece
        <3>5. /\ line \in Seq(Bytes) /\ DOMAIN line = 1..Len(line)
              /\ line \o chunk \in Seq(Bytes)
              /\ Len(line \o chunk) = Len(line) + Len(chunk)
              /\ \A i \in 1..Len(line) + Len(chunk) :
                    (line \o chunk)[i] =
                        IF i <= Len(line) THEN line[i] ELSE chunk[i - Len(line)]
            <4>1. line \in Seq(Bytes) /\ DOMAIN line = 1..Len(line)
                BY <1>2, SeqMonotonic
            <4> QED BY <1>2, <4>1, ConcatProperties
        <3>6. Ascii(line \o chunk)
            <4> SUFFICES ASSUME NEW i \in 1..Len(line) + Len(chunk)
                         PROVE  (line \o chunk)[i] = "a"
                BY <3>5 DEF Ascii
            <4>1. CASE i <= Len(line)
                <5>1. i \in DOMAIN line
                    BY <1>2, <3>5, <4>1
                <5> QED BY <3>1, <3>5, <4>1, <5>1 DEF Ascii
            <4>2. CASE ~(i <= Len(line))
                <5>1. i - Len(line) \in 1..Len(chunk)
                    BY <1>2, <4>2
                <5> QED BY <3>3, <3>5, <4>2, <5>1
            <4> QED BY <4>1, <4>2
        <3> QED BY <1>1, <3>1, <3>4, <3>5, <3>6
    <2>7. Reading'
        <3>1. Taken' <= Len(sent')
            BY <1>1, <2>2
        <3>2. \E rest \in [Taken'..Len(sent') -> Int] :
                 Framed(rest, Taken', total', Stream', sent')
            BY <1>1, <2>2, <2>4, <2>5
        <3>3. sent'[Taken' + 1] = l
            BY <1>1, <2>2
        <3> QED BY <2>6, <3>1, <3>2, <3>3 DEF Reading
    <2>8. Pending'
        BY <1>1 DEF Pending
    <2> QED BY <2>7, <2>8 DEF ConnInv
<1> QED BY <1>1, <1>3 DEF ConnInv

(* The text that is taken for the line is the line, if that is ASCII. *)
LEMMA TakesText ==
    ASSUME ConnInv, client = "writing", NEW p \in 1..BufferSize, TakesLine(p)
    PROVE  LET l == sent[Taken + 1] IN
           /\ Taken < Len(sent) /\ l \in Lines /\ Len(l) <= MaxSize
           /\ Ascii(l) => line \o Decoded(Before(p)) = l
           /\ \E rest \in [(Taken + 1)..Len(sent) -> Int] :
                  Framed(rest, Taken + 1, 0, After(p) \o socket, sent)
<1> DEFINE l == sent[Taken + 1]
           q == p - 1
<1>1. /\ TypeOK /\ Reading /\ pc = "reading" /\ FirstNewline(p) /\ ~Exceeds(total + p)
    BY DEF ConnInv, TakesLine
<1>2. /\ sent \in Seq(Lines) /\ chunk \in Seq(Bytes) /\ socket \in Seq(Bytes)
      /\ line \in Seq(Bytes \ {Newline}) /\ total \in Nat /\ Len(line) \in Nat
      /\ DOMAIN chunk = 1..Len(chunk) /\ Len(chunk) \in Nat
    BY <1>1 DEF TypeOK
<1>3. PICK end \in [Taken..Len(sent) -> Int] :
          Framed(end, Taken, total, chunk \o socket, sent)
    BY <1>1, Frame
<1>4. /\ Taken \in 0..Len(sent) /\ p \in DOMAIN chunk /\ chunk[p] = Newline
      /\ \A i \in 1..(p - 1) : chunk[i] # Newline
    BY <1>1, Frame DEF FirstNewline
<1>5. /\ Taken < Len(sent) /\ l \in Lines /\ Len(l) = total + p - 1
      /\ \A i \in 1..(p - 1) : chunk[i] = l[total + i]
      /\ \E rest \in [(Taken + 1)..Len(sent) -> Int] :
             Framed(rest, Taken + 1, 0, SubSeq(chunk, p + 1, Len(chunk)) \o socket, sent)
    BY <1>2, <1>3, <1>4, LineEnds
<1>6. Len(l) <= MaxSize
    <2> HIDE DEF l
    <2> QED BY <1>1, <1>2, <1>4, <1>5, ConnectionConstants DEF Exceeds
<1>7. ASSUME Ascii(l) PROVE line \o Decoded(Before(p)) = l
    <2>1. Len(line) = total /\ Ascii(line)
        BY <1>1, <1>5, <1>7 DEF Reading
    <2>2. DOMAIN l = 1..Len(l) /\ Len(l) \in Nat /\ l \in Seq(Bytes)
        BY <1>5, LineBytes
    <2>3. /\ q \in 0..Len(chunk) /\ q \in Nat
          /\ Len(l) = total + q /\ Before(p) = SubSeq(chunk, 1, q)
        <3> HIDE DEF l
        <3> QED BY <1>2, <1>4, <1>5 DEF Before
    <2>4. \A i \in 1..q : chunk[i] = l[total + i]
        BY <1>5
    <2> HIDE DEF q
    <2>5. \A i \in 1..q : chunk[i] = "a"
        <3> TAKE i \in 1..q
        <3>1. total + i \in DOMAIN l
            <4> HIDE DEF l
            <4> QED BY <1>2, <2>2, <2>3
        <3> QED BY <1>7, <2>4, <3>1 DEF Ascii
    <2>6. \A i \in 1..q : chunk[i] # Newline
        BY <2>5 DEF Newline
    <2> DEFINE s == SubSeq(chunk, 1, q)
    <2>7. /\ s \in Seq(Bytes \ {Newline}) /\ Len(s) = q
          /\ \A i \in 1..q : s[i] = chunk[i]
          /\ Decoded(s) = s
        BY <1>2, <2>3, <2>5, <2>6, Piece
    <2> HIDE DEF s
    <2>8. /\ line \o s \in Seq(Bytes \ {Newline})
          /\ Len(line \o s) = total + q
          /\ \A i \in 1..(total + q) :
                (line \o s)[i] = IF i <= total THEN line[i] ELSE s[i - total]
        BY <1>2, <2>1, <2>7, ConcatProperties
    <2>9. \A i \in 1..(total + q) : (line \o s)[i] = "a"
        <3> TAKE i \in 1..(total + q)
        <3>1. CASE i <= total
            <4>1. i \in DOMAIN line
                BY <1>2, <2>1, <3>1
            <4> QED BY <2>1, <2>8, <3>1, <4>1 DEF Ascii
        <3>2. CASE ~(i <= total)
            <4>1. i - total \in 1..q
                BY <1>2, <2>3, <3>2
            <4> QED BY <2>5, <2>7, <2>8, <3>2, <4>1
        <3> QED BY <3>1, <3>2
    <2>10. \A i \in 1..(total + q) : l[i] = "a"
        BY <1>7, <2>2, <2>3 DEF Ascii
    <2>11. line \o s \in Seq(Bytes)
        BY <2>8, SeqMonotonic
    <2>12. line \o s = l
        <3> DEFINE t == line \o s
        <3>1. t \in Seq(Bytes) /\ l \in Seq(Bytes) /\ Len(t) = Len(l)
              /\ \A i \in 1..Len(t) : t[i] = l[i]
            BY <2>2, <2>3, <2>8, <2>9, <2>10, <2>11
        <3> HIDE DEF t, l
        <3>2. t = l
            BY <3>1, SeqEqual
        <3> QED BY <3>2 DEF t
    <2> QED BY <2>3, <2>7, <2>12 DEF s
<1> QED BY <1>5, <1>6, <1>7 DEF After

LEMMA TakeStep ==
    ASSUME ConnInv, TypeOK', NEW p \in 1..BufferSize, TakesLine(p)
    PROVE  ConnInv'
<1>1. /\ TypeOK /\ pc = "reading" /\ pc' \in {"handling", "writing"}
      /\ chunk' = After(p) /\ line' = <<>> /\ total' = 0
      /\ UNCHANGED <<sent, client, socket, written>>
    BY DEF ConnInv, TakesLine
<1>2. CASE client = "writing"
    <2> DEFINE l == sent[Taken + 1]
               text == line \o Decoded(Before(p))
    <2>1. /\ Taken < Len(sent) /\ l \in Lines /\ Len(l) <= MaxSize
          /\ Ascii(l) => text = l
          /\ \E rest \in [(Taken + 1)..Len(sent) -> Int] :
                  Framed(rest, Taken + 1, 0, After(p) \o socket, sent)
        BY <1>2, TakesText
    <2>2. Taken \in Nat /\ Len(sent) \in Nat /\ Len(written) = Taken
        BY <1>1, <1>2, Frame DEF Taken
    <2>3. Taken' = Taken + 1
        BY <1>1, <2>2 DEF Taken
    <2>4. Reading'
        <3>1. Taken' <= Len(sent')
            BY <1>1, <2>1, <2>2, <2>3
        <3>2. \E rest \in [Taken'..Len(sent') -> Int] :
                 Framed(rest, Taken', total', Stream', sent')
            BY <1>1, <2>1, <2>3 DEF Stream
        <3>3. Len(line') = total' /\ Ascii(line')
            BY <1>1 DEF Ascii
        <3> QED BY <3>1, <3>2, <3>3 DEF Reading
    <2>5. sent'[Len(written') + 1] = l /\ Len(written') < Len(sent')
        BY <1>1, <2>1, <2>2
    <2> HIDE DEF l
    <2>6. CASE text \in DOMAIN Parses
        <3>1. pc' = "handling" /\ request' = Parses[text]
            BY <2>6 DEF TakesLine
        <3> QED BY <1>1, <2>1, <2>4, <2>5, <2>6, <3>1 DEF ConnInv, Pending
    <2>7. CASE text \notin DOMAIN Parses
        <3>1. pc' = "writing" /\ response' = ParseError
            BY <2>7 DEF TakesLine
        <3>2. ParseError \in AnswersTo(l)
            BY <2>1, <2>7, Refused
        <3> QED BY <1>1, <2>1, <2>4, <2>5, <3>1, <3>2 DEF ConnInv, Pending
    <2> QED BY <2>6, <2>7
<1> QED BY <1>1, <1>2 DEF ConnInv

(* A line that is refused is too long, whether its newline has come or not. *)
LEMMA RefuseStep ==
    ASSUME ConnInv, TypeOK', RefusesLine
    PROVE  ConnInv'
<1>1. /\ TypeOK /\ pc = "reading" /\ pc' = "refusing" /\ chunk # <<>>
      /\ response' = TooLarge
      /\ UNCHANGED <<sent, client, socket, chunk, line, total, request, written>>
    BY DEF ConnInv, RefusesLine, readVars
<1>2. /\ sent \in Seq(Lines) /\ chunk \in Seq(Bytes) /\ socket \in Seq(Bytes)
      /\ total \in Nat /\ DOMAIN chunk = 1..Len(chunk) /\ Len(chunk) \in Nat
    BY <1>1 DEF TypeOK
<1>3. CASE client = "writing"
    <2> DEFINE l == sent[Taken + 1]
               M == Len(l)
    <2>1. PICK end \in [Taken..Len(sent) -> Int] :
              Framed(end, Taken, total, chunk \o socket, sent)
        BY <1>1, <1>3, Frame
    <2>2. Taken \in 0..Len(sent) /\ Len(written) = Taken
        BY <1>1, <1>3, Frame DEF Taken
    <2>3. CASE ~HasLine
        <3>1. Exceeds(total + Len(chunk))
            BY <2>3 DEF RefusesLine, HasLine, FirstNewline
        <3>2. \A i \in DOMAIN chunk : chunk[i] # Newline
            BY <2>3 DEF HasLine
        <3>3. Taken < Len(sent) /\ l \in Lines /\ total + Len(chunk) <= M
            BY <1>1, <1>2, <2>1, <2>2, <3>2, LineGoesOn
        <3>4. M \in Nat
            BY <3>3, LineBytes
        <3> HIDE DEF M
        <3>5. M > MaxSize
            BY <1>2, <3>1, <3>3, <3>4, ConnectionConstants DEF Exceeds
        <3> QED BY <1>1, <2>2, <3>3, <3>5 DEF ConnInv, Pending, M
    <2>4. ASSUME NEW p \in DOMAIN chunk, FirstNewline(p), Exceeds(total + p)
          PROVE  ConnInv'
        <3>1. chunk[p] = Newline /\ \A i \in 1..(p - 1) : chunk[i] # Newline
            BY <2>4 DEF FirstNewline
        <3>2. Taken < Len(sent) /\ l \in Lines /\ M = total + p - 1
            <4> DEFINE n == Taken
            <4>1. n \in 0..Len(sent) /\ Framed(end, n, total, chunk \o socket, sent)
                BY <2>1, <2>2
            <4> HIDE DEF n
            <4>2. /\ sent \in Seq(Lines) /\ chunk \in Seq(Bytes)
                  /\ socket \in Seq(Bytes) /\ total \in Nat
                BY <1>2
            <4>3. n < Len(sent)
                BY <3>1, <4>1, <4>2, LineEnds
            <4>4. sent[n + 1] \in Lines
                BY <3>1, <4>1, <4>2, LineEnds
            <4>5. Len(sent[n + 1]) = total + p - 1
                BY <3>1, <4>1, <4>2, LineEnds, SMTT(60)
            <4> QED BY <4>3, <4>4, <4>5 DEF n
        <3>3. M \in Nat /\ p \in Nat
            BY <1>2, <3>2, LineBytes
        <3> HIDE DEF M
        <3>4. M > MaxSize
            BY <1>2, <2>4, <3>2, <3>3, ConnectionConstants DEF Exceeds
        <3> QED BY <1>1, <2>2, <3>2, <3>4 DEF ConnInv, Pending, M
    <2> QED BY <2>3, <2>4 DEF RefusesLine
<1> QED BY <1>1, <1>3 DEF ConnInv

(* The response is chosen: it fits the line. *)
LEMMA AnswerStep ==
    ASSUME ConnInv, TypeOK', Handles \/ EndsFetch
    PROVE  ConnInv'
<1>1. /\ TypeOK /\ pc = "handling" /\ pc' = "writing"
      /\ UNCHANGED <<sent, client, socket, chunk, line, total, request, written>>
    BY DEF ConnInv, Handles, EndsFetch, readVars
<1>2. CASE client = "writing"
    <2> DEFINE l == sent[Len(written) + 1]
    <2>1. Pending /\ Reading
        BY <1>1, <1>2 DEF ConnInv
    <2>2. Len(written) < Len(sent) /\ total = 0 /\ line = <<>> /\ Len(l) <= MaxSize
        BY <1>1, <2>1 DEF Pending
    <2>3. PICK text \in DOMAIN Parses : request = Parses[text] /\ (Ascii(l) => text = l)
        BY <1>1, <2>1 DEF Pending
    <2>4. l \in Lines
        BY <1>1, <2>2, ItsLine
    <2>5. request.type \in RequestTypes
        BY <2>3, ConnectionConstants
    <2>6. response' \in AllAnswers(request.type)
        <3>1. CASE Handles
            BY <2>5, <3>1, Fits DEF Handles
        <3>2. CASE EndsFetch
            <4>1. request.type = "Fetch" /\ response' = Reply("FetchResult")
                BY <1>1, <3>2 DEF TypeOK, EndsFetch
            <4> QED BY <4>1 DEF AllAnswers
        <3> QED BY <3>1, <3>2
    <2>7. response' \in AnswersTo(l)
        <3> HIDE DEF l
        <3> QED BY <2>2, <2>3, <2>4, <2>6, Answered
    <2>8. Reading'
        BY <1>1, <2>1, ReadingStays DEF Taken, Stream
    <2>9. Pending'
        BY <1>1, <2>2, <2>7 DEF Pending
    <2> QED BY <2>8, <2>9 DEF ConnInv
<1> QED BY <1>1, <1>2 DEF ConnInv

(* The response is written: one line more is answered. *)
LEMMA ReplyStep ==
    ASSUME ConnInv, TypeOK', WritesResponse
    PROVE  ConnInv'
<1>1. /\ TypeOK /\ pc \in {"writing", "refusing"}
      /\ client = "writing" /\ client' = client
      /\ written' = Append(written, response)
      /\ pc' = IF pc = "refusing" THEN "closed" ELSE "reading"
      /\ UNCHANGED <<sent, socket, chunk, line, total, request, response>>
    BY DEF ConnInv, WritesResponse, readVars
<1>2. response \in Responses
    BY <1>1, GoodResponse
<1>3. Len(written') = Len(written) + 1 /\ Len(written) \in Nat
    BY <1>1, <1>2 DEF TypeOK
<1>4. Pending'
    BY <1>1 DEF Pending
<1>5. CASE pc = "writing"
    <2>1. Taken' = Taken /\ Stream' = Stream
        BY <1>1, <1>3, <1>5 DEF Taken, Stream
    <2>2. Reading
        BY <1>1, <1>5 DEF ConnInv
    <2>3. Reading'
        BY <1>1, <2>1, <2>2, ReadingStays
    <2> QED BY <1>4, <2>3 DEF ConnInv
<1>6. CASE pc = "refusing"
    BY <1>1, <1>4, <1>6 DEF ConnInv
<1> QED BY <1>1, <1>5, <1>6

(* A fetch goes on: the connection waits for it. *)
LEMMA WaitStep ==
    ASSUME ConnInv, TypeOK',
           UNCHANGED <<sent, client, readVars, pc, request, response, written>>
    PROVE  ConnInv'
<1>1. Taken' = Taken /\ Stream' = Stream
    BY DEF Taken, Stream, readVars
<1>2. Reading => Reading'
    BY <1>1, ReadingStays DEF readVars
<1>3. Pending => Pending'
    BY DEF Pending, readVars
<1> QED BY <1>2, <1>3 DEF ConnInv

LEMMA ConnStep ==
    ASSUME ConnInv, FetchInv, [Next]_vars
    PROVE  ConnInv'
<1>1. TypeOK'
    BY TypeStep
<1>2. CASE UNCHANGED vars
    BY <1>1, <1>2, WaitStep DEF vars
<1>3. ASSUME NEW l \in Lines, Writes(l) PROVE ConnInv'
    BY <1>1, <1>3, WriteStep
<1>4. ASSUME NEW l \in Lines, Leaves(l) PROVE ConnInv'
    BY <1>1, <1>4 DEF Leaves, ConnInv
<1>5. ASSUME NEW n \in 1..BufferSize, Fill(n) PROVE ConnInv'
    BY <1>1, <1>5, FillStep
<1>6. CASE AppendsChunk
    BY <1>1, <1>6, AppendStep
<1>7. ASSUME NEW p \in 1..BufferSize, TakesLine(p) PROVE ConnInv'
    BY <1>1, <1>7, TakeStep
<1>8. CASE RefusesLine
    BY <1>1, <1>8, RefuseStep
<1>9. CASE Disconnects \/ WriteFails
    BY <1>1, <1>9 DEF Disconnects, WriteFails, ConnInv
<1>10. CASE Handles \/ EndsFetch
    BY <1>1, <1>10, AnswerStep
<1>11. CASE BeginsFetch \/ Fetches
    BY <1>1, <1>11, WaitStep DEF BeginsFetch, Fetches
<1>12. CASE WritesResponse
    BY <1>1, <1>12, ReplyStep
<1> QED BY <1>2, <1>3, <1>4, <1>5, <1>6, <1>7, <1>8, <1>9, <1>10, <1>11, <1>12
        DEF Next, Reads, Replies

LEMMA ConnBegins == Init => ConnInv
<1> SUFFICES ASSUME Init PROVE ConnInv
    OBVIOUS
<1>1. TypeOK
    BY ConnectionConstants DEF Init, FetchInit, TypeOK
<1>2. Taken = 0 /\ Len(sent) = 0 /\ sent = <<>> /\ total = 0
    BY DEF Init, Taken
<1>3. Stream = <<>> /\ Len(<<>>) = 0
    BY EmptySeq, ConcatEmptySeq DEF Init, Stream
<1>4. [i \in 0..0 |-> 0] \in [0..0 -> Int] /\ Framed([i \in 0..0 |-> 0], 0, 0, <<>>, <<>>)
    BY <1>3 DEF Framed
<1>5. Reading
    BY <1>2, <1>3, <1>4 DEF Reading
<1>6. Pending
    BY DEF Init, Pending
<1> QED BY <1>1, <1>5, <1>6 DEF ConnInv

(* The framing of the bytes, and what is held against the line in hand.    *)
THEOREM ConnInvariance == Spec => [](ConnInv /\ FetchInv)
<1>1. Init => ConnInv /\ FetchInv
    BY ConnBegins, FetchBegins
<1>2. ConnInv /\ FetchInv /\ [Next]_vars => ConnInv' /\ FetchInv'
    BY ConnStep, FetchPart
<1> QED BY <1>1, <1>2, PTL DEF Spec

(* Every variable keeps its range; what is buffered of a line is never     *)
(* longer than the limit and its newline.                                  *)
THEOREM TypeCorrect == Spec => []TypeOK
<1>1. ConnInv => TypeOK
    BY DEF ConnInv
<1> QED BY <1>1, ConnInvariance, PTL

(* Each step of the connection is one of the protocol's, or none. *)
LEMMA ProtocolStep ==
    ASSUME ConnInv, FetchInv, [Next]_vars
    PROVE  [Protocol!Next]_Protocol!vars
<1> USE DEF Protocol!vars, Protocol!Next
<1>1. CASE UNCHANGED vars
    BY <1>1 DEF vars
<1>2. ASSUME NEW l \in Lines, Writes(l) PROVE [Protocol!Next]_Protocol!vars
    BY <1>2 DEF Writes, Protocol!Send
<1>3. ASSUME NEW l \in Lines, Leaves(l) PROVE [Protocol!Next]_Protocol!vars
    BY <1>3 DEF Leaves
<1>4. ASSUME NEW n \in 1..BufferSize, Fill(n) PROVE [Protocol!Next]_Protocol!vars
    BY <1>4 DEF Fill
<1>5. ASSUME NEW p \in 1..BufferSize, TakesLine(p) PROVE [Protocol!Next]_Protocol!vars
    BY <1>5 DEF TakesLine
<1>6. CASE AppendsChunk \/ RefusesLine
    BY <1>6 DEF AppendsChunk, RefusesLine
<1>7. CASE Disconnects \/ WriteFails
    BY <1>7 DEF Disconnects, WriteFails, Protocol!Close
<1>8. CASE Handles \/ BeginsFetch \/ Fetches \/ EndsFetch
    BY <1>8 DEF Handles, BeginsFetch, Fetches, EndsFetch
<1>9. CASE WritesResponse
    <2> DEFINE l == sent[Len(written) + 1]
    <2>1. /\ TypeOK /\ Pending /\ client = "writing" /\ pc \in {"writing", "refusing"}
          /\ written' = Append(written, response) /\ UNCHANGED sent
          /\ pc' = IF pc = "refusing" THEN "closed" ELSE "reading"
        BY <1>9 DEF WritesResponse, ConnInv
    <2>2. response \in AnswersTo(l) /\ (response = TooLarge <=> pc = "refusing")
        BY <2>1, GoodResponse
    <2>3. Len(written) < Len(sent)
        BY <2>1 DEF Pending
    <2>4. l \in Lines
        BY <2>1, <2>3, ItsLine
    <2>5. response \in [k \in Lines |-> AnswersTo(k)][l]
        BY <2>2, <2>4
    <2>6. (pc # "closed") /\ ((pc # "closed")' <=> response # TooLarge)
        BY <2>1, <2>2
    <2>7. Protocol!Answer
        BY <2>1, <2>3, <2>5, <2>6 DEF Protocol!Answer
    <2> QED BY <2>7
<1> QED BY <1>1, <1>2, <1>3, <1>4, <1>5, <1>6, <1>7, <1>8, <1>9 DEF Next, Reads, Replies

(* handle_connection implements the protocol: each line gets one answer    *)
(* that fits it, in order, and a refusal is the last.                      *)
THEOREM RepliesOnce == Spec => OneReplyEach
<1>1. Init => Protocol!Init
    BY DEF Init, Protocol!Init
<1>2. ConnInv /\ FetchInv /\ [Next]_vars => [Protocol!Next]_Protocol!vars
    BY ProtocolStep
<1> QED BY <1>1, <1>2, ConnInvariance, PTL DEF Spec, OneReplyEach, Protocol!Spec
=============================================================================
