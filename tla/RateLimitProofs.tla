--------------------------- MODULE RateLimitProofs ---------------------------
(***************************************************************************)
(* The bound of the rate limiter for any processes, keys, limit, window and *)
(* size of the map.  The lemmas are about one bucket and the requests that  *)
(* it let through; the steps lift them to all limiters and keys.            *)
(***************************************************************************)
EXTENDS RateLimit, TLAPS

Buckets == [count : 0 .. CountBound, left : 0 .. Window]
Counts == [1 .. Window -> Nat]

\* One more request passes.
OneMore(r) == [i \in 1 .. Window |-> r[i] + 1]

\* What an answer of bucket b does to the requests that passed.
AfterAnswer(b, r) == IF Allowed(b) THEN OneMore(r) ELSE r

Inv == LimiterTypeOK /\ WindowsAgree

-----------------------------------------------------------------------------
(* One bucket *)

LEMMA EmptyAgrees == ASSUME NEW l PROVE Agree(l, NoBucket, NoneRecent)
BY LimitAssumption DEF Agree, NoBucket, NoneRecent

LEMMA BucketTypes ==
  /\ NoBucket \in Buckets
  /\ NoneRecent \in Counts
  /\ \A b \in Buckets : Hit(b) \in Buckets /\ Incr(b) \in Buckets
  /\ \A b \in Buckets : \A l : Aged(l, b) \in Buckets
  /\ \A r \in Counts : OneMore(r) \in Counts /\ Shifted(r) \in Counts
<1>. USE LimitAssumption DEF Buckets, Counts
<1>1. NoBucket \in Buckets /\ NoneRecent \in Counts
  BY DEF NoBucket, NoneRecent, CountBound
<1>2. ASSUME NEW n \in 0 .. CountBound PROVE CountedUp(n) \in 0 .. CountBound
  BY DEF CountedUp, CountBound
<1>3. ASSUME NEW b \in Buckets PROVE Hit(b) \in Buckets /\ Incr(b) \in Buckets
  <2>1. CountedUp(b.count) \in 0 .. CountBound
    BY <1>2
  <2>. QED
    BY <2>1 DEF Hit, Incr, CountBound
<1>4. ASSUME NEW b \in Buckets, NEW l PROVE Aged(l, b) \in Buckets
  BY DEF Aged, NoBucket, CountBound
<1>5. ASSUME NEW r \in Counts PROVE OneMore(r) \in Counts /\ Shifted(r) \in Counts
  BY DEF OneMore, Shifted
<1>. QED
  BY <1>1, <1>3, <1>4, <1>5

\* Passing one more request keeps a window that has counted it and is within
\* the limit.
LEMMA CountedAgrees ==
  ASSUME NEW l, NEW b \in Buckets, NEW r \in Counts, Agree(l, b, r),
         b.left > 0, NEW c \in 0 .. CountBound, c > b.count \/ c = CountBound
  PROVE  LET counted == [count |-> c, left |-> b.left] IN
         /\ Agree(l, counted, r)
         /\ Allowed(counted) => Agree(l, counted, OneMore(r))
<1>. DEFINE since == Window + 1 - b.left
<1>1. since \in 1 .. Window /\ r[since] \in Nat /\ r[Window] \in Nat /\ b.count \in Nat
  BY LimitAssumption DEF Buckets, Counts
<1>2. /\ r[since] <= b.count /\ r[since] <= Limit /\ r[Window] <= r[since] + Limit
      /\ b.count # 0
  BY <1>1 DEF Agree
<1>3. r[since] <= c
  BY <1>1, <1>2, LimitAssumption DEF CountBound
<1>4. c # 0
  BY <1>1, <1>2, LimitAssumption DEF CountBound
<1>5. Agree(l, [count |-> c, left |-> b.left], r)
  BY <1>2, <1>3, <1>4, LimitAssumption DEF Agree, Buckets, CountBound
<1>6. ASSUME c <= Limit
      PROVE  Agree(l, [count |-> c, left |-> b.left], OneMore(r))
  <2>1. c > b.count
    BY <1>6, LimitAssumption DEF CountBound
  <2>2. r[since] + 1 <= c /\ r[since] + 1 <= Limit
    BY <1>1, <1>2, <2>1, <1>6, LimitAssumption
  <2>3. \A i \in 1 .. Window : OneMore(r)[i] = r[i] + 1 /\ r[i] \in Nat
    BY DEF OneMore, Counts
  <2>4. \A i \in 1 .. Window - 1 : OneMore(r)[i] <= OneMore(r)[i + 1]
    BY <2>3, LimitAssumption DEF Agree
  <2>5. /\ OneMore(r)[since] <= c /\ OneMore(r)[since] <= Limit
        /\ OneMore(r)[Window] <= OneMore(r)[since] + Limit
    BY <1>1, <1>2, <2>2, <2>3, LimitAssumption
  <2>. QED
    BY <1>4, <2>4, <2>5 DEF Agree, Buckets
<1>. QED
  BY <1>5, <1>6 DEF Allowed

\* The first request of a window: what the window before it let through is a
\* limit at most, and nothing of the current tick.
LEMMA FreshAgrees ==
  ASSUME NEW l, NEW b \in Buckets, NEW r \in Counts, Agree(l, b, r), b.left = 0
  PROVE  LET fresh == [count |-> 1, left |-> Window] IN
         /\ Agree(l, fresh, r)
         /\ Agree(l, fresh, OneMore(r))
<1>1. /\ r[1] = 0 /\ r[Window] <= Limit /\ r[Window] \in Nat
      /\ \A i \in 1 .. Window - 1 : r[i] <= r[i + 1]
  BY LimitAssumption DEF Agree, Counts
<1>2. Agree(l, [count |-> 1, left |-> Window], r)
  BY <1>1, LimitAssumption DEF Agree
<1>3. \A i \in 1 .. Window : OneMore(r)[i] = r[i] + 1 /\ r[i] \in Nat
  BY DEF OneMore, Counts
<1>4. \A i \in 1 .. Window - 1 : OneMore(r)[i] <= OneMore(r)[i + 1]
  BY <1>1, <1>3, LimitAssumption
<1>5. Agree(l, [count |-> 1, left |-> Window], OneMore(r))
  BY <1>1, <1>3, <1>4, LimitAssumption DEF Agree
<1>. QED
  BY <1>2, <1>5

LEMMA CountsUp ==
  ASSUME NEW b \in Buckets
  PROVE  /\ CountedUp(b.count) \in 0 .. CountBound
         /\ CountedUp(b.count) > b.count \/ CountedUp(b.count) = CountBound
BY LimitAssumption DEF CountedUp, CountBound, Buckets

\* The script of Redis, run once.
LEMMA IncrAgrees ==
  ASSUME NEW b \in Buckets, NEW r \in Counts, Agree(Shared, b, r)
  PROVE  /\ Agree(Shared, Incr(b), r)
         /\ Agree(Shared, Incr(b), AfterAnswer(Incr(b), r))
<1>1. CASE b.left = 0
  <2>1. Incr(b) = [count |-> 1, left |-> Window]
    BY <1>1 DEF Agree, Incr
  <2>. QED
    BY <1>1, <2>1, FreshAgrees DEF AfterAnswer
<1>2. CASE b.left # 0
  <2>1. b.left > 0 /\ b.count # 0
    BY <1>2 DEF Buckets, Agree
  <2>2. Incr(b) = [count |-> CountedUp(b.count), left |-> b.left]
    BY <2>1 DEF Incr
  <2>. QED
    BY <2>1, <2>2, CountsUp, CountedAgrees DEF AfterAnswer
<1>. QED
  BY <1>1, <1>2

\* The map of a process, asked once.
LEMMA HitAgrees ==
  ASSUME NEW l, NEW b \in Buckets, NEW r \in Counts, Agree(l, b, r)
  PROVE  Agree(l, Hit(b), AfterAnswer(Hit(b), r))
<1>1. CASE b.left = 0
  <2>1. Hit(b) = [count |-> 1, left |-> Window]
    BY <1>1 DEF Hit
  <2>. QED
    BY <1>1, <2>1, FreshAgrees DEF AfterAnswer
<1>2. CASE b.left # 0
  <2>1. b.left > 0
    BY <1>2 DEF Buckets
  <2>2. Hit(b) = [count |-> CountedUp(b.count), left |-> b.left]
    BY <2>1 DEF Hit
  <2>. QED
    BY <2>1, <2>2, CountsUp, CountedAgrees DEF AfterAnswer
<1>. QED
  BY <1>1, <1>2

\* Dropping an expired bucket loses nothing.
LEMMA DroppedAgrees ==
  ASSUME NEW l, NEW b \in Buckets, NEW r, Agree(l, b, r), b.left = 0
  PROVE  Agree(l, NoBucket, r)
BY DEF Agree, NoBucket

\* A tick.
LEMMA AgedAgrees ==
  ASSUME NEW l, NEW b \in Buckets, NEW r \in Counts, Agree(l, b, r)
  PROVE  Agree(l, Aged(l, b), Shifted(r))
<1>. DEFINE s == Shifted(r)
<1>1. /\ s[1] = 0
      /\ \A i \in 1 .. Window : i # 1 => s[i] = r[i - 1] /\ i - 1 \in 1 .. Window - 1
      /\ \A i \in 1 .. Window : r[i] \in Nat /\ s[i] \in Nat
  BY LimitAssumption DEF Shifted, Counts
<1>2. \A i \in 1 .. Window - 1 : r[i] <= r[i + 1]
  BY DEF Agree
<1>3. ASSUME NEW i \in 1 .. Window - 1 PROVE s[i] <= s[i + 1]
  <2>1. i + 1 \in 1 .. Window /\ i \in 1 .. Window /\ s[i + 1] = r[i] /\ r[i] \in Nat
    BY <1>1, LimitAssumption
  <2>2. CASE i = 1
    BY <1>1, <2>1, <2>2
  <2>3. CASE i # 1
    <3>1. s[i] = r[i - 1] /\ i - 1 \in 1 .. Window - 1
      BY <1>1, <2>1, <2>3
    <3>2. r[i - 1] <= r[i - 1 + 1] /\ i - 1 + 1 = i
      BY <1>2, <3>1
    <3>. QED
      BY <2>1, <3>1, <3>2
  <2>. QED
    BY <2>2, <2>3
<1>4. s[Window] <= r[Window]
  <2>1. CASE Window = 1
    BY <1>1, <2>1
  <2>2. CASE Window # 1
    <3>1. s[Window] = r[Window - 1] /\ Window - 1 \in 1 .. Window - 1 /\ Window - 1 + 1 = Window
      BY <1>1, <2>2, LimitAssumption
    <3>. QED
      BY <1>2, <3>1
  <2>. QED
    BY <2>1, <2>2
<1>5. CASE b.left > 1
  <2>. DEFINE since == Window + 1 - b.left
  <2>1. Aged(l, b) = [count |-> b.count, left |-> b.left - 1]
    BY <1>5 DEF Aged, Buckets
  <2>2. /\ since \in 1 .. Window /\ since + 1 \in 1 .. Window
        /\ Window + 1 - (b.left - 1) = since + 1 /\ s[since + 1] = r[since]
    BY <1>1, <1>5, LimitAssumption DEF Buckets
  <2>3. /\ b.count # 0
        /\ r[since] <= b.count /\ r[since] <= Limit /\ r[Window] <= r[since] + Limit
    BY <1>5 DEF Agree, Buckets
  <2>4. s[Window] <= r[since] + Limit
    BY <1>1, <1>4, <2>2, <2>3, LimitAssumption
  <2>5. b.left - 1 > 0
    BY <1>5 DEF Buckets
  <2>. QED
    BY <1>3, <2>1, <2>2, <2>3, <2>4, <2>5 DEF Agree
<1>6. CASE ~(b.left > 1)
  <2>1. /\ Aged(l, b).left = 0
        /\ Aged(l, b).count = 0 => Aged(l, b).left = 0
        /\ l = Shared => Aged(l, b).count = 0
    BY <1>6 DEF Aged, NoBucket, Buckets
  <2>2. r[Window] <= Limit
    <3>1. CASE b.left = 0
      BY <3>1 DEF Agree
    <3>2. CASE b.left = 1
      BY <3>2, LimitAssumption DEF Agree
    <3>. QED
      BY <1>6, <3>1, <3>2 DEF Buckets
  <2>3. s[Window] <= Limit
    BY <1>1, <1>4, <2>2, LimitAssumption
  <2>. QED
    BY <1>1, <1>3, <2>1, <2>3 DEF Agree
<1>. QED
  BY <1>5, <1>6

\* No bucket lets more than two limits through.
LEMMA AgreeBound ==
  ASSUME NEW l, NEW b \in Buckets, NEW r \in Counts, Agree(l, b, r)
  PROVE  r[Window] <= 2 * Limit
<1>1. r[Window] \in Nat /\ (b.left > 0 => r[Window + 1 - b.left] \in Nat)
  BY LimitAssumption DEF Buckets, Counts
<1>. QED
  BY <1>1, LimitAssumption DEF Agree, Buckets

-----------------------------------------------------------------------------
(* All limiters *)

LEMMA InitInv == LimiterInit => Inv
<1>. SUFFICES ASSUME LimiterInit PROVE Inv
  OBVIOUS
<1>1. LimiterTypeOK
  BY BucketTypes DEF LimiterInit, LimiterTypeOK, Buckets, Counts
<1>2. ASSUME NEW l \in Limiters, NEW k \in Keys PROVE Agree(l, bucket[l][k], recent[l][k])
  BY EmptyAgrees DEF LimiterInit
<1>. QED
  BY <1>1, <1>2 DEF Inv, WindowsAgree

LEMMA Typed ==
  ASSUME Inv, NEW l \in Limiters, NEW k \in Keys
  PROVE  bucket[l][k] \in Buckets /\ recent[l][k] \in Counts /\ Agree(l, bucket[l][k], recent[l][k])
BY DEF Inv, LimiterTypeOK, WindowsAgree, Buckets, Counts

\* A step that leaves each bucket and its requests in agreement keeps Inv.
LEMMA Lifted ==
  ASSUME NEW B, NEW R, bucket' = B, recent' = R, connected' \in [Processes -> BOOLEAN],
         B \in [Limiters -> [Keys -> Buckets]], R \in [Limiters -> [Keys -> Counts]],
         \A l \in Limiters, k \in Keys : Agree(l, B[l][k], R[l][k])
  PROVE  Inv'
BY DEF Inv, LimiterTypeOK, WindowsAgree, Buckets, Counts

\* What n runs of the script leave, of the key and of all others.
LEMMA ScriptRun ==
  ASSUME Inv, NEW k \in Keys, NEW n \in {0, 1, 2}
  PROVE  /\ RunScript(k, n) \in [Limiters -> [Keys -> Buckets]]
         /\ \A l \in Limiters, j \in Keys :
               l # Shared \/ j # k => RunScript(k, n)[l][j] = bucket[l][j]
         /\ \A l \in Limiters : l # Shared => RunScript(k, n)[l] = bucket[l]
         /\ Agree(Shared, RunScript(k, n)[Shared][k], recent[Shared][k])
         /\ n # 0 => Agree(Shared, RunScript(k, n)[Shared][k],
                           AfterAnswer(RunScript(k, n)[Shared][k], recent[Shared][k]))
<1>. DEFINE b == bucket[Shared][k]
            c == IF n = 0 THEN b ELSE IF n = 1 THEN Incr(b) ELSE Incr(Incr(b))
            r == recent[Shared][k]
<1>1. Shared \in Limiters /\ bucket \in [Limiters -> [Keys -> Buckets]]
  BY DEF Inv, LimiterTypeOK, Limiters, Buckets
<1>2. b \in Buckets /\ r \in Counts /\ Agree(Shared, b, r)
  BY <1>1, Typed
<1>3. /\ Incr(b) \in Buckets /\ Agree(Shared, Incr(b), r)
      /\ Agree(Shared, Incr(b), AfterAnswer(Incr(b), r))
  BY <1>2, IncrAgrees, BucketTypes
<1>4. /\ Incr(Incr(b)) \in Buckets /\ Agree(Shared, Incr(Incr(b)), r)
      /\ Agree(Shared, Incr(Incr(b)), AfterAnswer(Incr(Incr(b)), r))
  BY <1>2, <1>3, IncrAgrees, BucketTypes
<1>5. /\ c \in Buckets /\ Agree(Shared, c, r)
      /\ n # 0 => Agree(Shared, c, AfterAnswer(c, r))
  BY <1>2, <1>3, <1>4
<1>6. RunScript(k, n) = [bucket EXCEPT ![Shared] = [bucket[Shared] EXCEPT ![k] = c]]
  BY DEF RunScript
<1>7. bucket[Shared] \in [Keys -> Buckets]
  BY <1>1
<1>. HIDE DEF b, c, r
<1>8. RunScript(k, n)[Shared][k] = c
  BY <1>1, <1>6, <1>7
<1>9. RunScript(k, n) \in [Limiters -> [Keys -> Buckets]]
  BY <1>1, <1>5, <1>6, <1>7
<1>10. /\ \A l \in Limiters, j \in Keys :
               l # Shared \/ j # k => RunScript(k, n)[l][j] = bucket[l][j]
       /\ \A l \in Limiters : l # Shared => RunScript(k, n)[l] = bucket[l]
  BY <1>1, <1>6, <1>7
<1>. QED
  BY <1>5, <1>8, <1>9, <1>10 DEF r

LEMMA PassedOn ==
  ASSUME Inv, NEW l \in Limiters, NEW k \in Keys, NEW b
  PROVE  /\ Passed(l, k, b) \in [Limiters -> [Keys -> Counts]]
         /\ Passed(l, k, b)[l][k] = AfterAnswer(b, recent[l][k])
         /\ \A m \in Limiters, j \in Keys :
               m # l \/ j # k => Passed(l, k, b)[m][j] = recent[m][j]
<1>1. recent \in [Limiters -> [Keys -> Counts]] /\ recent[l] \in [Keys -> Counts]
  BY DEF Inv, LimiterTypeOK, Counts
<1>2. OneMore(recent[l][k]) \in Counts
  BY <1>1, BucketTypes
<1>3. CASE Allowed(b)
  <2>1. Passed(l, k, b)
          = [recent EXCEPT ![l] = [recent[l] EXCEPT ![k] = OneMore(recent[l][k])]]
    BY <1>3 DEF Passed, OneMore
  <2>. QED
    BY <1>1, <1>2, <1>3, <2>1 DEF AfterAnswer
<1>4. CASE ~Allowed(b)
  BY <1>1, <1>4 DEF Passed, AfterAnswer
<1>. QED
  BY <1>3, <1>4

LEMMA ConsumeSharedStep ==
  ASSUME Inv, NEW p \in Processes, NEW k \in Keys, ConsumeShared(p, k)
  PROVE  Inv'
<1>1. PICK n \in {1, 2} : bucket' = RunScript(k, n)
  BY DEF ConsumeShared
<1>2. /\ recent' = Passed(Shared, k, RunScript(k, n)[Shared][k])
      /\ connected' = connected /\ connected \in [Processes -> BOOLEAN]
      /\ Shared \in Limiters
  BY <1>1 DEF ConsumeShared, Inv, LimiterTypeOK, Limiters
<1>. DEFINE B == RunScript(k, n)  R == Passed(Shared, k, B[Shared][k])
<1>3. ASSUME NEW l \in Limiters, NEW j \in Keys PROVE Agree(l, B[l][j], R[l][j])
  <2>1. CASE l = Shared /\ j = k
    BY <1>2, <2>1, ScriptRun, PassedOn
  <2>2. CASE l # Shared \/ j # k
    BY <1>2, <2>2, ScriptRun, PassedOn, Typed
  <2>. QED
    BY <2>1, <2>2
<1>4. B \in [Limiters -> [Keys -> Buckets]] /\ R \in [Limiters -> [Keys -> Counts]]
  BY <1>2, ScriptRun, PassedOn
<1>. HIDE DEF B, R
<1>. QED
  BY <1>1, <1>2, <1>3, <1>4, Lifted DEF B, R

\* The map after a hit: the bucket of the key is hit, any other one is as it was
\* or, when its window was over, gone.
LEMMA RememberedBuckets ==
  ASSUME NEW M \in [Keys -> Buckets], NEW k \in Keys
  PROVE  /\ Remembered(M, k) \in [Keys -> Buckets]
         /\ Remembered(M, k)[k] = Hit(M[k])
         /\ \A j \in Keys : j # k => \/ Remembered(M, k)[j] = M[j]
                                     \/ M[j].left = 0 /\ Remembered(M, k)[j] = NoBucket
<1>. DEFINE hit == [M EXCEPT ![k] = Hit(@)]
<1>1. Remembered(M, k) \in {hit, Evicted(hit)}
  BY DEF Remembered
<1>2. hit[k] = Hit(M[k]) /\ \A j \in Keys : j # k => hit[j] = M[j]
  OBVIOUS
<1>3. hit \in [Keys -> Buckets]
  BY BucketTypes
<1>4. Hit(M[k]).left # 0
  BY LimitAssumption DEF Hit, Buckets
<1>. HIDE DEF hit
<1>5. /\ Evicted(hit) \in [Keys -> Buckets]
      /\ \A j \in Keys : Evicted(hit)[j] = IF hit[j].left = 0 THEN NoBucket ELSE hit[j]
  BY <1>3, BucketTypes DEF Evicted
<1>. QED
  BY <1>1, <1>2, <1>3, <1>4, <1>5

LEMMA ConsumeMemoryStep ==
  ASSUME Inv, NEW p \in Processes, NEW k \in Keys, ConsumeMemory(p, k)
  PROVE  Inv'
<1>1. PICK n \in {0, 1, 2} : bucket' = [RunScript(k, n) EXCEPT ![p] = Remembered(@, k)]
  BY DEF ConsumeMemory
<1>2. /\ recent' = Passed(p, k, Hit(bucket[p][k]))
      /\ connected' = connected /\ connected \in [Processes -> BOOLEAN]
      /\ p \in Limiters /\ p # Shared
  BY SharedAssumption DEF ConsumeMemory, Inv, LimiterTypeOK, Limiters
<1>. DEFINE S == RunScript(k, n)
            B == [S EXCEPT ![p] = Remembered(bucket[p], k)]
            R == Passed(p, k, Hit(bucket[p][k]))
<1>3. S \in [Limiters -> [Keys -> Buckets]] /\ S[p] = bucket[p]
  BY <1>2, ScriptRun
<1>4. bucket' = B
  BY <1>1, <1>3
<1>5. bucket[p] \in [Keys -> Buckets]
  BY <1>2, <1>3
<1>6. Remembered(bucket[p], k) \in [Keys -> Buckets]
  BY <1>5, RememberedBuckets
<1>7. /\ B \in [Limiters -> [Keys -> Buckets]] /\ B[p] = Remembered(bucket[p], k)
      /\ \A l \in Limiters : l # p => B[l] = S[l]
  BY <1>2, <1>3, <1>6
<1>8. R \in [Limiters -> [Keys -> Counts]]
  BY <1>2, PassedOn
<1>. HIDE DEF B
<1>9. ASSUME NEW l \in Limiters, NEW j \in Keys PROVE Agree(l, B[l][j], R[l][j])
  <2>1. CASE l = p /\ j = k
    <3>1. B[l][j] = Hit(bucket[p][k]) /\ R[l][j] = AfterAnswer(Hit(bucket[p][k]), recent[p][k])
      <4>1. B[l][j] = Hit(bucket[p][k])
        BY <1>5, <1>7, <2>1, RememberedBuckets
      <4>2. R[l][j] = AfterAnswer(Hit(bucket[p][k]), recent[p][k])
        BY <1>2, <2>1, PassedOn
      <4>. QED
        BY <4>1, <4>2
    <3>. QED
      BY <1>2, <2>1, <3>1, Typed, HitAgrees
  <2>2. CASE l = p /\ j # k
    <3>1. R[l][j] = recent[p][j]
      BY <1>2, <2>2, PassedOn
    <3>2. \/ B[l][j] = bucket[p][j]
          \/ bucket[p][j].left = 0 /\ B[l][j] = NoBucket
      BY <1>5, <1>7, <2>2, RememberedBuckets
    <3>. QED
      BY <1>2, <2>2, <3>1, <3>2, Typed, DroppedAgrees
  <2>3. CASE l # p
    <3>1. B[l][j] = S[l][j] /\ R[l][j] = recent[l][j]
      BY <1>2, <1>7, <2>3, PassedOn
    <3>2. CASE l = Shared /\ j = k
      BY <3>1, <3>2, ScriptRun
    <3>3. CASE l # Shared \/ j # k
      BY <3>1, <3>3, ScriptRun, Typed
    <3>. QED
      BY <3>2, <3>3
  <2>. QED
    BY <2>1, <2>2, <2>3
<1>. HIDE DEF R
<1>. QED
  BY <1>2, <1>4, <1>7, <1>8, <1>9, Lifted DEF R

\* A limiter that restarts has forgotten its buckets; what it let through counts
\* from then on.
LEMMA RestartStep ==
  ASSUME Inv, NEW l \in Limiters, connected' \in [Processes -> BOOLEAN],
         bucket' = [bucket EXCEPT ![l] = [k \in Keys |-> NoBucket]],
         recent' = [recent EXCEPT ![l] = [k \in Keys |-> NoneRecent]]
  PROVE  Inv'
<1>. DEFINE B == [bucket EXCEPT ![l] = [k \in Keys |-> NoBucket]]
            R == [recent EXCEPT ![l] = [k \in Keys |-> NoneRecent]]
<1>1. /\ bucket \in [Limiters -> [Keys -> Buckets]]
      /\ recent \in [Limiters -> [Keys -> Counts]]
  BY DEF Inv, LimiterTypeOK, Buckets, Counts
<1>2. B \in [Limiters -> [Keys -> Buckets]] /\ R \in [Limiters -> [Keys -> Counts]]
  BY <1>1, BucketTypes
<1>3. ASSUME NEW m \in Limiters, NEW k \in Keys PROVE Agree(m, B[m][k], R[m][k])
  <2>1. CASE m = l
    BY <1>1, <2>1, EmptyAgrees
  <2>2. CASE m # l
    BY <1>1, <2>2, Typed
  <2>. QED
    BY <2>1, <2>2
<1>. QED
  BY <1>2, <1>3, Lifted

LEMMA TickStep == ASSUME Inv, LimiterTick PROVE Inv'
<1>. DEFINE B == [l \in Limiters |-> [k \in Keys |-> Aged(l, bucket[l][k])]]
            R == [l \in Limiters |-> [k \in Keys |-> Shifted(recent[l][k])]]
<1>1. /\ bucket' = B /\ recent' = R
      /\ connected' = connected /\ connected \in [Processes -> BOOLEAN]
  BY DEF LimiterTick, Inv, LimiterTypeOK
<1>2. ASSUME NEW l \in Limiters, NEW k \in Keys
      PROVE  /\ Aged(l, bucket[l][k]) \in Buckets /\ Shifted(recent[l][k]) \in Counts
             /\ Agree(l, Aged(l, bucket[l][k]), Shifted(recent[l][k]))
  BY Typed, BucketTypes, AgedAgrees
<1>3. /\ B \in [Limiters -> [Keys -> Buckets]] /\ R \in [Limiters -> [Keys -> Counts]]
      /\ \A l \in Limiters, k \in Keys : Agree(l, B[l][k], R[l][k])
  BY <1>2
<1>. QED
  BY <1>1, <1>3, Lifted

LEMMA InvStep == Inv /\ [LimiterNext]_limiterVars => Inv'
<1>. SUFFICES ASSUME Inv, [LimiterNext]_limiterVars PROVE Inv'
  OBVIOUS
<1>1. ASSUME NEW p \in Processes, NEW k \in Keys, ConsumeShared(p, k) PROVE Inv'
  BY <1>1, ConsumeSharedStep
<1>2. ASSUME NEW p \in Processes, NEW k \in Keys, ConsumeMemory(p, k) PROVE Inv'
  BY <1>2, ConsumeMemoryStep
<1>3. ASSUME NEW p \in Processes, Connect(p) \/ Disconnect(p) PROVE Inv'
  BY <1>3 DEF Connect, Disconnect, Inv, LimiterTypeOK, WindowsAgree
<1>4. ASSUME NEW p \in Processes, ProcessRestart(p) PROVE Inv'
  <2>1. p \in Limiters /\ connected' \in [Processes -> BOOLEAN]
    BY <1>4 DEF ProcessRestart, Inv, LimiterTypeOK, Limiters
  <2>. QED
    BY <1>4, <2>1, RestartStep DEF ProcessRestart
<1>5. CASE RedisRestart
  <2>1. Shared \in Limiters /\ connected' \in [Processes -> BOOLEAN]
    BY <1>5 DEF RedisRestart, Limiters
  <2>. QED
    BY <1>5, <2>1, RestartStep DEF RedisRestart
<1>6. CASE LimiterTick
  BY <1>6, TickStep
<1>7. CASE UNCHANGED limiterVars
  BY <1>7 DEF limiterVars, Inv, LimiterTypeOK, WindowsAgree
<1>. QED
  BY <1>1, <1>2, <1>3, <1>4, <1>5, <1>6, <1>7 DEF LimiterNext

LEMMA Invariance == LimiterSpec => []Inv
BY InitInv, InvStep, PTL DEF LimiterSpec

-----------------------------------------------------------------------------
\* Buckets, connections and the history of what passed keep their types: a
\* bucket never has more than its window left, however often it is hit.
THEOREM TypeCorrect == LimiterSpec => []LimiterTypeOK
<1>1. Inv => LimiterTypeOK
  BY DEF Inv
<1>. QED
  BY <1>1, Invariance, PTL

\* Redis and the maps of the processes count every request they let through,
\* window by window, across resent scripts, evictions and restarts.
THEOREM WindowsAreCounted == LimiterSpec => []WindowsAgree
<1>1. Inv => WindowsAgree
  BY DEF Inv
<1>. QED
  BY <1>1, Invariance, PTL

\* A limiter that keeps its state lets at most two limits of a key through in
\* one window, for any number of processes, keys, limit, window and map size.
THEOREM WindowIsBounded == LimiterSpec => []LimiterBound
<1>1. Inv => LimiterBound
  <2>. SUFFICES ASSUME Inv, NEW l \in Limiters, NEW k \in Keys
                PROVE  recent[l][k][Window] <= 2 * Limit
    BY DEF LimiterBound, LetThrough
  <2>. QED
    BY Typed, AgreeBound
<1>. QED
  BY <1>1, Invariance, PTL

=============================================================================
