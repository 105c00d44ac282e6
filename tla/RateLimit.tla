------------------------------ MODULE RateLimit ------------------------------
(***************************************************************************)
(* The fixed-window rate limiter of the API.  RateLimitService.consume asks *)
(* Redis when its client is ready and falls back to a map in the process    *)
(* when it is not or when the call fails; RateLimitGuard turns a count      *)
(* beyond the limit into a 429.                                             *)
(*                                                                          *)
(* A limiter is Redis (Shared) or a process.  Time is in ticks of the       *)
(* window.  A failing eval and the fallback that follows it are one step:   *)
(* they touch different limiters and other requests cannot see between      *)
(* them.                                                                    *)
(***************************************************************************)
EXTENDS Naturals, FiniteSets

CONSTANTS
    Processes,   \* the API processes
    Shared,      \* Redis
    Keys,        \* rl:<name>:<identity>
    Limit,       \* options.limit
    Window,      \* options.windowSec, in ticks
    MaxEntries   \* MemoryRateLimiter.MAX_ENTRIES

ASSUME LimitAssumption == Limit \in Nat \ {0} /\ Window \in Nat \ {0}
ASSUME SharedAssumption == Shared \notin Processes
ASSUME EntriesAssumption == MaxEntries \in Nat

Limiters == Processes \cup {Shared}

\* Bound: beyond Limit + 1 the code only compares a count with the limit.
CountBound == Limit + 1

VARIABLES
    bucket,     \* bucket[l][k]: the count and the ticks left; count = 0: no entry
    connected,  \* connected[p]: the process's Redis client is ready
    recent      \* recent[l][k][i]: requests let through in the last i ticks

limiterVars == <<bucket, connected, recent>>

NoBucket == [count |-> 0, left |-> 0]
NoneRecent == [i \in 1 .. Window |-> 0]

LimiterInit ==
    /\ bucket = [l \in Limiters |-> [k \in Keys |-> NoBucket]]
    /\ connected = [p \in Processes |-> FALSE]
    /\ recent = [l \in Limiters |-> [k \in Keys |-> NoneRecent]]

CountedUp(n) == IF n < CountBound THEN n + 1 ELSE n

\* Mutant: PEXPIRE at every hit.
IncrAndExtend(b) == [count |-> CountedUp(b.count), left |-> Window]

\* CONSUME_SCRIPT: INCR, and PEXPIRE at the first hit of the window.
Incr(b) ==
    IF b.count = 0 THEN [count |-> 1, left |-> Window]
    ELSE [count |-> CountedUp(b.count), left |-> b.left]

\* Mutant: windowMs added as if it were ticks.
HitForTooLong(b) ==
    IF b.left = 0 THEN [count |-> 1, left |-> 1000 * Window]
    ELSE [count |-> CountedUp(b.count), left |-> b.left]

\* MemoryRateLimiter.consume: an absent or expired bucket is started afresh.
Hit(b) ==
    IF b.left = 0 THEN [count |-> 1, left |-> Window]
    ELSE [count |-> CountedUp(b.count), left |-> b.left]

\* Mutant: eviction makes room by forgetting everything.
EvictedAll(buckets) == [k \in Keys |-> NoBucket]

\* evictExpired.
Evicted(buckets) == [k \in Keys |-> IF buckets[k].left = 0 THEN NoBucket ELSE buckets[k]]

\* The map of a process after a hit of k: beyond MAX_ENTRIES the expired
\* buckets are dropped.
Remembered(buckets, k) ==
    LET hit == [buckets EXCEPT ![k] = Hit(@)]
        entries == {j \in Keys : hit[j].count > 0}
    IN  IF Cardinality(entries) > MaxEntries THEN Evicted(hit) ELSE hit

\* The count the caller gets decides; what passes counts from now on.
Allowed(b) == b.count <= Limit

Passed(l, k, b) ==
    IF Allowed(b) THEN [recent EXCEPT ![l][k] = [i \in 1 .. Window |-> @[i] + 1]]
    ELSE recent

\* What the script leaves in Redis when it runs n times: ioredis sends a
\* command again after a reconnect, whether or not the first one was run.
RunScript(k, n) ==
    [bucket EXCEPT ![Shared][k] = IF n = 0 THEN @ ELSE IF n = 1 THEN Incr(@) ELSE Incr(Incr(@))]

-----------------------------------------------------------------------------
\* RateLimitService.consume when Redis answers.
ConsumeShared(p, k) ==
    /\ connected[p]
    /\ \E n \in {1, 2} : bucket' = RunScript(k, n)
    /\ recent' = Passed(Shared, k, bucket'[Shared][k])
    /\ UNCHANGED connected

\* The memory's own answer: the client is not ready, or eval threw, with the
\* script run or not.
ConsumeMemory(p, k) ==
    /\ \E n \in IF connected[p] THEN {0, 1, 2} ELSE {0} :
          bucket' = [RunScript(k, n) EXCEPT ![p] = Remembered(@, k)]
    /\ recent' = Passed(p, k, Hit(bucket[p][k]))
    /\ UNCHANGED connected

\* The client's status changes: 'ready', or anything else.
Connect(p) ==
    /\ ~connected[p]
    /\ connected' = [connected EXCEPT ![p] = TRUE]
    /\ UNCHANGED <<bucket, recent>>

Disconnect(p) ==
    /\ connected[p]
    /\ connected' = [connected EXCEPT ![p] = FALSE]
    /\ UNCHANGED <<bucket, recent>>

\* A process restarts with an empty map.
ProcessRestart(p) ==
    /\ bucket' = [bucket EXCEPT ![p] = [k \in Keys |-> NoBucket]]
    /\ connected' = [connected EXCEPT ![p] = FALSE]
    /\ recent' = [recent EXCEPT ![p] = [k \in Keys |-> NoneRecent]]

\* Redis restarts empty; every client loses its connection.
RedisRestart ==
    /\ bucket' = [bucket EXCEPT ![Shared] = [k \in Keys |-> NoBucket]]
    /\ connected' = [p \in Processes |-> FALSE]
    /\ recent' = [recent EXCEPT ![Shared] = [k \in Keys |-> NoneRecent]]

\* Redis drops a key whose time is up; a process's map keeps the bucket.
Aged(l, b) ==
    IF b.left > 1 THEN [b EXCEPT !.left = @ - 1]
    ELSE IF l = Shared THEN NoBucket ELSE [b EXCEPT !.left = 0]

Shifted(counts) == [i \in 1 .. Window |-> IF i = 1 THEN 0 ELSE counts[i - 1]]

LimiterTick ==
    /\ bucket' = [l \in Limiters |-> [k \in Keys |-> Aged(l, bucket[l][k])]]
    /\ recent' = [l \in Limiters |-> [k \in Keys |-> Shifted(recent[l][k])]]
    /\ UNCHANGED connected

LimiterNext ==
    \/ \E p \in Processes, k \in Keys : ConsumeShared(p, k) \/ ConsumeMemory(p, k)
    \/ \E p \in Processes : Connect(p) \/ Disconnect(p) \/ ProcessRestart(p)
    \/ RedisRestart
    \/ LimiterTick

LimiterSpec == LimiterInit /\ [][LimiterNext]_limiterVars

\* Time passes.  Nothing obliges a client to call or Redis to come back.
FairLimiterSpec == LimiterSpec /\ WF_limiterVars(LimiterTick)

-----------------------------------------------------------------------------
(* Properties *)

\* The variables hold what the code can put there.
LimiterTypeOK ==
    /\ bucket \in [Limiters -> [Keys -> [count : 0 .. CountBound, left : 0 .. Window]]]
    /\ connected \in [Processes -> BOOLEAN]
    /\ recent \in [Limiters -> [Keys -> [1 .. Window -> Nat]]]

LetThrough(l, k) == recent[l][k][Window]

\* A limiter that keeps its state lets at most two limits' worth of a key
\* through in any stretch of one window, whatever the interleaving of the
\* processes, the failures of Redis, the resent commands and the evictions.
LimiterBound == \A l \in Limiters, k \in Keys : LetThrough(l, k) <= 2 * Limit

Blocked(l, k) == bucket[l][k].left > 0 /\ ~Allowed(bucket[l][k])

\* A bucket b of limiter l agrees with the requests r that were let through:
\* since its window began it counted them all, and what was let through before
\* that, and is not yet a window old, is no more than a limit.  Without a window
\* the current tick let nothing through, and the last one a limit at most.
Agree(l, b, r) ==
    /\ \A i \in 1 .. Window - 1 : r[i] <= r[i + 1]
    /\ b.count = 0 => b.left = 0
    /\ l = Shared /\ b.left = 0 => b.count = 0
    /\ b.left = 0 => r[1] = 0 /\ r[Window] <= Limit
    /\ b.left > 0 => LET since == Window + 1 - b.left IN
                     /\ r[since] <= b.count /\ r[since] <= Limit
                     /\ r[Window] <= r[since] + Limit

\* The inductive strengthening of LimiterBound: at every limiter, for every key,
\* the bucket and the requests that passed agree.
WindowsAgree == \A l \in Limiters, k \in Keys : Agree(l, bucket[l][k], recent[l][k])

\* A client that was told to retry gets a new window however often it or
\* others ask meanwhile: being blocked does not prolong the block.
NobodyIsLockedOut ==
    \A l \in Limiters, k \in Keys : Blocked(l, k) ~> ~Blocked(l, k)

\* What limiter l let through of key k since Redis began its window of the key.
SinceWindow(l, k) == recent[l][k][Window + 1 - bucket[Shared][k].left]

\* memory-rate-limiter.ts calls itself a "conservative in-memory fallback for a
\* single API task" that "is intentionally stricter than a shared limiter would
\* be": while Redis's window of a key lasts, the task lets no more of the key
\* through than the limit, which is what Redis alone would have let through.
FallbackIsStricter ==
    \A p \in Processes, k \in Keys :
        bucket[Shared][k].left > 0 => SinceWindow(Shared, k) + SinceWindow(p, k) <= Limit

=============================================================================
