---------------------------- MODULE SummaryCache ----------------------------
(***************************************************************************)
(* The Redis cache of one project's task summary.  GET /projects/:id/summary *)
(* reads the cache, on a miss counts the tasks in PostgreSQL and stores the  *)
(* result with a time to live; creating, updating or removing a task commits *)
(* the change and then deletes the cached value.  The requests run in any    *)
(* number of API processes and interleave between any two of these calls.    *)
(*                                                                           *)
(* A summary is a function of the committed tasks, so it is represented by   *)
(* the number of changes committed when compute() counted.                   *)
(***************************************************************************)
EXTENDS Naturals

CONSTANTS
    Readers,    \* GET summary requests in progress
    Writers,    \* task mutations in progress
    Ttl,        \* TTL_SECONDS, in ticks
    MaxDelay,   \* ticks that pass at most between compute()'s query and the SET
    MaxWrites   \* bound: committed changes

ASSUME TimeAssumption == Ttl \in Nat \ {0} /\ MaxDelay \in Nat
ASSUME WritesAssumption == MaxWrites \in Nat

VARIABLES
    version,     \* changes committed to the tasks table
    entry,       \* the cached value and the ticks it has left; left = 0: no entry
    reader,      \* reader[r]: where get() stands, what it computed, how long ago
    writer,      \* writer[w]: between requests, or committed and not yet invalidated
    superseded,  \* superseded[v]: ticks since version v stopped being current
    blame        \* why the entry is stale although no invalidation is pending

vars == <<version, entry, reader, writer, superseded, blame>>

Versions == 0 .. MaxWrites

\* The age from which staleness is no longer told apart.
Bound == Ttl + MaxDelay

NoEntry == [value |-> 0, left |-> 0]
Cached == entry.left > 0
Stale == Cached /\ entry.value # version

Idle == [pc |-> "idle", value |-> 0, age |-> 0]

Init ==
    /\ version = 0
    /\ entry = NoEntry
    /\ reader = [r \in Readers |-> Idle]
    /\ writer = [w \in Writers |-> "idle"]
    /\ superseded = [v \in Versions |-> 0]
    /\ blame = "none"

-----------------------------------------------------------------------------
(* ProjectSummaryService.get *)

\* redis.get: a hit is returned and leaves everything as it is; a miss goes
\* on to compute, and so does a Redis error, which RedisService.get turns
\* into a miss.
GetMiss(r) ==
    /\ reader[r].pc = "idle"
    /\ reader' = [reader EXCEPT ![r].pc = "missed"]
    /\ UNCHANGED <<version, entry, writer, superseded, blame>>

\* compute(): one GROUP BY query, so one snapshot of the tasks.
Compute(r) ==
    /\ reader[r].pc = "missed"
    /\ reader' = [reader EXCEPT ![r] = [pc |-> "computed", value |-> version, age |-> 0]]
    /\ UNCHANGED <<version, entry, writer, superseded, blame>>

\* Mutant: the seconds are taken for milliseconds.
StoredTooLong(v) == [value |-> v, left |-> 1000 * Ttl]

\* What SET key value EX ttl leaves in Redis.
Stored(v) == [value |-> v, left |-> Ttl]

\* redis.set, which may fail unnoticed; the summary is returned either way.
Set(r) ==
    /\ reader[r].pc = "computed"
    /\ \/ /\ entry' = Stored(reader[r].value)
          /\ blame' = IF reader[r].value # version THEN "set_after_write" ELSE "none"
       \/ UNCHANGED <<entry, blame>>
    /\ reader' = [reader EXCEPT ![r] = Idle]
    /\ UNCHANGED <<version, writer, superseded>>

\* The request ends early: the query throws or the process dies.
AbortGet(r) ==
    /\ reader[r].pc # "idle"
    /\ reader' = [reader EXCEPT ![r] = Idle]
    /\ UNCHANGED <<version, entry, writer, superseded, blame>>

-----------------------------------------------------------------------------
(* TasksService.create, update and remove *)

\* The change commits.
Commit(w) ==
    /\ writer[w] = "idle"
    /\ version < MaxWrites
    /\ version' = version + 1
    /\ superseded' = [superseded EXCEPT ![version] = 0]
    /\ writer' = [writer EXCEPT ![w] = "committed"]
    /\ UNCHANGED <<entry, reader, blame>>

\* Mutant: redis.del with the wrong key.
InvalidateOther(w) ==
    /\ writer[w] = "committed"
    /\ writer' = [writer EXCEPT ![w] = "idle"]
    /\ UNCHANGED <<version, entry, reader, superseded, blame>>

\* summary.invalidate: redis.del.
Invalidate(w) ==
    /\ writer[w] = "committed"
    /\ entry' = NoEntry
    /\ blame' = "none"
    /\ writer' = [writer EXCEPT ![w] = "idle"]
    /\ UNCHANGED <<version, reader, superseded>>

\* RedisService.del swallows an error, or the process dies after the commit.
InvalidateLost(w) ==
    /\ writer[w] = "committed"
    /\ blame' = IF Stale THEN "lost_invalidation" ELSE blame
    /\ writer' = [writer EXCEPT ![w] = "idle"]
    /\ UNCHANGED <<version, entry, reader, superseded>>

-----------------------------------------------------------------------------
\* What a tick does to a request's computed value and to a version.
Older(r) ==
    IF reader[r].pc = "computed"
    THEN [pc |-> "computed", value |-> reader[r].value, age |-> reader[r].age + 1]
    ELSE reader[r]

OlderVersion(v) ==
    IF v < version /\ superseded[v] < Bound THEN superseded[v] + 1 ELSE superseded[v]

\* Mutant: the value was stored without an expiry.
TickWithoutExpiry ==
    /\ \A r \in Readers : reader[r].pc = "computed" => reader[r].age < MaxDelay
    /\ reader' = [r \in Readers |-> Older(r)]
    /\ superseded' = [v \in Versions |-> OlderVersion(v)]
    /\ UNCHANGED <<version, writer, entry, blame>>

\* One tick of time: the entry, the computed values and the superseded
\* versions grow older; Redis drops the entry whose time is up.
Tick ==
    /\ \A r \in Readers : reader[r].pc = "computed" => reader[r].age < MaxDelay
    /\ entry' = IF entry.left > 1 THEN [value |-> entry.value, left |-> entry.left - 1]
                ELSE NoEntry
    /\ blame' = IF entry.left > 1 THEN blame ELSE "none"
    /\ reader' = [r \in Readers |-> Older(r)]
    /\ superseded' = [v \in Versions |-> OlderVersion(v)]
    /\ UNCHANGED <<version, writer>>

Next ==
    \/ \E r \in Readers : GetMiss(r) \/ Compute(r) \/ Set(r) \/ AbortGet(r)
    \/ \E w \in Writers : Commit(w) \/ Invalidate(w) \/ InvalidateLost(w)
    \/ Tick

Spec == Init /\ [][Next]_vars

\* Time passes, and every request ends.
FairSpec ==
    /\ Spec
    /\ WF_vars(Tick)
    /\ \A r \in Readers : WF_vars(Compute(r) \/ Set(r) \/ AbortGet(r))
    /\ \A w \in Writers : WF_vars(Invalidate(w) \/ InvalidateLost(w))

-----------------------------------------------------------------------------
(* Properties *)

\* The variables hold what the code can put there.
TypeOK ==
    /\ version \in Versions
    /\ entry \in [value : Versions, left : 0 .. Ttl]
    /\ reader \in [Readers -> [pc : {"idle", "missed", "computed"},
                               value : Versions, age : 0 .. MaxDelay]]
    /\ writer \in [Writers -> {"idle", "committed"}]
    /\ superseded \in [Versions -> 0 .. Bound]
    /\ blame \in {"none", "set_after_write", "lost_invalidation"}

\* What the TTL of 60 s buys: a summary served from the cache was current less
\* than Ttl + MaxDelay ticks ago, whatever invalidations were lost and whoever
\* stored an old count after them.  (It is not Ttl: the count is older than
\* the entry.)
StalenessBound ==
    Stale => superseded[entry.value] < Bound

\* A stale entry has one of three causes: a writer that has committed and not
\* yet invalidated, an invalidation that was lost, or a get() that counted
\* before a write and stored after it.  No path through create, update or
\* remove leaves the cache stale otherwise.
StaleHasCause ==
    Stale => \/ \E w \in Writers : writer[w] = "committed"
             \/ blame # "none"

\* Once the writes are over the cache ends up right for good: no race between
\* get() and invalidate() and no lost invalidation leaves a wrong summary for
\* ever.
EventuallyConsistent == <>[]~Stale

-----------------------------------------------------------------------------
(* The inductive strengthening of StalenessBound *)

\* A computed value was current when it was computed, a cached one at most
\* MaxDelay ticks before it was stored; versions are superseded in order.
AgesAgree ==
    /\ \A r \in Readers : /\ reader[r].value <= version
                          /\ reader[r].pc = "computed" /\ reader[r].value < version
                               => superseded[reader[r].value] <= reader[r].age
    /\ entry.value <= version
    /\ Cached /\ entry.value < version
         => superseded[entry.value] <= (Ttl - entry.left) + MaxDelay

=============================================================================
