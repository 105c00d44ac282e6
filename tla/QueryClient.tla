----------------------------- MODULE QueryClient -----------------------------
(***************************************************************************)
(* A query of TanStack Query, which is external, as the pages use it: nothing *)
(* is ever fresh (staleTime 0), so a mounted query starts a fetch or joins    *)
(* the one under way; invalidateQueries restarts the fetch of a query on      *)
(* display that has data, and joins that of one that has none; a failed fetch *)
(* is tried once more while somebody looks at it.                             *)
(***************************************************************************)
EXTENDS Naturals

CONSTANT None

ASSUME NoneAssumption == None \notin Nat

\* fetch: not running (after a success, or a failure), sent, or answered with a
\* version; at: the request that serves it; data: the version on display.
\* cause, a history: why an answer may be older than a change acknowledged
\* before it.
QueryOf(fetch, data, cause) ==
    [fetch |-> fetch, at |-> None, value |-> 0, data |-> data, cause |-> cause]

NoQuery == QueryOf("idle", None, "none")

Running(q) == q.fetch \notin {"idle", "failed"}

\* A fetch starts, or starts over: what an earlier one brings is ignored.
Sent(q) == QueryOf("sent", q.data, "none")

\* Mutant: cached data is fresh.
ObservedFresh(q) ==
    IF Running(q) THEN [q EXCEPT !.cause = "joined"] ELSE IF q.data # None THEN q ELSE Sent(q)

\* The query mounts.
Observed(q) == IF Running(q) THEN [q EXCEPT !.cause = "joined"] ELSE Sent(q)

\* Mutant: the key that is invalidated is not that of the query.
InvalidatedOther(q) == q

\* invalidateQueries, for a query on display.
Invalidated(q) ==
    IF Running(q) /\ q.data = None THEN [q EXCEPT !.cause = "joined"] ELSE Sent(q)

\* The answer is there, and why it may be old.
Arrived(q, v, why) == QueryOf("idle", v, IF why = "none" THEN q.cause ELSE why)

\* A failure, that of the retry as well: a first try that fails is a fetch that
\* is served later.
AfterFailure(q) == QueryOf("failed", q.data, "none")

\* A query that joined nothing does not fall behind version v: what it shows, now
\* that it is idle, or is about to show is no older.
UpTo(q, v) ==
    q.cause = "none" =>
        /\ q.fetch = "idle" /\ q.data # None => q.data >= v
        /\ q.fetch = "answered" => q.value >= v

=============================================================================
