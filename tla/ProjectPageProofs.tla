-------------------------- MODULE ProjectPageProofs --------------------------
(***************************************************************************)
(* The summary cache and the project page over it, for any number of readers,  *)
(* writers, mutations and changes, and any time to live and delay.  First the  *)
(* staleness bound of the cache; then PageInv, which is inductive: the page     *)
(* uses the cache as SummaryCache says, so the cache's theorems hold under it.  *)
(***************************************************************************)
EXTENDS ProjectPage, TLAPS

-----------------------------------------------------------------------------
(* The summary cache *)

\* The inductive invariant of ProjectSummaryService's cache.
Inv == TypeOK /\ AgesAgree

\* An empty cache, nobody reading or writing.
LEMMA InitInv == Init => Inv
BY TimeAssumption, WritesAssumption
   DEF Init, Inv, TypeOK, AgesAgree, Versions, Bound, NoEntry, Idle, Cached

\* A tick ages the entry, the computed values and the versions alike.
LEMMA TickStep == ASSUME Inv, Tick PROVE Inv'
<1>1. /\ version' = version /\ writer' = writer
      /\ reader' = [r \in Readers |-> Older(r)]
      /\ superseded' = [v \in Versions |-> OlderVersion(v)]
      /\ blame' \in {blame, "none"}
  BY DEF Tick
<1>2. /\ version \in Versions
      /\ entry.value \in Versions /\ entry.left \in 0 .. Ttl /\ entry.value <= version
      /\ writer \in [Writers -> {"idle", "committed"}]
      /\ blame \in {"none", "set_after_write", "lost_invalidation"}
      /\ \A v \in Versions : superseded[v] \in 0 .. Bound
  BY DEF Inv, TypeOK, AgesAgree
<1>3. Versions \subseteq Nat /\ Bound \in Nat /\ Ttl \in Nat /\ MaxDelay \in Nat
  BY TimeAssumption, WritesAssumption DEF Versions, Bound
<1>4. ASSUME NEW r \in Readers
      PROVE  /\ reader[r].pc \in {"idle", "missed", "computed"}
             /\ reader[r].value \in Versions /\ reader[r].age \in 0 .. MaxDelay
             /\ reader[r] \in [pc : {"idle", "missed", "computed"},
                               value : Versions, age : 0 .. MaxDelay]
             /\ reader[r].value <= version
             /\ reader[r].pc = "computed" /\ reader[r].value < version
                  => superseded[reader[r].value] <= reader[r].age
             /\ reader[r].pc = "computed" => reader[r].age < MaxDelay
  BY DEF Inv, TypeOK, AgesAgree, Tick
<1>5. ASSUME NEW r \in Readers
      PROVE  /\ reader'[r].pc = reader[r].pc /\ reader'[r].value = reader[r].value
             /\ reader'[r] \in [pc : {"idle", "missed", "computed"},
                                value : Versions, age : 0 .. MaxDelay]
             /\ reader[r].pc = "computed" => reader'[r].age = reader[r].age + 1
  <2>1. CASE reader[r].pc = "computed"
    <3>1. reader'[r] = [pc |-> "computed", value |-> reader[r].value,
                        age |-> reader[r].age + 1]
      BY <1>1, <2>1 DEF Older
    <3>2. reader[r].age + 1 \in 0 .. MaxDelay
      BY <1>3, <1>4, <2>1
    <3>. QED
      BY ONLY <1>4, <2>1, <3>1, <3>2
  <2>2. CASE reader[r].pc # "computed"
    <3>1. reader'[r] = reader[r]
      BY <1>1, <2>2 DEF Older
    <3>. QED
      BY ONLY <1>4, <2>2, <3>1
  <2>. QED
    BY <2>1, <2>2
<1>6. ASSUME NEW v \in Versions
      PROVE  superseded'[v] \in 0 .. Bound /\ superseded'[v] <= superseded[v] + 1
  BY <1>1, <1>2, <1>3 DEF OlderVersion
<1>7. /\ entry' \in [value : Versions, left : 0 .. Ttl]
      /\ entry'.value \in Versions /\ entry'.left \in Nat
      /\ entry'.value <= version
      /\ entry'.left > 0 => entry.left = entry'.left + 1 /\ entry'.value = entry.value
  <2>1. CASE entry.left > 1
    <3>1. entry' = [value |-> entry.value, left |-> entry.left - 1]
      BY <2>1 DEF Tick
    <3>. QED
      BY <1>2, <1>3, <2>1, <3>1
  <2>2. CASE ~(entry.left > 1)
    <3>1. entry' = [value |-> 0, left |-> 0] /\ 0 \in Versions
      BY <2>2, WritesAssumption DEF Tick, NoEntry, Versions
    <3>. QED
      BY <1>2, <1>3, <3>1
  <2>. QED
    BY <2>1, <2>2
<1>8. TypeOK'
  <2>1. reader' \in [Readers -> [pc : {"idle", "missed", "computed"},
                                 value : Versions, age : 0 .. MaxDelay]]
    BY <1>1, <1>5
  <2>2. superseded' \in [Versions -> 0 .. Bound]
    BY <1>1, <1>6
  <2>3. blame' \in {"none", "set_after_write", "lost_invalidation"}
    BY <1>1, <1>2
  <2>. QED
    BY <1>1, <1>2, <1>7, <2>1, <2>2, <2>3 DEF TypeOK
<1>9. ASSUME NEW r \in Readers, reader'[r].pc = "computed", reader'[r].value < version'
      PROVE  superseded'[reader'[r].value] <= reader'[r].age
  <2>1. reader[r].pc = "computed" /\ reader[r].value < version /\ reader[r].value \in Versions
    BY <1>1, <1>4, <1>5, <1>9
  <2>2. superseded[reader[r].value] <= reader[r].age
    BY <1>4, <2>1
  <2>3. /\ superseded'[reader[r].value] \in 0 .. Bound
        /\ superseded'[reader[r].value] <= superseded[reader[r].value] + 1
        /\ superseded[reader[r].value] \in 0 .. Bound
    BY <1>2, <1>6, <2>1
  <2>4. reader[r].age \in Nat /\ reader'[r].age = reader[r].age + 1
    BY <1>3, <1>4, <1>5, <2>1
  <2>5. superseded'[reader[r].value] <= reader'[r].age
    BY ONLY <1>3, <2>2, <2>3, <2>4
  <2>. QED
    BY <1>5, <2>5
<1>10. ASSUME entry'.left > 0, entry'.value < version'
       PROVE  superseded'[entry'.value] <= (Ttl - entry'.left) + MaxDelay
  <2>1. /\ entry.left = entry'.left + 1 /\ entry'.value = entry.value
        /\ entry.left > 0 /\ entry.value < version /\ entry'.left \in Nat
    BY <1>1, <1>7, <1>10
  <2>2. superseded[entry.value] <= (Ttl - entry.left) + MaxDelay
    BY <2>1 DEF Inv, AgesAgree, Cached
  <2>3. /\ superseded'[entry.value] \in 0 .. Bound
        /\ superseded'[entry.value] <= superseded[entry.value] + 1
        /\ superseded[entry.value] \in 0 .. Bound
    BY <1>2, <1>6
  <2>4. superseded'[entry.value] <= (Ttl - entry'.left) + MaxDelay
    BY ONLY <1>3, <2>1, <2>2, <2>3
  <2>. QED
    BY <2>1, <2>4
<1>11. \A r \in Readers : reader'[r].value <= version'
  BY <1>1, <1>4, <1>5
<1>. QED
  BY <1>1, <1>7, <1>8, <1>9, <1>10, <1>11 DEF Inv, AgesAgree, Cached

\* Each step keeps the types and the ages.
LEMMA InvStep ==
  ASSUME Inv, [Next]_vars
  PROVE  Inv'
<1>. USE TimeAssumption, WritesAssumption DEF Inv, TypeOK, AgesAgree, Versions, Bound, Cached
<1>1. ASSUME NEW r \in Readers, GetMiss(r) PROVE Inv'
  BY <1>1 DEF GetMiss
<1>2. ASSUME NEW r \in Readers, Compute(r) PROVE Inv'
  BY <1>2, SMTT(30) DEF Compute
<1>3. ASSUME NEW r \in Readers, Set(r) PROVE Inv'
  <2>1. /\ reader' = [reader EXCEPT ![r] = Idle]
        /\ UNCHANGED <<version, writer, superseded>>
        /\ blame' \in {blame, "set_after_write", "none"}
        /\ entry' \in {entry, Stored(reader[r].value)}
        /\ reader[r].pc = "computed"
    BY <1>3 DEF Set
  <2>2. /\ reader[r].value \in Versions
        /\ reader[r].value <= version
        /\ reader[r].value < version => superseded[reader[r].value] <= MaxDelay
    BY <2>1
  <2>3. entry' \in [value : Versions, left : 0 .. Ttl]
    BY <2>1, <2>2 DEF Stored
  <2>4. TypeOK'
    BY <2>1, <2>3, SMTT(30) DEF Idle
  <2>5. /\ entry'.value <= version
        /\ entry'.left > 0 /\ entry'.value < version
             => superseded[entry'.value] <= (Ttl - entry'.left) + MaxDelay
    <3>1. CASE entry' = entry
      BY <3>1
    <3>2. CASE entry' = Stored(reader[r].value)
      BY <3>2, <2>2 DEF Stored
    <3>. QED
      BY <2>1, <3>1, <3>2
  <2>6. \A q \in Readers :
           /\ reader'[q].value <= version
           /\ reader'[q].pc = "computed" /\ reader'[q].value < version
                => superseded[reader'[q].value] <= reader'[q].age
    BY <2>1 DEF Idle
  <2>. QED
    BY <2>1, <2>4, <2>5, <2>6
<1>4. ASSUME NEW r \in Readers, AbortGet(r) PROVE Inv'
  BY <1>4, SMTT(30) DEF AbortGet, Idle
<1>5. ASSUME NEW w \in Writers, Commit(w) PROVE Inv'
  <2>1. /\ version' = version + 1 /\ version + 1 \in Versions
        /\ superseded' = [superseded EXCEPT ![version] = 0]
        /\ writer' = [writer EXCEPT ![w] = "committed"]
        /\ UNCHANGED <<entry, reader, blame>>
    BY <1>5 DEF Commit
  <2>2. TypeOK'
    BY <2>1
  <2>3. ASSUME NEW v \in Versions, NEW age \in Nat, v <= version,
               v < version => superseded[v] <= age
        PROVE  v <= version' /\ superseded'[v] <= age
    BY <2>1, <2>3
  <2>4. \A r \in Readers :
           /\ reader'[r].value <= version'
           /\ reader'[r].pc = "computed" /\ reader'[r].value < version'
                => superseded'[reader'[r].value] <= reader'[r].age
    <3>. SUFFICES ASSUME NEW r \in Readers
                  PROVE  /\ reader[r].value <= version'
                         /\ reader[r].pc = "computed" /\ reader[r].value < version'
                              => superseded'[reader[r].value] <= reader[r].age
      BY <2>1
    <3>1. reader[r].value <= version'
      BY <2>1
    <3>2. CASE reader[r].pc = "computed"
      <4>1. /\ reader[r].value \in Versions /\ reader[r].age \in Nat
            /\ reader[r].value <= version
            /\ reader[r].value < version => superseded[reader[r].value] <= reader[r].age
        BY <3>2
      <4>2. superseded'[reader[r].value] <= reader[r].age
        BY <2>3, <4>1
      <4>. QED
        BY <3>1, <4>2
    <3>. QED
      BY <3>1, <3>2
  <2>5. entry.value <= version'
    BY <2>1
  <2>6. ASSUME entry.left > 0
        PROVE  superseded'[entry.value] <= (Ttl - entry.left) + MaxDelay
    <3>1. entry.value \in Versions /\ (Ttl - entry.left) + MaxDelay \in Nat
      OBVIOUS
    <3>. QED
      BY <2>3, <2>6, <3>1
  <2>. QED
    BY <2>1, <2>2, <2>4, <2>5, <2>6
<1>6. ASSUME NEW w \in Writers, Invalidate(w) PROVE Inv'
  BY <1>6 DEF Invalidate, NoEntry
<1>7. ASSUME NEW w \in Writers, InvalidateLost(w) PROVE Inv'
  BY <1>7 DEF InvalidateLost
<1>8. CASE Tick
  BY <1>8, TickStep
<1>9. CASE UNCHANGED vars
  BY <1>9 DEF vars
<1>. QED
  BY <1>1, <1>2, <1>3, <1>4, <1>5, <1>6, <1>7, <1>8, <1>9 DEF Next

\* No step of get, invalidate or a writer breaks it.
LEMMA Invariance == Spec => []Inv
BY InitInv, InvStep, PTL DEF Spec

\* The variables of the cache hold what the code can put there.
THEOREM TypeCorrect == Spec => []TypeOK
<1>1. Inv => TypeOK
  BY DEF Inv
<1>. QED
  BY <1>1, Invariance, PTL

\* The ages that the code cannot see, of the cached value and of the counts on
\* their way to the cache, stay within what the time to live promises.
THEOREM AgesStayTrue == Spec => []AgesAgree
<1>1. Inv => AgesAgree
  BY DEF Inv
<1>. QED
  BY <1>1, Invariance, PTL

\* A cached summary was current less than Ttl + MaxDelay ticks ago.
THEOREM StalenessIsBounded == Spec => []StalenessBound
<1>1. Inv => StalenessBound
  BY TimeAssumption, WritesAssumption
     DEF Inv, TypeOK, AgesAgree, StalenessBound, Stale, Cached, Versions, Bound
<1>. QED
  BY <1>1, Invariance, PTL

\* A stale entry is owed to a write that has still to invalidate, to a lost
\* invalidation, or to a summary counted before a write and stored after it.
THEOREM StalenessIsExplained == Spec => []StaleHasCause
<1>1. Init => StaleHasCause
  BY DEF Init, StaleHasCause, Stale, Cached, NoEntry
<1>2. ASSUME TypeOK, StaleHasCause, [Next]_vars
      PROVE  StaleHasCause'
  <2>. USE <1>2 DEF StaleHasCause, Stale, Cached
  <2>1. ASSUME NEW r \in Readers, GetMiss(r) PROVE StaleHasCause'
    BY <2>1 DEF GetMiss
  <2>2. ASSUME NEW r \in Readers, Compute(r) PROVE StaleHasCause'
    BY <2>2 DEF Compute
  <2>3. ASSUME NEW r \in Readers, Set(r) PROVE StaleHasCause'
    BY <2>3 DEF Set, Stored
  <2>4. ASSUME NEW r \in Readers, AbortGet(r) PROVE StaleHasCause'
    BY <2>4 DEF AbortGet
  <2>5. ASSUME NEW w \in Writers, Commit(w) PROVE StaleHasCause'
    BY <2>5 DEF Commit, TypeOK
  <2>6. ASSUME NEW w \in Writers, Invalidate(w) PROVE StaleHasCause'
    BY <2>6 DEF Invalidate, NoEntry
  <2>7. ASSUME NEW w \in Writers, InvalidateLost(w) PROVE StaleHasCause'
    BY <2>7 DEF InvalidateLost
  <2>8. CASE Tick
    <3>1. version' = version /\ writer' = writer
      BY <2>8 DEF Tick
    <3>2. CASE entry.left > 1
      BY <2>8, <3>1, <3>2 DEF Tick, TypeOK
    <3>3. CASE ~(entry.left > 1)
      BY <2>8, <3>3 DEF Tick, NoEntry
    <3>. QED
      BY <3>2, <3>3
  <2>9. CASE UNCHANGED vars
    BY <2>9 DEF vars
  <2>. QED
    BY <2>1, <2>2, <2>3, <2>4, <2>5, <2>6, <2>7, <2>8, <2>9 DEF Next
<1>. QED
  BY <1>1, <1>2, TypeCorrect, PTL DEF Spec

-----------------------------------------------------------------------------
(* The page *)

\* Where the onSuccess of a mutation stands.
Mutation == {"idle", "sent", "committed", "tasks", "listed", "summary"}

-----------------------------------------------------------------------------
(* Refinement: what the page does to the cache is what SummaryCache does *)

\* A step of the page is a step of the cache or leaves it alone.
LEMMA CacheStep == [PageNext]_allVars => [Next]_vars
<1>. SUFFICES ASSUME PageNext PROVE [Next]_vars
  BY DEF allVars
<1>1. CASE \/ ProjectLoaded \/ ProjectFailed \/ Leave \/ Return
           \/ ReadTasks \/ TasksArrived \/ TasksFailed \/ SummaryHit
  BY <1>1 DEF ProjectLoaded, ProjectFailed, Leave, Return, ReadTasks, TasksArrived, TasksFailed,
              SummaryHit
<1>2. ASSUME NEW r \in Readers, SummaryMiss(r) \/ SummaryCounted(r) \/ SummaryAborted(r)
      PROVE  Next
  BY <1>2 DEF SummaryMiss, SummaryCounted, SummaryAborted, Next
<1>3. ASSUME NEW m \in Writers,
             \/ Mutate(m) \/ CommitOwn(m) \/ Acknowledge(m) \/ RefetchSummary(m)
             \/ Finish(m) \/ MutationFailed(m)
      PROVE  [Next]_vars
  BY <1>3 DEF Mutate, CommitOwn, Acknowledge, RefetchSummary, Finish, MutationFailed, Next
<1>4. CASE \/ \E r \in Readers : Compute(r)
           \/ \E w \in Writers : Invalidate(w) \/ InvalidateLost(w)
           \/ Tick
  BY <1>4 DEF Next
<1>. QED
  BY <1>1, <1>2, <1>3, <1>4 DEF PageNext

\* The page, with its mutations for writers and its fetches among the readers,
\* is a behaviour of the cache.
LEMMA PageUsesTheCache == PageSpec => Spec
<1>1. PageInit => Init
  BY DEF PageInit
<1>. QED
  BY <1>1, CacheStep, PTL DEF PageSpec, Spec

-----------------------------------------------------------------------------
(* Queries *)

\* A query that is observed or invalidated is fetched from now on, or joined.
LEMMA Refetched ==
  ASSUME NEW q \in Query
  PROVE  /\ Observed(q) \in Query /\ Invalidated(q) \in Query
         /\ \A r \in {Observed(q), Invalidated(q)} :
               /\ \A v : UpTo(r, v)
               /\ r = Sent(q) \/ r = [q EXCEPT !.cause = "joined"]
               /\ Running(r)
<1>1. Sent(q) \in Query /\ Running(Sent(q)) /\ \A v : UpTo(Sent(q), v)
  BY WritesAssumption DEF Query, Sent, QueryOf, Running, UpTo, Versions
<1>2. [q EXCEPT !.cause = "joined"] \in Query /\ \A v : UpTo([q EXCEPT !.cause = "joined"], v)
  BY DEF Query, UpTo
<1>3. Running(q) => Running([q EXCEPT !.cause = "joined"])
  BY DEF Query, Running
<1>4. \A r \in {Observed(q), Invalidated(q)} :
         r = Sent(q) \/ (Running(q) /\ r = [q EXCEPT !.cause = "joined"])
  BY DEF Observed, Invalidated
<1>. QED
  BY <1>1, <1>2, <1>3, <1>4

\* A fetch that fails or arrives.
LEMMA Settles ==
  ASSUME NEW q \in Query
  PROVE  /\ AfterFailure(q) \in Query /\ \A v : UpTo(AfterFailure(q), v)
         /\ \A value \in Versions, why \in {"none", "set_after_write", "lost_invalidation"} :
               /\ Arrived(q, value, why) \in Query
               /\ \A v : (q.cause = "none" /\ why = "none" => value >= v)
                           => UpTo(Arrived(q, value, why), v)
<1>1. AfterFailure(q) \in Query /\ \A v : UpTo(AfterFailure(q), v)
  BY WritesAssumption DEF AfterFailure, QueryOf, Query, UpTo, Versions
<1>2. ASSUME NEW value \in Versions,
             NEW why \in {"none", "set_after_write", "lost_invalidation"}
      PROVE  /\ Arrived(q, value, why) \in Query
             /\ \A v : (q.cause = "none" /\ why = "none" => value >= v)
                         => UpTo(Arrived(q, value, why), v)
  BY WritesAssumption DEF Arrived, QueryOf, Query, UpTo, Versions
<1>. QED
  BY <1>1, <1>2

-----------------------------------------------------------------------------
(* The inductive invariant *)

LEMMA InitPageInv == PageInit => PageInv
<1>. SUFFICES ASSUME PageInit PROVE PageInv
  OBVIOUS
<1>. USE DEF PageInit
<1>1. NoQuery \in Query /\ Sent(NoQuery) \in Query
  BY WritesAssumption DEF NoQuery, Sent, QueryOf, Query, Versions
<1>2. TypeOK
  BY InitInv DEF Inv
<1>3. PageTypeOK
  BY <1>1, <1>2, WritesAssumption DEF PageTypeOK, Versions
<1>4. PageShape
  BY WritesAssumption DEF PageShape, NoQuery, Sent, QueryOf, Init
<1>5. ListInv /\ SummaryInv
  BY DEF ListInv, SummaryInv, UpTo, Sent, QueryOf
<1>6. CacheInv
  BY DEF CacheInv, Init, Cached, NoEntry
<1>. QED
  BY <1>3, <1>4, <1>5, <1>6 DEF PageInv

\* The page opens, is left, and is come back to.
LEMMA PageSteps ==
  ASSUME PageInv, ProjectLoaded \/ ProjectFailed \/ Leave \/ Return
  PROVE  PageInv'
<1>. USE DEF PageInv, PageTypeOK
<1>1. /\ Observed(tasks) \in Query /\ UpTo(Observed(tasks), acked)
      /\ Observed(summary) \in Query /\ UpTo(Observed(summary), acked)
      /\ Observed(tasks).at = tasks.at \/ Observed(tasks).at = None
      /\ \/ Observed(summary).at = None /\ Observed(summary).fetch = "sent"
         \/ Observed(summary) = [summary EXCEPT !.cause = "joined"]
  <2>1. ASSUME NEW q \in Query
        PROVE  /\ Observed(q) \in Query /\ UpTo(Observed(q), acked)
               /\ Observed(q).at = q.at \/ Observed(q).at = None
               /\ \/ Observed(q).at = None /\ Observed(q).fetch = "sent"
                  \/ Observed(q) = [q EXCEPT !.cause = "joined"]
    <3>1. Observed(q) \in Query /\ UpTo(Observed(q), acked)
      BY <2>1, Refetched
    <3>2. CASE Observed(q) = Sent(q)
      <4>1. Observed(q).at = None /\ Observed(q).fetch = "sent"
        BY <3>2 DEF Sent, QueryOf
      <4>. QED
        BY ONLY <3>1, <4>1
    <3>3. CASE Observed(q) = [q EXCEPT !.cause = "joined"]
      <4>1. Observed(q).at = q.at
        BY <3>3, <2>1 DEF Query
      <4>. QED
        BY ONLY <3>1, <3>3, <4>1
    <3>. QED
      BY ONLY <3>2, <3>3 DEF Observed
  <2>2. tasks \in Query /\ summary \in Query
    OBVIOUS
  <2>. QED
    BY ONLY <2>1, <2>2
<1>2. CASE ProjectLoaded
  <2>1. /\ page = "bare" /\ page' = "shown" /\ summary' = Observed(summary)
        /\ UNCHANGED <<vars, returns, tasks, mutation, change, acked>>
    BY <1>2 DEF ProjectLoaded
  <2>2. PageTypeOK' /\ PageShape'
    BY <1>1, <2>1 DEF PageShape, TypeOK, vars, Query
  <2>3. ListInv' /\ CacheInv'
    BY <2>1 DEF ListInv, CacheInv, Cached, vars
  <2>4. SummaryInv'
    BY <1>1, <2>1 DEF SummaryInv, vars, Query
  <2>. QED
    BY <2>2, <2>3, <2>4
<1>3. CASE ProjectFailed \/ Leave
  <2>1. /\ page # "away" /\ page' \in {"bare", "away"}
        /\ UNCHANGED <<vars, returns, tasks, summary, mutation, change, acked>>
    BY <1>3 DEF ProjectFailed, Leave
  <2>. QED
    BY <2>1 DEF PageShape, TypeOK, vars, ListInv, CacheInv, Cached, SummaryInv
<1>4. CASE Return
  <2>1. /\ page = "away" /\ page' \in {"bare", "shown"} /\ tasks' = Observed(tasks)
        /\ summary' = IF page' = "shown" THEN Observed(summary) ELSE summary
        /\ UNCHANGED <<vars, mutation, change, acked>>
    BY <1>4 DEF Return
  <2>2. PageTypeOK' /\ PageShape'
    BY <1>1, <2>1 DEF PageShape, TypeOK, vars, Query
  <2>3. ListInv' /\ CacheInv'
    BY <1>1, <2>1 DEF ListInv, CacheInv, Cached, vars
  <2>4. SummaryInv'
    BY <1>1, <2>1 DEF SummaryInv, vars, Query
  <2>. QED
    BY <2>2, <2>3, <2>4
<1>. QED
  BY <1>2, <1>3, <1>4

\* The task list is read, arrives or fails.
LEMMA TaskSteps ==
  ASSUME PageInv, ReadTasks \/ TasksArrived \/ TasksFailed
  PROVE  PageInv'
<1>. USE DEF PageInv, PageTypeOK
<1>1. UNCHANGED <<vars, page, returns, summary, mutation, change, acked>>
  BY DEF ReadTasks, TasksArrived, TasksFailed
<1>2. tasks' \in Query /\ tasks'.at = None /\ (ListInv => ListInv')
  <2>1. CASE ReadTasks
    <3>1. tasks.fetch = "sent" /\ tasks' = [tasks EXCEPT !.fetch = "answered", !.value = version]
      BY <2>1 DEF ReadTasks
    <3>2. tasks' \in Query /\ tasks'.at = None /\ tasks'.fetch = "answered" /\ tasks'.value = version
      BY <3>1 DEF Query, TypeOK, PageShape
    <3>. QED
      BY <1>1, <3>2 DEF ListInv, UpTo, PageShape
  <2>2. CASE TasksArrived
    <3>1. tasks.fetch = "answered" /\ tasks' = Arrived(tasks, tasks.value, "none")
      BY <2>2 DEF TasksArrived
    <3>2. tasks.value \in Versions
      BY DEF Query
    <3>3. tasks' \in Query /\ tasks'.at = None
      BY <3>1, <3>2, Settles DEF Arrived, QueryOf
    <3>4. UpTo(tasks, acked) => UpTo(tasks', acked)
      <4>1. UpTo(tasks, acked) => (tasks.cause = "none" => tasks.value >= acked)
        BY <3>1 DEF UpTo
      <4>. QED
        BY <3>1, <3>2, <4>1, Settles
    <3>. QED
      BY <1>1, <3>3, <3>4 DEF ListInv
  <2>3. CASE TasksFailed
    <3>1. tasks' = AfterFailure(tasks)
      BY <2>3 DEF TasksFailed
    <3>. QED
      BY <1>1, <3>1, Settles DEF ListInv, AfterFailure, QueryOf
  <2>. QED
    BY <2>1, <2>2, <2>3
<1>3. PageTypeOK' /\ PageShape'
  BY <1>1, <1>2 DEF PageShape, TypeOK, vars
<1>4. CacheInv' /\ SummaryInv'
  BY <1>1 DEF CacheInv, SummaryInv, Cached, vars
<1>. QED
  BY <1>2, <1>3, <1>4

\* The cards are served from the cache.
LEMMA HitStep == ASSUME PageInv, SummaryHit PROVE PageInv'
<1>. USE DEF PageInv, PageTypeOK
<1>1. /\ Cached /\ summary' = Arrived(summary, entry.value, blame)
      /\ UNCHANGED <<vars, page, returns, tasks, mutation, change, acked>>
  BY DEF SummaryHit
<1>2. entry.value \in Versions /\ blame \in {"none", "set_after_write", "lost_invalidation"}
  BY DEF TypeOK
<1>3. summary' \in Query /\ summary'.at = None /\ summary'.fetch = "idle"
  BY <1>1, <1>2, Settles DEF Arrived, QueryOf
<1>4. UpTo(summary', acked)
  BY <1>1, <1>2, Settles, WritesAssumption DEF CacheInv, Versions
<1>5. PageTypeOK' /\ PageShape'
  BY <1>1, <1>3 DEF PageShape, TypeOK, vars
<1>6. ListInv' /\ CacheInv'
  BY <1>1 DEF ListInv, CacheInv, Cached, vars
<1>7. SummaryInv'
  BY <1>1, <1>3, <1>4 DEF SummaryInv
<1>. QED
  BY <1>5, <1>6, <1>7

\* The API misses, counts for the page or for somebody else, or gives up.
LEMMA ReaderSteps ==
  ASSUME PageInv, TypeOK', NEW r \in Readers,
         SummaryMiss(r) \/ SummaryCounted(r) \/ SummaryAborted(r) \/ (Compute(r) /\ UNCHANGED pageVars)
  PROVE  PageInv'
<1>. USE DEF PageInv, PageTypeOK
<1>1. UNCHANGED <<page, returns, tasks, mutation, change, acked>>
  BY DEF SummaryMiss, SummaryCounted, SummaryAborted, pageVars
<1>2. CASE SummaryMiss(r)
  <2>1. /\ reader[r].pc = "idle" /\ reader' = [reader EXCEPT ![r].pc = "missed"]
        /\ UNCHANGED <<version, entry, writer, blame>>
        /\ \/ /\ summary.fetch = "sent" /\ summary.at = None
              /\ summary' = [summary EXCEPT !.at = r]
           \/ summary' = summary
    BY <1>2 DEF SummaryMiss, GetMiss
  <2>2. reader'[r].pc = "missed" /\ \A q \in Readers : q # r => reader'[q] = reader[q]
    BY <2>1 DEF TypeOK
  <2>3. /\ summary' \in Query
        /\ summary'.fetch = summary.fetch /\ summary'.cause = summary.cause
        /\ summary'.data = summary.data /\ summary'.value = summary.value
        /\ summary'.at = summary.at \/ (summary'.at = r /\ summary.fetch = "sent")
    BY <2>1 DEF Query
  <2>4. PageTypeOK' /\ PageShape'
    BY <1>1, <2>1, <2>2, <2>3, ReadersAssumption DEF PageShape
  <2>5. ListInv' /\ CacheInv'
    BY <1>1, <2>1 DEF ListInv, CacheInv, Cached
  <2>6. SummaryInv'
    BY <1>1, <2>1, <2>2, <2>3 DEF SummaryInv, UpTo, PageShape
  <2>. QED
    BY <2>4, <2>5, <2>6
<1>3. CASE SummaryCounted(r)
  <2>1. /\ reader[r].pc = "computed" /\ reader' = [reader EXCEPT ![r] = Idle]
        /\ UNCHANGED <<version, writer>>
        /\ \/ /\ entry' = Stored(reader[r].value)
              /\ blame' = IF reader[r].value # version THEN "set_after_write" ELSE "none"
           \/ UNCHANGED <<entry, blame>>
        /\ summary' = IF summary.at = r THEN Arrived(summary, reader[r].value, "none") ELSE summary
    BY <1>3 DEF SummaryCounted, Set
  <2>2. /\ reader'[r] = Idle /\ reader[r].value \in Versions
        /\ \A q \in Readers : q # r => reader'[q] = reader[q]
    BY <2>1 DEF TypeOK
  <2>3. summary' \in Query /\ summary'.at # r /\ (summary.at # r => summary' = summary)
    BY <2>1, <2>2, Settles, ReadersAssumption DEF Arrived, QueryOf
  <2>4. summary.at = r => summary'.at = None /\ summary'.fetch = "idle"
    BY <2>1 DEF Arrived, QueryOf
  <2>5. PageTypeOK' /\ PageShape'
    BY <1>1, <2>1, <2>2, <2>3, <2>4 DEF PageShape
  <2>6. CacheInv'
    BY <1>1, <2>1, <2>2 DEF CacheInv, Cached, PageShape, Stored
  <2>7. ListInv'
    BY <1>1 DEF ListInv
  <2>8. SummaryInv'
    <3>1. CASE summary.at = r
      <4>1. SUFFICES ASSUME page = "shown",
                            \A m \in Writers : mutation[m] \notin {"tasks", "listed"}
                     PROVE  UpTo(summary', acked)
        BY <1>1, <2>4, <3>1 DEF SummaryInv
      <4>2. summary.cause = "none" => reader[r].value >= acked
        BY <2>1, <3>1, <4>1, ReadersAssumption DEF SummaryInv
      <4>. QED
        BY <2>1, <2>2, <3>1, <4>2, Settles
    <3>2. CASE summary.at # r
      BY <1>1, <2>2, <2>3, <3>2 DEF SummaryInv, PageShape
    <3>. QED
      BY <3>1, <3>2
  <2>. QED
    BY <2>5, <2>6, <2>7, <2>8
<1>4. CASE SummaryAborted(r)
  <2>1. /\ reader' = [reader EXCEPT ![r] = Idle]
        /\ UNCHANGED <<version, entry, writer, blame>>
        /\ IF summary.at = r
           THEN summary' \in {[summary EXCEPT !.at = None], AfterFailure(summary)}
           ELSE summary' = summary
    BY <1>4 DEF SummaryAborted, AbortGet
  <2>2. reader'[r] = Idle /\ \A q \in Readers : q # r => reader'[q] = reader[q]
    BY <2>1 DEF TypeOK
  <2>3. CASE summary.at = r
    <3>1. summary.fetch = "sent"
      BY <2>3, ReadersAssumption DEF PageShape
    <3>2. /\ [summary EXCEPT !.at = None] \in Query
          /\ [summary EXCEPT !.at = None].at = None
          /\ [summary EXCEPT !.at = None].fetch = "sent"
      BY <3>1 DEF Query
    <3>3. /\ AfterFailure(summary) \in Query /\ UpTo(AfterFailure(summary), acked)
          /\ AfterFailure(summary).at = None /\ AfterFailure(summary).fetch = "failed"
      BY Settles DEF AfterFailure, QueryOf
    <3>4. summary' \in Query /\ summary'.at = None /\ summary'.fetch \in {"sent", "failed"}
      BY <2>1, <2>3, <3>2, <3>3
    <3>5. PageTypeOK' /\ PageShape'
      BY <1>1, <2>1, <3>4 DEF PageShape
    <3>6. ListInv' /\ CacheInv' /\ SummaryInv'
      BY <1>1, <2>1, <3>4 DEF ListInv, CacheInv, Cached, SummaryInv, UpTo
    <3>. QED
      BY <3>5, <3>6
  <2>4. CASE summary.at # r
    <3>1. PageTypeOK' /\ PageShape'
      BY <1>1, <2>1, <2>2, <2>4 DEF PageShape
    <3>2. ListInv' /\ CacheInv' /\ SummaryInv'
      BY <1>1, <2>1, <2>2, <2>4 DEF ListInv, CacheInv, Cached, SummaryInv, PageShape
    <3>. QED
      BY <3>1, <3>2
  <2>. QED
    BY <2>3, <2>4
<1>5. CASE Compute(r) /\ UNCHANGED pageVars
  <2>1. /\ reader[r].pc = "missed"
        /\ reader' = [reader EXCEPT ![r] = [pc |-> "computed", value |-> version, age |-> 0]]
        /\ UNCHANGED <<version, entry, writer, blame>> /\ summary' = summary
    BY <1>5 DEF Compute, pageVars
  <2>2. /\ reader'[r] = [pc |-> "computed", value |-> version, age |-> 0]
        /\ \A q \in Readers : q # r => reader'[q] = reader[q]
    BY <2>1 DEF TypeOK
  <2>3. PageTypeOK' /\ PageShape'
    BY <1>1, <2>1, <2>2 DEF PageShape
  <2>4. ListInv' /\ CacheInv'
    BY <1>1, <2>1 DEF ListInv, CacheInv, Cached
  <2>5. SummaryInv'
    BY <1>1, <2>1, <2>2 DEF SummaryInv, PageShape
  <2>. QED
    BY <2>3, <2>4, <2>5
<1>. QED
  BY <1>2, <1>3, <1>4, <1>5

\* A mutation leaves, commits, fails, or has refetched all it had to.
LEMMA MutationSteps ==
  ASSUME PageInv, TypeOK', NEW m \in Writers,
         Mutate(m) \/ CommitOwn(m) \/ MutationFailed(m) \/ Finish(m)
  PROVE  PageInv'
<1>. USE DEF PageInv, PageTypeOK
<1>1. UNCHANGED <<page, returns, tasks, summary, acked, reader, entry, blame>>
  BY DEF Mutate, CommitOwn, MutationFailed, Finish, Commit, vars
<1>2. /\ mutation' \in [Writers -> Mutation]
      /\ \A w \in Writers : w # m => mutation'[w] = mutation[w]
      /\ \A w \in Writers : mutation'[w] \in {"tasks", "listed"} <=> mutation[w] \in {"tasks", "listed"}
  BY DEF Mutate, CommitOwn, MutationFailed, Finish, Mutation, PageShape
<1>3. /\ \/ version' = version /\ writer' = writer /\ change'[m] \in {change[m], 0}
         \/ /\ version' = version + 1 /\ change'[m] = version + 1 /\ writer'[m] = "committed"
            /\ \A w \in Writers : w # m => writer'[w] = writer[w]
      /\ \A w \in Writers : w # m => change'[w] = change[w]
      /\ change' \in [Writers -> Versions]
  <2>1. CASE CommitOwn(m)
    BY <2>1 DEF CommitOwn, Commit, TypeOK, Versions
  <2>2. CASE Mutate(m) \/ MutationFailed(m) \/ Finish(m)
    BY <2>2, WritesAssumption DEF Mutate, MutationFailed, Finish, vars, Versions
  <2>. QED
    BY <2>1, <2>2
<1>4. mutation'[m] = "committed" => writer'[m] = "committed"
  BY DEF Mutate, CommitOwn, MutationFailed, Finish, Commit, TypeOK
<1>5. version \in Nat /\ acked \in Nat /\ \A w \in Writers : change[w] \in Nat
  BY WritesAssumption DEF TypeOK, Versions
<1>6. PageTypeOK'
  BY <1>1, <1>2, <1>3 DEF Mutation
<1>7. PageShape'
  BY <1>1, <1>2, <1>3, <1>5 DEF PageShape
<1>8. ListInv' /\ SummaryInv'
  BY <1>1, <1>2 DEF ListInv, SummaryInv
<1>9. CacheInv'
  BY <1>1, <1>2, <1>3, <1>4 DEF CacheInv, Cached
<1>. QED
  BY <1>6, <1>7, <1>8, <1>9

\* The answer of a mutation: the page knows of its change, and the list is
\* fetched before the cards.
LEMMA AcknowledgeStep ==
  ASSUME PageInv, NEW m \in Writers, Acknowledge(m)
  PROVE  PageInv'
<1>. USE DEF PageInv, PageTypeOK
<1>1. /\ mutation[m] = "committed" /\ writer[m] = "idle"
      /\ acked' = IF change[m] > acked THEN change[m] ELSE acked
      /\ change' = [change EXCEPT ![m] = 0]
      /\ UNCHANGED <<vars, page, returns, summary>>
      /\ \/ /\ page # "away" /\ tasks' = Invalidated(tasks)
            /\ mutation' = [mutation EXCEPT ![m] = "tasks"]
         \/ /\ page = "away" /\ tasks' = tasks
            /\ mutation' = [mutation EXCEPT ![m] = "listed"]
  BY DEF Acknowledge
<1>2. /\ change[m] \in Versions /\ acked' \in Versions /\ acked' <= version
      /\ change' \in [Writers -> Versions] /\ \A w \in Writers : change'[w] <= version
      /\ \A w \in Writers : w # m => change'[w] = change[w]
  BY <1>1, WritesAssumption DEF PageShape, Versions, TypeOK
<1>3. /\ mutation' \in [Writers -> Mutation] /\ mutation'[m] \in {"tasks", "listed"}
      /\ \A w \in Writers : w # m => mutation'[w] = mutation[w]
  BY <1>1 DEF Mutation
<1>4. tasks' \in Query /\ tasks'.at = None /\ (page # "away" => UpTo(tasks', acked'))
  <2>1. CASE page # "away"
    <3>1. Invalidated(tasks) \in Query /\ \A v : UpTo(Invalidated(tasks), v)
      BY Refetched
    <3>2. Invalidated(tasks).at = None
      <4>1. Sent(tasks).at = None /\ [tasks EXCEPT !.cause = "joined"].at = None
        BY DEF Sent, QueryOf, Query, PageShape
      <4>. QED
        BY <4>1, Refetched
    <3>. QED
      BY <1>1, <2>1, <3>1, <3>2
  <2>2. CASE page = "away"
    BY <1>1, <2>2 DEF PageShape
  <2>. QED
    BY <2>1, <2>2
<1>6. PageTypeOK' /\ PageShape'
  BY <1>1, <1>2, <1>3, <1>4 DEF PageShape, TypeOK, vars, Mutation
<1>7. ListInv' /\ SummaryInv'
  BY <1>1, <1>3, <1>4 DEF ListInv, SummaryInv
<1>8. CacheInv'
  BY <1>1, <1>2, <1>3 DEF CacheInv, Cached, vars
<1>. QED
  BY <1>6, <1>7, <1>8

\* The refetch of the cards.
LEMMA RefetchStep ==
  ASSUME PageInv, NEW m \in Writers, RefetchSummary(m)
  PROVE  PageInv'
<1>. USE DEF PageInv, PageTypeOK
<1>1. /\ mutation[m] \in {"listed", "tasks"}
      /\ UNCHANGED <<vars, page, returns, tasks, change, acked>>
      /\ \/ /\ page = "shown" /\ summary' = Invalidated(summary)
            /\ mutation' = [mutation EXCEPT ![m] = "summary"]
         \/ /\ page # "shown" /\ summary' = summary
            /\ mutation' = [mutation EXCEPT ![m] = "idle"]
  BY DEF RefetchSummary
<1>2. /\ mutation' \in [Writers -> Mutation] /\ mutation'[m] \in {"summary", "idle"}
      /\ \A w \in Writers : w # m => mutation'[w] = mutation[w]
  BY <1>1 DEF Mutation, PageShape
<1>3. /\ Invalidated(summary) \in Query /\ \A v : UpTo(Invalidated(summary), v)
      /\ \/ Invalidated(summary).at = None /\ Invalidated(summary).fetch = "sent"
         \/ /\ Invalidated(summary).at = summary.at
            /\ Invalidated(summary).fetch = summary.fetch
            /\ Invalidated(summary).cause = "joined"
  <2>1. /\ Sent(summary).at = None /\ Sent(summary).fetch = "sent"
        /\ [summary EXCEPT !.cause = "joined"].at = summary.at
        /\ [summary EXCEPT !.cause = "joined"].fetch = summary.fetch
        /\ [summary EXCEPT !.cause = "joined"].cause = "joined"
    BY DEF Sent, QueryOf, Query
  <2>. QED
    BY <2>1, Refetched
<1>4. PageTypeOK' /\ PageShape'
  BY <1>1, <1>2, <1>3 DEF PageShape, TypeOK, vars, Mutation
<1>5. ListInv' /\ CacheInv'
  BY <1>1, <1>2 DEF ListInv, CacheInv, Cached, vars
<1>6. SummaryInv'
  BY <1>1, <1>3 DEF SummaryInv, vars
<1>. QED
  BY <1>4, <1>5, <1>6

\* The API's own steps: the invalidation of a mutation that committed.
LEMMA InvalidationSteps ==
  ASSUME PageInv, TypeOK', NEW w \in Writers, Invalidate(w) \/ InvalidateLost(w), UNCHANGED pageVars
  PROVE  PageInv'
<1>. USE DEF PageInv, PageTypeOK, pageVars
<1>1. /\ UNCHANGED <<version, reader>>
      /\ writer' = [writer EXCEPT ![w] = "idle"] /\ writer[w] = "committed"
      /\ \/ entry' = NoEntry
         \/ entry' = entry /\ blame' = IF Stale THEN "lost_invalidation" ELSE blame
  BY DEF Invalidate, InvalidateLost
<1>2. PageTypeOK' /\ PageShape'
  BY <1>1 DEF PageShape
<1>3. ListInv' /\ SummaryInv'
  BY <1>1 DEF ListInv, SummaryInv
<1>4. CacheInv'
  <2>1. CASE entry' = NoEntry
    BY <2>1 DEF CacheInv, Cached, NoEntry
  <2>2. CASE entry' = entry /\ Stale /\ blame' = "lost_invalidation"
    BY <2>2 DEF CacheInv
  <2>3. CASE entry' = entry /\ ~Stale
    <3>1. Cached => entry.value = version
      BY <2>3 DEF Stale
    <3>. QED
      BY <1>1, <2>3, <3>1 DEF CacheInv, Cached, PageShape
  <2>. QED
    BY <1>1, <2>1, <2>2, <2>3
<1>. QED
  BY <1>2, <1>3, <1>4

\* Time passes: for the page, an entry that expires takes no more than hits away.
LEMMA PageTickStep ==
  ASSUME PageInv, TypeOK', Tick, UNCHANGED pageVars
  PROVE  PageInv'
<1>. USE DEF PageInv, PageTypeOK, pageVars
<1>1. /\ UNCHANGED <<version, writer>> /\ reader' = [r \in Readers |-> Older(r)]
      /\ entry' = NoEntry \/ (entry.left > 1 /\ entry'.value = entry.value /\ blame' = blame)
  BY DEF Tick
<1>2. \A r \in Readers : reader'[r].pc = reader[r].pc /\ reader'[r].value = reader[r].value
  BY <1>1 DEF Older, TypeOK
<1>3. PageTypeOK' /\ PageShape'
  <2>1. PageTypeOK'
    OBVIOUS
  <2>2. summary.at # None => summary.at \in Readers /\ reader'[summary.at].pc # "idle"
    BY <1>2 DEF PageShape
  <2>. QED
    BY <1>1, <2>1, <2>2 DEF PageShape
<1>4. ListInv' /\ CacheInv'
  <2>1. entry' = NoEntry => ~Cached'
    BY DEF NoEntry, Cached
  <2>2. Cached' => Cached /\ entry'.value = entry.value /\ blame' = blame
    <3>1. entry.left \in Nat
      BY TimeAssumption DEF TypeOK
    <3>. QED
      BY <1>1, <2>1, <3>1 DEF Cached
  <2>. QED
    BY <1>1, <2>2 DEF ListInv, CacheInv
<1>5. SummaryInv'
  BY <1>2 DEF SummaryInv, PageShape
<1>. QED
  BY <1>3, <1>4, <1>5

LEMMA PageInvStep ==
  ASSUME TypeOK, TypeOK', PageInv, [PageNext]_allVars
  PROVE  PageInv'
<1>1. CASE UNCHANGED allVars
  BY <1>1 DEF allVars, pageVars, vars, PageInv, PageTypeOK, TypeOK, PageShape, ListInv, CacheInv,
              SummaryInv, Cached
<1>2. CASE PageNext
  BY <1>2, PageSteps, TaskSteps, HitStep, ReaderSteps, MutationSteps, AcknowledgeStep,
     RefetchStep, InvalidationSteps, PageTickStep DEF PageNext
<1>. QED
  BY <1>1, <1>2

\* PageInv is an invariant: what a query shows, what it is about to be served,
\* and what the cache holds without blame keep up with the acknowledged changes.
THEOREM PageInvariance == PageSpec => []PageInv
<1>1. PageSpec => []TypeOK
  BY PageUsesTheCache, TypeCorrect, PTL
<1>2. PageInv /\ TypeOK /\ TypeOK' /\ [PageNext]_allVars => PageInv'
  BY PageInvStep
<1>. QED
  BY <1>1, <1>2, InitPageInv, PTL DEF PageSpec

-----------------------------------------------------------------------------
\* A summary that the API's cache serves to the cards is the current one, or was
\* current less than Ttl + MaxDelay ticks before: the bound of the cache is one
\* of what the page is served.
THEOREM CardsAreRecent ==
  PageSpec => [][SummaryHit => \/ summary'.data = version
                               \/ superseded[summary'.data] < Bound]_allVars
<1>1. PageSpec => []StalenessBound
  BY PageUsesTheCache, StalenessIsBounded, PTL
<1>2. ASSUME StalenessBound, SummaryHit
      PROVE  summary'.data = version \/ superseded[summary'.data] < Bound
  <2>1. Cached /\ summary'.data = entry.value
    BY <1>2 DEF SummaryHit, Arrived, QueryOf
  <2>. QED
    BY <1>2, <2>1 DEF StalenessBound, Stale
<1>. QED
  BY <1>1, <1>2, PTL

\* Queries, mutations and what they were told keep their types.
THEOREM PageTypeCorrect == PageSpec => []PageTypeOK
<1>1. PageInv => PageTypeOK
  BY DEF PageInv
<1>. QED
  BY <1>1, PageInvariance, PTL

\* A task list that lacks an acknowledged change is being fetched, failed, or was
\* joined: no order of mutations, refetches, and visits hides a change otherwise.
THEOREM ListIsExplained == PageSpec => []ListHasCause
<1>1. PageInv => ListHasCause
  BY WritesAssumption
     DEF PageInv, PageTypeOK, Query, Versions, ListInv, UpTo, ListHasCause, Behind, Running
<1>. QED
  BY <1>1, PageInvariance, PTL

\* The same of the cards, whose answers come through the cache of the API: the
\* cache's own staleness reaches the page only with a cause.
THEOREM SummaryIsExplained == PageSpec => []SummaryHasCause
<1>1. PageInv => SummaryHasCause
  BY WritesAssumption
     DEF PageInv, PageTypeOK, PageShape, Query, Versions, SummaryInv, UpTo, SummaryHasCause,
         Behind, Running
<1>. QED
  BY <1>1, PageInvariance, PTL

=============================================================================
