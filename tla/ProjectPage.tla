----------------------------- MODULE ProjectPage -----------------------------
(***************************************************************************)
(* The project page of the web application on top of the API's summary       *)
(* cache: the queries ['tasks', id] and ['summary', id] of the tab, and the  *)
(* mutations of the task form and the task table, whose onSuccess first      *)
(* awaits the refetch of the tasks and then that of the summary.             *)
(*                                                                           *)
(* The writers of SummaryCache are the page's mutations.  One whose answer   *)
(* the page never gets is as good as one of another page.                    *)
(***************************************************************************)
EXTENDS SummaryCache, QueryClient

CONSTANT
    MaxReturns  \* bound: how often the user comes back to the page

ASSUME ReadersAssumption == None \notin Readers

VARIABLES
    page,      \* "bare": a spinner or an error for the project; "shown"; "away"
    returns,   \* how often the user came back
    tasks,     \* the query of the task list
    summary,   \* the query of the summary cards
    mutation,  \* mutation[m]: the await that mutation m is at
    change,    \* change[m]: the version that mutation m committed
    acked      \* the newest version that the page knows to be committed

pageVars == <<page, returns, tasks, summary, mutation, change, acked>>
allVars == <<vars, pageVars>>

PageInit ==
    /\ Init
    /\ page = "bare"
    /\ returns = 0
    /\ tasks = Sent(NoQuery)
    /\ summary = NoQuery
    /\ mutation = [m \in Writers |-> "idle"]
    /\ change = [m \in Writers |-> 0]
    /\ acked = 0

-----------------------------------------------------------------------------
(* The page *)

\* The project is there: cards, form and table mount beside a task list that
\* is observed already.
ProjectLoaded ==
    /\ page = "bare"
    /\ page' = "shown"
    /\ summary' = Observed(summary)
    /\ UNCHANGED <<vars, returns, tasks, mutation, change, acked>>

\* The refetch of the project fails: an error takes the place of cards, form
\* and table, while the tasks stay observed.
ProjectFailed ==
    /\ page = "shown"
    /\ page' = "bare"
    /\ UNCHANGED <<vars, returns, tasks, summary, mutation, change, acked>>

Leave ==
    /\ page # "away" /\ returns < MaxReturns
    /\ page' = "away"
    /\ UNCHANGED <<vars, returns, tasks, summary, mutation, change, acked>>

\* The project may be cached by now, and then everything mounts at once.
Return ==
    /\ page = "away"
    /\ page' \in {"bare", "shown"}
    /\ returns' = returns + 1
    /\ tasks' = Observed(tasks)
    /\ summary' = IF page' = "shown" THEN Observed(summary) ELSE summary
    /\ UNCHANGED <<vars, mutation, change, acked>>

-----------------------------------------------------------------------------
(* GET tasks and GET summary *)

\* TasksService.list: one query, whose answer takes its time.
ReadTasks ==
    /\ tasks.fetch = "sent"
    /\ tasks' = [tasks EXCEPT !.fetch = "answered", !.value = version]
    /\ UNCHANGED <<vars, page, returns, summary, mutation, change, acked>>

TasksArrived ==
    /\ tasks.fetch = "answered"
    /\ tasks' = Arrived(tasks, tasks.value, "none")
    /\ UNCHANGED <<vars, page, returns, summary, mutation, change, acked>>

TasksFailed ==
    /\ tasks.fetch = "sent"
    /\ tasks' = AfterFailure(tasks)
    /\ UNCHANGED <<vars, page, returns, summary, mutation, change, acked>>

\* The API finds the summary in Redis: stale, perhaps, for one of the reasons
\* of StaleHasCause.
SummaryHit ==
    /\ summary.fetch = "sent" /\ summary.at = None /\ Cached
    /\ summary' = Arrived(summary, entry.value, blame)
    /\ UNCHANGED <<vars, page, returns, tasks, mutation, change, acked>>

\* It does not, and counts: request r is the page's, or somebody else's.
SummaryMiss(r) ==
    /\ GetMiss(r)
    /\ \/ /\ summary.fetch = "sent" /\ summary.at = None
          /\ summary' = [summary EXCEPT !.at = r]
       \/ UNCHANGED summary
    /\ UNCHANGED <<page, returns, tasks, mutation, change, acked>>

SummaryCounted(r) ==
    /\ Set(r)
    /\ summary' = IF summary.at = r THEN Arrived(summary, reader[r].value, "none")
                  ELSE summary
    /\ UNCHANGED <<page, returns, tasks, mutation, change, acked>>

SummaryAborted(r) ==
    /\ AbortGet(r)
    /\ IF summary.at = r
       THEN summary' \in {[summary EXCEPT !.at = None], AfterFailure(summary)}
       ELSE UNCHANGED summary
    /\ UNCHANGED <<page, returns, tasks, mutation, change, acked>>

-----------------------------------------------------------------------------
(* The mutations *)

\* Add task, a status, Delete: the request leaves.
Mutate(m) ==
    /\ page = "shown"
    /\ mutation[m] = "idle" /\ writer[m] = "idle" /\ version < MaxWrites
    /\ mutation' = [mutation EXCEPT ![m] = "sent"]
    /\ UNCHANGED <<vars, page, returns, tasks, summary, change, acked>>

CommitOwn(m) ==
    /\ mutation[m] = "sent" /\ writer[m] = "idle" /\ Commit(m)
    /\ change' = [change EXCEPT ![m] = version + 1]
    /\ mutation' = [mutation EXCEPT ![m] = "committed"]
    /\ UNCHANGED <<page, returns, tasks, summary, acked>>

\* onSuccess, once the API has invalidated its cache and answered.
Acknowledge(m) ==
    /\ mutation[m] = "committed" /\ writer[m] = "idle"
    /\ acked' = IF change[m] > acked THEN change[m] ELSE acked
    /\ IF page # "away"
       THEN tasks' = Invalidated(tasks) /\ mutation' = [mutation EXCEPT ![m] = "tasks"]
       ELSE mutation' = [mutation EXCEPT ![m] = "listed"] /\ UNCHANGED tasks
    /\ change' = [change EXCEPT ![m] = 0]
    /\ UNCHANGED <<vars, page, returns, summary>>

\* The refetch of the tasks is over, or there was none to wait for.
RefetchSummary(m) ==
    /\ mutation[m] = "listed" \/ (mutation[m] = "tasks" /\ ~Running(tasks))
    /\ IF page = "shown"
       THEN summary' = Invalidated(summary) /\ mutation' = [mutation EXCEPT ![m] = "summary"]
       ELSE mutation' = [mutation EXCEPT ![m] = "idle"] /\ UNCHANGED summary
    /\ UNCHANGED <<vars, page, returns, tasks, change, acked>>

Finish(m) ==
    /\ mutation[m] = "summary" /\ ~Running(summary)
    /\ mutation' = [mutation EXCEPT ![m] = "idle"]
    /\ UNCHANGED <<vars, page, returns, tasks, summary, change, acked>>

\* The request fails, before or after its commit, or its answer is lost: the
\* form shows an error, the table nothing, and nothing is refetched.
MutationFailed(m) ==
    /\ mutation[m] \in {"sent", "committed"}
    /\ mutation' = [mutation EXCEPT ![m] = "idle"]
    /\ change' = [change EXCEPT ![m] = 0]
    /\ UNCHANGED <<vars, page, returns, tasks, summary, acked>>

PageNext ==
    \/ ProjectLoaded \/ ProjectFailed \/ Leave \/ Return
    \/ ReadTasks \/ TasksArrived \/ TasksFailed \/ SummaryHit
    \/ \E r \in Readers : SummaryMiss(r) \/ SummaryCounted(r) \/ SummaryAborted(r)
    \/ \E m \in Writers : \/ Mutate(m) \/ CommitOwn(m) \/ Acknowledge(m)
                            \/ RefetchSummary(m) \/ Finish(m) \/ MutationFailed(m)
    \/ /\ \/ \E r \in Readers : Compute(r)
          \/ \E w \in Writers : Invalidate(w) \/ InvalidateLost(w)
          \/ Tick
       /\ UNCHANGED pageVars

PageSpec == PageInit /\ [][PageNext]_allVars

-----------------------------------------------------------------------------
(* Properties *)

Query == [fetch : {"idle", "failed", "sent", "answered"}, at : Readers \cup {None},
          value : Versions, data : Versions \cup {None},
          cause : {"none", "joined", "set_after_write", "lost_invalidation"}]

\* The variables hold what the code can put there.
PageTypeOK ==
    /\ TypeOK
    /\ page \in {"bare", "shown", "away"}
    /\ tasks \in Query /\ summary \in Query
    /\ mutation \in [Writers -> {"idle", "sent", "committed", "tasks", "listed", "summary"}]
    /\ change \in [Writers -> Versions]
    /\ acked \in Versions

Behind(q) == page = "shown" /\ q.data # None /\ q.data < acked

\* The task list on display lacks a change that was acknowledged to the page
\* only while it is fetched, when its fetch failed, or when the invalidation
\* (or the mount) joined a fetch that was sent before the change.
ListHasCause == Behind(tasks) => Running(tasks) \/ tasks.fetch = "failed" \/ tasks.cause # "none"

\* The same for the summary cards, which come second: they may also wait for a
\* mutation that awaits the task list, or have been served a summary that the
\* API's cache keeps since an invalidation was lost or a count stored late.
SummaryHasCause ==
    Behind(summary) =>
        \/ Running(summary) \/ summary.fetch = "failed" \/ summary.cause # "none"
        \/ \E m \in Writers : mutation[m] \in {"tasks", "listed"}

-----------------------------------------------------------------------------
(* The inductive invariant behind ListHasCause and SummaryHasCause *)

\* Requests, mutations and the page go together.
PageShape ==
    /\ tasks.at = None
    /\ summary.at # None =>
          summary.at \in Readers /\ summary.fetch = "sent" /\ reader[summary.at].pc # "idle"
    /\ summary.fetch # "answered"
    /\ acked <= version /\ \A m \in Writers : change[m] <= version

ListInv == page # "away" => UpTo(tasks, acked)

\* A value that the cache serves without blame is as new as every change whose
\* writer is through with its invalidation.
CacheInv ==
    Cached /\ blame = "none" =>
        /\ acked <= entry.value
        /\ \A m \in Writers :
              mutation[m] = "committed" /\ writer[m] = "idle" => change[m] <= entry.value

\* The cards keep up, unless a mutation has still to refetch them.
SummaryInv ==
    page = "shown" /\ (\A m \in Writers : mutation[m] \notin {"tasks", "listed"}) =>
        /\ UpTo(summary, acked)
        /\ summary.at # None /\ summary.cause = "none" /\ reader[summary.at].pc = "computed"
              => reader[summary.at].value >= acked

PageInv == PageTypeOK /\ PageShape /\ ListInv /\ CacheInv /\ SummaryInv

=============================================================================
