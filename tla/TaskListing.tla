----------------------------- MODULE TaskListing -----------------------------
(***************************************************************************)
(* The pages of a project's tasks: TasksService.list, and a client that reads *)
(* one page after the other while other requests create, update and remove    *)
(* tasks.  A task is its place in the order of created_at, which no two tasks  *)
(* have in common, with the columns that the filters read.  Search, a test of  *)
(* the title, and priority are like status.                                    *)
(***************************************************************************)
EXTENDS Integers, FiniteSets

CONSTANTS
    Places,     \* the places of tasks in the order of their creation
    Statuses,
    Dates,      \* a date is a number; 0 is null, and a parameter not given
    Limits,     \* the page sizes that clients ask for
    MaxLeft,    \* bounds: the tasks that leave the list
    MaxEntered, \* and that enter it between the pages of a client
    NoTask      \* no task at this place

Columns == [status : Statuses, dueDate : Dates \cup {0}]
Queries == [status : Statuses \cup {"any"}, dueFrom : Dates \cup {0}, dueTo : Dates \cup {0}]

ASSUME PlacesAssumption == Places \subseteq Int /\ IsFiniteSet(Places)
ASSUME DatesAssumption == Dates \subseteq Nat \ {0}
ASSUME LimitsAssumption == Limits \subseteq Nat \ {0}
ASSUME BoundsAssumption == MaxLeft \in Nat /\ MaxEntered \in Nat
ASSUME NoTaskAssumption == NoTask \notin Columns

VARIABLES
    stored,  \* stored[i]: the task at a place
    query,   \* the filters of the client
    limit,   \* its page size, 0 before it has asked
    phase,   \* what it waits for: "nothing", the "items" or the "total" of a page; "done"
    page,    \* the last page whose items it has
    got,     \* the tasks it has been given
    due,     \* those listed with its first page and ever since
    left,    \* how many tasks have left the list since its first page
    entered, \* how many have entered it
    again    \* how many times it was given a task that it had

clientVars == <<query, limit, phase, page, got, again>>
listVars == <<stored, clientVars, due, left, entered>>

ListInit ==
    /\ stored = [i \in Places |-> NoTask]
    /\ query = [status |-> "any", dueFrom |-> 0, dueTo |-> 0]
    /\ limit = 0 /\ phase = "nothing" /\ page = 0
    /\ got = {} /\ due = {}
    /\ left = 0 /\ entered = 0 /\ again = 0

\* The WHERE of a query.  A comparison with null is not true.
Matches(task, q) ==
    /\ task # NoTask
    /\ q.status \in {"any", task.status}
    /\ q.dueFrom # 0 => task.dueDate # 0 /\ task.dueDate >= q.dueFrom
    /\ q.dueTo # 0 => task.dueDate # 0 /\ task.dueDate <= q.dueTo

Listed == {i \in Places : Matches(stored[i], query)}

\* The newest task has the position 1.
Position(i) == Cardinality({j \in Listed : j >= i})

\* Mutants: pages are counted from 0; every page begins with the last task of
\* the one before; a page has one task more than its limit.
SkippedFromZero(p) == p * limit
SkippedOneLess(p) == IF p = 1 THEN 0 ELSE (p - 1) * limit - 1

Skipped(p) == (p - 1) * limit

ItemsAndOneMore(p) ==
    {i \in Listed : Skipped(p) < Position(i) /\ Position(i) <= Skipped(p) + limit + 1}

Items(p) == {i \in Listed : Skipped(p) < Position(i) /\ Position(i) <= Skipped(p) + limit}

-----------------------------------------------------------------------------
(* The client *)

\* It asks for page 1.
Ask(q, l) ==
    /\ phase = "nothing"
    /\ query' = q /\ limit' = l /\ phase' = "items"
    /\ UNCHANGED <<stored, page, got, again, due, left, entered>>

\* The first statement of getManyAndCount answers with the items of the next page.
ReadItems ==
    /\ phase = "items"
    /\ page' = page + 1
    /\ got' = got \cup Items(page + 1)
    /\ again' = again + Cardinality(Items(page + 1) \cap got)
    /\ due' = IF page = 0 THEN Listed ELSE due
    /\ phase' = "total"
    /\ UNCHANGED <<stored, query, limit, left, entered>>

\* The second one counts.  The client stops when its pages reach the total, and asks
\* for the next page otherwise.
ReadTotal ==
    /\ phase = "total"
    /\ phase' = IF page * limit >= Cardinality(Listed) THEN "done" ELSE "items"
    /\ UNCHANGED <<stored, query, limit, page, got, again, due, left, entered>>

-----------------------------------------------------------------------------
(* Other requests *)

\* What a commit at a place means to the client.
Put(i, task) ==
    LET leaves == page > 0 /\ i \in Listed /\ ~Matches(task, query)
        enters == page > 0 /\ i \notin Listed /\ Matches(task, query)
    IN  /\ stored' = [stored EXCEPT ![i] = task]
        /\ due' = IF leaves THEN due \ {i} ELSE due
        /\ left' = IF leaves THEN left + 1 ELSE left
        /\ entered' = IF enters THEN entered + 1 ELSE entered
        /\ left' <= MaxLeft /\ entered' <= MaxEntered
        /\ UNCHANGED clientVars

\* A task need not become visible in the order of created_at, and save() may insert
\* a removed one again: a new task may have any free place.
CreateTask(i, columns) == stored[i] = NoTask /\ Put(i, columns)
UpdateTask(i, columns) == stored[i] # NoTask /\ Put(i, columns)
RemoveTask(i) == stored[i] # NoTask /\ Put(i, NoTask)

ListNext ==
    \/ \E q \in Queries, l \in Limits : Ask(q, l)
    \/ ReadItems
    \/ ReadTotal
    \/ \E i \in Places :
          \/ \E columns \in Columns : CreateTask(i, columns) \/ UpdateTask(i, columns)
          \/ RemoveTask(i)

ListSpec == ListInit /\ [][ListNext]_listVars

-----------------------------------------------------------------------------
(* Properties *)

\* A client that has read all pages has every task that was listed all the time,
\* but for at most as many as left the list meanwhile: a task that leaves moves
\* those behind it forward, one of them onto a page that is already read.  A
\* task that enters hides none.
ListSkipsNothing == phase = "done" => Cardinality(due \ got) <= left

\* A client is given a task again at most as many times as tasks entered the list.
ListRepeatsNothing == again <= entered

\* The inductive strengthening: the positions up to the last page's end hold no
\* more tasks that were missed than tasks left; the tasks that have been read, and are
\* behind it now, can be given again.
Missed == {i \in due \ got : Position(i) <= page * limit}
Ahead == {i \in got \cap Listed : Position(i) > page * limit}

ListTypeOK ==
    /\ stored \in [Places -> Columns \cup {NoTask}]
    /\ query \in Queries /\ limit \in Limits \cup {0}
    /\ phase \in {"nothing", "items", "total", "done"}
    /\ page \in Nat /\ left \in Nat /\ entered \in Nat /\ again \in Nat
    /\ got \subseteq Places /\ due \subseteq Listed

ListInv ==
    /\ ListTypeOK
    /\ phase = "nothing" => page = 0
    /\ page = 0 => got = {} /\ due = {} /\ phase \in {"nothing", "items"}
    /\ phase # "nothing" => limit # 0
    /\ Cardinality(Missed) <= left
    /\ again + Cardinality(Ahead) <= entered
    /\ ListSkipsNothing

=============================================================================
