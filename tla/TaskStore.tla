------------------------------ MODULE TaskStore ------------------------------
(***************************************************************************)
(* Projects and tasks in PostgreSQL under ProjectsService and TasksService. *)
(* Each request is a sequence of awaited statements; the requests of all    *)
(* users interleave between any two of them.  An update finds the row,      *)
(* changes the entity in memory and calls repo.save(), which reads the row  *)
(* again and writes the columns on which the two differ, or inserts the     *)
(* entity when the row is gone.                                             *)
(*                                                                          *)
(* Projects and tasks are rows of one function: they differ in the parent   *)
(* of a task, in the cascade and in the invalidation of the summary.        *)
(***************************************************************************)
CONSTANTS
    Users,
    Projects,  \* project ids
    Tasks,     \* task ids
    Fields,    \* the columns a client may change
    Values,    \* and their values
    Requests,  \* requests in progress
    None       \* no row, no id, no parent

Ids == Projects \cup Tasks

\* What a row says: whose it is, a task's project, the columns.
Row == [owner : Users, parent : Projects \cup {None}, fields : [Fields -> Values]]

ASSUME IdsAssumption == Projects \cap Tasks = {}
ASSUME NoneAssumption == None \notin Ids /\ None \notin Row

VARIABLES
    row,     \* row[i]: the row with primary key i
    used,    \* ids that gen_random_uuid() has given out
    pc,      \* pc[r]: the statement request r is at
    target,  \* target[r]: the id it works on
    entity,  \* entity[r]: the entity in its memory
    read,    \* read[r]: the row as save() read it
    given    \* given[r]: the columns its client asked to change

reqVars == <<pc, target, entity, read, given>>
vars == <<row, used, reqVars>>

Init ==
    /\ row = [i \in Ids |-> None]
    /\ used = {}
    /\ pc = [r \in Requests |-> "idle"]
    /\ target = [r \in Requests |-> None]
    /\ entity = [r \in Requests |-> None]
    /\ read = [r \in Requests |-> None]
    /\ given = [r \in Requests |-> {}]

\* A request body: any of the columns, or none.
Bodies == UNION {[fs -> Values] : fs \in SUBSET Fields}

Exists(i) == row[i] # None

\* findOwned: where: { id, ownerId }; anything else is a 404.
Owned(u, i) == Exists(i) /\ row[i].owner = u

\* Mutant: the foreign key without its check of the parent.
AnyParent(e) == TRUE

\* FK_tasks_project, when a row is inserted.
ParentExists(e) == e.parent # None => Exists(e.parent)

\* FK_tasks_project ON DELETE CASCADE.
Without(i) ==
    [j \in Ids |-> IF j = i \/ (Exists(j) /\ row[j].parent = i) THEN None ELSE row[j]]

\* The request is answered, with success or an error, or dies.
Finish(r) ==
    /\ pc' = [pc EXCEPT ![r] = "idle"]
    /\ target' = [target EXCEPT ![r] = None]
    /\ entity' = [entity EXCEPT ![r] = None]
    /\ read' = [read EXCEPT ![r] = None]
    /\ given' = [given EXCEPT ![r] = {}]

\* A task's request goes on to summary.invalidate, a project's is over.
Written(r) ==
    IF target[r] \in Tasks
    THEN pc' = [pc EXCEPT ![r] = "invalidate"] /\ UNCHANGED <<target, entity, read, given>>
    ELSE Finish(r)

-----------------------------------------------------------------------------
(* Creation *)

\* ProjectsService.create: one INSERT.
CreateProject(u, p, fields) ==
    /\ p \notin used
    /\ row' = [row EXCEPT ![p] = [owner |-> u, parent |-> None, fields |-> fields]]
    /\ used' = used \cup {p}
    /\ UNCHANGED reqVars

\* TasksService.create up to the INSERT: projects.getOne found the project.
CheckProject(r, u, p, fields) ==
    /\ pc[r] = "idle"
    /\ Owned(u, p)
    /\ entity' = [entity EXCEPT ![r] = [owner |-> u, parent |-> p, fields |-> fields]]
    /\ pc' = [pc EXCEPT ![r] = "insert"]
    /\ UNCHANGED <<row, used, target, read, given>>

\* The INSERT under a new id; a 500 if the project has gone since.
InsertTask(r, t) ==
    /\ pc[r] = "insert"
    /\ t \notin used
    /\ IF ParentExists(entity[r])
       THEN /\ row' = [row EXCEPT ![t] = entity[r]]
            /\ used' = used \cup {t}
            /\ target' = [target EXCEPT ![r] = t]
            /\ pc' = [pc EXCEPT ![r] = "invalidate"]
            /\ UNCHANGED <<entity, read, given>>
       ELSE Finish(r) /\ UNCHANGED <<row, used>>

-----------------------------------------------------------------------------
(* Update: find, then repo.save *)

\* What the service makes of the entity it found.
Changed(found, body) ==
    [found EXCEPT !.fields = [f \in Fields |-> IF f \in DOMAIN body THEN body[f] ELSE @[f]]]

FindForUpdate(r, u, i, body) ==
    /\ pc[r] = "idle"
    /\ Owned(u, i)
    /\ target' = [target EXCEPT ![r] = i]
    /\ entity' = [entity EXCEPT ![r] = Changed(row[i], body)]
    /\ given' = [given EXCEPT ![r] = DOMAIN body]
    /\ pc' = [pc EXCEPT ![r] = "load"]
    /\ UNCHANGED <<row, used, read>>

\* save() reads the row by its primary key.
LoadForSave(r) ==
    /\ pc[r] = "load"
    /\ read' = [read EXCEPT ![r] = row[target[r]]]
    /\ pc' = [pc EXCEPT ![r] = "write"]
    /\ UNCHANGED <<row, used, target, entity, given>>

\* The columns of an UPDATE: those in which the entity differs from what was read.
SavedFields(loaded, e, now) ==
    [f \in Fields |-> IF loaded.fields[f] # e.fields[f] THEN e.fields[f] ELSE now.fields[f]]

\* save() writes: an UPDATE of the row it read, which matches nothing if the
\* row has gone since; or an INSERT, under the old id, of an entity whose row
\* it did not find, which the primary key or the foreign key may refuse.
WriteSaved(r) ==
    LET i == target[r] IN
    /\ pc[r] = "write"
    /\ \/ /\ read[r] # None
          /\ row' = IF Exists(i)
                    THEN [row EXCEPT ![i].fields = SavedFields(read[r], entity[r], row[i])]
                    ELSE row
          /\ Written(r)
       \/ /\ read[r] = None
          /\ ~Exists(i) /\ ParentExists(entity[r])
          /\ row' = [row EXCEPT ![i] = entity[r]]
          /\ Written(r)
       \/ /\ read[r] = None
          /\ Exists(i) \/ ~ParentExists(entity[r])
          /\ Finish(r)
          /\ UNCHANGED row
    /\ UNCHANGED used

-----------------------------------------------------------------------------
(* Removal, invalidation, failure *)

FindForRemove(r, u, i) ==
    /\ pc[r] = "idle"
    /\ Owned(u, i)
    /\ target' = [target EXCEPT ![r] = i]
    /\ entity' = [entity EXCEPT ![r] = row[i]]
    /\ pc' = [pc EXCEPT ![r] = "delete"]
    /\ UNCHANGED <<row, used, read, given>>

\* Mutant: a removal that returns without invalidating.
DeleteAndReturn(r) ==
    /\ pc[r] = "delete"
    /\ row' = Without(target[r])
    /\ Finish(r)
    /\ UNCHANGED used

\* repo.remove: the DELETE, which may find the row already gone.
DeleteFound(r) ==
    /\ pc[r] = "delete"
    /\ row' = Without(target[r])
    /\ Written(r)
    /\ UNCHANGED used

\* summary.invalidate of the project in the entity, and the answer.
Invalidate(r) ==
    /\ pc[r] = "invalidate"
    /\ Finish(r)
    /\ UNCHANGED <<row, used>>

\* A statement fails, or its answer is lost, or the process dies.
Abort(r) ==
    /\ pc[r] # "idle"
    /\ Finish(r)
    /\ UNCHANGED <<row, used>>

Next ==
    \/ \E u \in Users, p \in Projects, fields \in [Fields -> Values] :
          CreateProject(u, p, fields)
    \/ \E r \in Requests :
          \/ \E u \in Users, p \in Projects, fields \in [Fields -> Values] :
                CheckProject(r, u, p, fields)
          \/ \E t \in Tasks : InsertTask(r, t)
          \/ \E u \in Users, i \in Ids :
                \/ \E body \in Bodies : FindForUpdate(r, u, i, body)
                \/ FindForRemove(r, u, i)
          \/ LoadForSave(r)
          \/ WriteSaved(r)
          \/ DeleteFound(r)
          \/ Invalidate(r)
          \/ Abort(r)

Spec == Init /\ [][Next]_vars

-----------------------------------------------------------------------------
(* Properties *)

\* The variables hold what the code can put there.
TypeOK ==
    /\ row \in [Ids -> Row \cup {None}]
    /\ used \subseteq Ids
    /\ pc \in [Requests -> {"idle", "insert", "load", "write", "delete", "invalidate"}]
    /\ target \in [Requests -> Ids \cup {None}]
    /\ entity \in [Requests -> Row \cup {None}]
    /\ read \in [Requests -> Row \cup {None}]
    /\ given \in [Requests -> SUBSET Fields]

\* Every task belongs to a project that exists and to the owner of that
\* project, however creations, removals of the project and saves that insert
\* a removed row again interleave.
TasksBelong ==
    \A t \in Tasks : Exists(t) =>
        /\ row[t].parent \in Projects
        /\ Exists(row[t].parent)
        /\ row[row[t].parent].owner = row[t].owner

\* A committed change of a task leaves some request on its way to invalidate
\* the summary of the task's project; only the cascade of a project does
\* without.  Nobody can ask for the summary of a project that is gone, but one
\* that a racing save() inserts again finds its old summary in the cache: to
\* SummaryCache that is a lost invalidation.
ChangesAreInvalidated ==
    [][\A t \in Tasks : row'[t] # row[t] =>
         LET project == IF Exists(t) THEN row[t].parent ELSE row'[t].parent
         IN  \/ row'[project] = None
             \/ \E r \in Requests : /\ pc'[r] = "invalidate"
                                    /\ entity'[r].parent = project]_vars

\* The tests' "updates only provided fields": the write of an update changes
\* no column that its client did not name.
UpdatesOnlyProvidedFields ==
    [][\A r \in Requests : \A f \in Fields \ given[r] :
         pc[r] = "write" /\ pc'[r] # "write" /\ Exists(target[r])
            => row'[target[r]].fields[f] = row[target[r]].fields[f]]_vars

\* The tests' "204 then 404 afterwards": a removed row does not come back.
RemovedStaysRemoved ==
    [][\A i \in used : ~Exists(i) => row'[i] = None]_vars

-----------------------------------------------------------------------------
(* The inductive strengthening of TasksBelong and ChangesAreInvalidated *)

\* A task, a project: as rows and as the entities of requests.
Shaped(i, e) == /\ i \in Tasks => e.parent \in Projects
                /\ i \in Projects => e.parent = None

RowsShaped == \A i \in Ids : Exists(i) => Shaped(i, row[i])

RequestsShaped ==
    \A r \in Requests :
        /\ IF pc[r] = "idle" THEN target[r] = None /\ entity[r] = None ELSE entity[r] # None
        /\ pc[r] = "insert" => target[r] = None /\ entity[r].parent \in Projects
        /\ pc[r] \in {"load", "write", "delete", "invalidate"} => target[r] # None
        /\ target[r] # None => entity[r] # None /\ Shaped(target[r], entity[r])

\* A row's project is there.
ParentsExist == \A t \in Tasks : Exists(t) => Exists(row[t].parent)

\* A row or an entity says that id i, or the project i of a task, is u's.
SaysOwner(i, u) ==
    \/ Exists(i) /\ row[i].owner = u
    \/ \E t \in Tasks : Exists(t) /\ row[t].parent = i /\ row[t].owner = u
    \/ \E r \in Requests : /\ entity[r] # None
                           /\ entity[r].owner = u
                           /\ target[r] = i \/ entity[r].parent = i

\* All that say whose an id is say the same, removed rows included, and ids
\* that nobody got yet are in nobody's hands.
OwnersAgree ==
    /\ \A i \in Ids, u, v \in Users : SaysOwner(i, u) /\ SaysOwner(i, v) => u = v
    /\ \A i \in Ids, u \in Users : SaysOwner(i, u) => i \in used

\* A task's row or an entity of it says that its project is p.
SaysParent(t, p) ==
    \/ Exists(t) /\ row[t].parent = p
    \/ \E r \in Requests : entity[r] # None /\ target[r] = t /\ entity[r].parent = p

\* No task moves to another project: whatever its requests have read of it, it
\* is, and was, of one project.
ParentsAgree ==
    \A t \in Tasks, p, q \in Projects : SaysParent(t, p) /\ SaysParent(t, q) => p = q

IInv ==
    TypeOK /\ RowsShaped /\ RequestsShaped /\ ParentsExist /\ OwnersAgree /\ ParentsAgree

=============================================================================
