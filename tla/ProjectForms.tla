----------------------------- MODULE ProjectForms -----------------------------
(***************************************************************************)
(* The pages that list, create, edit and remove a project: the queries        *)
(* ['projects'] and ['project', id] of the tab, the form of the edit page,    *)
(* which an effect fills again whenever the project's data changes and which  *)
(* sends both its fields, and the operations, which first await their         *)
(* refetches and then replace whatever page the tab shows by then.            *)
(*                                                                           *)
(* One project, from its creation on, which other tabs change, remove and     *)
(* insert again as well.  A text is the version of the project that           *)
(* introduced it, 0 the empty text.                                           *)
(***************************************************************************)
EXTENDS Sequences, QueryClient

CONSTANTS
    Fields,      \* the texts of a project: its name and its description
    Ops,         \* the operations a tab has under way at a time
    MaxVersions  \* bound: changes of the project

ASSUME NameAssumption == "name" \in Fields

VARIABLES
    log,    \* log[v]: the texts of the project at version v
    route,  \* the page that the tab shows
    one,    \* the query of the project
    all,    \* the query of the projects
    form,   \* the form on display: its texts, and the fields typed into
    op,     \* op[o]: the create, save or delete that is under way
    seen    \* the newest version that the tab was told of by an operation

formVars == <<log, route, one, all, form, op, seen>>

Gone == [f \in Fields |-> 0]  \* a project has a name
Row == IF log = <<>> THEN Gone ELSE log[Len(log)]
Exists == Row # Gone

Blank == [text |-> Gone, typed |-> {}]
Filled(v) == [text |-> IF v = None THEN Gone ELSE log[v], typed |-> {}]

\* at: the await; here: its form is still on display; read: the row as save()
\* read it; told, a history: the version that the form had to be as new as when
\* it was sent.
NoOp == [kind |-> "none", at |-> "none", here |-> FALSE, text |-> Gone, typed |-> {},
         read |-> Gone, change |-> 0, told |-> 0]

\* A tab opens the list: the project is there already, or to be created.
FormsInit ==
    /\ log \in {<<>>, <<[f \in Fields |-> 1]>>}
    /\ route = "projects"
    /\ one = NoQuery
    /\ all = Sent(NoQuery)
    /\ form = Blank
    /\ op = [o \in Ops |-> NoOp]
    /\ seen = 0

-----------------------------------------------------------------------------
(* Pages and queries *)

OnProject(r) == r \in {"project", "edit"}

\* Page r mounts; ops are the operations by then.
Go(r, ops) ==
    /\ route' = r
    /\ one' = IF OnProject(r) THEN Observed(one) ELSE one
    /\ all' = IF r = "projects" THEN Observed(all) ELSE all
    /\ form' = IF r = "edit" THEN Filled(one.data) ELSE Blank
    /\ op' = [o \in Ops |-> [ops[o] EXCEPT !.here = FALSE]]

\* A link, or back; an id comes from the list or from an operation.
Open(r) ==
    /\ r # route
    /\ OnProject(r) => seen > 0 \/ all.data \notin {None, 0} \/ one.data # None
    /\ Go(r, op)
    /\ UNCHANGED <<log, seen>>

\* A project that is gone is answered 404, which is a failure too.
ReadProject ==
    /\ one.fetch = "sent"
    /\ one' = IF Exists THEN [one EXCEPT !.fetch = "answered", !.value = Len(log)]
              ELSE AfterFailure(one)
    /\ UNCHANGED <<log, route, all, form, op, seen>>

\* Mutant: the effect fills the form once.
RefilledOnce(v) == IF one.data = None THEN Filled(v) ELSE form

\* The effect of the edit page: data of another version fills the form again,
\* whatever was typed by then.
Refilled(v) == IF v # one.data THEN Filled(v) ELSE form

ProjectArrived ==
    /\ one.fetch = "answered"
    /\ one' = Arrived(one, one.value, "none")
    /\ form' = IF route = "edit" THEN Refilled(one.value) ELSE form
    /\ UNCHANGED <<log, route, all, op, seen>>

ReadProjects ==
    /\ all.fetch = "sent"
    /\ all' = [all EXCEPT !.fetch = "answered", !.value = Len(log)]
    /\ UNCHANGED <<log, route, one, form, op, seen>>

ProjectsArrived ==
    /\ all.fetch = "answered"
    /\ all' = Arrived(all, all.value, "none")
    /\ UNCHANGED <<log, route, one, form, op, seen>>

FetchFailed ==
    /\ \/ one.fetch = "sent" /\ one' = AfterFailure(one) /\ UNCHANGED all
       \/ all.fetch = "sent" /\ all' = AfterFailure(all) /\ UNCHANGED one
    /\ UNCHANGED <<log, route, form, op, seen>>

-----------------------------------------------------------------------------
(* Forms *)

\* The edit page shows a spinner while the project loads for the first time,
\* and its form, with empty fields, when that failed.
FormShown == route = "new" \/ (route = "edit" /\ (one.data # None \/ ~Running(one)))

Type(f) ==
    /\ FormShown
    /\ form' = [form EXCEPT !.typed = @ \cup {f}]
    /\ UNCHANGED <<log, route, one, all, op, seen>>

\* Each button waits for the operation that it has started.
Start(o, request) ==
    /\ op[o] = NoOp
    /\ \A p \in Ops : ~(op[p].kind = request.kind /\ op[p].here)
    /\ op' = [op EXCEPT ![o] = [request EXCEPT !.at = "sent", !.here = TRUE]]
    /\ UNCHANGED <<log, route, one, all, form, seen>>

Named == "name" \in form.typed \/ form.text["name"] # 0

Submitted(kind) == [NoOp EXCEPT !.kind = kind, !.text = form.text, !.typed = form.typed]

Create(o) == route = "new" /\ log = <<>> /\ Named /\ Start(o, Submitted("create"))

\* The tab has removed the project and is about to leave its pages, whose query
\* it does not refetch.
Leaving == \E o \in Ops : op[o].kind = "delete" /\ op[o].at \in {"next", "all", "done"}

\* The page has an excuse to be behind what the tab was told of: its query is
\* fetched, has failed, or joined an older fetch, or the project is removed.
Excused == one.fetch # "idle" \/ one.cause # "none" \/ Leaving

Save(o) ==
    /\ route = "edit" /\ FormShown /\ Named
    /\ Start(o, [Submitted("save") EXCEPT !.told = IF Excused THEN 0 ELSE seen])

Remove(o) == route = "edit" /\ FormShown /\ Start(o, [NoOp EXCEPT !.kind = "delete"])

-----------------------------------------------------------------------------
(* Operations *)

\* findOwned of an update or a removal; without the project the answer is a 404.
FindOp(o) ==
    /\ op[o].at = "sent" /\ op[o].kind \in {"save", "delete"}
    /\ Exists
    /\ op' = [op EXCEPT ![o].at = "found"]
    /\ UNCHANGED <<log, route, one, all, form, seen>>

\* The SELECT of repo.save().
LoadOp(o) ==
    /\ op[o].at = "found" /\ op[o].kind = "save"
    /\ op' = [op EXCEPT ![o].at = "loaded", ![o].read = Row]
    /\ UNCHANGED <<log, route, one, all, form, seen>>

\* The form sends both its fields: what was typed is new, the rest is what the
\* form showed.
Sends(o) == [f \in Fields |-> IF f \in op[o].typed THEN Len(log) + 1 ELSE op[o].text[f]]

\* The UPDATE of repo.save(): the columns in which the form differs from the row
\* that was read.
Updated(o) == [f \in Fields |-> IF Sends(o)[f] # op[o].read[f] THEN Sends(o)[f] ELSE Row[f]]

\* Each operation's statement and the row that it leaves: an UPDATE or a DELETE
\* that finds no row any more leaves none, a save() that read none inserts the
\* project again.
Writes(o, row) ==
    \/ op[o].kind = "create" /\ op[o].at = "sent" /\ log = <<>> /\ row = Sends(o)
    \/ op[o].kind = "delete" /\ op[o].at = "found" /\ row = Gone
    \/ /\ op[o].kind = "save" /\ op[o].at = "loaded"
       /\ \/ op[o].read = Gone /\ ~Exists /\ row = Sends(o)
          \/ op[o].read # Gone /\ Exists /\ row = Updated(o)
          \/ op[o].read # Gone /\ ~Exists /\ row = Gone

\* The statement commits; one that changes nothing is no new version.
CommitOp(o) ==
    /\ Len(log) < MaxVersions
    /\ \E row \in [Fields -> 0 .. Len(log) + 1] :
         /\ Writes(o, row)
         /\ log' = IF row = Row THEN log ELSE Append(log, row)
    /\ op' = [op EXCEPT ![o] = [NoOp EXCEPT !.kind = op[o].kind, !.at = "committed",
                                            !.here = op[o].here, !.change = Len(log')]]
    /\ UNCHANGED <<route, one, all, form, seen>>

\* Another tab writes any texts, new ones or old ones, removes the project, or
\* inserts it again.  Bound: the last version is left to this tab.
OthersChange ==
    /\ log # <<>> /\ Len(log) + 1 < MaxVersions
    /\ \E row \in [Fields -> 0 .. Len(log) + 1] :
          /\ row # Row
          /\ row = Gone \/ row["name"] # 0
          /\ log' = Append(log, row)
    /\ UNCHANGED <<route, one, all, form, op, seen>>

\* An error, before or after the commit (that of an INSERT whose id is taken
\* again is one), a 404, or a lost answer.
OpFailed(o) ==
    /\ op[o].at \in {"sent", "found", "loaded", "committed"}
    /\ op' = [op EXCEPT ![o] = NoOp]
    /\ UNCHANGED <<log, route, one, all, form, seen>>

\* The answer; a save refetches the project, if a page shows it.
OpAnswered(o) ==
    /\ op[o].at = "committed"
    /\ seen' = IF op[o].change > seen THEN op[o].change ELSE seen
    /\ IF op[o].kind = "save" /\ OnProject(route)
       THEN one' = Invalidated(one) /\ op' = [op EXCEPT ![o].at = "one", ![o].change = 0]
       ELSE UNCHANGED one /\ op' = [op EXCEPT ![o].at = "next", ![o].change = 0]
    /\ UNCHANGED <<log, route, all, form>>

\* Then the list.
RefetchAll(o) ==
    /\ op[o].at = "next" \/ (op[o].at = "one" /\ ~Running(one))
    /\ IF route = "projects"
       THEN all' = Invalidated(all) /\ op' = [op EXCEPT ![o].at = "all"]
       ELSE UNCHANGED all /\ op' = [op EXCEPT ![o].at = "done"]
    /\ UNCHANGED <<log, route, one, form, seen>>

\* Then the page is replaced, whichever it is.
Redirect(o) ==
    LET target == IF op[o].kind = "delete" THEN "projects" ELSE "project"
        ops == [op EXCEPT ![o] = NoOp]
    IN  /\ op[o].at = "done" \/ (op[o].at = "all" /\ ~Running(all))
        /\ IF route = target THEN op' = ops /\ UNCHANGED <<route, one, all, form>>
           ELSE Go(target, ops)
        /\ UNCHANGED <<log, seen>>

FormsNext ==
    \/ \E r \in {"projects", "new", "project", "edit"} : Open(r)
    \/ ReadProject \/ ProjectArrived \/ ReadProjects \/ ProjectsArrived \/ FetchFailed
    \/ \E f \in Fields : Type(f)
    \/ \E o \in Ops : \/ Create(o) \/ Save(o) \/ Remove(o)
                      \/ FindOp(o) \/ LoadOp(o) \/ CommitOp(o) \/ OpFailed(o)
                      \/ OpAnswered(o) \/ RefetchAll(o) \/ Redirect(o)
    \/ OthersChange

FormsSpec == FormsInit /\ [][FormsNext]_formVars

-----------------------------------------------------------------------------
(* Properties *)

Pending == \E o \in Ops : op[o].at \in {"one", "next", "all", "done"}

Settled(q) == q.fetch = "idle" /\ q.cause = "none"

\* A page shows a project, or lists it, as it was before a change that was
\* acknowledged to the tab (one that was removed included) only while the
\* operation still awaits its refetches, while the query is fetched, when its
\* fetch failed, or when the page joined a fetch sent before the change.
ChangesAreShown ==
    /\ OnProject(route) /\ one.data # None /\ one.data < seen => Pending \/ ~Settled(one)
    /\ route = "projects" /\ all.data # None /\ all.data < seen => Pending \/ ~Settled(all)

\* The version that field f of the project has its text since.
ChangedAt(f) ==
    CHOOSE k \in DOMAIN log :
        /\ k = 1 \/ log[k][f] # log[k - 1][f]
        /\ \A j \in k + 1 .. Len(log) : log[j][f] = log[k][f]

\* The form sends both fields.  In the one its user did not type into, a save
\* takes back no change that the tab had been told of, unless the page had an
\* excuse when it was sent (told is 0 then): whenever the query has settled, the
\* form is up to date.
TakesBackOnlyUnseen ==
    [][\A o \in Ops :
          op[o].at = "loaded" /\ op'[o].at = "committed"
          => \A f \in Fields \ op[o].typed :
                Row'[f] # Row[f] => ChangedAt(f) > op[o].told]_formVars

-----------------------------------------------------------------------------
(* The inductive invariant behind ChangesAreShown and TakesBackOnlyUnseen *)

Texts == [Fields -> Nat]

FormsQuery == [fetch : {"idle", "failed", "sent", "answered"}, at : {None},
               value : 0 .. Len(log), data : 0 .. Len(log) \cup {None}, cause : {"none", "joined"}]

Operation == [kind : {"none", "create", "save", "delete"},
              at : {"none", "sent", "found", "loaded", "committed", "one", "next", "all", "done"},
              here : BOOLEAN, text : Texts, typed : SUBSET Fields, read : Texts,
              change : 0 .. Len(log), told : 0 .. Len(log)]

FormsTypeOK ==
    /\ log \in Seq(Texts)
    /\ route \in {"projects", "new", "project", "edit"}
    /\ one \in FormsQuery /\ all \in FormsQuery
    /\ form \in [text : Texts, typed : SUBSET Fields]
    /\ op \in [Ops -> Operation]
    /\ seen \in 0 .. Len(log)

\* A project is never shown before it is created.  A page that shows it keeps
\* up, or the tab has removed it and is about to leave the page.
OneInv ==
    /\ one.data # 0 /\ (one.fetch = "answered" => one.value # 0)
    /\ OnProject(route) =>
          /\ one.fetch = "idle" => one.data # None
          /\ UpTo(one, seen) \/ Leaving

\* The list keeps up, or an operation has still to refetch it.
AllInv == route = "projects" => UpTo(all, seen) \/ \E o \in Ops : op[o].at \in {"one", "next"}

\* What an operation stands for.  A save carries the texts of a version no
\* older than what it was told of.
OpInv ==
    \A o \in Ops :
        /\ op[o].at # "none" => op[o].kind # "none"
        /\ op[o].at = "one" => op[o].kind = "save"
        /\ op[o].kind = "create" /\ op[o].at = "committed" => op[o].change <= 1
        /\ op[o].at \in {"found", "loaded"} => op[o].kind \in {"save", "delete"} /\ log # <<>>
        /\ op[o].at = "loaded" => op[o].kind = "save"
        /\ op[o].kind = "save" /\ op[o].at \in {"sent", "found", "loaded"} /\ op[o].told > 0 =>
              \E d \in DOMAIN log : op[o].told <= d /\ op[o].text = log[d]

\* The form of the edit page has the texts of the project on display.
FormInv == route = "edit" => form.text = Filled(one.data).text

\* Every text was introduced at some version: ChangedAt is defined.
LogInv ==
    log # <<>> => \A f \in Fields : \E k \in DOMAIN log :
                     /\ k = 1 \/ log[k][f] # log[k - 1][f]
                     /\ \A j \in k + 1 .. Len(log) : log[j][f] = log[k][f]

FormsInv == FormsTypeOK /\ OneInv /\ AllInv /\ OpInv /\ FormInv /\ LogInv

=============================================================================
