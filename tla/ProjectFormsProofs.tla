-------------------------- MODULE ProjectFormsProofs --------------------------
(***************************************************************************)
(* The pages that list, create, edit and remove a project, for any texts,   *)
(* any number of operations under way and any history of the project: the  *)
(* pages keep up with what the tab was told of, and a save takes back only *)
(* what its form could not know.                                           *)
(***************************************************************************)
EXTENDS ProjectForms, TLAPS

-----------------------------------------------------------------------------
(* Queries *)

\* A query that is observed or invalidated is fetched from now on, or joined;
\* what it shows stays.
LEMMA Refetched ==
  ASSUME NEW q \in FormsQuery
  PROVE  /\ Observed(q) \in FormsQuery /\ Invalidated(q) \in FormsQuery
         /\ \A r \in {Observed(q), Invalidated(q)} :
               /\ \A v : UpTo(r, v)
               /\ r.fetch # "idle" /\ r.data = q.data
               /\ r.fetch = "answered" => q.fetch = "answered" /\ r.value = q.value
<1>1. /\ Sent(q) \in [fetch : {"idle", "failed", "sent", "answered"}, at : {None}, value : {0},
                      data : {q.data}, cause : {"none"}]
      /\ Sent(q).fetch = "sent"
  BY DEF Sent, QueryOf
<1>2. Sent(q) \in FormsQuery /\ \A v : UpTo(Sent(q), v)
  <2>1. q.data \in 0 .. Len(log) \cup {None} /\ 0 \in 0 .. Len(log)
    BY DEF FormsQuery
  <2>. QED
    BY <1>1, <2>1 DEF FormsQuery, UpTo
<1>3. /\ [q EXCEPT !.cause = "joined"] \in FormsQuery
      /\ \A v : UpTo([q EXCEPT !.cause = "joined"], v)
  BY DEF FormsQuery, UpTo
<1>4. \A r \in {Observed(q), Invalidated(q)} :
         r = Sent(q) \/ (Running(q) /\ r = [q EXCEPT !.cause = "joined"])
  BY DEF Observed, Invalidated
<1>. QED
  BY <1>1, <1>2, <1>3, <1>4 DEF FormsQuery, Running

\* A fetch that is answered, arrives or fails.
LEMMA Settles ==
  ASSUME NEW q \in FormsQuery, NEW v \in 0 .. Len(log)
  PROVE  /\ AfterFailure(q) \in FormsQuery
         /\ AfterFailure(q).fetch = "failed" /\ AfterFailure(q).data = q.data
         /\ \A n : UpTo(AfterFailure(q), n)
         /\ Arrived(q, v, "none") \in FormsQuery
         /\ Arrived(q, v, "none").fetch = "idle" /\ Arrived(q, v, "none").data = v
         /\ \A n : (q.cause = "none" => v >= n) => UpTo(Arrived(q, v, "none"), n)
         /\ [q EXCEPT !.fetch = "answered", !.value = v] \in FormsQuery
         /\ [q EXCEPT !.fetch = "answered", !.value = v].fetch = "answered"
         /\ [q EXCEPT !.fetch = "answered", !.value = v].value = v
         /\ [q EXCEPT !.fetch = "answered", !.value = v].data = q.data
         /\ \A n : v >= n => UpTo([q EXCEPT !.fetch = "answered", !.value = v], n)
<1>1. q.data \in 0 .. Len(log) \cup {None} /\ 0 \in 0 .. Len(log) /\ q.cause \in {"none", "joined"}
  BY DEF FormsQuery
<1>2. /\ AfterFailure(q) \in FormsQuery
      /\ AfterFailure(q).fetch = "failed" /\ AfterFailure(q).data = q.data
      /\ \A n : UpTo(AfterFailure(q), n)
  BY <1>1 DEF AfterFailure, QueryOf, FormsQuery, UpTo
<1>3. /\ Arrived(q, v, "none") \in FormsQuery
      /\ Arrived(q, v, "none").fetch = "idle" /\ Arrived(q, v, "none").data = v
      /\ \A n : (q.cause = "none" => v >= n) => UpTo(Arrived(q, v, "none"), n)
  BY <1>1 DEF Arrived, QueryOf, FormsQuery, UpTo
<1>4. /\ [q EXCEPT !.fetch = "answered", !.value = v] \in FormsQuery
      /\ [q EXCEPT !.fetch = "answered", !.value = v].fetch = "answered"
      /\ [q EXCEPT !.fetch = "answered", !.value = v].value = v
      /\ [q EXCEPT !.fetch = "answered", !.value = v].data = q.data
  BY DEF FormsQuery
<1>5. \A n : v >= n => UpTo([q EXCEPT !.fetch = "answered", !.value = v], n)
  BY <1>4 DEF UpTo
<1>. QED
  BY <1>2, <1>3, <1>4, <1>5

-----------------------------------------------------------------------------
(* The inductive invariant *)

LEMMA NoOpFacts ==
  ASSUME FormsTypeOK
  PROVE  Gone \in Texts /\ NoOp \in Operation /\ NoOp.kind = "none" /\ NoOp.at = "none"
<1>1. Gone \in Texts /\ 0 \in 0 .. Len(log)
  BY DEF Gone, Texts, FormsTypeOK
<1>. QED
  BY <1>1 DEF NoOp, Operation

LEMMA InitFormsInv == FormsInit => FormsInv
<1>. SUFFICES ASSUME FormsInit PROVE FormsInv
  OBVIOUS
<1>. USE DEF FormsInit
<1>1. log \in Seq(Texts) /\ Len(log) \in Nat
  <2>1. CASE log = <<>>
    BY <2>1
  <2>2. CASE log = <<[f \in Fields |-> 1]>>
    <3>1. [f \in Fields |-> 1] \in Texts
      BY DEF Texts
    <3>. QED
      BY <2>2, <3>1
  <2>. QED
    BY <2>1, <2>2
<1>2. Gone \in Texts
  BY DEF Gone, Texts
<1>3. NoQuery \in FormsQuery /\ Sent(NoQuery) \in FormsQuery
  BY <1>1 DEF NoQuery, Sent, QueryOf, FormsQuery
<1>4. NoOp \in Operation
  BY <1>1, <1>2 DEF NoOp, Operation
<1>5. FormsTypeOK
  BY <1>1, <1>2, <1>3, <1>4 DEF FormsTypeOK, Blank
<1>6. OneInv /\ AllInv /\ FormInv
  BY NoneAssumption DEF OneInv, AllInv, FormInv, NoQuery, Sent, QueryOf, OnProject, UpTo
<1>7. OpInv
  BY DEF OpInv, NoOp
<1>8. LogInv
  BY DEF LogInv
<1>. QED
  BY <1>5, <1>6, <1>7, <1>8 DEF FormsInv

\* Whatever the operations, a page that mounts is up to date or fetches.
LEMMA Mounting ==
  ASSUME FormsInv, NEW r \in {"projects", "new", "project", "edit"},
         NEW ops \in [Ops -> Operation],
         Go(r, ops), UNCHANGED <<log, seen>>
  PROVE  FormsTypeOK' /\ OneInv' /\ AllInv' /\ FormInv' /\ LogInv'
<1>. USE DEF FormsInv
<1>1. /\ route' = r
      /\ one' = IF OnProject(r) THEN Observed(one) ELSE one
      /\ all' = IF r = "projects" THEN Observed(all) ELSE all
      /\ form' = IF r = "edit" THEN Filled(one.data) ELSE Blank
      /\ op' = [o \in Ops |-> [ops[o] EXCEPT !.here = FALSE]]
      /\ log' = log /\ seen' = seen
  BY DEF Go
<1>2. one \in FormsQuery /\ all \in FormsQuery
  BY DEF FormsTypeOK
<1>3. one' \in FormsQuery /\ all' \in FormsQuery
  BY <1>1, <1>2, Refetched
<1>4. Filled(one.data) \in [text : Texts, typed : SUBSET Fields] /\ Blank \in [text : Texts, typed : SUBSET Fields]
  <2>1. Gone \in Texts
    BY DEF Gone, Texts
  <2>2. one.data # None => log[one.data] \in Texts
    BY <1>2 DEF FormsTypeOK, FormsQuery, OneInv
  <2>. QED
    BY <2>1, <2>2 DEF Filled, Blank
<1>5. op' \in [Ops -> Operation]
  BY <1>1, ZenonT(40) DEF Operation
<1>6. FormsTypeOK'
  BY <1>1, <1>3, <1>4, <1>5 DEF FormsTypeOK, FormsQuery, Operation
<1>7. one'.data = one.data
  BY <1>1, <1>2, Refetched
<1>8. OneInv'
  <2>1. one'.data # 0 /\ (one'.fetch = "answered" => one'.value # 0)
    BY <1>1, <1>2, <1>7, Refetched DEF OneInv
  <2>2. OnProject(r) => one'.fetch # "idle" /\ UpTo(one', seen')
    BY <1>1, <1>2, Refetched
  <2>. QED
    BY <1>1, <2>1, <2>2 DEF OneInv, Leaving, UpTo, OnProject
<1>9. AllInv'
  <2>1. r = "projects" => UpTo(all', seen')
    BY <1>1, <1>2, Refetched
  <2>. QED
    BY <1>1, <2>1 DEF AllInv, UpTo
<1>10. FormInv'
  BY <1>1, <1>7 DEF FormInv, Filled, Gone
<1>11. LogInv'
  BY <1>1 DEF LogInv
<1>. QED
  BY <1>6, <1>8, <1>9, <1>10, <1>11

\* The pages and their queries: no operation moves.
LEMMA OpenStep ==
  ASSUME FormsInv, NEW r \in {"projects", "new", "project", "edit"}, Open(r)
  PROVE  FormsInv'
<1>1. Go(r, op) /\ UNCHANGED <<log, seen>> /\ op \in [Ops -> Operation]
  BY DEF Open, FormsInv, FormsTypeOK
<1>2. FormsTypeOK' /\ OneInv' /\ AllInv' /\ FormInv' /\ LogInv'
  BY <1>1, Mounting
<1>3. \A o \in Ops :
         /\ op'[o].kind = op[o].kind /\ op'[o].at = op[o].at /\ op'[o].text = op[o].text
         /\ op'[o].change = op[o].change /\ op'[o].told = op[o].told
  BY <1>1 DEF Go, Operation
<1>4. OpInv'
  BY <1>1, <1>3 DEF FormsInv, OpInv
<1>. QED
  BY <1>2, <1>4 DEF FormsInv

LEMMA QuerySteps ==
  ASSUME FormsInv,
         \/ ReadProject \/ ProjectArrived \/ ReadProjects \/ ProjectsArrived \/ FetchFailed
         \/ \E f \in Fields : Type(f)
  PROVE  FormsInv'
<1>. USE DEF FormsInv
<1>1. /\ UNCHANGED <<log, route, op, seen>>
      /\ one \in FormsQuery /\ all \in FormsQuery
      /\ Len(log) \in 0 .. Len(log) /\ one.value \in 0 .. Len(log) /\ all.value \in 0 .. Len(log)
      /\ seen \in 0 .. Len(log)
      /\ form \in [text : Texts, typed : SUBSET Fields]
  BY DEF ReadProject, ProjectArrived, ReadProjects, ProjectsArrived, FetchFailed, Type,
         FormsTypeOK, FormsQuery
<1>2. OpInv' /\ LogInv'
  BY <1>1 DEF OpInv, LogInv
<1>3. ASSUME one' \in FormsQuery, all' \in FormsQuery,
             form' \in [text : Texts, typed : SUBSET Fields],
             one'.data # 0 /\ (one'.fetch = "answered" => one'.value # 0),
             one'.fetch = "idle" => one'.data # None \/ one' = one,
             UpTo(one, seen) => UpTo(one', seen),
             UpTo(all, seen) => UpTo(all', seen),
             route = "edit" => form'.text = Filled(one'.data).text
      PROVE  FormsInv'
  <2>1. FormsTypeOK'
    BY <1>1, <1>3 DEF FormsTypeOK, FormsQuery, Operation
  <2>2. OneInv' /\ AllInv'
    BY <1>1, <1>3 DEF OneInv, AllInv, Leaving, UpTo, OnProject
  <2>3. FormInv'
    BY <1>1, <1>3 DEF FormInv, Filled, Gone
  <2>. QED
    BY <1>2, <2>1, <2>2, <2>3
<1>4. CASE ReadProject
  <2>1. CASE Exists
    <3>1. one' = [one EXCEPT !.fetch = "answered", !.value = Len(log)]
          /\ UNCHANGED <<all, form>> /\ Len(log) # 0
      BY <1>4, <2>1 DEF ReadProject, Exists, Row, FormsTypeOK
    <3>2. Len(log) >= seen
      BY <1>1
    <3>3. /\ one' \in FormsQuery /\ one'.fetch = "answered" /\ one'.value = Len(log)
          /\ one'.data = one.data /\ UpTo(one', seen)
      BY <1>1, <3>1, <3>2, Settles
    <3>. QED
      BY <1>1, <1>3, <3>1, <3>3 DEF OneInv, FormInv
  <2>2. CASE ~Exists
    <3>1. one' = AfterFailure(one) /\ UNCHANGED <<all, form>>
      BY <1>4, <2>2 DEF ReadProject
    <3>. QED
      BY <1>1, <1>3, <3>1, Settles DEF OneInv, FormInv
  <2>. QED
    BY <2>1, <2>2
<1>5. CASE ProjectArrived
  <2>1. /\ one.fetch = "answered" /\ one' = Arrived(one, one.value, "none")
        /\ form' = IF route = "edit" THEN Refilled(one.value) ELSE form
        /\ UNCHANGED all
    BY <1>5 DEF ProjectArrived
  <2>2. one.value # 0 /\ one.value # None
    BY <1>1, <2>1, NoneAssumption DEF OneInv
  <2>3. Filled(one.value) \in [text : Texts, typed : SUBSET Fields]
    BY <1>1, <2>2 DEF Filled, FormsTypeOK
  <2>4. form' \in [text : Texts, typed : SUBSET Fields]
    BY <1>1, <2>1, <2>3 DEF Refilled
  <2>5. route = "edit" => form'.text = Filled(one.value).text
    BY <2>1 DEF Refilled, FormInv
  <2>6. UpTo(one, seen) => UpTo(one', seen)
    BY <1>1, <2>1, Settles DEF UpTo
  <2>7. one' \in FormsQuery /\ one'.fetch = "idle" /\ one'.data = one.value
    <3>1. one \in FormsQuery /\ one.value \in 0 .. Len(log)
      BY <1>1
    <3>2. /\ Arrived(one, one.value, "none") \in FormsQuery
          /\ Arrived(one, one.value, "none").fetch = "idle"
          /\ Arrived(one, one.value, "none").data = one.value
      BY <3>1 DEF Arrived, QueryOf, FormsQuery
    <3>. QED
      BY ONLY <2>1, <3>2
  <2>8. one'.data # 0 /\ one'.data # None /\ one'.fetch # "answered"
    BY <2>2, <2>7
  <2>9. route = "edit" => form'.text = Filled(one'.data).text
    BY ONLY <2>5, <2>7
  <2>10. all' \in FormsQuery /\ (UpTo(all, seen) => UpTo(all', seen))
    BY <1>1, <2>1
  <2>. QED
    BY ONLY <1>3, <2>4, <2>6, <2>7, <2>8, <2>9, <2>10
<1>6. CASE ReadProjects
  <2>1. all' = [all EXCEPT !.fetch = "answered", !.value = Len(log)] /\ UNCHANGED <<one, form>>
    BY <1>6 DEF ReadProjects
  <2>2. Len(log) >= seen
    BY <1>1
  <2>3. all' \in FormsQuery /\ UpTo(all', seen)
    BY <1>1, <2>1, <2>2, Settles
  <2>. QED
    BY <1>1, <1>3, <2>1, <2>3 DEF OneInv, FormInv
<1>7. CASE ProjectsArrived
  <2>1. all.fetch = "answered" /\ all' = Arrived(all, all.value, "none") /\ UNCHANGED <<one, form>>
    BY <1>7 DEF ProjectsArrived
  <2>2. UpTo(all, seen) => UpTo(all', seen)
    BY <1>1, <2>1, Settles DEF UpTo
  <2>. QED
    BY <1>1, <1>3, <2>1, <2>2, Settles DEF OneInv, FormInv
<1>8. CASE FetchFailed
  <2>1. CASE one' = AfterFailure(one) /\ UNCHANGED <<all, form>>
    BY <1>1, <1>3, <2>1, Settles DEF OneInv, FormInv
  <2>2. CASE all' = AfterFailure(all) /\ UNCHANGED <<one, form>>
    BY <1>1, <1>3, <2>2, Settles DEF OneInv, FormInv
  <2>. QED
    BY <1>8, <2>1, <2>2 DEF FetchFailed
<1>9. ASSUME NEW f \in Fields, Type(f) PROVE FormsInv'
  <2>1. form' = [form EXCEPT !.typed = @ \cup {f}] /\ UNCHANGED <<one, all>>
    BY <1>9 DEF Type
  <2>2. form' \in [text : Texts, typed : SUBSET Fields] /\ form'.text = form.text
    BY <1>1, <2>1
  <2>. QED
    BY <1>1, <1>3, <2>1, <2>2 DEF OneInv, FormInv
<1>. QED
  BY <1>4, <1>5, <1>6, <1>7, <1>8, <1>9

\* A button is pressed.
LEMMA StartSteps ==
  ASSUME FormsInv, NEW o \in Ops, Create(o) \/ Save(o) \/ Remove(o)
  PROVE  FormsInv'
<1>. USE DEF FormsInv
<1>1. /\ UNCHANGED <<log, route, one, all, form, seen>> /\ op[o] = NoOp
      /\ op \in [Ops -> Operation] /\ form \in [text : Texts, typed : SUBSET Fields]
      /\ seen \in 0 .. Len(log)
  BY DEF Create, Save, Remove, Start, FormsTypeOK
<1>2. ASSUME NEW x \in Operation, op' = [op EXCEPT ![o] = x], x.at = "sent",
             x.kind \in {"create", "save", "delete"},
             x.kind = "save" /\ x.told > 0 =>
                \E d \in DOMAIN log : x.told <= d /\ x.text = log[d]
      PROVE  FormsInv'
  <2>1. op' \in [Ops -> Operation] /\ op'[o] = x /\ \A p \in Ops \ {o} : op'[p] = op[p]
    BY <1>1, <1>2
  <2>2. FormsTypeOK'
    BY <1>1, <2>1 DEF FormsTypeOK, FormsQuery, Operation
  <2>3. NoOp.at = "none"
    BY DEF NoOp
  <2>4. OneInv' /\ AllInv'
    BY <1>1, <2>1, <2>3 DEF OneInv, AllInv, Leaving, UpTo, OnProject
  <2>5. OpInv'
    BY <1>1, <1>2, <2>1 DEF OpInv
  <2>6. FormInv' /\ LogInv'
    BY <1>1 DEF FormInv, LogInv, Filled, Gone
  <2>. QED
    BY <2>2, <2>4, <2>5, <2>6
<1>3. NoOp \in Operation
  BY NoOpFacts
<1>4. CASE Create(o)
  <2>1. op' = [op EXCEPT ![o] = [Submitted("create") EXCEPT !.at = "sent", !.here = TRUE]]
    BY <1>4 DEF Create, Start
  <2>2. Submitted("create") \in Operation /\ Submitted("create").kind = "create"
    BY <1>1, <1>3 DEF Submitted, Operation
  <2>3. /\ [Submitted("create") EXCEPT !.at = "sent", !.here = TRUE] \in Operation
        /\ [Submitted("create") EXCEPT !.at = "sent", !.here = TRUE].at = "sent"
        /\ [Submitted("create") EXCEPT !.at = "sent", !.here = TRUE].kind = "create"
    BY <2>2 DEF Operation
  <2>. QED
    BY <1>2, <2>1, <2>3
<1>5. CASE Save(o)
  <2> DEFINE y == [Submitted("save") EXCEPT !.told = IF Excused THEN 0 ELSE seen]
             x == [y EXCEPT !.at = "sent", !.here = TRUE]
  <2>1. op' = [op EXCEPT ![o] = x] /\ route = "edit"
    BY <1>5 DEF Save, Start
  <2>2. /\ Submitted("save") \in Operation /\ Submitted("save").kind = "save"
        /\ Submitted("save").text = form.text
    BY <1>1, <1>3 DEF Submitted, Operation
  <2>3. /\ y \in Operation /\ y.kind = "save" /\ y.text = form.text
        /\ y.told = IF Excused THEN 0 ELSE seen
    <3>1. ASSUME NEW v \in 0 .. Len(log)
          PROVE  /\ [Submitted("save") EXCEPT !.told = v] \in Operation
                 /\ [Submitted("save") EXCEPT !.told = v].kind = "save"
                 /\ [Submitted("save") EXCEPT !.told = v].text = form.text
                 /\ [Submitted("save") EXCEPT !.told = v].told = v
      BY <2>2 DEF Operation
    <3>2. (IF Excused THEN 0 ELSE seen) \in 0 .. Len(log)
      BY <1>1
    <3>. QED
      BY <3>1, <3>2
  <2>. HIDE DEF y
  <2>4. /\ x \in Operation /\ x.at = "sent" /\ x.kind = "save" /\ x.text = form.text
        /\ x.told = IF Excused THEN 0 ELSE seen
    BY <2>3 DEF Operation
  <2>. HIDE DEF x
  <2>5. ASSUME x.told > 0
        PROVE  \E d \in DOMAIN log : x.told <= d /\ x.text = log[d]
    <3>1. ~Excused /\ x.told = seen
      BY <2>4, <2>5
    <3>2. one.fetch = "idle" /\ one.cause = "none" /\ UpTo(one, seen)
      BY <2>1, <3>1 DEF Excused, OneInv, OnProject
    <3>3. one.data # None /\ one.data >= seen
      BY <2>1, <3>2 DEF OneInv, OnProject, UpTo
    <3>4. one.data \in DOMAIN log
      BY <3>3 DEF OneInv, FormsTypeOK, FormsQuery
    <3>5. form.text = log[one.data]
      BY <2>1, <3>3 DEF FormInv, Filled
    <3>. QED
      BY <2>4, <3>1, <3>3, <3>4, <3>5
  <2>. QED
    BY <1>2, <2>1, <2>4, <2>5
<1>6. CASE Remove(o)
  <2> DEFINE y == [NoOp EXCEPT !.kind = "delete"]
             x == [y EXCEPT !.at = "sent", !.here = TRUE]
  <2>1. op' = [op EXCEPT ![o] = x]
    BY <1>6 DEF Remove, Start
  <2>2. y \in Operation /\ y.kind = "delete"
    BY <1>3 DEF Operation
  <2>. HIDE DEF y
  <2>3. x \in Operation /\ x.at = "sent" /\ x.kind = "delete"
    BY <2>2 DEF Operation
  <2>. QED
    BY <1>2, <2>1, <2>3
<1>. QED
  BY <1>4, <1>5, <1>6

\* An update, or a removal, finds its project, and save() reads it again.
LEMMA ReadSteps ==
  ASSUME FormsInv, NEW o \in Ops, FindOp(o) \/ LoadOp(o)
  PROVE  FormsInv'
<1>. USE DEF FormsInv
<1>1. /\ UNCHANGED <<log, route, one, all, form, seen>> /\ op \in [Ops -> Operation]
      /\ op[o].at \in {"sent", "found"} /\ op[o].kind \in {"save", "delete"}
      /\ Row \in Texts /\ log # <<>>
  <2>1. Row \in Texts
    BY DEF Row, Gone, Texts, FormsTypeOK
  <2>2. log # <<>>
    BY DEF FindOp, LoadOp, Exists, Row, OpInv
  <2>. QED
    BY <2>1, <2>2 DEF FindOp, LoadOp, FormsTypeOK
<1>2. ASSUME NEW x \in Operation, op' = [op EXCEPT ![o] = x],
             x.at = "found" \/ (x.at = "loaded" /\ x.kind = "save"),
             x.kind = op[o].kind, x.text = op[o].text, x.told = op[o].told
      PROVE  FormsInv'
  <2>1. op' \in [Ops -> Operation] /\ op'[o] = x /\ \A p \in Ops \ {o} : op'[p] = op[p]
    BY <1>1, <1>2
  <2>2. FormsTypeOK'
    BY <1>1, <2>1 DEF FormsTypeOK, FormsQuery, Operation
  <2>3. OneInv' /\ AllInv'
    <3>1. ASSUME NEW p \in Ops, op[p].at \in {"one", "next", "all", "done"}
          PROVE  op'[p] = op[p]
      BY <1>1, <2>1, <3>1
    <3>. QED
      BY <1>1, <3>1 DEF OneInv, AllInv, Leaving, UpTo, OnProject
  <2>4. OpInv'
    BY <1>1, <1>2, <2>1 DEF OpInv
  <2>5. FormInv' /\ LogInv'
    BY <1>1 DEF FormInv, LogInv, Filled, Gone
  <2>. QED
    BY <2>2, <2>3, <2>4, <2>5
<1>3. CASE FindOp(o)
  <2> DEFINE x == [op[o] EXCEPT !.at = "found"]
  <2>1. op' = [op EXCEPT ![o] = x]
    BY <1>1, <1>3 DEF FindOp
  <2>2. /\ x \in Operation /\ x.at = "found" /\ x.kind = op[o].kind
        /\ x.text = op[o].text /\ x.told = op[o].told
    <3>1. op[o] \in Operation
      BY <1>1
    <3>. QED
      BY <3>1 DEF Operation
  <2>. QED
    BY ONLY <1>2, <2>1, <2>2
<1>4. CASE LoadOp(o)
  <2> DEFINE x == [op[o] EXCEPT !.at = "loaded", !.read = Row]
  <2>1. op' = [op EXCEPT ![o] = x]
    BY <1>1, <1>4 DEF LoadOp, Operation
  <2>2. /\ x \in Operation /\ x.at = "loaded" /\ x.kind = "save" /\ x.kind = op[o].kind
        /\ x.text = op[o].text /\ x.told = op[o].told
    <3>1. op[o] \in Operation /\ op[o].kind = "save"
      BY <1>1, <1>4 DEF LoadOp
    <3>. QED
      BY <1>1, <3>1 DEF Operation
  <2>. QED
    BY ONLY <1>2, <2>1, <2>2
<1>. QED
  BY <1>3, <1>4

\* An operation moves on, or is over.
LEMMA OpMoves ==
  ASSUME FormsInv, NEW o \in Ops, UNCHANGED log, op' \in [Ops -> Operation],
         \A p \in Ops \ {o} : op'[p] = op[p],
         \/ op'[o] = NoOp
         \/ /\ op'[o].kind = op[o].kind
            /\ op[o].at \in {"committed", "one", "next", "all", "done"}
            /\ op'[o].at \in {"one", "next", "all", "done"}
            /\ op'[o].at = "one" => op[o].kind = "save"
  PROVE  OpInv' /\ LogInv'
<1>1. NoOp.kind = "none" /\ NoOp.at = "none"
  BY DEF NoOp
<1>2. LogInv'
  BY DEF FormsInv, LogInv
<1>3. OpInv'
  BY <1>1 DEF FormsInv, OpInv
<1>. QED
  BY <1>2, <1>3

LEMMA FailedStep ==
  ASSUME FormsInv, NEW o \in Ops, OpFailed(o)
  PROVE  FormsInv'
<1>. USE DEF FormsInv
<1>1. /\ op' = [op EXCEPT ![o] = NoOp] /\ op[o].at \in {"sent", "found", "loaded", "committed"}
      /\ UNCHANGED <<log, route, one, all, form, seen>> /\ op \in [Ops -> Operation]
  BY DEF OpFailed, FormsTypeOK
<1>2. op' \in [Ops -> Operation] /\ op'[o] = NoOp /\ \A p \in Ops \ {o} : op'[p] = op[p]
  BY <1>1, NoOpFacts
<1>3. OpInv' /\ LogInv'
  BY <1>1, <1>2, OpMoves
<1>4. FormsTypeOK'
  BY <1>1, <1>2 DEF FormsTypeOK, FormsQuery, Operation
<1>5. OneInv' /\ AllInv'
  BY <1>1, <1>2 DEF OneInv, AllInv, Leaving, UpTo, OnProject
<1>6. FormInv'
  BY <1>1 DEF FormInv, Filled, Gone
<1>. QED
  BY <1>3, <1>4, <1>5, <1>6

LEMMA AnsweredStep ==
  ASSUME FormsInv, NEW o \in Ops, OpAnswered(o)
  PROVE  FormsInv'
<1>. USE DEF FormsInv
<1>1. /\ op[o].at = "committed" /\ UNCHANGED <<log, route, all, form>>
      /\ op \in [Ops -> Operation] /\ one \in FormsQuery
      /\ op[o].change \in 0 .. Len(log) /\ seen \in 0 .. Len(log)
      /\ seen' = IF op[o].change > seen THEN op[o].change ELSE seen
      /\ op[o].kind \in {"create", "save", "delete"}
  BY DEF OpAnswered, FormsTypeOK, OpInv, Operation
<1>2. ASSUME NEW at \in {"one", "next"}, op' = [op EXCEPT ![o].at = at, ![o].change = 0]
      PROVE  /\ op' \in [Ops -> Operation] /\ \A p \in Ops \ {o} : op'[p] = op[p]
             /\ op'[o].at = at /\ op'[o].kind = op[o].kind
  <2>1. op[o] \in Operation /\ 0 \in 0 .. Len(log)
    BY <1>1
  <2>2. /\ [op[o] EXCEPT !.at = at, !.change = 0] \in Operation
        /\ [op[o] EXCEPT !.at = at, !.change = 0].at = at
        /\ [op[o] EXCEPT !.at = at, !.change = 0].kind = op[o].kind
    BY <2>1 DEF Operation
  <2>3. op' = [op EXCEPT ![o] = [op[o] EXCEPT !.at = at, !.change = 0]]
    BY <1>1, <1>2 DEF Operation
  <2>. QED
    BY <1>1, <2>2, <2>3
<1>3. op' \in [Ops -> Operation] /\ \A p \in Ops \ {o} : op'[p] = op[p]
  BY <1>2 DEF OpAnswered
<1>4. op'[o].kind = op[o].kind /\ op'[o].at \in {"one", "next"}
      /\ (op'[o].at = "one" => op[o].kind = "save")
  BY <1>2 DEF OpAnswered
<1>5. OpInv' /\ LogInv'
  BY <1>1, <1>3, <1>4, OpMoves
<1>6. one' \in FormsQuery /\ one'.data = one.data
      /\ (one'.fetch = "answered" => one.fetch = "answered" /\ one'.value = one.value)
      /\ (one'.fetch = "idle" => one.fetch = "idle")
  BY <1>1, Refetched DEF OpAnswered
<1>7. FormsTypeOK'
  BY <1>1, <1>3, <1>6 DEF FormsTypeOK, FormsQuery, Operation
<1>8. AllInv'
  BY <1>4 DEF AllInv
<1>9. OneInv'
  <2>1. one'.data # 0 /\ (one'.fetch = "answered" => one'.value # 0)
    BY <1>6 DEF OneInv
  <2>2. OnProject(route) /\ one'.fetch = "idle" => one'.data # None
    BY <1>6 DEF OneInv
  <2>3. ASSUME OnProject(route)
        PROVE  UpTo(one', seen') \/ Leaving'
    <3>1. CASE op[o].kind = "save"
      <4>1. one' = Invalidated(one)
        BY <2>3, <3>1 DEF OpAnswered
      <4>. QED
        BY <1>1, <4>1, Refetched
    <3>2. CASE op[o].kind = "delete"
      BY <1>4, <3>2 DEF Leaving
    <3>3. CASE op[o].kind = "create"
      <4>1. one' = one
        BY <3>3 DEF OpAnswered
      <4>2. CASE UpTo(one, seen)
        <5>1. op[o].change <= 1
          BY <1>1, <3>3 DEF OpInv
        <5>. QED
          BY <1>1, <4>1, <4>2, <5>1 DEF OneInv, UpTo, FormsQuery
      <4>3. ASSUME NEW p \in Ops, op[p].kind = "delete", op[p].at \in {"next", "all", "done"}
            PROVE  op'[p].kind = "delete" /\ op'[p].at \in {"next", "all", "done"}
        BY <1>1, <1>3, <4>3
      <4>. QED
        BY <2>3, <4>2, <4>3 DEF OneInv, Leaving
    <3>. QED
      BY <1>1, <3>1, <3>2, <3>3
  <2>. QED
    BY <1>1, <2>1, <2>2, <2>3 DEF OneInv, Leaving, UpTo, OnProject
<1>10. FormInv'
  BY <1>1, <1>6 DEF FormInv, Filled, Gone
<1>. QED
  BY <1>5, <1>7, <1>8, <1>9, <1>10

LEMMA RefetchAllStep ==
  ASSUME FormsInv, NEW o \in Ops, RefetchAll(o)
  PROVE  FormsInv'
<1>. USE DEF FormsInv
<1>1. /\ op[o].at \in {"next", "one"}
      /\ UNCHANGED <<log, route, one, form, seen>>
      /\ op \in [Ops -> Operation] /\ all \in FormsQuery
  BY DEF RefetchAll, FormsTypeOK
<1>2. ASSUME NEW at \in {"all", "done"}, op' = [op EXCEPT ![o].at = at]
      PROVE  /\ op' \in [Ops -> Operation] /\ \A p \in Ops \ {o} : op'[p] = op[p]
             /\ op'[o].at = at /\ op'[o].kind = op[o].kind
  BY <1>1, <1>2, ZenonT(40) DEF Operation
<1>3. /\ op' \in [Ops -> Operation] /\ \A p \in Ops \ {o} : op'[p] = op[p]
      /\ op'[o].at \in {"all", "done"} /\ op'[o].kind = op[o].kind
  BY <1>2 DEF RefetchAll
<1>4. OpInv' /\ LogInv'
  BY <1>1, <1>3, OpMoves
<1>5. all' \in FormsQuery /\ (route = "projects" => UpTo(all', seen))
  BY <1>1, Refetched DEF RefetchAll
<1>6. FormsTypeOK'
  BY <1>1, <1>3, <1>5 DEF FormsTypeOK, FormsQuery, Operation
<1>7. AllInv'
  BY <1>1, <1>5 DEF AllInv, UpTo
<1>8. OneInv'
  <2>1. ASSUME NEW p \in Ops, op[p].kind = "delete", op[p].at \in {"next", "all", "done"}
        PROVE  op'[p].kind = "delete" /\ op'[p].at \in {"next", "all", "done"}
    BY <1>3, <2>1
  <2>. QED
    BY <1>1, <2>1 DEF OneInv, Leaving, UpTo, OnProject
<1>9. FormInv'
  BY <1>1 DEF FormInv, Filled, Gone
<1>. QED
  BY <1>4, <1>6, <1>7, <1>8, <1>9

LEMMA RedirectStep ==
  ASSUME FormsInv, NEW o \in Ops, Redirect(o)
  PROVE  FormsInv'
<1>. USE DEF FormsInv
<1> DEFINE target == IF op[o].kind = "delete" THEN "projects" ELSE "project"
           ops == [op EXCEPT ![o] = NoOp]
<1>1. /\ op[o].at \in {"done", "all"} /\ UNCHANGED <<log, seen>>
      /\ IF route = target THEN op' = ops /\ UNCHANGED <<route, one, all, form>>
         ELSE Go(target, ops)
      /\ op \in [Ops -> Operation]
  BY DEF Redirect, FormsTypeOK
<1>2. /\ target \in {"projects", "new", "project", "edit"} /\ ops \in [Ops -> Operation]
      /\ ops[o] = NoOp /\ \A p \in Ops \ {o} : ops[p] = op[p]
  BY <1>1, NoOpFacts
<1>3. (target = "projects") = (op[o].kind = "delete")
  OBVIOUS
<1>. HIDE DEF target, ops
<1>4. CASE route = target
  <2>1. op' = ops /\ UNCHANGED <<route, one, all, form>>
    BY <1>1, <1>4
  <2>2. OpInv' /\ LogInv'
    BY <1>1, <1>2, <2>1, OpMoves
  <2>3. FormsTypeOK'
    BY <1>1, <1>2, <2>1 DEF FormsTypeOK, FormsQuery, Operation
  <2>4. OneInv'
    <3>1. ASSUME OnProject(route), NEW p \in Ops, op[p].kind = "delete"
          PROVE  op'[p] = op[p]
      BY <1>2, <1>3, <1>4, <2>1, <3>1 DEF OnProject
    <3>. QED
      BY <1>1, <2>1, <3>1 DEF OneInv, Leaving, UpTo, OnProject
  <2>5. AllInv'
    <3>1. ASSUME NEW p \in Ops, op[p].at \in {"one", "next"}
          PROVE  op'[p] = op[p]
      BY <1>1, <1>2, <2>1, <3>1
    <3>. QED
      BY <1>1, <2>1, <3>1 DEF AllInv, UpTo
  <2>6. FormInv'
    BY <1>1, <2>1 DEF FormInv, Filled, Gone
  <2>. QED
    BY <2>2, <2>3, <2>4, <2>5, <2>6
<1>5. CASE route # target
  <2>1. Go(target, ops)
    BY <1>1, <1>5
  <2>2. FormsTypeOK' /\ OneInv' /\ AllInv' /\ FormInv' /\ LogInv'
    BY <1>1, <1>2, <2>1, Mounting
  <2>3. \A p \in Ops :
           /\ op'[p].kind = ops[p].kind /\ op'[p].at = ops[p].at /\ op'[p].text = ops[p].text
           /\ op'[p].change = ops[p].change /\ op'[p].told = ops[p].told
    BY <1>2, <2>1 DEF Go, Operation
  <2>4. NoOp.kind = "none" /\ NoOp.at = "none"
    BY DEF NoOp
  <2>5. OpInv'
    BY <1>1, <1>2, <2>3, <2>4 DEF OpInv
  <2>. QED
    BY <2>2, <2>5
<1>. QED
  BY <1>4, <1>5

-----------------------------------------------------------------------------
(* The project changes *)

\* A version is appended to the project.  What any query or form has stays what
\* it was.
LEMMA Appended ==
  ASSUME FormsInv, NEW row \in Texts, log' = Append(log, row)
  PROVE  /\ log' \in Seq(Texts) /\ Len(log') = Len(log) + 1 /\ Len(log) \in Nat
         /\ \A d \in DOMAIN log : d \in DOMAIN log' /\ log'[d] = log[d]
         /\ log' # <<>> /\ Row' = row
         /\ LogInv'
<1>. USE DEF FormsInv
<1>1. /\ log \in Seq(Texts) /\ log' \in Seq(Texts) /\ Len(log') = Len(log) + 1
      /\ Len(log) \in Nat /\ log'[Len(log) + 1] = row
      /\ \A d \in DOMAIN log : d \in DOMAIN log' /\ log'[d] = log[d]
      /\ DOMAIN log = 1 .. Len(log) /\ DOMAIN log' = 1 .. Len(log')
      /\ log' # <<>>
  BY DEF FormsTypeOK
<1>2. Row' = row
  BY <1>1 DEF Row
<1>3. ASSUME NEW f \in Fields
      PROVE  \E k \in DOMAIN log' :
                /\ k = 1 \/ log'[k][f] # log'[k - 1][f]
                /\ \A j \in k + 1 .. Len(log') : log'[j][f] = log'[k][f]
  <2>1. CASE log = <<>>
    BY <1>1, <2>1
  <2>2. CASE log # <<>> /\ row[f] # log[Len(log)][f]
    <3>1. Len(log) # 0
      BY <2>2 DEF FormsTypeOK
    <3>2. Len(log) \in DOMAIN log /\ Len(log) + 1 \in DOMAIN log'
      BY ONLY <1>1, <3>1
    <3>3. log'[Len(log)] = log[Len(log)]
      BY ONLY <1>1, <3>2
    <3>4. log'[Len(log) + 1][f] # log'[Len(log) + 1 - 1][f]
      <4>1. Len(log) + 1 - 1 = Len(log)
        BY ONLY <1>1
      <4>. QED
        BY ONLY <1>1, <2>2, <3>3, <4>1
    <3>5. \A j \in Len(log) + 1 + 1 .. Len(log') : FALSE
      BY ONLY <1>1
    <3>. QED
      BY ONLY <3>2, <3>4, <3>5
  <2>3. CASE log # <<>> /\ row[f] = log[Len(log)][f]
    <3>1. PICK k \in DOMAIN log :
             /\ k = 1 \/ log[k][f] # log[k - 1][f]
             /\ \A j \in k + 1 .. Len(log) : log[j][f] = log[k][f]
      BY <2>3 DEF LogInv
    <3>2. row[f] = log[k][f]
      BY <1>1, <2>3, <3>1
    <3>3. k \in DOMAIN log' /\ (k = 1 \/ log'[k][f] # log'[k - 1][f])
      BY <1>1, <3>1
    <3>4. \A j \in k + 1 .. Len(log') : log'[j][f] = log'[k][f]
      BY <1>1, <3>1, <3>2
    <3>. QED
      BY <3>3, <3>4
  <2>. QED
    BY <2>1, <2>2, <2>3
<1>4. LogInv'
  BY <1>3 DEF LogInv
<1>. QED
  BY <1>1, <1>2, <1>4

LEMMA Grown ==
  ASSUME FormsInv, NEW row \in Texts, log' = Append(log, row),
         UNCHANGED <<route, one, all, form, seen>>,
         \A p \in Ops : op[p].at \in {"one", "next", "all", "done"} => op'[p] = op[p]
  PROVE  /\ LogInv' /\ OneInv' /\ AllInv' /\ FormInv'
         /\ log' \in Seq(Texts) /\ one' \in FormsQuery' /\ all' \in FormsQuery'
         /\ 0 .. Len(log) \subseteq 0 .. Len(log') /\ Len(log) \in Nat
<1>. USE DEF FormsInv
<1>1. /\ log' \in Seq(Texts) /\ Len(log') = Len(log) + 1 /\ Len(log) \in Nat
      /\ \A d \in DOMAIN log : d \in DOMAIN log' /\ log'[d] = log[d]
      /\ LogInv'
  BY Appended
<1>2. one \in FormsQuery /\ all \in FormsQuery
  BY DEF FormsTypeOK
<1>3. 0 .. Len(log) \subseteq 0 .. Len(log')
  BY <1>1
<1>4. one' \in FormsQuery' /\ all' \in FormsQuery'
  BY <1>2, <1>3 DEF FormsQuery
<1>5. Leaving => Leaving'
  BY DEF Leaving
<1>6. OneInv'
  BY <1>5 DEF OneInv, UpTo, OnProject
<1>7. AllInv'
  BY DEF AllInv, UpTo
<1>8. FormInv'
  <2>1. one.data # None => one.data \in DOMAIN log
    BY <1>1, <1>2 DEF FormsQuery, OneInv, FormsTypeOK
  <2>2. one.data # None => log'[one.data] = log[one.data]
    BY <1>1, <2>1
  <2>. QED
    BY <2>2 DEF FormInv, Filled, Gone
<1>. QED
  BY <1>1, <1>3, <1>4, <1>6, <1>7, <1>8

LEMMA OthersStep ==
  ASSUME FormsInv, OthersChange
  PROVE  FormsInv'
<1>. USE DEF FormsInv
<1>1. UNCHANGED <<route, one, all, form, op, seen>>
  BY DEF OthersChange
<1>2. PICK row \in Texts : log' = Append(log, row)
  <2>1. Len(log) \in Nat
    BY DEF FormsTypeOK
  <2>2. [Fields -> 0 .. Len(log) + 1] \subseteq Texts
    BY <2>1 DEF Texts
  <2>. QED
    BY <2>2 DEF OthersChange
<1>3. /\ LogInv' /\ OneInv' /\ AllInv' /\ FormInv'
      /\ log' \in Seq(Texts) /\ one' \in FormsQuery' /\ all' \in FormsQuery'
      /\ 0 .. Len(log) \subseteq 0 .. Len(log') /\ Len(log) \in Nat
  BY <1>1, <1>2, Grown
<1>4. FormsTypeOK'
  BY <1>1, <1>3 DEF FormsTypeOK, Operation
<1>5. log' # <<>> /\ \A d \in DOMAIN log : d \in DOMAIN log' /\ log'[d] = log[d]
  BY <1>1, <1>2, Appended
<1>6. OpInv'
  BY <1>1, <1>5 DEF OpInv
<1>. QED
  BY <1>3, <1>4, <1>6

\* What the statement of operation o does to it, and to the project.
LEMMA Committed ==
  ASSUME FormsInv, NEW o \in Ops, CommitOp(o)
  PROVE  /\ \E row \in Texts : /\ Writes(o, row)
                               /\ log' = IF row = Row THEN log ELSE Append(log, row)
         /\ UNCHANGED <<route, one, all, form, seen>>
         /\ op[o].at \in {"sent", "found", "loaded"} /\ op[o].kind # "none"
         /\ log' \in Seq(Texts) /\ 0 .. Len(log) \subseteq 0 .. Len(log')
         /\ op' \in [Ops -> Operation'] /\ \A p \in Ops \ {o} : op'[p] = op[p]
         /\ op'[o].at = "committed" /\ op'[o].kind = op[o].kind /\ op'[o].change = Len(log')
<1>. USE DEF FormsInv
<1>1. /\ op' = [op EXCEPT ![o] = [NoOp EXCEPT !.kind = op[o].kind, !.at = "committed",
                                              !.here = op[o].here, !.change = Len(log')]]
      /\ UNCHANGED <<route, one, all, form, seen>>
  BY DEF CommitOp
<1>2. op[o] \in Operation /\ op \in [Ops -> Operation] /\ log \in Seq(Texts) /\ Len(log) \in Nat
  BY DEF FormsTypeOK
<1>3. PICK row \in Texts : Writes(o, row) /\ log' = IF row = Row THEN log ELSE Append(log, row)
  <2>1. [Fields -> 0 .. Len(log) + 1] \subseteq Texts
    BY <1>2 DEF Texts
  <2>. QED
    BY <2>1 DEF CommitOp
<1>4. op[o].at \in {"sent", "found", "loaded"} /\ op[o].kind # "none"
  BY <1>3 DEF Writes
<1>5. Gone \in Texts
  BY DEF Gone, Texts
<1>6. /\ log' \in Seq(Texts) /\ 0 .. Len(log) \subseteq 0 .. Len(log')
      /\ Len(log') \in 0 .. Len(log') /\ 0 \in 0 .. Len(log')
  BY <1>2, <1>3
<1> DEFINE x == [NoOp EXCEPT !.kind = op[o].kind, !.at = "committed",
                             !.here = op[o].here, !.change = Len(log')]
<1>7. NoOp \in Operation'
  BY <1>5, <1>6 DEF NoOp, Operation, Texts
<1>8. x \in Operation' /\ x.at = "committed" /\ x.kind = op[o].kind /\ x.change = Len(log')
  <2>1. op[o].kind \in {"none", "create", "save", "delete"} /\ op[o].here \in BOOLEAN
    BY <1>2 DEF Operation
  <2>. QED
    BY <1>6, <1>7, <2>1 DEF Operation
<1>. HIDE DEF x
<1>9. Operation \subseteq Operation'
  BY <1>6 DEF Operation, Texts
<1>10. op' = [op EXCEPT ![o] = x]
  BY <1>1 DEF x
<1>11. op' \in [Ops -> Operation'] /\ op'[o] = x /\ \A p \in Ops \ {o} : op'[p] = op[p]
  BY <1>2, <1>8, <1>9, <1>10
<1>. QED
  BY <1>1, <1>3, <1>4, <1>6, <1>8, <1>11

LEMMA CommitStep ==
  ASSUME FormsInv, NEW o \in Ops, CommitOp(o)
  PROVE  FormsInv'
<1>. USE DEF FormsInv
<1>1. PICK row \in Texts :
         /\ Writes(o, row)
         /\ log' = IF row = Row THEN log ELSE Append(log, row)
  BY Committed
<1>2. /\ UNCHANGED <<route, one, all, form, seen>>
      /\ op[o].at \in {"sent", "found", "loaded"} /\ op[o].kind # "none"
      /\ log' \in Seq(Texts) /\ 0 .. Len(log) \subseteq 0 .. Len(log')
      /\ op' \in [Ops -> Operation'] /\ \A p \in Ops \ {o} : op'[p] = op[p]
      /\ op'[o].at = "committed" /\ op'[o].kind = op[o].kind /\ op'[o].change = Len(log')
  BY Committed
<1>3. \A p \in Ops : op[p].at \in {"one", "next", "all", "done"} => op'[p] = op[p]
  BY <1>2
<1>4. /\ LogInv' /\ OneInv' /\ AllInv' /\ FormInv'
      /\ one' \in FormsQuery' /\ all' \in FormsQuery'
  <2>1. CASE log' = Append(log, row)
    BY <1>2, <1>3, <2>1, Grown
  <2>2. CASE log' = log
    <3>1. LogInv' /\ FormInv'
      BY <1>2, <2>2 DEF LogInv, FormInv, Filled, Gone
    <3>2. one' \in FormsQuery' /\ all' \in FormsQuery'
      BY <1>2, <2>2 DEF FormsTypeOK, FormsQuery
    <3>3. OneInv' /\ AllInv'
      BY <1>2, <1>3 DEF OneInv, AllInv, Leaving, UpTo, OnProject
    <3>. QED
      BY <3>1, <3>2, <3>3
  <2>. QED
    BY <1>1, <2>1, <2>2
<1>5. FormsTypeOK'
  BY <1>2, <1>4 DEF FormsTypeOK, Texts
<1>6. \A d \in DOMAIN log : d \in DOMAIN log' /\ log'[d] = log[d]
  BY <1>1, Appended
<1>7. op[o].kind = "create" => Len(log') <= 1
  <2>1. ASSUME op[o].kind = "create" PROVE log = <<>>
    BY <1>1, <2>1 DEF Writes
  <2>. QED
    BY <1>1, <2>1
<1>8. OpInv'
  BY <1>2, <1>6, <1>7 DEF OpInv
<1>. QED
  BY <1>4, <1>5, <1>8

-----------------------------------------------------------------------------
(* The theorems *)

LEMMA NextFormsInv == FormsInv /\ [FormsNext]_formVars => FormsInv'
<1>. SUFFICES ASSUME FormsInv, [FormsNext]_formVars PROVE FormsInv'
  OBVIOUS
<1>1. CASE UNCHANGED formVars
  BY <1>1 DEF formVars, FormsInv, FormsTypeOK, FormsQuery, Operation, OneInv, AllInv, OpInv,
              FormInv, LogInv, Leaving, Gone, Filled, UpTo, OnProject
<1>2. CASE \E r \in {"projects", "new", "project", "edit"} : Open(r)
  BY <1>2, OpenStep
<1>3. CASE \/ ReadProject \/ ProjectArrived \/ ReadProjects \/ ProjectsArrived \/ FetchFailed
           \/ \E f \in Fields : Type(f)
  BY <1>3, QuerySteps
<1>4. ASSUME NEW o \in Ops,
             \/ Create(o) \/ Save(o) \/ Remove(o) \/ FindOp(o) \/ LoadOp(o) \/ CommitOp(o)
             \/ OpFailed(o) \/ OpAnswered(o) \/ RefetchAll(o) \/ Redirect(o)
      PROVE  FormsInv'
  BY <1>4, StartSteps, ReadSteps, CommitStep, FailedStep, AnsweredStep, RefetchAllStep, RedirectStep
<1>5. CASE OthersChange
  BY <1>5, OthersStep
<1>. QED
  BY <1>1, <1>2, <1>3, <1>4, <1>5 DEF FormsNext

\* The inductive invariant of the project's pages, forms and operations.
THEOREM FormsInvariance == FormsSpec => []FormsInv
BY InitFormsInv, NextFormsInv, PTL DEF FormsSpec

\* A project, or the list, lacks a change that was acknowledged to the tab only
\* for a reason: redirects, mounts and invalidations leave no other way.
THEOREM ChangesReachThePage == FormsSpec => []ChangesAreShown
<1>1. ASSUME FormsInv PROVE ChangesAreShown
  <2>. USE <1>1 DEF FormsInv
  <2>1. /\ seen \in Nat
        /\ one.data # None => one.data \in Nat
        /\ all.data # None => all.data \in Nat
    BY DEF FormsTypeOK, FormsQuery
  <2>2. OnProject(route) /\ one.data # None /\ one.data < seen => Pending \/ ~Settled(one)
    BY <2>1 DEF OneInv, Leaving, UpTo, Pending, Settled
  <2>3. route = "projects" /\ all.data # None /\ all.data < seen => Pending \/ ~Settled(all)
    BY <2>1 DEF AllInv, UpTo, Pending, Settled
  <2>. QED
    BY <2>2, <2>3 DEF ChangesAreShown
<1>. QED
  BY FormsInvariance, <1>1, PTL

\* ChangedAt is what it says it is.
LEMMA ChangedAtFacts ==
  ASSUME FormsInv, log # <<>>, NEW f \in Fields
  PROVE  /\ ChangedAt(f) \in DOMAIN log
         /\ \A j \in ChangedAt(f) + 1 .. Len(log) : log[j][f] = log[ChangedAt(f)][f]
<1>1. \E k \in DOMAIN log :
         /\ k = 1 \/ log[k][f] # log[k - 1][f]
         /\ \A j \in k + 1 .. Len(log) : log[j][f] = log[k][f]
  BY DEF FormsInv, LogInv
<1>. QED
  BY <1>1 DEF ChangedAt

\* A save takes back, in a field that its user left alone, only what changed
\* after the version the tab knew, unless the page had an excuse: every way in
\* which save() may read and write the row, and any history of the project.
THEOREM SavesTakeBackOnlyUnseen == FormsSpec => TakesBackOnlyUnseen
<1>1. ASSUME FormsInv, [FormsNext]_formVars, NEW o \in Ops,
             op[o].at = "loaded", op'[o].at = "committed",
             NEW f \in Fields \ op[o].typed, Row'[f] # Row[f]
      PROVE  ChangedAt(f) > op[o].told
  <2>1. CommitOp(o) /\ log' # log
    <3>1. log' # log
      BY <1>1 DEF Row, Gone
    <3>2. ASSUME OthersChange PROVE FALSE
      BY <1>1, <3>2 DEF OthersChange
    <3>3. ASSUME NEW p \in Ops, CommitOp(p) PROVE CommitOp(o)
      <4>1. \A q \in Ops \ {p} : op'[q] = op[q]
        BY <1>1, <3>3, Committed
      <4>. QED
        BY <1>1, <3>3, <4>1
    <3>4. (\E p \in Ops : CommitOp(p)) \/ OthersChange
      BY <1>1, <3>1 DEF FormsNext, formVars, Open, ReadProject, ProjectArrived, ReadProjects,
         ProjectsArrived, FetchFailed, Type, Create, Save, Remove, Start, FindOp, LoadOp, OpFailed,
         OpAnswered, RefetchAll, Redirect
    <3>. QED
      BY <3>1, <3>2, <3>3, <3>4
  <2>2. PICK row \in Texts : Writes(o, row) /\ log' = Append(log, row)
    <3>1. PICK row \in Texts : Writes(o, row) /\ log' = IF row = Row THEN log ELSE Append(log, row)
      BY <1>1, <2>1, Committed
    <3>. QED
      BY <2>1, <3>1
  <2>3. Row' = row
    BY <1>1, <2>2, Appended
  <2>4. op[o].kind = "save" /\ Sends(o)[f] = op[o].text[f]
    BY <1>1 DEF FormsInv, OpInv, Sends
  <2>5. row[f] = op[o].text[f] \/ (row = Gone /\ ~Exists)
    <3>1. CASE row = Sends(o)
      BY <2>4, <3>1
    <3>2. CASE row = Updated(o)
      BY <1>1, <2>3, <2>4, <3>2 DEF Updated
    <3>3. CASE row = Gone /\ ~Exists
      BY <3>3
    <3>. QED
      BY <1>1, <2>2, <2>4, <3>1, <3>2, <3>3 DEF Writes
  <2>6. row[f] = op[o].text[f] /\ row[f] # Row[f]
    BY <1>1, <2>3, <2>5 DEF Exists
  <2>7. CASE op[o].told > 0
    <3>1. PICK d \in DOMAIN log : op[o].told <= d /\ op[o].text = log[d]
      BY <1>1, <2>4, <2>7 DEF FormsInv, OpInv
    <3>2. log # <<>>
      BY <3>1
    <3>3. /\ ChangedAt(f) \in DOMAIN log
          /\ \A j \in ChangedAt(f) + 1 .. Len(log) : log[j][f] = log[ChangedAt(f)][f]
      BY <1>1, <3>2, ChangedAtFacts
    <3>4. DOMAIN log = 1 .. Len(log) /\ Len(log) \in Nat /\ op[o].told \in Nat
      BY <1>1 DEF FormsInv, FormsTypeOK, Operation
    <3>5. log[d][f] # log[Len(log)][f]
      BY <2>6, <3>1, <3>2 DEF Row
    <3>. HIDE DEF ChangedAt
    <3>6. Len(log) >= ChangedAt(f) /\ ChangedAt(f) \in Nat /\ d \in Nat /\ d <= Len(log)
      BY ONLY <3>1, <3>3, <3>4
    <3>7. log[Len(log)][f] = log[ChangedAt(f)][f]
      BY ONLY <3>3, <3>4, <3>6
    <3>8. ASSUME d >= ChangedAt(f) PROVE log[d][f] = log[ChangedAt(f)][f]
      BY ONLY <3>3, <3>4, <3>6, <3>8
    <3>. QED
      BY ONLY <3>1, <3>4, <3>5, <3>6, <3>7, <3>8
  <2>8. CASE ~(op[o].told > 0)
    <3>1. op[o].told = 0
      BY <1>1, <2>8 DEF FormsInv, FormsTypeOK, Operation
    <3>2. log # <<>>
      BY <1>1, <2>4 DEF FormsInv, OpInv
    <3>3. ChangedAt(f) \in DOMAIN log
      BY <1>1, <3>2, ChangedAtFacts
    <3>. QED
      BY <1>1, <3>1, <3>3 DEF FormsInv, FormsTypeOK
  <2>. QED
    BY <2>7, <2>8
<1>2. FormsInv /\ [FormsNext]_formVars =>
        \A o \in Ops :
          op[o].at = "loaded" /\ op'[o].at = "committed"
          => \A f \in Fields \ op[o].typed : Row'[f] # Row[f] => ChangedAt(f) > op[o].told
  BY <1>1
<1>. QED
  BY FormsInvariance, <1>2, PTL DEF FormsSpec, TakesBackOnlyUnseen

=============================================================================
