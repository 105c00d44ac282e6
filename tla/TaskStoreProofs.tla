--------------------------- MODULE TaskStoreProofs ---------------------------
(***************************************************************************)
(* Every task belongs to a project that exists and to that project's owner, *)
(* for any number of users, rows and requests.                              *)
(***************************************************************************)
EXTENDS TaskStore, TLAPS

LEMMA InitIInv == Init => IInv
<1>. SUFFICES ASSUME Init PROVE IInv
  OBVIOUS
<1>. USE DEF Init
<1>1. TypeOK
  BY DEF TypeOK
<1>2. RowsShaped /\ RequestsShaped
  BY DEF RowsShaped, RequestsShaped, Exists, Ids
<1>3. ParentsExist
  BY DEF ParentsExist, Exists, Ids
<1>4. OwnersAgree
  <2>1. \A i \in Ids, u \in Users : ~SaysOwner(i, u)
    BY DEF SaysOwner, Exists, Ids
  <2>. QED
    BY <2>1 DEF OwnersAgree
<1>5. ParentsAgree
  BY NoneAssumption DEF ParentsAgree, SaysParent, Exists, Ids
<1>. QED
  BY <1>1, <1>2, <1>3, <1>4, <1>5 DEF IInv

\* The changed entity is a row with the found row's owner and parent.
LEMMA ChangedIsRow ==
  ASSUME NEW found \in Row, NEW body \in Bodies
  PROVE  /\ Changed(found, body) \in Row
         /\ Changed(found, body).owner = found.owner
         /\ Changed(found, body).parent = found.parent
         /\ DOMAIN body \in SUBSET Fields
<1>1. PICK fs \in SUBSET Fields : body \in [fs -> Values]
  BY DEF Bodies
<1>2. [f \in Fields |-> IF f \in DOMAIN body THEN body[f] ELSE found.fields[f]]
         \in [Fields -> Values]
  BY <1>1 DEF Row
<1>. QED
  BY <1>1, <1>2 DEF Changed, Row

\* So is a row that save() updates.
LEMMA SavedIsRow ==
  ASSUME NEW loaded \in Row, NEW e \in Row, NEW now \in Row
  PROVE  /\ [now EXCEPT !.fields = SavedFields(loaded, e, now)] \in Row
         /\ [now EXCEPT !.fields = SavedFields(loaded, e, now)].owner = now.owner
         /\ [now EXCEPT !.fields = SavedFields(loaded, e, now)].parent = now.parent
<1>1. SavedFields(loaded, e, now) \in [Fields -> Values]
  BY DEF SavedFields, Row
<1>. QED
  BY <1>1 DEF Row

LEMMA FinishTypes ==
  ASSUME TypeOK, NEW r \in Requests, Finish(r)
  PROVE  /\ pc' \in [Requests -> {"idle", "insert", "load", "write", "delete", "invalidate"}]
         /\ target' \in [Requests -> Ids \cup {None}]
         /\ entity' \in [Requests -> Row \cup {None}]
         /\ read' \in [Requests -> Row \cup {None}]
         /\ given' \in [Requests -> SUBSET Fields]
BY DEF TypeOK, Finish

LEMMA WrittenTypes ==
  ASSUME TypeOK, NEW r \in Requests, Written(r)
  PROVE  /\ pc' \in [Requests -> {"idle", "insert", "load", "write", "delete", "invalidate"}]
         /\ target' \in [Requests -> Ids \cup {None}]
         /\ entity' \in [Requests -> Row \cup {None}]
         /\ read' \in [Requests -> Row \cup {None}]
         /\ given' \in [Requests -> SUBSET Fields]
<1>1. CASE target[r] \in Tasks
  BY <1>1 DEF TypeOK, Written
<1>2. CASE target[r] \notin Tasks
  BY <1>2, FinishTypes DEF Written
<1>. QED
  BY <1>1, <1>2

\* What happens to the requests at the end of a statement: r is over, or its
\* entity and target are what they were and it invalidates.
LEMMA WrittenKeeps ==
  ASSUME TypeOK, NEW r \in Requests, Written(r) \/ Finish(r)
  PROVE  \A q \in Requests :
           \/ q # r /\ pc'[q] = pc[q] /\ target'[q] = target[q] /\ entity'[q] = entity[q]
           \/ q = r /\ pc'[q] = "idle" /\ target'[q] = None /\ entity'[q] = None
           \/ q = r /\ pc'[q] = "invalidate" /\ target[q] \in Tasks
                    /\ target'[q] = target[q] /\ entity'[q] = entity[q]
<1>1. CASE Finish(r)
  BY <1>1 DEF TypeOK, Finish
<1>2. CASE target[r] \in Tasks /\ Written(r)
  BY <1>2 DEF TypeOK, Written
<1>3. CASE target[r] \notin Tasks /\ Written(r)
  BY <1>1, <1>3 DEF Written
<1>. QED
  BY <1>1, <1>2, <1>3

\* Where what says after the step whose an id is comes from: a row was there
\* or is the entity of a request for it, an entity was there or is a row that
\* was found, or the new task of a project that was found.
RowComesFrom(i) ==
    \/ Exists(i) /\ row'[i].owner = row[i].owner /\ row'[i].parent = row[i].parent
    \/ \E r \in Requests : /\ entity[r] # None /\ target[r] = i
                           /\ row'[i].owner = entity[r].owner
                           /\ row'[i].parent = entity[r].parent

EntityComesFrom(r) ==
    \/ /\ entity[r] # None /\ target'[r] = target[r]
       /\ entity'[r].owner = entity[r].owner /\ entity'[r].parent = entity[r].parent
    \/ \E i \in Ids : /\ Exists(i) /\ target'[r] = i
                      /\ entity'[r].owner = row[i].owner /\ entity'[r].parent = row[i].parent
    \/ \E p \in Projects : /\ Exists(p) /\ target'[r] = None
                           /\ entity'[r].owner = row[p].owner /\ entity'[r].parent = p

LEMMA OwnersAgreeStep ==
  ASSUME IInv, used' = used,
         \A i \in Ids : row'[i] # None => RowComesFrom(i),
         \A r \in Requests : entity'[r] # None => EntityComesFrom(r)
  PROVE  OwnersAgree' /\ ParentsAgree'
<1>1. ASSUME NEW i \in Ids, NEW u \in Users, SaysOwner(i, u)'
      PROVE  SaysOwner(i, u)
  <2>. USE NoneAssumption
  <2>1. CASE Exists(i)' /\ row'[i].owner = u
    BY <2>1 DEF RowComesFrom, SaysOwner, Exists
  <2>2. ASSUME NEW t \in Tasks, Exists(t)', row'[t].parent = i, row'[t].owner = u
        PROVE  SaysOwner(i, u)
    <3>1. t \in Ids /\ RowComesFrom(t)
      BY <2>2 DEF Exists, Ids
    <3>. QED
      BY <2>2, <3>1 DEF RowComesFrom, SaysOwner, Exists
  <2>3. ASSUME NEW r \in Requests, entity'[r] # None, entity'[r].owner = u,
               target'[r] = i \/ entity'[r].parent = i
        PROVE  SaysOwner(i, u)
    <3>1. CASE /\ entity[r] # None /\ target'[r] = target[r]
               /\ entity'[r].owner = entity[r].owner /\ entity'[r].parent = entity[r].parent
      BY <2>3, <3>1 DEF SaysOwner
    <3>2. ASSUME NEW j \in Ids, Exists(j), target'[r] = j,
                 entity'[r].owner = row[j].owner, entity'[r].parent = row[j].parent
          PROVE  SaysOwner(i, u)
      <4>1. CASE i = j
        BY <2>3, <3>2, <4>1 DEF SaysOwner
      <4>2. CASE i # j
        <5>1. row[j].parent = i
          BY <2>3, <3>2, <4>2
        <5>2. j \in Tasks
          BY <3>2, <5>1 DEF IInv, RowsShaped, Shaped, Ids
        <5>. QED
          BY <2>3, <3>2, <5>1, <5>2 DEF SaysOwner
      <4>. QED
        BY <4>1, <4>2
    <3>3. ASSUME NEW p \in Projects, Exists(p), target'[r] = None,
                 entity'[r].owner = row[p].owner, entity'[r].parent = p
          PROVE  SaysOwner(i, u)
      BY <2>3, <3>3 DEF SaysOwner
    <3>. QED
      BY <2>3, <3>1, <3>2, <3>3 DEF EntityComesFrom
  <2>. QED
    BY <1>1, <2>1, <2>2, <2>3 DEF SaysOwner
<1>2. ASSUME NEW t \in Tasks, NEW p \in Projects, SaysParent(t, p)'
      PROVE  SaysParent(t, p)
  <2>. USE NoneAssumption
  <2>1. t \in Ids /\ t # None
    BY DEF Ids
  <2>2. CASE row'[t] # None /\ row'[t].parent = p
    BY <2>1, <2>2 DEF RowComesFrom, SaysParent, Exists
  <2>3. ASSUME NEW r \in Requests, entity'[r] # None, target'[r] = t, entity'[r].parent = p
        PROVE  SaysParent(t, p)
    BY <2>1, <2>3 DEF EntityComesFrom, SaysParent
  <2>. QED
    BY <1>2, <2>2, <2>3 DEF SaysParent, Exists
<1>3. ParentsAgree'
  BY <1>2 DEF IInv, ParentsAgree
<1>. QED
  BY <1>1, <1>3 DEF IInv, OwnersAgree

\* A step that leaves the rows leaves what is said of them.
LEMMA SameRows ==
  ASSUME IInv, UNCHANGED row
  PROVE  /\ ParentsExist' /\ RowsShaped'
         /\ \A i \in Ids : row'[i] # None => RowComesFrom(i)
BY DEF IInv, ParentsExist, RowsShaped, Exists, RowComesFrom, Shaped

\* A request that is over, or goes on to invalidate.
LEMMA WrittenRequests ==
  ASSUME IInv, NEW r \in Requests, Written(r) \/ Finish(r)
  PROVE  /\ RequestsShaped'
         /\ \A q \in Requests : entity'[q] # None => EntityComesFrom(q)
<1>1. \A q \in Requests :
           \/ q # r /\ pc'[q] = pc[q] /\ target'[q] = target[q] /\ entity'[q] = entity[q]
           \/ q = r /\ pc'[q] = "idle" /\ target'[q] = None /\ entity'[q] = None
           \/ q = r /\ pc'[q] = "invalidate" /\ target[q] \in Tasks
                    /\ target'[q] = target[q] /\ entity'[q] = entity[q]
  BY WrittenKeeps DEF IInv
<1>2. \A q \in Requests : entity'[q] # None => EntityComesFrom(q)
  BY <1>1 DEF EntityComesFrom
<1>3. \A i \in Tasks : i # None
  BY NoneAssumption DEF Ids
<1>4. RequestsShaped'
  BY <1>1, <1>3 DEF IInv, RequestsShaped, Shaped
<1>. QED
  BY <1>2, <1>4

-----------------------------------------------------------------------------
(* One lemma per action *)

LEMMA CreateProjectStep ==
  ASSUME IInv, NEW u \in Users, NEW p \in Projects, NEW fields \in [Fields -> Values],
         CreateProject(u, p, fields)
  PROVE  IInv'
<1>. DEFINE new == [owner |-> u, parent |-> None, fields |-> fields]
<1>1. /\ p \notin used /\ p \in Ids /\ p \notin Tasks
      /\ row' = [row EXCEPT ![p] = new]
      /\ used' = used \cup {p}
      /\ UNCHANGED <<pc, target, entity, read, given>>
      /\ new \in Row
  BY IdsAssumption DEF CreateProject, reqVars, Ids, Row
<1>2. row'[p] = new /\ \A i \in Ids \ {p} : row'[i] = row[i]
  BY <1>1 DEF IInv, TypeOK
<1>3. new # None /\ new.owner = u /\ new.parent = None
  BY <1>1, NoneAssumption
<1>. HIDE DEF new
<1>4. TypeOK'
  BY <1>1 DEF IInv, TypeOK
<1>5. RowsShaped'
  BY <1>1, <1>2, <1>3 DEF IInv, RowsShaped, Exists, Shaped
<1>6. RequestsShaped'
  BY <1>1 DEF IInv, RequestsShaped, Shaped
<1>7. ParentsExist'
  <2>. SUFFICES ASSUME NEW t \in Tasks, row'[t] # None PROVE row'[row'[t].parent] # None
    BY DEF ParentsExist, Exists
  <2>1. t \in Ids \ {p}
    BY <1>1 DEF Ids
  <2>2. Exists(t) /\ row'[t] = row[t] /\ row[t].parent \in Ids /\ Exists(row[t].parent)
    BY <1>2, <2>1 DEF IInv, ParentsExist, RowsShaped, Shaped, Exists, Ids
  <2>. QED
    BY <1>2, <1>3, <2>2 DEF Exists
<1>8. ASSUME NEW i \in Ids, NEW v \in Users, SaysOwner(i, v)'
      PROVE  SaysOwner(i, v) \/ (i = p /\ v = u)
  <2>1. CASE row'[i] # None /\ row'[i].owner = v
    <3>1. CASE i = p
      BY <1>2, <1>3, <2>1, <3>1
    <3>2. CASE i # p
      BY <1>2, <2>1, <3>2 DEF SaysOwner, Exists
    <3>. QED
      BY <3>1, <3>2
  <2>2. ASSUME NEW t \in Tasks, Exists(t)', row'[t].parent = i, row'[t].owner = v
        PROVE  SaysOwner(i, v)
    <3>1. row'[t] = row[t]
      BY <1>1, <1>2 DEF Ids
    <3>. QED
      BY <2>2, <3>1 DEF SaysOwner, Exists
  <2>3. ASSUME NEW r \in Requests, entity'[r] # None, entity'[r].owner = v,
               target'[r] = i \/ entity'[r].parent = i
        PROVE  SaysOwner(i, v)
    BY <1>1, <2>3 DEF SaysOwner
  <2>. QED
    BY <1>8, <2>1, <2>2, <2>3 DEF SaysOwner, Exists
<1>9. \A v \in Users : ~SaysOwner(p, v)
  BY <1>1 DEF IInv, OwnersAgree
<1>10. OwnersAgree'
  BY <1>1, <1>8, <1>9 DEF IInv, OwnersAgree
<1>11. ASSUME NEW t \in Tasks, NEW q \in Projects, SaysParent(t, q)'
       PROVE  SaysParent(t, q)
  <2>1. row'[t] = row[t]
    BY <1>1, <1>2 DEF Ids
  <2>. QED
    BY <1>1, <1>11, <2>1 DEF SaysParent, Exists
<1>12. ParentsAgree'
  BY <1>11 DEF IInv, ParentsAgree
<1>. QED
  BY <1>4, <1>5, <1>6, <1>7, <1>10, <1>12 DEF IInv

LEMMA CheckProjectStep ==
  ASSUME IInv, NEW r \in Requests, NEW u \in Users, NEW p \in Projects,
         NEW fields \in [Fields -> Values], CheckProject(r, u, p, fields)
  PROVE  IInv'
<1>. DEFINE new == [owner |-> u, parent |-> p, fields |-> fields]
<1>1. /\ pc[r] = "idle" /\ Exists(p) /\ row[p].owner = u
      /\ entity' = [entity EXCEPT ![r] = new]
      /\ pc' = [pc EXCEPT ![r] = "insert"]
      /\ UNCHANGED <<row, used, target, read, given>>
      /\ new \in Row
  BY DEF CheckProject, Owned, Row
<1>2. new # None /\ new.owner = u /\ new.parent = p
  BY <1>1, NoneAssumption
<1>. HIDE DEF new
<1>3. TypeOK'
  BY <1>1 DEF IInv, TypeOK
<1>4. target[r] = None
  BY <1>1 DEF IInv, RequestsShaped
<1>5. RequestsShaped'
  BY <1>1, <1>2, <1>4 DEF IInv, TypeOK, RequestsShaped, Shaped
<1>6. \A q \in Requests : entity'[q] # None => EntityComesFrom(q)
  BY <1>1, <1>2, <1>4 DEF IInv, TypeOK, EntityComesFrom
<1>. QED
  BY <1>1, <1>3, <1>5, <1>6, SameRows, OwnersAgreeStep DEF IInv

LEMMA InsertTaskStep ==
  ASSUME IInv, NEW r \in Requests, NEW t \in Tasks, InsertTask(r, t)
  PROVE  IInv'
<1>1. /\ pc[r] = "insert" /\ t \notin used /\ t \in Ids /\ t # None
      /\ target[r] = None /\ entity[r] # None /\ entity[r] \in Row
      /\ entity[r].parent \in Projects
  BY NoneAssumption DEF InsertTask, IInv, TypeOK, RequestsShaped, Ids
<1>2. CASE ~ParentExists(entity[r])
  <2>1. Finish(r) /\ UNCHANGED <<row, used>>
    BY <1>2 DEF InsertTask
  <2>2. TypeOK'
    BY <2>1, FinishTypes DEF IInv, TypeOK
  <2>. QED
    BY <2>1, <2>2, WrittenRequests, SameRows, OwnersAgreeStep DEF IInv
<1>3. CASE ParentExists(entity[r])
  <2>1. /\ row' = [row EXCEPT ![t] = entity[r]]
        /\ used' = used \cup {t}
        /\ target' = [target EXCEPT ![r] = t]
        /\ pc' = [pc EXCEPT ![r] = "invalidate"]
        /\ UNCHANGED <<entity, read, given>>
    BY <1>3 DEF InsertTask
  <2>2. row'[t] = entity[r] /\ \A i \in Ids \ {t} : row'[i] = row[i]
    BY <1>1, <2>1 DEF IInv, TypeOK
  <2>3. Exists(entity[r].parent) /\ entity[r].parent \in Ids \ {t}
    BY <1>1, <1>3, IdsAssumption, NoneAssumption DEF ParentExists, Ids
  <2>4. TypeOK'
    BY <1>1, <2>1 DEF IInv, TypeOK
  <2>5. t \notin Projects
    BY IdsAssumption
  <2>6. RowsShaped'
    BY <1>1, <2>1, <2>2, <2>5 DEF IInv, RowsShaped, Exists, Shaped
  <2>7. RequestsShaped'
    BY <1>1, <2>1, <2>5 DEF IInv, TypeOK, RequestsShaped, Shaped
  <2>8. ParentsExist'
    <3>. SUFFICES ASSUME NEW k \in Tasks, row'[k] # None PROVE row'[row'[k].parent] # None
      BY DEF ParentsExist, Exists
    <3>1. CASE k = t
      BY <2>2, <2>3, <3>1 DEF Exists
    <3>2. CASE k # t
      <4>1. k \in Ids /\ row'[k] = row[k]
        BY <2>2, <3>2 DEF Ids
      <4>2. row[row[k].parent] # None /\ row[k].parent \in Ids \ {t}
        BY <4>1, <2>5 DEF IInv, ParentsExist, RowsShaped, Shaped, Exists, Ids
      <4>. QED
        BY <2>2, <4>1, <4>2
    <3>. QED
      BY <3>1, <3>2
  <2>9. ASSUME NEW i \in Ids, NEW v \in Users, SaysOwner(i, v)'
        PROVE  SaysOwner(i, v) \/ (i = t /\ v = entity[r].owner)
    <3>1. CASE row'[i] # None /\ row'[i].owner = v
      <4>1. CASE i = t
        BY <2>2, <3>1, <4>1
      <4>2. CASE i # t
        BY <2>2, <3>1, <4>2 DEF SaysOwner, Exists
      <4>. QED
        BY <4>1, <4>2
    <3>2. ASSUME NEW k \in Tasks, row'[k] # None, row'[k].parent = i, row'[k].owner = v
          PROVE  SaysOwner(i, v)
      <4>1. CASE k = t
        BY <1>1, <2>2, <3>2, <4>1 DEF SaysOwner
      <4>2. CASE k # t
        <5>1. row'[k] = row[k]
          BY <2>2, <4>2 DEF Ids
        <5>. QED
          BY <3>2, <5>1 DEF SaysOwner, Exists
      <4>. QED
        BY <4>1, <4>2
    <3>3. ASSUME NEW q \in Requests, entity'[q] # None, entity'[q].owner = v,
                 target'[q] = i \/ entity'[q].parent = i
          PROVE  SaysOwner(i, v) \/ (i = t /\ v = entity[r].owner)
      <4>1. entity'[q] = entity[q] /\ (target'[q] = target[q] \/ (q = r /\ target'[q] = t))
        BY <2>1 DEF IInv, TypeOK
      <4>2. CASE entity[q].parent = i \/ target[q] = i
        BY <3>3, <4>1, <4>2 DEF SaysOwner
      <4>3. CASE target'[q] = i /\ target[q] # i
        BY <3>3, <4>1, <4>3
      <4>. QED
        BY <3>3, <4>1, <4>2, <4>3
    <3>. QED
      BY <2>9, <3>1, <3>2, <3>3 DEF SaysOwner, Exists
  <2>10. \A v \in Users : ~SaysOwner(t, v)
    BY <1>1 DEF IInv, OwnersAgree
  <2>11. OwnersAgree'
    BY <2>1, <2>9, <2>10 DEF IInv, OwnersAgree
  <2>12. ASSUME NEW k \in Tasks, NEW p \in Projects, SaysParent(k, p)'
         PROVE  SaysParent(k, p) \/ (k = t /\ p = entity[r].parent)
    <3>1. CASE row'[k] # None /\ row'[k].parent = p
      <4>1. CASE k = t
        BY <2>2, <3>1, <4>1
      <4>2. CASE k # t
        <5>1. row'[k] = row[k]
          BY <2>2, <4>2 DEF Ids
        <5>. QED
          BY <3>1, <5>1 DEF SaysParent, Exists
      <4>. QED
        BY <4>1, <4>2
    <3>2. ASSUME NEW q \in Requests, entity'[q] # None, target'[q] = k, entity'[q].parent = p
          PROVE  SaysParent(k, p) \/ (k = t /\ p = entity[r].parent)
      <4>1. entity'[q] = entity[q] /\ (target'[q] = target[q] \/ (q = r /\ target'[q] = t))
        BY <2>1 DEF IInv, TypeOK
      <4>. QED
        BY <3>2, <4>1 DEF SaysParent
    <3>. QED
      BY <2>12, <3>1, <3>2 DEF SaysParent, Exists
  <2>13. \A p \in Projects : ~SaysParent(t, p)
    <3>1. row[t] = None
      <4>. SUFFICES ASSUME row[t] # None PROVE FALSE
        OBVIOUS
      <4>1. row[t] \in Row /\ row[t].owner \in Users
        BY <1>1 DEF IInv, TypeOK, Row
      <4>. QED
        BY <2>10, <4>1 DEF SaysOwner, Exists
    <3>2. ASSUME NEW q \in Requests, entity[q] # None PROVE target[q] # t
      <4>1. entity[q] \in Row /\ entity[q].owner \in Users
        BY <3>2 DEF IInv, TypeOK, Row
      <4>. QED
        BY <2>10, <3>2, <4>1 DEF SaysOwner
    <3>. QED
      BY <3>1, <3>2 DEF SaysParent, Exists
  <2>14. ParentsAgree'
    BY <2>12, <2>13 DEF IInv, ParentsAgree
  <2>. QED
    BY <2>4, <2>6, <2>7, <2>8, <2>11, <2>14 DEF IInv
<1>. QED
  BY <1>2, <1>3

LEMMA FindForUpdateStep ==
  ASSUME IInv, NEW r \in Requests, NEW u \in Users, NEW i \in Ids, NEW body \in Bodies,
         FindForUpdate(r, u, i, body)
  PROVE  IInv'
<1>. DEFINE new == Changed(row[i], body)
<1>1. /\ pc[r] = "idle" /\ Exists(i) /\ row[i] \in Row /\ i # None
      /\ target' = [target EXCEPT ![r] = i]
      /\ entity' = [entity EXCEPT ![r] = new]
      /\ given' = [given EXCEPT ![r] = DOMAIN body]
      /\ pc' = [pc EXCEPT ![r] = "load"]
      /\ UNCHANGED <<row, used, read>>
  BY NoneAssumption DEF FindForUpdate, Owned, Exists, IInv, TypeOK
<1>2. /\ new \in Row /\ new.owner = row[i].owner /\ new.parent = row[i].parent
      /\ DOMAIN body \in SUBSET Fields
  BY <1>1, ChangedIsRow
<1>3. new # None
  BY <1>2, NoneAssumption
<1>. HIDE DEF new
<1>4. TypeOK'
  BY <1>1, <1>2 DEF IInv, TypeOK
<1>5. Shaped(i, new)
  BY <1>1, <1>2 DEF IInv, RowsShaped, Shaped
<1>6. RequestsShaped'
  BY <1>1, <1>3, <1>5 DEF IInv, TypeOK, RequestsShaped, Shaped
<1>7. \A q \in Requests : entity'[q] # None => EntityComesFrom(q)
  BY <1>1, <1>2 DEF IInv, TypeOK, EntityComesFrom
<1>. QED
  BY <1>1, <1>4, <1>6, <1>7, SameRows, OwnersAgreeStep DEF IInv

LEMMA FindForRemoveStep ==
  ASSUME IInv, NEW r \in Requests, NEW u \in Users, NEW i \in Ids, FindForRemove(r, u, i)
  PROVE  IInv'
<1>1. /\ pc[r] = "idle" /\ Exists(i) /\ row[i] \in Row /\ i # None
      /\ target' = [target EXCEPT ![r] = i]
      /\ entity' = [entity EXCEPT ![r] = row[i]]
      /\ pc' = [pc EXCEPT ![r] = "delete"]
      /\ UNCHANGED <<row, used, read, given>>
  BY NoneAssumption DEF FindForRemove, Owned, Exists, IInv, TypeOK
<1>2. TypeOK'
  BY <1>1 DEF IInv, TypeOK
<1>3. Shaped(i, row[i])
  BY <1>1 DEF IInv, RowsShaped
<1>4. RequestsShaped'
  BY <1>1, <1>3 DEF IInv, TypeOK, RequestsShaped, Shaped, Exists
<1>5. \A q \in Requests : entity'[q] # None => EntityComesFrom(q)
  BY <1>1 DEF IInv, TypeOK, EntityComesFrom
<1>. QED
  BY <1>1, <1>2, <1>4, <1>5, SameRows, OwnersAgreeStep DEF IInv

LEMMA LoadForSaveStep ==
  ASSUME IInv, NEW r \in Requests, LoadForSave(r)
  PROVE  IInv'
<1>1. /\ pc[r] = "load"
      /\ read' = [read EXCEPT ![r] = row[target[r]]]
      /\ pc' = [pc EXCEPT ![r] = "write"]
      /\ UNCHANGED <<row, used, target, entity, given>>
  BY DEF LoadForSave
<1>2. target[r] \in Ids
  BY <1>1 DEF IInv, TypeOK, RequestsShaped
<1>3. TypeOK'
  BY <1>1, <1>2 DEF IInv, TypeOK
<1>4. RequestsShaped'
  BY <1>1 DEF IInv, TypeOK, RequestsShaped, Shaped
<1>5. \A q \in Requests : entity'[q] # None => EntityComesFrom(q)
  BY <1>1 DEF EntityComesFrom
<1>. QED
  BY <1>1, <1>3, <1>4, <1>5, SameRows, OwnersAgreeStep DEF IInv

LEMMA EndStep ==
  ASSUME IInv, NEW r \in Requests, Finish(r), UNCHANGED <<row, used>>
  PROVE  IInv'
<1>1. TypeOK'
  BY FinishTypes DEF IInv, TypeOK
<1>. QED
  BY <1>1, WrittenRequests, SameRows, OwnersAgreeStep DEF IInv

LEMMA DeleteFoundStep ==
  ASSUME IInv, NEW r \in Requests, DeleteFound(r)
  PROVE  IInv'
<1>1. row' = Without(target[r]) /\ Written(r) /\ used' = used /\ target[r] \in Ids
  BY DEF DeleteFound, IInv, TypeOK, RequestsShaped
<1>2. \A i \in Ids : row'[i] = IF i = target[r] \/ (Exists(i) /\ row[i].parent = target[r])
                              THEN None ELSE row[i]
  BY <1>1 DEF Without
<1>3. \A i \in Ids : row'[i] # None =>
         row'[i] = row[i] /\ Exists(i) /\ i # target[r] /\ row[i].parent # target[r]
  BY <1>2 DEF Exists
<1>4. TypeOK'
  <2>1. row' \in [Ids -> Row \cup {None}]
    BY <1>1 DEF Without, IInv, TypeOK
  <2>. QED
    BY <1>1, <2>1, WrittenTypes DEF IInv, TypeOK
<1>5. RowsShaped'
  BY <1>3 DEF IInv, RowsShaped, Shaped, Exists
<1>6. ParentsExist'
  <2>. SUFFICES ASSUME NEW t \in Tasks, row'[t] # None PROVE row'[row'[t].parent] # None
    BY DEF ParentsExist, Exists
  <2>1. t \in Ids
    BY DEF Ids
  <2>2. row'[t] = row[t] /\ Exists(t) /\ row[t].parent # target[r]
    BY <1>3, <2>1
  <2>3. row[t].parent \in Projects /\ row[t].parent \in Ids /\ Exists(row[t].parent)
    BY <2>1, <2>2 DEF IInv, RowsShaped, Shaped, ParentsExist, Ids
  <2>4. row[row[t].parent].parent = None /\ target[r] # None
    BY <1>1, <2>3, NoneAssumption DEF IInv, RowsShaped, Shaped
  <2>. QED
    BY <1>2, <2>2, <2>3, <2>4 DEF Exists
<1>7. \A i \in Ids : row'[i] # None => RowComesFrom(i)
  BY <1>3 DEF RowComesFrom
<1>. QED
  BY <1>1, <1>4, <1>5, <1>6, <1>7, WrittenRequests, OwnersAgreeStep DEF IInv

LEMMA WriteSavedStep ==
  ASSUME IInv, NEW r \in Requests, WriteSaved(r)
  PROVE  IInv'
<1>1. /\ pc[r] = "write" /\ used' = used
      /\ target[r] \in Ids /\ entity[r] \in Row /\ Shaped(target[r], entity[r])
  BY DEF WriteSaved, IInv, TypeOK, RequestsShaped
<1>2. CASE read[r] = None /\ (Exists(target[r]) \/ ~ParentExists(entity[r]))
  <2>1. Finish(r) /\ UNCHANGED row
    BY <1>2 DEF WriteSaved
  <2>. QED
    BY <1>1, <2>1, EndStep
<1>3. CASE read[r] # None /\ Exists(target[r])
  <2>. DEFINE new == [row[target[r]] EXCEPT !.fields =
                        SavedFields(read[r], entity[r], row[target[r]])]
  <2>1. Written(r) /\ row' = [row EXCEPT ![target[r]] = new]
    BY <1>3 DEF WriteSaved
  <2>2. /\ row[target[r]] \in Row /\ read[r] \in Row
    BY <1>1, <1>3 DEF IInv, TypeOK, Exists
  <2>3. /\ new \in Row /\ new.owner = row[target[r]].owner
        /\ new.parent = row[target[r]].parent
    BY <1>1, <2>2, SavedIsRow
  <2>4. new # None
    BY <2>3, NoneAssumption
  <2>. HIDE DEF new
  <2>5. row'[target[r]] = new /\ \A j \in Ids \ {target[r]} : row'[j] = row[j]
    BY <1>1, <2>1 DEF IInv, TypeOK
  <2>6. TypeOK'
    BY <1>1, <2>1, <2>3, WrittenTypes DEF IInv, TypeOK
  <2>7. \A j \in Ids : row'[j] # None =>
           Exists(j) /\ row'[j].owner = row[j].owner /\ row'[j].parent = row[j].parent
    BY <1>3, <2>3, <2>5 DEF Exists
  <2>8. RowsShaped'
    BY <2>7 DEF IInv, RowsShaped, Shaped, Exists
  <2>9. ParentsExist'
    <3>. SUFFICES ASSUME NEW t \in Tasks, row'[t] # None PROVE row'[row'[t].parent] # None
      BY DEF ParentsExist, Exists
    <3>1. Exists(t) /\ row'[t].parent = row[t].parent /\ t \in Ids
      BY <2>7 DEF Ids
    <3>2. row[t].parent \in Ids /\ row[row[t].parent] # None
      BY <3>1 DEF IInv, RowsShaped, Shaped, ParentsExist, Exists, Ids
    <3>. QED
      BY <2>4, <2>5, <3>1, <3>2
  <2>10. \A j \in Ids : row'[j] # None => RowComesFrom(j)
    BY <2>7 DEF RowComesFrom
  <2>. QED
    BY <1>1, <2>1, <2>6, <2>8, <2>9, <2>10, WrittenRequests, OwnersAgreeStep DEF IInv
<1>4. CASE read[r] # None /\ ~Exists(target[r])
  <2>1. Written(r) /\ UNCHANGED row
    BY <1>4 DEF WriteSaved
  <2>2. TypeOK'
    BY <1>1, <2>1, WrittenTypes DEF IInv, TypeOK
  <2>. QED
    BY <1>1, <2>1, <2>2, SameRows, WrittenRequests, OwnersAgreeStep DEF IInv
<1>5. CASE read[r] = None /\ ~Exists(target[r]) /\ ParentExists(entity[r])
  <2>1. Written(r) /\ row' = [row EXCEPT ![target[r]] = entity[r]]
    BY <1>5 DEF WriteSaved
  <2>2. row'[target[r]] = entity[r] /\ \A j \in Ids \ {target[r]} : row'[j] = row[j]
    BY <1>1, <2>1 DEF IInv, TypeOK
  <2>3. entity[r] # None
    BY <1>1, NoneAssumption
  <2>4. TypeOK'
    BY <1>1, <2>1, WrittenTypes DEF IInv, TypeOK
  <2>5. RowsShaped'
    BY <1>1, <2>2 DEF IInv, RowsShaped, Shaped, Exists
  <2>6. ParentsExist'
    <3>. SUFFICES ASSUME NEW t \in Tasks, row'[t] # None PROVE row'[row'[t].parent] # None
      BY DEF ParentsExist, Exists
    <3>1. t \in Ids
      BY DEF Ids
    <3>2. CASE t = target[r]
      <4>1. entity[r].parent \in Ids /\ entity[r].parent # None
        BY <1>1, <3>1, <3>2, NoneAssumption DEF Shaped, Ids
      <4>2. row[entity[r].parent] # None
        BY <1>5, <4>1 DEF ParentExists, Exists
      <4>. QED
        BY <2>2, <2>3, <3>2, <4>1, <4>2
    <3>3. CASE t # target[r]
      <4>1. row'[t] = row[t]
        BY <2>2, <3>1, <3>3
      <4>2. row[t].parent \in Ids /\ row[row[t].parent] # None
        BY <3>1, <4>1 DEF IInv, RowsShaped, Shaped, ParentsExist, Exists, Ids
      <4>. QED
        BY <2>2, <2>3, <4>1, <4>2
    <3>. QED
      BY <3>2, <3>3
  <2>7. \A j \in Ids : row'[j] # None => RowComesFrom(j)
    BY <2>2, <2>3 DEF RowComesFrom, Exists
  <2>. QED
    BY <1>1, <2>1, <2>4, <2>5, <2>6, <2>7, WrittenRequests, OwnersAgreeStep DEF IInv
<1>. QED
  BY <1>2, <1>3, <1>4, <1>5

-----------------------------------------------------------------------------
LEMMA IInvStep == IInv /\ [Next]_vars => IInv'
<1>. SUFFICES ASSUME IInv, [Next]_vars PROVE IInv'
  OBVIOUS
<1>1. ASSUME NEW u \in Users, NEW p \in Projects, NEW fields \in [Fields -> Values],
             CreateProject(u, p, fields)
      PROVE  IInv'
  BY <1>1, CreateProjectStep
<1>2. ASSUME NEW r \in Requests, NEW u \in Users, NEW p \in Projects,
             NEW fields \in [Fields -> Values], CheckProject(r, u, p, fields)
      PROVE  IInv'
  BY <1>2, CheckProjectStep
<1>3. ASSUME NEW r \in Requests, NEW t \in Tasks, InsertTask(r, t) PROVE IInv'
  BY <1>3, InsertTaskStep
<1>4. ASSUME NEW r \in Requests, NEW u \in Users, NEW i \in Ids, NEW body \in Bodies,
             FindForUpdate(r, u, i, body)
      PROVE  IInv'
  BY <1>4, FindForUpdateStep
<1>5. ASSUME NEW r \in Requests, NEW u \in Users, NEW i \in Ids, FindForRemove(r, u, i)
      PROVE  IInv'
  BY <1>5, FindForRemoveStep
<1>6. ASSUME NEW r \in Requests, LoadForSave(r) PROVE IInv'
  BY <1>6, LoadForSaveStep
<1>7. ASSUME NEW r \in Requests, WriteSaved(r) PROVE IInv'
  BY <1>7, WriteSavedStep
<1>8. ASSUME NEW r \in Requests, DeleteFound(r) PROVE IInv'
  BY <1>8, DeleteFoundStep
<1>9. ASSUME NEW r \in Requests, Invalidate(r) \/ Abort(r) PROVE IInv'
  BY <1>9, EndStep DEF Invalidate, Abort
<1>10. CASE UNCHANGED vars
  BY <1>10 DEF vars, reqVars, IInv, TypeOK, RowsShaped, RequestsShaped, Shaped, ParentsExist,
               OwnersAgree, SaysOwner, ParentsAgree, SaysParent, Exists
<1>. QED
  BY <1>1, <1>2, <1>3, <1>4, <1>5, <1>6, <1>7, <1>8, <1>9, <1>10 DEF Next

\* IInv is an invariant: rows, what a request has read of them, and their owners
\* agree, however the statements of the requests interleave.
THEOREM Invariance == Spec => []IInv
BY InitIInv, IInvStep, PTL DEF Spec

\* The variables of the store hold what the code can put there.
THEOREM TypeCorrect == Spec => []TypeOK
<1>1. IInv => TypeOK
  BY DEF IInv
<1>. QED
  BY <1>1, Invariance, PTL

\* No interleaving of creations, updates, removals and cascades leaves a task
\* without its project or in a project of somebody else.
THEOREM TasksBelongToTheirProject == Spec => []TasksBelong
<1>1. ASSUME IInv PROVE TasksBelong
  <2>. SUFFICES ASSUME NEW t \in Tasks, Exists(t)
                PROVE  /\ row[t].parent \in Projects
                       /\ Exists(row[t].parent)
                       /\ row[row[t].parent].owner = row[t].owner
    BY DEF TasksBelong
  <2>1. t \in Ids /\ row[t] \in Row
    BY <1>1 DEF Ids, IInv, TypeOK, Exists
  <2>2. row[t].parent \in Projects /\ row[t].parent \in Ids /\ Exists(row[t].parent)
    BY <1>1, <2>1 DEF IInv, RowsShaped, Shaped, ParentsExist, Ids
  <2>3. row[row[t].parent] \in Row
    BY <1>1, <2>2 DEF IInv, TypeOK, Exists
  <2>4. /\ SaysOwner(row[t].parent, row[t].owner)
        /\ SaysOwner(row[t].parent, row[row[t].parent].owner)
    BY <2>2 DEF SaysOwner
  <2>5. row[t].owner \in Users /\ row[row[t].parent].owner \in Users
    BY <2>1, <2>3 DEF Row
  <2>. QED
    BY <1>1, <2>2, <2>4, <2>5 DEF IInv, OwnersAgree
<1>. QED
  BY <1>1, Invariance, PTL

\* Whatever is committed of a task, some request is on its way to invalidate the
\* summary of the task's project, unless the project itself has gone.
THEOREM ChangesReachTheCache == Spec => ChangesAreInvalidated
<1>. DEFINE Project(t) == IF Exists(t) THEN row[t].parent ELSE row'[t].parent
            Reached(t) == \/ row'[Project(t)] = None
                          \/ \E r \in Requests : /\ pc'[r] = "invalidate"
                                                 /\ entity'[r].parent = Project(t)
<1>1. ASSUME IInv, NEW r \in Requests, NEW k \in Tasks, InsertTask(r, k),
             NEW t \in Tasks, row'[t] # row[t]
      PROVE  Reached(t)
  <2>1. ParentExists(entity[r])
    BY <1>1 DEF InsertTask
  <2>2. /\ row' = [row EXCEPT ![k] = entity[r]]
        /\ pc' = [pc EXCEPT ![r] = "invalidate"] /\ entity' = entity
    BY <1>1, <2>1 DEF InsertTask
  <2>3. t = k /\ t \in Ids
    BY <1>1, <2>2 DEF IInv, TypeOK, Ids
  <2>4. row'[t] = entity[r] /\ pc'[r] = "invalidate" /\ entity'[r] = entity[r]
    BY <1>1, <2>2, <2>3 DEF IInv, TypeOK
  <2>5. ~Exists(t)
    <3>. SUFFICES ASSUME Exists(t) PROVE FALSE
      OBVIOUS
    <3>1. row[t].owner \in Users /\ SaysOwner(t, row[t].owner) /\ t \notin used
      BY <1>1, <2>3 DEF IInv, TypeOK, Exists, Row, SaysOwner, InsertTask
    <3>. QED
      BY <1>1, <2>3, <3>1 DEF IInv, OwnersAgree
  <2>. QED
    BY <2>4, <2>5
<1>2. ASSUME IInv, NEW r \in Requests, WriteSaved(r), NEW t \in Tasks, row'[t] # row[t]
      PROVE  Reached(t)
  <2>1. /\ t \in Ids /\ t = target[r] /\ entity[r] # None /\ Written(r)
        /\ entity[r].parent \in Projects
        /\ row'[t] = entity[r] \/ Exists(t)
        /\ ~Exists(t) => row'[t] = entity[r]
    BY <1>2 DEF WriteSaved, IInv, TypeOK, RequestsShaped, Shaped, Ids, Exists
  <2>2. pc'[r] = "invalidate" /\ entity'[r] = entity[r]
    BY <1>2, <2>1 DEF Written, IInv, TypeOK
  <2>3. CASE Exists(t)
    <3>1. row[t].parent \in Projects
      BY <1>2, <2>1, <2>3 DEF IInv, RowsShaped, Shaped
    <3>2. SaysParent(t, row[t].parent) /\ SaysParent(t, entity[r].parent)
      BY <2>1, <2>3 DEF SaysParent
    <3>3. row[t].parent = entity[r].parent
      BY <1>2, <2>1, <3>1, <3>2 DEF IInv, ParentsAgree
    <3>. QED
      BY <2>2, <2>3, <3>3
  <2>4. CASE ~Exists(t)
    BY <2>1, <2>2, <2>4
  <2>. QED
    BY <2>3, <2>4
<1>3. ASSUME IInv, NEW r \in Requests, DeleteFound(r), NEW t \in Tasks, row'[t] # row[t]
      PROVE  Reached(t)
  <2>1. /\ t \in Ids /\ Written(r) /\ target[r] \in Ids /\ target[r] # None
        /\ entity[r] # None /\ Shaped(target[r], entity[r])
        /\ row' = Without(target[r])
    BY <1>3 DEF DeleteFound, IInv, TypeOK, RequestsShaped, Ids
  <2>2. row'[t] = IF t = target[r] \/ (Exists(t) /\ row[t].parent = target[r])
                  THEN None ELSE row[t]
    BY <2>1 DEF Without
  <2>3. Exists(t)
    BY <1>3, <2>2 DEF Exists
  <2>4. row[t].parent \in Projects
    BY <1>3, <2>1, <2>3 DEF IInv, RowsShaped, Shaped
  <2>5. CASE t # target[r]
    <3>1. row[t].parent = target[r]
      BY <1>3, <2>2, <2>5
    <3>2. row'[target[r]] = None
      BY <2>1 DEF Without
    <3>. QED
      BY <2>3, <3>1, <3>2
  <2>6. CASE t = target[r]
    <3>1. pc'[r] = "invalidate" /\ entity'[r] = entity[r]
      BY <1>3, <2>1, <2>6 DEF Written, IInv, TypeOK
    <3>2. entity[r].parent \in Projects
      BY <2>1, <2>6 DEF Shaped
    <3>3. SaysParent(t, row[t].parent) /\ SaysParent(t, entity[r].parent)
      BY <2>1, <2>3, <2>6 DEF SaysParent
    <3>4. row[t].parent = entity[r].parent
      BY <1>3, <2>4, <3>2, <3>3 DEF IInv, ParentsAgree
    <3>. QED
      BY <2>3, <3>1, <3>4
  <2>. QED
    BY <2>5, <2>6
<1>4. ASSUME IInv, NEW u \in Users, NEW p \in Projects, NEW fields \in [Fields -> Values],
             CreateProject(u, p, fields), NEW t \in Tasks
      PROVE  row'[t] = row[t]
  BY <1>4, IdsAssumption DEF CreateProject, IInv, TypeOK, Ids
<1>5. ASSUME IInv, [Next]_vars, NEW t \in Tasks, row'[t] # row[t] PROVE Reached(t)
  <2>1. ASSUME NEW r \in Requests,
               \/ \E u \in Users, p \in Projects, fields \in [Fields -> Values] :
                     CheckProject(r, u, p, fields)
               \/ \E u \in Users, i \in Ids :
                     \/ \E body \in Bodies : FindForUpdate(r, u, i, body)
                     \/ FindForRemove(r, u, i)
               \/ LoadForSave(r) \/ Invalidate(r) \/ Abort(r)
        PROVE  row'[t] = row[t]
    BY <2>1 DEF CheckProject, FindForUpdate, FindForRemove, LoadForSave, Invalidate, Abort
  <2>2. UNCHANGED vars => row'[t] = row[t]
    BY DEF vars
  <2>. HIDE DEF Reached
  <2>. QED
    BY <1>1, <1>2, <1>3, <1>4, <1>5, <2>1, <2>2 DEF Next
<1>6. IInv /\ [Next]_vars =>
        [\A t \in Tasks : row'[t] # row[t] =>
           LET project == IF Exists(t) THEN row[t].parent ELSE row'[t].parent
           IN  \/ row'[project] = None
               \/ \E r \in Requests : /\ pc'[r] = "invalidate"
                                      /\ entity'[r].parent = project]_vars
  BY <1>5
<1>. QED
  BY <1>6, Invariance, PTL DEF ChangesAreInvalidated, Spec

=============================================================================
