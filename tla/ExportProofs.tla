---------------------------- MODULE ExportProofs ----------------------------
(***************************************************************************)
(* The safety of the exports for every set of exports, messages and workers, *)
(* every maxReceiveCount and batch size, and both shapes of the claim's       *)
(* result.  IInv is inductive; the pipeline's properties follow from it.  The *)
(* panel runs the pipeline as it is, and is right about completed exports      *)
(* because the pipeline implements ExportLifecycle.                            *)
(***************************************************************************)
EXTENDS ExportFile, CsvUtilProofs, TLAPS

-----------------------------------------------------------------------------
(* Rows *)

\* What the UPDATEs and the save make of a row is a row again.
LEMMA RowsAreRows ==
  /\ NoRow \in Row
  /\ QueuedRow \in Row
  /\ UnpublishedRow \in Row
  /\ \A r \in Row : Claimed(r) \in Row /\ Completed(r) \in Row /\ Failed(r) \in Row
  /\ \A read, now \in Row : SavedOver(read, now) \in Row /\ Unpublished(read, now) \in Row
BY ZenonT(40)
   DEF Row, Status, NoRow, QueuedRow, Claimed, Completed, Failed, SavedOver, SavedColumn,
       UnpublishedRow, Unpublished

\* The types of a row's columns.
LEMMA RowFields ==
  \A r \in Row : r.status \in Status /\ r.key \in BOOLEAN
BY DEF Row

-----------------------------------------------------------------------------
(* Type correctness *)

\* The initial state is well typed.
LEMMA InitTypeOK == Init => TypeOK
BY RowsAreRows, MessagesAssumption, QueueAssumption DEF Init, TypeOK, RequestState, PC

\* Every step keeps the types; a receive only hands out messages that were
\* received fewer than MaxReceive times.
LEMMA TypeOKStep ==
  ASSUME TypeOK, [Next]_vars
  PROVE  TypeOK'
<1>. USE RowsAreRows, MessagesAssumption, QueueAssumption
     DEF TypeOK, PC, RequestState, apiVars, queueVars, workerVars
<1>1. ASSUME NEW e \in Exports, CheckProject(e) PROVE TypeOK'
  BY <1>1 DEF CheckProject
<1>2. ASSUME NEW e \in Exports, SaveQueued(e) PROVE TypeOK'
  BY <1>2 DEF SaveQueued, Outcome, Applied
<1>3. ASSUME NEW e \in Exports, Publish(e) PROVE TypeOK'
  BY <1>3 DEF Publish, MessagesOf
<1>4. ASSUME NEW e \in Exports, LoadForSave(e) PROVE TypeOK'
  BY <1>4 DEF LoadForSave
<1>5. ASSUME NEW e \in Exports, WriteUnpublished(e) PROVE TypeOK'
  BY <1>5 DEF WriteUnpublished, Outcome, Applied
<1>6. ASSUME NEW e \in Exports, ApiCrash(e) PROVE TypeOK'
  BY <1>6 DEF ApiCrash
<1>7. ASSUME NEW e \in Exports, RemoveProject(e) PROVE TypeOK'
  BY <1>7 DEF RemoveProject
<1>24. ASSUME NEW e \in Exports, ReinsertProject(e) PROVE TypeOK'
  BY <1>24 DEF ReinsertProject
<1>25. ASSUME NEW e \in Exports, ExpireObject(e) PROVE TypeOK'
  BY <1>25 DEF ExpireObject
<1>8. ASSUME NEW m \in Messages, ExpireVisibility(m) PROVE TypeOK'
  BY <1>8 DEF ExpireVisibility
<1>9. ASSUME NEW m \in Messages, Redrive(m) PROVE TypeOK'
  BY <1>9 DEF Redrive
<1>10. ASSUME NEW w \in Workers, LeaveLoop(w) PROVE TypeOK'
  BY <1>10 DEF LeaveLoop, Stopping, Goto
<1>11. ASSUME NEW w \in Workers, NEW b \in Batches, Receive(w, b) PROVE TypeOK'
  BY <1>11 DEF Receive, Polling, Stopping, HandOut, Batches, Receivable
<1>12. ASSUME NEW w \in Workers, NEW m \in Messages, Handle(w, m) PROVE TypeOK'
  BY <1>12 DEF Handle, Stopping, Goto
<1>13. ASSUME NEW w \in Workers, Claim(w) PROVE TypeOK'
  BY <1>13 DEF Claim, Goto, EndHandle, Outcome, Applied, Claimable
<1>14. ASSUME NEW w \in Workers, FindTasks(w) PROVE TypeOK'
  BY <1>14 DEF FindTasks, Goto
<1>15. ASSUME NEW w \in Workers, Upload(w) PROVE TypeOK'
  BY <1>15 DEF Upload, Goto, Outcome, Applied
<1>16. ASSUME NEW w \in Workers, MarkCompleted(w) PROVE TypeOK'
  BY <1>16 DEF MarkCompleted, Goto, Outcome, Applied
<1>17. ASSUME NEW w \in Workers, MarkFailed(w) PROVE TypeOK'
  BY <1>17 DEF MarkFailed, Goto, EndHandle
<1>18. ASSUME NEW w \in Workers, DeleteMessage(w) PROVE TypeOK'
  BY <1>18 DEF DeleteMessage, Goto, EndHandle
<1>19. ASSUME NEW w \in Workers, NEW b \in Batches, ReceiveLost(w, b) PROVE TypeOK'
  BY <1>19 DEF ReceiveLost, Polling, Stopping, HandOut, Batches, Receivable
<1>20. ASSUME NEW w \in Workers, Bootstrap(w) PROVE TypeOK'
  BY <1>20 DEF Bootstrap, Goto
<1>21. ASSUME NEW w \in Workers, Shutdown(w) PROVE TypeOK'
  BY <1>21 DEF Shutdown
<1>22. ASSUME NEW w \in Workers, WorkerCrash(w) PROVE TypeOK'
  BY <1>22 DEF WorkerCrash, Goto
<1>23. CASE UNCHANGED vars
  BY <1>23 DEF vars, apiVars, queueVars, workerVars
<1>. QED
  BY <1>1, <1>2, <1>3, <1>4, <1>5, <1>6, <1>7, <1>8, <1>9, <1>10, <1>11, <1>12, <1>13, <1>14,
     <1>15, <1>16, <1>17, <1>18, <1>19, <1>20, <1>21, <1>22, <1>23, <1>24, <1>25 DEF Next, ApiNext,
     StorageNext, QueueNext, WorkerNext, WorkerStep

-----------------------------------------------------------------------------
(* The inductive invariant *)

\* Nothing is sent, held or stored at first.
LEMMA InitSafeInv == Init => SafeInv
BY DEF Init, SafeInv, UnsentBeforePublish, HeldWasSent, DeletedWhenSettled, StoredBeforeCompleted,
       KeyOnlyWhenCompleted, UntouchedUnlessSent, QueuedOnlyAtFirst, Accepted, MessagesOf, NoRow

\* Every step keeps the parts of the invariant.  The save after a failed
\* publish and the worker's UPDATE to failed are the two that rewrite a row
\* another process may have moved on.
LEMMA SafeInvStep ==
  ASSUME TypeOK, SafeInv, [Next]_vars
  PROVE  SafeInv'
<1>. USE MessagesAssumption
     DEF TypeOK, apiVars, queueVars, workerVars, SafeInv, UnsentBeforePublish, HeldWasSent,
         DeletedWhenSettled, StoredBeforeCompleted, KeyOnlyWhenCompleted, UntouchedUnlessSent,
         QueuedOnlyAtFirst, MessagesOf, Accepted, Settled
<1>1. ASSUME NEW e \in Exports, CheckProject(e) PROVE SafeInv'
  BY <1>1 DEF CheckProject
<1>2. ASSUME NEW e \in Exports, SaveQueued(e) PROVE SafeInv'
  BY <1>2 DEF SaveQueued, Outcome, Applied, QueuedRow
<1>3. ASSUME NEW e \in Exports, Publish(e) PROVE SafeInv'
  BY <1>3 DEF Publish, MessagesOf
<1>4. ASSUME NEW e \in Exports, LoadForSave(e) PROVE SafeInv'
  <2>1. UnsentBeforePublish' /\ HeldWasSent' /\ DeletedWhenSettled' /\ StoredBeforeCompleted'
    BY <1>4 DEF LoadForSave
  <2>2. KeyOnlyWhenCompleted'
    BY <1>4 DEF LoadForSave
  <2>3. UntouchedUnlessSent' /\ QueuedOnlyAtFirst'
    BY <1>4 DEF LoadForSave
  <2>. QED
    BY <2>1, <2>2, <2>3
<1>5. ASSUME NEW e \in Exports, WriteUnpublished(e) PROVE SafeInv'
  <2>. DEFINE Written == Unpublished(loaded[e], row[e])
  \* If save() read failed, it read no key, and writes neither column;
  \* otherwise it writes failed, into a row that is still there or its own.
  <2>1. /\ Written.status \in {"failed", row[e].status}
        /\ Written.key => row[e].key
        /\ Written.status = "completed" => Written.key
        /\ Written.status # "queued"
        /\ (\A m \in MessagesOf(e) : queue[m] = "none") => Written.status \in {"failed", "none"}
    <3>1. /\ loaded[e].status = "failed" => ~loaded[e].key /\ row[e].status # "queued"
          /\ (\A m \in MessagesOf(e) : queue[m] = "none") => loaded[e].status \in {"queued", "none"}
          /\ row[e].status = "completed" => row[e].key
      <4>. HIDE DEF Written
      <4>. QED
        BY <1>5 DEF WriteUnpublished
    <3>2. CASE loaded[e].status = "none"
      BY <3>2 DEF Unpublished, UnpublishedRow
    <3>3. CASE loaded[e].status # "none" /\ row[e].status = "none"
      BY <3>3 DEF Unpublished, NoRow
    <3>4. CASE loaded[e].status # "none" /\ row[e].status # "none"
      <4>1. /\ Written.status = IF loaded[e].status # "failed" THEN "failed" ELSE row[e].status
            /\ Written.key = IF loaded[e].key # FALSE THEN FALSE ELSE row[e].key
        BY <3>4 DEF Unpublished, SavedOver, SavedColumn, UnpublishedRow
      <4>2. loaded[e].key \in BOOLEAN /\ row[e].key \in BOOLEAN
        BY RowFields
      <4>. HIDE DEF Written
      <4>. QED
        BY <3>1, <3>4, <4>1, <4>2
    <3>. QED
      BY <3>2, <3>3, <3>4
  <2>2. row' = row \/ row' = [row EXCEPT ![e] = Written]
    BY <1>5 DEF WriteUnpublished
  <2>3. UnsentBeforePublish' /\ HeldWasSent' /\ KeyOnlyWhenCompleted'
    BY <1>5 DEF WriteUnpublished, Outcome
  <2>4. DeletedWhenSettled'
    BY <1>5 DEF WriteUnpublished, Outcome
  <2>. HIDE DEF Written
  <2>5. StoredBeforeCompleted'
    BY <1>5, <2>1, <2>2 DEF WriteUnpublished
  <2>8. /\ request[e] = "loaded" /\ request'[e] \in {"rejected", "error"}
        /\ \A f \in Exports \ {e} : /\ row'[f] = row[f] /\ request'[f] = request[f]
                                    /\ loaded'[f] = loaded[f]
        /\ queue' = queue
        /\ request'[e] = "rejected" => row'[e].status = Written.status
    BY <1>5, <2>1 DEF WriteUnpublished, Outcome, Applied, Written
  <2>6. UntouchedUnlessSent'
    BY <2>1, <2>8
  <2>7. QueuedOnlyAtFirst'
    BY <2>1, <2>8
  <2>. QED
    BY <2>3, <2>4, <2>5, <2>6, <2>7
<1>6. ASSUME NEW e \in Exports, ApiCrash(e) PROVE SafeInv'
  BY <1>6 DEF ApiCrash, NoRow
<1>7. ASSUME NEW e \in Exports, RemoveProject(e) PROVE SafeInv'
  BY <1>7 DEF RemoveProject, NoRow
<1>24. ASSUME NEW e \in Exports, ReinsertProject(e) PROVE SafeInv'
  BY <1>24 DEF ReinsertProject
<1>25. ASSUME NEW e \in Exports, ExpireObject(e) PROVE SafeInv'
  BY <1>25 DEF ExpireObject
<1>8. ASSUME NEW m \in Messages, ExpireVisibility(m) PROVE SafeInv'
  BY <1>8 DEF ExpireVisibility
<1>9. ASSUME NEW m \in Messages, Redrive(m) PROVE SafeInv'
  BY <1>9 DEF Redrive
<1>10. ASSUME NEW w \in Workers, LeaveLoop(w) PROVE SafeInv'
  BY <1>10 DEF LeaveLoop, Stopping, Goto
<1>11. ASSUME NEW w \in Workers, NEW b \in Batches, Receive(w, b) PROVE SafeInv'
  BY <1>11 DEF Receive, Polling, Stopping, HandOut, Batches, Receivable
<1>12. ASSUME NEW w \in Workers, NEW m \in Messages, Handle(w, m) PROVE SafeInv'
  BY <1>12 DEF Handle, Stopping, Goto
<1>13. ASSUME NEW w \in Workers, Claim(w) PROVE SafeInv'
  BY <1>13 DEF Claim, Goto, EndHandle, Outcome, Applied, Claimable, Claimed
<1>14. ASSUME NEW w \in Workers, FindTasks(w) PROVE SafeInv'
  BY <1>14 DEF FindTasks, Goto
<1>15. ASSUME NEW w \in Workers, Upload(w) PROVE SafeInv'
  BY <1>15 DEF Upload, Goto, Outcome, Applied
<1>16. ASSUME NEW w \in Workers, MarkCompleted(w) PROVE SafeInv'
  BY <1>16 DEF MarkCompleted, Completed, Goto, Outcome, Applied
<1>17. ASSUME NEW w \in Workers, MarkFailed(w) PROVE SafeInv'
  <2>. DEFINE e == ExportOf[current[w]]
  <2>1. row' = row \/ (row[e].status \notin {"none",
     "completed"} /\ row' = [row EXCEPT ![e] = Failed(row[e])])
    BY <1>17 DEF MarkFailed, Claimable
  <2>2. e \in Exports /\ current[w] \in MessagesOf(e) /\ queue[current[w]] # "none"
    BY <1>17 DEF MarkFailed
  <2>3. UnsentBeforePublish' /\ HeldWasSent'
    BY <1>17 DEF MarkFailed, Goto, EndHandle
  <2>4. DeletedWhenSettled'
    <3>1. \A f \in Exports : Settled(f) => Settled(f)'
      BY <2>1, <2>2
    <3>. QED
      BY <1>17, <3>1 DEF MarkFailed, Goto, EndHandle
  <2>5. StoredBeforeCompleted'
    <3>1. \A f \in Exports : /\ row'[f].key = row[f].key
                             /\ row'[f].status = "completed" => row[f].status = "completed"
      BY <2>1, <2>2 DEF Failed
    <3>2. /\ object' = object
          /\ \A v \in Workers : pc'[v] = "complete" => pc[v] = "complete" /\ current'[v] = current[v]
      BY <1>17 DEF MarkFailed, Goto, EndHandle
    <3>3. \A v \in Workers : pc'[v] = "complete" => object'[ExportOf[current'[v]]] # "none"
      BY <3>2
    <3>4. \A f \in Exports : /\ row'[f].key => object'[f] # "none"
                             /\ row'[f].status = "completed" => row'[f].key
      BY <3>1, <3>2
    <3>. QED
      BY <3>3, <3>4
  <2>6. KeyOnlyWhenCompleted'
    BY <1>17, <2>1, <2>2 DEF MarkFailed, EndHandle, Failed
  <2>7. UntouchedUnlessSent' /\ QueuedOnlyAtFirst'
    BY <1>17, <2>1, <2>2 DEF MarkFailed, EndHandle, Failed
  <2>. QED
    BY <2>3, <2>4, <2>5, <2>6, <2>7
<1>18. ASSUME NEW w \in Workers, DeleteMessage(w) PROVE SafeInv'
  BY <1>18 DEF DeleteMessage, Goto, EndHandle
<1>19. ASSUME NEW w \in Workers, NEW b \in Batches, ReceiveLost(w, b) PROVE SafeInv'
  BY <1>19 DEF ReceiveLost, Polling, Stopping, HandOut, Batches, Receivable
<1>20. ASSUME NEW w \in Workers, Bootstrap(w) PROVE SafeInv'
  BY <1>20 DEF Bootstrap, Goto
<1>21. ASSUME NEW w \in Workers, Shutdown(w) PROVE SafeInv'
  BY <1>21 DEF Shutdown
<1>22. ASSUME NEW w \in Workers, WorkerCrash(w) PROVE SafeInv'
  BY <1>22 DEF WorkerCrash, Goto
<1>23. CASE UNCHANGED vars
  BY <1>23 DEF vars, apiVars, queueVars, workerVars
<1>. QED
  BY <1>1, <1>2, <1>3, <1>4, <1>5, <1>6, <1>7, <1>8, <1>9, <1>10, <1>11, <1>12, <1>13, <1>14,
     <1>15, <1>16, <1>17, <1>18, <1>19, <1>20, <1>21, <1>22, <1>23, <1>24, <1>25 DEF Next, ApiNext,
     StorageNext, QueueNext, WorkerNext, WorkerStep

\* IInv is an invariant: who sent, holds and deletes which message agrees with
\* the row, the object and the state of the request, whatever crashes or is lost.
THEOREM Invariance == Spec => []IInv
<1>1. Init => IInv
  BY InitTypeOK, InitSafeInv DEF IInv
<1>2. IInv /\ [Next]_vars => IInv'
  BY TypeOKStep, SafeInvStep DEF IInv
<1>. QED
  BY <1>1, <1>2, PTL DEF Spec

-----------------------------------------------------------------------------
(* The theorems *)

\* The variables of the pipeline hold what the code can put there.
THEOREM TypeCorrect == Spec => []TypeOK
<1>1. IInv => TypeOK
  BY DEF IInv
<1>. QED
  BY <1>1, Invariance, PTL

\* An export answered with 202 is completed, gone with its project, or still
\* has a message in the queue or the dead-letter queue.
THEOREM AcceptedIsNeverLost == Spec => []NoLostExport
<1>1. IInv => NoLostExport
  BY DEF IInv, TypeOK, SafeInv, DeletedWhenSettled, NoLostExport, Settled, Live, MessagesOf
<1>. QED
  BY <1>1, Invariance, PTL

\* A completed row has its key, and the file behind the key was uploaded: only the
\* bucket's lifecycle rule can have taken it away.
THEOREM LinksDangleOnlyByExpiry == Spec => []CompletedWasStored
<1>1. IInv => CompletedWasStored
  BY DEF IInv, SafeInv, StoredBeforeCompleted, CompletedWasStored
<1>. QED
  BY <1>1, Invariance, PTL

\* A request answered with 503 left its trace in the row.
THEOREM RejectionIsRecorded == Spec => []RejectedIsRecorded
<1>1. IInv => RejectedIsRecorded
  BY DEF IInv, SafeInv, UntouchedUnlessSent, QueuedOnlyAtFirst, RejectedIsRecorded
<1>. QED
  BY <1>1, Invariance, PTL

\* Each step leaves a completed export that was accepted completed, or removes it.
THEOREM CompletionIsFinal == Spec => CompletedIsFinal
<1>. DEFINE Final == \A e \in Exports : Accepted(e) /\ row[e].status = "completed"
                       => row'[e].status \in {"completed", "none"}
<1>1. ASSUME TypeOK, Next PROVE Final
  <2>. SUFFICES ASSUME NEW e \in Exports, Accepted(e), row[e].status = "completed"
                PROVE  row'[e].status \in {"completed", "none"}
    OBVIOUS
  <2>. USE <1>1, MessagesAssumption DEF TypeOK, Accepted
  <2>1. CASE ApiNext
    <3>1. PICK f \in Exports : \/ CheckProject(f) \/ SaveQueued(f) \/ Publish(f)
                               \/ LoadForSave(f) \/ WriteUnpublished(f) \/ ApiCrash(f)
                               \/ RemoveProject(f) \/ ReinsertProject(f)
      BY <2>1 DEF ApiNext
    <3>2. row' = row \/ (f # e /\ \E r \in Row : row' = [row EXCEPT ![f] = r])
                     \/ row' = [row EXCEPT ![f] = NoRow]
      BY <3>1, RowsAreRows
         DEF CheckProject, SaveQueued, Publish, LoadForSave, WriteUnpublished, ApiCrash,
             RemoveProject, ReinsertProject
    <3>. QED
      BY <3>2 DEF NoRow
  <2>4. CASE StorageNext
    BY <2>4 DEF StorageNext, ExpireObject
  <2>2. CASE QueueNext
    BY <2>2 DEF QueueNext, ExpireVisibility, Redrive
  <2>3. CASE WorkerNext
    <3>1. PICK w \in Workers : \/ WorkerStep(w)
                               \/ \E b \in Batches : ReceiveLost(w, b)
                               \/ Bootstrap(w) \/ Shutdown(w) \/ WorkerCrash(w)
      BY <2>3 DEF WorkerNext
    <3>2. row' = row \/ Claim(w) \/ MarkCompleted(w) \/ MarkFailed(w)
      BY <3>1 DEF WorkerStep, LeaveLoop, Receive, Handle, FindTasks, Upload, DeleteMessage,
                  ReceiveLost, Bootstrap, Shutdown, WorkerCrash
    <3>3. CASE Claim(w)
      BY <3>3 DEF Claim, Claimable
    <3>4. CASE MarkCompleted(w)
      BY <3>4 DEF MarkCompleted, Completed
    <3>5. CASE MarkFailed(w)
      BY <3>5 DEF MarkFailed, Claimable
    <3>. QED
      BY <3>2, <3>3, <3>4, <3>5
  <2>. QED
    BY <1>1, <2>1, <2>2, <2>3, <2>4 DEF Next
<1>2. TypeOK /\ [Next]_vars => [Final]_vars
  BY <1>1
<1>. QED
  BY <1>2, TypeCorrect, PTL DEF Spec, CompletedIsFinal

-----------------------------------------------------------------------------
(* Refinement: a step of the pipeline is a step of ExportLifecycle or a      *)
(* stutter                                                                   *)

\* What a step may make of one export's phase, as ExportLifecycle has it.
Moves(f) ==
  \/ Promised(f)' = Promised(f)
  \/ Promised(f) = "none" /\ Promised(f)' \in {"promised", "gone"}
  \/ Promised(f) = "promised" /\ Promised(f)' \in {"parked", "completed", "gone"}
  \/ Promised(f) = "parked" /\ Promised(f)' \in {"completed", "gone"}
  \/ Promised(f) = "completed" /\ Promised(f)' = "gone"

\* At most export f moves.
OnlyMoves(f) == Moves(f) /\ \A e \in Exports \ {f} : Promised(e)' = Promised(e)

Still == \A e \in Exports : Promised(e)' = Promised(e)

\* A step of the API moves at most the export it is about: publish promises
\* it, the removal of its project drops it.
LEMMA ApiMoves ==
  ASSUME IInv, ApiNext
  PROVE  \E f \in Exports : OnlyMoves(f)
<1>. USE MessagesAssumption DEF IInv, TypeOK, Accepted, MessagesOf
<1>1. PICK f \in Exports : \/ CheckProject(f) \/ SaveQueued(f) \/ Publish(f)
                           \/ LoadForSave(f) \/ WriteUnpublished(f) \/ ApiCrash(f)
                           \/ RemoveProject(f) \/ ReinsertProject(f)
  BY DEF ApiNext
<1>2. CASE Publish(f)
  <2>1. row[f].status \in {"queued", "none"} /\ row' = row
    BY <1>2 DEF Publish, SafeInv, UnsentBeforePublish, UntouchedUnlessSent
  <2>2. PICK copies \in SUBSET MessagesOf(f), next \in {"accepted", "unpublished"} :
          /\ next = "accepted" => copies # {}
          /\ queue' = [m \in Messages |-> IF m \in copies THEN "visible" ELSE queue[m]]
          /\ request' = [request EXCEPT ![f] = next]
    BY <1>2 DEF Publish
  <2>3. \A e \in Exports \ {f} : Promised(e)' = Promised(e)
    BY <2>1, <2>2 DEF Promised, Live
  <2>4. Promised(f) = "none" /\ Promised(f)' \in {"none", "promised", "gone"}
    BY <1>2, <2>1, <2>2 DEF Publish, Promised, Live
  <2>. QED
    BY <2>3, <2>4 DEF OnlyMoves, Moves
<1>3. CASE RemoveProject(f)
  BY <1>3 DEF RemoveProject, NoRow, OnlyMoves, Moves, Promised, Live, apiVars, queueVars
<1>5. CASE ReinsertProject(f)
  BY <1>5 DEF ReinsertProject, OnlyMoves, Moves, Promised, Live, apiVars, queueVars
<1>4. CASE CheckProject(f) \/ SaveQueued(f) \/ LoadForSave(f) \/ WriteUnpublished(f) \/ ApiCrash(f)
  <2>1. /\ queue' = queue
        /\ request[f] # "accepted" /\ request'[f] # "accepted"
        /\ \A e \in Exports \ {f} : row'[e] = row[e] /\ request'[e] = request[e]
    BY <1>4 DEF CheckProject, SaveQueued, LoadForSave, WriteUnpublished, ApiCrash, queueVars
  <2>. QED
    BY <2>1 DEF OnlyMoves, Moves, Promised, Live
<1>. QED
  BY <1>1, <1>2, <1>3, <1>4, <1>5

\* The lifecycle rule of the bucket moves no export.
LEMMA StorageMoves ==
  ASSUME StorageNext
  PROVE  Still
BY DEF StorageNext, ExpireObject, Still, Promised, Accepted, Live, MessagesOf, apiVars, queueVars

\* The queue moves an export only by parking its last live message.
LEMMA QueueMoves ==
  ASSUME IInv, QueueNext
  PROVE  \E f \in Exports : OnlyMoves(f)
<1>. USE MessagesAssumption DEF IInv, TypeOK, Accepted, MessagesOf
<1>1. PICK m \in Messages : ExpireVisibility(m) \/ Redrive(m)
  BY DEF QueueNext
<1>2. CASE ExpireVisibility(m)
  BY <1>2 DEF ExpireVisibility, OnlyMoves, Moves, Promised, Live, apiVars
<1>3. CASE Redrive(m)
  BY <1>3 DEF Redrive, OnlyMoves, Moves, Promised, Live, apiVars
<1>. QED
  BY <1>1, <1>2, <1>3

\* A worker moves an export only by completing it; the message it deletes is
\* that of a settled export.
LEMMA WorkerMoves ==
  ASSUME IInv, WorkerNext
  PROVE  Still \/ \E f \in Exports : OnlyMoves(f)
<1>. USE MessagesAssumption DEF IInv, TypeOK, Accepted, MessagesOf
<1>1. PICK w \in Workers : \/ WorkerStep(w)
                           \/ \E b \in Batches : ReceiveLost(w, b)
                           \/ Bootstrap(w) \/ Shutdown(w) \/ WorkerCrash(w)
  BY DEF WorkerNext
<1>2. CASE Claim(w) \/ MarkFailed(w)
  <2>1. /\ request' = request /\ queue' = queue
        /\ \A e \in Exports : \/ row'[e].status = row[e].status
                              \/ /\ row[e].status \notin {"none", "completed"}
                                 /\ row'[e].status \notin {"none", "completed"}
    BY <1>2 DEF Claim, MarkFailed, Claimable, Claimed, Failed, apiVars, queueVars
  <2>. QED
    BY <2>1 DEF Still, Promised, Live
<1>3. CASE MarkCompleted(w)
  <2>1. PICK f \in Exports : f = ExportOf[current[w]]
    BY <1>3 DEF MarkCompleted
  <2>2. /\ request' = request /\ queue' = queue
        /\ \A e \in Exports \ {f} : row'[e] = row[e]
        /\ \/ row'[f].status = row[f].status
           \/ row[f].status # "none" /\ row'[f].status = "completed"
    BY <1>3, <2>1 DEF MarkCompleted, Completed, apiVars, queueVars
  <2>3. \A e \in Exports \ {f} : Promised(e)' = Promised(e)
    BY <2>2 DEF Promised, Live
  <2>4. \/ Promised(f)' = Promised(f)
        \/ Promised(f) \in {"promised", "parked"} /\ Promised(f)' = "completed"
    BY <2>2 DEF Promised, Live
  <2>. QED
    BY <2>3, <2>4 DEF OnlyMoves, Moves
<1>4. CASE DeleteMessage(w)
  <2>1. PICK f \in Exports : current[w] \in Messages /\ f = ExportOf[current[w]]
    BY <1>4 DEF DeleteMessage
  <2>2. Accepted(f) => row[f].status \in {"completed", "none"}
    BY <1>4, <2>1 DEF DeleteMessage, SafeInv, DeletedWhenSettled, Settled
  <2>3. /\ request' = request /\ row' = row
        /\ \A m \in Messages : m # current[w] => queue'[m] = queue[m]
    BY <1>4 DEF DeleteMessage, apiVars
  <2>. QED
    BY <2>1, <2>2, <2>3 DEF Still, Promised, Live
<1>5. ASSUME NEW b \in Batches, Receive(w, b) \/ ReceiveLost(w, b) PROVE Still
  <2>1. /\ request' = request /\ row' = row
        /\ \A m \in Messages : Live(m)' = Live(m)
    BY <1>5 DEF Receive, ReceiveLost, HandOut, Batches, Receivable, Live, apiVars
  <2>. QED
    BY <2>1 DEF Still, Promised
<1>6. CASE \/ LeaveLoop(w) \/ (\E m \in Messages : Handle(w, m)) \/ FindTasks(w) \/ Upload(w)
           \/ Bootstrap(w) \/ Shutdown(w) \/ WorkerCrash(w)
  BY <1>6 DEF LeaveLoop, Handle, FindTasks, Upload, Bootstrap, Shutdown, WorkerCrash, Still,
              Promised, Live, apiVars, queueVars
<1>. QED
  BY <1>1, <1>2, <1>3, <1>4, <1>5, <1>6 DEF WorkerStep

\* The safety half of ImplementsLifecycle: the pipeline starts as the abstract
\* specification does, and each of its steps is an abstract step or a stutter.
THEOREM LifecycleRefinement == Spec => Lifecycle!SafeSpec
<1>1. Init => Lifecycle!Init
  BY DEF Init, Lifecycle!Init, Promised, Accepted
<1>2. ASSUME IInv, [Next]_vars
      PROVE  [Lifecycle!Next]_([e \in Exports |-> Promised(e)])
  <2>1. Still \/ \E f \in Exports : OnlyMoves(f)
    <3>1. CASE UNCHANGED vars
      BY <3>1 DEF vars, apiVars, queueVars, Still, Promised, Accepted, Live
    <3>. QED
      BY <1>2, <3>1, ApiMoves, StorageMoves, QueueMoves, WorkerMoves DEF Next
  <2>2. CASE Still
    BY <2>2 DEF Still
  <2>3. ASSUME NEW f \in Exports, OnlyMoves(f)
        PROVE  [Lifecycle!Next]_([e \in Exports |-> Promised(e)])
    <3>1. [e \in Exports |-> Promised(e)]' =
            [[e \in Exports |-> Promised(e)] EXCEPT ![f] = Promised(f)']
      BY <2>3 DEF OnlyMoves
    <3>. QED
      BY <2>3, <3>1
         DEF OnlyMoves, Moves, Lifecycle!Next, Lifecycle!Promise, Lifecycle!Park,
             Lifecycle!Complete, Lifecycle!Drop, Lifecycle!Move
  <2>. QED
    BY <2>1, <2>2, <2>3
<1>. QED
  BY <1>1, <1>2, Invariance, PTL DEF Spec, Lifecycle!SafeSpec

-----------------------------------------------------------------------------
(* The panel *)

\* The page changes nothing of the pipeline: whatever is proved of the pipeline
\* holds with the panel on top of it.
LEMMA PanelRunsThePipeline == PanelSafeSpec => Spec
<1>1. PanelInit => Init
  BY DEF PanelInit
<1>2. [PanelNext]_panelVars => [Next]_vars
  BY DEF PanelNext, panelVars, Show, Poll
<1>. QED
  BY <1>1, <1>2, PTL DEF PanelSafeSpec, Spec

\* A step of the pipeline leaves an accepted export accepted, and a completed
\* one completed or gone.
LEMMA PipelineKeepsPanel ==
  ASSUME IInv, [Next]_vars, NEW e \in Exports, Accepted(e)
  PROVE  /\ Accepted(e)'
         /\ Promised(e) \in {"completed", "gone"} => Promised(e)' \in {"completed", "gone"}
<1>1. Still \/ \E f \in Exports : OnlyMoves(f)
  <2>1. CASE UNCHANGED vars
    BY <2>1 DEF vars, apiVars, queueVars, Still, Promised, Accepted, Live
  <2>. QED
    BY <2>1, ApiMoves, StorageMoves, QueueMoves, WorkerMoves DEF Next
<1>2. Promised(e)' = Promised(e) \/ Moves(e)
  BY <1>1 DEF Still, OnlyMoves
<1>3. Promised(e) # "none"
  BY DEF Promised
<1>4. Promised(e)' # "none"
  BY <1>2, <1>3 DEF Moves
<1>5. Accepted(e)'
  BY <1>4 DEF Promised
<1>6. Promised(e) \in {"completed", "gone"} => Promised(e)' \in {"completed", "gone"}
  BY <1>2 DEF Moves
<1>. QED
  BY <1>5, <1>6

\* The panel and the life of its export stay in agreement.
LEMMA PanelStep ==
  ASSUME IInv, PanelAgrees, [PanelNext]_panelVars,
         panel \in [Exports -> {"hidden", "polling", "completed", "failed"}]
  PROVE  PanelAgrees' /\ panel' \in [Exports -> {"hidden", "polling", "completed", "failed"}]
<1>1. CASE [Next]_vars /\ UNCHANGED panel
  BY <1>1, PipelineKeepsPanel DEF PanelAgrees
<1>2. ASSUME NEW f \in Exports, Show(f) \/ Poll(f)
      PROVE  PanelAgrees' /\ panel' \in [Exports -> {"hidden", "polling", "completed", "failed"}]
  <2>1. /\ row' = row /\ queue' = queue /\ request' = request
        /\ \A e \in Exports : (Promised(e)' = Promised(e)) /\ (Accepted(e)' = Accepted(e))
    BY <1>2 DEF Show, Poll, vars, apiVars, queueVars, Promised, Accepted, Live
  <2>2. CASE Show(f)
    BY <2>1, <2>2 DEF Show, PanelAgrees
  <2>3. CASE Poll(f)
    <3>1. /\ row[f].status \in {"completed", "failed"}
          /\ panel' = [panel EXCEPT ![f] = row[f].status]
          /\ Accepted(f)
      BY <2>3 DEF Poll, PanelAgrees
    <3>2. row[f].status = "completed" => Promised(f) = "completed"
      BY <3>1 DEF Promised
    <3>. QED
      BY <2>1, <3>1, <3>2 DEF PanelAgrees
  <2>. QED
    BY <1>2, <2>2, <2>3
<1>3. CASE UNCHANGED panelVars
  <2>1. [Next]_vars /\ UNCHANGED panel
    BY <1>3 DEF panelVars
  <2>. QED
    BY <1>1, <2>1
<1>. QED
  BY <1>1, <1>2, <1>3 DEF PanelNext

\* The panel shows accepted exports, and takes for completed only what is.
LEMMA PanelAgreesAlways == PanelSafeSpec => []PanelAgrees
<1>. DEFINE T == panel \in [Exports -> {"hidden", "polling", "completed", "failed"}]
<1>1. PanelInit => PanelAgrees /\ T
  BY DEF PanelInit, PanelAgrees
<1>2. IInv /\ (PanelAgrees /\ T) /\ [PanelNext]_panelVars => (PanelAgrees /\ T)'
  BY PanelStep
<1>3. PanelSafeSpec => []IInv
  BY PanelRunsThePipeline, Invariance, PTL
<1>. QED
  BY <1>1, <1>2, <1>3, PTL DEF PanelSafeSpec

\* A panel that stopped at completed is right about it for ever, whatever crashes,
\* late deliveries and late saves do to the row.
THEOREM PanelIsRight == PanelSpec => []PanelIsRightAboutCompleted
<1>1. PanelAgrees => PanelIsRightAboutCompleted
  BY DEF PanelAgrees, PanelIsRightAboutCompleted, Promised
<1>. QED
  BY <1>1, PanelAgreesAlways, PTL DEF PanelSpec

-----------------------------------------------------------------------------
(* The file *)

\* The file of a completed export, read by RFC 4180, says what its tasks say, for
\* texts of any length.
THEOREM FilesReadBack == PanelSpec => []CsvReadsBack
<1>1. CsvReadsBack
  BY LengthsAssumption, ReadsBackAlways DEF CsvReadsBack, FileReadsBack
<1>. QED
  BY <1>1, PTL

=============================================================================
