--------------------------- MODULE ExportPipeline ---------------------------
(***************************************************************************)
(* The asynchronous CSV export: the API stores an `exports` row and         *)
(* publishes a message, SQS delivers the message at least once, a worker    *)
(* claims the row, uploads the file to S3, marks the row completed and      *)
(* deletes the message.                                                     *)
(*                                                                          *)
(* Every call to PostgreSQL, SQS or S3 is one step that can be applied and  *)
(* answered, applied with its answer lost, or not applied at all; every     *)
(* process can die between two steps.  The bucket's lifecycle rule removes  *)
(* files as time passes.  Each export of the model belongs to a project of  *)
(* its own.                                                                 *)
(***************************************************************************)
EXTENDS Naturals, FiniteSets

CONSTANTS
    Exports,          \* export ids, one per POST /projects/:id/exports
    Messages,         \* SQS messages
    ExportOf,         \* the exportId in a message's body
    Workers,          \* worker processes
    NoMessage,        \* "this worker handles no message"
    MaxReceive,       \* redrive policy: maxReceiveCount
    BatchSize,        \* MaxNumberOfMessages of one receive
    ClaimReturnsRows  \* TRUE: query() of an UPDATE .. RETURNING yields the rows, as the
                      \* processor reads it; FALSE: it yields the pair (rows, row count)

ASSUME MessagesAssumption == /\ ExportOf \in [Messages -> Exports]
                             /\ NoMessage \notin Messages
ASSUME QueueAssumption == /\ MaxReceive \in Nat \ {0}
                          /\ BatchSize \in Nat \ {0}
ASSUME ClaimAssumption == ClaimReturnsRows \in BOOLEAN

VARIABLES
    project,   \* project[e]: the project of export e exists
    row,       \* row[e]: the exports row
    object,    \* object[e]: S3's exports/{userId}/{e}.csv: never stored, stored, or expired
    request,   \* request[e]: where requestExport stands
    loaded,    \* loaded[e]: the row as repository.save() read it before its write
    queue,     \* queue[m]: where SQS keeps message m
    receives,  \* receives[m]: SQS's ApproximateReceiveCount
    pc,        \* pc[w]: where worker w stands
    running,   \* running[w]: SqsConsumer.running
    batch,     \* batch[w]: messages received and not yet handled
    current    \* current[w]: the message being handled

apiVars    == <<request, loaded>>
queueVars  == <<queue, receives>>
workerVars == <<pc, running, batch, current>>
vars       == <<project, row, object, apiVars, queueVars, workerVars>>

-----------------------------------------------------------------------------
(* Data *)

\* The status column; "none" stands for "there is no such row".
Status == {"none", "queued", "processing", "completed", "failed"}

\* The row: its status, whether s3_bucket, s3_key and completed_at are set (one
\* UPDATE sets the three, one save resets the three), and error_code.
Row == [status : Status, key : BOOLEAN, error : {"none", "queue_unavailable", "processing_error"}]

NoRow == [status |-> "none", key |-> FALSE, error |-> "none"]

\* The row requestExport inserts.
QueuedRow == [status |-> "queued", key |-> FALSE, error |-> "none"]

\* Mutant: the catch keeps the entity's status.
UnmarkedRow == [status |-> "queued", key |-> FALSE, error |-> "queue_unavailable"]

\* What the entity in requestExport's memory says after the publish failed.
UnpublishedRow == [status |-> "failed", key |-> FALSE, error |-> "queue_unavailable"]

\* Mutant: the WHERE clause forgets the status.
ClaimableInAnyStatus(r) == r.status # "none"

\* The guard of the claim and of the failure update: the row exists and its
\* status is not 'completed'.
Claimable(r) == r.status \notin {"none", "completed"}

\* What the worker's three UPDATEs make of a row; none of them clears error_code.
Claimed(r)   == [status |-> "processing", key |-> r.key, error |-> r.error]
Completed(r) == [status |-> "completed", key |-> TRUE, error |-> r.error]
Failed(r)    == [status |-> "failed", key |-> r.key, error |-> "processing_error"]

\* How a call to a remote service ends: applied and answered, applied but
\* answered with an error, not applied and answered with an error.
Outcome == {"ok", "lost", "failed"}
Applied(outcome) == outcome # "failed"

MessagesOf(e) == {m \in Messages : ExportOf[m] = e}

RequestState == {"idle", "checked", "saved", "unpublished", "loaded",
                 "accepted", "rejected", "error", "crashed"}
PC == {"stopped", "loop", "claim", "find", "upload", "complete", "fail", "delete"}

-----------------------------------------------------------------------------
Init ==
    /\ project  = [e \in Exports |-> TRUE]
    /\ row      = [e \in Exports |-> NoRow]
    /\ object   = [e \in Exports |-> "none"]
    /\ request  = [e \in Exports |-> "idle"]
    /\ loaded   = [e \in Exports |-> NoRow]
    /\ queue    = [m \in Messages |-> "none"]
    /\ receives = [m \in Messages |-> 0]
    /\ pc       = [w \in Workers |-> "stopped"]
    /\ running  = [w \in Workers |-> FALSE]
    /\ batch    = [w \in Workers |-> {}]
    /\ current  = [w \in Workers |-> NoMessage]

-----------------------------------------------------------------------------
(* API: ExportsService.requestExport *)

\* projects.getOne found the project; without it the answer is a 404 and
\* nothing changes.
CheckProject(e) ==
    /\ request[e] = "idle"
    /\ project[e]
    /\ request' = [request EXCEPT ![e] = "checked"]
    /\ UNCHANGED <<project, row, object, loaded, queueVars, workerVars>>

\* The INSERT of the queued row.  The foreign key refuses it once the project
\* is gone; any error leaves requestExport with a 500.
SaveQueued(e) ==
    /\ request[e] = "checked"
    /\ \E outcome \in Outcome :
         /\ Applied(outcome) => project[e]
         /\ row' = IF Applied(outcome) THEN [row EXCEPT ![e] = QueuedRow] ELSE row
         /\ request' = [request EXCEPT ![e] = IF outcome = "ok" THEN "saved" ELSE "error"]
    /\ UNCHANGED <<project, object, loaded, queueVars, workerVars>>

\* queue.publish: a publish that succeeds put at least one copy in the queue
\* (the SDK may resend a request whose answer was lost), one that fails put
\* any number of copies there.
Publish(e) ==
    /\ request[e] = "saved"
    /\ \E copies \in SUBSET MessagesOf(e), next \in {"accepted", "unpublished"} :
         /\ next = "accepted" => copies # {}
         /\ queue' = [m \in Messages |-> IF m \in copies THEN "visible" ELSE queue[m]]
         /\ request' = [request EXCEPT ![e] = next]
    /\ UNCHANGED <<project, row, object, loaded, receives, workerVars>>

\* First half of repo.save(job) after a failed publish: save() reads the row,
\* which may have gone with its project; an error of the query is a 500.
LoadForSave(e) ==
    /\ request[e] = "unpublished"
    /\ \/ /\ loaded' = [loaded EXCEPT ![e] = row[e]]
          /\ request' = [request EXCEPT ![e] = "loaded"]
       \/ /\ request' = [request EXCEPT ![e] = "error"]
          /\ UNCHANGED loaded
    /\ UNCHANGED <<project, row, object, queueVars, workerVars>>

\* The columns save() writes are those that differ between what it read and
\* the entity in memory; the others keep what the row holds by now.
SavedColumn(read, entity, now) == IF read # entity THEN entity ELSE now

SavedOver(read, now) ==
    [status |-> SavedColumn(read.status, UnpublishedRow.status, now.status),
     key    |-> SavedColumn(read.key, UnpublishedRow.key, now.key),
     error  |-> SavedColumn(read.error, UnpublishedRow.error, now.error)]

\* What the write makes of the row: an UPDATE of what save() read, which finds
\* nothing if the row is gone by now, or the INSERT of the entity if it read
\* none.
Unpublished(read, now) ==
    IF read.status = "none" THEN UnpublishedRow
    ELSE IF now.status = "none" THEN NoRow
    ELSE SavedOver(read, now)

\* Second half of repo.save(job), then the 503; a 500 if the write failed, as
\* the INSERT does when the project is gone (foreign key).
WriteUnpublished(e) ==
    /\ request[e] = "loaded"
    /\ \E outcome \in Outcome :
         /\ Applied(outcome) /\ loaded[e].status = "none" => project[e]
         /\ row' = IF Applied(outcome)
                   THEN [row EXCEPT ![e] = Unpublished(loaded[e], @)]
                   ELSE row
         /\ request' = [request EXCEPT ![e] = IF outcome = "ok" THEN "rejected" ELSE "error"]
    /\ loaded' = [loaded EXCEPT ![e] = NoRow]
    /\ UNCHANGED <<project, object, queueVars, workerVars>>

\* The API process dies while it serves the request.
ApiCrash(e) ==
    /\ request[e] \in {"checked", "saved", "unpublished", "loaded"}
    /\ request' = [request EXCEPT ![e] = "crashed"]
    /\ loaded' = [loaded EXCEPT ![e] = NoRow]
    /\ UNCHANGED <<project, row, object, queueVars, workerVars>>

\* ProjectsService.remove, or the removal of the user: the row goes by cascade.
RemoveProject(e) ==
    /\ project[e]
    /\ project' = [project EXCEPT ![e] = FALSE]
    /\ row' = [row EXCEPT ![e] = NoRow]
    /\ UNCHANGED <<object, apiVars, queueVars, workerVars>>

\* ProjectsService.update that found the project before its removal: save()
\* inserts the project again, and none of its exports.
ReinsertProject(e) ==
    /\ ~project[e]
    /\ project' = [project EXCEPT ![e] = TRUE]
    /\ UNCHANGED <<row, object, apiVars, queueVars, workerVars>>

-----------------------------------------------------------------------------
(* S3 *)

\* The bucket's lifecycle rule removes what lies under exports/ for 7 days.
ExpireObject(e) ==
    /\ object[e] = "stored"
    /\ object' = [object EXCEPT ![e] = "expired"]
    /\ UNCHANGED <<project, row, apiVars, queueVars, workerVars>>

-----------------------------------------------------------------------------
(* SQS *)

\* The visibility timeout of a received message passes, whether its receiver
\* is dead, slow or still busy with an earlier message of the same batch.
ExpireVisibility(m) ==
    /\ queue[m] = "inflight"
    /\ queue' = [queue EXCEPT ![m] = "visible"]
    /\ UNCHANGED <<project, row, object, apiVars, receives, workerVars>>

\* The redrive policy moves a message that was received maxReceiveCount times.
Redrive(m) ==
    /\ queue[m] = "visible"
    /\ receives[m] >= MaxReceive
    /\ queue' = [queue EXCEPT ![m] = "dlq"]
    /\ UNCHANGED <<project, row, object, apiVars, receives, workerVars>>

\* Mutant: a queue without a redrive policy.
ReceivableForEver == {m \in Messages : queue[m] = "visible"}

\* Messages a receive may return.
Receivable == {m \in Messages : queue[m] = "visible" /\ receives[m] < MaxReceive}

\* Some non-empty batch that SQS may hand out.
Batches == {b \in SUBSET Receivable : b # {} /\ Cardinality(b) <= BatchSize}

HandOut(b) ==
    /\ queue' = [m \in Messages |-> IF m \in b THEN "inflight" ELSE queue[m]]
    /\ receives' = [m \in Messages |-> IF m \in b THEN receives[m] + 1 ELSE receives[m]]

-----------------------------------------------------------------------------
(* Worker: SqsConsumer.run and handle, ExportProcessor.process *)

Goto(w, label) == pc' = [pc EXCEPT ![w] = label]

\* handle() is over, by return or by the catch that leaves the message.
EndHandle(w) ==
    /\ Goto(w, "loop")
    /\ current' = [current EXCEPT ![w] = NoMessage]
    /\ UNCHANGED <<running, batch>>

\* Mutant: `while (true)`, with a return in the for loop: the flag is tested
\* between two messages of a batch only.
StoppingInBatch(w) == ~running[w] /\ batch[w] # {}

\* The test of the flag, before a receive and before each message of a batch.
Stopping(w) == ~running[w]

Polling(w) == pc[w] = "loop" /\ ~Stopping(w) /\ batch[w] = {}

\* onApplicationBootstrap.
Bootstrap(w) ==
    /\ pc[w] = "stopped"
    /\ Goto(w, "loop")
    /\ running' = [running EXCEPT ![w] = TRUE]
    /\ UNCHANGED <<project, row, object, apiVars, queueVars, batch, current>>

\* onModuleDestroy: SIGTERM clears the flag and waits for the loop to end.
Shutdown(w) ==
    /\ running[w]
    /\ running' = [running EXCEPT ![w] = FALSE]
    /\ UNCHANGED <<project, row, object, apiVars, queueVars, pc, batch, current>>

\* The loop sees the cleared flag between two messages or before a receive;
\* what is left of the batch stays in flight until its timeout.
LeaveLoop(w) ==
    /\ pc[w] = "loop"
    /\ Stopping(w)
    /\ Goto(w, "stopped")
    /\ batch' = [batch EXCEPT ![w] = {}]
    /\ UNCHANGED <<project, row, object, apiVars, queueVars, running, current>>

Receive(w, b) ==
    /\ Polling(w)
    /\ HandOut(b)
    /\ batch' = [batch EXCEPT ![w] = b]
    /\ UNCHANGED <<project, row, object, apiVars, pc, running, current>>

\* SQS handed the batch out and the answer was lost: receive() throws, the
\* loop waits a second and polls again.
ReceiveLost(w, b) ==
    /\ Polling(w)
    /\ HandOut(b)
    /\ UNCHANGED <<project, row, object, apiVars, workerVars>>

\* handle() of the next message; what the API publishes always parses.
Handle(w, m) ==
    /\ pc[w] = "loop"
    /\ ~Stopping(w)
    /\ m \in batch[w]
    /\ batch' = [batch EXCEPT ![w] = @ \ {m}]
    /\ current' = [current EXCEPT ![w] = m]
    /\ Goto(w, "claim")
    /\ UNCHANGED <<project, row, object, apiVars, queueVars, running>>

\* The claim UPDATE, outside the try: an error leaves the message and writes
\* nothing more.
Claim(w) ==
    LET e == ExportOf[current[w]]
        matched == Claimable(row[e])
    IN
    /\ pc[w] = "claim"
    /\ \E outcome \in Outcome :
         /\ row' = IF Applied(outcome) /\ matched
                   THEN [row EXCEPT ![e] = Claimed(@)]
                   ELSE row
         /\ IF outcome = "ok"
            THEN /\ Goto(w, IF matched \/ ~ClaimReturnsRows THEN "find" ELSE "delete")
                 /\ UNCHANGED <<running, batch, current>>
            ELSE EndHandle(w)
    /\ UNCHANGED <<project, object, apiVars, queueVars>>

\* tasks.find and tasksToCsv.
FindTasks(w) ==
    /\ pc[w] = "find"
    /\ \E next \in {"upload", "fail"} : Goto(w, next)
    /\ UNCHANGED <<project, row, object, apiVars, queueVars, running, batch, current>>

\* Mutant: the upload is not awaited.
UploadInBackground(w) ==
    /\ pc[w] = "upload"
    /\ Goto(w, "complete")
    /\ \/ UNCHANGED object
       \/ object' = [object EXCEPT ![ExportOf[current[w]]] = "stored"]
    /\ UNCHANGED <<project, row, apiVars, queueVars, running, batch, current>>

\* storage.upload to the key that the export id determines.
Upload(w) ==
    /\ pc[w] = "upload"
    /\ \E outcome \in Outcome :
         /\ object' = IF Applied(outcome)
                      THEN [object EXCEPT ![ExportOf[current[w]]] = "stored"]
                      ELSE object
         /\ Goto(w, IF outcome = "ok" THEN "complete" ELSE "fail")
    /\ UNCHANGED <<project, row, apiVars, queueVars, running, batch, current>>

\* The UPDATE to completed, which has no guard on the status.
MarkCompleted(w) ==
    LET e == ExportOf[current[w]] IN
    /\ pc[w] = "complete"
    /\ \E outcome \in Outcome :
         /\ row' = IF Applied(outcome) /\ row[e].status # "none"
                   THEN [row EXCEPT ![e] = Completed(@)]
                   ELSE row
         /\ Goto(w, IF outcome = "ok" THEN "delete" ELSE "fail")
    /\ UNCHANGED <<project, object, apiVars, queueVars, running, batch, current>>

\* Mutant: the catch does not rethrow, so handle() deletes the message.
MarkFailedSwallowed(w) ==
    LET e == ExportOf[current[w]] IN
    /\ pc[w] = "fail"
    /\ row' = IF Claimable(row[e]) THEN [row EXCEPT ![e] = Failed(@)] ELSE row
    /\ Goto(w, "delete")
    /\ UNCHANGED <<project, object, apiVars, queueVars, running, batch, current>>

\* The best-effort UPDATE to failed, its own error swallowed, and the rethrow.
MarkFailed(w) ==
    LET e == ExportOf[current[w]] IN
    /\ pc[w] = "fail"
    /\ \/ UNCHANGED row
       \/ /\ Claimable(row[e])
          /\ row' = [row EXCEPT ![e] = Failed(@)]
    /\ EndHandle(w)
    /\ UNCHANGED <<project, object, apiVars, queueVars>>

\* queue.delete: it may fail, and SQS may ignore the receipt handle of a
\* message that was received again since.
DeleteMessage(w) ==
    /\ pc[w] = "delete"
    /\ \/ UNCHANGED queue
       \/ /\ queue[current[w]] \in {"visible", "inflight"}
          /\ queue' = [queue EXCEPT ![current[w]] = "deleted"]
    /\ EndHandle(w)
    /\ UNCHANGED <<project, row, object, apiVars, receives>>

\* The worker process is killed.
WorkerCrash(w) ==
    /\ pc[w] # "stopped"
    /\ Goto(w, "stopped")
    /\ running' = [running EXCEPT ![w] = FALSE]
    /\ batch' = [batch EXCEPT ![w] = {}]
    /\ current' = [current EXCEPT ![w] = NoMessage]
    /\ UNCHANGED <<project, row, object, apiVars, queueVars>>

-----------------------------------------------------------------------------
ApiNext == \E e \in Exports :
    \/ CheckProject(e)
    \/ SaveQueued(e)
    \/ Publish(e)
    \/ LoadForSave(e)
    \/ WriteUnpublished(e)
    \/ ApiCrash(e)
    \/ RemoveProject(e)
    \/ ReinsertProject(e)

StorageNext == \E e \in Exports : ExpireObject(e)

QueueNext == \E m \in Messages : ExpireVisibility(m) \/ Redrive(m)

\* What the event loop of a live worker does on its own.
WorkerStep(w) ==
    \/ LeaveLoop(w)
    \/ \E b \in Batches : Receive(w, b)
    \/ \E m \in Messages : Handle(w, m)
    \/ Claim(w)
    \/ FindTasks(w)
    \/ Upload(w)
    \/ MarkCompleted(w)
    \/ MarkFailed(w)
    \/ DeleteMessage(w)

WorkerNext == \E w \in Workers :
    \/ WorkerStep(w)
    \/ \E b \in Batches : ReceiveLost(w, b)
    \/ Bootstrap(w)
    \/ Shutdown(w)
    \/ WorkerCrash(w)

Next == ApiNext \/ StorageNext \/ QueueNext \/ WorkerNext

Spec == Init /\ [][Next]_vars

-----------------------------------------------------------------------------
(* Fairness.  A receive that hands out message m happens again and again as *)
(* long as some worker keeps coming back to poll while m is visible.  Time  *)
(* passes, so timeouts expire; the task scheduler restarts a dead worker;   *)
(* every awaited call of a worker returns or throws.                        *)

Delivers(m) == \E w \in Workers : \E b \in Batches : m \in b /\ Receive(w, b)

Fairness ==
    /\ \A m \in Messages : /\ WF_vars(ExpireVisibility(m))
                           /\ WF_vars(Redrive(m))
                           /\ SF_vars(Delivers(m))
    /\ \A w \in Workers : /\ WF_vars(Bootstrap(w))
                          /\ WF_vars(WorkerStep(w))

FairSpec == Spec /\ Fairness

-----------------------------------------------------------------------------
(* Properties *)

\* The variables hold what the code can put there.
TypeOK ==
    /\ project \in [Exports -> BOOLEAN]
    /\ row \in [Exports -> Row]
    /\ object \in [Exports -> {"none", "stored", "expired"}]
    /\ request \in [Exports -> RequestState]
    /\ loaded \in [Exports -> Row]
    /\ queue \in [Messages -> {"none", "visible", "inflight", "deleted", "dlq"}]
    /\ receives \in [Messages -> 0 .. MaxReceive]
    /\ pc \in [Workers -> PC]
    /\ running \in [Workers -> BOOLEAN]
    /\ batch \in [Workers -> SUBSET Messages]
    /\ current \in [Workers -> Messages \cup {NoMessage}]
    /\ \A w \in Workers : current[w] = NoMessage <=> pc[w] \in {"stopped", "loop"}

Accepted(e) == request[e] = "accepted"
Live(m) == queue[m] \in {"visible", "inflight"}

\* No accepted export is ever lost: once the client holds a 202, the export is
\* completed, or gone with its project, or a message for it is still in the
\* queue or the dead-letter queue, whatever crashed, timed out or was
\* delivered twice (requestExport, handle: delete only after process).
NoLostExport ==
    \A e \in Exports :
        Accepted(e) => \/ row[e].status \in {"completed", "none"}
                       \/ \E m \in MessagesOf(e) : Live(m) \/ queue[m] = "dlq"

\* A download link dangles only by expiry: getExport presigns the key of a
\* completed row, and the row says completed only with its key set and the file
\* uploaded, so that nothing but the bucket's lifecycle rule can have taken the
\* file away, even while a late repo.save of the API rewrites the row column by
\* column, or inserts it again, under the workers.
CompletedWasStored ==
    \A e \in Exports :
        row[e].status = "completed" => row[e].key /\ object[e] # "none"

\* A completed export that the client was promised stays completed until its
\* project is removed: a worker still holding an older delivery can neither
\* reopen it (Claim) nor fail it (MarkFailed).
CompletedIsFinal ==
    [][\A e \in Exports :
         Accepted(e) /\ row[e].status = "completed"
            => row'[e].status \in {"completed", "none"}]_vars

\* A 503 leaves a trace: after a rejected request the row never says queued,
\* and if no copy of the message ever reached SQS it says failed, so that
\* nobody polls for a job that no worker will take up.
RejectedIsRecorded ==
    \A e \in Exports :
        request[e] = "rejected" =>
            /\ row[e].status # "queued"
            /\ (\A m \in MessagesOf(e) : queue[m] = "none") => row[e].status \in {"failed", "none"}

\* Every accepted export settles: it completes, goes with its project, or its
\* message ends in the dead-letter queue; no retry goes on for ever.
AcceptedSettles ==
    \A e \in Exports :
        Accepted(e) ~> \/ row[e].status \in {"completed", "none"}
                       \/ \E m \in MessagesOf(e) : queue[m] = "dlq"

\* onModuleDestroy returns: a worker told to stop leaves its loop.
ShutdownCompletes ==
    \A w \in Workers : (pc[w] # "stopped" /\ ~running[w]) ~> pc[w] = "stopped"

\* The processor's promise that a redelivered message of an export that is
\* already completed is a no-op: its claim never goes on to the upload.
RedeliveryIsNoOp ==
    [][\A w \in Workers :
         pc[w] = "claim" /\ row[ExportOf[current[w]]].status = "completed"
            => pc'[w] # "find"]_vars

-----------------------------------------------------------------------------
(* The promise to the client, as a refinement *)

\* What the client of an accepted export can count on at this moment.
Promised(e) ==
    IF ~Accepted(e) THEN "none"
    ELSE IF row[e].status = "none" THEN "gone"
    ELSE IF row[e].status = "completed" THEN "completed"
    ELSE IF \E m \in MessagesOf(e) : Live(m) THEN "promised"
    ELSE "parked"

Lifecycle == INSTANCE ExportLifecycle WITH phase <- [e \in Exports |-> Promised(e)]

\* The pipeline implements the abstract life of an export: a 202 is a promise,
\* completion is final, a parked export is never silently reopened, and no
\* export stays promised for ever.
ImplementsLifecycle == Lifecycle!Spec

-----------------------------------------------------------------------------
(* The inductive invariant behind NoLostExport, CompletedWasStored and       *)
(* RejectedIsRecorded, in named parts.                                       *)

\* Nothing is in the queue before publish.
UnsentBeforePublish ==
    \A e \in Exports : request[e] \in {"idle", "checked", "saved"} =>
        \A m \in MessagesOf(e) : queue[m] = "none"

\* A worker holds only messages that were sent.
HeldWasSent ==
    \A w \in Workers :
        /\ current[w] # NoMessage => queue[current[w]] # "none"
        /\ \A m \in batch[w] : queue[m] # "none"

Settled(e) == row[e].status \in {"completed", "none"}

\* Of an accepted export, some message was sent, and one is deleted, or about
\* to be, only when the export is settled.
DeletedWhenSettled ==
    \A e \in Exports : Accepted(e) =>
        /\ \E m \in MessagesOf(e) : queue[m] # "none"
        /\ \A m \in MessagesOf(e) : queue[m] = "deleted" => Settled(e)
        /\ \A w \in Workers :
             pc[w] = "delete" /\ current[w] \in MessagesOf(e) => Settled(e)

\* The file is uploaded before the key is set, and the key with the status; what
\* was uploaded may have expired since.
StoredBeforeCompleted ==
    /\ \A w \in Workers : pc[w] = "complete" => object[ExportOf[current[w]]] # "none"
    /\ \A e \in Exports : row[e].key => object[e] # "none"
    /\ \A e \in Exports : row[e].status = "completed" => row[e].key

\* Until repo.save(job) has written, key and completed go together, in the row
\* and in what save() read of it.
KeyOnlyWhenCompleted ==
    \A e \in Exports :
        /\ request[e] \notin {"rejected", "error", "accepted", "crashed"} =>
              (row[e].key => row[e].status = "completed")
        /\ request[e] = "loaded" => (loaded[e].key => loaded[e].status = "completed")

\* While no message was sent no worker touches the row.
UntouchedUnlessSent ==
    \A e \in Exports : (\A m \in MessagesOf(e) : queue[m] = "none") =>
        /\ request[e] \in {"saved", "unpublished", "loaded"} => row[e].status \in {"queued", "none"}
        /\ request[e] = "loaded" => loaded[e].status \in {"queued", "none"}
        /\ request[e] = "rejected" => row[e].status \in {"failed", "none"}

\* A row that left queued never comes back to it.
QueuedOnlyAtFirst ==
    \A e \in Exports :
        /\ request[e] = "loaded" /\ loaded[e].status # "queued" => row[e].status # "queued"
        /\ request[e] = "rejected" => row[e].status # "queued"

SafeInv ==
    /\ UnsentBeforePublish
    /\ HeldWasSent
    /\ DeletedWhenSettled
    /\ StoredBeforeCompleted
    /\ KeyOnlyWhenCompleted
    /\ UntouchedUnlessSent
    /\ QueuedOnlyAtFirst

IInv == TypeOK /\ SafeInv

=============================================================================
