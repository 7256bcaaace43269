---------------------------- MODULE FileLibrary ----------------------------
(***************************************************************************)
(* The files service of the API: upload, reprocess, delete, and the status *)
(* refresh that list, get and status perform.                              *)
(*                                                                         *)
(* Upload runs on the event loop and never awaits, so no two uploads       *)
(* interleave, and no reply that would tell the new id is sent meanwhile.  *)
(* The other handlers are plain functions that FastAPI runs on pool        *)
(* threads: their steps interleave with each other, and with the upload of *)
(* another file, wherever they touch shared state.  One element of Calls   *)
(* is one request being served; pc is the next shared access it performs.  *)
(*                                                                         *)
(* The workers are seen only through the document rows they write, by the  *)
(* environment action Ingest, which may write anything a worker could.     *)
(***************************************************************************)
EXTENDS FileStatus, FiniteSets, Naturals

CONSTANTS
  Files,          \* file ids that uploads may draw (uuid4: never drawn twice)
  Calls,          \* requests served at once: a bound on the thread pool
  Tasks,          \* task ids send_task may return: a bound on messages ever sent
  NoFile,
  WorkerWrites,   \* the statuses the environment writes: a bound on IngestStatus
  StorageFaults,  \* whether put and unlink may raise OSError
  DispatchFaults  \* whether send_task may raise

ASSUME FilesAssumption    == NoFile \notin Files
ASSUME WritesAssumption   == WorkerWrites \subseteq IngestStatus
ASSUME FaultsAssumption   == {StorageFaults, DispatchFaults} \subseteq BOOLEAN

VARIABLES
  records,    \* InMemoryFileRepository._records: status of each file, or "absent"
  objects,    \* the files of which LocalObjectStorage holds bytes, all or some
  messages,   \* the file each published task is for, NoFile if not published
  documents,  \* the status column of ingestion_documents, or "no_row"
  pc,         \* the next shared access of each request being served
  target,     \* the file it is for
  fetched,    \* the rows it has fetched and not yet merged
  issued,     \* history: the file ids drawn so far
  mishaps     \* history: what went wrong for a file without the caller's knowledge

requests == <<pc, target, fetched>>
vars == <<records, objects, messages, documents, requests, issued, mishaps>>

UploadSteps    == {"upload_put", "upload_queue", "upload_enqueue"}
ReprocessSteps == {"reprocess_write", "reprocess_enqueue"}
DeleteSteps    == {"delete_mark", "delete_check", "delete_unlink", "delete_tombstone"}
Steps == {"idle", "refresh_merge"} \union UploadSteps \union ReprocessSteps \union DeleteSteps

NoRows == [f \in Files |-> "no_row"]

Mishap == {"put_error", "undispatched", "unlink_error"}

TypeOK ==
  /\ records   \in [Files -> Status \union {"absent"}]
  /\ objects   \in SUBSET Files
  /\ messages  \in [Tasks -> Files \union {NoFile}]
  /\ documents \in [Files -> Row]
  /\ pc        \in [Calls -> Steps]
  /\ target    \in [Calls -> Files \union {NoFile}]
  /\ fetched   \in [Calls -> [Files -> Row]]
  /\ issued    \in SUBSET Files
  /\ mishaps   \in SUBSET (Files \X Mishap)
  /\ \A c \in Calls : pc[c] \notin {"idle", "refresh_merge"} => target[c] \in Files

Init ==
  /\ records   = [f \in Files |-> "absent"]
  /\ objects   = {}
  /\ messages  = [t \in Tasks |-> NoFile]
  /\ documents = NoRows
  /\ pc        = [c \in Calls |-> "idle"]
  /\ target    = [c \in Calls |-> NoFile]
  /\ fetched   = [c \in Calls |-> NoRows]
  /\ issued    = {}
  /\ mishaps   = {}

-----------------------------------------------------------------------------
(* Moving a call along. *)

Serving(f, steps) == \E c \in Calls : target[c] = f /\ pc[c] \in steps

Start(c, step, f) ==
  /\ pc[c] = "idle"
  /\ pc' = [pc EXCEPT ![c] = step]
  /\ target' = [target EXCEPT ![c] = f]
  /\ UNCHANGED fetched

Goto(c, step) ==
  /\ pc' = [pc EXCEPT ![c] = step]
  /\ UNCHANGED <<target, fetched>>

Return(c) ==
  /\ pc' = [pc EXCEPT ![c] = "idle"]
  /\ target' = [target EXCEPT ![c] = NoFile]
  /\ fetched' = [fetched EXCEPT ![c] = NoRows]

Note(f, mishap) == mishaps' = mishaps \union {<<f, mishap>>}

\* transition_status copies the record it is given, however old, and stores it:
\* the stored status is replaced whatever it has become in between.
Transition(f, status) == records' = [records EXCEPT ![f] = status]

\* One upload at a time: the event loop runs it to its end.
EventLoopBusy == \E c \in Calls : pc[c] \in UploadSteps

\* A request can name a file whose record there is once its upload has answered.
Named(f) == records[f] # "absent" /\ ~ Serving(f, UploadSteps)

\* Bound: start no call that will send unless an unused task id is left for it.
TaskLeft ==
  Cardinality({c \in Calls : pc[c] \in UploadSteps \union ReprocessSteps})
    < Cardinality({t \in Tasks : messages[t] = NoFile})

-----------------------------------------------------------------------------
(* FileService.upload *)

UploadCreate(c, f) ==
  /\ ~ EventLoopBusy /\ TaskLeft
  /\ f \notin issued
  /\ Start(c, "upload_put", f)
  /\ issued' = issued \union {f}
  /\ Transition(f, "uploaded")
  /\ UNCHANGED <<objects, messages, documents, mishaps>>

UploadPut(c) ==
  /\ pc[c] = "upload_put"
  /\ objects' = objects \union {target[c]}
  /\ Goto(c, "upload_queue")
  /\ UNCHANGED <<records, messages, documents, issued, mishaps>>

\* The exception leaves the handler; the record that was created stays, and so
\* does what write_bytes may have written.
UploadPutRaises(c) ==
  /\ StorageFaults
  /\ pc[c] = "upload_put"
  /\ objects' \in {objects, objects \union {target[c]}}
  /\ Return(c)
  /\ Note(target[c], "put_error")
  /\ UNCHANGED <<records, messages, documents, issued>>

\* Faulty variant: the transition to "queued" is forgotten.
UploadQueueForgotten(c) ==
  /\ pc[c] = "upload_queue"
  /\ Goto(c, "upload_enqueue")
  /\ UNCHANGED <<records, objects, messages, documents, issued, mishaps>>

UploadQueue(c) ==
  /\ pc[c] = "upload_queue"
  /\ Transition(target[c], "queued")
  /\ Goto(c, "upload_enqueue")
  /\ UNCHANGED <<objects, messages, documents, issued, mishaps>>

(* The queue's enqueue, the last step of upload and of reprocess. *)

Enqueue(c) ==
  /\ pc[c] \in {"upload_enqueue", "reprocess_enqueue"}
  /\ \E t \in Tasks :
       /\ messages[t] = NoFile
       /\ messages' = [messages EXCEPT ![t] = target[c]]
  /\ Return(c)
  /\ UNCHANGED <<records, objects, documents, issued, mishaps>>

\* strict_dispatch is off: a failed send is written on the job and swallowed.
EnqueueRaises(c) ==
  /\ DispatchFaults
  /\ pc[c] \in {"upload_enqueue", "reprocess_enqueue"}
  /\ Return(c)
  /\ Note(target[c], "undispatched")
  /\ UNCHANGED <<records, objects, messages, documents, issued>>

(* FileService.reprocess: the guard reads the record, a later step writes it. *)

ReprocessRead(c, f) ==
  /\ TaskLeft
  /\ Named(f) /\ records[f] # "deleted"
  /\ Start(c, "reprocess_write", f)
  /\ UNCHANGED <<records, objects, messages, documents, issued, mishaps>>

ReprocessWrite(c) ==
  /\ pc[c] = "reprocess_write"
  /\ Transition(target[c], "queued")
  /\ Goto(c, "reprocess_enqueue")
  /\ UNCHANGED <<objects, messages, documents, issued, mishaps>>

(* FileService.delete: any record will do, a deleted one too. *)

DeleteRead(c, f) ==
  /\ Named(f)
  /\ Start(c, "delete_mark", f)
  /\ UNCHANGED <<records, objects, messages, documents, issued, mishaps>>

DeleteMark(c) ==
  /\ pc[c] = "delete_mark"
  /\ Transition(target[c], "deleting")
  /\ Goto(c, "delete_check")
  /\ UNCHANGED <<objects, messages, documents, issued, mishaps>>

\* Faulty variant: the check loses its sense and skips the unlink.
DeleteCheckInverted(c) ==
  /\ pc[c] = "delete_check"
  /\ Goto(c, IF target[c] \in objects THEN "delete_tombstone" ELSE "delete_unlink")
  /\ UNCHANGED <<records, objects, messages, documents, issued, mishaps>>

\* storage.delete, first half: target.exists().
DeleteCheck(c) ==
  /\ pc[c] = "delete_check"
  /\ Goto(c, IF target[c] \in objects THEN "delete_unlink" ELSE "delete_tombstone")
  /\ UNCHANGED <<records, objects, messages, documents, issued, mishaps>>

\* storage.delete, second half: target.unlink().
DeleteUnlink(c) ==
  /\ pc[c] = "delete_unlink"
  /\ target[c] \in objects
  /\ objects' = objects \ {target[c]}
  /\ Goto(c, "delete_tombstone")
  /\ UNCHANGED <<records, messages, documents, issued, mishaps>>

\* Another delete unlinked the file between the check and the unlink.
DeleteUnlinkTooLate(c) ==
  /\ pc[c] = "delete_unlink"
  /\ target[c] \notin objects
  /\ Return(c)
  /\ UNCHANGED <<records, objects, messages, documents, issued, mishaps>>

DeleteUnlinkRaises(c) ==
  /\ StorageFaults
  /\ pc[c] = "delete_unlink"
  /\ Return(c)
  /\ Note(target[c], "unlink_error")
  /\ UNCHANGED <<records, objects, messages, documents, issued>>

\* Faulty variant: the delete also drops a row that the workers own.
DeleteTombstonePurges(c) ==
  /\ pc[c] = "delete_tombstone"
  /\ Transition(target[c], "deleted")
  /\ documents' = [documents EXCEPT ![target[c]] = "no_row"]
  /\ Return(c)
  /\ UNCHANGED <<objects, messages, issued, mishaps>>

DeleteTombstone(c) ==
  /\ pc[c] = "delete_tombstone"
  /\ Transition(target[c], "deleted")
  /\ Return(c)
  /\ UNCHANGED <<objects, messages, documents, issued, mishaps>>

(* refresh_workspace_statuses: the rows are fetched before the lock is taken. *)

RefreshRead(c) ==
  /\ pc[c] = "idle"
  /\ pc' = [pc EXCEPT ![c] = "refresh_merge"]
  /\ fetched' = [fetched EXCEPT ![c] = documents]
  /\ UNCHANGED <<target, records, objects, messages, documents, issued, mishaps>>

\* Faulty variant: the fetched row is dropped.
MergedNever(f, row) == records[f]

\* Faulty variant: a file without a row takes the missing value.
MergedAlways(f, row) ==
  IF records[f] \in {"absent", "deleting", "deleted"} THEN records[f] ELSE row

\* Faulty variant: a terminal status, once shown, is kept.
MergedOnce(f, row) ==
  IF row = "no_row" \/ records[f] \in {"absent", "deleting", "deleted", "indexed", "failed"}
    THEN records[f]
    ELSE row

\* Faulty variant: a refresh overwrites a delete.
MergedOverDelete(f, row) == IF row = "no_row" \/ records[f] = "absent" THEN records[f] ELSE row

Merged(f, row) ==
  IF row = "no_row" \/ records[f] \in {"absent", "deleting", "deleted"}
    THEN records[f]
    ELSE row

RefreshMerge(c) ==
  /\ pc[c] = "refresh_merge"
  /\ records' = [f \in Files |-> Merged(f, fetched[c][f])]
  /\ Return(c)
  /\ UNCHANGED <<objects, messages, documents, issued, mishaps>>

\* Faulty variant: the requests under way survive what they write to.
RestartSpares ==
  /\ records' = [f \in Files |-> "absent"]
  /\ UNCHANGED <<objects, messages, documents, requests, issued, mishaps>>

\* The API process restarts: the repository and the queue lived in its memory.
Restart ==
  /\ records' = [f \in Files |-> "absent"]
  /\ pc'      = [c \in Calls |-> "idle"]
  /\ target'  = [c \in Calls |-> NoFile]
  /\ fetched' = [c \in Calls |-> NoRows]
  /\ UNCHANGED <<objects, messages, documents, issued, mishaps>>

\* A worker that was sent a task for f writes f's row.
Ingest(f) ==
  /\ \E t \in Tasks : messages[t] = f
  /\ \E s \in WorkerWrites : documents' = [documents EXCEPT ![f] = s]
  /\ UNCHANGED <<records, objects, messages, requests, issued, mishaps>>

-----------------------------------------------------------------------------
Upload(c)    == UploadPut(c) \/ UploadPutRaises(c) \/ UploadQueue(c)
Send(c)      == Enqueue(c) \/ EnqueueRaises(c)
Delete(c)    == \/ DeleteMark(c) \/ DeleteCheck(c)
                \/ DeleteUnlink(c) \/ DeleteUnlinkTooLate(c) \/ DeleteUnlinkRaises(c)
                \/ DeleteTombstone(c)

\* The next step of a request that is being served.
Continue(c) == Upload(c) \/ Send(c) \/ ReprocessWrite(c) \/ Delete(c) \/ RefreshMerge(c)

Request(c) ==
  \/ RefreshRead(c)
  \/ \E f \in Files : UploadCreate(c, f) \/ ReprocessRead(c, f) \/ DeleteRead(c, f)

ApiNext == (\E c \in Calls : Request(c) \/ Continue(c)) \/ Restart

Next == ApiNext \/ \E f \in Files : Ingest(f)

Spec == Init /\ [][Next]_vars

\* A request that was accepted runs to its end, and somebody keeps looking.
Fairness ==
  /\ \A c \in Calls : WF_vars(Continue(c))
  /\ SF_vars(\E c \in Calls : RefreshRead(c))

FairSpec == Spec /\ Fairness
-----------------------------------------------------------------------------
(* Properties. *)

\* A deleted file's bytes are gone, whatever deletes, reprocesses and refreshes
\* interleave with its delete, and however storage fails.
\* (FileService.delete, LocalObjectStorage.delete)
DeletedObjectGone == \A f \in Files : records[f] = "deleted" => f \notin objects

\* A status that only a running request can end has a request running it, or
\* the record was left behind by an error the request did not handle.
UploadedIsOwned ==
  \A f \in Files : records[f] = "uploaded" =>
    Serving(f, {"upload_put", "upload_queue"}) \/ <<f, "put_error">> \in mishaps

DeletingIsOwned ==
  \A f \in Files : records[f] = "deleting" =>
    \/ Serving(f, {"delete_check", "delete_unlink", "delete_tombstone"})
    \/ <<f, "unlink_error">> \in mishaps

\* A file whose record says queued, and that no worker has touched, has a task
\* in the broker, or a request about to send one, or a send that was swallowed.
QueuedIsOwned ==
  \A f \in Files : records[f] = "queued" =>
    \/ Serving(f, {"upload_enqueue", "reprocess_enqueue"})
    \/ \E t \in Tasks : messages[t] = f
    \/ <<f, "undispatched">> \in mishaps

\* No interleaving of upload, reprocess, delete and refresh (service.py 34-198,
\* repository.py 68-123) abandons a record in a transient status.
NoAbandonedRecord == UploadedIsOwned /\ DeletingIsOwned /\ QueuedIsOwned

\* A request that will still overwrite f's status with "queued".
Requeueing(f) == Serving(f, {"upload_put", "upload_queue", "reprocess_write"})

\* Stale snapshots are drained (repository.py 88-123): once a document row has
\* settled, every later look at the record shows it, unless the file was deleted
\* or forgotten; a merge of older rows cannot win for ever.
RecordConverges ==
  \A f \in Files : \A s \in WorkerWrites :
    <>[](documents[f] = s /\ ~ Requeueing(f))
      => <>[](records[f] \in {s, "absent", "deleting", "deleted"})

\* What a request under way may yet do to the record of f, and when it still may.
Before ==
  [queue     |-> {"upload_put", "upload_queue", "reprocess_write"},
   send      |-> {"upload_enqueue", "reprocess_enqueue"},
   mark      |-> {"delete_mark"},
   tombstone |-> {"delete_check", "delete_unlink", "delete_tombstone"}]

Writes == DOMAIN Before

WritersOf(f) == {write \in Writes : Serving(f, Before[write])}

RowsRead(f) == {fetched[c][f] : c \in {d \in Calls : pc[d] = "refresh_merge"}}

Life(f) == INSTANCE FileLife WITH
  record  <- records[f],
  row     <- documents[f],
  drawn   <- f \in issued,
  sent    <- \E t \in Tasks : messages[t] = f,
  reads   <- RowsRead(f),
  writers <- WritersOf(f)

\* Every file lives a FileLife (service.py 34-198, repository.py 68-123): however the
\* requests of all files interleave, its record changes only by a write that was allowed
\* when its request came, by a row that some refresh has read, or by a restart, after
\* which it does not come back (dependencies.py 16-26).
LivesKept ==
  /\ \A f \in Files : Life(f)!Init
  /\ [][\A f \in Files : [Life(f)!Next]_(Life(f)!vars)]_vars

\* What FileLife says of forgotten records, by itself: no request that was accepted
\* before a restart writes to a record that it dropped (dependencies.py 16-26).
ForgottenStay ==
  [][\A f \in Files : f \in issued /\ records[f] = "absent" => records'[f] = "absent"]_vars
=============================================================================
