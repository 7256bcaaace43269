---------------------------- MODULE UploadAndAsk ----------------------------
(***************************************************************************)
(* Upload-and-ask: a batch of files is uploaded together with a question,  *)
(* and the question is asked once all of them are indexed.  Nothing in the *)
(* server waits for that: a pending request moves on only when a client    *)
(* polls it.                                                               *)
(*                                                                         *)
(* create_request runs on the event loop and gives way between two files.  *)
(* Polls run on pool threads and interleave with each other and with       *)
(* everything else.  What other requests and the workers do to the files   *)
(* is seen as the steps of "The rest of the system", which allow every     *)
(* change of a record or a row that the life of a file allows (FileLife).  *)
(***************************************************************************)
EXTENDS FileStatus

CONSTANTS
  Files, NoFile,
  Requests,      \* the upload-and-ask requests, each made once
  Batch,         \* the files of each; their order does not matter here
  Polls,         \* polls served at once: a bound on the thread pool
  NoRequest,
  WorkerWrites,  \* the statuses a worker writes for each file: a bound on IngestStatus
  Shared,        \* the files that others reprocess or delete: a bound on Files
  UploadFaults,  \* whether an upload may be refused or raise
  DeleteFaults,  \* whether a delete may raise: unlink failed or came second
  DbFaults,      \* whether the rows may be out of reach
  AskFaults      \* whether retrieval or generation may raise

ASSUME BatchAssumption ==
  /\ Batch \in [Requests -> SUBSET Files \ {{}}]
  /\ \A q, r \in Requests : q # r => Batch[q] \intersect Batch[r] = {}
ASSUME NothingAssumption == NoRequest \notin Requests /\ NoFile \notin Files
ASSUME AskBoundsAssumption ==
  WorkerWrites \in [Files -> SUBSET IngestStatus] /\ Shared \subseteq Files
ASSUME AskFaultsAssumption ==
  {UploadFaults, DeleteFaults, DbFaults, AskFaults} \subseteq BOOLEAN

VARIABLES
  records,    \* the record of each file, or "absent"
  documents,  \* its row of ingestion_documents, or "no_row"
  creating,   \* the call create_request performs next
  current,    \* the file that call is for
  uploaded,   \* the files it has uploaded and, if it fails, not yet deleted
  sent,       \* the files for which a task was sent
  pending,    \* the status of each pending request, or "absent"
  at,         \* the call each poll performs next
  asked,      \* the request it is for
  copy,       \* the status that request had when the poll fetched it
  seen,       \* what the poll knows of each file
  had,        \* history: the rows each file has had, and "deleted" once it was
  raced       \* history: the requests that two polls serve, or have since none did

files  == <<records, documents, sent, had>>
create == <<creating, current, uploaded>>
poll   == <<at, asked, copy, seen, raced>>
vars   == <<files, create, pending, poll>>

Open    == {"waiting_for_index", "executing"}
Pending == Open \union {"completed", "failed"}

CreateSteps == {"none", "create", "put", "delete", "tombstone", "over"}
PollSteps   == {"idle", "read_records", "read_rows", "decide", "ask"}

\* All that a decision distinguishes in a status.
Verdict(status) ==
  CASE status = "indexed"               -> "indexed"
    [] status \in {"failed", "deleted"} -> "lost"
    [] OTHER                            -> "open"

Unread == [f \in Files |-> "unread"]

AskTypeOK ==
  /\ records    \in [Files -> Status \union {"absent"}]
  /\ documents  \in [Files -> Row]
  /\ creating   \in [Requests -> CreateSteps]
  /\ current    \in [Requests -> Files \union {NoFile}]
  /\ uploaded   \in [Requests -> SUBSET Files]
  /\ sent       \in SUBSET Files
  /\ pending    \in [Requests -> Pending \union {"absent"}]
  /\ at         \in [Polls -> PollSteps]
  /\ asked      \in [Polls -> Requests \union {NoRequest}]
  /\ copy       \in [Polls -> Pending]
  /\ seen       \in [Polls -> [Files -> {"unread", "indexed", "lost", "open"}]]
  /\ had        \in [Files -> SUBSET (IngestStatus \union {"deleted"})]
  /\ raced      \in SUBSET Requests
  /\ \A r \in Requests : uploaded[r] \subseteq Batch[r]
  /\ \A r \in Requests : creating[r] \in {"put", "tombstone"} => current[r] \in Batch[r]
  /\ \A p \in Polls : at[p] # "idle" => asked[p] \in Requests

Init ==
  /\ records    = [f \in Files |-> "absent"]
  /\ documents  = [f \in Files |-> "no_row"]
  /\ creating   = [r \in Requests |-> "none"]
  /\ current    = [r \in Requests |-> NoFile]
  /\ uploaded   = [r \in Requests |-> {}]
  /\ sent       = {}
  /\ pending    = [r \in Requests |-> "absent"]
  /\ at         = [p \in Polls |-> "idle"]
  /\ asked      = [p \in Polls |-> NoRequest]
  /\ copy       = [p \in Polls |-> "waiting_for_index"]
  /\ seen       = [p \in Polls |-> Unread]
  /\ had        = [f \in Files |-> {}]
  /\ raced      = {}

SetRecord(f, status) == records' = [records EXCEPT ![f] = status]

SetPending(r, status) == pending' = [pending EXCEPT ![r] = status]

-----------------------------------------------------------------------------
(* UploadAndAskService.create_request *)

CreateGoto(r, call, f) ==
  /\ creating' = [creating EXCEPT ![r] = call]
  /\ current'  = [current EXCEPT ![r] = f]

CreateReturns(r) ==
  /\ CreateGoto(r, "over", NoFile)
  /\ uploaded' = [uploaded EXCEPT ![r] = {}]

\* FileService.upload of the next file, up to the record it creates.
UploadRecord(r, f) ==
  /\ creating[r] \in {"none", "create"}
  /\ f \in Batch[r] \ uploaded[r]
  /\ SetRecord(f, "uploaded")
  /\ CreateGoto(r, "put", f)
  /\ UNCHANGED <<documents, sent, had, uploaded, pending, poll>>

\* The rest of it: the bytes are stored, the file is queued and its task sent,
\* or the task is lost and never ingested (FileLibrary has the steps apart).
UploadStored(r) ==
  /\ creating[r] = "put"
  /\ SetRecord(current[r], "queued")
  /\ sent' = sent \union {current[r]}
  /\ uploaded' = [uploaded EXCEPT ![r] = @ \union {current[r]}]
  /\ CreateGoto(r, "create", NoFile)
  /\ UNCHANGED <<documents, had, pending, poll>>

\* The file is refused before it has a record, or storing it raises: clean up.
UploadRaises(r) ==
  /\ UploadFaults
  /\ \/ creating[r] \in {"none", "create"} /\ uploaded[r] # Batch[r]
     \/ creating[r] = "put"
  /\ CreateGoto(r, "delete", NoFile)
  /\ UNCHANGED <<files, uploaded, pending, poll>>

\* The clean-up deletes the files uploaded so far, not the one that raised.
CleanupMark(r, f) ==
  /\ creating[r] = "delete"
  /\ f \in uploaded[r]
  /\ SetRecord(f, "deleting")
  /\ CreateGoto(r, "tombstone", f)
  /\ UNCHANGED <<documents, sent, had, uploaded, pending, poll>>

Tombstone(f) ==
  /\ SetRecord(f, "deleted")
  /\ had' = [had EXCEPT ![f] = @ \union {"deleted"}]

CleanupTombstone(r) ==
  /\ creating[r] = "tombstone"
  /\ Tombstone(current[r])
  /\ uploaded' = [uploaded EXCEPT ![r] = @ \ {current[r]}]
  /\ CreateGoto(r, "delete", NoFile)
  /\ UNCHANGED <<documents, sent, pending, poll>>

\* Faulty variant: the clean-up ends with the first file it has deleted.
CleanupEndsFirst(r) ==
  /\ \/ creating[r] = "delete" /\ uploaded[r] # Batch[r]
     \/ creating[r] = "tombstone" /\ DeleteFaults
  /\ CreateReturns(r)
  /\ UNCHANGED <<files, pending, poll>>

\* All are deleted, or a delete has raised and the others are left.
CleanupEnds(r) ==
  /\ \/ creating[r] = "delete" /\ uploaded[r] = {}
     \/ creating[r] = "tombstone" /\ DeleteFaults
  /\ CreateReturns(r)
  /\ UNCHANGED <<files, pending, poll>>

CreateRecord(r) ==
  /\ creating[r] = "create" /\ uploaded[r] = Batch[r]
  /\ SetPending(r, "waiting_for_index")
  /\ CreateReturns(r)
  /\ UNCHANGED <<files, poll>>

-----------------------------------------------------------------------------
(* A poll: UploadAndAskService.get_request.  The record it fetches is the    *)
(* one it decides on and stores copies of, whatever happens in between.      *)

Polled(r) == {p \in Polls : asked[p] = r}

\* The response is sent: its own copies are gone.
Respond(p) ==
  /\ at'    = [at EXCEPT ![p] = "idle"]
  /\ asked' = [asked EXCEPT ![p] = NoRequest]
  /\ copy'  = [copy EXCEPT ![p] = "waiting_for_index"]
  /\ seen'  = [seen EXCEPT ![p] = Unread]
  /\ raced' = IF Polled(asked[p]) = {p} THEN raced \ {asked[p]} ELSE raced

\* Faulty variant: a request that is over is looked into again.
NeedsSyncAlways(r) == pending[r] # "absent"

\* A request that is over is only rendered.
NeedsSync(r) == pending[r] \in Open

PollStart(p, r) ==
  /\ at[p] = "idle"
  /\ NeedsSync(r)
  /\ at'    = [at EXCEPT ![p] = "read_records"]
  /\ asked' = [asked EXCEPT ![p] = r]
  /\ copy'  = [copy EXCEPT ![p] = pending[r]]
  /\ raced' = IF Polled(r) # {} THEN raced \union {r} ELSE raced
  /\ UNCHANGED <<seen, pending, files, create>>

\* IndexReadinessGateway.check: the records one by one, then the rows at once.
\* A file without a record counts as failed.
ReadRecord(p, f) ==
  /\ at[p] = "read_records"
  /\ f \in Batch[asked[p]] /\ seen[p][f] = "unread"
  /\ seen' = [seen EXCEPT ![p][f] =
                IF records[f] = "absent" THEN "lost" ELSE Verdict(records[f])]
  /\ at' = [at EXCEPT ![p] =
              IF \A g \in Batch[asked[p]] \ {f} : seen[p][g] # "unread"
                THEN "read_rows" ELSE "read_records"]
  /\ UNCHANGED <<asked, copy, raced, pending, files, create>>

\* The status in the row, where there is one, replaces the record's.
RowOver(p, f) ==
  IF documents[f] = "no_row" THEN seen[p][f] ELSE Verdict(documents[f])

ReadRows(p) ==
  /\ at[p] = "read_rows"
  /\ seen' = [seen EXCEPT ![p] =
                [f \in Files |-> IF f \in Batch[asked[p]] THEN RowOver(p, f) ELSE "unread"]]
  /\ at' = [at EXCEPT ![p] = "decide"]
  /\ UNCHANGED <<asked, copy, raced, pending, files, create>>

\* A database error is taken for an empty result.
ReadRowsRaises(p) ==
  /\ DbFaults
  /\ at[p] = "read_rows"
  /\ at' = [at EXCEPT ![p] = "decide"]
  /\ UNCHANGED <<asked, copy, seen, raced, pending, files, create>>

\* Faulty variants: one indexed file will do; what is not indexed has failed.
AnyIndexed(p) == \E f \in Batch[asked[p]] : seen[p][f] = "indexed"
NotIndexed(p) == \E f \in Batch[asked[p]] : seen[p][f] # "indexed"

AllIndexed(p) == \A f \in Batch[asked[p]] : seen[p][f] = "indexed"

TerminalFailure(p) == \E f \in Batch[asked[p]] : seen[p][f] = "lost"

Fail(p) ==
  /\ at[p] = "decide"
  /\ TerminalFailure(p)
  /\ SetPending(asked[p], "failed")
  /\ Respond(p)
  /\ UNCHANGED <<files, create>>

Execute(p) ==
  /\ at[p] = "decide"
  /\ ~ TerminalFailure(p) /\ AllIndexed(p) /\ copy[p] = "waiting_for_index"
  /\ SetPending(asked[p], "executing")
  /\ at' = [at EXCEPT ![p] = "ask"]
  /\ UNCHANGED <<asked, copy, seen, raced, files, create>>

NotYet(p) ==
  /\ at[p] = "decide"
  /\ ~ TerminalFailure(p) /\ ~ (AllIndexed(p) /\ copy[p] = "waiting_for_index")
  /\ Respond(p)
  /\ UNCHANGED <<pending, files, create>>

Answer(p) ==
  /\ at[p] = "ask"
  /\ SetPending(asked[p], "completed")
  /\ Respond(p)
  /\ UNCHANGED <<files, create>>

\* Faulty variant: the exception leaves the request as it is.
AskRaisesThrough(p) ==
  /\ AskFaults
  /\ at[p] = "ask"
  /\ Respond(p)
  /\ UNCHANGED <<pending, files, create>>

AskRaises(p) ==
  /\ AskFaults
  /\ at[p] = "ask"
  /\ SetPending(asked[p], "failed")
  /\ Respond(p)
  /\ UNCHANGED <<files, create>>

-----------------------------------------------------------------------------
(* The rest of the system: see FileLibrary and IngestionWorker. *)

\* A worker writes the row of a file whose task was sent.
Ingest(f, status) ==
  /\ f \in sent
  /\ documents' = [documents EXCEPT ![f] = status]
  /\ had' = [had EXCEPT ![f] = @ \union {status}]
  /\ UNCHANGED <<records, sent, create, pending, poll>>

\* A refresh merges a row that may be older than the one there is now.
Refresh(f, status) ==
  /\ records[f] \notin {"absent", "deleting", "deleted"}
  /\ status \in had[f] \intersect IngestStatus
  /\ SetRecord(f, status)
  /\ UNCHANGED <<documents, sent, had, create, pending, poll>>

\* A reprocess or a delete of somebody else; the status a reprocess has checked
\* may have become deleted since.
OtherReprocess(f) ==
  /\ records[f] # "absent"
  /\ SetRecord(f, "queued")
  /\ UNCHANGED <<documents, sent, had, create, pending, poll>>

\* The task of a reprocess, sent in a later step of its own.
OtherSend(f) ==
  /\ records[f] # "absent"
  /\ sent' = sent \union {f}
  /\ UNCHANGED <<records, documents, had, create, pending, poll>>

OtherDeleteMark(f) ==
  /\ records[f] # "absent"
  /\ SetRecord(f, "deleting")
  /\ UNCHANGED <<documents, sent, had, create, pending, poll>>

OtherDeleteTombstone(f) ==
  /\ records[f] # "absent"
  /\ Tombstone(f)
  /\ UNCHANGED <<documents, sent, create, pending, poll>>

\* The API process restarts: records and pending requests lived in its memory.
Restart ==
  /\ records'  = [f \in Files |-> "absent"]
  /\ pending'  = [r \in Requests |-> "absent"]
  /\ creating' = [r \in Requests |-> IF creating[r] = "none" THEN "none" ELSE "over"]
  /\ current'  = [r \in Requests |-> NoFile]
  /\ at'       = [p \in Polls |-> "idle"]
  /\ asked'    = [p \in Polls |-> NoRequest]
  /\ copy'     = [p \in Polls |-> "waiting_for_index"]
  /\ seen'     = [p \in Polls |-> Unread]
  /\ raced'    = {}
  /\ uploaded' = [r \in Requests |-> {}]
  /\ UNCHANGED <<documents, sent, had>>

-----------------------------------------------------------------------------
Create(r) ==
  \/ UploadStored(r) \/ UploadRaises(r) \/ CleanupTombstone(r) \/ CleanupEnds(r)
  \/ CreateRecord(r)
  \/ \E f \in Files : UploadRecord(r, f) \/ CleanupMark(r, f)

Synchronize(p) ==
  \/ ReadRows(p) \/ ReadRowsRaises(p) \/ Fail(p) \/ Execute(p) \/ NotYet(p)
  \/ Answer(p) \/ AskRaises(p)
  \/ \E f \in Files : ReadRecord(p, f)

Other(f) ==
  \/ /\ f \in Shared
     /\ OtherReprocess(f) \/ OtherSend(f) \/ OtherDeleteMark(f) \/ OtherDeleteTombstone(f)
  \/ \E s \in WorkerWrites[f] : Ingest(f, s) \/ Refresh(f, s)

Next ==
  \/ \E r \in Requests : Create(r)
  \/ \E p \in Polls : Synchronize(p) \/ \E r \in Requests : PollStart(p, r)
  \/ \E f \in Files : Other(f)
  \/ Restart

Spec == Init /\ [][Next]_vars

\* A poll that was accepted runs to its end; the client of an open request keeps
\* polling.  Nothing is assumed of the rest of the system.
Fairness ==
  /\ \A p \in Polls : WF_vars(Synchronize(p))
  /\ \A r \in Requests : SF_vars(\E p \in Polls : PollStart(p, r))

FairSpec == Spec /\ Fairness

-----------------------------------------------------------------------------
(* Properties. *)

\* The life cycle of a pending request, docs/contracts.md 221-226, and failure
\* while it waits; without concurrent polls, a request that is over stays so and is
\* executed once (service.py 107-189).
LifeCycle ==
  {<<"absent", "waiting_for_index">>, <<"waiting_for_index", "executing">>,
   <<"executing", "completed">>, <<"executing", "failed">>,
   <<"waiting_for_index", "failed">>}
     \union (Pending \X {"absent"})

LifeCycleUnlessRaced ==
  [][\A r \in Requests :
       r \in raced \/ pending'[r] = pending[r] \/ <<pending[r], pending'[r]>> \in LifeCycle]_vars

\* The question is not asked before every file of the batch has been indexed, and
\* a request fails only for a reason: a required file failed or was deleted, or the
\* question was asked and raised; whatever polls, outages and stale records there are.
AskedInTime ==
  \A r \in Requests : pending[r] \in {"executing", "completed"} =>
    \A f \in Batch[r] : "indexed" \in had[f]

FailedForReason ==
  \A r \in Requests : pending[r] = "failed" =>
    \/ \E f \in Batch[r] : had[f] \intersect {"failed", "deleted"} # {}
    \/ \A f \in Batch[r] : "indexed" \in had[f]

\* A batch that is refused leaves nothing behind: when its clean-up has come to its end,
\* the files that were queued for ingestion by it are deleted or forgotten, whatever the
\* workers and refreshes have done to them meanwhile, unless other requests use them
\* too.  A file whose own upload raised was never queued.  (service.py 54-74)
RefusedBatchDeleted ==
  [][\A r \in Requests : creating[r] = "delete" /\ creating'[r] = "over" =>
       \A f \in (Batch[r] \intersect sent) \ Shared : records'[f] \in {"deleted", "absent"}]_vars

\* Racing polls, outages and exceptions leave no request open for ever once its
\* files have settled.
FileSettled(f) ==
  /\ records[f] \in {"indexed", "failed", "deleted"}
  /\ documents[f] \in {"no_row", "indexed", "failed"}

RequestsEnd ==
  \A r \in Requests :
    <>[](\A f \in Batch[r] : FileSettled(f)) => <>[](pending[r] \notin Open)

\* private_llm_user_stories.md:1085: "Do not execute if any required file failed or
\* was deleted.": not even by a poll that begins after the delete.
DeletedIsNotAsked ==
  \A r \in Requests : \A f \in Batch[r] :
    [](pending[r] = "waiting_for_index" /\ records[f] = "deleted" /\ Polled(r) = {}
         => [](pending[r] = "executing" => records[f] # "deleted"))
=============================================================================
