-------------------------- MODULE IngestionWorker --------------------------
(***************************************************************************)
(* The Celery workers that take ingestion.process_file tasks and run the   *)
(* ingestion of one file: document row, parse, OCR fallback, chunk rows,   *)
(* embeddings, and the handler that marks the row failed and retries.      *)
(*                                                                         *)
(* Every repository call is a Postgres transaction of its own, hence one   *)
(* action; only store_parsed_output, whose DELETE and INSERTs can overlap  *)
(* those of another task, is split at its DELETE.  The event log is not    *)
(* kept: its writes matter only as places where a transaction can fail.    *)
(***************************************************************************)
EXTENDS FileStatus, FiniteSets, Integers

CONSTANTS
  Files, Tasks, NoFile,
  Workers,        \* worker processes: the size of the prefork pool
  NoTask,
  Outputs,        \* what a parser can make of a file's bytes
  OcrOutput,      \* what the OCR service makes of them
  ChunkCount,     \* how many chunks an output has
  NoOutput,
  Scanned,        \* the files whose MIME type allows the OCR fallback
  MaxRetries,     \* max_retries of the task
  ReadFaults,     \* whether reading the object may raise ConnectionError or TimeoutError
  ParseFaults,    \* whether a parser may raise on the bytes
  DbFaults,       \* whether a database transaction may fail
  Crashes         \* whether a worker process may die

ASSUME TasksAssumption   == NoFile \notin Files /\ NoTask \notin Tasks
ASSUME OutputsAssumption ==
  /\ OcrOutput \in Outputs /\ NoOutput \notin Outputs
  /\ ChunkCount \in [Outputs -> Nat]
  /\ ChunkCount[OcrOutput] = 1
ASSUME ScannedAssumption == Scanned \subseteq Files
ASSUME RetriesAssumption == MaxRetries \in Nat
ASSUME WorkerFaultsAssumption == {ReadFaults, ParseFaults, DbFaults, Crashes} \subseteq BOOLEAN

VARIABLES
  objects,    \* the files whose bytes the object store holds
  messages,   \* the file each published task is for, NoFile if not published
  documents,  \* the status column of ingestion_documents, or "no_row"
  chunks,     \* the rows of ingestion_chunks
  delivery,   \* what the broker and Celery know of each task
  retries,    \* how often Celery has retried it
  at,         \* the call each worker process performs next
  task,       \* the task it runs
  output,     \* what its parse returned
  overtaken,  \* whether its open store_parsed_output has missed another's rows
  transient,  \* whether the exception it handles is one to retry
  overlapped  \* history: the files two workers were ingesting at one moment

broker == <<delivery, retries>>
process == <<at, task, output, overtaken, transient>>
vars == <<objects, messages, documents, chunks, broker, process, overlapped>>

\* Where a worker is: each step names the call it performs next.
RunSteps ==
  {"create_document", "mark_parsing", "get_bytes", "parse", "mark_ocr", "mark_chunking",
   "store", "storing", "mark_embedding", "embed", "mark_indexed", "record_events"}
HandlerSteps == {"mark_failed", "record_failure"}
WorkerSteps  == {"idle"} \union RunSteps \union HandlerSteps

\* The steps that are a database transaction, and so can fail as one.
DbSteps == RunSteps \ {"get_bytes", "parse"}

\* The steps that use the output of the parse.
AfterParse == {"mark_chunking", "store", "storing", "mark_embedding", "embed"}

ChunkRow == [file : Files, ordinal : Nat, text : Outputs, vector : Outputs \union {NoOutput}]

WorkerTypeOK ==
  /\ objects    \in SUBSET Files
  /\ messages   \in [Tasks -> Files \union {NoFile}]
  /\ documents  \in [Files -> Row]
  /\ chunks     \in SUBSET ChunkRow
  /\ delivery   \in [Tasks -> {"waiting", "taken", "done", "lost"}]
  /\ retries    \in [Tasks -> 0 .. MaxRetries]
  /\ at         \in [Workers -> WorkerSteps]
  /\ task       \in [Workers -> Tasks \union {NoTask}]
  /\ output     \in [Workers -> Outputs \union {NoOutput}]
  /\ overtaken  \in [Workers -> BOOLEAN]
  /\ transient  \in [Workers -> BOOLEAN]
  /\ overlapped \in SUBSET Files
  /\ \A w \in Workers :
       /\ at[w] # "idle" => task[w] \in Tasks /\ messages[task[w]] \in Files
       /\ at[w] \in AfterParse => output[w] \in Outputs

\* The worker's own part of the state; the rest it shares with the API.
WorkerInit ==
  /\ chunks     = {}
  /\ delivery   = [t \in Tasks |-> "waiting"]
  /\ retries    = [t \in Tasks |-> 0]
  /\ at         = [w \in Workers |-> "idle"]
  /\ task       = [w \in Workers |-> NoTask]
  /\ output     = [w \in Workers |-> NoOutput]
  /\ overtaken  = [w \in Workers |-> FALSE]
  /\ transient  = [w \in Workers |-> FALSE]
  /\ overlapped = {}

\* For this module alone: no row, nothing stored or sent yet.
Init ==
  /\ objects   = {}
  /\ messages  = [t \in Tasks |-> NoFile]
  /\ documents = [f \in Files |-> "no_row"]
  /\ WorkerInit

-----------------------------------------------------------------------------
FileOf(w) == messages[task[w]]

Busy(w, f) == at[w] # "idle" /\ FileOf(w) = f

Goto(w, call) ==
  /\ at' = [at EXCEPT ![w] = call]
  /\ UNCHANGED <<task, output, overtaken, transient>>

\* The parse returned o, the next call is given.
GotoWith(w, call, o) ==
  /\ at' = [at EXCEPT ![w] = call]
  /\ output' = [output EXCEPT ![w] = o]
  /\ UNCHANGED <<task, overtaken, transient>>

\* The exception handler of process_file_ingestion takes over.
Raise(w, retryable) ==
  /\ at' = [at EXCEPT ![w] = "mark_failed"]
  /\ transient' = [transient EXCEPT ![w] = retryable]
  /\ UNCHANGED <<task, output, overtaken>>

\* The task's run is over, one way or another.
Rest(w) ==
  /\ at' = [at EXCEPT ![w] = "idle"]
  /\ task' = [task EXCEPT ![w] = NoTask]
  /\ output' = [output EXCEPT ![w] = NoOutput]
  /\ overtaken' = [overtaken EXCEPT ![w] = FALSE]
  /\ transient' = [transient EXCEPT ![w] = FALSE]

\* Faulty variant: a document that is indexed stays so while it is processed again.
SetStatusSticky(w, status) ==
  IF documents[FileOf(w)] \in {"no_row", "indexed"}
    THEN UNCHANGED documents
    ELSE documents' = [documents EXCEPT ![FileOf(w)] = status]

SetStatus(w, status) ==
  IF documents[FileOf(w)] = "no_row"
    THEN UNCHANGED documents
    ELSE documents' = [documents EXCEPT ![FileOf(w)] = status]

\* A transaction that only sets the document's status, followed by the next step.
MarkStatus(w, call, status, next) ==
  /\ at[w] = call
  /\ SetStatus(w, status)
  /\ Goto(w, next)
  /\ UNCHANGED <<objects, messages, chunks, broker, overlapped>>

Ordinals(o) == 0 .. ChunkCount[o] - 1

RowsOf(f) == {r \in chunks : r.file = f}

\* The rows of f once output o is stored, each with vector v.
RowsFor(f, o, v) == {[file |-> f, ordinal |-> i, text |-> o, vector |-> v] : i \in Ordinals(o)}

-----------------------------------------------------------------------------
(* A task is delivered.  Celery acknowledges it before it runs. *)

Take(w, t) ==
  /\ at[w] = "idle"
  /\ messages[t] # NoFile /\ delivery[t] = "waiting"
  /\ delivery' = [delivery EXCEPT ![t] = "taken"]
  /\ at' = [at EXCEPT ![w] = "create_document"]
  /\ task' = [task EXCEPT ![w] = t]
  /\ overlapped' = IF \E v \in Workers : Busy(v, messages[t])
                     THEN overlapped \union {messages[t]}
                     ELSE overlapped
  /\ UNCHANGED <<objects, messages, documents, chunks, retries, output, overtaken, transient>>

(* IngestionOrchestrationService.run *)

\* INSERT ... ON CONFLICT: an existing row keeps its status.
CreateDocument(w) ==
  /\ at[w] = "create_document"
  /\ documents' = [documents EXCEPT ![FileOf(w)] = IF @ = "no_row" THEN "queued" ELSE @]
  /\ Goto(w, "mark_parsing")
  /\ UNCHANGED <<objects, messages, chunks, broker, overlapped>>

MarkParsing(w) == MarkStatus(w, "mark_parsing", "parsing", "get_bytes")

GetBytes(w) ==
  /\ at[w] = "get_bytes"
  /\ IF FileOf(w) \in objects THEN Goto(w, "parse") ELSE Raise(w, FALSE)
  /\ UNCHANGED <<objects, messages, documents, chunks, broker, overlapped>>

GetBytesTimesOut(w) ==
  /\ ReadFaults
  /\ at[w] = "get_bytes"
  /\ Raise(w, TRUE)
  /\ UNCHANGED <<objects, messages, documents, chunks, broker, overlapped>>

\* Which parser reads the bytes depends on what the worker has installed, so two
\* runs on one file may differ.  No chunks from a scanned type: try OCR.
Parse(w) ==
  /\ at[w] = "parse"
  /\ \E o \in Outputs \ {OcrOutput} :
       IF ChunkCount[o] = 0 /\ FileOf(w) \in Scanned
         THEN GotoWith(w, "mark_ocr", o)
         ELSE GotoWith(w, "mark_chunking", o)
  /\ UNCHANGED <<objects, messages, documents, chunks, broker, overlapped>>

ParseRaises(w) ==
  /\ ParseFaults
  /\ at[w] = "parse"
  /\ Raise(w, FALSE)
  /\ UNCHANGED <<objects, messages, documents, chunks, broker, overlapped>>

MarkOcr(w) ==
  /\ at[w] = "mark_ocr"
  /\ SetStatus(w, "OCR_fallback")
  /\ GotoWith(w, "mark_chunking", OcrOutput)
  /\ UNCHANGED <<objects, messages, chunks, broker, overlapped>>

MarkChunking(w) == MarkStatus(w, "mark_chunking", "chunking", "store")

\* The DELETE of store_parsed_output sees the rows committed so far.
StoreBegin(w) ==
  /\ at[w] = "store"
  /\ at' = [at EXCEPT ![w] = "storing"]
  /\ overtaken' = [overtaken EXCEPT ![w] = FALSE]
  /\ UNCHANGED <<objects, messages, documents, chunks, broker, task, output, transient, overlapped>>

\* Another task's rows, committed since the DELETE, hold the same primary keys.
\* (Faulty variant first: the conflict goes unnoticed.)
KeysNeverTaken(w) == FALSE

KeysTaken(w) ==
  overtaken[w] /\ \E r \in RowsOf(FileOf(w)) : r.ordinal \in Ordinals(output[w])

\* The INSERTs commit.  Every other store that is open on this file has a DELETE
\* that did not see them.
StoreCommit(w) ==
  /\ at[w] = "storing"
  /\ ~ KeysTaken(w)
  /\ chunks' = (IF overtaken[w] THEN chunks ELSE chunks \ RowsOf(FileOf(w)))
                 \union RowsFor(FileOf(w), output[w], NoOutput)
  /\ at' = [at EXCEPT ![w] = "mark_embedding"]
  /\ overtaken' = [v \in Workers |->
       \/ overtaken[v]
       \/ v # w /\ at[v] = "storing" /\ FileOf(v) = FileOf(w)]
  /\ UNCHANGED <<objects, messages, documents, broker, task, output, transient, overlapped>>

\* UniqueViolation: the transaction is rolled back.
StoreConflict(w) ==
  /\ at[w] = "storing"
  /\ KeysTaken(w)
  /\ Raise(w, FALSE)
  /\ UNCHANGED <<objects, messages, documents, chunks, broker, overlapped>>

\* Faulty variant: the document is published before its vectors are stored.
MarkEmbeddingEarly(w) == MarkStatus(w, "mark_embedding", "indexed", "embed")

MarkEmbedding(w) == MarkStatus(w, "mark_embedding", "embedding", "embed")

\* store_embeddings updates by chunk id: whatever rows carry the ids now.
Embedded(r, f, o) ==
  IF r.file = f /\ r.ordinal \in Ordinals(o) THEN [r EXCEPT !.vector = o] ELSE r

Embed(w) ==
  /\ at[w] = "embed"
  /\ chunks' = {Embedded(r, FileOf(w), output[w]) : r \in chunks}
  /\ Goto(w, "mark_indexed")
  /\ UNCHANGED <<objects, messages, documents, broker, overlapped>>

MarkIndexed(w) == MarkStatus(w, "mark_indexed", "indexed", "record_events")

Finish(w, state) ==
  /\ delivery' = [delivery EXCEPT ![task[w]] = state]
  /\ Rest(w)
  /\ UNCHANGED retries

RecordEvents(w) ==
  /\ at[w] = "record_events"
  /\ Finish(w, "done")
  /\ UNCHANGED <<objects, messages, documents, chunks, overlapped>>

DbError(w) ==
  /\ DbFaults
  /\ at[w] \in DbSteps
  /\ Raise(w, FALSE)
  /\ UNCHANGED <<objects, messages, documents, chunks, broker, overlapped>>

(* The handler: mark failed, log, then retry a transient failure. *)

\* Faulty variant: the handler logs the failure and leaves the status as it is.
MarkFailedForgotten(w) ==
  /\ at[w] = "mark_failed"
  /\ Goto(w, "record_failure")
  /\ UNCHANGED <<objects, messages, documents, chunks, broker, overlapped>>

MarkFailed(w) == MarkStatus(w, "mark_failed", "failed", "record_failure")

\* Faulty variants: one retry too many; a retry that is not counted.
RetriesLeftOffByOne(w) == transient[w] /\ retries[task[w]] <= MaxRetries

RetryUncounted(w) ==
  /\ at[w] = "record_failure"
  /\ transient[w]
  /\ Finish(w, "waiting")
  /\ UNCHANGED <<objects, messages, documents, chunks, overlapped>>

RetriesLeft(w) == transient[w] /\ retries[task[w]] < MaxRetries

Retry(w) ==
  /\ at[w] = "record_failure"
  /\ RetriesLeft(w)
  /\ delivery' = [delivery EXCEPT ![task[w]] = "waiting"]
  /\ retries' = [retries EXCEPT ![task[w]] = @ + 1]
  /\ Rest(w)
  /\ UNCHANGED <<objects, messages, documents, chunks, overlapped>>

GiveUp(w) ==
  /\ at[w] = "record_failure"
  /\ ~ RetriesLeft(w)
  /\ Finish(w, "done")
  /\ UNCHANGED <<objects, messages, documents, chunks, overlapped>>

\* An error in the handler itself replaces the first one: no retry, and the row
\* may keep whatever status it had.
HandlerError(w) ==
  /\ DbFaults
  /\ at[w] \in HandlerSteps
  /\ Finish(w, "done")
  /\ UNCHANGED <<objects, messages, documents, chunks, overlapped>>

\* The process dies: its task was acknowledged, so nobody runs it again.
Crash(w) ==
  /\ Crashes
  /\ at[w] # "idle"
  /\ Finish(w, "lost")
  /\ UNCHANGED <<objects, messages, documents, chunks, overlapped>>

(* The API, for this module alone. *)

SendTask(t, f) ==
  /\ messages[t] = NoFile
  /\ messages' = [messages EXCEPT ![t] = f]
  /\ UNCHANGED <<objects, documents, chunks, broker, process, overlapped>>

PutObject(f) ==
  /\ f \notin objects
  /\ objects' = objects \union {f}
  /\ UNCHANGED <<messages, documents, chunks, broker, process, overlapped>>

DeleteObject(f) ==
  /\ f \in objects
  /\ objects' = objects \ {f}
  /\ UNCHANGED <<messages, documents, chunks, broker, process, overlapped>>

-----------------------------------------------------------------------------
Run(w) ==
  \/ CreateDocument(w) \/ MarkParsing(w) \/ GetBytes(w) \/ GetBytesTimesOut(w)
  \/ Parse(w) \/ ParseRaises(w) \/ MarkOcr(w) \/ MarkChunking(w)
  \/ StoreBegin(w) \/ StoreCommit(w) \/ StoreConflict(w)
  \/ MarkEmbedding(w) \/ Embed(w) \/ MarkIndexed(w) \/ RecordEvents(w)
  \/ DbError(w)

Handle(w) == MarkFailed(w) \/ Retry(w) \/ GiveUp(w) \/ HandlerError(w)

Work(w) == Run(w) \/ Handle(w)

WorkerNext == \E w \in Workers : Work(w) \/ Crash(w) \/ \E t \in Tasks : Take(w, t)

Next ==
  \/ WorkerNext
  \/ \E t \in Tasks, f \in Files : SendTask(t, f)
  \/ \E f \in Files : PutObject(f) \/ DeleteObject(f)

Spec == Init /\ [][Next]_vars

\* A live worker goes on with its task, and an idle one takes what is waiting.
WorkerFairness ==
  /\ \A w \in Workers : WF_vars(Work(w))
  /\ \A t \in Tasks : WF_vars(\E w \in Workers : Take(w, t))

FairSpec == Spec /\ WorkerFairness
-----------------------------------------------------------------------------
(* Properties. *)

\* The chunk table never mixes two parses of a file: whatever tasks of the file
\* overlap, fail, retry or die, its rows are all the chunks of one output, one
\* row per ordinal (store_parsed_output, persistence/repository.py 149-220).
UniqueKeys ==
  \A r, s \in chunks : r.file = s.file /\ r.ordinal = s.ordinal => r = s

WholeOutput(f, o) ==
  /\ {r.ordinal : r \in RowsOf(f)} = Ordinals(o)
  /\ \A r \in RowsOf(f) : r.text = o

ChunksAreWhole ==
  UniqueKeys /\ \A f \in Files : RowsOf(f) = {} \/ \E o \in Outputs : WholeOutput(f, o)

\* Every chunk of one output, each with the vector of its own text.
Searchable(f) == \E o \in Outputs : RowsOf(f) = RowsFor(f, o, o)

\* A document marked indexed has all its chunks embedded, through faults, retries,
\* crashes and repeated tasks, as long as no two workers ever ran tasks of that
\* file at the same time (ingestion_service.py 31-89).
SearchableUnlessOverlapped ==
  \A f \in Files : documents[f] = "indexed" => f \in overlapped \/ Searchable(f)

\* private_llm_prd.md:643: "Reprocessing a file must replace prior chunks and vectors cleanly": indexed
\* means searchable, overlapping tasks or not.
IndexedMeansSearchable ==
  \A f \in Files : documents[f] = "indexed" => Searchable(f)

\* With one worker, chunks and vectors become visible to retrieval in one step and
\* disappear in one step (retrieval joins on status 'indexed').
View(indexed, rows) == [indexed |-> indexed, rows |-> rows]

ViewOf(f) == IF documents[f] = "indexed" THEN View(TRUE, RowsOf(f)) ELSE View(FALSE, {})

\* However many workers there are, what retrieval sees of a file that no two of
\* them ever ran at once stays, is withdrawn whole, or appears as one whole output
\* where nothing was seen, whatever other files' tasks do (ingestion_service.py
\* 31-93, chat/retrieval.py 75).
PublishedUnlessOverlapped ==
  [][\A f \in Files :
       \/ f \in overlapped
       \/ ViewOf(f)' \in {ViewOf(f), View(FALSE, {})}
       \/ /\ ViewOf(f) = View(FALSE, {})
          /\ \E o \in Outputs : ViewOf(f)' = View(TRUE, RowsFor(f, o, o))]_vars

Index == INSTANCE SearchIndex WITH
  Contents <- LAMBDA f : {View(TRUE, RowsFor(f, o, o)) : o \in Outputs},
  Nothing  <- View(FALSE, {}),
  visible  <- [f \in Files |-> ViewOf(f)]

PublishedWhole == Index!Spec

\* Every published task comes to an end, and a file with a task ends up indexed or
\* failed: no task waits for ever behind another, a retry or a conflict.
TasksEnd ==
  \A t \in Tasks : messages[t] # NoFile ~> delivery[t] \in {"done", "lost"}

DocumentSettles ==
  \A f \in Files : <>[](\/ \A t \in Tasks : messages[t] # f
                        \/ documents[f] \in {"indexed", "failed"})
=============================================================================
