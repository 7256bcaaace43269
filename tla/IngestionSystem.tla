-------------------------- MODULE IngestionSystem --------------------------
(***************************************************************************)
(* The API's files service and the ingestion workers together.  They share *)
(* the object store, the broker's messages and the table of document rows; *)
(* the record of a file follows its row only when a request refreshes it.  *)
(***************************************************************************)
EXTENDS FileStatus, FiniteSets, Integers

CONSTANTS
  Files, Calls, Tasks, NoFile, StorageFaults, DispatchFaults,
  Workers, NoTask, Outputs, OcrOutput, ChunkCount, NoOutput, Scanned, MaxRetries,
  ReadFaults, ParseFaults, DbFaults, Crashes

ASSUME IdsAssumption     == NoFile \notin Files /\ NoTask \notin Tasks
ASSUME OutputsAssumption ==
  /\ OcrOutput \in Outputs /\ NoOutput \notin Outputs
  /\ ChunkCount \in [Outputs -> Nat]
  /\ ChunkCount[OcrOutput] = 1
ASSUME ScannedAssumption == Scanned \subseteq Files
ASSUME RetriesAssumption == MaxRetries \in Nat
ASSUME FaultsAssumption  ==
  {StorageFaults, DispatchFaults, ReadFaults, ParseFaults, DbFaults, Crashes} \subseteq BOOLEAN

VARIABLES
  records, pc, target, fetched, issued, mishaps,  \* of the API
  chunks, delivery, retries, at, task, output, overtaken, transient,
  overlapped,                                            \* of the workers
  objects, messages, documents                           \* shared

Library == INSTANCE FileLibrary WITH WorkerWrites <- IngestStatus
Worker  == INSTANCE IngestionWorker

apiVars    == <<records, pc, target, fetched, issued, mishaps>>
workerVars == <<chunks, delivery, retries, at, task, output, overtaken, transient, overlapped>>
vars       == <<apiVars, workerVars, objects, messages, documents>>

TypeOK == Library!TypeOK /\ Worker!WorkerTypeOK

Init == Library!Init /\ Worker!WorkerInit

ApiStep    == Library!ApiNext /\ UNCHANGED workerVars
WorkerStep == Worker!WorkerNext /\ UNCHANGED apiVars

Next == ApiStep \/ WorkerStep

Spec == Init /\ [][Next]_vars

Fairness ==
  /\ \A c \in Calls : WF_vars(Library!Continue(c) /\ UNCHANGED workerVars)
  /\ SF_vars((\E c \in Calls : Library!RefreshRead(c)) /\ UNCHANGED workerVars)
  /\ \A w \in Workers : WF_vars(Worker!Work(w) /\ UNCHANGED apiVars)
  /\ \A t \in Tasks : WF_vars((\E w \in Workers : Worker!Take(w, t)) /\ UNCHANGED apiVars)

FairSpec == Spec /\ Fairness

-----------------------------------------------------------------------------
(* What chat retrieval can see in Postgres: it joins chunks with document   *)
(* rows that are indexed and skips chunks without an embedding.  The API's  *)
(* records matter only where it finds nothing there (see ChatService).      *)

Retrievable(f) ==
  documents[f] = "indexed" /\ \E r \in chunks : r.file = f /\ r.vector # NoOutput

-----------------------------------------------------------------------------
(* Properties. *)

\* The composition is an instance of each component in its environment: a worker's
\* writes to the rows are ones the files service is prepared to find, and the
\* requests' effects on store and broker are ones the workers are prepared for.
ComponentsImplemented == Library!Spec /\ Worker!Spec

\* With no dispatch failure, crash or database failure, every uploaded file is
\* eventually reported as indexed, failed or deleted (or forgotten in a restart of
\* the API), whatever requests interleave: no file stays queued or half-way.
UploadsAreAnswered ==
  \A f \in Files :
    f \in issued ~> records[f] \in {"indexed", "failed", "deleted", "absent"}

\* private_llm_user_stories.md:562: "Deleted file cannot be retrieved or queried."
DeletedIsNotRetrievable ==
  \A f \in Files : records[f] = "deleted" => ~ Retrievable(f)

\* services/api/app/files/service.py:151: "Cannot reprocess a deleted file": no step
\* takes a record from deleted back to queued.
DeletedIsNotRequeued ==
  [][\A f \in Files : records[f] = "deleted" => records'[f] # "queued"]_vars
=============================================================================
