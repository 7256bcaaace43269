------------------------ MODULE IngestionWorkerProofs ------------------------
(***************************************************************************)
(* Proofs about IngestionWorker, for any number of files, tasks and worker *)
(* processes, any outputs of the parsers, and every fault.                 *)
(***************************************************************************)
EXTENDS IngestionWorker, TLAPS

\* One step of a worker, a crash or the API's sends and stores keeps every type.
LEMMA WorkerTypeStep == WorkerTypeOK /\ [Next]_vars => WorkerTypeOK'
<1> SUFFICES ASSUME WorkerTypeOK, [Next]_vars PROVE WorkerTypeOK'
  OBVIOUS
<1> USE DEF FileOf, WorkerSteps, RunSteps, HandlerSteps, AfterParse, Row, IngestStatus
<1> USE DEF WorkerTypeOK, Goto, GotoWith, Raise, Rest, broker, process
<1>1. ASSUME NEW w \in Workers, CreateDocument(w) PROVE WorkerTypeOK'
  <2>1. documents' \in [Files -> Row]
    BY <1>1 DEF CreateDocument
  <2>2. /\ at' = [at EXCEPT ![w] = "mark_parsing"]
        /\ UNCHANGED <<objects, messages, chunks, delivery, retries, task, output, overtaken,
                       transient, overlapped>>
    BY <1>1 DEF CreateDocument
  <2>3. at' \in [Workers -> WorkerSteps] /\ at[w] # "idle"
    BY <1>1, <2>2 DEF CreateDocument
  <2>4. \A v \in Workers : at'[v] # "idle" => task[v] \in Tasks /\ messages[task[v]] \in Files
    BY <2>2, <2>3
  <2>5. \A v \in Workers : at'[v] \in AfterParse => output[v] \in Outputs
    BY <2>2
  <2> QED
    BY <2>1, <2>2, <2>3, <2>4, <2>5
<1>2. ASSUME NEW w \in Workers, MarkParsing(w) PROVE WorkerTypeOK'
  <2>1. documents' \in [Files -> Row]
    BY <1>2 DEF MarkParsing, MarkStatus, SetStatus
  <2>2. /\ at[w] = "mark_parsing"
        /\ at' = [at EXCEPT ![w] = "get_bytes"]
        /\ UNCHANGED <<objects, messages, chunks, delivery, retries, task, output, overtaken,
                       transient, overlapped>>
    BY <1>2 DEF MarkParsing, MarkStatus
  <2> QED
    BY <2>1, <2>2
<1>3. ASSUME NEW w \in Workers, GetBytes(w) PROVE WorkerTypeOK'
  <2>1. CASE Goto(w, "parse") /\ UNCHANGED <<objects, messages, documents, chunks, broker, overlapped>>
    BY <1>3, <2>1 DEF GetBytes
  <2>2. CASE Raise(w, FALSE) /\ UNCHANGED <<objects, messages, documents, chunks, broker, overlapped>>
    BY <1>3, <2>2 DEF GetBytes
  <2> QED
    BY <1>3, <2>1, <2>2 DEF GetBytes
<1>4. ASSUME NEW w \in Workers, GetBytesTimesOut(w) PROVE WorkerTypeOK'
  BY <1>4 DEF GetBytesTimesOut
<1>5. ASSUME NEW w \in Workers, Parse(w) PROVE WorkerTypeOK'
  BY <1>5, OutputsAssumption DEF Parse
<1>6. ASSUME NEW w \in Workers, ParseRaises(w) PROVE WorkerTypeOK'
  BY <1>6 DEF ParseRaises
<1>7. ASSUME NEW w \in Workers, MarkOcr(w) PROVE WorkerTypeOK'
  BY <1>7, OutputsAssumption DEF MarkOcr, SetStatus
<1>8. ASSUME NEW w \in Workers, MarkChunking(w) PROVE WorkerTypeOK'
  BY <1>8 DEF MarkChunking, MarkStatus, SetStatus
<1>9. ASSUME NEW w \in Workers, StoreBegin(w) PROVE WorkerTypeOK'
  BY <1>9 DEF StoreBegin
<1>10. ASSUME NEW w \in Workers, StoreCommit(w) PROVE WorkerTypeOK'
  BY <1>10, OutputsAssumption DEF StoreCommit, RowsOf, RowsFor, Ordinals, ChunkRow
<1>11. ASSUME NEW w \in Workers, StoreConflict(w) PROVE WorkerTypeOK'
  BY <1>11 DEF StoreConflict
<1>12. ASSUME NEW w \in Workers, MarkEmbedding(w) PROVE WorkerTypeOK'
  BY <1>12 DEF MarkEmbedding, MarkStatus, SetStatus
<1>13. ASSUME NEW w \in Workers, Embed(w) PROVE WorkerTypeOK'
  BY <1>13 DEF Embed, Embedded, ChunkRow
<1>14. ASSUME NEW w \in Workers, MarkIndexed(w) PROVE WorkerTypeOK'
  BY <1>14 DEF MarkIndexed, MarkStatus, SetStatus
<1>15. ASSUME NEW w \in Workers, RecordEvents(w) PROVE WorkerTypeOK'
  BY <1>15 DEF RecordEvents, Finish
<1>16. ASSUME NEW w \in Workers, DbError(w) PROVE WorkerTypeOK'
  BY <1>16 DEF DbError, DbSteps
<1>17. ASSUME NEW w \in Workers, MarkFailed(w) PROVE WorkerTypeOK'
  BY <1>17 DEF MarkFailed, MarkStatus, SetStatus
<1>18. ASSUME NEW w \in Workers, Retry(w) PROVE WorkerTypeOK'
  BY <1>18, RetriesAssumption DEF Retry, RetriesLeft
<1>19. ASSUME NEW w \in Workers, GiveUp(w) PROVE WorkerTypeOK'
  BY <1>19 DEF GiveUp, Finish
<1>20. ASSUME NEW w \in Workers, HandlerError(w) PROVE WorkerTypeOK'
  BY <1>20 DEF HandlerError, Finish
<1>21. ASSUME NEW w \in Workers, Crash(w) PROVE WorkerTypeOK'
  BY <1>21 DEF Crash, Finish
<1>22. ASSUME NEW w \in Workers, NEW t \in Tasks, Take(w, t) PROVE WorkerTypeOK'
  BY <1>22, TasksAssumption DEF Take
<1>23. ASSUME NEW t \in Tasks, NEW f \in Files, SendTask(t, f) PROVE WorkerTypeOK'
  BY <1>23, TasksAssumption DEF SendTask
<1>24. ASSUME NEW f \in Files, PutObject(f) PROVE WorkerTypeOK'
  BY <1>24 DEF PutObject
<1>25. ASSUME NEW f \in Files, DeleteObject(f) PROVE WorkerTypeOK'
  BY <1>25 DEF DeleteObject
<1>26. CASE UNCHANGED vars
  BY <1>26 DEF vars, broker, process
<1> QED
  BY <1>1, <1>2, <1>3, <1>4, <1>5, <1>6, <1>7, <1>8, <1>9, <1>10, <1>11,
     <1>12, <1>13, <1>14, <1>15, <1>16, <1>17, <1>18, <1>19, <1>20, <1>21,
     <1>22, <1>23, <1>24, <1>25, <1>26
     DEF Next, WorkerNext, Work, Run, Handle

\* The workers start in their types.
LEMMA WorkerTypeInit == Init => WorkerTypeOK
BY RetriesAssumption
   DEF Init, WorkerInit, WorkerTypeOK, WorkerSteps, AfterParse, Row

\* Every value stays in its type through every step of the handler and of a run,
\* faults and crashes included; a busy worker has a task that was sent for a file,
\* and has its parse's output whenever it uses it; a task is never retried more
\* than max_retries times (ingestion_jobs.py 20-68, ingestion_service.py 31-93).
THEOREM WorkerTyping == Spec => []WorkerTypeOK
BY WorkerTypeInit, WorkerTypeStep, PTL DEF Spec

-----------------------------------------------------------------------------
(* The chunk table. *)

\* What Embed does to a row leaves its file, its ordinal and its text alone.
LEMMA EmbeddedKeepsKey ==
  ASSUME NEW r \in ChunkRow, NEW f, NEW o
  PROVE  /\ Embedded(r, f, o).file = r.file
         /\ Embedded(r, f, o).ordinal = r.ordinal
         /\ Embedded(r, f, o).text = r.text
BY DEF Embedded, ChunkRow

\* Storing vectors keeps the table whole: store_embeddings only updates.
LEMMA EmbeddingKeepsText ==
  ASSUME WorkerTypeOK, ChunksAreWhole, NEW f, NEW o,
         chunks' = {Embedded(r, f, o) : r \in chunks}
  PROVE  ChunksAreWhole'
<1>1. \A r \in chunks : r \in ChunkRow
  BY DEF WorkerTypeOK
<1>2. \A r \in chunks : /\ Embedded(r, f, o).file = r.file
                       /\ Embedded(r, f, o).ordinal = r.ordinal
                       /\ Embedded(r, f, o).text = r.text
  BY <1>1, EmbeddedKeepsKey
<1>3. UniqueKeys'
  <2> SUFFICES ASSUME NEW r \in chunks, NEW s \in chunks,
                      Embedded(r, f, o).file = Embedded(s, f, o).file,
                      Embedded(r, f, o).ordinal = Embedded(s, f, o).ordinal
               PROVE  Embedded(r, f, o) = Embedded(s, f, o)
    BY DEF UniqueKeys
  <2> QED
    BY <1>2 DEF ChunksAreWhole, UniqueKeys
<1>4. ASSUME NEW g \in Files PROVE (RowsOf(g) = {} \/ \E p \in Outputs : WholeOutput(g, p))'
  <2>1. RowsOf(g)' = {Embedded(r, f, o) : r \in RowsOf(g)}
    BY <1>2 DEF RowsOf
  <2>2. CASE RowsOf(g) = {}
    BY <2>1, <2>2
  <2>3. ASSUME NEW p \in Outputs, WholeOutput(g, p) PROVE WholeOutput(g, p)'
    <3>1. \A r \in RowsOf(g) : r \in chunks
      BY DEF RowsOf
    <3>2. {r.ordinal : r \in RowsOf(g)}' = {r.ordinal : r \in RowsOf(g)}
      BY <2>1, <3>1, <1>2
    <3>3. \A r \in RowsOf(g)' : r.text = p
      BY <2>1, <3>1, <1>2, <2>3 DEF WholeOutput
    <3> QED
      BY <3>2, <3>3, <2>3 DEF WholeOutput, Ordinals
  <2> QED
    BY <2>2, <2>3 DEF ChunksAreWhole
<1> QED
  BY <1>3, <1>4 DEF ChunksAreWhole

\* The rows one store_parsed_output adds are one whole output.
LEMMA RowsForIsWhole ==
  ASSUME NEW f, NEW o, NEW v
  PROVE  /\ \A r \in RowsFor(f, o, v) : r.file = f /\ r.text = o /\ r.vector = v
         /\ {r.ordinal : r \in RowsFor(f, o, v)} = Ordinals(o)
         /\ \A r, s \in RowsFor(f, o, v) : r.ordinal = s.ordinal => r = s
<1> DEFINE NewRow(i) == [file |-> f, ordinal |-> i, text |-> o, vector |-> v]
<1>1. RowsFor(f, o, v) = {NewRow(i) : i \in Ordinals(o)}
  BY DEF RowsFor
<1>2. \A i : NewRow(i).file = f /\ NewRow(i).ordinal = i /\ NewRow(i).text = o /\ NewRow(i).vector = v
  OBVIOUS
<1> HIDE DEF NewRow
<1>3. {r.ordinal : r \in {NewRow(i) : i \in Ordinals(o)}} = Ordinals(o)
  BY <1>2
<1> QED
  BY <1>1, <1>2, <1>3

\* A commit leaves the file with one whole output, whether its DELETE saw every row
\* it should have or missed another task's rows whose keys do not collide.
LEMMA StoredRowsAreWhole ==
  ASSUME WorkerTypeOK, ChunksAreWhole, NEW f \in Files, NEW o \in Outputs, NEW missed \in BOOLEAN,
         chunks' = (IF missed THEN chunks ELSE chunks \ RowsOf(f)) \union RowsFor(f, o, NoOutput),
         (\A r \in RowsOf(f) : r.ordinal \notin Ordinals(o)) \/ ~ missed
  PROVE  ChunksAreWhole'
<1> DEFINE new == RowsFor(f, o, NoOutput)
<1>1. /\ \A r \in new : r.file = f /\ r.text = o
      /\ {r.ordinal : r \in new} = Ordinals(o)
      /\ \A r, s \in new : r.ordinal = s.ordinal => r = s
  BY RowsForIsWhole
<1> HIDE DEF new
<1>2. ASSUME NEW g \in Files, g # f PROVE RowsOf(g)' = RowsOf(g)
  BY <1>1, <1>2 DEF RowsOf, new
<1>3. RowsOf(f)' = new \/ RowsOf(f)' = RowsOf(f)
  <2>1. CASE ~ missed
    BY <2>1, <1>1 DEF RowsOf, new
  <2>2. CASE missed
    <3>1. RowsOf(f)' = RowsOf(f) \union new
      BY <2>2, <1>1 DEF RowsOf, new
    <3>2. CASE RowsOf(f) = {}
      BY <3>1, <3>2
    <3>3. ASSUME NEW p \in Outputs, WholeOutput(f, p), RowsOf(f) # {} PROVE new = {}
      <4>1. PICK r \in RowsOf(f) : TRUE
        BY <3>3
      <4>2. r.ordinal \in Ordinals(p)
        BY <3>3 DEF WholeOutput
      <4>3. 0 \in Ordinals(p)
        BY <4>2, OutputsAssumption DEF Ordinals
      <4>4. 0 \notin Ordinals(o)
        BY <4>3, <3>3, <2>2 DEF WholeOutput
      <4>5. Ordinals(o) = {}
        BY <4>4, OutputsAssumption DEF Ordinals
      <4> QED
        BY <4>5, <1>1
    <3> QED
      BY <3>1, <3>2, <3>3 DEF ChunksAreWhole
  <2> QED
    BY <2>1, <2>2
<1>4. \A r \in chunks' : r.file = f => r \in RowsOf(f)'
  BY DEF RowsOf
<1>5. \A r \in chunks' : r.file # f => r \in chunks
  BY <1>1 DEF new
<1>6. UniqueKeys'
  <2>1. \A r, s \in RowsOf(f) : r.ordinal = s.ordinal => r = s
    BY DEF ChunksAreWhole, UniqueKeys, RowsOf
  <2>2. \A r, s \in RowsOf(f)' : r.ordinal = s.ordinal => r = s
    BY <1>3, <1>1, <2>1
  <2> QED
    BY <1>4, <1>5, <2>2 DEF ChunksAreWhole, UniqueKeys
<1>7. ASSUME NEW g \in Files PROVE (RowsOf(g) = {} \/ \E p \in Outputs : WholeOutput(g, p))'
  <2>1. CASE g # f
    <3>1. RowsOf(g)' = RowsOf(g)
      BY <2>1, <1>2
    <3>2. RowsOf(g) = {} \/ \E p \in Outputs : WholeOutput(g, p)
      BY DEF ChunksAreWhole
    <3> QED
      BY <3>1, <3>2 DEF WholeOutput, Ordinals
  <2>2. CASE g = f /\ RowsOf(f)' = new
    BY <2>2, <1>1 DEF WholeOutput, Ordinals
  <2>3. CASE g = f /\ RowsOf(f)' = RowsOf(f)
    BY <2>3 DEF ChunksAreWhole, WholeOutput, Ordinals
  <2> QED
    BY <2>1, <2>2, <2>3, <1>3
<1> QED
  BY <1>6, <1>7 DEF ChunksAreWhole

\* Every other step leaves the table alone.
LEMMA SameChunksAreWhole == ChunksAreWhole /\ chunks' = chunks => ChunksAreWhole'
BY DEF ChunksAreWhole, UniqueKeys, WholeOutput, RowsOf, Ordinals

\* The chunk table never mixes two parses of a file, whatever tasks of the file
\* overlap, fail, are retried or die (persistence/repository.py 149-239).
THEOREM WorkerChunksAreWhole == Spec => []ChunksAreWhole
<1>1. Init => ChunksAreWhole
  BY DEF Init, WorkerInit, ChunksAreWhole, UniqueKeys, RowsOf
<1>2. WorkerTypeOK /\ ChunksAreWhole /\ [Next]_vars => ChunksAreWhole'
  <2> SUFFICES ASSUME WorkerTypeOK, ChunksAreWhole, [Next]_vars PROVE ChunksAreWhole'
    OBVIOUS
  <2>1. ASSUME NEW w \in Workers, StoreCommit(w) PROVE ChunksAreWhole'
    <3>1. FileOf(w) \in Files /\ output[w] \in Outputs /\ ~ KeysTaken(w)
      BY <2>1 DEF StoreCommit, WorkerTypeOK, FileOf, AfterParse
    <3>2. overtaken[w] \in BOOLEAN
      BY DEF WorkerTypeOK
    <3>3. chunks' = (IF overtaken[w] THEN chunks ELSE chunks \ RowsOf(FileOf(w)))
                      \union RowsFor(FileOf(w), output[w], NoOutput)
      BY <2>1 DEF StoreCommit
    <3>4. (\A r \in RowsOf(FileOf(w)) : r.ordinal \notin Ordinals(output[w])) \/ ~ overtaken[w]
      BY <3>1 DEF KeysTaken
    <3> QED
      BY <3>1, <3>2, <3>3, <3>4, StoredRowsAreWhole
  <2>2. ASSUME NEW w \in Workers, Embed(w) PROVE ChunksAreWhole'
    BY <2>2, EmbeddingKeepsText DEF Embed
  <2>3. CASE chunks' = chunks
    BY <2>3, SameChunksAreWhole
  <2>4. (\E w \in Workers : StoreCommit(w) \/ Embed(w)) \/ chunks' = chunks
    BY DEF Next, WorkerNext, Work, Run, Handle, vars, CreateDocument, MarkParsing, GetBytes,
           GetBytesTimesOut, Parse, ParseRaises, MarkOcr, MarkChunking, StoreBegin,
           StoreConflict, MarkEmbedding, MarkIndexed, RecordEvents, DbError, MarkFailed,
           Retry, GiveUp, HandlerError, Crash, Take, SendTask, PutObject, DeleteObject,
           MarkStatus
  <2> QED
    BY <2>1, <2>2, <2>3, <2>4
<1> QED
  BY <1>1, <1>2, WorkerTyping, PTL DEF Spec

-----------------------------------------------------------------------------
(* What a document marked indexed promises. *)

\* A file that never had two workers at once has at most one now.
OneAtATime ==
  \A v, w \in Workers :
    at[v] # "idle" /\ at[w] # "idle" /\ FileOf(v) = FileOf(w) /\ FileOf(w) \notin overlapped
      => v = w

\* The steps between taking the file out of the index and putting it back.
Unpublished ==
  {"get_bytes", "parse", "mark_ocr", "mark_chunking", "store", "storing", "mark_embedding",
   "embed", "mark_indexed"}

\* What the only worker on f has achieved when it is about to perform its next call.
Achieved(w, f) ==
  /\ at[w] \in Unpublished => documents[f] # "indexed"
  /\ at[w] = "storing" => ~ overtaken[w]
  /\ at[w] \in {"mark_embedding", "embed"} => RowsOf(f) = RowsFor(f, output[w], NoOutput)
  /\ at[w] \in {"mark_indexed", "record_events"} => Searchable(f)

RunsAchieve ==
  \A w \in Workers : at[w] # "idle" /\ FileOf(w) \notin overlapped => Achieved(w, FileOf(w))

\* Taking a task while another worker is on its file puts the file among the overlapped.
LEMMA OneAtATimeStep == WorkerTypeOK /\ OneAtATime /\ [Next]_vars => OneAtATime'
<1> SUFFICES ASSUME WorkerTypeOK, OneAtATime, [Next]_vars PROVE OneAtATime'
  OBVIOUS
<1> USE DEF WorkerTypeOK, OneAtATime, FileOf, Goto, GotoWith, Raise, Rest, broker, process
<1>1. ASSUME NEW w \in Workers, CreateDocument(w) PROVE OneAtATime'
  BY <1>1 DEF CreateDocument
<1>2. ASSUME NEW w \in Workers, MarkParsing(w) PROVE OneAtATime'
  BY <1>2 DEF MarkParsing, MarkStatus
<1>3. ASSUME NEW w \in Workers, GetBytes(w) PROVE OneAtATime'
  BY <1>3 DEF GetBytes
<1>4. ASSUME NEW w \in Workers, GetBytesTimesOut(w) PROVE OneAtATime'
  BY <1>4 DEF GetBytesTimesOut
<1>5. ASSUME NEW w \in Workers, Parse(w) PROVE OneAtATime'
  BY <1>5 DEF Parse
<1>6. ASSUME NEW w \in Workers, ParseRaises(w) PROVE OneAtATime'
  BY <1>6 DEF ParseRaises
<1>7. ASSUME NEW w \in Workers, MarkOcr(w) PROVE OneAtATime'
  BY <1>7 DEF MarkOcr
<1>8. ASSUME NEW w \in Workers, MarkChunking(w) PROVE OneAtATime'
  BY <1>8 DEF MarkChunking, MarkStatus
<1>9. ASSUME NEW w \in Workers, StoreBegin(w) PROVE OneAtATime'
  BY <1>9 DEF StoreBegin
<1>10. ASSUME NEW w \in Workers, StoreCommit(w) PROVE OneAtATime'
  BY <1>10 DEF StoreCommit
<1>11. ASSUME NEW w \in Workers, StoreConflict(w) PROVE OneAtATime'
  BY <1>11 DEF StoreConflict
<1>12. ASSUME NEW w \in Workers, MarkEmbedding(w) PROVE OneAtATime'
  BY <1>12 DEF MarkEmbedding, MarkStatus
<1>13. ASSUME NEW w \in Workers, Embed(w) PROVE OneAtATime'
  BY <1>13 DEF Embed
<1>14. ASSUME NEW w \in Workers, MarkIndexed(w) PROVE OneAtATime'
  BY <1>14 DEF MarkIndexed, MarkStatus
<1>15. ASSUME NEW w \in Workers, RecordEvents(w) PROVE OneAtATime'
  BY <1>15 DEF RecordEvents, Finish
<1>16. ASSUME NEW w \in Workers, DbError(w) PROVE OneAtATime'
  BY <1>16 DEF DbError, DbSteps, RunSteps
<1>17. ASSUME NEW w \in Workers, MarkFailed(w) PROVE OneAtATime'
  BY <1>17 DEF MarkFailed, MarkStatus
<1>18. ASSUME NEW w \in Workers, Retry(w) PROVE OneAtATime'
  BY <1>18 DEF Retry
<1>19. ASSUME NEW w \in Workers, GiveUp(w) PROVE OneAtATime'
  BY <1>19 DEF GiveUp, Finish
<1>20. ASSUME NEW w \in Workers, HandlerError(w) PROVE OneAtATime'
  BY <1>20 DEF HandlerError, Finish
<1>21. ASSUME NEW w \in Workers, Crash(w) PROVE OneAtATime'
  BY <1>21 DEF Crash, Finish
<1>22. ASSUME NEW w \in Workers, NEW t \in Tasks, Take(w, t) PROVE OneAtATime'
  BY <1>22, TasksAssumption DEF Take, Busy
<1>23. ASSUME NEW t \in Tasks, NEW f \in Files, SendTask(t, f) PROVE OneAtATime'
  BY <1>23, TasksAssumption DEF SendTask
<1>24. ASSUME NEW f \in Files, PutObject(f) PROVE OneAtATime'
  BY <1>24 DEF PutObject
<1>25. ASSUME NEW f \in Files, DeleteObject(f) PROVE OneAtATime'
  BY <1>25 DEF DeleteObject
<1>26. CASE UNCHANGED vars
  BY <1>26 DEF vars, broker, process
<1> QED
  BY <1>1, <1>2, <1>3, <1>4, <1>5, <1>6, <1>7, <1>8, <1>9, <1>10, <1>11,
     <1>12, <1>13, <1>14, <1>15, <1>16, <1>17, <1>18, <1>19, <1>20, <1>21,
     <1>22, <1>23, <1>24, <1>25, <1>26
     DEF Next, WorkerNext, Work, Run, Handle

\* The rows and the row of a file change only in the steps of a worker on that file.
LEMMA OtherFilesKeep ==
  ASSUME WorkerTypeOK, NEW w \in Workers, Work(w) \/ Crash(w), at[w] # "idle",
         NEW f \in Files, f # FileOf(w)
  PROVE  RowsOf(f)' = RowsOf(f) /\ documents'[f] = documents[f]
<1>1. FileOf(w) \in Files
  BY DEF WorkerTypeOK, FileOf
<1>2. documents'[f] = documents[f]
  BY <1>1 DEF Work, Run, Handle, CreateDocument, MarkParsing, GetBytes,
         GetBytesTimesOut, Parse, ParseRaises, MarkOcr, MarkChunking, StoreBegin, StoreCommit,
         StoreConflict, MarkEmbedding, Embed, MarkIndexed, RecordEvents, DbError, MarkFailed,
         Retry, GiveUp, HandlerError, Crash, MarkStatus, SetStatus, WorkerTypeOK
<1>3. ASSUME StoreCommit(w) PROVE RowsOf(f)' = RowsOf(f)
  <2>1. \A r \in RowsFor(FileOf(w), output[w], NoOutput) : r.file = FileOf(w)
    BY RowsForIsWhole
  <2> QED
    BY <1>3, <2>1 DEF StoreCommit, RowsOf
<1>4. ASSUME Embed(w) PROVE RowsOf(f)' = RowsOf(f)
  <2>1. \A r \in chunks : Embedded(r, FileOf(w), output[w]).file = r.file
    BY EmbeddedKeepsKey DEF WorkerTypeOK
  <2>2. \A r \in chunks : r.file = f => Embedded(r, FileOf(w), output[w]) = r
    BY DEF Embedded
  <2>3. chunks' = {Embedded(r, FileOf(w), output[w]) : r \in chunks}
    BY <1>4 DEF Embed
  <2> QED
    BY <2>1, <2>2, <2>3 DEF RowsOf
<1>5. ASSUME chunks' = chunks PROVE RowsOf(f)' = RowsOf(f)
  BY <1>5 DEF RowsOf
<1>6. StoreCommit(w) \/ Embed(w) \/ chunks' = chunks
  BY DEF Work, Run, Handle, CreateDocument, MarkParsing, GetBytes,
         GetBytesTimesOut, Parse, ParseRaises, MarkOcr, MarkChunking, StoreBegin,
         StoreConflict, MarkEmbedding, MarkIndexed, RecordEvents, DbError, MarkFailed,
         Retry, GiveUp, HandlerError, Crash, MarkStatus
<1> QED
  BY <1>2, <1>3, <1>4, <1>5, <1>6

\* Setting the vectors of exactly the rows of one output gives its searchable rows.
LEMMA EmbeddedRows ==
  ASSUME WorkerTypeOK, NEW f \in Files, NEW o \in Outputs, RowsOf(f) = RowsFor(f, o, NoOutput),
         chunks' = {Embedded(r, f, o) : r \in chunks}
  PROVE  RowsOf(f)' = RowsFor(f, o, o)
<1>1. \A r \in chunks : Embedded(r, f, o).file = r.file
  BY EmbeddedKeepsKey DEF WorkerTypeOK
<1>2. RowsOf(f)' = {Embedded(r, f, o) : r \in RowsOf(f)}
  BY <1>1 DEF RowsOf
<1> DEFINE NewRow(i, v) == [file |-> f, ordinal |-> i, text |-> o, vector |-> v]
<1>3. ASSUME NEW i \in Ordinals(o)
      PROVE  Embedded(NewRow(i, NoOutput), f, o) = NewRow(i, o)
  BY DEF Embedded
<1>4. \A v : RowsFor(f, o, v) = {NewRow(i, v) : i \in Ordinals(o)}
  BY DEF RowsFor
<1> HIDE DEF NewRow
<1>5. RowsOf(f)' = {Embedded(r, f, o) : r \in {NewRow(i, NoOutput) : i \in Ordinals(o)}}
  BY <1>2, <1>4
<1>6. RowsOf(f)' = {NewRow(i, o) : i \in Ordinals(o)}
  BY <1>5, <1>3
<1> QED
  BY <1>6, <1>4

\* A worker alone on its file achieves, at every call, what its next call relies on,
\* and marks the document indexed only when it is searchable.
LEMMA WorkerAchieves ==
  ASSUME WorkerTypeOK, NEW w \in Workers, Work(w) \/ Crash(w), at[w] # "idle",
         NEW f \in Files, f = FileOf(w), Achieved(w, f), documents[f] = "indexed" => Searchable(f)
  PROVE  /\ at'[w] # "idle" => Achieved(w, f)'
         /\ documents'[f] = "indexed" => Searchable(f)'
<1> USE DEF WorkerTypeOK, Goto, GotoWith, Raise, Rest, broker, process
<1>k. ASSUME chunks' = chunks
      PROVE  RowsOf(f)' = RowsOf(f) /\ (Searchable(f)' <=> Searchable(f))
  BY <1>k DEF RowsOf, Searchable, RowsFor, Ordinals
<1>1. CASE CreateDocument(w)
  BY <1>1, <1>k DEF CreateDocument, Achieved, Unpublished
<1>2. CASE MarkParsing(w)
  BY <1>2, <1>k DEF MarkParsing, MarkStatus, SetStatus, Achieved, Unpublished
<1>3. CASE GetBytes(w)
  BY <1>3, <1>k DEF GetBytes, Achieved, Unpublished
<1>4. CASE GetBytesTimesOut(w)
  BY <1>4, <1>k DEF GetBytesTimesOut, Achieved, Unpublished
<1>5. CASE Parse(w)
  BY <1>5, <1>k DEF Parse, Achieved, Unpublished
<1>6. CASE ParseRaises(w)
  BY <1>6, <1>k DEF ParseRaises, Achieved, Unpublished
<1>7. CASE MarkOcr(w)
  BY <1>7, <1>k DEF MarkOcr, SetStatus, Achieved, Unpublished
<1>8. CASE MarkChunking(w)
  BY <1>8, <1>k DEF MarkChunking, MarkStatus, SetStatus, Achieved, Unpublished
<1>9. CASE StoreBegin(w)
  BY <1>9, <1>k DEF StoreBegin, Achieved, Unpublished
<1>10. CASE StoreCommit(w)
  <2>1. \A r \in RowsFor(f, output[w], NoOutput) : r.file = f
    BY RowsForIsWhole
  <2>2. ~ overtaken[w]
    BY <1>10 DEF StoreCommit, Achieved
  <2>3. RowsOf(f)' = RowsFor(f, output[w], NoOutput)
    BY <1>10, <2>1, <2>2 DEF StoreCommit, RowsOf
  <2>4. documents' = documents /\ documents[f] # "indexed" /\ at'[w] = "mark_embedding" /\ output' = output
    BY <1>10 DEF StoreCommit, Achieved, Unpublished
  <2> QED
    BY <2>3, <2>4 DEF Achieved, RowsFor, Ordinals
<1>11. CASE StoreConflict(w)
  BY <1>11, <1>k DEF StoreConflict, Achieved, Unpublished
<1>12. CASE MarkEmbedding(w)
  BY <1>12, <1>k DEF MarkEmbedding, MarkStatus, SetStatus, Achieved, Unpublished
<1>13. CASE Embed(w)
  <2>1. chunks' = {Embedded(r, f, output[w]) : r \in chunks}
    BY <1>13 DEF Embed
  <2>2. RowsOf(f) = RowsFor(f, output[w], NoOutput) /\ output[w] \in Outputs
    BY <1>13 DEF Embed, Achieved, AfterParse
  <2>3. RowsOf(f)' = RowsFor(f, output[w], output[w])
    BY <2>1, <2>2, EmbeddedRows
  <2>4. Searchable(f)'
    BY <2>2, <2>3 DEF Searchable, RowsFor, Ordinals
  <2>5. at'[w] = "mark_indexed" /\ documents' = documents /\ documents[f] # "indexed"
    BY <1>13 DEF Embed, Achieved, Unpublished
  <2> QED
    BY <2>4, <2>5 DEF Achieved
<1>14. CASE MarkIndexed(w)
  BY <1>14, <1>k DEF MarkIndexed, MarkStatus, SetStatus, Achieved, Unpublished
<1>15. CASE RecordEvents(w)
  BY <1>15, <1>k DEF RecordEvents, Finish, Achieved, Unpublished
<1>16. CASE DbError(w)
  BY <1>16, <1>k DEF DbError, Achieved, Unpublished
<1>17. CASE MarkFailed(w)
  BY <1>17, <1>k DEF MarkFailed, MarkStatus, SetStatus, Achieved, Unpublished
<1>18. CASE Retry(w)
  BY <1>18, <1>k DEF Retry, Achieved, Unpublished
<1>19. CASE GiveUp(w)
  BY <1>19, <1>k DEF GiveUp, Finish, Achieved, Unpublished
<1>20. CASE HandlerError(w)
  BY <1>20, <1>k DEF HandlerError, Finish, Achieved, Unpublished
<1>21. CASE Crash(w)
  BY <1>21, <1>k DEF Crash, Finish, Achieved, Unpublished
<1> QED
  BY <1>1, <1>2, <1>3, <1>4, <1>5, <1>6, <1>7, <1>8, <1>9, <1>10, <1>11, <1>12,
     <1>13, <1>14, <1>15, <1>16, <1>17, <1>18, <1>19, <1>20, <1>21
     DEF Work, Run, Handle

\* One step of a worker that runs a task, for all files and all workers.
LEMMA WorkKeepsPromise ==
  ASSUME WorkerTypeOK, OneAtATime, RunsAchieve, SearchableUnlessOverlapped,
         NEW w \in Workers, Work(w) \/ Crash(w), at[w] # "idle"
  PROVE  RunsAchieve' /\ SearchableUnlessOverlapped'
<1>1. PICK f \in Files : f = FileOf(w)
  BY DEF WorkerTypeOK, FileOf
<1>2. overlapped' = overlapped /\ messages' = messages
  BY DEF Work, Run, Handle, CreateDocument, MarkParsing, GetBytes,
         GetBytesTimesOut, Parse, ParseRaises, MarkOcr, MarkChunking, StoreBegin, StoreCommit,
         StoreConflict, MarkEmbedding, Embed, MarkIndexed, RecordEvents, DbError, MarkFailed,
         Retry, GiveUp, HandlerError, Crash, MarkStatus
<1>3. ASSUME NEW v \in Workers, v # w
      PROVE  at'[v] = at[v] /\ task'[v] = task[v] /\ output'[v] = output[v]
  BY <1>3 DEF WorkerTypeOK, Work, Run, Handle, CreateDocument, MarkParsing, GetBytes,
         GetBytesTimesOut, Parse, ParseRaises, MarkOcr, MarkChunking, StoreBegin, StoreCommit,
         StoreConflict, MarkEmbedding, Embed, MarkIndexed, RecordEvents, DbError, MarkFailed,
         Retry, GiveUp, HandlerError, Crash, MarkStatus, Goto, GotoWith, Raise, Rest, Finish
<1>4. ASSUME NEW v \in Workers, v # w, FileOf(v) # f PROVE overtaken'[v] = overtaken[v]
  BY <1>1, <1>4 DEF WorkerTypeOK, Work, Run, Handle, CreateDocument, MarkParsing, GetBytes,
         GetBytesTimesOut, Parse, ParseRaises, MarkOcr, MarkChunking, StoreBegin, StoreCommit,
         StoreConflict, MarkEmbedding, Embed, MarkIndexed, RecordEvents, DbError, MarkFailed,
         Retry, GiveUp, HandlerError, Crash, MarkStatus, Goto, GotoWith, Raise, Rest, Finish
<1>5. at'[w] # "idle" => task'[w] = task[w]
  BY DEF WorkerTypeOK, Work, Run, Handle, CreateDocument, MarkParsing, GetBytes,
         GetBytesTimesOut, Parse, ParseRaises, MarkOcr, MarkChunking, StoreBegin, StoreCommit,
         StoreConflict, MarkEmbedding, Embed, MarkIndexed, RecordEvents, DbError, MarkFailed,
         Retry, GiveUp, HandlerError, Crash, MarkStatus, Goto, GotoWith, Raise, Rest, Finish
<1>6. f \notin overlapped =>
        /\ at'[w] # "idle" => Achieved(w, f)'
        /\ documents'[f] = "indexed" => Searchable(f)'
  BY <1>1, WorkerAchieves DEF RunsAchieve, SearchableUnlessOverlapped
<1>7. ASSUME NEW g \in Files, g # f
      PROVE  RowsOf(g)' = RowsOf(g) /\ documents'[g] = documents[g]
  BY <1>1, <1>7, OtherFilesKeep
<1>8. SearchableUnlessOverlapped'
  BY <1>2, <1>6, <1>7 DEF SearchableUnlessOverlapped, Searchable, RowsFor, Ordinals
<1>9. ASSUME NEW v \in Workers, at'[v] # "idle", FileOf(v)' \notin overlapped'
      PROVE  Achieved(v, FileOf(v))'
  <2>1. CASE v = w
    <3>1. FileOf(w)' = f
      BY <1>1, <1>2, <1>5, <1>9, <2>1 DEF FileOf
    <3> QED
      BY <3>1, <1>2, <1>6, <1>9, <2>1
  <2>2. CASE v # w
    <3>1. /\ at[v] # "idle" /\ at'[v] = at[v] /\ output'[v] = output[v]
          /\ FileOf(v)' = FileOf(v) /\ FileOf(v) \notin overlapped
      BY <1>2, <1>3, <1>9, <2>2 DEF FileOf
    <3>2. FileOf(v) # f
      BY <3>1, <1>1, <2>2 DEF OneAtATime
    <3>3. PICK g \in Files : g = FileOf(v)
      BY <3>1 DEF WorkerTypeOK, FileOf
    <3>4. Achieved(v, g)
      BY <3>1, <3>3 DEF RunsAchieve
    <3>5. RowsOf(g)' = RowsOf(g) /\ documents'[g] = documents[g] /\ overtaken'[v] = overtaken[v]
      BY <3>2, <3>3, <1>4, <1>7, <2>2
    <3>6. Achieved(v, g)'
      BY <3>1, <3>4, <3>5 DEF Achieved, Searchable, RowsFor, Ordinals
    <3> QED
      BY <3>1, <3>3, <3>6
  <2> QED
    BY <2>1, <2>2
<1> QED
  BY <1>8, <1>9 DEF RunsAchieve

\* A step that leaves rows, documents and the workers' progress as they are.
LEMMA IdleStepKeepsPromise ==
  ASSUME WorkerTypeOK, RunsAchieve, SearchableUnlessOverlapped,
         UNCHANGED <<documents, chunks, process, overlapped>>,
         \A t \in Tasks : messages[t] \in Files => messages'[t] = messages[t]
  PROVE  RunsAchieve' /\ SearchableUnlessOverlapped'
<1> USE DEF process
<1>1. \A f \in Files : RowsOf(f)' = RowsOf(f) /\ (Searchable(f)' <=> Searchable(f))
  BY DEF RowsOf, Searchable, RowsFor, Ordinals
<1>2. SearchableUnlessOverlapped'
  BY <1>1 DEF SearchableUnlessOverlapped
<1>3. ASSUME NEW v \in Workers, at'[v] # "idle", FileOf(v)' \notin overlapped'
      PROVE  Achieved(v, FileOf(v))'
  <2>1. PICK g \in Files : g = FileOf(v)
    BY <1>3 DEF WorkerTypeOK, FileOf
  <2>2. FileOf(v)' = g
    BY <2>1, <1>3 DEF WorkerTypeOK, FileOf
  <2>3. Achieved(v, g)
    BY <2>1, <2>2, <1>3 DEF RunsAchieve
  <2>4. Achieved(v, g)'
    BY <2>3, <1>1 DEF Achieved, RowsFor, Ordinals
  <2> QED
    BY <2>2, <2>4
<1> QED
  BY <1>2, <1>3 DEF RunsAchieve

\* A worker that takes a task has achieved nothing yet and relies on nothing.
LEMMA TakeKeepsPromise ==
  ASSUME WorkerTypeOK, RunsAchieve, SearchableUnlessOverlapped,
         NEW w \in Workers, NEW t \in Tasks, Take(w, t)
  PROVE  RunsAchieve' /\ SearchableUnlessOverlapped'
<1> USE DEF Take
<1>1. \A f \in Files : RowsOf(f)' = RowsOf(f) /\ (Searchable(f)' <=> Searchable(f))
  BY DEF RowsOf, Searchable, RowsFor, Ordinals
<1>2. overlapped \subseteq overlapped'
  OBVIOUS
<1>3. SearchableUnlessOverlapped'
  BY <1>1, <1>2 DEF SearchableUnlessOverlapped
<1>4. ASSUME NEW v \in Workers, at'[v] # "idle", FileOf(v)' \notin overlapped'
      PROVE  Achieved(v, FileOf(v))'
  <2>1. CASE v = w
    BY <2>1 DEF Achieved, Unpublished, WorkerTypeOK
  <2>2. CASE v # w
    <3>1. at[v] # "idle" /\ at'[v] = at[v] /\ FileOf(v)' = FileOf(v)
      BY <1>4, <2>2 DEF WorkerTypeOK, FileOf
    <3>2. PICK g \in Files : g = FileOf(v)
      BY <3>1 DEF WorkerTypeOK, FileOf
    <3>3. Achieved(v, g)
      BY <3>1, <3>2, <1>2, <1>4 DEF RunsAchieve
    <3>4. Achieved(v, g)'
      BY <3>1, <3>3, <1>1 DEF Achieved, RowsFor, Ordinals
    <3> QED
      BY <3>1, <3>2, <3>4
  <2> QED
    BY <2>1, <2>2
<1> QED
  BY <1>3, <1>4 DEF RunsAchieve

\* Only a worker that runs a task takes a step of a run, or dies in one.
LEMMA OnlyBusyWork == \A w \in Workers : Work(w) \/ Crash(w) => at[w] # "idle"
BY DEF Work, Run, Handle, CreateDocument, MarkParsing, GetBytes, GetBytesTimesOut,
       Parse, ParseRaises, MarkOcr, MarkChunking, StoreBegin, StoreCommit, StoreConflict,
       MarkEmbedding, Embed, MarkIndexed, RecordEvents, DbError, MarkFailed, Retry, GiveUp,
       HandlerError, Crash, MarkStatus, DbSteps, RunSteps, HandlerSteps

\* What a worker alone on its file has achieved, and what indexed promises, together
\* survive every step of every worker and of the API.
LEMMA WorkerPromise == Spec => [](OneAtATime /\ RunsAchieve /\ SearchableUnlessOverlapped)
<1>1. Init => OneAtATime /\ RunsAchieve /\ SearchableUnlessOverlapped
  BY DEF Init, WorkerInit, OneAtATime, RunsAchieve, SearchableUnlessOverlapped
<1>2. WorkerTypeOK /\ OneAtATime /\ RunsAchieve /\ SearchableUnlessOverlapped /\ [Next]_vars
        => RunsAchieve' /\ SearchableUnlessOverlapped'
  <2> SUFFICES ASSUME WorkerTypeOK, OneAtATime, RunsAchieve, SearchableUnlessOverlapped, [Next]_vars
               PROVE  RunsAchieve' /\ SearchableUnlessOverlapped'
    OBVIOUS
  <2>1. ASSUME NEW w \in Workers, Work(w) \/ Crash(w)
        PROVE  RunsAchieve' /\ SearchableUnlessOverlapped'
    <3>1. at[w] # "idle"
      BY <2>1, OnlyBusyWork
    <3> QED
      BY <2>1, <3>1, WorkKeepsPromise
  <2>2. ASSUME NEW w \in Workers, NEW t \in Tasks, Take(w, t)
        PROVE  RunsAchieve' /\ SearchableUnlessOverlapped'
    BY <2>2, TakeKeepsPromise
  <2>3. ASSUME NEW t \in Tasks, NEW f \in Files, SendTask(t, f)
        PROVE  RunsAchieve' /\ SearchableUnlessOverlapped'
    <3>1. \A u \in Tasks : messages[u] \in Files => messages'[u] = messages[u]
      BY <2>3, TasksAssumption DEF SendTask, WorkerTypeOK
    <3> QED
      BY <2>3, <3>1, IdleStepKeepsPromise DEF SendTask
  <2>4. ASSUME NEW f \in Files, PutObject(f) \/ DeleteObject(f)
        PROVE  RunsAchieve' /\ SearchableUnlessOverlapped'
    BY <2>4, IdleStepKeepsPromise DEF PutObject, DeleteObject
  <2>5. CASE UNCHANGED vars
    BY <2>5, IdleStepKeepsPromise DEF vars
  <2> QED
    BY <2>1, <2>2, <2>3, <2>4, <2>5 DEF Next, WorkerNext
<1> QED
  BY <1>1, <1>2, WorkerTyping, OneAtATimeStep, PTL DEF Spec

\* A document marked indexed has every chunk of one parse in the table, each with
\* its own vector, through faults, retries, crashes and repeated tasks, as long as
\* no two workers ever ran tasks of the file at once (ingestion_service.py 31-89).
THEOREM WorkerSearchable == Spec => []SearchableUnlessOverlapped
BY WorkerPromise, PTL

-----------------------------------------------------------------------------
(* With one worker, what retrieval sees is published and withdrawn whole. *)

\* What retrieval sees of a file follows from its status and its rows.
LEMMA SameView ==
  ASSUME NEW f \in Files, documents'[f] = documents[f], RowsOf(f)' = RowsOf(f)
  PROVE  ViewOf(f)' = ViewOf(f)
BY DEF ViewOf, View

\* The rows of an indexed document are not touched by the only worker on its file.
LEMMA IndexedRowsKept ==
  ASSUME WorkerTypeOK, NEW w \in Workers, Work(w) \/ Crash(w), at[w] # "idle",
         NEW f \in Files, f = FileOf(w), Achieved(w, f), documents[f] = "indexed"
  PROVE  RowsOf(f)' = RowsOf(f)
<1>1. ~ StoreCommit(w) /\ ~ Embed(w)
  BY DEF StoreCommit, Embed, Achieved, Unpublished
<1>2. chunks' = chunks
  BY <1>1 DEF Work, Run, Handle, CreateDocument, MarkParsing, GetBytes,
         GetBytesTimesOut, Parse, ParseRaises, MarkOcr, MarkChunking, StoreBegin,
         StoreConflict, MarkEmbedding, MarkIndexed, RecordEvents, DbError, MarkFailed,
         Retry, GiveUp, HandlerError, Crash, MarkStatus
<1> QED
  BY <1>2 DEF RowsOf

\* A worker alone on its file leaves what retrieval sees of it alone, withdraws it,
\* or publishes one whole output.
LEMMA WorkPublishesWhole ==
  ASSUME WorkerTypeOK, NEW w \in Workers, Work(w) \/ Crash(w), at[w] # "idle",
         NEW f \in Files, f = FileOf(w), Achieved(w, f), documents[f] = "indexed" => Searchable(f)
  PROVE  \/ ViewOf(f)' = ViewOf(f)
         \/ ViewOf(f) # View(FALSE, {}) /\ ViewOf(f)' = View(FALSE, {})
         \/ /\ ViewOf(f) = View(FALSE, {})
            /\ \E o \in Outputs : ViewOf(f)' = View(TRUE, RowsFor(f, o, o))
<1>1. documents'[f] = "indexed" => Searchable(f)'
  BY WorkerAchieves
<1>2. CASE documents[f] = "indexed" /\ documents'[f] = "indexed"
  BY <1>2, IndexedRowsKept, SameView
<1>3. CASE documents[f] = "indexed" /\ documents'[f] # "indexed"
  BY <1>3 DEF ViewOf, View
<1>4. CASE documents[f] # "indexed" /\ documents'[f] = "indexed"
  BY <1>1, <1>4 DEF ViewOf, View, Searchable, RowsFor, Ordinals
<1>5. CASE documents[f] # "indexed" /\ documents'[f] # "indexed"
  BY <1>5 DEF ViewOf, View
<1> QED
  BY <1>2, <1>3, <1>4, <1>5

\* A change of one file's view is a change of the view of the index at that file.
LEMMA OneFileChanges ==
  ASSUME NEW f \in Files, \A g \in Files : g # f => ViewOf(g)' = ViewOf(g)
  PROVE  [g \in Files |-> ViewOf(g)]' = [[g \in Files |-> ViewOf(g)] EXCEPT ![f] = ViewOf(f)']
OBVIOUS

\* The deployment with one worker process, and what it rules out: a file that two
\* workers were ever ingesting at one moment.
OneWorker == \A v, w \in Workers : v = w

NeverOverlapped == overlapped = {}

\* So every step of the only worker is a step of the promised index, or changes nothing in it.
LEMMA WorkIsIndexStep ==
  ASSUME OneWorker, WorkerTypeOK, RunsAchieve, SearchableUnlessOverlapped, NeverOverlapped,
         NEW w \in Workers, Work(w) \/ Crash(w)
  PROVE  [Index!Next]_([f \in Files |-> ViewOf(f)])
<1>1. at[w] # "idle"
  BY OnlyBusyWork
<1>2. PICK f \in Files : f = FileOf(w)
  BY <1>1 DEF WorkerTypeOK, FileOf
<1>3. ASSUME NEW g \in Files, g # f PROVE ViewOf(g)' = ViewOf(g)
  BY <1>1, <1>2, <1>3, OtherFilesKeep, SameView
<1>4. [g \in Files |-> ViewOf(g)]' = [[g \in Files |-> ViewOf(g)] EXCEPT ![f] = ViewOf(f)']
  BY <1>3, OneFileChanges
<1>5. Achieved(w, f) /\ (documents[f] = "indexed" => Searchable(f))
  BY <1>1, <1>2 DEF RunsAchieve, SearchableUnlessOverlapped, NeverOverlapped
<1>6. CASE ViewOf(f)' = ViewOf(f)
  BY <1>3, <1>6
<1>7. CASE ViewOf(f) # View(FALSE, {}) /\ ViewOf(f)' = View(FALSE, {})
  <2>1. Index!Withdraw(f)
    BY <1>4, <1>7 DEF Index!Withdraw
  <2> QED
    BY <2>1 DEF Index!Next
<1>8. ASSUME ViewOf(f) = View(FALSE, {}),
             NEW o \in Outputs, ViewOf(f)' = View(TRUE, RowsFor(f, o, o))
      PROVE  Index!Next
  <2>1. Index!Publish(f)
    BY <1>4, <1>8 DEF Index!Publish
  <2> QED
    BY <2>1 DEF Index!Next
<1> QED
  BY <1>1, <1>2, <1>5, <1>6, <1>7, <1>8, WorkPublishesWhole

\* Steps that are no part of a run leave the index as it is.
LEMMA OtherStepsKeepIndex ==
  ASSUME UNCHANGED <<documents, chunks>>
  PROVE  UNCHANGED [f \in Files |-> ViewOf(f)]
BY DEF ViewOf, View, RowsOf

\* With any number of worker processes, retrieval sees the chunks and vectors of a
\* file that no two of them ever ran at once appear whole, where none were seen, and
\* disappear whole (ingestion_service.py 31-93, chat/retrieval.py 75).
THEOREM WorkerPublishesUnlessOverlapped == Spec => PublishedUnlessOverlapped
<1> DEFINE Published ==
      \A f \in Files :
        \/ f \in overlapped
        \/ ViewOf(f)' \in {ViewOf(f), View(FALSE, {})}
        \/ /\ ViewOf(f) = View(FALSE, {})
           /\ \E o \in Outputs : ViewOf(f)' = View(TRUE, RowsFor(f, o, o))
<1>1. /\ WorkerTypeOK /\ RunsAchieve /\ SearchableUnlessOverlapped /\ [Next]_vars
      => [Published]_vars
  <2> SUFFICES ASSUME WorkerTypeOK, RunsAchieve, SearchableUnlessOverlapped, [Next]_vars
               PROVE  Published
    OBVIOUS
  <2>1. ASSUME NEW w \in Workers, Work(w) \/ Crash(w) PROVE Published
    <3>1. at[w] # "idle"
      BY <2>1, OnlyBusyWork
    <3>2. PICK f \in Files : f = FileOf(w)
      BY <3>1 DEF WorkerTypeOK, FileOf
    <3>3. ASSUME NEW g \in Files, g # f PROVE ViewOf(g)' = ViewOf(g)
      BY <2>1, <3>1, <3>2, <3>3, OtherFilesKeep, SameView
    <3>4. CASE f \notin overlapped
      <4>1. Achieved(w, f) /\ (documents[f] = "indexed" => Searchable(f))
        BY <3>1, <3>2, <3>4 DEF RunsAchieve, SearchableUnlessOverlapped
      <4>2. \/ ViewOf(f)' \in {ViewOf(f), View(FALSE, {})}
            \/ /\ ViewOf(f) = View(FALSE, {})
               /\ \E o \in Outputs : ViewOf(f)' = View(TRUE, RowsFor(f, o, o))
        BY <2>1, <3>1, <3>2, <4>1, WorkPublishesWhole
      <4> QED
        BY <3>3, <4>2
    <3> QED
      BY <3>3, <3>4
  <2>2. CASE UNCHANGED <<documents, chunks>>
    BY <2>2, SameView DEF RowsOf
  <2>3. (\E w \in Workers : Work(w) \/ Crash(w)) \/ UNCHANGED <<documents, chunks>>
    BY DEF Next, WorkerNext, vars, Take, SendTask, PutObject, DeleteObject
  <2> QED
    BY <2>1, <2>2, <2>3
<1> QED
  BY <1>1, WorkerTyping, WorkerPromise, PTL DEF Spec, PublishedUnlessOverlapped

\* With one worker process, whatever fails, is retried or dies, retrieval sees a
\* file's chunks and vectors appear in one step, as the whole output of one parse,
\* and disappear in one step before anything else appears
\* (ingestion_service.py 31-93, chat/retrieval.py 75).
THEOREM WorkerPublishesWhole == ASSUME OneWorker PROVE Spec => PublishedWhole
<1>1. Init => Index!Init
  BY DEF Index!Init, Init, WorkerInit, ViewOf, View
<1>2. Init => NeverOverlapped
  BY DEF Init, WorkerInit, NeverOverlapped
<1>3. NeverOverlapped /\ [Next]_vars => NeverOverlapped'
  <2> SUFFICES ASSUME NeverOverlapped, [Next]_vars PROVE NeverOverlapped'
    OBVIOUS
  <2>1. ASSUME NEW w \in Workers, NEW t \in Tasks, Take(w, t) PROVE overlapped' = overlapped
    <3>1. \A v \in Workers : ~ Busy(v, messages[t])
      BY <2>1 DEF Take, Busy, OneWorker
    <3> QED
      BY <2>1, <3>1 DEF Take
  <2>2. overlapped' = overlapped \/ \E w \in Workers, t \in Tasks : Take(w, t)
    BY DEF Next, WorkerNext, Work, Run, Handle, vars, CreateDocument, MarkParsing, GetBytes,
           GetBytesTimesOut, Parse, ParseRaises, MarkOcr, MarkChunking, StoreBegin, StoreCommit,
           StoreConflict, MarkEmbedding, Embed, MarkIndexed, RecordEvents, DbError, MarkFailed,
           Retry, GiveUp, HandlerError, Crash, SendTask, PutObject, DeleteObject, MarkStatus
  <2> QED
    BY <2>1, <2>2 DEF NeverOverlapped
<1>4. /\ WorkerTypeOK /\ RunsAchieve /\ SearchableUnlessOverlapped /\ NeverOverlapped
      /\ [Next]_vars
      => [Index!Next]_([f \in Files |-> ViewOf(f)])
  <2> SUFFICES ASSUME WorkerTypeOK, RunsAchieve, SearchableUnlessOverlapped, NeverOverlapped,
                      [Next]_vars
               PROVE  [Index!Next]_([f \in Files |-> ViewOf(f)])
    OBVIOUS
  <2>1. ASSUME NEW w \in Workers, Work(w) \/ Crash(w)
        PROVE  [Index!Next]_([f \in Files |-> ViewOf(f)])
    BY <2>1, WorkIsIndexStep
  <2>2. CASE UNCHANGED <<documents, chunks>>
    BY <2>2, OtherStepsKeepIndex
  <2>3. (\E w \in Workers : Work(w) \/ Crash(w)) \/ UNCHANGED <<documents, chunks>>
    BY DEF Next, WorkerNext, vars, Take, SendTask, PutObject, DeleteObject
  <2> QED
    BY <2>1, <2>2, <2>3
<1> QED
  BY <1>1, <1>2, <1>3, <1>4, WorkerTyping, WorkerPromise, PTL
     DEF Spec, PublishedWhole, Index!Spec
=============================================================================
