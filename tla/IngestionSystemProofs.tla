----------------------- MODULE IngestionSystemProofs -----------------------
(***************************************************************************)
(* The composition implements its components, so that what is proved of    *)
(* each component alone holds of the API and the workers together, for any *)
(* number of files, requests, tasks and workers, and every fault.          *)
(***************************************************************************)
EXTENDS IngestionSystem, TLAPS

\* The components again, with what is proved about them.
LP == INSTANCE FileLibraryProofs WITH WorkerWrites <- IngestStatus
WP == INSTANCE IngestionWorkerProofs

\* They are the components that the system composes.
LEMMA SameLibrary ==
  /\ LP!Init <=> Library!Init
  /\ LP!TypeOK <=> Library!TypeOK
  /\ LP!ApiNext <=> Library!ApiNext
  /\ [LP!Next]_(LP!vars) <=> [Library!Next]_(Library!vars)
BY DEF IngestStatus, LP!Cardinality, Library!Cardinality, LP!IngestStatus,
         Library!IngestStatus, LP!ApiStatus, Library!ApiStatus, LP!Status, Library!Status,
         LP!Row, Library!Row, LP!requests, Library!requests, LP!vars, Library!vars,
         LP!Named, Library!Named, LP!UploadSteps, Library!UploadSteps,
         LP!ReprocessSteps, Library!ReprocessSteps,
         LP!DeleteSteps, Library!DeleteSteps, LP!Steps, Library!Steps, LP!NoRows,
         Library!NoRows, LP!Mishap, Library!Mishap, LP!TypeOK, Library!TypeOK, LP!Init,
         Library!Init, LP!Serving, Library!Serving, LP!Start, Library!Start, LP!Goto,
         Library!Goto, LP!Return, Library!Return, LP!Note, Library!Note, LP!Transition,
         Library!Transition, LP!EventLoopBusy, Library!EventLoopBusy, LP!TaskLeft,
         Library!TaskLeft, LP!UploadCreate, Library!UploadCreate, LP!UploadPut,
         Library!UploadPut, LP!UploadPutRaises, Library!UploadPutRaises, LP!UploadQueue,
         Library!UploadQueue, LP!Enqueue, Library!Enqueue, LP!EnqueueRaises,
         Library!EnqueueRaises, LP!ReprocessRead, Library!ReprocessRead, LP!ReprocessWrite,
         Library!ReprocessWrite, LP!DeleteRead, Library!DeleteRead, LP!DeleteMark,
         Library!DeleteMark, LP!DeleteCheck, Library!DeleteCheck, LP!DeleteUnlink,
         Library!DeleteUnlink, LP!DeleteUnlinkTooLate, Library!DeleteUnlinkTooLate,
         LP!DeleteUnlinkRaises, Library!DeleteUnlinkRaises, LP!DeleteTombstone,
         Library!DeleteTombstone, LP!RefreshRead, Library!RefreshRead, LP!Merged,
         Library!Merged, LP!RefreshMerge, Library!RefreshMerge, LP!Restart, Library!Restart,
         LP!Ingest, Library!Ingest, LP!Upload, Library!Upload, LP!Send, Library!Send,
         LP!Delete, Library!Delete, LP!Continue, Library!Continue, LP!Request,
         Library!Request, LP!ApiNext, Library!ApiNext, LP!Next, Library!Next

\* The same, for the workers.
LEMMA SameWorker ==
  /\ WP!WorkerInit <=> Worker!WorkerInit
  /\ WP!WorkerTypeOK <=> Worker!WorkerTypeOK
  /\ WP!WorkerNext <=> Worker!WorkerNext
  /\ [WP!Next]_(WP!vars) <=> [Worker!Next]_(Worker!vars)
BY DEF WP!IngestStatus, Worker!IngestStatus, WP!ApiStatus, Worker!ApiStatus, WP!Status,
         Worker!Status, WP!Row, Worker!Row, WP!broker, Worker!broker, WP!process,
         Worker!process, WP!vars, Worker!vars, WP!RunSteps, Worker!RunSteps, WP!HandlerSteps,
         Worker!HandlerSteps, WP!WorkerSteps, Worker!WorkerSteps, WP!DbSteps, Worker!DbSteps,
         WP!AfterParse, Worker!AfterParse, WP!ChunkRow, Worker!ChunkRow, WP!WorkerTypeOK,
         Worker!WorkerTypeOK, WP!WorkerInit, Worker!WorkerInit, WP!Init, Worker!Init,
         WP!FileOf, Worker!FileOf, WP!Busy, Worker!Busy, WP!Goto, Worker!Goto, WP!GotoWith,
         Worker!GotoWith, WP!Raise, Worker!Raise, WP!Rest, Worker!Rest, WP!SetStatus,
         Worker!SetStatus, WP!MarkStatus, Worker!MarkStatus, WP!Ordinals, Worker!Ordinals,
         WP!RowsOf, Worker!RowsOf, WP!RowsFor, Worker!RowsFor, WP!Take, Worker!Take,
         WP!CreateDocument, Worker!CreateDocument, WP!MarkParsing, Worker!MarkParsing,
         WP!GetBytes, Worker!GetBytes, WP!GetBytesTimesOut, Worker!GetBytesTimesOut,
         WP!Parse, Worker!Parse, WP!ParseRaises, Worker!ParseRaises, WP!MarkOcr,
         Worker!MarkOcr, WP!MarkChunking, Worker!MarkChunking, WP!StoreBegin,
         Worker!StoreBegin, WP!KeysTaken, Worker!KeysTaken, WP!StoreCommit,
         Worker!StoreCommit, WP!StoreConflict, Worker!StoreConflict, WP!MarkEmbedding,
         Worker!MarkEmbedding, WP!Embedded, Worker!Embedded, WP!Embed, Worker!Embed,
         WP!MarkIndexed, Worker!MarkIndexed, WP!Finish, Worker!Finish, WP!RecordEvents,
         Worker!RecordEvents, WP!DbError, Worker!DbError, WP!MarkFailed, Worker!MarkFailed,
         WP!RetriesLeft, Worker!RetriesLeft, WP!Retry, Worker!Retry, WP!GiveUp,
         Worker!GiveUp, WP!HandlerError, Worker!HandlerError, WP!Crash, Worker!Crash,
         WP!SendTask, Worker!SendTask, WP!PutObject, Worker!PutObject, WP!DeleteObject,
         Worker!DeleteObject, WP!Run, Worker!Run, WP!Handle, Worker!Handle, WP!Work,
         Worker!Work, WP!WorkerNext, Worker!WorkerNext, WP!Next, Worker!Next

\* A step of the API is, for the workers, the sending of a task, the storing or the
\* removal of an object, or nothing.
LEMMA ApiIsEnvironment ==
  ASSUME LP!TypeOK, LP!ApiNext, UNCHANGED workerVars
  PROVE  [WP!Next]_(WP!vars)
<1> USE DEF workerVars, WP!vars, WP!broker, WP!process
<1>1. ASSUME NEW c \in Calls, LP!Enqueue(c) PROVE WP!Next
  <2>1. target[c] \in Files
    BY <1>1 DEF LP!Enqueue, LP!TypeOK
  <2> QED
    BY <1>1, <2>1 DEF LP!Enqueue, WP!Next, WP!SendTask
<1>2. ASSUME NEW c \in Calls, LP!UploadPut(c) \/ LP!UploadPutRaises(c) PROVE [WP!Next]_(WP!vars)
  <2>1. target[c] \in Files
    BY <1>2 DEF LP!UploadPut, LP!UploadPutRaises, LP!TypeOK
  <2>2. CASE objects' = objects
    BY <1>2, <2>2 DEF LP!UploadPut, LP!UploadPutRaises
  <2>3. CASE objects' # objects
    <3>1. target[c] \notin objects /\ objects' = objects \union {target[c]}
      BY <1>2, <2>3 DEF LP!UploadPut, LP!UploadPutRaises
    <3> QED
      BY <1>2, <2>1, <3>1 DEF LP!UploadPut, LP!UploadPutRaises, WP!Next, WP!PutObject
  <2> QED
    BY <2>2, <2>3
<1>3. ASSUME NEW c \in Calls, LP!DeleteUnlink(c) PROVE WP!Next
  <2>1. target[c] \in Files
    BY <1>3 DEF LP!DeleteUnlink, LP!TypeOK
  <2> QED
    BY <1>3, <2>1 DEF LP!DeleteUnlink, WP!Next, WP!DeleteObject
<1>4. (\E c \in Calls : \/ LP!Enqueue(c) \/ LP!UploadPut(c)
                    \/ LP!UploadPutRaises(c) \/ LP!DeleteUnlink(c))
        \/ UNCHANGED <<objects, messages, documents>>
  BY DEF LP!ApiNext, LP!Request, LP!Continue, LP!Upload, LP!Send, LP!Delete, LP!Restart,
     LP!RefreshRead, LP!UploadCreate, LP!ReprocessRead, LP!DeleteRead,
     LP!UploadQueue, LP!EnqueueRaises, LP!ReprocessWrite, LP!DeleteMark,
     LP!DeleteCheck, LP!DeleteUnlinkTooLate, LP!DeleteUnlinkRaises,
     LP!DeleteTombstone, LP!RefreshMerge
<1> QED
  BY <1>1, <1>2, <1>3, <1>4

\* A step of a worker is, for the API, a write to the row of a file that was sent.
LEMMA WorkersAreEnvironment ==
  ASSUME WP!WorkerTypeOK, WP!WorkerNext, UNCHANGED apiVars
  PROVE  [LP!Next]_(LP!vars)
<1> USE DEF apiVars, LP!vars, LP!requests
<1>1. objects' = objects /\ messages' = messages
  BY DEF WP!WorkerNext, WP!Work, WP!Run, WP!Handle, WP!Take, WP!MarkStatus,
     WP!CreateDocument, WP!MarkParsing, WP!GetBytes, WP!GetBytesTimesOut, WP!Parse,
     WP!ParseRaises, WP!MarkOcr, WP!MarkChunking, WP!StoreBegin, WP!StoreCommit,
     WP!StoreConflict, WP!MarkEmbedding, WP!Embed, WP!MarkIndexed, WP!RecordEvents,
     WP!DbError, WP!MarkFailed, WP!Retry, WP!GiveUp, WP!HandlerError, WP!Crash
<1>2. documents' = documents
        \/ \E w \in Workers : \E st \in IngestStatus :
             at[w] # "idle" /\ documents' = [documents EXCEPT ![WP!FileOf(w)] = st]
  <2> USE DEF IngestStatus
  <2>1. ASSUME NEW w \in Workers, WP!CreateDocument(w)
        PROVE  documents' = documents \/ documents' = [documents EXCEPT ![WP!FileOf(w)] = "queued"]
    BY <2>1 DEF WP!CreateDocument, WP!WorkerTypeOK
  <2>2. ASSUME NEW w \in Workers, WP!MarkOcr(w)
        PROVE  documents' = documents \/ documents' = [documents EXCEPT ![WP!FileOf(w)] = "OCR_fallback"]
    BY <2>2 DEF WP!MarkOcr, WP!SetStatus
  <2>3. ASSUME NEW w \in Workers, NEW call, NEW st \in IngestStatus, NEW next,
               WP!MarkStatus(w, call, st, next)
        PROVE  at[w] = call
                 /\ (documents' = documents \/ documents' = [documents EXCEPT ![WP!FileOf(w)] = st])
    BY <2>3 DEF WP!MarkStatus, WP!SetStatus
  <2>4. ASSUME NEW w \in Workers, WP!MarkParsing(w)
        PROVE  at[w] = "mark_parsing"
                 /\ (documents' = documents \/ documents' = [documents EXCEPT ![WP!FileOf(w)] = "parsing"])
    BY <2>4, <2>3 DEF WP!MarkParsing
  <2>5. ASSUME NEW w \in Workers, WP!MarkChunking(w)
        PROVE  at[w] = "mark_chunking"
                 /\ (documents' = documents \/ documents' = [documents EXCEPT ![WP!FileOf(w)] = "chunking"])
    BY <2>5, <2>3 DEF WP!MarkChunking
  <2>6. ASSUME NEW w \in Workers, WP!MarkEmbedding(w)
        PROVE  at[w] = "mark_embedding"
                 /\ (documents' = documents \/ documents' = [documents EXCEPT ![WP!FileOf(w)] = "embedding"])
    BY <2>6, <2>3 DEF WP!MarkEmbedding
  <2>7. ASSUME NEW w \in Workers, WP!MarkIndexed(w)
        PROVE  at[w] = "mark_indexed"
                 /\ (documents' = documents \/ documents' = [documents EXCEPT ![WP!FileOf(w)] = "indexed"])
    BY <2>7, <2>3 DEF WP!MarkIndexed
  <2>8. ASSUME NEW w \in Workers, WP!MarkFailed(w)
        PROVE  at[w] = "mark_failed"
                 /\ (documents' = documents \/ documents' = [documents EXCEPT ![WP!FileOf(w)] = "failed"])
    BY <2>8, <2>3 DEF WP!MarkFailed
  <2>9. \/ \E w \in Workers : \/ WP!CreateDocument(w) \/ WP!MarkOcr(w) \/ WP!MarkParsing(w)
                             \/ WP!MarkChunking(w) \/ WP!MarkEmbedding(w) \/ WP!MarkIndexed(w)
                             \/ WP!MarkFailed(w)
        \/ documents' = documents
    BY DEF WP!WorkerNext, WP!Work, WP!Run, WP!Handle, WP!Take, WP!GetBytes,
       WP!GetBytesTimesOut, WP!Parse, WP!ParseRaises, WP!StoreBegin, WP!StoreCommit,
       WP!StoreConflict, WP!Embed, WP!RecordEvents, WP!DbError, WP!Retry, WP!GiveUp,
       WP!HandlerError, WP!Crash
  <2>10. \A w \in Workers : WP!CreateDocument(w) => at[w] = "create_document"
    BY DEF WP!CreateDocument
  <2>11. \A w \in Workers : WP!MarkOcr(w) => at[w] = "mark_ocr"
    BY DEF WP!MarkOcr
  <2> QED
    BY <2>1, <2>2, <2>4, <2>5, <2>6, <2>7, <2>8, <2>9, <2>10, <2>11
<1>3. ASSUME NEW w \in Workers, NEW st \in IngestStatus, at[w] # "idle",
             documents' = [documents EXCEPT ![WP!FileOf(w)] = st]
      PROVE  LP!Next
  <2>1. WP!FileOf(w) \in Files /\ task[w] \in Tasks
    BY <1>3 DEF WP!WorkerTypeOK, WP!FileOf
  <2>2. LP!Ingest(WP!FileOf(w))
    BY <1>1, <1>3, <2>1 DEF LP!Ingest, WP!FileOf
  <2> QED
    BY <2>1, <2>2 DEF LP!Next
<1> QED
  BY <1>1, <1>2, <1>3

\* The types hold in both at once, so neither needs more of the other than its steps.
LEMMA SystemRunsComponents == Spec => LP!Spec /\ WP!Spec
<1>1. Init => LP!Init /\ LP!TypeOK /\ WP!Init /\ WP!WorkerTypeOK
  <2> SUFFICES ASSUME Init PROVE LP!Init /\ LP!TypeOK /\ WP!Init /\ WP!WorkerTypeOK
    OBVIOUS
  <2>1. LP!Init
    BY SameLibrary DEF Init
  <2>2. WP!Init
    BY <2>1, SameWorker DEF Init, LP!Init, LP!NoRows, WP!Init
  <2> QED
    BY <2>1, <2>2, LP!LibraryTypeInit, WP!WorkerTypeInit, IdsAssumption, OutputsAssumption,
       ScannedAssumption, RetriesAssumption, FaultsAssumption
       DEF IngestStatus, LP!IngestStatus
<1>2. LP!TypeOK /\ WP!WorkerTypeOK /\ [Next]_vars
        => [LP!Next]_(LP!vars) /\ [WP!Next]_(WP!vars)
  <2> SUFFICES ASSUME LP!TypeOK, WP!WorkerTypeOK, [Next]_vars
               PROVE  [LP!Next]_(LP!vars) /\ [WP!Next]_(WP!vars)
    OBVIOUS
  <2>1. CASE ApiStep
    BY <2>1, ApiIsEnvironment, SameLibrary DEF ApiStep, LP!Next
  <2>2. CASE WorkerStep
    BY <2>2, WorkersAreEnvironment, SameWorker DEF WorkerStep, WP!Next
  <2>3. CASE UNCHANGED vars
    BY <2>3 DEF vars, apiVars, workerVars, LP!vars, LP!requests, WP!vars, WP!broker, WP!process
  <2> QED
    BY <2>1, <2>2, <2>3 DEF Next
<1>3. LP!TypeOK /\ [LP!Next]_(LP!vars) => LP!TypeOK'
  BY LP!LibraryTypeStep, IdsAssumption, FaultsAssumption DEF IngestStatus, LP!IngestStatus
<1>4. WP!WorkerTypeOK /\ [WP!Next]_(WP!vars) => WP!WorkerTypeOK'
  BY WP!WorkerTypeStep, IdsAssumption, OutputsAssumption, ScannedAssumption, RetriesAssumption,
     FaultsAssumption
<1> QED
  BY <1>1, <1>2, <1>3, <1>4, PTL DEF Spec, LP!Spec, WP!Spec

\* The composition of the API and the workers is an instance of each of them in its
\* environment: what one does to the shared store, broker and rows is what the other
\* allows for, whatever requests, tasks, faults and crashes interleave.
THEOREM SystemImplementsComponents == Spec => ComponentsImplemented
<1>1. LP!Init => Library!Init
  BY SameLibrary
<1>2. [LP!Next]_(LP!vars) => [Library!Next]_(Library!vars)
  BY SameLibrary
<1>3. WP!Init => Worker!Init
  BY SameWorker DEF WP!Init, Worker!Init
<1>4. [WP!Next]_(WP!vars) => [Worker!Next]_(Worker!vars)
  BY SameWorker
<1> QED
  BY SystemRunsComponents, <1>1, <1>2, <1>3, <1>4, PTL
     DEF ComponentsImplemented, LP!Spec, WP!Spec, Library!Spec, Worker!Spec

\* The properties, too, are the components' own.
LEMMA SameProperties ==
  /\ LP!DeletedObjectGone <=> Library!DeletedObjectGone
  /\ LP!NoAbandonedRecord <=> Library!NoAbandonedRecord
  /\ WP!ChunksAreWhole <=> Worker!ChunksAreWhole
  /\ WP!SearchableUnlessOverlapped <=> Worker!SearchableUnlessOverlapped
BY DEF LP!DeletedObjectGone, Library!DeletedObjectGone, LP!NoAbandonedRecord,
         Library!NoAbandonedRecord, LP!UploadedIsOwned, Library!UploadedIsOwned,
         LP!DeletingIsOwned, Library!DeletingIsOwned, LP!QueuedIsOwned,
         Library!QueuedIsOwned, LP!Serving, Library!Serving,
       WP!ChunksAreWhole, Worker!ChunksAreWhole, WP!UniqueKeys, Worker!UniqueKeys,
         WP!WholeOutput, Worker!WholeOutput, WP!RowsOf, Worker!RowsOf, WP!RowsFor,
         Worker!RowsFor, WP!Ordinals, Worker!Ordinals, WP!SearchableUnlessOverlapped,
         Worker!SearchableUnlessOverlapped, WP!Searchable, Worker!Searchable

\* What is proved of each component alone holds of the two together: bytes of deleted
\* files, records in a transient status, whole chunk sets, searchable documents.
THEOREM SystemInvariants ==
  Spec => [](/\ TypeOK
             /\ Library!DeletedObjectGone /\ Library!NoAbandonedRecord
             /\ Worker!ChunksAreWhole /\ Worker!SearchableUnlessOverlapped)
<1> USE IdsAssumption, OutputsAssumption, ScannedAssumption, RetriesAssumption, FaultsAssumption
    DEF IngestStatus, LP!IngestStatus
<1>1. LP!Spec => []LP!TypeOK
  BY LP!LibraryTyping
<1>2. LP!Spec => []LP!DeletedObjectGone
  BY LP!LibraryDeletedObjectGone
<1>3. LP!Spec => []LP!NoAbandonedRecord
  BY LP!LibraryNoAbandonedRecord
<1>4. WP!Spec => []WP!WorkerTypeOK
  BY WP!WorkerTyping
<1>5. WP!Spec => []WP!ChunksAreWhole
  BY WP!WorkerChunksAreWhole
<1>6. WP!Spec => []WP!SearchableUnlessOverlapped
  BY WP!WorkerSearchable
<1>7. /\ LP!TypeOK /\ WP!WorkerTypeOK
      /\ LP!DeletedObjectGone /\ LP!NoAbandonedRecord
      /\ WP!ChunksAreWhole /\ WP!SearchableUnlessOverlapped
      => /\ TypeOK
         /\ Library!DeletedObjectGone /\ Library!NoAbandonedRecord
         /\ Worker!ChunksAreWhole /\ Worker!SearchableUnlessOverlapped
  BY SameLibrary, SameWorker, SameProperties DEF TypeOK
<1> QED
  BY SystemRunsComponents, <1>1, <1>2, <1>3, <1>4, <1>5, <1>6, <1>7, PTL

\* What the components promise of their steps is the same, too.
LEMMA SameLives ==
  /\ (\A f \in Files : LP!Life(f)!Init) <=> (\A f \in Files : Library!Life(f)!Init)
  /\ [\A f \in Files : [LP!Life(f)!Next]_(LP!Life(f)!vars)]_(LP!vars)
       <=> [\A f \in Files : [Library!Life(f)!Next]_(Library!Life(f)!vars)]_(Library!vars)
BY DEF LP!vars, Library!vars, LP!requests, Library!requests, LP!Serving, Library!Serving,
       LP!Before, Library!Before, LP!Writes, Library!Writes, LP!WritersOf, Library!WritersOf,
       LP!RowsRead, Library!RowsRead, LP!Life!Init, Library!Life!Init, LP!Life!Next,
       Library!Life!Next, LP!Life!vars, Library!Life!vars, LP!Life!Then, Library!Life!Then,
       LP!Life!Upload, Library!Life!Upload, LP!Life!Accept, Library!Life!Accept,
       LP!Life!Queue, Library!Life!Queue, LP!Life!Send, Library!Life!Send,
       LP!Life!MarkDeleting, Library!Life!MarkDeleting, LP!Life!Tombstone,
       Library!Life!Tombstone, LP!Life!Report, Library!Life!Report, LP!Life!Read,
       Library!Life!Read, LP!Life!Show, Library!Life!Show, LP!Life!Leave,
       Library!Life!Leave, LP!Life!Forget, Library!Life!Forget, LP!Life!IngestStatus,
       Library!Life!IngestStatus

LEMMA SameForgotten ==
  LET Stay == \A f \in Files : f \in issued /\ records[f] = "absent" => records'[f] = "absent"
  IN  [Stay]_(LP!vars) <=> [Stay]_(Library!vars)
BY DEF LP!vars, Library!vars, LP!requests, Library!requests

LEMMA SameViews ==
  [\A f \in Files :
     \/ f \in overlapped
     \/ (WP!ViewOf(f))' \in {WP!ViewOf(f), WP!View(FALSE, {})}
     \/ /\ WP!ViewOf(f) = WP!View(FALSE, {})
        /\ \E o \in Outputs : (WP!ViewOf(f))' = WP!View(TRUE, WP!RowsFor(f, o, o))]_(WP!vars)
  <=>
  [\A f \in Files :
     \/ f \in overlapped
     \/ (Worker!ViewOf(f))' \in {Worker!ViewOf(f), Worker!View(FALSE, {})}
     \/ /\ Worker!ViewOf(f) = Worker!View(FALSE, {})
        /\ \E o \in Outputs :
             (Worker!ViewOf(f))' = Worker!View(TRUE, Worker!RowsFor(f, o, o))]_(Worker!vars)
BY DEF WP!ViewOf, Worker!ViewOf, WP!View, Worker!View, WP!RowsOf, Worker!RowsOf, WP!RowsFor,
       Worker!RowsFor, WP!Ordinals, Worker!Ordinals, WP!vars, Worker!vars, WP!broker,
       Worker!broker, WP!process, Worker!process

\* What holds of the steps of each component alone holds of the steps of the two
\* together: each file keeps the life that FileLife allows, a record that a restart
\* dropped stays away, and chunks and vectors of a file whose tasks did not overlap
\* appear and disappear whole.
THEOREM SystemSteps ==
  Spec => Library!LivesKept /\ Library!ForgottenStay /\ Worker!PublishedUnlessOverlapped
<1> USE IdsAssumption, OutputsAssumption, ScannedAssumption, RetriesAssumption, FaultsAssumption
    DEF IngestStatus, LP!IngestStatus
<1>1. LP!Spec => LP!LivesKept
  BY LP!LibraryKeepsLives
<1>2. LP!Spec => LP!ForgottenStay
  BY LP!LibraryForgottenStay
<1>3. WP!Spec => WP!PublishedUnlessOverlapped
  BY WP!WorkerPublishesUnlessOverlapped
<1>4. LP!LivesKept => Library!LivesKept
  BY SameLives, PTL DEF LP!LivesKept, Library!LivesKept
<1>5. LP!ForgottenStay => Library!ForgottenStay
  BY SameForgotten, PTL DEF LP!ForgottenStay, Library!ForgottenStay
<1>6. WP!PublishedUnlessOverlapped => Worker!PublishedUnlessOverlapped
  BY SameViews, PTL DEF WP!PublishedUnlessOverlapped, Worker!PublishedUnlessOverlapped
<1> QED
  BY SystemRunsComponents, <1>1, <1>2, <1>3, <1>4, <1>5, <1>6, PTL
=============================================================================
